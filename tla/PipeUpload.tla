---------------------------- MODULE PipeUpload ----------------------------
(***************************************************************************)
(* Streams made while they are sent: project.CopyTo (a tar on the stdin of *)
(* `docker cp`), appstore uploadLPK and TriggerAPK (a multipart body of an *)
(* HTTP request).  A goroutine writes the stream into an io.Pipe, the      *)
(* command or the HTTP transport reads it, and the caller waits for both.  *)
(*                                                                         *)
(* The stream is Chunks pieces of the source and then the trailer (the     *)
(* end of the tar, the last boundary of the multipart body).  The receiver *)
(* is external: it may stop reading at any time, with success or failure.  *)
(***************************************************************************)
EXTENDS Naturals

CONSTANTS Uses, Chunks

ASSUME UsesAssumption == Uses \subseteq {"copy", "upload", "apk"} /\ Uses # {}
ASSUME ChunksAssumption == Chunks \in Nat

VARIABLES
    use,       \* which of the callers
    producer,  \* the goroutine: "waiting" to start, "reading", "writing", "trailer", "ended"
    made,      \* pieces taken from the source
    failed,    \* the goroutine met an error
    pipe,      \* the writer's end: "open", "eof", "error"
    shut,      \* the reader's end is closed
    receiver,  \* "waiting", "reading", "ok", "error"
    got,       \* pieces received
    whole,     \* history: what the receiver saw last is the stream's end
    done,      \* the context has ended
    pc, ret

vars == <<use, producer, made, failed, pipe, shut, receiver, got, whole, done, pc, ret>>

Goroutine == <<producer, made, failed, pipe>>
Receiver  == <<receiver, got, whole>>
Caller    == <<use, pc, ret>>

Init ==
    /\ use \in Uses
    /\ producer = "waiting" /\ made = 0 /\ failed = FALSE
    /\ pipe = "open" /\ shut = FALSE
    /\ receiver = "waiting" /\ got = 0 /\ whole = "no"
    /\ done = FALSE /\ pc = "start" /\ ret = "none"

----------------------------------------------------------------------------
(* The goroutine.                                                           *)

(* Mutant of Close: the writer is closed without the error.                 *)
CloseQuietly(error) == producer' = "ended" /\ failed' = error /\ pipe' = "eof"

(* CloseWithError with the error met, Close without; then the channel.      *)
Close(error) ==
    /\ producer' = "ended"
    /\ failed' = error
    /\ pipe' = IF error THEN "error" ELSE "eof"

(* An error ends the stream at once.  In the tar of CopyTo one that comes   *)
(* between two files is followed by the tar's trailer.                      *)
Break ==
    \/ Close(TRUE)
    \/ use = "copy" /\ producer' = "trailer" /\ failed' = TRUE /\ UNCHANGED pipe

(* The source gives a piece, ends, or fails; the context is asked first.    *)
Read ==
    /\ producer = "reading"
    /\ UNCHANGED <<shut, Receiver, done, Caller>>
    /\ \/ Break /\ UNCHANGED made
       \/ /\ ~done /\ made < Chunks
          /\ producer' = "writing" /\ made' = made + 1
          /\ UNCHANGED <<failed, pipe>>
       \/ /\ ~done /\ made = Chunks
          /\ producer' = "trailer"
          /\ UNCHANGED <<made, failed, pipe>>

(* A write ends when the receiver has taken it.                             *)
Transfer ==
    /\ producer \in {"writing", "trailer"} /\ receiver = "reading" /\ ~shut
    /\ \/ /\ producer = "writing"
          /\ producer' = "reading" /\ got' = got + 1
          /\ UNCHANGED <<failed, pipe, whole>>
       \/ /\ producer = "trailer"
          /\ Close(failed)
          /\ whole' = "trailer" /\ UNCHANGED got
    /\ UNCHANGED <<made, shut, receiver, done, Caller>>

(* A write to a pipe nobody will read fails.                                *)
Refused ==
    /\ producer \in {"writing", "trailer"} /\ shut
    /\ Close(TRUE)
    /\ UNCHANGED <<made, shut, Receiver, done, Caller>>

----------------------------------------------------------------------------
(* The receiver: the end of the stream, an early end, or a cancellation.    *)
Receive ==
    /\ receiver = "reading"
    /\ \/ /\ pipe = "eof"
          /\ receiver' \in {"ok", "error"} /\ whole' = "eof"
       \/ /\ pipe = "error"
          /\ receiver' = "error" /\ UNCHANGED whole
    /\ UNCHANGED <<Goroutine, shut, got, done, Caller>>

StopEarly ==
    /\ receiver = "reading"
    /\ receiver' \in {"ok", "error"}
    /\ UNCHANGED <<Goroutine, shut, got, whole, done, Caller>>

Interrupted ==
    /\ receiver = "reading" /\ done
    /\ receiver' = "error"
    /\ UNCHANGED <<Goroutine, shut, got, whole, done, Caller>>

(* An HTTP transport closes the body it was given, sooner or later; the     *)
(* stdin of a command stays open.                                           *)
CloseBody ==
    /\ use # "copy" /\ receiver \in {"ok", "error"} /\ ~shut
    /\ shut' = TRUE
    /\ UNCHANGED <<Goroutine, Receiver, done, Caller>>

EndContext ==
    /\ ~done /\ pc # "returned" /\ done' = TRUE
    /\ UNCHANGED <<Goroutine, shut, Receiver, Caller>>

----------------------------------------------------------------------------
(* The caller.                                                              *)
Start ==
    /\ pc = "start"
    /\ producer' = "reading"
    /\ \/ receiver' = "reading" /\ pc' = "run" /\ UNCHANGED shut
       \/ use # "copy" /\ receiver' = "error" /\ shut' = TRUE /\ pc' = "join"
    /\ UNCHANGED <<use, made, failed, pipe, got, whole, done, ret>>

(* Mutant of Answered: CopyTo, too, closes its end only on an error.        *)
AnsweredOnError ==
    /\ pc = "run" /\ receiver \in {"ok", "error"}
    /\ shut' = (shut \/ receiver = "error")
    /\ pc' = "join"
    /\ UNCHANGED <<use, Goroutine, Receiver, done, ret>>

(* CopyTo always closes its end of the pipe, the others only on an error.   *)
Answered ==
    /\ pc = "run" /\ receiver \in {"ok", "error"}
    /\ shut' = (shut \/ use = "copy" \/ receiver = "error")
    /\ pc' = "join"
    /\ UNCHANGED <<use, Goroutine, Receiver, done, ret>>

(* Mutant of Join: the goroutine's error is dropped.                        *)
JoinDroppingError ==
    /\ pc = "join" /\ producer = "ended"
    /\ pc' = "returned"
    /\ ret' = IF receiver = "error" THEN "requestFailed" ELSE "ok"
    /\ UNCHANGED <<use, Goroutine, shut, Receiver, done>>

Join ==
    /\ pc = "join" /\ producer = "ended"
    /\ pc' = "returned"
    /\ ret' = IF receiver = "error" THEN "requestFailed" ELSE IF failed THEN "streamFailed" ELSE "ok"
    /\ UNCHANGED <<use, Goroutine, shut, Receiver, done>>

Work == Read \/ Transfer \/ Refused \/ Receive \/ Interrupted \/ CloseBody \/ Start \/ Answered \/ Join

Next == Work \/ StopEarly \/ EndContext

Spec == Init /\ [][Next]_vars

(* Reads of the source end, the receiver reads on and the transport closes  *)
(* the body it was given.                                                   *)
FairSpec == Spec /\ WF_vars(Work)

----------------------------------------------------------------------------
(* Every variable has its type.                                             *)
TypeOK ==
    /\ use \in Uses
    /\ producer \in {"waiting", "reading", "writing", "trailer", "ended"}
    /\ made \in 0..Chunks /\ got \in 0..Chunks /\ failed \in BOOLEAN
    /\ pipe \in {"open", "eof", "error"} /\ shut \in BOOLEAN
    /\ receiver \in {"waiting", "reading", "ok", "error"}
    /\ whole \in {"no", "trailer", "eof"} /\ done \in BOOLEAN
    /\ pc \in {"start", "run", "join", "returned"}
    /\ ret \in {"none", "ok", "requestFailed", "streamFailed"}

(* A call succeeds only when the receiver took the whole source and the     *)
(* trailer after it: not when it stopped early, the source failed half way  *)
(* or the tar was ended in spite of an error.                               *)
SuccessIsWhole == ret = "ok" => got = Chunks /\ whole # "no"

(* No receiver meets the plain end of a stream that lacks a piece; a        *)
(* multipart body is not even ended by its last boundary.                   *)
NoFalseEnd ==
    /\ whole = "eof" => got = Chunks
    /\ whole = "trailer" /\ use # "copy" => got = Chunks

(* The goroutine has ended before the call returns, so that neither the     *)
(* source file nor a reader of the caller's is used afterwards.             *)
Joined == pc = "returned" => producer = "ended"

(* Why: pieces pass one at a time, and until the goroutine has ended its    *)
(* error, its end of the pipe and the end of the stream follow its place.   *)
InStep ==
    /\ producer \in {"waiting", "reading", "trailer"} => made = got
    /\ producer = "writing" => made = got + 1

ErrorKept ==
    /\ failed => producer \in {"trailer", "ended"}
    /\ failed /\ producer = "trailer" => use = "copy"
    /\ producer = "trailer" /\ ~failed => made = Chunks
    /\ pipe = IF producer # "ended" THEN "open" ELSE IF failed THEN "error" ELSE "eof"

EndKept ==
    /\ producer = "ended" /\ ~failed => got = Chunks /\ whole # "no"
    /\ whole # "no" => producer = "ended"
    /\ whole = "eof" => ~failed
    /\ whole = "trailer" /\ failed => use = "copy"

CallKept ==
    /\ pc = "start" => producer = "waiting"
    /\ pc = "returned" => producer = "ended"
    /\ ret = "ok" => producer = "ended" /\ ~failed

IInv == TypeOK /\ InStep /\ ErrorKept /\ EndKept /\ CallKept

(* The call returns, wherever the receiver or the context gave up.          *)
CallReturns == <>(pc = "returned")
=============================================================================
