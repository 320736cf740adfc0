--------------------------- MODULE AppStoreProofs ---------------------------
(***************************************************************************)
(* The safety properties of PipeUpload for sources of any length, those of *)
(* Publish, for packages of any length and any number of publications,     *)
(* troubles and changes by other clients, and those of CopyImage: for any  *)
(* callers, images, platforms and layers, what a call names is in the      *)
(* registry and its progress is final.                                     *)
(***************************************************************************)
EXTENDS Publish, CopyImage, Sequences, TLAPS

-----------------------------------------------------------------------------
(* The upload                                                              *)

(* The initial states satisfy the invariant.                                *)
LEMMA InitKeeps == Init => IInv
<1> SUFFICES ASSUME Init PROVE IInv
  OBVIOUS
<1> USE DEF Init
<1>1. TypeOK
  <2>1. 0 \in 0..Chunks
    BY ChunksAssumption DEF ChunksAssumption
  <2> QED BY <2>1, Zenon DEF TypeOK
<1>2. InStep /\ ErrorKept
  BY DEF InStep, ErrorKept
<1>3. EndKept /\ CallKept
  BY DEF EndKept, CallKept
<1> QED BY <1>1, <1>2, <1>3 DEF IInv

(* The goroutine's own steps, alone or with the receiver, keep it.          *)
LEMMA GoroutineKeeps ==
    ASSUME IInv, Read \/ Transfer \/ Refused
    PROVE  IInv'
<1> USE ChunksAssumption
    DEF ChunksAssumption, IInv, TypeOK, InStep, ErrorKept, EndKept, CallKept, Receiver, Caller
<1>1. CASE Read
  <2>1. CASE Break /\ UNCHANGED made
    <3>1. CASE Close(TRUE)
      BY <1>1, <2>1, <3>1 DEF Read, Close
    <3>2. CASE use = "copy" /\ producer' = "trailer" /\ failed' = TRUE /\ UNCHANGED pipe
      BY <1>1, <2>1, <3>2 DEF Read
    <3> QED BY <2>1, <3>1, <3>2 DEF Break
  <2>2. CASE /\ ~done /\ made < Chunks
             /\ producer' = "writing" /\ made' = made + 1
             /\ UNCHANGED <<failed, pipe>>
    BY <1>1, <2>2 DEF Read
  <2>3. CASE /\ ~done /\ made = Chunks
             /\ producer' = "trailer"
             /\ UNCHANGED <<made, failed, pipe>>
    BY <1>1, <2>3 DEF Read
  <2> QED BY <1>1, <2>1, <2>2, <2>3 DEF Read
<1>2. CASE Transfer
  <2>1. CASE producer = "writing"
    BY <1>2, <2>1 DEF Transfer
  <2>2. CASE producer = "trailer"
    BY <1>2, <2>2 DEF Transfer, Close
  <2> QED BY <1>2, <2>1, <2>2 DEF Transfer
<1>3. CASE Refused
  BY <1>3 DEF Refused, Close
<1> QED BY <1>1, <1>2, <1>3

(* So does the end of the context, which only Read and Interrupted look at. *)
LEMMA ContextKeeps ==
    ASSUME IInv, EndContext
    PROVE  IInv'
<1>1. done' \in BOOLEAN
  BY DEF EndContext
<1>2. UNCHANGED <<use, producer, made, failed, pipe, shut, receiver, got, whole, pc, ret>>
  BY DEF EndContext, Goroutine, Receiver, Caller
<1>3. TypeOK'
  BY <1>1, <1>2 DEF IInv, TypeOK
<1>4. (InStep /\ ErrorKept /\ EndKept /\ CallKept)'
  BY <1>2 DEF IInv, InStep, ErrorKept, EndKept, CallKept
<1> QED BY <1>3, <1>4 DEF IInv

(* So do the receiver, the transport and the caller.                        *)
LEMMA OthersKeep ==
    ASSUME IInv,
           Receive \/ StopEarly \/ Interrupted \/ CloseBody
             \/ Start \/ Answered \/ Join
    PROVE  IInv'
<1> USE DEF IInv, TypeOK, InStep, ErrorKept, EndKept, CallKept, Goroutine, Receiver, Caller
<1>1. CASE Receive
  <2>1. CASE pipe = "eof" /\ receiver' \in {"ok", "error"} /\ whole' = "eof"
    BY <1>1, <2>1 DEF Receive
  <2>2. CASE pipe = "error" /\ receiver' = "error" /\ UNCHANGED whole
    BY <1>1, <2>2 DEF Receive
  <2> QED BY <1>1, <2>1, <2>2 DEF Receive
<1>2. CASE StopEarly \/ Interrupted
  BY <1>2 DEF StopEarly, Interrupted
<1>6. CASE CloseBody
  BY <1>6 DEF CloseBody
<1>3. CASE Start
  BY <1>3 DEF Start
<1>4. CASE Answered
  BY <1>4 DEF Answered
<1>5. CASE Join
  BY <1>5 DEF Join
<1> QED BY <1>1, <1>2, <1>3, <1>4, <1>5, <1>6

(* The invariant holds in every reachable state.                            *)
THEOREM PipeInvariance == Spec => []IInv
<1>1. IInv /\ UNCHANGED vars => IInv'
  BY DEF vars, IInv, TypeOK, InStep, ErrorKept, EndKept, CallKept
<1>2. IInv /\ [Next]_vars => IInv'
  BY <1>1, GoroutineKeeps, ContextKeeps, OthersKeep DEF Next, Work
<1> QED BY InitKeeps, <1>2, PTL DEF Spec

(* CopyTo, uploadLPK and TriggerAPK succeed only when the receiver took the *)
(* whole stream.                                                            *)
THEOREM SuccessMeansWhole == Spec => []SuccessIsWhole
<1>1. IInv => SuccessIsWhole
  BY DEF IInv, CallKept, EndKept, SuccessIsWhole
<1> QED BY <1>1, PipeInvariance, PTL

(* CloseWithError keeps a stream that lacks a piece from ending plainly.    *)
THEOREM TruncationIsSeen == Spec => []NoFalseEnd
<1>1. IInv => NoFalseEnd
  BY DEF IInv, EndKept, NoFalseEnd
<1> QED BY <1>1, PipeInvariance, PTL

(* The goroutine never outlives the call.                                   *)
THEOREM GoroutineJoined == Spec => []Joined
<1>1. IInv => Joined
  BY DEF IInv, CallKept, Joined
<1> QED BY <1>1, PipeInvariance, PTL

-----------------------------------------------------------------------------
(* The publication                                                         *)

(* The initial states satisfy the invariant.                                *)
LEMMA PublishInitKeeps == PublishInit => PublishInv
<1> SUFFICES ASSUME PublishInit PROVE PublishInv
  OBVIOUS
<1>1. IInv
  BY InitKeeps DEF PublishInit
<1>2. CallKnows /\ PlatformKnown /\ ReviewedIsPrechecked /\ RetryCompletes
  BY DEF PublishInit, CallKnows, PlatformKnown, ReviewedIsPrechecked, RetryCompletes,
         Stages, Requests, Publishable, None
<1> QED BY <1>1, <1>2 DEF PublishInv

(* A call starts a stream of its own, whatever the last one left.           *)
LEMMA CallKeeps ==
    ASSUME PublishInv, CallPublish
    PROVE  PublishInv'
<1> USE DEF PublishInv, CallPublish, Enter, End
<1>1. IInv'
  <2>1. 0 \in 0..Chunks
    BY ChunksAssumption DEF ChunksAssumption
  <2>2. TypeOK'
    BY <2>1, Zenon DEF IInv, TypeOK
  <2>3. (InStep /\ ErrorKept /\ EndKept /\ CallKept)'
    BY DEF InStep, ErrorKept, EndKept, CallKept
  <2> QED BY <2>2, <2>3 DEF IInv
<1>2. CallKnows'
  BY DEF CallKnows, Stages, None
<1>3. PlatformKnown'
  BY DEF PlatformKnown
<1>4. ReviewedIsPrechecked'
  BY DEF ReviewedIsPrechecked, store
<1>5. RetryCompletes'
  BY DEF RetryCompletes, Publishable, CallKnows, None
<1> QED BY <1>1, <1>2, <1>3, <1>4, <1>5

(* Between two calls of the stream none of its variables changes.           *)
LEMMA StageKeepsPipe ==
    ASSUME PublishInv, UNCHANGED vars
    PROVE  IInv'
BY DEF PublishInv, vars, IInv, TypeOK, InStep, ErrorKept, EndKept, CallKept

(* A stage fails for what it was given, or in trouble.                      *)
LEMMA EarlyStagesKeep ==
    ASSUME PublishInv, Spool \/ Precheck \/ Check
    PROVE  PublishInv'
<1> USE DEF PublishInv, Enter, End, NoTrouble, Trouble, store
<1>1. IInv'
  BY StageKeepsPipe DEF Spool, Precheck, Check
<1>2. CallKnows'
  <2>1. CASE Spool
    BY <2>1 DEF Spool, CallKnows, Stages, None, vars
  <2>2. CASE Precheck
    BY <2>2 DEF Precheck, CallKnows, Stages, None, vars
  <2>3. CASE Check
    BY <2>3 DEF Check, CallKnows, Stages, None, vars
  <2> QED BY <2>1, <2>2, <2>3
<1>3. PlatformKnown'
  BY DEF Spool, Precheck, Check, PlatformKnown
<1>4. ReviewedIsPrechecked'
  BY DEF Spool, Precheck, Check, ReviewedIsPrechecked
<1>5. RetryCompletes'
  <2>1. CASE Spool
    BY <2>1 DEF Spool, RetryCompletes, Publishable, None
  <2>2. CASE Precheck
    BY <2>2 DEF Precheck, RetryCompletes, Publishable, CallKnows, None
  <2>3. CASE Check
    BY <2>3 DEF Check, RetryCompletes, Publishable, None
  <2> QED BY <2>1, <2>2, <2>3
<1> QED BY <1>1, <1>2, <1>3, <1>4, <1>5

(* The platform refuses a creation only when another client was first.      *)
LEMMA CreateKeeps ==
    ASSUME PublishInv, Create
    PROVE  PublishInv'
<1> USE DEF PublishInv, Create, Enter, End, NoTrouble, Trouble
<1>1. IInv'
  BY StageKeepsPipe
<1>2. CallKnows'
  BY DEF CallKnows, Stages, None, vars
<1>3. PlatformKnown'
  BY DEF PlatformKnown, CallKnows
<1>4. ReviewedIsPrechecked'
  BY DEF ReviewedIsPrechecked
<1>5. RetryCompletes'
  BY DEF RetryCompletes, Publishable, CallKnows, PlatformKnown, None
<1> QED BY <1>1, <1>2, <1>3, <1>4, <1>5

(* What a stream that succeeded has sent is the package, and whole.         *)
LEMMA SentIsPackage ==
    ASSUME PublishInv, ret = "ok", spooled = "clean"
    PROVE  Sent = Package
<1>1. got = Chunks /\ whole # "no"
  BY DEF PublishInv, IInv, CallKept, EndKept
<1> QED BY <1>1 DEF Sent, Package

(* Only an upload that came through is reviewed, and when its answer is       *)
(* complete and names the application.                                      *)
LEMMA UploadedKeeps ==
    ASSUME PublishInv, Uploaded
    PROVE  PublishInv'
<1> USE DEF PublishInv, Uploaded, Enter, End, store
<1>1. IInv'
  BY StageKeepsPipe
<1>2. CallKnows'
  <2>1. spooled = "clean"
    BY DEF CallKnows
  <2>2. stage' = "review" => ret = "ok" /\ Sent = Package
    BY <2>1, SentIsPackage
  <2>3. Accepted([package |-> "own", file |-> Package])
    BY DEF Accepted, Package, Nothing, None
  <2>4. stage' = "review" => Accepted(upload') /\ upload'.file \in {Package, Foreign}
    BY <2>2, <2>3 DEF Answers, Accepted
  <2>5. (stage' = "review" \/ stage' = "idle") /\ ret' = ret /\ request' = request
    BY DEF vars
  <2> QED BY <2>1, <2>2, <2>4, <2>5 DEF CallKnows, Stages, None, vars, Accepted
<1>3. PlatformKnown'
  BY DEF PlatformKnown
<1>4. ReviewedIsPrechecked'
  BY DEF ReviewedIsPrechecked
<1>5. RetryCompletes'
  BY DEF RetryCompletes, Publishable, None
<1> QED BY <1>1, <1>2, <1>3, <1>4, <1>5

(* The review is asked for after a successful upload, which was whole.      *)
LEMMA ReviewKeeps ==
    ASSUME PublishInv, Review
    PROVE  PublishInv'
<1> USE DEF PublishInv, Enter, End, NoTrouble, Trouble
<1> DEFINE asked == [package |-> upload.package, file |-> upload.file, sent |-> Sent]
           put   == IF upload.package \in apps THEN reviews \union {asked} ELSE reviews
<1>0. /\ stage = "review"
      /\ \/ /\ NoTrouble
            /\ End(IF upload.package \in apps THEN "ok" ELSE "failed")
            /\ reviews' = put
         \/ Trouble /\ reviews' \in {reviews, put}
      /\ UNCHANGED <<vars, request, upload, apps, publishes, others>>
  BY DEF Review
<1>a. upload.package = "own"
  BY <1>0 DEF CallKnows, Accepted
<1>1. IInv'
  BY <1>0, StageKeepsPipe
<1>2. CallKnows'
  BY <1>0 DEF CallKnows, Stages, None, vars
<1>3. PlatformKnown'
  BY <1>0 DEF PlatformKnown
<1>4. ReviewedIsPrechecked'
  <2>1. asked.package = "own" /\ asked.file \in {Package, Foreign}
    BY <1>0, <1>a DEF CallKnows
  <2>2. ret = "ok" /\ spooled = "clean"
    BY <1>0 DEF CallKnows
  <2>3. asked.sent = Package
    BY <2>2, SentIsPackage
  <2>4. reviews' = reviews \/ reviews' = reviews \union {asked}
    BY <1>0
  <2> HIDE DEF asked
  <2> QED BY <2>1, <2>3, <2>4 DEF ReviewedIsPrechecked
<1>5. RetryCompletes'
  BY <1>0, <1>a DEF RetryCompletes, Publishable, CallKnows, PlatformKnown, None
<1> QED BY <1>1, <1>2, <1>3, <1>4, <1>5

(* The stream goes on while the call waits for it.                          *)
LEMMA StreamKeeps ==
    ASSUME PublishInv, Stream \/ Stop
    PROVE  PublishInv'
<1> USE DEF PublishInv, publishVars, call, store
<1>1. IInv'
  BY GoroutineKeeps, ContextKeeps, OthersKeep DEF Stream, Stop, Work
<1>2. UNCHANGED <<stage, request, spooled, upload, outcome, troubled, apps, reviews>>
  BY DEF Stream, Stop
<1>3. use' = use
  BY DEF Stream, Stop, Work, Read, Transfer, Refused, Receive, Interrupted, CloseBody, Start,
         Answered, Join, StopEarly, EndContext, Caller
<1>4. stage = "review" => ret' = ret
  BY DEF Stream, Stop, EndContext, Caller, CallKnows
<1>5. CallKnows'
  BY <1>2, <1>3, <1>4 DEF CallKnows
<1>6. (PlatformKnown /\ ReviewedIsPrechecked /\ RetryCompletes)'
  BY <1>2 DEF PlatformKnown, ReviewedIsPrechecked, RetryCompletes, Publishable
<1> QED BY <1>1, <1>5, <1>6

(* What other clients do is trouble.                                        *)
LEMMA OthersKeepCall ==
    ASSUME PublishInv, Others
    PROVE  PublishInv'
<1> USE DEF PublishInv, Others
<1>1. IInv'
  BY StageKeepsPipe
<1>2. CallKnows'
  BY DEF CallKnows, vars
<1>3. (PlatformKnown /\ ReviewedIsPrechecked /\ RetryCompletes)'
  BY DEF PlatformKnown, ReviewedIsPrechecked, RetryCompletes
<1> QED BY <1>1, <1>2, <1>3

(* The invariant holds in every reachable state.                            *)
THEOREM PublishInvariance == PublishSpec => []PublishInv
<1>1. ASSUME PublishInv, UNCHANGED allVars PROVE PublishInv'
  <2>1. IInv'
    BY <1>1, StageKeepsPipe DEF allVars
  <2>2. (CallKnows /\ PlatformKnown /\ ReviewedIsPrechecked /\ RetryCompletes)'
    BY <1>1 DEF PublishInv, allVars, vars, publishVars, call, store, CallKnows, PlatformKnown,
                ReviewedIsPrechecked, RetryCompletes, Publishable
  <2> QED BY <2>1, <2>2 DEF PublishInv
<1>2. ASSUME PublishInv, PublishNext PROVE PublishInv'
  BY <1>2, CallKeeps, EarlyStagesKeep, CreateKeeps, UploadedKeeps, ReviewKeeps, StreamKeeps,
     OthersKeepCall DEF PublishNext, Step
<1> QED BY PublishInitKeeps, <1>1, <1>2, PTL DEF PublishSpec

(* Publish asks the platform to review only the application whose package    *)
(* passed the lint and was sent whole, and of that package, unless the       *)
(* platform's own answer to the upload named another file.                   *)
THEOREM OnlyPrecheckedIsReviewed == PublishSpec => []ReviewedIsPrechecked
<1>1. PublishInv => ReviewedIsPrechecked
  BY DEF PublishInv
<1> QED BY <1>1, PublishInvariance, PTL

(* A publication that failed can be repeated, and leaves no file.           *)
THEOREM PublicationCanBeRepeated == PublishSpec => []RetryCompletes
<1>1. PublishInv => RetryCompletes
  BY DEF PublishInv
<1> QED BY <1>1, PublishInvariance, PTL

-----------------------------------------------------------------------------
(* Image copy                                                              *)

(* A copy has a name, so no result of a call is mistaken for having none.   *)
LEMMA PairIsSome == \A p \in Pairs : p # NoCopy
<1> SUFFICES ASSUME NEW i \in Images, NEW q \in Platforms
             PROVE  <<i, q>> # NoCopy
    BY DEF Pairs
<1>1. Len(<<i, q>>) = 2 /\ Len(<<>>) = 0
    OBVIOUS
<1> QED  BY <1>1 DEF NoCopy

(* The pair a call is about is one the platform has a job for.              *)
LEMMA PairType ==
    ASSUME CopyTypeOK, NEW c \in Callers
    PROVE  Pair(c) \in Pairs /\ Pair(c)[1] = image[c]
BY DEF CopyTypeOK, Pair, Pairs

(* Completing a report of layers drops none and leaves none half done.      *)
LEMMA CompletedReport ==
    ASSUME NEW report \in Progresses
    PROVE  /\ Completed(report) \in Progresses
           /\ Listed(Completed(report)) = Listed(report)
           /\ \A l \in Layers : Completed(report)[l] # "partial"
BY DEF Progresses, Completed, Listed

(* The inventory offers only copies that are stored, of the source asked    *)
(* for (Candidates).                                                        *)
LEMMA CandidatesStored ==
    ASSUME CopyTypeOK, NEW c \in Callers, NEW reference \in Candidates(c)
    PROVE  reference \in stored /\ reference[1] = image[c]
<1>1. PICK r \in Records : r.source = image[c] /\ r.copy # NoCopy /\ reference = r.copy
    BY DEF Candidates
<1>2. PICK p \in Pairs : r = [source |-> p[1], errmsg |-> job[p] = "failed",
                              copy |-> IF p \in stored THEN p ELSE NoCopy]
    BY <1>1 DEF Records
<1> QED  BY <1>1, <1>2

(* CopyInit of CopyIInv: no job has run and no call has begun.              *)
LEMMA InitIInv == CopyInit => CopyIInv
<1> SUFFICES ASSUME CopyInit PROVE CopyIInv
    OBVIOUS
<1>1. Unlisted \in Progresses
    BY DEF Unlisted, Progresses
<1>2. CopyTypeOK
    BY <1>1, BoundsAssumption DEF CopyInit, CopyTypeOK, Jobs, PcSet, Codes, NoCopy
<1> QED  BY <1>2 DEF CopyInit, CopyIInv, CopyInv, CopyExists, FinalProgress, DoneIsStored,
                     OpenCalls, LayersKept, InventoryAfterEnd

(* The platform's own step: a copy is recorded as done when it is stored.   *)
LEMMA CopiedKeeps ==
    ASSUME CopyIInv, NEW p \in Pairs, Copied(p)
    PROVE  CopyIInv'
<1> USE DEF CopyIInv, CopyInv
<1>1. CopyTypeOK'
    BY DEF Copied, CopyTypeOK, Jobs, copyCall
<1>2. CopyExists' /\ DoneIsStored'
    BY DEF Copied, CopyTypeOK, CopyExists, DoneIsStored, copyCall
<1>3. FinalProgress' /\ OpenCalls' /\ LayersKept' /\ InventoryAfterEnd'
    BY DEF Copied, FinalProgress, OpenCalls, LayersKept, InventoryAfterEnd, Listed
<1> QED  BY <1>1, <1>2, <1>3

(* The steps of a call that leave the reports of the platform alone and     *)
(* after which it is not done: the call goes on, or ends with an error.     *)
LEMMA QuietStepKeeps ==
    ASSUME CopyIInv, NEW c \in Callers, copyRet[c] = "none",
           job' \in [Pairs -> Jobs],
           \A p \in Pairs : job'[p] = "done" => job[p] = "done",
           UNCHANGED <<stored, copyCall, layers, told, events, lzcImage>>,
           faults' \in 0..MaxFaults,
           ended' \in [Callers -> {"no", "timeout", "caller"}],
           \/ UNCHANGED <<copyPc, copyRet>>
           \/ \E at \in PcSet \ {"idle", "inventory"} : copyPc' = [copyPc EXCEPT ![c] = at] /\ UNCHANGED copyRet
           \/ \E code \in {"cancelled", "remote"} : Fail(c, code)
    PROVE  CopyIInv'
<1> USE DEF CopyIInv, CopyInv
<1>1. CopyTypeOK'
    BY DEF CopyTypeOK, copyCall, Fail, Codes, PcSet
<1>2. CopyExists' /\ FinalProgress' /\ LayersKept'
    BY DEF CopyTypeOK, copyCall, Fail, CopyExists, FinalProgress, LayersKept, Listed
<1>3. DoneIsStored'
    BY DEF DoneIsStored
<1>4. OpenCalls' /\ InventoryAfterEnd'
    BY DEF CopyTypeOK, Fail, OpenCalls, InventoryAfterEnd, PcSet
<1> QED  BY <1>1, <1>2, <1>3, <1>4

(* A call begins; its deadline passes, or its caller cancels it.            *)
LEMMA BeginKeeps ==
    ASSUME CopyIInv, NEW c \in Callers, Begin(c)
    PROVE  CopyIInv'
<1> USE DEF CopyIInv, CopyInv
<1>1. CopyTypeOK'
    BY DEF Begin, Goto, CopyTypeOK, server, PcSet
<1>2. CopyExists' /\ FinalProgress' /\ LayersKept' /\ DoneIsStored'
    BY DEF Begin, Goto, server, CopyTypeOK, CopyExists, FinalProgress, LayersKept, DoneIsStored, Listed
<1>3. OpenCalls' /\ InventoryAfterEnd'
    BY DEF Begin, Goto, CopyTypeOK, OpenCalls, InventoryAfterEnd
<1> QED  BY <1>1, <1>2, <1>3

(* The context of a call ends.                                              *)
LEMMA EndContextKeeps ==
    ASSUME CopyIInv, NEW c \in Callers, NEW how \in {"timeout", "caller"}, EndCopy(c, how)
    PROVE  CopyIInv'
<1>1. copyRet[c] = "none"
    BY DEF CopyIInv, OpenCalls, EndCopy
<1> QED  BY <1>1, QuietStepKeeps DEF CopyIInv, CopyInv, CopyTypeOK, EndCopy, server, copyCall

(* The requests that fail, the request that starts a copy, and the sleep.   *)
LEMMA QuietActionsKeep ==
    ASSUME CopyIInv, NEW c \in Callers,
           CopyInterrupted(c) \/ RequestFails(c) \/ StartCopy(c) \/ Sleep(c)
    PROVE  CopyIInv'
<1>1. CopyTypeOK /\ Pair(c) \in Pairs
    BY PairType DEF CopyIInv, CopyInv
<1>2. copyRet[c] = "none"
    BY DEF CopyIInv, OpenCalls, CopyInterrupted, RequestFails, StartCopy, Sleep
<1>3. CASE CopyInterrupted(c)
    <2>1. PICK code \in {"cancelled", "remote"} : Fail(c, code)
        BY <1>3 DEF CopyInterrupted
    <2>2. /\ job' \in [Pairs -> Jobs]
          /\ \A p \in Pairs : job'[p] = "done" => job[p] = "done"
        BY <1>1, <1>3 DEF CopyInterrupted, CopyTypeOK, Jobs
    <2> QED  BY <1>1, <1>2, <1>3, <2>1, <2>2, QuietStepKeeps
             DEF CopyInterrupted, Fail, CopyTypeOK
<1>4. CASE RequestFails(c)
    <2>1. /\ job' \in [Pairs -> Jobs]
          /\ \A p \in Pairs : job'[p] = "done" => job[p] = "done"
        BY <1>1, <1>4 DEF RequestFails, CopyTypeOK, Jobs
    <2>2. faults' \in 0..MaxFaults
        BY <1>1, <1>4, BoundsAssumption DEF RequestFails, CopyTypeOK
    <2> QED  BY <1>1, <1>2, <1>4, <2>1, <2>2, QuietStepKeeps
             DEF RequestFails, Fail, CopyTypeOK
<1>5. CASE StartCopy(c)
    <2>1. /\ job' \in [Pairs -> Jobs]
          /\ \A p \in Pairs : job'[p] = "done" => job[p] = "done"
        BY <1>1, <1>5 DEF StartCopy, CopyTypeOK, Jobs
    <2> QED  BY <1>1, <1>2, <1>5, <2>1, QuietStepKeeps
             DEF StartCopy, Goto, CopyTypeOK, PcSet
<1>6. CASE Sleep(c)
    BY <1>1, <1>2, <1>6, QuietStepKeeps DEF Sleep, Goto, Fail, server, CopyTypeOK, PcSet
<1> QED  BY <1>3, <1>4, <1>5, <1>6

(* One answer of the progress endpoint.                                     *)
LEMMA ProgressKeeps ==
    ASSUME CopyIInv, NEW c \in Callers, Progress(c)
    PROVE  CopyIInv'
<1> USE DEF CopyIInv, CopyInv
<1> DEFINE finished == job[Pair(c)] \in {"done", "failed"}
<1>1. PICK report \in Progresses :
         /\ told' = [told EXCEPT ![c] = @ \/ Listed(report) # {}]
         /\ layers' = [layers EXCEPT ![c] =
                         IF finished THEN Completed(Retain(c, report)) ELSE Retain(c, report)]
         /\ events' = [events EXCEPT ![c] = IF finished THEN "finished" ELSE "copying"]
         /\ \/ ~finished /\ Goto(c, "sleep")
            \/ job[Pair(c)] = "failed" /\ Fail(c, "remote")
            \/ job[Pair(c)] = "done" /\ Finish(c, Pair(c))
            \/ job[Pair(c)] = "done" /\ Goto(c, "inventory")
    BY DEF Progress
<1>2. UNCHANGED <<job, stored, image, platform, timed, ended, faults>> /\ copyPc[c] = "poll"
    BY DEF Progress, server, copyCall
<1>3. Pair(c) \in Pairs /\ Pair(c)[1] = image[c] /\ Pair(c) # NoCopy
    BY PairType, PairIsSome
<1>4. copyRet[c] = "none"
    BY <1>2 DEF OpenCalls
<1> DEFINE kept == Retain(c, report)
<1>5. kept \in Progresses /\ (told[c] \/ Listed(report) # {} => Listed(kept) # {})
    BY DEF Retain, CopyTypeOK, LayersKept
<1>6. /\ Completed(kept) \in Progresses
      /\ Listed(Completed(kept)) = Listed(kept)
      /\ \A l \in Layers : Completed(kept)[l] # "partial"
    BY <1>5, CompletedReport
<1> HIDE DEF kept
<1>7. /\ layers'[c] \in Progresses
      /\ told'[c] => Listed(layers'[c]) # {}
      /\ finished => events'[c] = "finished" /\ \A l \in Layers : layers'[c][l] # "partial"
    BY <1>1, <1>5, <1>6 DEF CopyTypeOK, kept
<1>8. layers' \in [Callers -> Progresses] /\ \A d \in Callers \ {c} : layers'[d] = layers[d]
    BY <1>1, <1>7 DEF CopyTypeOK
<1>9. CopyTypeOK'
    <2>1. /\ told' \in [Callers -> BOOLEAN]
          /\ events' \in [Callers -> {"none", "copying", "finished"}]
        BY <1>1 DEF CopyTypeOK
    <2>2. copyPc' \in [Callers -> PcSet] /\ copyRet' \in [Callers -> Codes]
        BY <1>1 DEF CopyTypeOK, Goto, Fail, Finish, PcSet, Codes
    <2>3. /\ lzcImage' \in [Callers -> Pairs \union {NoCopy}]
          /\ \A d \in Callers : lzcImage'[d] # NoCopy <=> copyRet'[d] = "ok"
        BY <1>1, <1>3, <1>4 DEF CopyTypeOK, Goto, Fail, Finish
    <2> QED  BY <1>2, <1>8, <2>1, <2>2, <2>3 DEF CopyTypeOK
<1>10. CopyExists'
    BY <1>1, <1>2, <1>3, <1>4 DEF CopyExists, DoneIsStored, CopyTypeOK, Goto, Fail, Finish
<1>11. /\ \A d \in Callers \ {c} :
             /\ UNCHANGED <<copyPc[d], copyRet[d], told[d], events[d]>> /\ layers'[d] = layers[d]
       /\ copyRet'[c] = "ok" => finished
       /\ copyPc'[c] = "inventory" => finished
       /\ copyPc'[c] # "idle" => copyRet'[c] = "none"
    BY <1>1, <1>4, <1>8 DEF CopyTypeOK, Goto, Fail, Finish
<1>12. FinalProgress' /\ InventoryAfterEnd'
    BY <1>7, <1>11 DEF FinalProgress, InventoryAfterEnd, Listed
<1>13. DoneIsStored' /\ OpenCalls' /\ LayersKept'
    BY <1>2, <1>7, <1>11 DEF DoneIsStored, OpenCalls, LayersKept, Listed
<1> QED  BY <1>9, <1>10, <1>12, <1>13

(* The inventory names the copy that the last answer left out.              *)
LEMMA InventoryKeeps ==
    ASSUME CopyIInv, NEW c \in Callers, Inventory(c)
    PROVE  CopyIInv'
<1>1. copyRet[c] = "none" /\ copyPc[c] = "inventory" /\ CopyTypeOK
    BY DEF CopyIInv, CopyInv, OpenCalls, Inventory
<1>2. CASE Fail(c, "remote")
    BY <1>1, <1>2, QuietStepKeeps DEF Inventory, CopyTypeOK, server, Fail
<1>3. ASSUME NEW reference \in Candidates(c), Finish(c, reference)
      PROVE  CopyIInv'
    <2> USE DEF CopyIInv, CopyInv
    <2>1. reference \in stored /\ reference[1] = image[c]
        BY <1>1, CandidatesStored
    <2>2. reference \in Pairs /\ reference # NoCopy
        BY <2>1, PairIsSome DEF CopyTypeOK
    <2>3. CopyTypeOK'
        BY <1>3, <2>2 DEF Inventory, Finish, CopyTypeOK, server, copyCall, PcSet, Codes
    <2>4. CopyExists' /\ DoneIsStored'
        BY <1>3, <2>1 DEF Inventory, Finish, CopyTypeOK, server, copyCall, CopyExists, DoneIsStored
    <2>5. FinalProgress' /\ LayersKept'
        BY <1>1, <1>3 DEF Inventory, Finish, CopyTypeOK, FinalProgress, LayersKept, InventoryAfterEnd, Listed
    <2>6. OpenCalls' /\ InventoryAfterEnd'
        BY <1>3 DEF Inventory, Finish, CopyTypeOK, OpenCalls, InventoryAfterEnd
    <2> QED  BY <2>3, <2>4, <2>5, <2>6
<1> QED  BY <1>2, <1>3 DEF Inventory

(* Every step keeps CopyIInv.                                               *)
LEMMA NextIInv == CopyIInv /\ [CopyNext]_copyVars => CopyIInv'
<1> SUFFICES ASSUME CopyIInv, [CopyNext]_copyVars PROVE CopyIInv'
    OBVIOUS
<1>1. ASSUME NEW c \in Callers, Begin(c) PROVE CopyIInv'
    BY <1>1, BeginKeeps
<1>2. ASSUME NEW c \in Callers, CopyInterrupted(c) \/ RequestFails(c) \/ StartCopy(c) \/ Sleep(c)
      PROVE CopyIInv'
    BY <1>2, QuietActionsKeep
<1>3. ASSUME NEW c \in Callers, Progress(c) PROVE CopyIInv'
    BY <1>3, ProgressKeeps
<1>4. ASSUME NEW c \in Callers, Inventory(c) PROVE CopyIInv'
    BY <1>4, InventoryKeeps
<1>5. ASSUME NEW c \in Callers, Expire(c) \/ Cancel(c) PROVE CopyIInv'
    BY <1>5, EndContextKeeps DEF Expire, Cancel
<1>6. ASSUME NEW p \in Pairs, Copied(p) PROVE CopyIInv'
    BY <1>6, CopiedKeeps
<1>7. CASE UNCHANGED copyVars
    BY <1>7 DEF copyVars, server, copyCall, CopyIInv, CopyInv, CopyTypeOK, CopyExists, FinalProgress,
                DoneIsStored, OpenCalls, LayersKept, InventoryAfterEnd, Listed
<1> QED  BY <1>1, <1>2, <1>3, <1>4, <1>5, <1>6, <1>7 DEF CopyNext, CopyWork

(* A call of CopyImage names a copy exactly when it succeeds: the copy is   *)
(* in the registry, of the source asked for, also when the last answer left *)
(* its name out or another caller restarted the job; and its last event     *)
(* lists no layer half done, nor forgets the layers once reported.          *)
THEOREM SuccessfulCopyExists == CopySpec => []CopyInv
<1>1. CopyInit => CopyIInv
    BY InitIInv
<1>2. CopyIInv /\ [CopyNext]_copyVars => CopyIInv'
    BY NextIInv
<1>3. CopyIInv => CopyInv
    BY DEF CopyIInv
<1> QED  BY <1>1, <1>2, <1>3, PTL DEF CopySpec
=============================================================================
