----------------------------- MODULE CopyImage -----------------------------
(***************************************************************************)
(* Client.CopyImage (appstore/images.go): callers ask the developer        *)
(* platform to copy an image into its registry and poll until it is done.  *)
(*                                                                         *)
(* One action of a caller is one request with the local code up to the     *)
(* next.  The platform is external: it copies in its own time, callers of  *)
(* the same image and platform share its job, and its last answer may      *)
(* leave out the layers and the name of the copy.  A deadline of the call  *)
(* (Timeout) and a cancellation by the caller end the same context.        *)
(***************************************************************************)
EXTENDS Naturals, FiniteSets

CONSTANTS
    Callers,
    Images,
    Platforms,
    Layers,
    MaxFaults      \* bound: requests that fail

ASSUME BoundsAssumption == MaxFaults \in Nat

VARIABLES
    job,      \* the platform's job for an image and platform
    stored,   \* copies in the registry
    copyPc, image, platform,
    timed,    \* the call has a Timeout
    ended,    \* how the call's context ended: "no", "timeout", "caller"
    layers,   \* lastLayers: progress of the layers last reported
    told,     \* history: the platform reported layers to this call
    events,   \* OnProgress: "none", "copying", "finished"
    lzcImage, \* LazyCatImage of the result
    copyRet, faults

server == <<job, stored>>
copyCall == <<image, platform, timed>>
copyVars == <<server, copyPc, copyCall, ended, layers, told, events, lzcImage, copyRet, faults>>

Pairs  == Images \X Platforms
NoCopy == <<>>
Jobs   == {"none", "copying", "done", "failed"}
PcSet  == {"idle", "start", "poll", "inventory", "sleep"}
Codes  == {"none", "ok", "cancelled", "remote"}
(* A layer not in lastLayers is "unlisted".                                *)
Progresses == [Layers -> {"unlisted", "partial", "full"}]
Unlisted   == [l \in Layers |-> "unlisted"]
Listed(report) == {l \in Layers : report[l] # "unlisted"}

Pair(c) == <<image[c], platform[c]>>

CopyInit ==
    /\ job = [p \in Pairs |-> "none"] /\ stored = {}
    /\ copyPc = [c \in Callers |-> "idle"]
    /\ image \in [Callers -> Images] /\ platform \in [Callers -> Platforms]
    /\ timed = [c \in Callers |-> FALSE]
    /\ ended = [c \in Callers |-> "no"]
    /\ layers = [c \in Callers |-> Unlisted]
    /\ told = [c \in Callers |-> FALSE]
    /\ events = [c \in Callers |-> "none"]
    /\ lzcImage = [c \in Callers |-> NoCopy]
    /\ copyRet = [c \in Callers |-> "none"]
    /\ faults = 0

----------------------------------------------------------------------------
(* The platform works on its jobs; a copy that is stored stays stored.      *)
Copied(p) ==
    /\ job[p] = "copying"
    /\ \/ job' = [job EXCEPT ![p] = "done"] /\ stored' = stored \union {p}
       \/ job' = [job EXCEPT ![p] = "failed"] /\ UNCHANGED stored
    /\ UNCHANGED <<copyPc, copyCall, ended, layers, told, events, lzcImage, copyRet, faults>>

----------------------------------------------------------------------------
Goto(c, at) == copyPc' = [copyPc EXCEPT ![c] = at] /\ UNCHANGED <<lzcImage, copyRet>>

Fail(c, code) ==
    /\ copyPc' = [copyPc EXCEPT ![c] = "idle"]
    /\ copyRet' = [copyRet EXCEPT ![c] = code]
    /\ UNCHANGED lzcImage

Finish(c, reference) ==
    /\ copyPc' = [copyPc EXCEPT ![c] = "idle"]
    /\ copyRet' = [copyRet EXCEPT ![c] = "ok"]
    /\ lzcImage' = [lzcImage EXCEPT ![c] = reference]

(* context.WithTimeout when the request has a Timeout.                      *)
Begin(c) ==
    /\ copyPc[c] = "idle" /\ copyRet[c] = "none"
    /\ Goto(c, "start")
    /\ \E hasTimeout \in BOOLEAN : timed' = [timed EXCEPT ![c] = hasTimeout]
    /\ UNCHANGED <<server, image, platform, ended, layers, told, events, faults>>

(* Mutant of CopyInterrupted: the Timeout is not put into the requests.     *)
InterruptedByCaller(c) ==
    /\ copyPc[c] \in {"start", "poll", "inventory"} /\ ended[c] = "caller"
    /\ Fail(c, IF copyPc[c] = "inventory" THEN "remote" ELSE "cancelled")
    /\ UNCHANGED <<server, copyCall, ended, layers, told, events, faults>>

(* A request whose context has ended fails, served or not: as cancelled, or *)
(* as the platform's fault when the answer was being read.                  *)
CopyInterrupted(c) ==
    /\ copyPc[c] \in {"start", "poll", "inventory"} /\ ended[c] # "no"
    /\ \E code \in {"cancelled", "remote"} :
         (copyPc[c] = "inventory" => code = "remote") /\ Fail(c, code)
    /\ \/ UNCHANGED job
       \/ copyPc[c] = "start" /\ job' = [job EXCEPT ![Pair(c)] = "copying"]
    /\ UNCHANGED <<stored, copyCall, ended, layers, told, events, faults>>

(* The answer is lost or is an error; the request may have been served.     *)
RequestFails(c) ==
    /\ copyPc[c] \in {"start", "poll", "inventory"} /\ faults < MaxFaults
    /\ faults' = faults + 1
    /\ Fail(c, "remote")
    /\ \/ UNCHANGED job
       \/ copyPc[c] = "start" /\ job' = [job EXCEPT ![Pair(c)] = "copying"]
    /\ UNCHANGED <<stored, copyCall, ended, layers, told, events>>

StartCopy(c) ==
    /\ copyPc[c] = "start" /\ ended[c] = "no"
    /\ \/ job' = [job EXCEPT ![Pair(c)] = "copying"]
       \/ job[Pair(c)] = "done" /\ UNCHANGED job
    /\ Goto(c, "poll")
    /\ UNCHANGED <<stored, copyCall, ended, layers, told, events, faults>>

(* lastLayers: a report with no layers leaves the ones reported before.     *)
Retain(c, report) == IF Listed(report) = {} THEN layers[c] ELSE report

(* At the end every layer retained counts as copied.                        *)
Completed(report) ==
    [l \in Layers |-> IF report[l] = "unlisted" THEN "unlisted" ELSE "full"]

(* One answer of the progress endpoint, with OnProgress.                    *)
Progress(c) ==
    /\ copyPc[c] = "poll" /\ ended[c] = "no"
    /\ \E report \in Progresses :
         LET finished == job[Pair(c)] \in {"done", "failed"}
             retained == Retain(c, report)
         IN /\ told' = [told EXCEPT ![c] = @ \/ Listed(report) # {}]
            /\ layers' = [layers EXCEPT ![c] =
                            IF finished THEN Completed(retained) ELSE retained]
            /\ events' = [events EXCEPT ![c] = IF finished THEN "finished" ELSE "copying"]
            /\ \/ ~finished /\ Goto(c, "sleep")
               \/ job[Pair(c)] = "failed" /\ Fail(c, "remote")
               \/ job[Pair(c)] = "done" /\ Finish(c, Pair(c))
               \/ job[Pair(c)] = "done" /\ Goto(c, "inventory")
    /\ UNCHANGED <<server, copyCall, ended, faults>>

(* One record for each job there was.                                       *)
Records ==
    {[source |-> p[1], errmsg |-> job[p] = "failed", copy |-> IF p \in stored THEN p ELSE NoCopy] :
        p \in {q \in Pairs : job[q] # "none"}}

(* Mutant of Candidates: records of failed and unfinished copies count.     *)
CandidatesAny(c) == {r.copy : r \in {s \in Records : s.source = image[c]}}

(* copiedImageFromInventory: the latest record of the source without an     *)
(* error that names a registry image.                                       *)
Candidates(c) ==
    {r.copy : r \in {s \in Records : s.source = image[c] /\ ~s.errmsg /\ s.copy # NoCopy}}

Inventory(c) ==
    /\ copyPc[c] = "inventory" /\ ended[c] = "no"
    /\ \/ \E reference \in Candidates(c) : Finish(c, reference)
       \/ Candidates(c) = {} /\ Fail(c, "remote")
    /\ UNCHANGED <<server, copyCall, ended, layers, told, events, faults>>

(* select: the poll interval passes, or the context has ended.              *)
Sleep(c) ==
    /\ copyPc[c] = "sleep"
    /\ \/ Goto(c, "poll")
       \/ ended[c] # "no" /\ Fail(c, "cancelled")
    /\ UNCHANGED <<server, copyCall, ended, layers, told, events, faults>>

EndCopy(c, how) ==
    /\ copyPc[c] # "idle" /\ ended[c] = "no"
    /\ ended' = [ended EXCEPT ![c] = how]
    /\ UNCHANGED <<server, copyPc, copyCall, layers, told, events, lzcImage, copyRet, faults>>

Expire(c) == timed[c] /\ EndCopy(c, "timeout")
Cancel(c) == EndCopy(c, "caller")

CopyWork(c) == CopyInterrupted(c) \/ StartCopy(c) \/ Progress(c) \/ Inventory(c) \/ Sleep(c)

(* Every call is made once; then the system rests.                          *)
CopyNext ==
    \/ \E c \in Callers :
         Begin(c) \/ CopyWork(c) \/ RequestFails(c) \/ Expire(c) \/ Cancel(c)
    \/ \E p \in Pairs : Copied(p)

CopySpec == CopyInit /\ [][CopyNext]_copyVars

(* Requests are answered, sleeps end and deadlines pass.  The platform need *)
(* not ever finish a copy.                                                  *)
FairCopySpec == CopySpec /\ \A c \in Callers : WF_copyVars(CopyWork(c)) /\ WF_copyVars(Expire(c))

----------------------------------------------------------------------------
(* Every variable has its type, and a call has a result if it succeeded.    *)
CopyTypeOK ==
    /\ job \in [Pairs -> Jobs] /\ stored \subseteq Pairs
    /\ copyPc \in [Callers -> PcSet]
    /\ image \in [Callers -> Images] /\ platform \in [Callers -> Platforms]
    /\ timed \in [Callers -> BOOLEAN]
    /\ ended \in [Callers -> {"no", "timeout", "caller"}]
    /\ layers \in [Callers -> Progresses] /\ told \in [Callers -> BOOLEAN]
    /\ events \in [Callers -> {"none", "copying", "finished"}]
    /\ lzcImage \in [Callers -> Pairs \union {NoCopy}] /\ copyRet \in [Callers -> Codes]
    /\ \A c \in Callers : lzcImage[c] # NoCopy <=> copyRet[c] = "ok"
    /\ faults \in 0..MaxFaults

(* A copy that succeeds names an image that is in the registry and comes    *)
(* from the source asked for, also when the platform's last answer did not  *)
(* name it, another caller restarted the job or another platform's copy of  *)
(* the source failed.                                                       *)
CopyExists ==
    \A c \in Callers :
        copyRet[c] = "ok" => lzcImage[c] \in stored /\ lzcImage[c][1] = image[c]

(* The progress of a copy that succeeds lists no layer half done, and lists *)
(* layers if the platform ever reported any to the call.                    *)
FinalProgress ==
    \A c \in Callers :
        copyRet[c] = "ok" =>
            /\ events[c] = "finished"
            /\ \A l \in Layers : layers[c][l] # "partial"
            /\ told[c] => Listed(layers[c]) # {}

(* A call names a copy exactly when it succeeds; what it names is there and  *)
(* its progress is final, whatever answers were lost or left things out.    *)
CopyInv == CopyTypeOK /\ CopyExists /\ FinalProgress

(* "DEADLINE_EXCEEDED: Image copy, app startup, or state wait exceeded its  *)
(* timeout" (README.md): CANCELLED is for calls the caller cancelled.       *)
TimeoutIsNotCancellation ==
    \A c \in Callers : copyRet[c] = "cancelled" => ended[c] # "timeout"

(* A call with a Timeout returns, whatever the platform does.               *)
TimedCallsReturn == \A c \in Callers : timed[c] ~> copyPc[c] = "idle"

----------------------------------------------------------------------------
(* What makes CopyInv inductive: a job that is done has stored its copy, a  *)
(* call under way has no result yet, a report of layers is never forgotten, *)
(* and the inventory is asked only after the last event.                    *)
DoneIsStored == \A p \in Pairs : job[p] = "done" => p \in stored

OpenCalls == \A c \in Callers : copyPc[c] # "idle" => copyRet[c] = "none"

LayersKept == \A c \in Callers : told[c] => Listed(layers[c]) # {}

InventoryAfterEnd ==
    \A c \in Callers :
        copyPc[c] = "inventory" =>
            events[c] = "finished" /\ \A l \in Layers : layers[c][l] # "partial"

CopyIInv == CopyInv /\ DoneIsStored /\ OpenCalls /\ LayersKept /\ InventoryAfterEnd
=============================================================================
