--------------------------- MODULE AppLifecycle ---------------------------
(***************************************************************************)
(* project.Service (project/service.go, deploy.go, lifecycle.go, wait.go): *)
(* clients that deploy, start, restart, stop, wait for and uninstall one   *)
(* application on a LazyCat box they share.                                *)
(*                                                                         *)
(* One action of a client is one backend command with the local code up to *)
(* the next one.  The box is external: it takes a command at once and      *)
(* follows it in its own time.  A client may give up on a command (lost    *)
(* connection, cancelled context) that the box takes later, or never.      *)
(***************************************************************************)
EXTENDS Naturals

CONSTANTS
    Clients,
    Nobody,
    Versions,      \* backend versions to consider
    MaxCalls,      \* bound: calls of the service
    MaxFaults,     \* bound: commands a client gives up on
    MaxRuns        \* bound: times the application comes up

ASSUME NobodyAssumption == Nobody \notin Clients
ASSUME VersionsAssumption == Versions \subseteq {"preV2", "waits", "pending"} /\ Versions # {}
ASSUME BoundsAssumption == MaxCalls \in Nat /\ MaxFaults \in Nat /\ MaxRuns \in Nat

VARIABLES
    version,   \* of the backend: before LPKV2, before pending sync, or after
    status,    \* what AppInfo reports
    goal,      \* what the box was last told to make of the application
    pkg,       \* whose deployment the installed package is
    devid,     \* whose dev.id it carries
    runs,      \* how often the application has come up
    orphans,   \* commands given up on that the box may still take
    pc,        \* where each client is
    op,        \* the call it is in
    waiting,   \* Wait: the state waited for
    then,      \* Wait: where the call goes on
    expired,   \* Wait: its deadline has passed
    base,      \* history: runs when the call first looked
    ret,       \* how its last call ended
    calm,      \* history: clients since whose first command of their call only they commanded
    overlap,   \* history: a deployment's command met another deployment, or came as an orphan
    calls, faults

box    == <<status, goal, pkg, devid, runs>>
client == <<pc, op, waiting, then, expired, base, ret>>
vars   == <<version, box, orphans, client, calm, overlap, calls, faults>>

Owners    == Clients \union {Nobody}
Statuses  == {"absent", "starting", "running", "paused", "error"}
Commands  == {"install", "syncDevID", "pause", "resume", "uninstall"}
Ops       == {"none", "deploy", "start", "restart", "stop", "wait", "uninstall"}
States    == {"running", "notRunning", "starting", "devshell"}
DeployPcs == {"backendInfo", "install", "syncDevID", "deployInfo"}
WaitPcs   == {"poll", "isDevshell", "deadline", "sleep"}
PcSet     == {"idle", "look", "pause", "resume", "uninstall"} \union DeployPcs \union WaitPcs
Codes     == {"none", "ok", "incompatible", "commandFailed", "deadline", "cancelled", "failed"}

Running  == status = "running"
(* terminalStartupState *)
Terminal == status \in {"paused", "error"}

Deploying(c) == op[c] = "deploy" /\ pc[c] # "idle"

Init ==
    /\ version \in Versions
    /\ status = "absent" /\ goal = "run" /\ pkg = Nobody /\ devid = Nobody /\ runs = 0
    /\ orphans = {}
    /\ pc = [c \in Clients |-> "idle"]
    /\ op = [c \in Clients |-> "none"]
    /\ waiting = [c \in Clients |-> "running"]
    /\ then = [c \in Clients |-> "idle"]
    /\ expired = [c \in Clients |-> FALSE]
    /\ base = [c \in Clients |-> 0]
    /\ ret = [c \in Clients |-> "none"]
    /\ calm = {} /\ overlap = FALSE
    /\ calls = 0 /\ faults = 0

----------------------------------------------------------------------------
(* The box: what a command does, and how the application follows it.        *)

(* Before pending sync a dev.id goes to the running container or nowhere.   *)
DevIdTaken == pkg # Nobody /\ (version = "waits" => Running)

Take(kind, by) ==
    \/ /\ kind = "install"
       /\ pkg' = by /\ devid' = Nobody /\ status' = "starting" /\ goal' = "run"
       /\ UNCHANGED runs
    \/ /\ kind = "syncDevID"
       /\ devid' = IF DevIdTaken THEN by ELSE devid
       /\ UNCHANGED <<status, goal, pkg, runs>>
    \/ /\ kind \in {"pause", "resume"}
       /\ goal' = IF kind = "pause" THEN "pause" ELSE "run"
       /\ UNCHANGED <<status, pkg, devid, runs>>
    \/ /\ kind = "uninstall"
       /\ pkg' = Nobody /\ devid' = Nobody /\ status' = "absent"
       /\ UNCHANGED <<goal, runs>>

Follow ==
    /\ \/ status = "paused" /\ goal = "run" /\ status' = "starting" /\ UNCHANGED runs
       \/ status = "starting" /\ goal = "run" /\ runs < MaxRuns
            /\ status' = "running" /\ runs' = runs + 1
       \/ status = "starting" /\ status' = "error" /\ UNCHANGED runs
       \/ status \in {"starting", "running"} /\ goal = "pause"
            /\ status' = "paused" /\ UNCHANGED runs
    /\ UNCHANGED <<version, goal, pkg, devid, orphans, client, calm, overlap, calls, faults>>

(* A command somebody gave up on arrives after all, or is lost.             *)
TakeOrphan ==
    \E o \in orphans :
        /\ Take(o.kind, o.by)
        /\ orphans' = orphans \ {o}
        /\ calm' = {} /\ overlap' = (overlap \/ o.kind \in {"install", "syncDevID"})
        /\ UNCHANGED <<version, client, calls, faults>>

LoseOrphan ==
    \E o \in orphans :
        /\ orphans' = orphans \ {o}
        /\ UNCHANGED <<version, box, client, calm, overlap, calls, faults>>

----------------------------------------------------------------------------
(* Steps of a client.                                                       *)

Goto(c, at) == pc' = [pc EXCEPT ![c] = at]

Return(c, code) ==
    /\ Goto(c, "idle")
    /\ ret' = [ret EXCEPT ![c] = code]
    /\ then' = [then EXCEPT ![c] = "idle"]
    /\ expired' = [expired EXCEPT ![c] = FALSE]
    /\ UNCHANGED <<op, waiting, base>>

(* Wait: the deadline counts from here; polling starts at once.             *)
Await(c, state, next) ==
    /\ Goto(c, "poll")
    /\ waiting' = [waiting EXCEPT ![c] = state]
    /\ then' = [then EXCEPT ![c] = next]
    /\ expired' = [expired EXCEPT ![c] = FALSE]
    /\ UNCHANGED <<op, base, ret>>

Local == UNCHANGED <<version, box, orphans, calm, overlap, calls, faults>>

Call(c, name, at) ==
    /\ pc[c] = "idle" /\ calls < MaxCalls
    /\ calls' = calls + 1
    /\ Goto(c, at)
    /\ op' = [op EXCEPT ![c] = name]
    /\ ret' = [ret EXCEPT ![c] = "none"]
    /\ calm' = calm \ {c}
    /\ UNCHANGED <<version, box, orphans, waiting, then, expired, base, overlap, faults>>

Deploy(c)    == Call(c, "deploy", "backendInfo")
Start(c)     == \E name \in {"start", "restart"} : Call(c, name, "look")
Stop(c)      == Call(c, "stop", "look")
Uninstall(c) == Call(c, "uninstall", "uninstall")
Wait(c) ==
    \E state \in States :
        /\ pc[c] = "idle" /\ calls < MaxCalls
        /\ calls' = calls + 1
        /\ pc' = [pc EXCEPT ![c] = "poll"]
        /\ op' = [op EXCEPT ![c] = "wait"]
        /\ waiting' = [waiting EXCEPT ![c] = state]
        /\ ret' = [ret EXCEPT ![c] = "none"]
        /\ calm' = calm \ {c}
        /\ UNCHANGED <<version, box, orphans, then, expired, base, overlap, faults>>

(* The box takes a command of the call and the client learns that it did.   *)
Command(c, kind, first) ==
    /\ Take(kind, c)
    /\ calm' = IF first THEN {c} ELSE calm \intersect {c}
    /\ overlap' = (overlap \/ (kind = "install" /\ \E d \in Clients \ {c} : Deploying(d)))
    /\ UNCHANGED <<version, orphans, calls, faults>>

(* Deploy: backend.Info, Require(LPKV2), Supports(PendingSyncDevID).        *)
BackendInfo(c) ==
    /\ pc[c] = "backendInfo"
    /\ \/ version = "preV2" /\ Return(c, "incompatible")
       \/ version # "preV2" /\ Goto(c, "install")
            /\ UNCHANGED <<op, waiting, then, expired, base, ret>>
    /\ Local

(* Mutant of Install: no backend is waited for.                             *)
InstallNeverWaits(c) ==
    /\ pc[c] = "install"
    /\ Command(c, "install", TRUE)
    /\ Goto(c, "syncDevID")
    /\ UNCHANGED <<op, waiting, then, expired, base, ret>>

Install(c) ==
    /\ pc[c] = "install"
    /\ Command(c, "install", TRUE)
    /\ \/ version = "waits" /\ Await(c, "devshell", "syncDevID")
       \/ version # "waits" /\ Goto(c, "syncDevID")
            /\ UNCHANGED <<op, waiting, then, expired, base, ret>>

SyncDevID(c) ==
    /\ pc[c] = "syncDevID"
    /\ Command(c, "syncDevID", FALSE)
    /\ Goto(c, "deployInfo")
    /\ UNCHANGED <<op, waiting, then, expired, base, ret>>

(* Whatever the final Info reports, Deploy succeeds.                        *)
DeployInfo(c) == pc[c] = "deployInfo" /\ Return(c, "ok") /\ Local

(* Start and Stop look first.                                               *)
Look(c) ==
    /\ pc[c] = "look"
    /\ Local
    /\ \/ /\ IF Running THEN op[c] \in {"restart", "stop"} ELSE op[c] # "stop"
          /\ Goto(c, IF Running THEN "pause" ELSE "resume")
          /\ base' = [base EXCEPT ![c] = runs]
          /\ UNCHANGED <<op, waiting, then, expired, ret>>
       \/ op[c] = "start" /\ Running /\ Await(c, "running", "idle")
       \/ op[c] = "stop" /\ ~Running /\ Return(c, "ok")

(* Mutant of Pause: the pause is taken to be done when it was asked for.    *)
PauseUnawaited(c) ==
    /\ pc[c] = "pause"
    /\ Command(c, "pause", TRUE)
    /\ \/ op[c] # "restart" /\ Return(c, "ok")
       \/ op[c] = "restart" /\ Goto(c, "resume") /\ UNCHANGED <<op, waiting, then, expired, base, ret>>

Pause(c) ==
    /\ pc[c] = "pause"
    /\ Command(c, "pause", TRUE)
    /\ Await(c, "notRunning", IF op[c] = "restart" THEN "resume" ELSE "idle")

Resume(c) ==
    /\ pc[c] = "resume"
    /\ Command(c, "resume", c \notin calm)
    /\ Await(c, "running", "idle")

UninstallApp(c) ==
    /\ pc[c] = "uninstall"
    /\ Command(c, "uninstall", TRUE)
    /\ Return(c, "ok")

----------------------------------------------------------------------------
(* The polling loop of Wait.                                                *)

Matches(state) ==
    CASE state = "running"    -> Running
      [] state = "notRunning" -> ~Running
      [] state = "starting"   -> status \in {"starting", "running"}
      [] state = "devshell"   -> Running

(* The state was reached: a public Wait returns, another call goes on.      *)
Reached(c) ==
    \/ then[c] = "idle" /\ Return(c, "ok")
    \/ /\ then[c] # "idle"
       /\ Goto(c, then[c])
       /\ then' = [then EXCEPT ![c] = "idle"]
       /\ expired' = [expired EXCEPT ![c] = FALSE]
       /\ UNCHANGED <<op, waiting, base, ret>>

(* Info, then the check for a terminal state, then matches; for a devshell  *)
(* that is a command of its own.                                            *)
Poll(c) ==
    /\ pc[c] = "poll"
    /\ Local
    /\ LET awaited == waiting[c]
           dead    == Terminal /\ awaited # "notRunning"
           met     == awaited # "devshell" /\ Matches(awaited)
       IN \/ dead /\ Return(c, "commandFailed")
          \/ ~dead /\ met /\ Reached(c)
          \/ /\ ~dead /\ ~met
             /\ Goto(c, IF awaited = "devshell" THEN "isDevshell" ELSE "deadline")
             /\ UNCHANGED <<op, waiting, then, expired, base, ret>>

IsDevshell(c) ==
    /\ pc[c] = "isDevshell"
    /\ Local
    /\ \/ Matches("devshell") /\ Reached(c)
       \/ /\ ~Matches("devshell")
          /\ Goto(c, "deadline")
          /\ UNCHANGED <<op, waiting, then, expired, base, ret>>

(* Mutant of Deadline: the deadline is never compared.                      *)
DeadlineIgnored(c) ==
    /\ pc[c] = "deadline"
    /\ Local
    /\ Goto(c, "sleep") /\ UNCHANGED <<op, waiting, then, expired, base, ret>>

Deadline(c) ==
    /\ pc[c] = "deadline"
    /\ Local
    /\ \/ expired[c] /\ Return(c, "deadline")
       \/ ~expired[c] /\ Goto(c, "sleep") /\ UNCHANGED <<op, waiting, then, expired, base, ret>>

Sleep(c) ==
    /\ pc[c] = "sleep"
    /\ Goto(c, "poll")
    /\ UNCHANGED <<op, waiting, then, expired, base, ret>>
    /\ Local

Expire(c) ==
    /\ pc[c] \in WaitPcs /\ ~expired[c]
    /\ expired' = [expired EXCEPT ![c] = TRUE]
    /\ UNCHANGED <<pc, op, waiting, then, base, ret>>
    /\ Local

----------------------------------------------------------------------------
(* A backend command fails or the caller cancels.  Every error is returned  *)
(* as it is; a command on its way may still reach the box.                  *)
Sent(c) == {[kind |-> pc[c], by |-> c]} \intersect [kind : Commands, by : Clients]

GiveUp(c) ==
    /\ pc[c] # "idle" /\ faults < MaxFaults
    /\ faults' = faults + 1
    /\ \E code \in {"cancelled", "failed"} : Return(c, code)
    /\ orphans' = orphans \union Sent(c)
    /\ UNCHANGED <<version, box, calm, overlap, calls>>

Work(c) ==
    \/ BackendInfo(c) \/ Install(c) \/ SyncDevID(c) \/ DeployInfo(c)
    \/ Look(c) \/ Pause(c) \/ Resume(c) \/ UninstallApp(c)
    \/ Poll(c) \/ IsDevshell(c) \/ Deadline(c) \/ Sleep(c)

Invoke(c) == Deploy(c) \/ Start(c) \/ Stop(c) \/ Uninstall(c) \/ Wait(c)

Box == Follow \/ TakeOrphan \/ LoseOrphan

Next == (\E c \in Clients : Invoke(c) \/ Work(c) \/ Expire(c) \/ GiveUp(c)) \/ Box

Spec == Init /\ [][Next]_vars

(* Commands are answered, sleeps end and deadlines pass; the box need not   *)
(* ever follow a command.                                                   *)
FairSpec == Spec /\ \A c \in Clients : WF_vars(Work(c)) /\ WF_vars(Expire(c))

----------------------------------------------------------------------------
(* Every variable has its type.                                             *)
TypeOK ==
    /\ version \in Versions
    /\ status \in Statuses /\ goal \in {"run", "pause"}
    /\ pkg \in Owners /\ devid \in Owners /\ runs \in 0..MaxRuns
    /\ orphans \subseteq [kind : Commands, by : Clients]
    /\ pc \in [Clients -> PcSet] /\ op \in [Clients -> Ops]
    /\ waiting \in [Clients -> States]
    /\ then \in [Clients -> {"idle", "syncDevID", "resume"}]
    /\ expired \in [Clients -> BOOLEAN]
    /\ base \in [Clients -> 0..MaxRuns] /\ ret \in [Clients -> Codes]
    /\ calm \subseteq Clients /\ overlap \in BOOLEAN
    /\ calls \in 0..MaxCalls /\ faults \in 0..MaxFaults

(* A Deploy that succeeded while nobody else commanded the box left its own *)
(* package with its own dev.id, on backends that wait for the container     *)
(* before SyncDevID and on those that do not; and deployments one after the *)
(* other, even those that failed half way, never leave one's dev.id on the  *)
(* other's package.                                                         *)
DeployComplete ==
    /\ \A c \in calm :
         (op[c] = "deploy" /\ ret[c] = "ok") => pkg = c /\ devid = c
    /\ devid \in {Nobody, pkg} \/ overlap

(* When a Stop that had to pause succeeds and nobody commands the box after *)
(* it, the application is down and stays down.                              *)
StopEffective ==
    \A c \in calm :
        (op[c] = "stop" /\ ret[c] = "ok") => ~Running /\ goal = "pause"

(* A Start with Restart that succeeds has seen the application come up      *)
(* again since it looked, whatever other clients did meanwhile.             *)
RestartIsFresh ==
    [][\A c \in Clients :
         (op[c] = "restart" /\ pc[c] # "idle" /\ pc'[c] = "idle" /\ ret'[c] = "ok")
            => Running /\ runs > base[c]]_vars

(* Every call returns, even from a box that never follows a command.        *)
CallsReturn == \A c \in Clients : pc[c] # "idle" ~> pc[c] = "idle"

----------------------------------------------------------------------------
(* Why these hold.  Each call goes its own way through the commands and the *)
(* waits ...                                                                *)
WaitsFor(c, state, next) == pc[c] \in WaitPcs => waiting[c] = state /\ then[c] = next

CallShape ==
    \A c \in Clients :
        /\ pc[c] = "isDevshell" => waiting[c] = "devshell"
        /\ pc[c] \notin WaitPcs => then[c] = "idle"
        /\ pc[c] # "idle" => ret[c] = "none"
        /\ pc[c] = "idle" \/ (op[c] = "uninstall" /\ pc[c] = "uninstall")
             \/ (op[c] = "wait" /\ pc[c] \in WaitPcs /\ then[c] = "idle")
             \/ (op[c] = "deploy" /\ pc[c] \in DeployPcs \union WaitPcs /\ WaitsFor(c, "devshell", "syncDevID"))
             \/ (op[c] = "stop" /\ pc[c] \in {"look", "pause"} \union WaitPcs /\ WaitsFor(c, "notRunning", "idle"))
             \/ (op[c] = "start" /\ pc[c] \in {"look", "resume"} \union WaitPcs /\ WaitsFor(c, "running", "idle"))
             \/ (op[c] = "restart" /\ pc[c] \in {"look", "pause", "resume"} \union WaitPcs
                  /\ (WaitsFor(c, "running", "idle") \/ WaitsFor(c, "notRunning", "resume")))

(* ... a deployment that nobody disturbs finds its own package, going up or *)
(* up ...                                                                   *)
CalmDeploy ==
    \A c \in calm : op[c] = "deploy" =>
        /\ pkg = c /\ goal = "run" /\ pc[c] \notin {"backendInfo", "install"}
        /\ (pc[c] = "syncDevID" /\ version = "waits") => Running
        /\ (pc[c] = "deployInfo" \/ (pc[c] = "idle" /\ ret[c] = "ok")) => devid = c

(* ... a pause that nobody disturbs is followed by the box and by no start  *)
CalmStop ==
    \A c \in calm : op[c] = "stop" =>
        /\ goal = "pause" /\ pc[c] \notin {"look", "pause"}
        /\ (pc[c] = "idle" /\ ret[c] = "ok") => ~Running

(* ... the dev.id of a deployment meets no other package, unless another    *)
(* deployment came between ...                                              *)
DevIdMeetsItsPackage ==
    \/ overlap
    \/ /\ devid \in {Nobody, pkg}
       /\ \A c \in Clients :
            (op[c] = "deploy" /\ pc[c] \in {"syncDevID"} \union WaitPcs) => pkg \in {Nobody, c}

(* ... and a restart has seen the application down since it looked.         *)
RestartSawDown ==
    \A c \in Clients :
        /\ base[c] <= runs
        /\ (op[c] = "restart" /\ Running
             /\ (pc[c] = "resume" \/ (pc[c] \in WaitPcs /\ waiting[c] = "running"))) => runs > base[c]

LifecycleInv ==
    TypeOK /\ CallShape /\ CalmDeploy /\ CalmStop /\ DevIdMeetsItsPackage /\ RestartSawDown
=============================================================================
