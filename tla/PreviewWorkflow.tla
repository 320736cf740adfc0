-------------------------- MODULE PreviewWorkflow --------------------------
(***************************************************************************)
(* Runner.Run (workflow/project/workflow.go) over Pipeline.Run             *)
(* (workflow/workflow.go): build an LPK into a temporary file, deploy it,  *)
(* optionally synchronize the sources, and start the application.          *)
(*                                                                         *)
(* The module composes runs with AppLifecycle: the deploy and the start    *)
(* stage are calls of project.Service, step by step, on the box that other *)
(* clients command too.  The builder and the synchronizer are external:    *)
(* they succeed or fail.                                                   *)
(***************************************************************************)
EXTENDS AppLifecycle

CONSTANTS
    Runners,       \* the clients that are runners; the others call the service directly
    MaxPreviews,   \* bound: runs
    MaxDirect      \* bound: direct calls

ASSUME RunnersAssumption == Runners \subseteq Clients
ASSUME RunBoundsAssumption ==
    /\ MaxPreviews \in Nat /\ MaxDirect \in Nat
    /\ MaxCalls = 2 * MaxPreviews + MaxDirect

VARIABLES
    stage,      \* of each runner
    artifact,   \* its temporary LPK
    outcome,    \* how its last run ended
    mine,       \* history: whose package is there, if only it commanded the box since
    before,     \* history: runs when that package was installed
    previews, directs

run      == <<stage, artifact, outcome>>
preview  == <<run, mine, before, previews, directs>>
allVars  == <<vars, preview>>

Stages   == {"idle", "build", "deploy", "deploying", "sync", "start", "starting"}
Outcomes == {"none", "ok", "failed"}

PreviewInit ==
    /\ Init
    /\ stage = [r \in Runners |-> "idle"]
    /\ artifact = [r \in Runners |-> "none"]
    /\ outcome = [r \in Runners |-> "none"]
    /\ mine = Nobody /\ before = 0
    /\ previews = 0 /\ directs = 0

----------------------------------------------------------------------------
(* The stages.                                                              *)
Enter(r, next) == stage' = [stage EXCEPT ![r] = next]

(* Mutant of End: the temporary file is removed on success only.            *)
EndKeepsArtifact(r, code) ==
    /\ Enter(r, "idle")
    /\ artifact' = [artifact EXCEPT ![r] = IF code = "ok" THEN "none" ELSE @]
    /\ outcome' = [outcome EXCEPT ![r] = code]

(* However a run ends, its temporary file is removed.                       *)
End(r, code) ==
    /\ Enter(r, "idle")
    /\ artifact' = [artifact EXCEPT ![r] = "none"]
    /\ outcome' = [outcome EXCEPT ![r] = code]

Run(r) ==
    /\ stage[r] = "idle" /\ pc[r] = "idle" /\ previews < MaxPreviews
    /\ previews' = previews + 1
    /\ Enter(r, "build")
    /\ artifact' = [artifact EXCEPT ![r] = "empty"]
    /\ outcome' = [outcome EXCEPT ![r] = "none"]
    /\ UNCHANGED <<vars, mine, before, directs>>

(* buildStep: a builder may fail, or succeed and write nothing.             *)
Build(r) ==
    /\ stage[r] = "build"
    /\ \E written \in {"empty", "whole"}, failed \in BOOLEAN :
         \/ /\ written = "whole" /\ ~failed
            /\ Enter(r, "deploy")
            /\ artifact' = [artifact EXCEPT ![r] = written]
            /\ UNCHANGED outcome
         \/ (written = "empty" \/ failed) /\ End(r, "failed")
    /\ UNCHANGED <<vars, mine, before, previews, directs>>

(* Pipeline.Run asks the context before each stage.                         *)
Interrupt(r) ==
    /\ stage[r] \in {"build", "deploy", "sync", "start"} /\ faults < MaxFaults
    /\ faults' = faults + 1
    /\ End(r, "failed")
    /\ UNCHANGED <<version, box, orphans, client, calm, overlap, calls>>
    /\ UNCHANGED <<mine, before, previews, directs>>

(* deployStep and startStep call the service ...                            *)
CallService(r) ==
    /\ \/ stage[r] = "deploy" /\ Deploy(r) /\ Enter(r, "deploying")
       \/ stage[r] = "start" /\ Start(r) /\ Enter(r, "starting")
    /\ UNCHANGED <<artifact, outcome, mine, before, previews, directs>>

(* Mutant of Returned: the start stage is left out.                        *)
ReturnedWithoutStart(r) ==
    /\ stage[r] \in {"deploying", "starting"} /\ pc[r] = "idle"
    /\ End(r, IF ret[r] = "ok" THEN "ok" ELSE "failed")
    /\ UNCHANGED <<vars, mine, before, previews, directs>>

(* ... and end when the call returns.  The sync stage is there only with a  *)
(* synchronizer.                                                            *)
Returned(r) ==
    /\ stage[r] \in {"deploying", "starting"} /\ pc[r] = "idle"
    /\ \/ ret[r] # "ok" /\ End(r, "failed")
       \/ /\ ret[r] = "ok" /\ stage[r] = "deploying"
          /\ \E next \in {"sync", "start"} : Enter(r, next)
          /\ UNCHANGED <<artifact, outcome>>
       \/ ret[r] = "ok" /\ stage[r] = "starting" /\ End(r, "ok")
    /\ UNCHANGED <<vars, mine, before, previews, directs>>

Sync(r) ==
    /\ stage[r] = "sync"
    /\ \/ Enter(r, "start") /\ UNCHANGED <<artifact, outcome>>
       \/ End(r, "failed")
    /\ UNCHANGED <<vars, mine, before, previews, directs>>

----------------------------------------------------------------------------
(* The service's own steps, and the history of who commands the box.        *)
Commanding(c) == SyncDevID(c) \/ Pause(c) \/ Resume(c) \/ UninstallApp(c)

Serve(c) ==
    /\ \/ Install(c) /\ mine' = c /\ before' = runs
       \/ Commanding(c) /\ mine' = (IF mine = c THEN c ELSE Nobody) /\ UNCHANGED before
       \/ /\ \/ BackendInfo(c) \/ DeployInfo(c) \/ Look(c)
             \/ Poll(c) \/ IsDevshell(c) \/ Deadline(c) \/ Sleep(c)
          /\ UNCHANGED <<mine, before>>
    /\ UNCHANGED <<run, previews, directs>>

Fall(c) == (Expire(c) \/ GiveUp(c)) /\ UNCHANGED preview

Direct(c) ==
    /\ c \notin Runners /\ directs < MaxDirect
    /\ directs' = directs + 1
    /\ Invoke(c)
    /\ UNCHANGED <<run, mine, before, previews>>

BoxSteps ==
    \/ (Follow \/ LoseOrphan) /\ UNCHANGED preview
    \/ TakeOrphan /\ mine' = Nobody /\ UNCHANGED <<run, before, previews, directs>>

StageWork(r) == Build(r) \/ CallService(r) \/ Returned(r) \/ Sync(r)

PreviewNext ==
    \/ \E r \in Runners : Run(r) \/ StageWork(r) \/ Interrupt(r)
    \/ \E c \in Clients : Serve(c) \/ Fall(c) \/ Direct(c)
    \/ BoxSteps

PreviewSpec == PreviewInit /\ [][PreviewNext]_allVars

(* Stages are carried out, requests answered, and deadlines pass.           *)
FairPreviewSpec ==
    /\ PreviewSpec
    /\ \A r \in Runners : WF_allVars(StageWork(r))
    /\ \A c \in Clients : WF_allVars(Serve(c)) /\ WF_allVars(Expire(c) /\ UNCHANGED preview)

----------------------------------------------------------------------------
(* A run that succeeds, on a box nobody else commanded since it installed   *)
(* its package, leaves that package up with its dev.id, and the application *)
(* has come up from it: not from what ran there before.                     *)
PreviewServes ==
    \A r \in Runners :
        (outcome[r] = "ok" /\ mine = r) =>
            pkg = r /\ devid = r /\ Running /\ runs > before

(* Only a package that was built whole, and is still there, is sent.        *)
SendsWhatWasBuilt ==
    \A r \in Runners : pc[r] = "install" => artifact[r] = "whole"

(* No temporary package outlives its run.                                   *)
NothingLeftOver == \A r \in Runners : stage[r] = "idle" => artifact[r] = "none"

(* Throughout a run and after it, its temporary package is as its stage     *)
(* needs it.                                                                *)
PreviewInv ==
    /\ TypeOK
    /\ stage \in [Runners -> Stages] /\ outcome \in [Runners -> Outcomes]
    /\ SendsWhatWasBuilt
    /\ NothingLeftOver

(* Every run ends and every call returns, whatever another client does and  *)
(* even on a box that never follows a command.                              *)
RunsEnd ==
    /\ \A r \in Runners : stage[r] # "idle" ~> stage[r] = "idle"
    /\ CallsReturn

----------------------------------------------------------------------------
(* Why: a runner is in a call of the service in two of its stages only ...  *)
RunShape ==
    /\ mine \in Owners
    /\ stage \in [Runners -> Stages] /\ outcome \in [Runners -> Outcomes]
    /\ artifact \in [Runners -> {"none", "empty", "whole"}]
    /\ \A r \in Runners :
         /\ stage[r] \notin {"deploying", "starting"} => pc[r] = "idle"
         /\ stage[r] = "deploying" => op[r] = "deploy"
         /\ stage[r] = "starting" => op[r] \in {"start", "restart"}
         /\ stage[r] # "idle" => outcome[r] = "none"
         /\ stage[r] \notin {"idle", "build"} => artifact[r] = "whole"
         /\ stage[r] = "idle" => artifact[r] = "none"

(* ... a run that commands the box alone has deployed its package and goes  *)
(* on to start it ...                                                       *)
Deployed(r) ==
    \/ stage[r] = "deploying" /\ (pc[r] = "deployInfo" \/ (pc[r] = "idle" /\ ret[r] = "ok"))
    \/ stage[r] \in {"sync", "start", "starting"} \/ outcome[r] = "ok"

Started(r) == outcome[r] = "ok" \/ (stage[r] = "starting" /\ pc[r] = "idle" /\ ret[r] = "ok")

Installed(r) == stage[r] = "deploying" /\ pc[r] \in {"syncDevID"} \union WaitPcs

GoingUp(r) ==
    \/ stage[r] # "starting" /\ (Installed(r) \/ Deployed(r))
    \/ stage[r] = "starting" /\ (pc[r] = "look" \/ (pc[r] \in WaitPcs /\ waiting[r] = "running"))
    \/ Started(r)

ServesAlone ==
    \A r \in Runners : mine = r =>
        /\ Installed(r) \/ Deployed(r) => pkg = r
        /\ Deployed(r) => devid = r
        /\ GoingUp(r) => goal = "run"
        /\ Started(r) \/ (stage[r] = "deploying" /\ pc[r] = "syncDevID" /\ version = "waits") => Running

(* ... and when the application is up, it came up from that package.        *)
UpSince == before \in 0..runs /\ (Running => runs > before)

PInv == LifecycleInv /\ RunShape /\ ServesAlone /\ UpSince
=============================================================================
