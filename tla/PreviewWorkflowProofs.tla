----------------------- MODULE PreviewWorkflowProofs -----------------------
(***************************************************************************)
(* Proofs about project.Service, for any clients, backends and bounds: the *)
(* inductive invariant LifecycleInv of AppLifecycle, and the promises of   *)
(* Deploy, Stop and Start with Restart that follow from it.  Then about    *)
(* preview runs, for any runners: the inductive invariant PInv of          *)
(* PreviewWorkflow, and the promises of a run.                             *)
(***************************************************************************)
EXTENDS PreviewWorkflow, TLAPS

-----------------------------------------------------------------------------
(* The service                                                             *)

(* The initial states satisfy the invariant.                                *)
LEMMA LifecycleStarts == Init => LifecycleInv
<1> SUFFICES ASSUME Init PROVE LifecycleInv
  OBVIOUS
<1> USE NobodyAssumption, BoundsAssumption DEF Init
<1>1. TypeOK
  <2>1. runs \in 0..MaxRuns /\ base \in [Clients -> 0..MaxRuns] /\ calls \in 0..MaxCalls /\ faults \in 0..MaxFaults
    OBVIOUS
  <2>2. /\ pc \in [Clients -> PcSet] /\ op \in [Clients -> Ops] /\ ret \in [Clients -> Codes]
        /\ waiting \in [Clients -> States]
    BY DEF PcSet, Ops, Codes, States
  <2> QED BY <2>1, <2>2 DEF TypeOK, Statuses, Owners
<1>2. CallShape /\ CalmDeploy /\ CalmStop /\ DevIdMeetsItsPackage /\ RestartSawDown
  BY DEF CallShape, CalmDeploy, CalmStop, DevIdMeetsItsPackage, RestartSawDown, DeployPcs, WaitPcs
<1> QED BY <1>1, <1>2 DEF LifecycleInv

(* A call begins; what the client knew of the box is of an earlier call.    *)
LEMMA DeployKeeps ==
    ASSUME LifecycleInv, NEW c \in Clients, Deploy(c)
    PROVE  LifecycleInv'
<1> USE NobodyAssumption, BoundsAssumption DEF LifecycleInv, Goto, box, Deploy, Call
<1>1. TypeOK'
  BY DEF TypeOK, PcSet, DeployPcs, WaitPcs, Ops, Codes, Statuses, Commands, States, Owners
<1>2. CallShape'
  BY DEF CallShape, WaitsFor, TypeOK, PcSet, DeployPcs, WaitPcs
<1>3. CalmDeploy'
  BY DEF CalmDeploy, TypeOK, CallShape, WaitsFor, Running, PcSet, DeployPcs, WaitPcs
<1>4. CalmStop'
  BY DEF CalmStop, TypeOK, CallShape, WaitsFor, Running, PcSet, DeployPcs, WaitPcs
<1>5. DevIdMeetsItsPackage'
  BY DEF DevIdMeetsItsPackage, TypeOK, CallShape, WaitsFor, PcSet, DeployPcs, WaitPcs
<1>6. RestartSawDown'
  BY DEF RestartSawDown, TypeOK, CallShape, WaitsFor, Running, PcSet, DeployPcs, WaitPcs
<1> QED BY <1>1, <1>2, <1>3, <1>4, <1>5, <1>6

(* Start looks before it commands, whether it restarts or not.              *)
LEMMA StartKeeps ==
    ASSUME LifecycleInv, NEW c \in Clients, Start(c)
    PROVE  LifecycleInv'
<1> USE NobodyAssumption, BoundsAssumption DEF LifecycleInv, Goto, box, Start, Call
<1>1. TypeOK'
  BY DEF TypeOK, PcSet, DeployPcs, WaitPcs, Ops, Codes, Statuses, Commands, States, Owners
<1>2. CallShape'
  BY DEF CallShape, WaitsFor, TypeOK, PcSet, DeployPcs, WaitPcs
<1>3. CalmDeploy'
  BY DEF CalmDeploy, TypeOK, CallShape, WaitsFor, Running, PcSet, DeployPcs, WaitPcs
<1>4. CalmStop'
  BY DEF CalmStop, TypeOK, CallShape, WaitsFor, Running, PcSet, DeployPcs, WaitPcs
<1>5. DevIdMeetsItsPackage'
  BY DEF DevIdMeetsItsPackage, TypeOK, CallShape, WaitsFor, PcSet, DeployPcs, WaitPcs
<1>6. RestartSawDown'
  BY DEF RestartSawDown, TypeOK, CallShape, WaitsFor, Running, PcSet, DeployPcs, WaitPcs
<1> QED BY <1>1, <1>2, <1>3, <1>4, <1>5, <1>6

(* Stop looks first as well.                                                *)
LEMMA StopKeeps ==
    ASSUME LifecycleInv, NEW c \in Clients, Stop(c)
    PROVE  LifecycleInv'
<1> USE NobodyAssumption, BoundsAssumption DEF LifecycleInv, Goto, box, Stop, Call
<1>1. TypeOK'
  BY DEF TypeOK, PcSet, DeployPcs, WaitPcs, Ops, Codes, Statuses, Commands, States, Owners
<1>2. CallShape'
  BY DEF CallShape, WaitsFor, TypeOK, PcSet, DeployPcs, WaitPcs
<1>3. CalmDeploy'
  BY DEF CalmDeploy, TypeOK, CallShape, WaitsFor, Running, PcSet, DeployPcs, WaitPcs
<1>4. CalmStop'
  BY DEF CalmStop, TypeOK, CallShape, WaitsFor, Running, PcSet, DeployPcs, WaitPcs
<1>5. DevIdMeetsItsPackage'
  BY DEF DevIdMeetsItsPackage, TypeOK, CallShape, WaitsFor, PcSet, DeployPcs, WaitPcs
<1>6. RestartSawDown'
  BY DEF RestartSawDown, TypeOK, CallShape, WaitsFor, Running, PcSet, DeployPcs, WaitPcs
<1> QED BY <1>1, <1>2, <1>3, <1>4, <1>5, <1>6

(* Uninstall commands at once.                                              *)
LEMMA UninstallKeeps ==
    ASSUME LifecycleInv, NEW c \in Clients, Uninstall(c)
    PROVE  LifecycleInv'
<1> USE NobodyAssumption, BoundsAssumption DEF LifecycleInv, Goto, box, Uninstall, Call
<1>1. TypeOK'
  BY DEF TypeOK, PcSet, DeployPcs, WaitPcs, Ops, Codes, Statuses, Commands, States, Owners
<1>2. CallShape'
  BY DEF CallShape, WaitsFor, TypeOK, PcSet, DeployPcs, WaitPcs
<1>3. CalmDeploy'
  BY DEF CalmDeploy, TypeOK, CallShape, WaitsFor, Running, PcSet, DeployPcs, WaitPcs
<1>4. CalmStop'
  BY DEF CalmStop, TypeOK, CallShape, WaitsFor, Running, PcSet, DeployPcs, WaitPcs
<1>5. DevIdMeetsItsPackage'
  BY DEF DevIdMeetsItsPackage, TypeOK, CallShape, WaitsFor, PcSet, DeployPcs, WaitPcs
<1>6. RestartSawDown'
  BY DEF RestartSawDown, TypeOK, CallShape, WaitsFor, Running, PcSet, DeployPcs, WaitPcs
<1> QED BY <1>1, <1>2, <1>3, <1>4, <1>5, <1>6

(* A wait of its own polls at once and goes nowhere after it.               *)
LEMMA WaitKeeps ==
    ASSUME LifecycleInv, NEW c \in Clients, Wait(c)
    PROVE  LifecycleInv'
<1> USE NobodyAssumption, BoundsAssumption DEF LifecycleInv, Goto, box, Wait
<1>1. TypeOK'
  BY DEF TypeOK, PcSet, DeployPcs, WaitPcs, Ops, Codes, Statuses, Commands, States, Owners
<1>2. CallShape'
  BY DEF CallShape, WaitsFor, TypeOK, PcSet, DeployPcs, WaitPcs
<1>3. CalmDeploy'
  BY DEF CalmDeploy, TypeOK, CallShape, WaitsFor, Running, PcSet, DeployPcs, WaitPcs
<1>4. CalmStop'
  BY DEF CalmStop, TypeOK, CallShape, WaitsFor, Running, PcSet, DeployPcs, WaitPcs
<1>5. DevIdMeetsItsPackage'
  BY DEF DevIdMeetsItsPackage, TypeOK, CallShape, WaitsFor, PcSet, DeployPcs, WaitPcs
<1>6. RestartSawDown'
  BY DEF RestartSawDown, TypeOK, CallShape, WaitsFor, Running, PcSet, DeployPcs, WaitPcs
<1> QED BY <1>1, <1>2, <1>3, <1>4, <1>5, <1>6

(* A deployment looks at the backend and sends the package ...              *)
LEMMA BackendInfoKeeps ==
    ASSUME LifecycleInv, NEW c \in Clients, BackendInfo(c)
    PROVE  LifecycleInv'
<1> USE NobodyAssumption, BoundsAssumption DEF LifecycleInv, Goto, box, BackendInfo, Return, Local
<1>1. TypeOK'
  BY DEF TypeOK, PcSet, DeployPcs, Codes
<1>2. CallShape'
  <2>1. op[c] = "deploy" /\ then[c] = "idle" /\ ret[c] = "none"
    BY DEF CallShape, WaitPcs
  <2>2. \/ pc'[c] = "idle" /\ then'[c] = "idle"
        \/ pc'[c] = "install" /\ then'[c] = "idle" /\ ret'[c] = "none"
    BY <2>1 DEF TypeOK
  <2>3. \A d \in Clients \ {c} : pc'[d] = pc[d] /\ op'[d] = op[d] /\ waiting'[d] = waiting[d]
                                /\ then'[d] = then[d] /\ ret'[d] = ret[d]
    BY DEF TypeOK
  <2>4. op'[c] = "deploy"
    BY <2>1
  <2> HIDE DEF BackendInfo, LifecycleInv
  <2>5. CallShape
    BY DEF LifecycleInv
  <2> QED BY <2>2, <2>3, <2>4, <2>5 DEF CallShape, WaitsFor, DeployPcs, WaitPcs
<1>3. CalmDeploy'
  BY DEF CalmDeploy, TypeOK, CallShape, WaitsFor, Running, PcSet, DeployPcs, WaitPcs
<1>4. CalmStop'
  BY DEF CalmStop, TypeOK, CallShape, WaitsFor, Running, PcSet, DeployPcs, WaitPcs
<1>5. DevIdMeetsItsPackage'
  BY DEF DevIdMeetsItsPackage, TypeOK, CallShape, WaitsFor, PcSet, DeployPcs, WaitPcs
<1>6. RestartSawDown'
  BY DEF RestartSawDown, TypeOK, CallShape, WaitsFor, Running, PcSet, DeployPcs, WaitPcs
<1> QED BY <1>1, <1>2, <1>3, <1>4, <1>5, <1>6

(* The package arrives without a dev.id, and makes its sender the calm one. *)
LEMMA InstallKeeps ==
    ASSUME LifecycleInv, NEW c \in Clients, Install(c)
    PROVE  LifecycleInv'
<1> USE NobodyAssumption, BoundsAssumption DEF LifecycleInv, Goto, box, Install, Command, Take, Await, Deploying
<1>1. TypeOK'
  <2>1. pkg' \in Owners /\ devid' \in Owners /\ status' \in Statuses
    BY DEF Owners, Statuses
  <2>2. calm' \subseteq Clients /\ overlap' \in BOOLEAN
    BY DEF TypeOK
  <2> QED BY <2>1, <2>2 DEF TypeOK, PcSet, DeployPcs, WaitPcs, States
<1>2. CallShape'
  <2>1. op[c] = "deploy" /\ then[c] = "idle" /\ ret[c] = "none"
    BY DEF CallShape, WaitPcs
  <2>2. \/ pc'[c] = "poll" /\ waiting'[c] = "devshell" /\ then'[c] = "syncDevID" /\ ret'[c] = "none"
        \/ pc'[c] = "syncDevID" /\ then'[c] = "idle" /\ ret'[c] = "none"
    BY <2>1 DEF TypeOK
  <2>3. \A d \in Clients \ {c} : pc'[d] = pc[d] /\ op'[d] = op[d] /\ waiting'[d] = waiting[d]
                                /\ then'[d] = then[d] /\ ret'[d] = ret[d]
    BY DEF TypeOK
  <2>4. op'[c] = "deploy"
    BY <2>1
  <2> HIDE DEF Install, Command, Take, LifecycleInv
  <2>5. CallShape
    BY DEF LifecycleInv
  <2> QED BY <2>2, <2>3, <2>4, <2>5 DEF CallShape, WaitsFor, DeployPcs, WaitPcs
<1>3. CalmDeploy'
  BY DEF CalmDeploy, TypeOK, CallShape, WaitsFor, Running, PcSet, DeployPcs, WaitPcs
<1>4. CalmStop'
  BY DEF CalmStop, TypeOK, CallShape, WaitsFor, Running, PcSet, DeployPcs, WaitPcs
<1>5. DevIdMeetsItsPackage'
  <2>1. pkg' = c /\ devid' = Nobody
    OBVIOUS
  <2>2. ASSUME ~overlap', NEW d \in Clients \ {c} PROVE ~(op'[d] = "deploy" /\ pc'[d] # "idle")
    BY <2>2 DEF TypeOK
  <2> HIDE DEF Install, Command, Take, LifecycleInv
  <2> QED BY <2>1, <2>2 DEF DevIdMeetsItsPackage, WaitPcs
<1>6. RestartSawDown'
  BY DEF RestartSawDown, TypeOK, CallShape, WaitsFor, Running, PcSet, DeployPcs, WaitPcs
<1> QED BY <1>1, <1>2, <1>3, <1>4, <1>5, <1>6

(* ... sends its dev.id, to its own package if nobody came between ...      *)
LEMMA SyncDevIDKeeps ==
    ASSUME LifecycleInv, NEW c \in Clients, SyncDevID(c)
    PROVE  LifecycleInv'
<1> USE NobodyAssumption, BoundsAssumption DEF LifecycleInv, Goto, box, SyncDevID, Command, Take, DevIdTaken
<1>1. TypeOK'
  BY DEF TypeOK, PcSet, DeployPcs, WaitPcs, Ops, Codes, Statuses, Commands, States, Owners
<1>2. CallShape'
  BY DEF CallShape, WaitsFor, TypeOK, PcSet, DeployPcs, WaitPcs
<1>3. CalmDeploy'
  BY DEF CalmDeploy, TypeOK, CallShape, WaitsFor, Running, PcSet, DeployPcs, WaitPcs
<1>4. CalmStop'
  BY DEF CalmStop, TypeOK, CallShape, WaitsFor, Running, PcSet, DeployPcs, WaitPcs
<1>5. DevIdMeetsItsPackage'
  BY DEF DevIdMeetsItsPackage, TypeOK, CallShape, WaitsFor, PcSet, DeployPcs, WaitPcs
<1>6. RestartSawDown'
  BY DEF RestartSawDown, TypeOK, CallShape, WaitsFor, Running, PcSet, DeployPcs, WaitPcs
<1> QED BY <1>1, <1>2, <1>3, <1>4, <1>5, <1>6

(* The deployment ends with the dev.id it sent.                             *)
LEMMA DeployInfoKeeps ==
    ASSUME LifecycleInv, NEW c \in Clients, DeployInfo(c)
    PROVE  LifecycleInv'
<1> USE NobodyAssumption, BoundsAssumption DEF LifecycleInv, Goto, box, DeployInfo, Return, Local
<1>1. TypeOK'
  BY DEF TypeOK, PcSet, DeployPcs, WaitPcs, Ops, Codes, Statuses, Commands, States, Owners
<1>2. CallShape'
  BY DEF CallShape, WaitsFor, TypeOK, PcSet, DeployPcs, WaitPcs
<1>3. CalmDeploy'
  BY DEF CalmDeploy, TypeOK, CallShape, WaitsFor, Running, PcSet, DeployPcs, WaitPcs
<1>4. CalmStop'
  BY DEF CalmStop, TypeOK, CallShape, WaitsFor, Running, PcSet, DeployPcs, WaitPcs
<1>5. DevIdMeetsItsPackage'
  BY DEF DevIdMeetsItsPackage, TypeOK, CallShape, WaitsFor, PcSet, DeployPcs, WaitPcs
<1>6. RestartSawDown'
  BY DEF RestartSawDown, TypeOK, CallShape, WaitsFor, Running, PcSet, DeployPcs, WaitPcs
<1> QED BY <1>1, <1>2, <1>3, <1>4, <1>5, <1>6

(* Start and Stop look, and send what they have to ...                      *)
LEMMA LookKeeps ==
    ASSUME LifecycleInv, NEW c \in Clients, Look(c)
    PROVE  LifecycleInv'
<1> USE NobodyAssumption, BoundsAssumption DEF LifecycleInv, Goto, box, Look, Local, Await, Return
<1>1. TypeOK'
  <2>1. base' = base \/ base' = [base EXCEPT ![c] = runs]
    OBVIOUS
  <2>2. base' \in [Clients -> 0..MaxRuns]
    BY <2>1 DEF TypeOK
  <2>3. /\ pc' \in [Clients -> PcSet] /\ op' = op
        /\ waiting' \in [Clients -> States]
        /\ then' \in [Clients -> {"idle", "syncDevID", "resume"}]
        /\ expired' \in [Clients -> BOOLEAN] /\ ret' \in [Clients -> Codes]
    <3>1. CASE pc' = [pc EXCEPT ![c] = IF Running THEN "pause" ELSE "resume"]
      BY <3>1 DEF TypeOK, PcSet
    <3>2. CASE pc' = [pc EXCEPT ![c] = "poll"] \/ pc' = [pc EXCEPT ![c] = "idle"]
      BY <3>2 DEF TypeOK, PcSet, WaitPcs, Codes, States
    <3> QED BY <3>1, <3>2
  <2> QED BY <2>2, <2>3 DEF TypeOK
<1>2. CallShape'
  BY DEF CallShape, WaitsFor, TypeOK, PcSet, DeployPcs, WaitPcs
<1>3. CalmDeploy'
  BY DEF CalmDeploy, TypeOK, CallShape, WaitsFor, Running, PcSet, DeployPcs, WaitPcs
<1>4. CalmStop'
  BY DEF CalmStop, TypeOK, CallShape, WaitsFor, Running, PcSet, DeployPcs, WaitPcs
<1>5. DevIdMeetsItsPackage'
  BY DEF DevIdMeetsItsPackage, TypeOK, CallShape, WaitsFor, PcSet, DeployPcs, WaitPcs
<1>6. RestartSawDown'
  BY DEF RestartSawDown, TypeOK, CallShape, WaitsFor, Running, PcSet, DeployPcs, WaitPcs
<1> QED BY <1>1, <1>2, <1>3, <1>4, <1>5, <1>6

(* A pause is waited for, and then a restart goes on to resume.             *)
LEMMA PauseKeeps ==
    ASSUME LifecycleInv, NEW c \in Clients, Pause(c)
    PROVE  LifecycleInv'
<1> USE NobodyAssumption, BoundsAssumption DEF LifecycleInv, Goto, box, Pause, Command, Take, Await
<1>1. TypeOK'
  BY DEF TypeOK, PcSet, DeployPcs, WaitPcs, Ops, Codes, Statuses, Commands, States, Owners
<1>2. CallShape'
  BY DEF CallShape, WaitsFor, TypeOK, PcSet, DeployPcs, WaitPcs
<1>3. CalmDeploy'
  BY DEF CalmDeploy, TypeOK, CallShape, WaitsFor, Running, PcSet, DeployPcs, WaitPcs
<1>4. CalmStop'
  BY DEF CalmStop, TypeOK, CallShape, WaitsFor, Running, PcSet, DeployPcs, WaitPcs
<1>5. DevIdMeetsItsPackage'
  BY DEF DevIdMeetsItsPackage, TypeOK, CallShape, WaitsFor, PcSet, DeployPcs, WaitPcs
<1>6. RestartSawDown'
  BY DEF RestartSawDown, TypeOK, CallShape, WaitsFor, Running, PcSet, DeployPcs, WaitPcs
<1> QED BY <1>1, <1>2, <1>3, <1>4, <1>5, <1>6

(* A resume is waited for, and calls that saw it running again may end.     *)
LEMMA ResumeKeeps ==
    ASSUME LifecycleInv, NEW c \in Clients, Resume(c)
    PROVE  LifecycleInv'
<1> USE NobodyAssumption, BoundsAssumption DEF LifecycleInv, Goto, box, Resume, Command, Take, Await
<1>1. TypeOK'
  BY DEF TypeOK, PcSet, DeployPcs, WaitPcs, Ops, Codes, Statuses, Commands, States, Owners
<1>2. CallShape'
  BY DEF CallShape, WaitsFor, TypeOK, PcSet, DeployPcs, WaitPcs
<1>3. CalmDeploy'
  BY DEF CalmDeploy, TypeOK, CallShape, WaitsFor, Running, PcSet, DeployPcs, WaitPcs
<1>4. CalmStop'
  BY DEF CalmStop, TypeOK, CallShape, WaitsFor, Running, PcSet, DeployPcs, WaitPcs
<1>5. DevIdMeetsItsPackage'
  BY DEF DevIdMeetsItsPackage, TypeOK, CallShape, WaitsFor, PcSet, DeployPcs, WaitPcs
<1>6. RestartSawDown'
  BY DEF RestartSawDown, TypeOK, CallShape, WaitsFor, Running, PcSet, DeployPcs, WaitPcs
<1> QED BY <1>1, <1>2, <1>3, <1>4, <1>5, <1>6

(* ... and Uninstall sends its command.                                     *)
LEMMA UninstallAppKeeps ==
    ASSUME LifecycleInv, NEW c \in Clients, UninstallApp(c)
    PROVE  LifecycleInv'
<1> USE NobodyAssumption, BoundsAssumption DEF LifecycleInv, Goto, box, UninstallApp, Command, Take, Return
<1>1. TypeOK'
  BY DEF TypeOK, PcSet, DeployPcs, WaitPcs, Ops, Codes, Statuses, Commands, States, Owners
<1>2. CallShape'
  BY DEF CallShape, WaitsFor, TypeOK, PcSet, DeployPcs, WaitPcs
<1>3. CalmDeploy'
  BY DEF CalmDeploy, TypeOK, CallShape, WaitsFor, Running, PcSet, DeployPcs, WaitPcs
<1>4. CalmStop'
  BY DEF CalmStop, TypeOK, CallShape, WaitsFor, Running, PcSet, DeployPcs, WaitPcs
<1>5. DevIdMeetsItsPackage'
  BY DEF DevIdMeetsItsPackage, TypeOK, CallShape, WaitsFor, PcSet, DeployPcs, WaitPcs
<1>6. RestartSawDown'
  BY DEF RestartSawDown, TypeOK, CallShape, WaitsFor, Running, PcSet, DeployPcs, WaitPcs
<1> QED BY <1>1, <1>2, <1>3, <1>4, <1>5, <1>6

(* A wait that fails ends its call.                                         *)
LEMMA WaitFails ==
    ASSUME LifecycleInv, NEW c \in Clients, pc[c] \in WaitPcs, NEW code \in Codes \ {"ok"}, Return(c, code), Local
    PROVE  LifecycleInv'
<1> USE DEF LifecycleInv, Goto, box, Return, Local
<1>1. TypeOK'
  BY DEF TypeOK, PcSet, DeployPcs, WaitPcs, Ops, Codes, Statuses, Commands, States, Owners
<1>2. CallShape'
  BY DEF CallShape, WaitsFor, TypeOK, PcSet, DeployPcs, WaitPcs
<1>3. CalmDeploy'
  BY DEF CalmDeploy, TypeOK, CallShape, WaitsFor, Running, PcSet, DeployPcs, WaitPcs
<1>4. CalmStop'
  BY DEF CalmStop, TypeOK, CallShape, WaitsFor, Running, PcSet, DeployPcs, WaitPcs
<1>5. DevIdMeetsItsPackage'
  BY DEF DevIdMeetsItsPackage, TypeOK, CallShape, WaitsFor, PcSet, DeployPcs, WaitPcs
<1>6. RestartSawDown'
  BY DEF RestartSawDown, TypeOK, CallShape, WaitsFor, Running, PcSet, DeployPcs, WaitPcs
<1> QED BY <1>1, <1>2, <1>3, <1>4, <1>5, <1>6

(* A wait that sees what it waits for: its call is over, or goes on.        *)
LEMMA WaitReaches ==
    ASSUME LifecycleInv, NEW c \in Clients, pc[c] \in WaitPcs, Matches(waiting[c]), Reached(c), Local
    PROVE  LifecycleInv'
<1> USE DEF LifecycleInv, Goto, box, Local
<1>1. CASE then[c] = "idle" /\ Return(c, "ok")
  <2> USE <1>1 DEF Return, Matches
  <2>1. TypeOK'
    BY DEF TypeOK, PcSet, Codes
  <2>2. CallShape'
    BY DEF CallShape, WaitsFor, TypeOK, PcSet, DeployPcs, WaitPcs
  <2>3. CalmDeploy'
    BY DEF CalmDeploy, TypeOK, CallShape, WaitsFor, Running, PcSet, DeployPcs, WaitPcs
  <2>4. CalmStop'
    <3>1. op[c] = "stop" => ~Running
      BY DEF CallShape, WaitsFor, WaitPcs
    <3>2. pc'[c] = "idle" /\ \A d \in Clients \ {c} : pc'[d] = pc[d] /\ ret'[d] = ret[d]
      BY DEF TypeOK
    <3> QED BY <3>1, <3>2 DEF CalmStop, TypeOK, Running
  <2>5. DevIdMeetsItsPackage'
    BY DEF DevIdMeetsItsPackage, TypeOK, CallShape, WaitsFor, PcSet, DeployPcs, WaitPcs
  <2>6. RestartSawDown'
    BY DEF RestartSawDown, TypeOK, CallShape, WaitsFor, Running, PcSet, DeployPcs, WaitPcs
  <2> QED BY <2>1, <2>2, <2>3, <2>4, <2>5, <2>6
<1>2. CASE then[c] # "idle" /\ Goto(c, then[c])
  <2> USE <1>2 DEF Reached, Matches
  <2>1. TypeOK'
    BY DEF TypeOK, PcSet, DeployPcs
  <2>2. CallShape'
    BY DEF CallShape, WaitsFor, TypeOK, PcSet, DeployPcs, WaitPcs
  <2>3. CalmDeploy'
    <3>1. ASSUME op[c] = "deploy" PROVE then[c] = "syncDevID" /\ Running
      BY <3>1 DEF CallShape, WaitsFor, WaitPcs
    <3>2. pc'[c] = then[c] /\ then[c] \in {"syncDevID", "resume"}
      BY DEF TypeOK
    <3>3. \A d \in Clients \ {c} : pc'[d] = pc[d]
      BY DEF TypeOK
    <3> QED BY <3>1, <3>2, <3>3 DEF CalmDeploy, TypeOK, Running
  <2>4. CalmStop'
    <3>1. op[c] # "stop"
      BY DEF CallShape, WaitsFor, WaitPcs
    <3>2. \A d \in Clients \ {c} : pc'[d] = pc[d] /\ ret'[d] = ret[d]
      BY DEF TypeOK
    <3> QED BY <3>1, <3>2 DEF CalmStop, TypeOK, Running
  <2>5. DevIdMeetsItsPackage'
    BY DEF DevIdMeetsItsPackage, TypeOK, CallShape, WaitsFor, PcSet, DeployPcs, WaitPcs
  <2>6. RestartSawDown'
    <3>1. op[c] = "restart" => ~Running
      BY DEF CallShape, WaitsFor, WaitPcs
    <3>2. \A d \in Clients \ {c} : pc'[d] = pc[d]
      BY DEF TypeOK
    <3> QED BY <3>1, <3>2 DEF RestartSawDown, TypeOK, Running
  <2> QED BY <2>1, <2>2, <2>3, <2>4, <2>5, <2>6
<1> QED BY <1>1, <1>2 DEF Reached

(* A wait that goes on is where it was.                                     *)
LEMMA WaitGoesOn ==
    ASSUME LifecycleInv, NEW c \in Clients, pc[c] \in WaitPcs, NEW at \in WaitPcs, Goto(c, at),
           at = "isDevshell" => waiting[c] = "devshell",
           UNCHANGED <<op, waiting, then, expired, base, ret>>, Local
    PROVE  LifecycleInv'
<1> USE DEF LifecycleInv, Goto, box, Local
<1>1. TypeOK'
  BY DEF TypeOK, PcSet, DeployPcs, WaitPcs, Ops, Codes, Statuses, Commands, States, Owners
<1>2. CallShape'
  BY DEF CallShape, WaitsFor, TypeOK, PcSet, DeployPcs, WaitPcs
<1>3. CalmDeploy'
  BY DEF CalmDeploy, TypeOK, CallShape, WaitsFor, Running, PcSet, DeployPcs, WaitPcs
<1>4. CalmStop'
  BY DEF CalmStop, TypeOK, CallShape, WaitsFor, Running, PcSet, DeployPcs, WaitPcs
<1>5. DevIdMeetsItsPackage'
  BY DEF DevIdMeetsItsPackage, TypeOK, CallShape, WaitsFor, PcSet, DeployPcs, WaitPcs
<1>6. RestartSawDown'
  BY DEF RestartSawDown, TypeOK, CallShape, WaitsFor, Running, PcSet, DeployPcs, WaitPcs
<1> QED BY <1>1, <1>2, <1>3, <1>4, <1>5, <1>6

(* The polls and the sleeps of Wait ...                                     *)
LEMMA PollKeeps ==
    ASSUME LifecycleInv, NEW c \in Clients, Poll(c)
    PROVE  LifecycleInv'
<1>1. pc[c] \in WaitPcs /\ Local
  BY DEF Poll, WaitPcs
<1>2. CASE Return(c, "commandFailed")
  BY <1>1, <1>2, WaitFails DEF Codes
<1>3. CASE Matches(waiting[c]) /\ Reached(c)
  BY <1>1, <1>3, WaitReaches
<1>4. CASE /\ Goto(c, IF waiting[c] = "devshell" THEN "isDevshell" ELSE "deadline")
           /\ UNCHANGED <<op, waiting, then, expired, base, ret>>
  BY <1>1, <1>4, WaitGoesOn DEF WaitPcs
<1> QED BY <1>2, <1>3, <1>4 DEF Poll

(* The devshell's own command is a poll of a deployment.                    *)
LEMMA IsDevshellKeeps ==
    ASSUME LifecycleInv, NEW c \in Clients, IsDevshell(c)
    PROVE  LifecycleInv'
<1>1. pc[c] \in WaitPcs /\ Local /\ waiting[c] = "devshell"
  BY DEF IsDevshell, WaitPcs, LifecycleInv, CallShape
<1>2. CASE Matches("devshell") /\ Reached(c)
  BY <1>1, <1>2, WaitReaches
<1>3. CASE Goto(c, "deadline") /\ UNCHANGED <<op, waiting, then, expired, base, ret>>
  BY <1>1, <1>3, WaitGoesOn DEF WaitPcs
<1> QED BY <1>2, <1>3 DEF IsDevshell

(* A wait past its deadline fails; another goes on.                         *)
LEMMA DeadlineKeeps ==
    ASSUME LifecycleInv, NEW c \in Clients, Deadline(c)
    PROVE  LifecycleInv'
<1>1. pc[c] \in WaitPcs /\ Local
  BY DEF Deadline, WaitPcs
<1>2. CASE Return(c, "deadline")
  BY <1>1, <1>2, WaitFails DEF Codes
<1>3. CASE Goto(c, "sleep") /\ UNCHANGED <<op, waiting, then, expired, base, ret>>
  BY <1>1, <1>3, WaitGoesOn DEF WaitPcs
<1> QED BY <1>2, <1>3 DEF Deadline

(* A sleep only goes back to the poll.                                      *)
LEMMA SleepKeeps ==
    ASSUME LifecycleInv, NEW c \in Clients, Sleep(c)
    PROVE  LifecycleInv'
<1>1. pc[c] \in WaitPcs /\ Local /\ Goto(c, "poll") /\ UNCHANGED <<op, waiting, then, expired, base, ret>>
  BY DEF Sleep, WaitPcs
<1> QED BY <1>1, WaitGoesOn DEF WaitPcs

(* ... its deadline, and a client that gives up.                            *)
LEMMA ExpireKeeps ==
    ASSUME LifecycleInv, NEW c \in Clients, Expire(c)
    PROVE  LifecycleInv'
<1> USE NobodyAssumption, BoundsAssumption DEF LifecycleInv, Goto, box, Expire, Local
<1>1. TypeOK'
  BY DEF TypeOK, PcSet, DeployPcs, WaitPcs, Ops, Codes, Statuses, Commands, States, Owners
<1>2. CallShape'
  BY DEF CallShape, WaitsFor, TypeOK, PcSet, DeployPcs, WaitPcs
<1>3. CalmDeploy'
  BY DEF CalmDeploy, TypeOK, CallShape, WaitsFor, Running, PcSet, DeployPcs, WaitPcs
<1>4. CalmStop'
  BY DEF CalmStop, TypeOK, CallShape, WaitsFor, Running, PcSet, DeployPcs, WaitPcs
<1>5. DevIdMeetsItsPackage'
  BY DEF DevIdMeetsItsPackage, TypeOK, CallShape, WaitsFor, PcSet, DeployPcs, WaitPcs
<1>6. RestartSawDown'
  BY DEF RestartSawDown, TypeOK, CallShape, WaitsFor, Running, PcSet, DeployPcs, WaitPcs
<1> QED BY <1>1, <1>2, <1>3, <1>4, <1>5, <1>6

(* A call that gives up fails; its command may be on its way.               *)
LEMMA GiveUpKeeps ==
    ASSUME LifecycleInv, NEW c \in Clients, GiveUp(c)
    PROVE  LifecycleInv'
<1> USE NobodyAssumption, BoundsAssumption DEF LifecycleInv, Goto, box, GiveUp, Return, Sent
<1>1. TypeOK'
  BY DEF TypeOK, PcSet, DeployPcs, WaitPcs, Ops, Codes, Statuses, Commands, States, Owners
<1>2. CallShape'
  BY DEF CallShape, WaitsFor, TypeOK, PcSet, DeployPcs, WaitPcs
<1>3. CalmDeploy'
  BY DEF CalmDeploy, TypeOK, CallShape, WaitsFor, Running, PcSet, DeployPcs, WaitPcs
<1>4. CalmStop'
  BY DEF CalmStop, TypeOK, CallShape, WaitsFor, Running, PcSet, DeployPcs, WaitPcs
<1>5. DevIdMeetsItsPackage'
  BY DEF DevIdMeetsItsPackage, TypeOK, CallShape, WaitsFor, PcSet, DeployPcs, WaitPcs
<1>6. RestartSawDown'
  BY DEF RestartSawDown, TypeOK, CallShape, WaitsFor, Running, PcSet, DeployPcs, WaitPcs
<1> QED BY <1>1, <1>2, <1>3, <1>4, <1>5, <1>6

(* The box follows a command: a pause does not end, nor does what runs.     *)
LEMMA FollowKeeps ==
    ASSUME LifecycleInv, Follow
    PROVE  LifecycleInv'
<1> USE NobodyAssumption, BoundsAssumption DEF LifecycleInv, Follow, client
<1>1. TypeOK'
  BY DEF TypeOK, PcSet, DeployPcs, WaitPcs, Ops, Codes, Statuses, Commands, States, Owners
<1>2. CallShape'
  BY DEF CallShape, WaitsFor
<1>3. CalmDeploy'
  BY DEF CalmDeploy, TypeOK, CallShape, WaitsFor, Running, PcSet, DeployPcs, WaitPcs
<1>4. CalmStop'
  BY DEF CalmStop, TypeOK, CallShape, WaitsFor, Running, PcSet, DeployPcs, WaitPcs
<1>5. DevIdMeetsItsPackage'
  BY DEF DevIdMeetsItsPackage, TypeOK, CallShape, WaitsFor, PcSet, DeployPcs, WaitPcs
<1>6. RestartSawDown'
  BY DEF RestartSawDown, TypeOK, CallShape, WaitsFor, Running, PcSet, DeployPcs, WaitPcs
<1> QED BY <1>1, <1>2, <1>3, <1>4, <1>5, <1>6

(* A command that arrives late leaves nobody calm.                          *)
LEMMA TakeOrphanKeeps ==
    ASSUME LifecycleInv, TakeOrphan
    PROVE  LifecycleInv'
<1> USE NobodyAssumption, BoundsAssumption DEF LifecycleInv, TakeOrphan, Take, DevIdTaken, client
<1>0. calm' = {}
  OBVIOUS
<1>1. TypeOK'
  BY DEF TypeOK, PcSet, DeployPcs, WaitPcs, Ops, Codes, Statuses, Commands, States, Owners
<1>2. CallShape'
  BY DEF CallShape, WaitsFor
<1>3. CalmDeploy'
  BY <1>0 DEF CalmDeploy
<1>4. CalmStop'
  BY <1>0 DEF CalmStop
<1>5. DevIdMeetsItsPackage'
  <2>1. PICK o \in orphans : Take(o.kind, o.by) /\ overlap' = (overlap \/ o.kind \in {"install", "syncDevID"})
    OBVIOUS
  <2>2. ~overlap' => /\ ~overlap
                     /\ \/ pkg' = pkg /\ devid' = devid
                        \/ pkg' = Nobody /\ devid' = Nobody
    BY <2>1
  <2> HIDE DEF TakeOrphan, Take
  <2>3. pc' = pc /\ op' = op
    BY DEF TakeOrphan, client
  <2> QED BY <2>2, <2>3 DEF DevIdMeetsItsPackage
<1>6. RestartSawDown'
  BY DEF RestartSawDown, TypeOK, CallShape, WaitsFor, Running, PcSet, DeployPcs, WaitPcs
<1> QED BY <1>1, <1>2, <1>3, <1>4, <1>5, <1>6

(* A command that is lost changes nothing.                                  *)
LEMMA LoseOrphanKeeps ==
    ASSUME LifecycleInv, LoseOrphan
    PROVE  LifecycleInv'
<1> USE NobodyAssumption, BoundsAssumption DEF LifecycleInv, LoseOrphan, client, box
<1>1. TypeOK'
  BY DEF TypeOK, PcSet, DeployPcs, WaitPcs, Ops, Codes, Statuses, Commands, States, Owners
<1>2. CallShape'
  BY DEF CallShape, WaitsFor
<1>3. CalmDeploy'
  BY DEF CalmDeploy, TypeOK, CallShape, WaitsFor, Running, PcSet, DeployPcs, WaitPcs
<1>4. CalmStop'
  BY DEF CalmStop, TypeOK, CallShape, WaitsFor, Running, PcSet, DeployPcs, WaitPcs
<1>5. DevIdMeetsItsPackage'
  BY DEF DevIdMeetsItsPackage, TypeOK, CallShape, WaitsFor, PcSet, DeployPcs, WaitPcs
<1>6. RestartSawDown'
  BY DEF RestartSawDown, TypeOK, CallShape, WaitsFor, Running, PcSet, DeployPcs, WaitPcs
<1> QED BY <1>1, <1>2, <1>3, <1>4, <1>5, <1>6

(* Every step keeps the invariant.                                          *)
LEMMA LifecycleKeeps ==
    ASSUME LifecycleInv, [Next]_vars
    PROVE  LifecycleInv'
<1>1. CASE UNCHANGED vars
  BY <1>1 DEF vars, box, client, LifecycleInv, TypeOK, CallShape, WaitsFor, CalmDeploy, CalmStop,
              DevIdMeetsItsPackage, RestartSawDown, Running
<1>2. ASSUME NEW c \in Clients, Invoke(c) PROVE LifecycleInv'
  BY <1>2, DeployKeeps, StartKeeps, StopKeeps, UninstallKeeps, WaitKeeps DEF Invoke
<1>3. ASSUME NEW c \in Clients, Work(c) PROVE LifecycleInv'
  <2>1. CASE BackendInfo(c) \/ Install(c) \/ SyncDevID(c) \/ DeployInfo(c)
    BY <2>1, BackendInfoKeeps, InstallKeeps, SyncDevIDKeeps, DeployInfoKeeps
  <2>2. CASE Look(c) \/ Pause(c) \/ Resume(c) \/ UninstallApp(c)
    BY <2>2, LookKeeps, PauseKeeps, ResumeKeeps, UninstallAppKeeps
  <2>3. CASE Poll(c) \/ IsDevshell(c) \/ Deadline(c) \/ Sleep(c)
    BY <2>3, PollKeeps, IsDevshellKeeps, DeadlineKeeps, SleepKeeps
  <2> QED BY <1>3, <2>1, <2>2, <2>3 DEF Work
<1>4. ASSUME NEW c \in Clients, Expire(c) \/ GiveUp(c) PROVE LifecycleInv'
  BY <1>4, ExpireKeeps, GiveUpKeeps
<1>5. CASE Box
  BY <1>5, FollowKeeps, TakeOrphanKeeps, LoseOrphanKeeps DEF Box
<1> QED BY <1>1, <1>2, <1>3, <1>4, <1>5 DEF Next

(* In every behaviour of the service's clients and of the box.              *)
THEOREM LifecycleInvariance == Spec => []LifecycleInv
BY LifecycleStarts, LifecycleKeeps, PTL DEF Spec

(* What Deploy promises when nobody else commands the box: its own package   *)
(* with its own dev.id.                                                     *)
LEMMA DeploysComplete == LifecycleInv => DeployComplete
BY DEF LifecycleInv, CalmDeploy, DevIdMeetsItsPackage, DeployComplete, CallShape, TypeOK

(* A Deploy that succeeded with nobody else commanding the box left its own *)
(* package with its own dev.id; deployments in turn never mix the two.      *)
THEOREM DeployIsComplete == Spec => []DeployComplete
BY DeploysComplete, LifecycleInvariance, PTL

(* What Stop promises: the application is down and stays down.              *)
LEMMA StopsEffective == LifecycleInv => StopEffective
BY DEF LifecycleInv, CalmStop, StopEffective, CallShape, TypeOK

(* A Stop that succeeded with nobody else commanding the box brought the    *)
(* application down to stay.                                                *)
THEOREM StopIsEffective == Spec => []StopEffective
BY StopsEffective, LifecycleInvariance, PTL

(* A step of another client, or of the box, ends no call of c.               *)
LEMMA OthersLeaveCalls ==
    ASSUME TypeOK, NEW c \in Clients,
           Box \/ UNCHANGED vars \/ \E d \in Clients \ {c} : Invoke(d) \/ Work(d) \/ Expire(d) \/ GiveUp(d)
    PROVE  pc'[c] = pc[c]
<1> USE DEF TypeOK, Goto, Return, Await
<1>1. CASE Box \/ UNCHANGED vars
  BY <1>1 DEF Box, Follow, TakeOrphan, LoseOrphan, client, vars
<1>2. ASSUME NEW d \in Clients \ {c}, Invoke(d) \/ Expire(d) \/ GiveUp(d) PROVE pc'[c] = pc[c]
  BY <1>2 DEF Invoke, Deploy, Start, Stop, Uninstall, Wait, Call, Expire, GiveUp
<1>3. ASSUME NEW d \in Clients \ {c}, Work(d) PROVE pc'[c] = pc[c]
  <2>1. CASE BackendInfo(d) \/ Install(d) \/ SyncDevID(d) \/ DeployInfo(d)
    BY <1>3, <2>1 DEF BackendInfo, Install, SyncDevID, DeployInfo
  <2>2. CASE Look(d) \/ Pause(d) \/ Resume(d) \/ UninstallApp(d)
    BY <1>3, <2>2 DEF Look, Pause, Resume, UninstallApp
  <2>3. CASE Poll(d) \/ IsDevshell(d) \/ Deadline(d) \/ Sleep(d)
    BY <1>3, <2>3 DEF Poll, IsDevshell, Deadline, Sleep, Reached
  <2> QED BY <1>3, <2>1, <2>2, <2>3 DEF Work
<1> QED BY <1>1, <1>2, <1>3

(* A restart succeeds only in a poll, and in no wait but its last.           *)
LEMMA RestartsEndInPoll ==
    ASSUME TypeOK, CallShape, Next, NEW c \in Clients,
           op[c] = "restart", pc[c] # "idle", pc'[c] = "idle", ret'[c] = "ok"
    PROVE  Poll(c) /\ Running /\ waiting[c] = "running"
<1> USE DEF TypeOK, Goto, Return, Await
<1>1. Invoke(c) \/ Work(c) \/ Expire(c) \/ GiveUp(c)
  BY OthersLeaveCalls DEF Next
<1>2. ~Invoke(c) /\ ~Expire(c) /\ ~GiveUp(c)
  BY DEF Invoke, Deploy, Start, Stop, Uninstall, Wait, Call, Expire, GiveUp, WaitPcs
<1>3. pc[c] \in {"look", "pause", "resume"} \union WaitPcs /\ pc[c] # "isDevshell"
  BY DEF CallShape, WaitPcs, WaitsFor
<1>4. Look(c) \/ Pause(c) \/ Resume(c) \/ Poll(c) \/ Deadline(c) \/ Sleep(c)
  BY <1>1, <1>2, <1>3 DEF Work, BackendInfo, Install, SyncDevID, DeployInfo, UninstallApp, IsDevshell, WaitPcs
<1>5. Poll(c)
  BY <1>4 DEF Look, Pause, Resume, Deadline, Sleep
<1>6. pc[c] = "poll" /\ then[c] \in {"idle", "resume"} /\ (then[c] = "idle" => waiting[c] = "running")
  BY <1>5 DEF Poll, CallShape, WaitPcs, WaitsFor
<1>7. then[c] = "idle" /\ Matches(waiting[c])
  BY <1>5, <1>6 DEF Poll, Reached
<1> QED BY <1>5, <1>6, <1>7 DEF Matches

(* What Start with Restart promises: the application came up since it looked.*)
THEOREM RestartIsAFreshStart == Spec => RestartIsFresh
<1>1. ASSUME LifecycleInv, [Next]_vars, NEW c \in Clients,
             op[c] = "restart", pc[c] # "idle", pc'[c] = "idle", ret'[c] = "ok"
      PROVE  Running /\ runs > base[c]
  <2>1. TypeOK /\ CallShape /\ RestartSawDown
    BY <1>1 DEF LifecycleInv
  <2>2. Next
    BY <1>1 DEF vars, client
  <2>3. Poll(c) /\ Running /\ waiting[c] = "running"
    BY <1>1, <2>1, <2>2, RestartsEndInPoll
  <2> QED BY <1>1, <2>1, <2>3 DEF RestartSawDown, Poll, WaitPcs
<1>2. LifecycleInv /\ [Next]_vars =>
        [\A c \in Clients :
           (op[c] = "restart" /\ pc[c] # "idle" /\ pc'[c] = "idle" /\ ret'[c] = "ok")
              => Running /\ runs > base[c]]_vars
  BY <1>1
<1> QED BY <1>2, LifecycleInvariance, PTL DEF Spec, RestartIsFresh

-----------------------------------------------------------------------------
(* The runs                                                                *)

(* The initial states satisfy the invariant.                                *)
LEMMA PreviewStarts == PreviewInit => PInv
<1> SUFFICES ASSUME PreviewInit PROVE PInv
  OBVIOUS
<1>1. LifecycleInv
  BY LifecycleStarts DEF PreviewInit
<1>2. \A r \in Runners : pc[r] = "idle"
  BY RunnersAssumption DEF PreviewInit, Init
<1>3. RunShape
  BY <1>2 DEF PreviewInit, RunShape, Stages, Outcomes, Owners
<1>4. ServesAlone
  BY RunnersAssumption, NobodyAssumption DEF PreviewInit, ServesAlone
<1>5. UpSince
  BY DEF PreviewInit, Init, UpSince, Running
<1> QED BY <1>1, <1>3, <1>4, <1>5 DEF PInv

(* A step of a preview is a step of the service, or leaves the service      *)
(* alone but for a fault that ends a run.                                   *)
LEMMA ServiceKeeps ==
    ASSUME LifecycleInv, [PreviewNext]_allVars
    PROVE  LifecycleInv'
<1>1. CASE \E r \in Runners : Interrupt(r)
  BY <1>1, BoundsAssumption DEF Interrupt, LifecycleInv, TypeOK, CallShape, WaitsFor, CalmDeploy, CalmStop,
                                DevIdMeetsItsPackage, RestartSawDown, Running, box, client
<1>2. CASE ~\E r \in Runners : Interrupt(r)
  <2>1. \A r \in Runners : CallService(r) => Next
    BY RunnersAssumption DEF CallService, Next, Invoke
  <2>2. \A c \in Clients : Serve(c) \/ Fall(c) \/ Direct(c) => Next
    BY DEF Serve, Commanding, Fall, Direct, Next, Work
  <2>3. BoxSteps => Next
    BY DEF BoxSteps, Next, Box
  <2>4. \A r \in Runners : Run(r) \/ Build(r) \/ Returned(r) \/ Sync(r) => UNCHANGED vars
    BY DEF Run, Build, Returned, Sync
  <2>5. [Next]_vars
    BY <1>2, <2>1, <2>2, <2>3, <2>4 DEF PreviewNext, StageWork, allVars
  <2> QED BY <2>5, LifecycleKeeps
<1> QED BY <1>1, <1>2

(* A run begins with an empty temporary file, and goes through its stages.  *)
LEMMA RunRuns ==
    ASSUME PInv, NEW r \in Runners, Run(r)
    PROVE  RunShape' /\ ServesAlone' /\ UpSince'
<1> USE RunnersAssumption, NobodyAssumption DEF PInv, box, run, preview, Run, Enter, vars, client
<1>1. RunShape'
  BY DEF RunShape, LifecycleInv, TypeOK, CallShape, DeployPcs, WaitPcs, Stages, Outcomes, Owners
<1>2. ServesAlone'
  BY DEF ServesAlone, Deployed, Started, Installed, GoingUp, RunShape, LifecycleInv, TypeOK, CallShape, WaitsFor, DeployPcs, WaitPcs, Running
<1>3. UpSince'
  BY DEF UpSince, LifecycleInv, TypeOK, Running
<1> QED BY <1>1, <1>2, <1>3

(* Only a build with a whole package goes on to the box.                    *)
LEMMA BuildRuns ==
    ASSUME PInv, NEW r \in Runners, Build(r)
    PROVE  RunShape' /\ ServesAlone' /\ UpSince'
<1> USE RunnersAssumption, NobodyAssumption DEF PInv, box, run, preview, Build, Enter, End, vars, client
<1>1. RunShape'
  BY DEF RunShape, LifecycleInv, TypeOK, CallShape, DeployPcs, WaitPcs, Stages, Outcomes, Owners
<1>2. ServesAlone'
  BY DEF ServesAlone, Deployed, Started, Installed, GoingUp, RunShape, LifecycleInv, TypeOK, CallShape, WaitsFor, DeployPcs, WaitPcs, Running
<1>3. UpSince'
  BY DEF UpSince, LifecycleInv, TypeOK, Running
<1> QED BY <1>1, <1>2, <1>3

(* A run that is interrupted fails and clears its package away.             *)
LEMMA InterruptRuns ==
    ASSUME PInv, NEW r \in Runners, Interrupt(r)
    PROVE  RunShape' /\ ServesAlone' /\ UpSince'
<1> USE RunnersAssumption, NobodyAssumption DEF PInv, box, run, preview, Interrupt, Enter, End, client
<1>1. RunShape'
  BY DEF RunShape, LifecycleInv, TypeOK, CallShape, DeployPcs, WaitPcs, Stages, Outcomes, Owners
<1>2. ServesAlone'
  BY DEF ServesAlone, Deployed, Started, Installed, GoingUp, RunShape, LifecycleInv, TypeOK, CallShape, WaitsFor, DeployPcs, WaitPcs, Running
<1>3. UpSince'
  BY DEF UpSince, LifecycleInv, TypeOK, Running
<1> QED BY <1>1, <1>2, <1>3

(* A call of the service that returned takes its run on, or ends it.        *)
LEMMA ReturnedRuns ==
    ASSUME PInv, NEW r \in Runners, Returned(r)
    PROVE  RunShape' /\ ServesAlone' /\ UpSince'
<1> USE RunnersAssumption, NobodyAssumption DEF PInv, box, run, preview, Returned, Enter, End, vars, client
<1>1. RunShape'
  BY DEF RunShape, LifecycleInv, TypeOK, CallShape, DeployPcs, WaitPcs, Stages, Outcomes, Owners
<1>2. ServesAlone'
  BY DEF ServesAlone, Deployed, Started, Installed, GoingUp, RunShape, LifecycleInv, TypeOK, CallShape, WaitsFor, DeployPcs, WaitPcs, Running
<1>3. UpSince'
  BY DEF UpSince, LifecycleInv, TypeOK, Running
<1> QED BY <1>1, <1>2, <1>3

(* The sync of files leaves the box's application alone.                    *)
LEMMA SyncRuns ==
    ASSUME PInv, NEW r \in Runners, Sync(r)
    PROVE  RunShape' /\ ServesAlone' /\ UpSince'
<1> USE RunnersAssumption, NobodyAssumption DEF PInv, box, run, preview, Sync, Enter, End, vars, client
<1>1. RunShape'
  BY DEF RunShape, LifecycleInv, TypeOK, CallShape, DeployPcs, WaitPcs, Stages, Outcomes, Owners
<1>2. ServesAlone'
  BY DEF ServesAlone, Deployed, Started, Installed, GoingUp, RunShape, LifecycleInv, TypeOK, CallShape, WaitsFor, DeployPcs, WaitPcs, Running
<1>3. UpSince'
  BY DEF UpSince, LifecycleInv, TypeOK, Running
<1> QED BY <1>1, <1>2, <1>3

(* A run calls Deploy, and later Start or a restart.                        *)
LEMMA CallServiceRuns ==
    ASSUME PInv, NEW r \in Runners, CallService(r)
    PROVE  RunShape' /\ ServesAlone' /\ UpSince'
<1> USE RunnersAssumption, NobodyAssumption DEF PInv, box, run, preview, CallService, Enter, Deploy, Start, Call, Goto
<1>1. RunShape'
  BY DEF RunShape, LifecycleInv, TypeOK, CallShape, DeployPcs, WaitPcs, Stages, Outcomes, Owners
<1>2. ServesAlone'
  BY DEF ServesAlone, Deployed, Started, Installed, GoingUp, RunShape, LifecycleInv, TypeOK, CallShape, WaitsFor, DeployPcs, WaitPcs, Running
<1>3. UpSince'
  BY DEF UpSince, LifecycleInv, TypeOK, Running
<1> QED BY <1>1, <1>2, <1>3

(* The service's steps, of the runner or of another client.                 *)
LEMMA BackendInfoRuns ==
    ASSUME PInv, NEW c \in Clients, BackendInfo(c), UNCHANGED <<run, previews, directs>>, UNCHANGED <<mine, before>>
    PROVE  RunShape' /\ ServesAlone' /\ UpSince'
<1> USE RunnersAssumption, NobodyAssumption DEF PInv, box, run, preview, BackendInfo, Goto, Return, Local
<1>1. RunShape'
  BY DEF RunShape, LifecycleInv, TypeOK, CallShape, DeployPcs, WaitPcs, Stages, Outcomes, Owners
<1>2. ServesAlone'
  BY DEF ServesAlone, Deployed, Started, Installed, GoingUp, RunShape, LifecycleInv, TypeOK, CallShape, WaitsFor, DeployPcs, WaitPcs, Running
<1>3. UpSince'
  BY DEF UpSince, LifecycleInv, TypeOK, Running
<1> QED BY <1>1, <1>2, <1>3

(* Whoever sends a package has the box to itself until somebody commands it.*)
LEMMA InstallRuns ==
    ASSUME PInv, NEW c \in Clients, Install(c), UNCHANGED <<run, previews, directs>>, mine' = c, before' = runs
    PROVE  RunShape' /\ ServesAlone' /\ UpSince'
<1> USE RunnersAssumption, NobodyAssumption DEF PInv, box, run, preview, Install, Goto, Command, Take, Await
<1>1. RunShape'
  BY DEF RunShape, LifecycleInv, TypeOK, CallShape, DeployPcs, WaitPcs, Stages, Outcomes, Owners
<1>2. ServesAlone'
  BY DEF ServesAlone, Deployed, Started, Installed, GoingUp, RunShape, LifecycleInv, TypeOK, CallShape, WaitsFor, DeployPcs, WaitPcs, Running
<1>3. UpSince'
  BY DEF UpSince, LifecycleInv, TypeOK, Running
<1> QED BY <1>1, <1>2, <1>3

(* A dev.id that arrives while its sender has the box meets its package.    *)
LEMMA SyncDevIDRuns ==
    ASSUME PInv, NEW c \in Clients, SyncDevID(c), UNCHANGED <<run, previews, directs>>, mine' = (IF mine = c THEN c ELSE Nobody), UNCHANGED before
    PROVE  RunShape' /\ ServesAlone' /\ UpSince'
<1> USE RunnersAssumption, NobodyAssumption DEF PInv, box, run, preview, SyncDevID, Goto, Commanding, Command, Take, DevIdTaken
<1>1. RunShape'
  BY DEF RunShape, LifecycleInv, TypeOK, CallShape, DeployPcs, WaitPcs, Stages, Outcomes, Owners
<1>2. ServesAlone'
  BY DEF ServesAlone, Deployed, Started, Installed, GoingUp, RunShape, LifecycleInv, TypeOK, CallShape, WaitsFor, DeployPcs, WaitPcs, Running
<1>3. UpSince'
  BY DEF UpSince, LifecycleInv, TypeOK, Running
<1> QED BY <1>1, <1>2, <1>3

(* The end of a deployment changes nothing at the box.                      *)
LEMMA DeployInfoRuns ==
    ASSUME PInv, NEW c \in Clients, DeployInfo(c), UNCHANGED <<run, previews, directs>>, UNCHANGED <<mine, before>>
    PROVE  RunShape' /\ ServesAlone' /\ UpSince'
<1> USE RunnersAssumption, NobodyAssumption DEF PInv, box, run, preview, DeployInfo, Goto, Return, Local
<1>1. RunShape'
  BY DEF RunShape, LifecycleInv, TypeOK, CallShape, DeployPcs, WaitPcs, Stages, Outcomes, Owners
<1>2. ServesAlone'
  BY DEF ServesAlone, Deployed, Started, Installed, GoingUp, RunShape, LifecycleInv, TypeOK, CallShape, WaitsFor, DeployPcs, WaitPcs, Running
<1>3. UpSince'
  BY DEF UpSince, LifecycleInv, TypeOK, Running
<1> QED BY <1>1, <1>2, <1>3

(* The look of a start that finds the application up has nothing to do.     *)
LEMMA LookRuns ==
    ASSUME PInv, NEW c \in Clients, Look(c), UNCHANGED <<run, previews, directs>>, UNCHANGED <<mine, before>>
    PROVE  RunShape' /\ ServesAlone' /\ UpSince'
<1> USE RunnersAssumption, NobodyAssumption DEF PInv, box, run, preview, Look, Goto, Local, Await, Return
<1>1. RunShape'
  BY DEF RunShape, LifecycleInv, TypeOK, CallShape, DeployPcs, WaitPcs, Stages, Outcomes, Owners
<1>2. ServesAlone'
  BY DEF ServesAlone, Deployed, Started, Installed, GoingUp, RunShape, LifecycleInv, TypeOK, CallShape, WaitsFor, DeployPcs, WaitPcs, Running
<1>3. UpSince'
  BY DEF UpSince, LifecycleInv, TypeOK, Running
<1> QED BY <1>1, <1>2, <1>3

(* A pause is of the run that restarts, or ends its having the box alone.   *)
LEMMA PauseRuns ==
    ASSUME PInv, NEW c \in Clients, Pause(c), UNCHANGED <<run, previews, directs>>, mine' = (IF mine = c THEN c ELSE Nobody), UNCHANGED before
    PROVE  RunShape' /\ ServesAlone' /\ UpSince'
<1> USE RunnersAssumption, NobodyAssumption DEF PInv, box, run, preview, Pause, Goto, Command, Take, Await
<1>1. RunShape'
  BY DEF RunShape, LifecycleInv, TypeOK, CallShape, DeployPcs, WaitPcs, Stages, Outcomes, Owners
<1>2. ServesAlone'
  BY DEF ServesAlone, Deployed, Started, Installed, GoingUp, RunShape, LifecycleInv, TypeOK, CallShape, WaitsFor, DeployPcs, WaitPcs, Running
<1>3. UpSince'
  BY DEF UpSince, LifecycleInv, TypeOK, Running
<1> QED BY <1>1, <1>2, <1>3

(* So is a resume, after which the application is going up.                 *)
LEMMA ResumeRuns ==
    ASSUME PInv, NEW c \in Clients, Resume(c), UNCHANGED <<run, previews, directs>>, mine' = (IF mine = c THEN c ELSE Nobody), UNCHANGED before
    PROVE  RunShape' /\ ServesAlone' /\ UpSince'
<1> USE RunnersAssumption, NobodyAssumption DEF PInv, box, run, preview, Resume, Goto, Command, Take, Await
<1>1. RunShape'
  BY DEF RunShape, LifecycleInv, TypeOK, CallShape, DeployPcs, WaitPcs, Stages, Outcomes, Owners
<1>2. ServesAlone'
  BY DEF ServesAlone, Deployed, Started, Installed, GoingUp, RunShape, LifecycleInv, TypeOK, CallShape, WaitsFor, DeployPcs, WaitPcs, Running
<1>3. UpSince'
  BY DEF UpSince, LifecycleInv, TypeOK, Running
<1> QED BY <1>1, <1>2, <1>3

(* No run uninstalls: the box is another's after it.                        *)
LEMMA UninstallAppRuns ==
    ASSUME PInv, NEW c \in Clients, UninstallApp(c), UNCHANGED <<run, previews, directs>>, mine' = (IF mine = c THEN c ELSE Nobody), UNCHANGED before
    PROVE  RunShape' /\ ServesAlone' /\ UpSince'
<1> USE RunnersAssumption, NobodyAssumption DEF PInv, box, run, preview, UninstallApp, Goto, Command, Take, Return
<1>1. RunShape'
  BY DEF RunShape, LifecycleInv, TypeOK, CallShape, DeployPcs, WaitPcs, Stages, Outcomes, Owners
<1>2. ServesAlone'
  BY DEF ServesAlone, Deployed, Started, Installed, GoingUp, RunShape, LifecycleInv, TypeOK, CallShape, WaitsFor, DeployPcs, WaitPcs, Running
<1>3. UpSince'
  BY DEF UpSince, LifecycleInv, TypeOK, Running
<1> QED BY <1>1, <1>2, <1>3

(* A start ends when it saw the application up.                             *)
LEMMA PollRuns ==
    ASSUME PInv, NEW c \in Clients, Poll(c), UNCHANGED <<run, previews, directs>>, UNCHANGED <<mine, before>>
    PROVE  RunShape' /\ ServesAlone' /\ UpSince'
<1> USE RunnersAssumption, NobodyAssumption DEF PInv, box, run, preview, Poll, Goto, Local
<1>1. CASE Return(c, "commandFailed")
  <2> USE <1>1 DEF Return
  <2>1. RunShape'
    BY DEF RunShape, LifecycleInv, TypeOK, CallShape, DeployPcs, WaitPcs, Stages, Outcomes, Owners
  <2>2. ServesAlone'
    BY DEF ServesAlone, Deployed, Started, Installed, GoingUp, RunShape, LifecycleInv, TypeOK, CallShape, WaitsFor, DeployPcs, WaitPcs, Running
  <2>3. UpSince'
    BY DEF UpSince, LifecycleInv, TypeOK, Running
  <2> QED BY <2>1, <2>2, <2>3
<1>2. CASE Matches(waiting[c]) /\ then[c] = "idle" /\ Return(c, "ok")
  <2> USE <1>2 DEF Return, Matches
  <2>1. RunShape'
    BY DEF RunShape, LifecycleInv, TypeOK, CallShape, DeployPcs, WaitPcs, Stages, Outcomes, Owners
  <2>2. ServesAlone'
    <3>1. ASSUME c \in Runners, mine = c
          PROVE  /\ stage[c] = "starting" /\ outcome[c] = "none"
                 /\ Running /\ goal = "run" /\ pkg = c /\ devid = c
      <4>1. stage[c] \in {"deploying", "starting"} /\ outcome[c] = "none" /\ then[c] = "idle" /\ pc[c] \in WaitPcs
        BY <3>1 DEF RunShape, WaitPcs
      <4>2. stage[c] = "starting" /\ waiting[c] = "running"
        BY <3>1, <4>1 DEF RunShape, LifecycleInv, CallShape, WaitsFor, WaitPcs
      <4>3. GoingUp(c) /\ Deployed(c)
        BY <4>1, <4>2 DEF GoingUp, Deployed
      <4> QED BY <3>1, <4>1, <4>2, <4>3 DEF ServesAlone
    <3>2. \A d \in Clients \ {c} : pc'[d] = pc[d] /\ ret'[d] = ret[d]
      BY DEF LifecycleInv, TypeOK
    <3>3. pc'[c] = "idle"
      BY DEF LifecycleInv, TypeOK
    <3> QED BY <3>1, <3>2, <3>3 DEF ServesAlone, Deployed, Started, Installed, GoingUp, Running, WaitPcs
  <2>3. UpSince'
    BY DEF UpSince, LifecycleInv, TypeOK, Running
  <2> QED BY <2>1, <2>2, <2>3
<1>3. CASE Matches(waiting[c]) /\ then[c] # "idle" /\ Reached(c)
  <2> USE <1>3 DEF Reached, Matches
  <2>1. RunShape'
    BY DEF RunShape, LifecycleInv, TypeOK, CallShape, DeployPcs, WaitPcs, Stages, Outcomes, Owners
  <2>2. ServesAlone'
    <3>1. ASSUME c \in Runners, mine = c
          PROVE  /\ outcome[c] = "none"
                 /\ \/ stage[c] = "deploying" /\ then[c] = "syncDevID" /\ Running /\ goal = "run" /\ pkg = c
                    \/ stage[c] = "starting" /\ then[c] = "resume" /\ pkg = c /\ devid = c
      <4>1. stage[c] \in {"deploying", "starting"} /\ outcome[c] = "none" /\ pc[c] \in WaitPcs
        BY <3>1 DEF RunShape, WaitPcs
      <4>2. CASE stage[c] = "deploying"
        <5>1. waiting[c] = "devshell" /\ then[c] = "syncDevID"
          BY <3>1, <4>1, <4>2 DEF RunShape, LifecycleInv, CallShape, WaitsFor
        <5>2. Installed(c) /\ GoingUp(c)
          BY <4>1, <4>2 DEF Installed, GoingUp
        <5> QED BY <3>1, <4>1, <4>2, <5>1, <5>2 DEF ServesAlone
      <4>3. CASE stage[c] = "starting"
        <5>1. then[c] = "resume"
          BY <3>1, <4>1, <4>3 DEF RunShape, LifecycleInv, CallShape, WaitsFor
        <5>2. Deployed(c)
          BY <4>3 DEF Deployed
        <5> QED BY <3>1, <4>1, <4>3, <5>1, <5>2 DEF ServesAlone
      <4> QED BY <4>1, <4>2, <4>3
    <3>2. \A d \in Clients \ {c} : pc'[d] = pc[d] /\ ret'[d] = ret[d] /\ waiting'[d] = waiting[d]
      BY DEF LifecycleInv, TypeOK
    <3>3. pc'[c] = then[c]
      BY DEF LifecycleInv, TypeOK
    <3> QED BY <3>1, <3>2, <3>3 DEF ServesAlone, Deployed, Started, Installed, GoingUp, Running, WaitPcs
  <2>3. UpSince'
    BY DEF UpSince, LifecycleInv, TypeOK, Running
  <2> QED BY <2>1, <2>2, <2>3
<1>4. CASE /\ Goto(c, IF waiting[c] = "devshell" THEN "isDevshell" ELSE "deadline")
           /\ UNCHANGED <<op, waiting, then, expired, base, ret>>
  <2> USE <1>4
  <2>1. RunShape'
    BY DEF RunShape, LifecycleInv, TypeOK, CallShape, DeployPcs, WaitPcs, Stages, Outcomes, Owners
  <2>2. ServesAlone'
    BY DEF ServesAlone, Deployed, Started, Installed, GoingUp, RunShape, LifecycleInv, TypeOK, CallShape, WaitsFor, DeployPcs, WaitPcs, Running
  <2>3. UpSince'
    BY DEF UpSince, LifecycleInv, TypeOK, Running
  <2> QED BY <2>1, <2>2, <2>3
<1> QED BY <1>1, <1>2, <1>3, <1>4 DEF Reached

(* A deployment that waits goes on when it saw the application up.          *)
LEMMA IsDevshellRuns ==
    ASSUME PInv, NEW c \in Clients, IsDevshell(c), UNCHANGED <<run, previews, directs>>, UNCHANGED <<mine, before>>
    PROVE  RunShape' /\ ServesAlone' /\ UpSince'
<1> USE RunnersAssumption, NobodyAssumption DEF PInv, box, run, preview, IsDevshell, Goto, Local, Reached, Return, Matches
<1>1. RunShape'
  BY DEF RunShape, LifecycleInv, TypeOK, CallShape, DeployPcs, WaitPcs, Stages, Outcomes, Owners
<1>2. ServesAlone'
  BY DEF ServesAlone, Deployed, Started, Installed, GoingUp, RunShape, LifecycleInv, TypeOK, CallShape, WaitsFor, DeployPcs, WaitPcs, Running
<1>3. UpSince'
  BY DEF UpSince, LifecycleInv, TypeOK, Running
<1> QED BY <1>1, <1>2, <1>3

(* A deadline fails the call and leaves the box.                            *)
LEMMA DeadlineRuns ==
    ASSUME PInv, NEW c \in Clients, Deadline(c), UNCHANGED <<run, previews, directs>>, UNCHANGED <<mine, before>>
    PROVE  RunShape' /\ ServesAlone' /\ UpSince'
<1> USE RunnersAssumption, NobodyAssumption DEF PInv, box, run, preview, Deadline, Goto, Local, Return
<1>1. RunShape'
  BY DEF RunShape, LifecycleInv, TypeOK, CallShape, DeployPcs, WaitPcs, Stages, Outcomes, Owners
<1>2. ServesAlone'
  BY DEF ServesAlone, Deployed, Started, Installed, GoingUp, RunShape, LifecycleInv, TypeOK, CallShape, WaitsFor, DeployPcs, WaitPcs, Running
<1>3. UpSince'
  BY DEF UpSince, LifecycleInv, TypeOK, Running
<1> QED BY <1>1, <1>2, <1>3

(* A sleep leaves all.                                                      *)
LEMMA SleepRuns ==
    ASSUME PInv, NEW c \in Clients, Sleep(c), UNCHANGED <<run, previews, directs>>, UNCHANGED <<mine, before>>
    PROVE  RunShape' /\ ServesAlone' /\ UpSince'
<1> USE RunnersAssumption, NobodyAssumption DEF PInv, box, run, preview, Sleep, Goto, Local
<1>1. RunShape'
  BY DEF RunShape, LifecycleInv, TypeOK, CallShape, DeployPcs, WaitPcs, Stages, Outcomes, Owners
<1>2. ServesAlone'
  BY DEF ServesAlone, Deployed, Started, Installed, GoingUp, RunShape, LifecycleInv, TypeOK, CallShape, WaitsFor, DeployPcs, WaitPcs, Running
<1>3. UpSince'
  BY DEF UpSince, LifecycleInv, TypeOK, Running
<1> QED BY <1>1, <1>2, <1>3

(* Deadlines, and calls that are given up.                                  *)
LEMMA ExpireRuns ==
    ASSUME PInv, NEW c \in Clients, Expire(c), UNCHANGED preview
    PROVE  RunShape' /\ ServesAlone' /\ UpSince'
<1> USE RunnersAssumption, NobodyAssumption DEF PInv, box, run, preview, Expire, Local
<1>1. RunShape'
  BY DEF RunShape, LifecycleInv, TypeOK, CallShape, DeployPcs, WaitPcs, Stages, Outcomes, Owners
<1>2. ServesAlone'
  BY DEF ServesAlone, Deployed, Started, Installed, GoingUp, RunShape, LifecycleInv, TypeOK, CallShape, WaitsFor, DeployPcs, WaitPcs, Running
<1>3. UpSince'
  BY DEF UpSince, LifecycleInv, TypeOK, Running
<1> QED BY <1>1, <1>2, <1>3

(* A call that gives up ends no run yet, and leaves the box.                *)
LEMMA GiveUpRuns ==
    ASSUME PInv, NEW c \in Clients, GiveUp(c), UNCHANGED preview
    PROVE  RunShape' /\ ServesAlone' /\ UpSince'
<1> USE RunnersAssumption, NobodyAssumption DEF PInv, box, run, preview, GiveUp, Return, Goto
<1>1. RunShape'
  BY DEF RunShape, LifecycleInv, TypeOK, CallShape, DeployPcs, WaitPcs, Stages, Outcomes, Owners
<1>2. ServesAlone'
  BY DEF ServesAlone, Deployed, Started, Installed, GoingUp, RunShape, LifecycleInv, TypeOK, CallShape, WaitsFor, DeployPcs, WaitPcs, Running
<1>3. UpSince'
  BY DEF UpSince, LifecycleInv, TypeOK, Running
<1> QED BY <1>1, <1>2, <1>3

(* Another client calls the service.                                        *)
LEMMA DirectRuns ==
    ASSUME PInv, NEW c \in Clients, Direct(c)
    PROVE  RunShape' /\ ServesAlone' /\ UpSince'
<1> USE RunnersAssumption, NobodyAssumption DEF PInv, box, run, preview, Direct, Invoke, Deploy, Start, Stop, Uninstall, Wait, Call, Goto
<1>1. RunShape'
  BY DEF RunShape, LifecycleInv, TypeOK, CallShape, DeployPcs, WaitPcs, Stages, Outcomes, Owners
<1>2. ServesAlone'
  BY DEF ServesAlone, Deployed, Started, Installed, GoingUp, RunShape, LifecycleInv, TypeOK, CallShape, WaitsFor, DeployPcs, WaitPcs, Running
<1>3. UpSince'
  BY DEF UpSince, LifecycleInv, TypeOK, Running
<1> QED BY <1>1, <1>2, <1>3

(* The box goes its way: a pause does not end, nor does what runs.          *)
LEMMA BoxRuns ==
    ASSUME PInv, BoxSteps
    PROVE  RunShape' /\ ServesAlone' /\ UpSince'
<1> USE RunnersAssumption, NobodyAssumption DEF PInv, box, run, preview, BoxSteps, Follow, LoseOrphan, TakeOrphan, Take, client
<1>1. RunShape'
  BY DEF RunShape, LifecycleInv, TypeOK, CallShape, DeployPcs, WaitPcs, Stages, Outcomes, Owners
<1>2. ServesAlone'
  BY DEF ServesAlone, Deployed, Started, Installed, GoingUp, RunShape, LifecycleInv, TypeOK, CallShape, WaitsFor, DeployPcs, WaitPcs, Running
<1>3. UpSince'
  BY DEF UpSince, LifecycleInv, TypeOK, Running
<1> QED BY <1>1, <1>2, <1>3
(* Every step keeps the invariant.                                          *)
LEMMA PreviewKeeps ==
    ASSUME PInv, [PreviewNext]_allVars
    PROVE  PInv'
<1>1. LifecycleInv'
  BY ServiceKeeps DEF PInv
<1>2. RunShape' /\ ServesAlone' /\ UpSince'
  <2>1. CASE UNCHANGED allVars
    BY <2>1 DEF allVars, vars, box, client, preview, run, PInv, RunShape, ServesAlone, Deployed, Started,
                Installed, GoingUp, UpSince, Running
  <2>2. ASSUME NEW r \in Runners, Run(r) \/ StageWork(r) \/ Interrupt(r)
        PROVE  RunShape' /\ ServesAlone' /\ UpSince'
    BY <2>2, RunRuns, BuildRuns, InterruptRuns, CallServiceRuns, ReturnedRuns, SyncRuns DEF StageWork
  <2>3. ASSUME NEW c \in Clients, Serve(c) PROVE RunShape' /\ ServesAlone' /\ UpSince'
    <3>1. UNCHANGED <<run, previews, directs>>
      BY <2>3 DEF Serve
    <3>2. CASE Install(c) /\ mine' = c /\ before' = runs
      BY <3>1, <3>2, InstallRuns
    <3>3. CASE Commanding(c) /\ mine' = (IF mine = c THEN c ELSE Nobody) /\ UNCHANGED before
      BY <3>1, <3>3, SyncDevIDRuns, PauseRuns, ResumeRuns, UninstallAppRuns DEF Commanding
    <3>4. CASE /\ BackendInfo(c) \/ DeployInfo(c) \/ Look(c)
               /\ UNCHANGED <<mine, before>>
      BY <3>1, <3>4, BackendInfoRuns, DeployInfoRuns, LookRuns
    <3>5. CASE /\ Poll(c) \/ IsDevshell(c) \/ Deadline(c) \/ Sleep(c)
               /\ UNCHANGED <<mine, before>>
      BY <3>1, <3>5, PollRuns, IsDevshellRuns, DeadlineRuns, SleepRuns
    <3> QED BY <2>3, <3>2, <3>3, <3>4, <3>5 DEF Serve
  <2>4. ASSUME NEW c \in Clients, Fall(c) \/ Direct(c) PROVE RunShape' /\ ServesAlone' /\ UpSince'
    BY <2>4, ExpireRuns, GiveUpRuns, DirectRuns DEF Fall
  <2>5. CASE BoxSteps
    BY <2>5, BoxRuns
  <2> QED BY <2>1, <2>2, <2>3, <2>4, <2>5 DEF PreviewNext
<1> QED BY <1>1, <1>2 DEF PInv

(* In every behaviour of preview runs, other clients and the box.           *)
THEOREM PreviewInvariance == PreviewSpec => []PInv
BY PreviewStarts, PreviewKeeps, PTL DEF PreviewSpec

(* A run sends only a package that was built whole, and leaves none of its   *)
(* temporary files behind, however it ends.                                 *)
LEMMA SendsAndLeaves == PInv => PreviewInv
<1> SUFFICES ASSUME PInv PROVE PreviewInv
  OBVIOUS
<1>1. TypeOK /\ CallShape /\ RunShape
  BY DEF PInv, LifecycleInv
<1>2. \A r \in Runners : pc[r] = "install" => stage[r] = "deploying"
  BY <1>1, RunnersAssumption DEF CallShape, RunShape, WaitPcs, Stages
<1>3. SendsWhatWasBuilt
  BY <1>1, <1>2 DEF SendsWhatWasBuilt, RunShape
<1> QED BY <1>1, <1>3 DEF PreviewInv, RunShape, NothingLeftOver

(* Runner.Run deploys only a whole package and removes what it built.       *)
THEOREM PreviewsSendAndLeave == PreviewSpec => []PreviewInv
BY SendsAndLeaves, PreviewInvariance, PTL

(* What Runner.Run promises on a box that nobody else commands meanwhile:    *)
(* its package is there, with its dev.id, and the application came up from  *)
(* it.                                                                      *)
LEMMA ServesItsOwn == PInv => PreviewServes
BY DEF PInv, PreviewServes, ServesAlone, Deployed, Started, UpSince

(* A run that succeeded with nobody else commanding the box serves its own  *)
(* package, with its own dev.id.                                            *)
THEOREM PreviewsServe == PreviewSpec => []PreviewServes
BY ServesItsOwn, PreviewInvariance, PTL

(* The service keeps its promises in runs too.                              *)
THEOREM ServiceInRuns == PreviewSpec => [](DeployComplete /\ StopEffective)
<1>1. PInv => DeployComplete /\ StopEffective
  BY DeploysComplete, StopsEffective DEF PInv
<1> QED BY <1>1, PreviewInvariance, PTL

=============================================================================
