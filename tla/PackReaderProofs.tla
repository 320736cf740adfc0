------------------------- MODULE PackReaderProofs --------------------------
(***************************************************************************)
(* Proofs about the files that are replaced, for any callers, contents and *)
(* bounds: the inductive invariant IInv of FileReplace, FileInv, which     *)
(* follows from it, and that FileReplace implements AtomicFile.  Then about*)
(* lpk.Reader, for any packages, goroutines and bounds, on such a file: the*)
(* inductive invariant RInv of PackReader, ReadInv, which follows from it, *)
(* and ReadOnce.                                                           *)
(***************************************************************************)
EXTENDS PackReader, TLAPS

-----------------------------------------------------------------------------
(* Files that are replaced                                                 *)

Returns == {"none", "ok", "failed", "cancelled", "conflict"}

(* The orders of the steps.                                                 *)
LEMMA StepOrder ==
    ASSUME NEW o \in Ops
    PROVE  /\ After(o, "create") = IF o = "save" THEN "chmod" ELSE "write"
           /\ After(o, "chmod") = IF o = "save" THEN "write" ELSE "rename"
           /\ After(o, "write") = "sync"
           /\ After(o, "sync") = IF o = "save" THEN "rename" ELSE "chmod"
           /\ After(o, "open") = IF o = "load" THEN "read" ELSE "create"
           /\ First[o] = IF o \in {"sign", "resign", "load"} THEN "open"
                         ELSE IF o = "delete" THEN "remove" ELSE "create"
BY DEF After, First, Ops

(* The initial states satisfy the invariant.                                *)
LEMMA InitKeeps == Init => IInv
<1> SUFFICES ASSUME Init PROVE IInv
  OBVIOUS
<1> USE DistinctAssumption, BoundsAssumption DEF Init
<1>1. TypeOK
  BY DEF TypeOK, PcSet, Ops, TempPcs
<1>2. FileWhole /\ TempsPrivate /\ OpenWhole /\ InCall /\ TempsDone
  BY DEF FileWhole, TempsPrivate, OpenWhole, InCall, TempsDone
<1> QED BY <1>1, <1>2 DEF IInv

(* A call that ends before its rename takes its temporary with it; what      *)
(* it has written there does not matter.                                    *)
LEMMA ReturnKeeps ==
    ASSUME IInv, NEW p \in Procs, NEW code \in Returns, Return(p, code),
           UNCHANGED <<kind, dir, disk, litter, handle, calls, crashes>>,
           data' \in [Inodes -> Contents \union {Partial}],
           mode' \in [Inodes -> {"private", "shared"}], synced' \subseteq Inodes,
           \A i \in Inodes \ {temp[p]} :
             data'[i] = data[i] /\ mode'[i] = mode[i] /\ (i \in synced => i \in synced')
    PROVE  IInv'
<1> USE DEF IInv, Return
<1>1. TypeOK'
  BY DEF TypeOK, PcSet, Ops, TempPcs, Returns
<1>2. FileWhole'
  <2>1. \A i \in disk \ {Absent} : i \in Inodes \ {temp[p]}
    BY DistinctAssumption DEF TypeOK, TempsPrivate
  <2> QED BY <2>1 DEF FileWhole
<1>3. TempsPrivate' /\ OpenWhole'
  BY DEF TempsPrivate, OpenWhole, TypeOK
<1>4. InCall'
  BY DEF InCall, TypeOK
<1>5. TempsDone'
  BY DEF TempsDone, TempsPrivate, TypeOK, TempPcs
<1> QED BY <1>1, <1>2, <1>3, <1>4, <1>5

(* So does a failing step, which changes nothing else.                      *)
LEMMA FailKeeps ==
    ASSUME IInv, NEW p \in Procs, NEW code \in Returns, Fail(p, code)
    PROVE  IInv'
BY ReturnKeeps DEF Fail, fs, IInv, TypeOK

(* A call begins with what it is to write and without files.                *)
LEMMA CallKeeps ==
    ASSUME IInv, NEW p \in Procs, NEW o \in Ops, Call(p, o)
    PROVE  IInv'
<1> USE DEF IInv, Call, fs
<1>1. PICK b \in Bodies : value' = [value EXCEPT ![p] = <<b, FALSE>>]
  OBVIOUS
<1>2. <<b, FALSE>> \in Contents
  BY DEF Contents
<1>3. o # "none"
  BY KindsAssumption DEF KindsAssumption, OpsOf, TypeOK
<1>4. First[o] \in {"open", "remove", "create"} /\ (First[o] = "open" <=> o \in {"load", "sign", "resign"})
  BY StepOrder
<1>5. TypeOK'
  <2>1. \A q \in Procs : /\ op'[q] # "none" <=> pc'[q] # "idle"
                         /\ temp'[q] # NoFile <=> pc'[q] \in TempPcs
                         /\ fd'[q] # NoFile <=> op'[q] \in {"load", "sign", "resign"} /\ pc'[q] # "open"
    BY <1>3, <1>4 DEF TypeOK, TempPcs
  <2>2. /\ pc' \in [Procs -> PcSet] /\ op' \in [Procs -> Ops]
        /\ ret' \in [Procs -> Returns] /\ ended' \in [Procs -> BOOLEAN]
    BY <1>4 DEF TypeOK, PcSet, Returns
  <2>3. value' \in [Procs -> Contents \union {Partial}]
    BY <1>1, <1>2 DEF TypeOK
  <2>4. calls' \in 0..MaxCalls
    BY BoundsAssumption DEF TypeOK
  <2> QED BY <2>1, <2>2, <2>3, <2>4 DEF TypeOK, Returns
<1>6. FileWhole' /\ TempsPrivate' /\ OpenWhole'
  BY DEF FileWhole, TempsPrivate, OpenWhole
<1>7. InCall'
  BY <1>1, <1>2, <1>4 DEF InCall, TypeOK
<1>8. TempsDone'
  BY <1>4 DEF TempsDone, TypeOK
<1> QED BY <1>5, <1>6, <1>7, <1>8

(* The end of its context is seen by a step only.                           *)
LEMMA ContextKeeps ==
    ASSUME IInv, NEW p \in Procs, EndContext(p)
    PROVE  IInv'
<1> USE DEF IInv, EndContext, fs
<1>1. TypeOK'
  BY DEF TypeOK
<1>2. (FileWhole /\ TempsPrivate /\ OpenWhole /\ InCall /\ TempsDone)'
  BY DEF FileWhole, TempsPrivate, OpenWhole, InCall, TempsDone
<1> QED BY <1>1, <1>2

(* The file that has the name is opened.                                    *)
LEMMA OpenKeeps ==
    ASSUME IInv, NEW p \in Procs, OpenSource(p)
    PROVE  IInv'
<1>1. CASE dir = Absent
  <2>1. PICK code \in Returns : Fail(p, code)
    BY <1>1 DEF OpenSource, Fail, Returns
  <2> QED BY <2>1, FailKeeps
<1>2. CASE dir # Absent
  <2> USE DEF IInv
  <2>1. /\ pc[p] = "open" /\ fd' = [fd EXCEPT ![p] = dir] /\ Goto(p, After(op[p], "open"))
        /\ UNCHANGED <<fs, temp, calls, crashes>>
    BY <1>2 DEF OpenSource
  <2>2. op[p] \in {"load", "sign", "resign"} /\ op[p] \in Ops
    BY <2>1 DEF InCall, TypeOK
  <2>3. pc' = [pc EXCEPT ![p] = IF op[p] = "load" THEN "read" ELSE "create"]
    BY <2>1, <2>2, StepOrder DEF Goto
  <2>4. dir \in Inodes /\ dir \in disk
    BY <1>2 DEF TypeOK
  <2> USE <2>1, <2>2, <2>3, <2>4 DEF Goto, fs
  <2>5. TypeOK'
    BY DistinctAssumption DEF TypeOK, PcSet, TempPcs
  <2>6. FileWhole'
    BY DEF FileWhole
  <2>7. TempsPrivate' /\ OpenWhole'
    BY DEF TempsPrivate, OpenWhole, TypeOK
  <2>8. InCall'
    BY DEF InCall, TypeOK
  <2>9. TempsDone'
    BY DEF TempsDone, TypeOK
  <2> QED BY <2>5, <2>6, <2>7, <2>8, <2>9
<1> QED BY <1>1, <1>2

(* A temporary is a file that nobody has.                                   *)
LEMMA CreateKeeps ==
    ASSUME IInv, NEW p \in Procs, Create(p)
    PROVE  IInv'
<1> USE DEF IInv
<1>1. PICK i \in Inodes \ Used :
        /\ temp' = [temp EXCEPT ![p] = i]
        /\ data' = [data EXCEPT ![i] = Partial]
        /\ mode' = [mode EXCEPT ![i] = "private"]
        /\ synced' = synced \ {i}
  BY DEF Create
<1>2. /\ pc[p] = "create"
      /\ UNCHANGED <<kind, dir, disk, litter, handle, fd, calls, crashes, op, value, ended, ret>>
  BY DEF Create, Goto
<1>3. op[p] \in Ops
  BY DEF TypeOK
<1>4. pc' = [pc EXCEPT ![p] = IF op[p] = "save" THEN "chmod" ELSE "write"]
  BY <1>2, <1>3, StepOrder DEF Create, Goto
<1>5. /\ i \notin disk /\ i # handle /\ i \notin litter
      /\ \A q \in Procs : temp[q] # i /\ fd[q] # i
  BY <1>1 DEF Used
<1> USE <1>1, <1>2, <1>4, <1>5
<1>6. TypeOK'
  BY DistinctAssumption DEF TypeOK, PcSet, TempPcs
<1>7. FileWhole'
  BY DEF FileWhole, TypeOK
<1>8. TempsPrivate' /\ OpenWhole'
  BY DEF TempsPrivate, OpenWhole, TypeOK
<1>9. InCall'
  BY DEF InCall, TypeOK
<1>10. TempsDone'
  BY DEF TempsDone, TypeOK, TempPcs
<1> QED BY <1>6, <1>7, <1>8, <1>9, <1>10

(* What is written is whole: the value, or the open package, signed.        *)
LEMMA OutputIsWhole ==
    ASSUME IInv, NEW p \in Procs, pc[p] = "write", NEW bytes \in Output(p)
    PROVE  bytes \in Contents
<1> USE DEF IInv
<1>1. CASE op[p] \in {"sign", "resign"}
  <2>1. fd[p] \in disk \ {Absent}
    BY <1>1, DistinctAssumption DEF TypeOK, OpenWhole
  <2>2. data[fd[p]] \in Bodies \X BOOLEAN
    BY <2>1 DEF FileWhole, Contents
  <2>3. data[fd[p]][1] \in Bodies
    BY <2>2
  <2>4. bytes = <<data[fd[p]][1], TRUE>>
    BY <1>1 DEF Output
  <2> QED BY <2>3, <2>4 DEF Contents
<1>2. CASE op[p] \notin {"sign", "resign"}
  BY <1>2 DEF Output, InCall
<1> QED BY <1>1, <1>2

(* A step on the temporary alone, after which the call goes on.             *)
LEMMA GotoKeeps ==
    ASSUME IInv, NEW p \in Procs, pc[p] \in {"write", "sync", "chmod"},
           Goto(p, After(op[p], pc[p])), UNCHANGED <<temp, fd>>,
           UNCHANGED <<kind, dir, disk, litter, handle, calls, crashes>>,
           data' \in [Inodes -> Contents \union {Partial}],
           mode' \in [Inodes -> {"private", "shared"}], synced' \subseteq Inodes,
           \A i \in Inodes \ {temp[p]} :
             data'[i] = data[i] /\ mode'[i] = mode[i] /\ (i \in synced => i \in synced'),
           IF pc[p] = "write" THEN data'[temp[p]] \in Contents ELSE data' = data,
           IF pc[p] = "chmod" THEN mode'[temp[p]] = ModeOf[kind] ELSE mode' = mode,
           IF pc[p] = "sync" THEN temp[p] \in synced' ELSE synced' = synced
    PROVE  IInv'
<1> USE DEF IInv, Goto
<1>1. op[p] \in Ops /\ temp[p] \in Inodes
  BY DEF TypeOK, TempPcs
<1>2. After(op[p], pc[p]) = IF pc[p] = "write" THEN "sync"
                            ELSE IF pc[p] = "sync" THEN (IF op[p] = "save" THEN "rename" ELSE "chmod")
                            ELSE IF op[p] = "save" THEN "write" ELSE "rename"
  BY <1>1 DEF After
<1>3. TypeOK'
  BY <1>2 DEF TypeOK, PcSet, TempPcs
<1>4. FileWhole'
  <2>1. \A i \in disk \ {Absent} : i \in Inodes \ {temp[p]}
    BY DistinctAssumption DEF TypeOK, TempsPrivate
  <2> QED BY <2>1 DEF FileWhole
<1>5. TempsPrivate' /\ OpenWhole'
  BY DEF TempsPrivate, OpenWhole
<1>6. InCall'
  BY <1>2 DEF InCall, TypeOK
<1>7. TempsDone'
  <2> SUFFICES ASSUME NEW q \in Procs
               PROVE  /\ pc'[q] \in {"sync", "rename"} \/ (pc'[q] = "chmod" /\ op'[q] # "save") =>
                           data'[temp'[q]] \in Contents
                      /\ pc'[q] = "rename" \/ (pc'[q] \in {"write", "sync"} /\ op'[q] = "save") =>
                           mode'[temp'[q]] = ModeOf[kind']
                      /\ pc'[q] = "rename" \/ (pc'[q] = "chmod" /\ op'[q] # "save") => temp'[q] \in synced'
    BY DEF TempsDone
  <2>1. CASE q = p
    BY <1>1, <1>2, <2>1 DEF TempsDone, TypeOK
  <2>2. CASE q # p
    <3>1. pc[q] \in TempPcs => temp[q] \in Inodes \ {temp[p]}
      BY <1>1, <2>2, DistinctAssumption DEF TypeOK, TempsPrivate
    <3>2. pc'[q] = pc[q] /\ op'[q] = op[q] /\ temp'[q] = temp[q]
      BY <1>2, <2>2 DEF TypeOK
    <3> QED BY <3>1, <3>2 DEF TempsDone, TempPcs
  <2> QED BY <2>1, <2>2
<1> QED BY <1>3, <1>4, <1>5, <1>6, <1>7

(* The same, whether or not the context is seen ended.                      *)
LEMMA ContinueKeeps ==
    ASSUME IInv, NEW p \in Procs, pc[p] \in {"write", "sync", "chmod"}, Continue(p),
           UNCHANGED <<kind, dir, disk, litter, handle, calls, crashes>>,
           data' \in [Inodes -> Contents \union {Partial}],
           mode' \in [Inodes -> {"private", "shared"}], synced' \subseteq Inodes,
           \A i \in Inodes \ {temp[p]} :
             data'[i] = data[i] /\ mode'[i] = mode[i] /\ (i \in synced => i \in synced'),
           IF pc[p] = "write" THEN data'[temp[p]] \in Contents ELSE data' = data,
           IF pc[p] = "chmod" THEN mode'[temp[p]] = ModeOf[kind] ELSE mode' = mode,
           IF pc[p] = "sync" THEN temp[p] \in synced' ELSE synced' = synced
    PROVE  IInv'
<1>1. CASE ended[p] /\ <<op[p], pc[p]>> \in Looks
  <2>1. Return(p, "cancelled")
    BY <1>1 DEF Continue
  <2> QED BY <2>1, ReturnKeeps DEF Returns
<1>2. CASE ~(ended[p] /\ <<op[p], pc[p]>> \in Looks)
  <2>1. Goto(p, After(op[p], pc[p])) /\ UNCHANGED <<temp, fd>>
    BY <1>2 DEF Continue
  <2> QED BY <2>1, GotoKeeps
<1> QED BY <1>1, <1>2

(* The three steps on the temporary.                                        *)
LEMMA WriteKeeps ==
    ASSUME IInv, NEW p \in Procs, Write(p)
    PROVE  IInv'
<1>1. /\ pc[p] = "write"
      /\ UNCHANGED <<kind, dir, disk, mode, synced, litter, handle, calls, crashes>>
  BY DEF Write
<1>2. TypeOK /\ temp[p] \in Inodes
  BY <1>1 DEF IInv, TypeOK, TempPcs
<1>3. CASE \E bytes \in Output(p) : data' = [data EXCEPT ![temp[p]] = bytes] /\ Continue(p)
  <2>1. PICK bytes \in Output(p) : data' = [data EXCEPT ![temp[p]] = bytes] /\ Continue(p)
    BY <1>3
  <2>2. bytes \in Contents
    BY <1>1, OutputIsWhole
  <2>3. /\ data' \in [Inodes -> Contents \union {Partial}]
        /\ data'[temp[p]] \in Contents
        /\ \A i \in Inodes \ {temp[p]} : data'[i] = data[i]
    BY <1>2, <2>1, <2>2 DEF TypeOK
  <2>4. /\ mode' \in [Inodes -> {"private", "shared"}] /\ synced' \subseteq Inodes
        /\ mode' = mode /\ synced' = synced
    BY <1>1, <1>2 DEF TypeOK
  <2> QED BY <1>1, <2>1, <2>3, <2>4, ContinueKeeps
<1>4. CASE Return(p, "conflict") /\ UNCHANGED data
  BY <1>1, <1>4, FailKeeps DEF Fail, fs, Returns
<1> QED BY <1>3, <1>4 DEF Write

(* What is fsynced was written before.                                      *)
LEMMA SyncKeeps ==
    ASSUME IInv, NEW p \in Procs, Sync(p)
    PROVE  IInv'
<1>1. TypeOK /\ temp[p] \in Inodes
  BY DEF Sync, IInv, TypeOK, TempPcs
<1>2. /\ data' \in [Inodes -> Contents \union {Partial}]
      /\ mode' \in [Inodes -> {"private", "shared"}]
      /\ synced' \subseteq Inodes /\ temp[p] \in synced'
      /\ data' = data /\ mode' = mode
      /\ \A i \in Inodes : i \in synced => i \in synced'
  BY <1>1 DEF Sync, TypeOK
<1>3. /\ pc[p] = "sync" /\ Continue(p)
      /\ UNCHANGED <<kind, dir, disk, litter, handle, calls, crashes>>
  BY DEF Sync
<1> QED BY <1>2, <1>3, ContinueKeeps

(* A mode is set on the temporary and on no file others see.                *)
LEMMA ChmodKeeps ==
    ASSUME IInv, NEW p \in Procs, Chmod(p)
    PROVE  IInv'
<1>1. TypeOK /\ temp[p] \in Inodes
  BY DEF Chmod, IInv, TypeOK, TempPcs
<1>2. ModeOf[kind] \in {"private", "shared"}
  BY <1>1, KindsAssumption DEF TypeOK, ModeOf
<1>3. /\ data' \in [Inodes -> Contents \union {Partial}]
      /\ mode' \in [Inodes -> {"private", "shared"}] /\ mode'[temp[p]] = ModeOf[kind]
      /\ synced' \subseteq Inodes
      /\ data' = data /\ synced' = synced
      /\ \A i \in Inodes \ {temp[p]} : mode'[i] = mode[i]
  BY <1>1, <1>2 DEF Chmod, TypeOK
<1>4. /\ pc[p] = "chmod" /\ Continue(p)
      /\ UNCHANGED <<kind, dir, disk, litter, handle, calls, crashes>>
  BY DEF Chmod
<1> QED BY <1>3, <1>4, ContinueKeeps

(* What is renamed over the file is whole, has its mode, and is on disk.     *)
LEMMA RenameKeeps ==
    ASSUME IInv, NEW p \in Procs, Rename(p)
    PROVE  IInv'
<1> USE DEF IInv, Rename, Return, Changed
<1>1. /\ temp[p] \in Inodes /\ data[temp[p]] \in Contents
      /\ mode[temp[p]] = ModeOf[kind] /\ temp[p] \in synced
  BY DEF TypeOK, TempPcs, TempsDone
<1>2. TypeOK'
  BY <1>1 DEF TypeOK, PcSet, Ops, TempPcs
<1>3. FileWhole'
  BY <1>1 DEF FileWhole
<1>4. \A q \in Procs : temp'[q] # NoFile => q # p /\ temp'[q] = temp[q] /\ temp[q] # temp[p]
  BY <1>1, DistinctAssumption DEF TypeOK, TempsPrivate
<1>5. TempsPrivate' /\ OpenWhole'
  BY <1>4 DEF TempsPrivate, OpenWhole, TypeOK
<1>6. InCall'
  BY DEF InCall, TypeOK
<1>7. TempsDone'
  BY DEF TempsDone, TypeOK
<1> QED BY <1>2, <1>3, <1>5, <1>6, <1>7

(* Delete takes the name away and leaves every file as it is.               *)
LEMMA RemoveKeeps ==
    ASSUME IInv, NEW p \in Procs, Remove(p)
    PROVE  IInv'
<1> USE DEF IInv, Remove, Return, Changed
<1>1. TypeOK'
  BY DEF TypeOK, PcSet, Ops, TempPcs
<1>2. FileWhole'
  BY DEF FileWhole
<1>3. \A q \in Procs : temp'[q] # NoFile => temp'[q] = temp[q] /\ temp[q] # Absent
  BY DistinctAssumption DEF TypeOK
<1>4. TempsPrivate' /\ OpenWhole'
  BY <1>3 DEF TempsPrivate, OpenWhole, TypeOK
<1>5. InCall' /\ TempsDone'
  BY DEF InCall, TempsDone, TypeOK
<1> QED BY <1>1, <1>2, <1>4, <1>5

(* A reader of the package opens and closes it.                             *)
LEMMA HandleKeeps ==
    ASSUME IInv, OpenFile \/ CloseFile
    PROVE  IInv'
<1> USE DEF IInv, OpenFile, CloseFile, local
<1>1. TypeOK' /\ (handle' = NoFile \/ handle' \in disk) /\ (handle' = handle \/ handle' \in disk \union {NoFile})
  BY DEF TypeOK
<1>2. FileWhole' /\ InCall' /\ TempsDone'
  BY DEF FileWhole, InCall, TempsDone
<1>3. TempsPrivate' /\ OpenWhole'
  BY <1>1 DEF TempsPrivate, OpenWhole, TypeOK
<1> QED BY <1>1, <1>2, <1>3

(* Callers that die leave their temporaries to nobody.                      *)
LEMMA CrashKeeps ==
    ASSUME IInv, NEW p \in Procs, Crash(p)
    PROVE  IInv'
<1> USE DEF IInv, Crash, Die
<1>1. TypeOK'
  BY BoundsAssumption DEF TypeOK, PcSet, Ops, TempPcs
<1>2. FileWhole'
  BY DEF FileWhole
<1>3. TempsPrivate' /\ OpenWhole'
  BY DEF TempsPrivate, OpenWhole, TypeOK
<1>4. InCall' /\ TempsDone'
  BY DEF InCall, TempsDone, TypeOK
<1> QED BY <1>1, <1>2, <1>3, <1>4

(* The files a power loss may bring back were fsynced.                      *)
LEMMA PowerLossKeeps ==
    ASSUME IInv, PowerLoss
    PROVE  IInv'
<1> USE DEF IInv, PowerLoss, Die
<1>1. PICK gone \in SUBSET (Inodes \ synced) :
        data' = [i \in Inodes |-> IF i \in gone THEN Partial ELSE data[i]]
  OBVIOUS
<1>2. TypeOK'
  BY <1>1, BoundsAssumption DEF TypeOK, PcSet, Ops, TempPcs
<1>3. FileWhole'
  BY <1>1 DEF FileWhole, TypeOK
<1>4. \A q \in Procs : pc'[q] = "idle" /\ temp'[q] = NoFile /\ fd'[q] = NoFile
  OBVIOUS
<1>5. TempsPrivate' /\ OpenWhole' /\ InCall' /\ TempsDone'
  BY <1>4 DEF TempsPrivate, OpenWhole, InCall, TempsDone
<1> QED BY <1>2, <1>3, <1>5

(* Every step keeps the invariant.                                          *)
LEMMA NextKeeps ==
    ASSUME IInv, [Next]_vars
    PROVE  IInv'
<1>1. CASE UNCHANGED vars
  BY <1>1 DEF vars, fs, local, IInv, TypeOK, FileWhole, TempsPrivate, OpenWhole, InCall, TempsDone
<1>2. ASSUME NEW p \in Procs, NEW o \in Ops, Call(p, o) PROVE IInv'
  BY <1>2, CallKeeps
<1>3. ASSUME NEW p \in Procs, EndContext(p) \/ Crash(p) PROVE IInv'
  BY <1>3, ContextKeeps, CrashKeeps
<1>4. ASSUME NEW p \in Procs, Step(p) PROVE IInv'
  <2>1. CASE OpenSource(p) \/ Create(p) \/ Write(p)
    BY <2>1, OpenKeeps, CreateKeeps, WriteKeeps
  <2>2. CASE Sync(p) \/ Chmod(p) \/ Rename(p) \/ Remove(p)
    BY <2>2, SyncKeeps, ChmodKeeps, RenameKeeps, RemoveKeeps
  <2>3. CASE Read(p)
    <3>1. Fail(p, "ok") \/ Fail(p, "failed")
      BY <2>3 DEF Read, Fail
    <3> QED BY <3>1, FailKeeps DEF Returns
  <2>4. CASE IOError(p)
    BY <2>4, FailKeeps DEF IOError, Returns
  <2> QED BY <1>4, <2>1, <2>2, <2>3, <2>4 DEF Step
<1>5. CASE OpenFile \/ CloseFile \/ PowerLoss
  BY <1>5, HandleKeeps, PowerLossKeeps
<1> QED BY <1>1, <1>2, <1>3, <1>4, <1>5 DEF Next, Working

(* In every behaviour: callers' temporaries are private until they are      *)
(* renamed, and what the name has or may have again is whole.               *)
THEOREM FileInvariance == Spec => []IInv
BY InitKeeps, NextKeeps, PTL DEF Spec

(* The file is never seen half written, nor with a wrong mode, and a power   *)
(* loss brings back none that was (WriteFileAtomic, writeFileAtomic, Save). *)
THEOREM FileIsWhole == Spec => []FileInv
<1>1. IInv => FileInv
  BY DEF IInv, FileInv
<1> QED BY <1>1, FileInvariance, PTL

(* The mapping to AtomicFile.                                               *)
Outcomes == [p \in Procs |-> Outcome(p)]
Past == {Held(entry) : entry \in disk}

(* While nobody writes to the files a power loss may bring back, nothing     *)
(* that AtomicFile sees of the file changes.                                *)
LEMMA ContentKept ==
    ASSUME IInv, UNCHANGED <<dir, disk>>, \A i \in disk \ {Absent} : data'[i] = data[i]
    PROVE  Held(dir)' = Held(dir) /\ Past' = Past
<1>1. dir \in disk
  BY DEF IInv, TypeOK
<1>2. \A entry \in disk : Held(entry)' = Held(entry)
  BY DEF Held
<1>3. Held(dir)' = Held(dir)
  BY <1>1 DEF Held
<1> QED BY <1>2, <1>3 DEF Past

(* A caller's step is a turn of its own.                                    *)
LEMMA OwnTurn ==
    ASSUME NEW p \in Procs, NEW to, Outcome(p)' = to,
           \A q \in Procs \ {p} : pc'[q] = pc[q] /\ ret'[q] = ret[q]
    PROVE  Outcomes' = [Outcomes EXCEPT ![p] = to]
<1>1. \A q \in Procs \ {p} : Outcome(q)' = Outcome(q)
  BY DEF Outcome
<1> QED BY <1>1 DEF Outcomes

(* How a call that returns has ended.                                       *)
LEMMA ReturnTurn ==
    ASSUME IInv, NEW p \in Procs, pc[p] # "idle",
           NEW code \in {"ok", "failed", "cancelled", "conflict"}, Return(p, code)
    PROVE  File!Turn(p, "busy", IF code = "ok" THEN "ok" ELSE "failed")
<1>1. Outcome(p)' = IF code = "ok" THEN "ok" ELSE "failed"
  BY DEF Outcome, Return, IInv, TypeOK
<1>2. \A q \in Procs \ {p} : pc'[q] = pc[q] /\ ret'[q] = ret[q]
  BY DEF Return, IInv, TypeOK
<1>3. Outcomes' = [Outcomes EXCEPT ![p] = IF code = "ok" THEN "ok" ELSE "failed"]
  BY <1>1, <1>2, OwnTurn
<1>4. Outcome(p) = "busy"
  BY DEF Outcome
<1> QED BY <1>3, <1>4 DEF File!Turn, Outcomes

(* A call that ends with the file as it was returns or fails.               *)
LEMMA EndsUnchanged ==
    ASSUME IInv, NEW p \in Procs, pc[p] # "idle",
           NEW code \in {"ok", "failed", "cancelled", "conflict"}, Return(p, code),
           UNCHANGED <<dir, disk>>, \A i \in disk \ {Absent} : data'[i] = data[i]
    PROVE  File!FNext
<1>1. UNCHANGED <<Held(dir), Past>>
  BY ContentKept
<1>2. File!Turn(p, "busy", IF code = "ok" THEN "ok" ELSE "failed")
  BY ReturnTurn
<1>3. CASE code = "ok"
  <2>1. File!Return(p)
    BY <1>1, <1>2, <1>3 DEF File!Return, Past
  <2> QED BY <2>1 DEF File!FNext
<1>4. CASE code # "ok"
  <2>1. File!Fail(p)
    BY <1>1, <1>2, <1>4 DEF File!Fail, Past
  <2> QED BY <2>1 DEF File!FNext
<1> QED BY <1>3, <1>4

(* A call that goes on changes nothing AtomicFile sees.                     *)
LEMMA GoesOn ==
    ASSUME IInv, NEW p \in Procs, pc[p] # "idle", NEW next \in PcSet \ {"idle"},
           pc' = [pc EXCEPT ![p] = next], ret' = ret,
           UNCHANGED <<dir, disk>>, \A i \in disk \ {Absent} : data'[i] = data[i]
    PROVE  UNCHANGED File!fvars
<1>1. UNCHANGED <<Held(dir), Past>>
  BY ContentKept
<1>2. \A q \in Procs : Outcome(q)' = Outcome(q)
  BY DEF Outcome, IInv, TypeOK
<1>3. Outcomes' = Outcomes
  BY <1>2 DEF Outcomes
<1> QED BY <1>1, <1>3 DEF File!fvars, Outcomes, Past

(* The steps before the rename.                                             *)
LEMMA StepsUnseen ==
    ASSUME IInv, NEW p \in Procs, Write(p) \/ Sync(p) \/ Chmod(p)
    PROVE  [File!FNext]_(File!fvars)
<1>1. /\ pc[p] \in {"write", "sync", "chmod"} /\ UNCHANGED <<dir, disk>>
      /\ Continue(p) \/ Return(p, "conflict")
  BY DEF Write, Sync, Chmod
<1>2. temp[p] \notin disk /\ op[p] \in Ops
  BY <1>1, DistinctAssumption DEF IInv, TypeOK, TempPcs, TempsPrivate
<1>3. data' = data \/ \E bytes : data' = [data EXCEPT ![temp[p]] = bytes]
  BY DEF Write, Sync, Chmod
<1>4. \A i \in disk \ {Absent} : data'[i] = data[i]
  BY <1>2, <1>3 DEF IInv, TypeOK
<1>5. CASE Return(p, "conflict") \/ Return(p, "cancelled")
  BY <1>1, <1>4, <1>5, EndsUnchanged
<1>6. CASE Goto(p, After(op[p], pc[p]))
  <2>1. After(op[p], pc[p]) \in PcSet \ {"idle"}
    BY <1>1, <1>2 DEF After, PcSet
  <2> QED BY <1>1, <1>4, <1>6, <2>1, GoesOn DEF Goto
<1> QED BY <1>1, <1>5, <1>6 DEF Continue

(* Opening the source and creating the temporary are not seen either.       *)
LEMMA OpensUnseen ==
    ASSUME IInv, NEW p \in Procs, OpenSource(p) \/ Create(p)
    PROVE  [File!FNext]_(File!fvars)
<1>1. op[p] \in Ops
  BY DEF IInv, TypeOK
<1>2. CASE Create(p)
  <2>1. PICK i \in Inodes \ Used : data' = [data EXCEPT ![i] = Partial]
    BY <1>2 DEF Create
  <2>2. \A j \in disk \ {Absent} : data'[j] = data[j]
    BY <2>1 DEF Used, IInv, TypeOK
  <2>3. /\ pc[p] = "create" /\ UNCHANGED <<dir, disk>> /\ Goto(p, After(op[p], "create"))
    BY <1>2 DEF Create
  <2>4. After(op[p], "create") \in PcSet \ {"idle"}
    BY <1>1, StepOrder DEF PcSet
  <2> QED BY <2>2, <2>3, <2>4, GoesOn DEF Goto
<1>3. CASE OpenSource(p)
  <2>1. pc[p] = "open" /\ UNCHANGED <<dir, disk, data>>
    BY <1>3 DEF OpenSource, fs
  <2>2. CASE Goto(p, After(op[p], "open"))
    <3>1. After(op[p], "open") \in PcSet \ {"idle"}
      BY <1>1, StepOrder DEF PcSet
    <3> QED BY <2>1, <2>2, <3>1, GoesOn DEF Goto
  <2>3. CASE Return(p, "ok") \/ Return(p, "failed")
    BY <2>1, <2>3, EndsUnchanged
  <2> QED BY <1>3, <2>2, <2>3 DEF OpenSource
<1> QED BY <1>2, <1>3

(* The rename, or the removal, is the step that changes the file.           *)
LEMMA CommitStep ==
    ASSUME IInv, NEW p \in Procs, Rename(p) \/ Remove(p)
    PROVE  File!FNext
<1>1. PICK entry \in {temp[p], Absent} : Changed(entry) /\ (entry = Absent \/ Rename(p))
  BY DEF Rename, Remove
<1>2. pc[p] # "idle" /\ Return(p, "ok") /\ data' = data
  BY DEF Rename, Remove
<1>3. File!Turn(p, "busy", "ok")
  BY <1>2, ReturnTurn
<1>4. \A e : Held(e)' = Held(e)
  BY <1>2 DEF Held
<1>5. Held(dir)' = Held(entry)
  BY <1>1, <1>2 DEF Held, Changed
<1>6. Held(entry) \in Contents \union {Absent}
  <2>1. CASE entry = Absent
    BY <2>1 DEF Held
  <2>2. CASE entry # Absent
    BY <1>1, <2>2 DEF Rename, Held, IInv, TempsDone
  <2> QED BY <2>1, <2>2
<1>7. Past' = Past \union {Held(dir)'}
  BY <1>1, <1>4, <1>5 DEF Past, Changed
<1>8. File!Commit(p)
  BY <1>3, <1>5, <1>6, <1>7 DEF File!Commit, Past
<1> QED BY <1>8 DEF File!FNext

(* A caller begins, or dies.                                                *)
LEMMA BeginsOrDies ==
    ASSUME IInv, NEW p \in Procs, (\E o \in Ops : Call(p, o)) \/ Crash(p)
    PROVE  File!FNext
<1>1. UNCHANGED <<dir, disk, data>>
  BY DEF Call, Crash, Die, fs
<1>2. UNCHANGED <<Held(dir), Past>>
  BY <1>1, ContentKept
<1>3. \A q \in Procs \ {p} : pc'[q] = pc[q] /\ ret'[q] = ret[q]
  <2>1. ASSUME NEW o \in Ops, Call(p, o), NEW q \in Procs \ {p} PROVE pc'[q] = pc[q] /\ ret'[q] = ret[q]
    BY <2>1 DEF Call, IInv, TypeOK
  <2>2. ASSUME Crash(p), NEW q \in Procs \ {p} PROVE pc'[q] = pc[q] /\ ret'[q] = ret[q]
    BY <2>2 DEF Crash, Die
  <2> QED BY <2>1, <2>2
<1>4. CASE \E o \in Ops : Call(p, o)
  <2>1. PICK o \in Ops : Call(p, o)
    BY <1>4
  <2>2. First[o] # "idle"
    BY StepOrder
  <2>3. Outcome(p)' = "busy" /\ Outcome(p) \in {"none", "ok", "failed"}
    BY <2>1, <2>2 DEF Call, Outcome, IInv, TypeOK
  <2>4. Outcomes' = [Outcomes EXCEPT ![p] = "busy"]
    BY <1>3, <2>3, OwnTurn
  <2>5. File!Begin(p)
    BY <1>2, <2>3, <2>4 DEF File!Begin, File!Turn, Outcomes, Past
  <2> QED BY <2>5 DEF File!FNext
<1>5. CASE Crash(p)
  <2>1. Outcome(p)' = "none" /\ Outcome(p) = "busy"
    BY <1>5 DEF Crash, Die, Outcome
  <2>2. Outcomes' = [Outcomes EXCEPT ![p] = "none"]
    BY <1>3, <2>1, OwnTurn
  <2>3. File!Die(p)
    BY <1>2, <2>1, <2>2 DEF File!Die, File!Turn, Outcomes, Past
  <2> QED BY <2>3 DEF File!FNext
<1> QED BY <1>4, <1>5

(* After a power loss the name has contents it had before, because all that *)
(* it may have again is on disk.                                            *)
LEMMA PowerLossStep ==
    ASSUME IInv, PowerLoss
    PROVE  File!FNext
<1>1. dir' \in disk /\ disk' = {dir'}
  BY DEF PowerLoss
<1>2. \A e \in disk : Held(e)' = Held(e)
  BY DEF PowerLoss, Held, IInv, TypeOK, FileWhole
<1>3. Held(dir)' \in Past /\ Past' = {Held(dir)'}
  BY <1>1, <1>2 DEF Past, Held
<1>4. \A q \in Procs : Outcome(q)' = "none"
  BY DEF PowerLoss, Die, Outcome
<1>5. File!PowerLoss
  BY <1>3, <1>4 DEF File!PowerLoss, Past
<1> QED BY <1>5 DEF File!FNext

(* Every step maps to a step of AtomicFile or to none.                      *)
LEMMA NextMaps ==
    ASSUME IInv, [Next]_vars
    PROVE  [File!FNext]_(File!fvars)
<1>1. ASSUME UNCHANGED <<dir, disk, data, pc, ret>> PROVE UNCHANGED File!fvars
  BY <1>1 DEF File!fvars, Held, Outcome
<1>2. ASSUME NEW p \in Procs, Step(p) PROVE [File!FNext]_(File!fvars)
  <2>1. CASE OpenSource(p) \/ Create(p) \/ Write(p) \/ Sync(p) \/ Chmod(p)
    BY <2>1, OpensUnseen, StepsUnseen
  <2>2. CASE Rename(p) \/ Remove(p)
    BY <2>2, CommitStep
  <2>3. CASE Read(p) \/ IOError(p)
    <3>1. /\ pc[p] # "idle" /\ UNCHANGED <<dir, disk, data>>
          /\ Return(p, "ok") \/ Return(p, "failed")
      BY <2>3 DEF Read, IOError, Fail, fs
    <3> QED BY <3>1, EndsUnchanged
  <2> QED BY <1>2, <2>1, <2>2, <2>3 DEF Step
<1>3. ASSUME NEW p \in Procs, (\E o \in Ops : Call(p, o)) \/ Crash(p) PROVE File!FNext
  BY <1>3, BeginsOrDies
<1>4. ASSUME NEW p \in Procs, EndContext(p) PROVE UNCHANGED File!fvars
  BY <1>1, <1>4 DEF EndContext, fs
<1>5. CASE OpenFile \/ CloseFile
  BY <1>1, <1>5 DEF OpenFile, CloseFile, local
<1>6. CASE PowerLoss
  BY <1>6, PowerLossStep
<1>7. CASE UNCHANGED vars
  BY <1>1, <1>7 DEF vars, fs, local
<1> QED BY <1>2, <1>3, <1>4, <1>5, <1>6, <1>7 DEF Next, Working

(* WriteFileAtomic, SignFile, Save and writeFileAtomic keep what AtomicFile *)
(* promises: the file changes in the step in which the call that changes it *)
(* succeeds and in no other, whatever fails or ends on the way.             *)
THEOREM FileReplaceImplements == Spec => ImplementsFile
<1>1. Init => File!FInit
  BY DEF Init, File!FInit, Held, Outcome
<1>2. IInv /\ [Next]_vars => [File!FNext]_(File!fvars)
  BY NextMaps
<1> QED BY <1>1, <1>2, FileInvariance, PTL DEF Spec, ImplementsFile, File!FileSpec

-----------------------------------------------------------------------------
(* The reader of such a file                                               *)

Results == [code : Codes, from : Bodies \union {Absent}]

(* What RInv says beside the file.                                          *)
ReaderTypes ==
    /\ pack \in Bodies \union {NoFile}
    /\ cache \in [Documents -> Results]
    /\ at \in [Goroutines -> {"idle", "lock", "read"}]
    /\ asked \in [Goroutines -> AskOps] /\ doc \in [Goroutines -> Documents]
    /\ \A g \in Goroutines : at[g] = "read" <=> lock = g
    /\ over \in [Goroutines -> BOOLEAN] /\ anyOver \in BOOLEAN
    /\ answer \in [Goroutines -> Results]
    /\ asks \in 0..MaxAsks /\ damages \in 0..MaxDamages

ReaderInv == ReaderTypes /\ OneReading /\ OneVersion /\ OpenPack /\ KeptRight /\ Asking

(* The invariant is that of the file and that of the reader.                *)
LEMMA RInvParts == RInv <=> IInv /\ ReaderInv
BY DEF RInv, ReaderInv, ReadTypeOK, ReaderTypes, IInv, Results

(* The initial states satisfy the invariant.                                *)
LEMMA ReaderStarts == ReadInit => RInv
<1> SUFFICES ASSUME ReadInit PROVE RInv
  OBVIOUS
<1>1. IInv
  BY InitKeeps DEF ReadInit
<1>2. Unloaded \in Results
  BY DEF Unloaded, Result, Results, Codes
<1>3. ReaderTypes
  <2>1. \A g \in Goroutines : at[g] = "read" <=> lock = g
    BY ReaderAssumption DEF ReadInit
  <2>2. asks \in 0..MaxAsks /\ damages \in 0..MaxDamages
    BY AsksAssumption DEF ReadInit
  <2> QED BY <1>2, <2>1, <2>2 DEF ReadInit, ReaderTypes, AskOps, Documents
<1>4. OneReading /\ OneVersion /\ OpenPack /\ KeptRight /\ Asking
  BY DEF ReadInit, Init, OneReading, OneVersion, OpenPack, KeptRight, Asking, Unloaded, Result, Documents
<1> QED BY <1>1, <1>3, <1>4, RInvParts DEF ReaderInv

(* Nobody writes to a file that somebody has open.                          *)
LEMMA OpenFileKept ==
    ASSUME IInv, Working
    PROVE  handle' = handle /\ (handle # NoFile => data'[handle] = data[handle])
<1> USE DEF IInv
<1>1. handle' = handle
  BY DEF Working, Step, Call, EndContext, OpenSource, Create, Write, Sync, Chmod, Rename, Remove, Read,
         IOError, Fail, Crash, Die, fs
<1>2. data' = data \/ \E p \in Procs : Create(p) \/ Write(p)
  BY DEF Working, Step, Call, EndContext, OpenSource, Sync, Chmod, Rename, Remove, Read,
         IOError, Fail, Crash, Die, fs
<1>3. ASSUME NEW p \in Procs, Create(p), handle # NoFile PROVE data'[handle] = data[handle]
  BY <1>3 DEF Create, Used, TypeOK
<1>4. ASSUME NEW p \in Procs, Write(p), handle # NoFile PROVE data'[handle] = data[handle]
  <2>1. temp[p] # NoFile /\ temp[p] # handle
    BY <1>4 DEF Write, TypeOK, TempPcs, TempsPrivate
  <2> QED BY <1>4, <2>1 DEF Write, TypeOK
<1> QED BY <1>1, <1>2, <1>3, <1>4

(* So callers that replace the file do not change what the reader has.      *)
LEMMA ReplacingKeeps ==
    ASSUME IInv, ReaderInv, Working, UNCHANGED reading
    PROVE  ReaderInv'
<1>1. ReaderTypes' /\ OneReading' /\ Asking'
  BY DEF reading, ReaderInv, ReaderTypes, OneReading, Asking
<1>2. OneVersion' /\ KeptRight'
  BY OpenFileKept DEF reading, ReaderInv, OneVersion, KeptRight, LooksAt
<1>3. OpenPack'
  BY OpenFileKept DEF reading, ReaderInv, OpenPack
<1> QED BY <1>1, <1>2, <1>3 DEF ReaderInv

(* The reader is opened on the file that has the name.                      *)
LEMMA ReaderOpens ==
    ASSUME IInv, ReaderInv, Open
    PROVE  ReaderInv'
<1>1. /\ pack = NoFile /\ dir # Absent /\ handle' = dir /\ data' = data /\ pack' = data[dir][1]
      /\ UNCHANGED <<cache, lock, at, asked, doc, over, answer, anyOver, asks, damages>>
  BY DEF Open, OpenFile
<1>2. dir \in Inodes /\ data[dir] \in Contents /\ data[dir][1] \in Bodies
  BY <1>1 DEF IInv, TypeOK, FileWhole, Contents
<1>3. /\ pack' # NoFile
      /\ \A d \in Documents : cache[d] = Unloaded
      /\ \A g \in Goroutines : at[g] = "idle" /\ answer[g] = Unloaded
  BY <1>1, <1>2, ReaderAssumption DEF ReaderInv, OpenPack
<1>4. ReaderTypes'
  BY <1>1, <1>2 DEF ReaderInv, ReaderTypes
<1>5. OneReading' /\ OneVersion' /\ OpenPack' /\ KeptRight'
  BY <1>1, <1>2, <1>3 DEF OneReading, OneVersion, OpenPack, KeptRight, Unloaded, Result, Documents
<1>6. Asking'
  BY <1>1, <1>3 DEF ReaderInv, Asking
<1> QED BY <1>4, <1>5, <1>6 DEF ReaderInv

(* Close leaves what was kept and those who ask.                            *)
LEMMA ReaderCloses ==
    ASSUME IInv, ReaderInv, Close
    PROVE  ReaderInv'
<1>1. handle' = NoFile /\ data' = data /\ UNCHANGED reading
  BY DEF Close, CloseFile
<1>2. ReaderTypes' /\ OneReading' /\ Asking'
  BY <1>1 DEF reading, ReaderInv, ReaderTypes, OneReading, Asking
<1>3. OneVersion' /\ OpenPack' /\ KeptRight'
  BY <1>1 DEF reading, ReaderInv, OneVersion, OpenPack, KeptRight, LooksAt
<1> QED BY <1>2, <1>3 DEF ReaderInv

(* A call begins on an open reader with no answer yet.                      *)
LEMMA AskKeeps ==
    ASSUME ReaderInv, NEW g \in Goroutines, NEW o \in AskOps, Ask(g, o)
    PROVE  ReaderInv'
<1> USE DEF ReaderInv, Ask, vars, fs
<1>1. Unloaded \in Results
  BY DEF Unloaded, Result, Results, Codes
<1>2. ReaderTypes'
  BY <1>1, AsksAssumption DEF ReaderTypes, Documents
<1>3. OneReading' /\ OpenPack' /\ KeptRight'
  BY DEF OneReading, OpenPack, KeptRight, LooksAt
<1>4. OneVersion'
  BY DEF OneVersion, ReaderTypes, Unloaded, Result
<1>5. Asking'
  BY DEF Asking, ReaderTypes, AskOps
<1> QED BY <1>2, <1>3, <1>4, <1>5

(* A context that ends is noted, and nothing that was kept changes.         *)
LEMMA EndAskKeeps ==
    ASSUME ReaderInv, NEW g \in Goroutines, EndAsk(g)
    PROVE  ReaderInv'
<1> USE DEF ReaderInv, EndAsk, vars, fs
<1>1. ReaderTypes'
  BY DEF ReaderTypes
<1>2. OneReading' /\ OpenPack' /\ KeptRight' /\ OneVersion' /\ Asking'
  BY DEF OneReading, OpenPack, KeptRight, LooksAt, OneVersion, Asking, ReaderTypes
<1> QED BY <1>1, <1>2

(* A goroutine that has its document gives the answer that is right for its *)
(* call, when the result for the document is right.                         *)
LEMMA GotKeeps ==
    ASSUME ReaderInv, NEW g \in Goroutines, NEW result \in Results, at[g] # "idle", Got(g, result),
           UNCHANGED <<vars, pack, asked, anyOver, asks>>,
           cache' \in [Documents -> Results], damages' \in 0..MaxDamages, damages <= damages',
           OneReading', KeptRight',
           \A d \in Documents : cache[d] # Unloaded => cache'[d] = cache[d],
           \A q \in Goroutines \ {g} : at[q] = "read" => cache'[doc[q]] = Unloaded,
           \A q \in Goroutines : (q # g /\ at[q] = "read") <=> lock' = q,
           result.code # "unloaded",
           result.code = "ok" => result.from = pack /\ cache'[doc[g]].code = "ok",
           result.code = "notFound" => LooksAt(doc[g]) \notin Entries[pack],
           (handle # NoFile /\ ~anyOver /\ damages' = 0) => result.code \in {"ok", "notFound"}
    PROVE  ReaderInv'
<1> USE DEF ReaderInv
<1>1. handle' = handle /\ data' = data
  BY DEF vars, fs
<1>2. pack # NoFile
  BY DEF OpenPack
<1>3. CASE asked[g] = "EffectiveManifest" /\ doc[g] = "package" /\ result.code = "ok"
  <2>1. /\ at' = [at EXCEPT ![g] = "lock"] /\ doc' = [doc EXCEPT ![g] = "manifest"]
        /\ UNCHANGED <<over, answer>>
    BY <1>3 DEF Got
  <2>2. ReaderTypes'
    BY <2>1 DEF ReaderTypes, Documents
  <2>3. OneVersion'
    BY <1>1, <2>1 DEF OneVersion, ReaderTypes
  <2>4. OpenPack'
    BY <1>1, <1>2 DEF OpenPack
  <2>5. Asking'
    BY <1>3, <2>1 DEF Asking, ReaderTypes, Unloaded, Result, Documents
  <2> QED BY <2>2, <2>3, <2>4, <2>5
<1>4. CASE ~(asked[g] = "EffectiveManifest" /\ doc[g] = "package" /\ result.code = "ok")
  <2> DEFINE empty == /\ asked[g] = "EffectiveManifest" /\ doc[g] = "manifest"
                      /\ result.code = "notFound" /\ Layout[pack] = "V2"
             said == IF empty THEN Result("ok", cache["package"].from) ELSE result
  <2>1. /\ at' = [at EXCEPT ![g] = "idle"] /\ doc' = [doc EXCEPT ![g] = "manifest"]
        /\ over' = [over EXCEPT ![g] = FALSE] /\ answer' = [answer EXCEPT ![g] = said]
    BY <1>4 DEF Got
  <2>2. empty => cache["package"].code = "ok" /\ cache["package"].from = pack
    BY DEF Asking, KeptRight, Documents
  <2>3. said \in Results
    <3>1. cache["package"] \in Results
      BY DEF ReaderTypes, Documents
    <3> QED BY <3>1 DEF Results, Result, Codes
  <2>4. /\ said.code = "ok" => said.from = pack
        /\ said.code = "notFound" => result.code = "notFound"
        /\ (handle # NoFile /\ ~anyOver /\ damages' = 0) => said.code \in {"ok", "notFound"}
    BY <2>2 DEF Result
  <2> HIDE DEF said, empty
  <2>5. ReaderTypes'
    BY <2>1, <2>3 DEF ReaderTypes, Documents
  <2>6. OneVersion'
    <3> SUFFICES ASSUME NEW q \in Goroutines
                 PROVE  /\ answer'[q].code = "ok" => answer'[q].from = pack
                        /\ answer'[q].code = "notFound" =>
                             \E d \in Documents \ Entries[pack] :
                                 asked[q] = "Manifest" \/ Layout[pack] = "V1" => d = "manifest"
                        /\ (handle # NoFile /\ ~anyOver /\ damages' = 0)
                             => answer'[q].code \in {"unloaded", "ok", "notFound"}
      BY <1>1 DEF OneVersion
    <3>1. CASE q # g
      <4>1. answer'[q] = answer[q]
        BY <2>1, <3>1 DEF ReaderTypes
      <4>2. damages' = 0 => damages = 0
        BY DEF ReaderTypes
      <4> QED BY <4>1, <4>2 DEF OneVersion
    <3>2. CASE q = g
      <4>1. answer'[q] = said
        BY <2>1, <3>2 DEF ReaderTypes
      <4>2. LooksAt(doc[g]) \in Documents
        BY DEF LooksAt, ReaderTypes, Documents
      <4>3. asked[q] = "Manifest" \/ Layout[pack] = "V1" => LooksAt(doc[g]) = "manifest"
        BY <3>2 DEF LooksAt, Asking
      <4> QED BY <2>4, <4>1, <4>2, <4>3
    <3> QED BY <3>1, <3>2
  <2>7. OpenPack'
    BY <1>1, <1>2 DEF OpenPack
  <2>8. Asking'
    BY <2>1 DEF Asking, ReaderTypes, Unloaded, Result, Documents
  <2> QED BY <2>5, <2>6, <2>7, <2>8
<1> QED BY <1>3, <1>4

(* A call whose context has ended is answered so.                           *)
LEMMA RefuseKeeps ==
    ASSUME ReaderInv, NEW g \in Goroutines, Refuse(g)
    PROVE  ReaderInv'
<1> DEFINE result == Result("cancelled", Absent)
<1>1. /\ at[g] = "lock" /\ over[g] /\ Got(g, result)
      /\ UNCHANGED <<vars, pack, cache, lock, asked, anyOver, asks, damages>>
  BY DEF Refuse
<1>2. result \in Results /\ result.code = "cancelled"
  BY DEF Result, Results, Codes
<1>3. anyOver
  BY <1>1 DEF ReaderInv, Asking
<1>4. ReaderTypes /\ KeptRight /\ OneReading /\ Asking
  BY DEF ReaderInv
<1>5. KeptRight' /\ OneReading'
  BY <1>1, <1>4 DEF KeptRight, LooksAt, OneReading, vars, fs
<1>6. /\ cache' \in [Documents -> Results] /\ damages' \in 0..MaxDamages /\ damages <= damages'
      /\ \A d \in Documents : cache[d] # Unloaded => cache'[d] = cache[d]
      /\ \A q \in Goroutines \ {g} : at[q] = "read" => cache'[doc[q]] = Unloaded
      /\ \A q \in Goroutines : (q # g /\ at[q] = "read") <=> lock' = q
  BY <1>1, <1>4 DEF ReaderTypes, Asking
<1> HIDE DEF result
<1> QED BY <1>1, <1>2, <1>3, <1>5, <1>6, GotKeeps

(* A document that was looked for before, or the mutex to read it.          *)
LEMMA LockKeeps ==
    ASSUME ReaderInv, NEW g \in Goroutines, Lock(g)
    PROVE  ReaderInv'
<1>1. /\ at[g] = "lock" /\ lock = NoFile
      /\ UNCHANGED <<vars, pack, cache, asked, anyOver, asks, damages>>
  BY DEF Lock
<1>2. ReaderTypes /\ KeptRight /\ OneReading /\ OneVersion /\ OpenPack /\ Asking
  BY DEF ReaderInv
<1>3. KeptRight' /\ OneReading'
  BY <1>1, <1>2 DEF KeptRight, LooksAt, OneReading, vars, fs
<1>4. \A q \in Goroutines : at[q] # "read"
  BY <1>1, <1>2, ReaderAssumption DEF ReaderTypes
<1>5. CASE cache[doc[g]] # Unloaded /\ Got(g, cache[doc[g]]) /\ UNCHANGED lock
  <2> DEFINE result == cache[doc[g]]
  <2>1. doc[g] \in Documents
    BY <1>2 DEF ReaderTypes
  <2>2. /\ result \in Results /\ result.code # "unloaded"
        /\ result.code = "ok" => result.from = pack
        /\ result.code = "notFound" => LooksAt(doc[g]) \notin Entries[pack]
        /\ (handle # NoFile /\ ~anyOver /\ damages = 0) => result.code \in {"ok", "notFound"}
    BY <1>2, <1>5, <2>1 DEF ReaderTypes, KeptRight
  <2>3. /\ cache' \in [Documents -> Results] /\ damages' \in 0..MaxDamages /\ damages <= damages'
        /\ \A d \in Documents : cache[d] # Unloaded => cache'[d] = cache[d]
        /\ \A q \in Goroutines \ {g} : at[q] = "read" => cache'[doc[q]] = Unloaded
        /\ \A q \in Goroutines : (q # g /\ at[q] = "read") <=> lock' = q
    BY <1>1, <1>2, <1>4, <1>5, ReaderAssumption DEF ReaderTypes
  <2>4. cache'[doc[g]] = result /\ damages' = damages /\ Got(g, result)
    BY <1>1, <1>5
  <2> HIDE DEF result
  <2> QED BY <1>1, <1>3, <2>2, <2>3, <2>4, GotKeeps
<1>6. CASE cache[doc[g]] = Unloaded /\ lock' = g /\ at' = [at EXCEPT ![g] = "read"]
             /\ UNCHANGED <<doc, over, answer>>
  <2>1. ReaderTypes'
    BY <1>1, <1>2, <1>4, <1>6 DEF ReaderTypes
  <2>2. OneVersion'
    BY <1>1, <1>2, <1>6 DEF OneVersion, vars, fs
  <2>3. OpenPack'
    BY <1>1, <1>2, <1>6 DEF OpenPack, vars, fs
  <2>4. Asking'
    BY <1>1, <1>2, <1>6 DEF Asking, ReaderTypes
  <2> QED BY <1>3, <2>1, <2>2, <2>3, <2>4 DEF ReaderInv
<1> QED BY <1>5, <1>6 DEF Lock

(* What a read finds is of the package the reader was opened on.            *)
LEMMA ParsedRight ==
    ASSUME ReaderInv, NEW g \in Goroutines, NEW d \in Documents
    PROVE  /\ Parsed(g, d) \in Results /\ Parsed(g, d).code # "unloaded"
           /\ Parsed(g, d).code = "ok" => Parsed(g, d).from = pack
           /\ Parsed(g, d).code = "notFound" => d \notin Entries[pack]
           /\ (handle # NoFile /\ ~anyOver) => Parsed(g, d).code \in {"ok", "notFound"}
<1>1. over[g] => anyOver
  BY DEF ReaderInv, Asking
<1>2. handle # NoFile => data[handle][1] = pack /\ pack \in Bodies
  BY DEF ReaderInv, OpenPack, ReaderTypes
<1> QED BY <1>1, <1>2 DEF Parsed, Failed, Result, Results, Codes

(* The documents that are kept.                                             *)
LEMMA KeepKeeps ==
    ASSUME ReaderInv, NEW g \in Goroutines, at[g] = "read", lock' = NoFile,
           NEW read \in Results, NEW result \in {read, Failed}, Keep(g, read, result), Got(g, result),
           UNCHANGED <<vars, pack, asked, anyOver, asks>>,
           damages' \in 0..MaxDamages, damages <= damages',
           Split(g) /\ cache["manifest"] # Unloaded => read = cache["manifest"],
           result = read \/ Split(g),
           result = Failed /\ read # Failed => damages' # 0,
           read.code # "unloaded",
           read.code = "ok" => read.from = pack,
           read.code = "notFound" => LooksAt(doc[g]) \notin Entries[pack],
           (handle # NoFile /\ ~anyOver /\ damages' = 0) => read.code \in {"ok", "notFound"}
    PROVE  ReaderInv'
<1>1. ReaderTypes /\ KeptRight /\ OneReading /\ Asking
  BY DEF ReaderInv
<1>2. lock = g /\ doc[g] \in Documents /\ cache[doc[g]] = Unloaded
  BY <1>1 DEF ReaderTypes, Asking
<1>3. Failed \in Results /\ Failed.code = "failed" /\ Unloaded.code = "unloaded"
  BY DEF Failed, Unloaded, Result, Results, Codes
<1>4. /\ result \in Results /\ result.code # "unloaded"
      /\ result.code = "ok" => result.from = pack
      /\ result.code = "notFound" => LooksAt(doc[g]) \notin Entries[pack]
      /\ (handle # NoFile /\ ~anyOver /\ damages' = 0) => result.code \in {"ok", "notFound"}
  BY <1>3
<1>5. /\ cache' \in [Documents -> Results] /\ cache'[doc[g]] = result
      /\ \A d \in Documents \ {doc[g]} : cache'[d] = IF Split(g) THEN read ELSE cache[d]
  BY <1>1, <1>2, <1>4 DEF Keep, ReaderTypes, Documents, Split
<1>6. \A d \in Documents : cache[d] # Unloaded => cache'[d] = cache[d]
  BY <1>2, <1>5 DEF Documents, Split
<1>7. OneReading'
  <2>1. CASE Split(g)
    BY <1>3, <1>5, <2>1 DEF OneReading, Documents, Split
  <2>2. CASE ~Split(g) /\ Layout[pack] = "V1"
    BY <1>1, <1>2, <1>5, <2>2 DEF OneReading, Documents, Split
  <2>3. CASE Layout[pack] # "V1"
    BY <2>3 DEF OneReading
  <2> QED BY <2>1, <2>2, <2>3
<1>8. KeptRight'
  <2> SUFFICES ASSUME NEW d \in Documents
               PROVE  /\ cache'[d].code = "ok" => cache'[d].from = pack
                      /\ cache'[d].code = "notFound" => LooksAt(d) \notin Entries[pack]
                      /\ cache'[d].code = "unloaded" <=> cache'[d] = Unloaded
                      /\ (handle # NoFile /\ ~anyOver /\ damages' = 0)
                            => cache'[d].code \in {"unloaded", "ok", "notFound"}
    BY DEF KeptRight, LooksAt, vars, fs
  <2>1. CASE d = doc[g]
    BY <1>3, <1>4, <1>5, <2>1
  <2>2. CASE d # doc[g] /\ Split(g)
    BY <1>3, <1>5, <2>2 DEF Split, LooksAt
  <2>3. CASE d # doc[g] /\ ~Split(g)
    <3>1. cache'[d] = cache[d]
      BY <1>5, <2>3
    <3>2. damages' = 0 => damages = 0
      BY <1>1 DEF ReaderTypes
    <3> QED BY <1>1, <3>1, <3>2 DEF KeptRight
  <2> QED BY <2>1, <2>2, <2>3
<1>9. /\ \A q \in Goroutines \ {g} : at[q] = "read" => cache'[doc[q]] = Unloaded
      /\ \A q \in Goroutines : (q # g /\ at[q] = "read") <=> lock' = q
  BY <1>1, <1>2, ReaderAssumption DEF ReaderTypes
<1> QED BY <1>4, <1>5, <1>6, <1>7, <1>8, <1>9, GotKeeps

(* A document is read under the mutex.                                      *)
LEMMA ReadDocumentKeeps ==
    ASSUME ReaderInv, NEW g \in Goroutines, ReadDocument(g)
    PROVE  ReaderInv'
<1> DEFINE kept == Split(g) /\ cache["manifest"] # Unloaded
           read == IF kept THEN cache["manifest"]
                   ELSE Parsed(g, IF Split(g) THEN "manifest" ELSE doc[g])
<1>1. at[g] = "read" /\ lock' = NoFile /\ UNCHANGED <<vars, pack, asked, anyOver, asks>>
  BY DEF ReadDocument
<1>2. \/ Keep(g, read, read) /\ Got(g, read) /\ UNCHANGED damages
      \/ /\ damages < MaxDamages /\ damages' = damages + 1 /\ Got(g, Failed)
         /\ (~kept /\ Keep(g, Failed, Failed)) \/ (Split(g) /\ Keep(g, read, Failed))
  BY DEF ReadDocument
<1>3. ReaderTypes /\ KeptRight
  BY DEF ReaderInv
<1>4. LooksAt(doc[g]) \in Documents /\ (IF Split(g) THEN "manifest" ELSE doc[g]) = LooksAt(doc[g])
  BY <1>3 DEF Split, LooksAt, ReaderTypes, Documents
<1>5. /\ read \in Results /\ read.code # "unloaded"
      /\ read.code = "ok" => read.from = pack
      /\ read.code = "notFound" => LooksAt(doc[g]) \notin Entries[pack]
      /\ (handle # NoFile /\ ~anyOver /\ damages = 0) => read.code \in {"ok", "notFound"}
  <2>1. CASE kept
    BY <1>3, <2>1 DEF ReaderTypes, KeptRight, Split, LooksAt, Documents
  <2>2. CASE ~kept
    BY <1>4, <2>2, ParsedRight
  <2> QED BY <2>1, <2>2
<1>6. Split(g) /\ cache["manifest"] # Unloaded => read = cache["manifest"]
  OBVIOUS
<1>7. ~kept => ~(Split(g) /\ cache["manifest"] # Unloaded)
  OBVIOUS
<1>8. Failed \in Results /\ Failed.code = "failed"
  BY DEF Failed, Result, Results, Codes
<1>9. damages \in 0..MaxDamages
  BY <1>3 DEF ReaderTypes
<1> HIDE DEF read, kept
<1>10. CASE Keep(g, read, read) /\ Got(g, read) /\ UNCHANGED damages
  BY <1>1, <1>5, <1>6, <1>9, <1>10, KeepKeeps
<1>11. CASE damages < MaxDamages /\ damages' = damages + 1
  <2>1. damages' \in 0..MaxDamages /\ damages <= damages' /\ damages' # 0
    BY <1>9, <1>11, AsksAssumption
  <2>2. CASE Got(g, Failed) /\ ~kept /\ Keep(g, Failed, Failed)
    BY <1>1, <1>7, <1>8, <2>1, <2>2, KeepKeeps
  <2>3. CASE Got(g, Failed) /\ Split(g) /\ Keep(g, read, Failed)
    BY <1>1, <1>5, <1>6, <2>1, <2>3, KeepKeeps
  <2> QED BY <1>2, <1>11, <2>2, <2>3, <1>9
<1> QED BY <1>2, <1>10, <1>11

(* The reader is gone after a power loss.                                   *)
LEMMA OutageKeeps ==
    ASSUME ReaderInv, Outage
    PROVE  ReaderInv'
<1> USE DEF ReaderInv, Outage
<1>1. Unloaded \in Results /\ handle' = NoFile
  BY DEF Unloaded, Result, Results, Codes, PowerLoss
<1>2. ReaderTypes'
  BY <1>1, ReaderAssumption DEF ReaderTypes, Documents
<1>3. OneReading' /\ OneVersion' /\ OpenPack' /\ KeptRight' /\ Asking'
  BY <1>1 DEF OneReading, OneVersion, OpenPack, KeptRight, Asking, Unloaded, Result, Documents
<1> QED BY <1>2, <1>3

(* Every step keeps the invariant.                                          *)
LEMMA ReadNextKeeps ==
    ASSUME RInv, [ReadNext]_allVars
    PROVE  RInv'
<1>1. IInv /\ ReaderInv
  BY RInvParts
<1>2. [Next]_vars
  BY DEF ReadNext, allVars, Open, Close, Outage, Next, Ask, EndAsk, Refuse, Lock, ReadDocument
<1>3. IInv'
  BY <1>1, <1>2, NextKeeps
<1>4. ReaderInv'
  <2>1. CASE UNCHANGED allVars
    BY <1>1, <2>1 DEF allVars, reading, vars, fs, ReaderInv, ReaderTypes, OneReading, OneVersion, OpenPack,
                      KeptRight, LooksAt, Asking
  <2>2. CASE Working /\ UNCHANGED reading
    BY <1>1, <2>2, ReplacingKeeps
  <2>3. CASE Open \/ Close \/ Outage
    BY <1>1, <2>3, ReaderOpens, ReaderCloses, OutageKeeps
  <2>4. ASSUME NEW g \in Goroutines, NEW o \in AskOps, Ask(g, o) PROVE ReaderInv'
    BY <1>1, <2>4, AskKeeps
  <2>5. ASSUME NEW g \in Goroutines, EndAsk(g) \/ Refuse(g) \/ Lock(g) \/ ReadDocument(g)
        PROVE  ReaderInv'
    BY <1>1, <2>5, EndAskKeeps, RefuseKeeps, LockKeeps, ReadDocumentKeeps
  <2> QED BY <2>1, <2>2, <2>3, <2>4, <2>5 DEF ReadNext
<1> QED BY <1>3, <1>4 DEF RInv, ReaderInv, ReadTypeOK, ReaderTypes, IInv, Results

(* In every behaviour of the reader and of those who replace its file.      *)
THEOREM ReaderInvariance == ReadSpec => []RInv
BY ReaderStarts, ReadNextKeeps, PTL DEF ReadSpec

(* lpk.Reader answers from the package it was opened on, NOT_FOUND only for *)
(* what that package lacks, with both documents of one reading; its mutex   *)
(* is held by the one goroutine that reads.                                 *)
THEOREM ReaderAnswersRight == ReadSpec => []ReadInv
<1>1. RInv => ReadInv
  BY DEF RInv, ReadInv
<1> QED BY <1>1, ReaderInvariance, PTL

(* A document of a reader is read once: a step that keeps the package keeps *)
(* what is cached.                                                          *)
LEMMA KeptStays ==
    ASSUME RInv, [ReadNext]_allVars, pack' = pack, NEW d \in Documents, cache[d] # Unloaded
    PROVE  cache'[d] = cache[d]
<1>1. ReaderTypes /\ OpenPack /\ Asking
  BY RInvParts DEF ReaderInv
<1>2. CASE cache' = cache
  BY <1>2
<1>3. CASE Outage
  BY <1>1, <1>3 DEF Outage, OpenPack
<1>4. ASSUME NEW g \in Goroutines, ReadDocument(g) PROVE cache'[d] = cache[d]
  <2>1. at[g] = "read" /\ doc[g] # d
    BY <1>1, <1>4 DEF ReadDocument, Asking
  <2>2. \E read, result :
          Keep(g, read, result) /\ (Split(g) /\ cache["manifest"] # Unloaded => read = cache["manifest"])
    BY <1>4 DEF ReadDocument
  <2> QED BY <1>1, <2>1, <2>2 DEF Keep, ReaderTypes, Documents, Split
<1> QED BY <1>2, <1>3, <1>4 DEF ReadNext, allVars, reading, Open, Close, Ask, EndAsk, Refuse, Lock

(* What lpk.Reader keeps of a document, errors included, is not read again. *)
THEOREM DocumentsAreReadOnce == ReadSpec => ReadOnce
<1>1. RInv /\ [ReadNext]_allVars =>
        [pack' = pack => \A d \in Documents : cache[d] # Unloaded => cache'[d] = cache[d]]_allVars
  BY KeptStays
<1> QED BY <1>1, ReaderInvariance, PTL DEF ReadSpec, ReadOnce

=============================================================================
