---------------------------- MODULE FileReplace ----------------------------
(***************************************************************************)
(* One file of the toolkit and the functions that replace it: an LPK       *)
(* (archive.WriteFileAtomic, signature.SignFile in place), a token file    *)
(* (auth/tokenfile) or a signing key (signature.writeFileAtomic).  All     *)
(* write a temporary file beside it and rename; they differ in the order   *)
(* of chmod, and in where they look at their context.                      *)
(*                                                                         *)
(* Files are inodes: an open file keeps its bytes when another is renamed  *)
(* over the name.  The directory is never fsynced, so a power loss may     *)
(* bring back an earlier file, and may lose bytes that were not fsynced.   *)
(***************************************************************************)
EXTENDS Naturals

CONSTANTS
    Procs,         \* concurrent callers, on one host
    Bodies,        \* what a file can be about: packages, tokens, keys
    Inodes,        \* files the file system can hold at once
    Kinds,         \* which kinds of file are considered
    Absent, NoFile, Partial,
    MaxCalls,      \* bound: calls
    MaxCrashes     \* bound: process crashes and power losses

ASSUME KindsAssumption == Kinds \subseteq {"package", "token", "key"}
ASSUME BoundsAssumption == MaxCalls \in Nat /\ MaxCrashes \in Nat
ASSUME DistinctAssumption ==
    /\ Absent \notin Inodes /\ NoFile \notin Inodes
    /\ Absent # Partial

(* A package is unsigned or signed; tokens and keys are never signed.       *)
Contents == Bodies \X BOOLEAN

ASSUME PartialAssumption == Partial \notin Contents /\ Absent \notin Contents

VARIABLES
    kind,      \* of the file
    dir,       \* the inode of its name, or Absent
    disk,      \* the entries a power loss may leave the name with
    data, mode,    \* of each inode
    synced,    \* inodes that were fsynced after they were written
    litter,    \* temporaries of callers that crashed
    handle,    \* the file an lpk.Reader has open
    pc, op,
    value,     \* what the caller is to write
    temp, fd,  \* its temporary file, the file it has open for reading
    ended,     \* its context has ended
    ret,       \* how its last call ended
    calls, crashes

fs    == <<kind, dir, disk, data, mode, synced, litter, handle>>
local == <<pc, op, value, temp, fd, ended, ret>>
vars  == <<fs, local, calls, crashes>>

Ops    == {"none", "write", "sign", "resign", "save", "load", "delete", "key"}
OpsOf  == [package |-> {"write", "sign", "resign"},
           token   |-> {"save", "load", "delete"},
           key     |-> {"key"}]
ModeOf == [package |-> "shared", token |-> "private", key |-> "private"]

PcSet   == {"idle", "open", "create", "write", "sync", "chmod", "rename", "remove", "read"}
TempPcs == {"write", "sync", "chmod", "rename"}

(* The order of the steps: Save sets the mode of the empty file.            *)
First == [o \in Ops |-> CASE o \in {"sign", "resign", "load"} -> "open"
                          [] o = "delete" -> "remove"
                          [] OTHER        -> "create"]
After(o, at) ==
    CASE at = "create" -> IF o = "save" THEN "chmod" ELSE "write"
      [] at = "chmod"  -> IF o = "save" THEN "write" ELSE "rename"
      [] at = "write"  -> "sync"
      [] at = "sync"   -> IF o = "save" THEN "rename" ELSE "chmod"
      [] at = "open"   -> IF o = "load" THEN "read" ELSE "create"

(* The steps after which a function looks at its context.                   *)
Looks == ({"write"} \X {"write", "sync", "chmod"}) \union ({"sign", "resign"} \X {"write"})

Held(entry) == IF entry = Absent THEN Absent ELSE data[entry]

Used == ({dir, handle} \union disk \union litter) \union {temp[p] : p \in Procs} \union {fd[p] : p \in Procs}

Init ==
    /\ kind \in Kinds
    /\ dir = Absent /\ disk = {Absent}
    /\ data = [i \in Inodes |-> Partial]
    /\ mode = [i \in Inodes |-> "private"]
    /\ synced = {} /\ litter = {} /\ handle = NoFile
    /\ pc = [p \in Procs |-> "idle"] /\ op = [p \in Procs |-> "none"]
    /\ value = [p \in Procs |-> Partial]
    /\ temp = [p \in Procs |-> NoFile] /\ fd = [p \in Procs |-> NoFile]
    /\ ended = [p \in Procs |-> FALSE]
    /\ ret = [p \in Procs |-> "none"]
    /\ calls = 0 /\ crashes = 0

----------------------------------------------------------------------------
(* A call looks at its context first; one that has ended then changes       *)
(* nothing.                                                                 *)
Call(p, o) ==
    /\ pc[p] = "idle" /\ calls < MaxCalls
    /\ o \in OpsOf[kind]
    /\ calls' = calls + 1
    /\ \E b \in Bodies : value' = [value EXCEPT ![p] = <<b, FALSE>>]
    /\ pc' = [pc EXCEPT ![p] = First[o]]
    /\ op' = [op EXCEPT ![p] = o]
    /\ ended' = [ended EXCEPT ![p] = FALSE]
    /\ ret' = [ret EXCEPT ![p] = "none"]
    /\ UNCHANGED <<fs, temp, fd, crashes>>

(* GenerateKeyPair writes its files with a context that never ends.         *)
EndContext(p) ==
    /\ pc[p] # "idle" /\ ~ended[p] /\ op[p] # "key"
    /\ ended' = [ended EXCEPT ![p] = TRUE]
    /\ UNCHANGED <<fs, pc, op, value, temp, fd, ret, calls, crashes>>

----------------------------------------------------------------------------
Goto(p, at) == pc' = [pc EXCEPT ![p] = at] /\ UNCHANGED <<op, value, ended, ret>>

(* The call is over: its files are closed, a temporary has been removed.    *)
Return(p, code) ==
    /\ pc' = [pc EXCEPT ![p] = "idle"]
    /\ op' = [op EXCEPT ![p] = "none"]
    /\ temp' = [temp EXCEPT ![p] = NoFile]
    /\ fd' = [fd EXCEPT ![p] = NoFile]
    /\ ret' = [ret EXCEPT ![p] = code]
    /\ value' = [value EXCEPT ![p] = Partial]
    /\ ended' = [ended EXCEPT ![p] = FALSE]

(* Any step may fail; the deferred function removes the temporary.          *)
Fail(p, code) ==
    /\ Return(p, code)
    /\ UNCHANGED <<fs, calls, crashes>>

IOError(p) == pc[p] # "idle" /\ Fail(p, "failed")

(* The step is done: the next one, or the end if the context is seen ended. *)
Continue(p) ==
    IF ended[p] /\ <<op[p], pc[p]>> \in Looks
    THEN Return(p, "cancelled")
    ELSE Goto(p, After(op[p], pc[p])) /\ UNCHANGED <<temp, fd>>

(* os.Open of the source of SignFile, or of the token Load reads; no token  *)
(* file is no token.                                                        *)
OpenSource(p) ==
    /\ pc[p] = "open"
    /\ \/ /\ dir # Absent
          /\ fd' = [fd EXCEPT ![p] = dir]
          /\ Goto(p, After(op[p], "open"))
          /\ UNCHANGED temp
       \/ dir = Absent /\ Return(p, IF op[p] = "load" THEN "ok" ELSE "failed")
    /\ UNCHANGED <<fs, calls, crashes>>

(* CreateTemp: an empty file of mode 0600 under a name of its own.          *)
Create(p) ==
    /\ pc[p] = "create"
    /\ \E i \in Inodes \ Used :
         /\ temp' = [temp EXCEPT ![p] = i]
         /\ data' = [data EXCEPT ![i] = Partial]
         /\ mode' = [mode EXCEPT ![i] = "private"]
         /\ synced' = synced \ {i}
    /\ Goto(p, After(op[p], "create"))
    /\ UNCHANGED <<kind, dir, disk, litter, handle, fd, calls, crashes>>

(* What is written: the value, or the source with its signature.  Sign      *)
(* refuses a package that is already signed.                                *)
Output(p) ==
    IF op[p] \in {"sign", "resign"}
    THEN {<<data[fd[p]][1], TRUE>> : x \in {y \in {1} : op[p] = "resign" \/ ~data[fd[p]][2]}}
    ELSE {value[p]}

Write(p) ==
    /\ pc[p] = "write"
    /\ \/ \E bytes \in Output(p) :
            /\ data' = [data EXCEPT ![temp[p]] = bytes]
            /\ Continue(p)
       \/ Output(p) = {} /\ Return(p, "conflict") /\ UNCHANGED data
    /\ UNCHANGED <<kind, dir, disk, mode, synced, litter, handle, calls, crashes>>

(* Mutant of Sync: the file is closed without an fsync.                     *)
SyncSkipped(p) ==
    /\ pc[p] = "sync"
    /\ Continue(p)
    /\ UNCHANGED <<fs, calls, crashes>>

(* Sync and, after another look at the context, Close.                      *)
Sync(p) ==
    /\ pc[p] = "sync"
    /\ synced' = synced \union {temp[p]}
    /\ Continue(p)
    /\ UNCHANGED <<kind, dir, disk, data, mode, litter, handle, calls, crashes>>

Chmod(p) ==
    /\ pc[p] = "chmod"
    /\ mode' = [mode EXCEPT ![temp[p]] = ModeOf[kind]]
    /\ Continue(p)
    /\ UNCHANGED <<kind, dir, disk, data, synced, litter, handle, calls, crashes>>

Changed(entry) == dir' = entry /\ disk' = disk \union {entry}

(* Mutant of Rename: the bytes are copied into the file that is there.      *)
RenameCopies(p) ==
    /\ pc[p] = "rename"
    /\ IF dir = Absent THEN Changed(temp[p]) /\ UNCHANGED data
       ELSE data' = [data EXCEPT ![dir] = Partial] /\ UNCHANGED <<dir, disk>>
    /\ Return(p, "ok")
    /\ UNCHANGED <<kind, mode, synced, litter, handle, calls, crashes>>

(* The rename is the last thing that can fail.                              *)
Rename(p) ==
    /\ pc[p] = "rename"
    /\ Changed(temp[p])
    /\ Return(p, "ok")
    /\ UNCHANGED <<kind, data, mode, synced, litter, handle, calls, crashes>>

(* Store.Delete; a file that is not there is deleted already.               *)
Remove(p) ==
    /\ pc[p] = "remove"
    /\ Changed(Absent)
    /\ Return(p, "ok")
    /\ UNCHANGED <<kind, data, mode, synced, litter, handle, calls, crashes>>

(* Store.Load reads the file it opened; what is not a token is refused.     *)
Read(p) ==
    /\ pc[p] = "read"
    /\ IF data[fd[p]] \in Contents THEN Return(p, "ok") ELSE Return(p, "failed")
    /\ UNCHANGED <<fs, calls, crashes>>

----------------------------------------------------------------------------
(* archive.OpenFile under lpk.OpenFile, and Close.                          *)
OpenFile ==
    /\ kind = "package" /\ handle = NoFile /\ dir # Absent
    /\ handle' = dir
    /\ UNCHANGED <<kind, dir, disk, data, mode, synced, litter, local, calls, crashes>>

CloseFile ==
    /\ handle # NoFile /\ handle' = NoFile
    /\ UNCHANGED <<kind, dir, disk, data, mode, synced, litter, local, calls, crashes>>

----------------------------------------------------------------------------
Die(P) ==
    /\ crashes < MaxCrashes /\ crashes' = crashes + 1
    /\ pc' = [p \in Procs |-> IF p \in P THEN "idle" ELSE pc[p]]
    /\ op' = [p \in Procs |-> IF p \in P THEN "none" ELSE op[p]]
    /\ temp' = [p \in Procs |-> IF p \in P THEN NoFile ELSE temp[p]]
    /\ fd' = [p \in Procs |-> IF p \in P THEN NoFile ELSE fd[p]]
    /\ ret' = [p \in Procs |-> IF p \in P THEN "none" ELSE ret[p]]
    /\ value' = [p \in Procs |-> IF p \in P THEN Partial ELSE value[p]]
    /\ ended' = [p \in Procs |-> ended[p] /\ p \notin P]
    /\ litter' = litter \union ({temp[p] : p \in P} \ {NoFile})
    /\ UNCHANGED <<kind, mode, calls>>

Crash(p) == pc[p] # "idle" /\ Die({p}) /\ UNCHANGED <<dir, disk, data, synced, handle>>

(* Everybody dies; bytes that were not fsynced may be lost, and the name    *)
(* may be back at a file it had since the last loss.                        *)
PowerLoss ==
    /\ Die(Procs)
    /\ dir' \in disk /\ disk' = {dir'}
    /\ \E gone \in SUBSET (Inodes \ synced) :
         data' = [i \in Inodes |-> IF i \in gone THEN Partial ELSE data[i]]
    /\ synced' = Inodes /\ handle' = NoFile

Step(p) ==
    \/ OpenSource(p) \/ Create(p) \/ Write(p) \/ Sync(p) \/ Chmod(p) \/ Rename(p)
    \/ Remove(p) \/ Read(p) \/ IOError(p)

Working ==
    \E p \in Procs : (\E o \in Ops : Call(p, o)) \/ EndContext(p) \/ Step(p) \/ Crash(p)

Next == Working \/ OpenFile \/ CloseFile \/ PowerLoss

Spec == Init /\ [][Next]_vars

----------------------------------------------------------------------------
(* Every variable has its type, and a caller has a temporary, or a file     *)
(* open, exactly where the code has.                                        *)
TypeOK ==
    /\ kind \in Kinds
    /\ dir \in Inodes \union {Absent} /\ disk \subseteq Inodes \union {Absent} /\ dir \in disk
    /\ data \in [Inodes -> Contents \union {Partial}]
    /\ mode \in [Inodes -> {"private", "shared"}]
    /\ synced \subseteq Inodes /\ litter \subseteq Inodes
    /\ handle \in Inodes \union {NoFile}
    /\ pc \in [Procs -> PcSet] /\ op \in [Procs -> Ops]
    /\ value \in [Procs -> Contents \union {Partial}]
    /\ temp \in [Procs -> Inodes \union {NoFile}] /\ fd \in [Procs -> Inodes \union {NoFile}]
    /\ \A p \in Procs :
         /\ op[p] # "none" <=> pc[p] # "idle"
         /\ temp[p] # NoFile <=> pc[p] \in TempPcs
         /\ fd[p] # NoFile <=> op[p] \in {"load", "sign", "resign"} /\ pc[p] # "open"
    /\ ended \in [Procs -> BOOLEAN]
    /\ ret \in [Procs -> {"none", "ok", "failed", "cancelled", "conflict"}]
    /\ calls \in 0..MaxCalls /\ crashes \in 0..MaxCrashes

(* The file is whole and has the mode of its kind, whatever fails or        *)
(* crashes, and so are the files a power loss may bring back.               *)
FileWhole ==
    \A i \in disk \ {Absent} : data[i] \in Contents /\ mode[i] = ModeOf[kind] /\ i \in synced

(* Why: a temporary is nobody else's and not yet the file ...               *)
TempsPrivate ==
    \A p \in Procs : temp[p] # NoFile =>
        /\ temp[p] \notin disk \union {handle}
        /\ \A q \in Procs : fd[q] # temp[p] /\ (q # p => temp[q] # temp[p])

(* ... an open file had the name since the last power loss ...              *)
OpenWhole ==
    /\ handle # NoFile => handle \in disk
    /\ \A p \in Procs : fd[p] # NoFile => fd[p] \in disk

(* ... and the steps of a call, in its order, leave nothing for the rename.  *)
InCall ==
    \A p \in Procs : pc[p] # "idle" =>
        /\ op[p] \in OpsOf[kind] /\ value[p] \in Contents
        /\ pc[p] \in {"read", "open"} => op[p] \in {"load", "sign", "resign"}

TempsDone ==
    \A p \in Procs :
        /\ pc[p] \in {"sync", "rename"} \/ (pc[p] = "chmod" /\ op[p] # "save") =>
             data[temp[p]] \in Contents
        /\ pc[p] = "rename" \/ (pc[p] \in {"write", "sync"} /\ op[p] = "save") =>
             mode[temp[p]] = ModeOf[kind]
        /\ pc[p] = "rename" \/ (pc[p] = "chmod" /\ op[p] # "save") => temp[p] \in synced

IInv == TypeOK /\ FileWhole /\ TempsPrivate /\ OpenWhole /\ InCall /\ TempsDone

(* A caller's temporary and open file go with its place in its call, and     *)
(* none of what callers do on the way shows in the file.                    *)
FileInv == TypeOK /\ FileWhole

----------------------------------------------------------------------------
Outcome(p) ==
    IF pc[p] # "idle" THEN "busy"
    ELSE IF ret[p] \in {"failed", "cancelled", "conflict"} THEN "failed"
    ELSE ret[p]

File == INSTANCE AtomicFile WITH
    Callers <- Procs,
    content <- Held(dir),
    past <- {Held(entry) : entry \in disk},
    outcome <- [p \in Procs |-> Outcome(p)]

(* The file changes in one step, the one in which the call that changes it  *)
(* succeeds; a call that fails or is cancelled leaves it as it was.         *)
ImplementsFile == File!FileSpec
=============================================================================
