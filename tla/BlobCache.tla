----------------------------- MODULE BlobCache -----------------------------
(***************************************************************************)
(* The content-addressed blob cache of a project directory                 *)
(* (remote/blobcache/cache.go), shared by concurrent callers.  One action  *)
(* is one file-system call of put, verifyExisting, Open or CopyTo together *)
(* with the local code up to the next one.  Files are inodes, so that a    *)
(* reader keeps the file it opened when another caller renames a new one   *)
(* over the name.                                                          *)
(*                                                                         *)
(* A power loss may lose bytes that were not fsynced and directory entries *)
(* written since the last one (the code never fsyncs the directory).       *)
(***************************************************************************)
EXTENDS Naturals, Sequences

CONSTANTS
    Procs,        \* concurrent callers (goroutines, or processes of one host)
    Digests,      \* the sha256 names a caller may ask for
    Contents,     \* whole byte strings a source may hold
    Hash,         \* sha256 of each of them
    Inodes,       \* files the file system can hold at once
    Layouts,      \* OCI layouts ImportOCI is given: their entries, by name
    Partial,      \* an incomplete byte string: no blob hashes to it
    Damaged,      \* what a file holds after somebody else wrote to it
    Absent,       \* no directory entry
    Directory,    \* an entry that is not a regular file
    NoFile,       \* no open file, no temporary
    AnyDigest,    \* put's expected == "" (PutFile)
    MaxCalls,     \* bound: calls of the cache
    MaxCrashes,   \* bound: process crashes and power losses
    MaxTampers    \* bound: blobs removed or overwritten from outside

Wanted  == Digests \union {AnyDigest}
Bytes   == Contents \union {Partial, Damaged}
Entries == [want : Digests, src : Contents]

ASSUME HashAssumption == Hash \in [Contents -> Digests]
ASSUME LayoutsAssumption == Layouts \subseteq Seq(Entries) \ {<< >>}
ASSUME BoundsAssumption == MaxCalls \in Nat /\ MaxCrashes \in Nat /\ MaxTampers \in Nat
ASSUME DistinctAssumption ==
    /\ Partial # Damaged /\ Partial \notin Contents /\ Damaged \notin Contents
    /\ Absent # Directory /\ Absent \notin Inodes /\ Directory \notin Inodes
    /\ NoFile \notin Inodes
    /\ AnyDigest \notin Digests

VARIABLES
    dir,       \* blobs/sha256: the entry of each name
    disk,      \* the entries a power loss may bring back
    data,      \* the bytes of each inode
    synced,    \* inodes whose bytes were fsynced after they were written
    litter,    \* temporaries whose owner crashed: nothing ever removes them
    pc,        \* where each caller is
    call,      \* its operation, and the digest and source it is at
    rest,      \* ImportOCI: the entries still to put
    temp,      \* the inode of its temporary file
    fd,        \* the inode it has open for reading
    ret,       \* what its last call returned
    acked,     \* history: digests some put reported as cached
    lost,      \* history: digests the environment took since they were written
    calls, crashes, tampers

files == <<dir, disk, data, synced, litter>>
local == <<pc, call, rest, temp, fd, ret>>
vars  == <<files, local, acked, lost, calls, crashes, tampers>>

(* The bytes of a blob of this name: complete, and hashing to it.          *)
Whole(bytes, d) == bytes \in Contents /\ Hash[bytes] = d
Regular(d)      == dir[d] \in Inodes
Valid(d)        == Regular(d) /\ Whole(data[dir[d]], d)

PutPcs  == {"put", "verifyOpen", "verifyRead", "create", "copy", "sync", "rename"}
ReadPcs == {"lstat", "open", "read"}
TempPcs == {"copy", "sync", "rename"}
FdPcs   == {"verifyRead", "read"}
PcSet   == {"idle"} \union PutPcs \union ReadPcs

Ops    == {"none", "put", "putFile", "import", "copyTo", "has"}
Codes  == {"none", "ok", "absent", "cancelled", "failed", "integrity", "notFound"}
Call   == [op : Ops, want : Wanted, src : Bytes]
Result == [op : Ops, code : Codes, want : Wanted, got : Bytes]

NoCall   == [op |-> "none", want |-> AnyDigest, src |-> Partial]
NoResult == [op |-> "none", code |-> "none", want |-> AnyDigest, got |-> Partial]

Used == {dir[d] : d \in Digests} \union {disk[d] : d \in Digests}
          \union {temp[p] : p \in Procs} \union {fd[p] : p \in Procs} \union litter

Init ==
    /\ dir = [d \in Digests |-> Absent]
    /\ disk = [d \in Digests |-> Absent]
    /\ data = [i \in Inodes |-> Partial]
    /\ synced = {} /\ litter = {}
    /\ pc = [p \in Procs |-> "idle"]
    /\ call = [p \in Procs |-> NoCall]
    /\ rest = [p \in Procs |-> << >>]
    /\ temp = [p \in Procs |-> NoFile]
    /\ fd = [p \in Procs |-> NoFile]
    /\ ret = [p \in Procs |-> NoResult]
    /\ acked = {} /\ lost = {}
    /\ calls = 0 /\ crashes = 0 /\ tampers = 0

----------------------------------------------------------------------------
(* Calls.                                                                   *)

Begin(p, op, want, src, later, at) ==
    /\ pc[p] = "idle" /\ calls < MaxCalls
    /\ calls' = calls + 1
    /\ pc' = [pc EXCEPT ![p] = at]
    /\ call' = [call EXCEPT ![p] = [op |-> op, want |-> want, src |-> src]]
    /\ rest' = [rest EXCEPT ![p] = later]
    /\ ret' = [ret EXCEPT ![p] = NoResult]
    /\ UNCHANGED <<files, temp, fd, acked, lost, crashes, tampers>>

(* The digest a caller names and the bytes its reader yields need not agree. *)
Put(p)     == \E d \in Digests, c \in Contents : Begin(p, "put", d, c, << >>, "put")
PutFile(p) == \E c \in Contents : Begin(p, "putFile", AnyDigest, c, << >>, "put")
CopyTo(p)  == \E d \in Digests : Begin(p, "copyTo", d, Partial, << >>, "lstat")

ImportOCI(p) ==
    \E layout \in Layouts :
        Begin(p, "import", Head(layout).want, Head(layout).src, Tail(layout), "put")

(* Has is one lstat: true for a regular file, whatever it holds.            *)
Has(p) ==
    \E d \in Digests :
        /\ pc[p] = "idle" /\ calls < MaxCalls
        /\ calls' = calls + 1
        /\ ret' = [ret EXCEPT ![p] = [op |-> "has", want |-> d, got |-> Partial,
                                      code |-> IF Regular(d) THEN "ok" ELSE "absent"]]
        /\ UNCHANGED <<files, pc, call, rest, temp, fd, acked, lost, crashes, tampers>>

----------------------------------------------------------------------------
(* How a call ends.                                                         *)

Goto(p, at) == pc' = [pc EXCEPT ![p] = at]

Return(p, code, want, got) ==
    /\ Goto(p, "idle")
    /\ ret' = [ret EXCEPT ![p] = [op |-> call[p].op, code |-> code, want |-> want, got |-> got]]
    /\ call' = [call EXCEPT ![p] = NoCall]
    /\ rest' = [rest EXCEPT ![p] = << >>]

(* Mutant of Fail: the deferred function forgets the temporary.             *)
FailKeepsTemp(p, code) ==
    /\ Return(p, code, call[p].want, Partial)
    /\ fd' = [fd EXCEPT ![p] = NoFile]
    /\ UNCHANGED <<files, temp, acked, lost, calls, crashes, tampers>>

(* Mutant of Fail: it removes the blob's name along with the temporary.     *)
FailRemovesName(p, code) ==
    /\ Return(p, code, call[p].want, Partial)
    /\ temp' = [temp EXCEPT ![p] = NoFile]
    /\ fd' = [fd EXCEPT ![p] = NoFile]
    /\ dir' = [d \in Digests |->
                 IF temp[p] # NoFile /\ d = call[p].want THEN Absent ELSE dir[d]]
    /\ UNCHANGED <<disk, data, synced, litter, acked, lost, calls, crashes, tampers>>

(* An error return: the deferred function of put closes and removes the     *)
(* temporary (its inode is free again), and an open file is closed.         *)
Fail(p, code) ==
    /\ Return(p, code, call[p].want, Partial)
    /\ temp' = [temp EXCEPT ![p] = NoFile]
    /\ fd' = [fd EXCEPT ![p] = NoFile]
    /\ UNCHANGED <<files, acked, lost, calls, crashes, tampers>>

(* put returned the blob of digest d: Put and PutFile report it, ImportOCI  *)
(* goes on with its next entry.  Closing the source of a PutFile or of a    *)
(* layout entry may still fail: the blob is there, the caller sees an error.*)
Succeed(p, d) ==
    \/ /\ acked' = acked \union {d}
       /\ rest[p] = << >>
       /\ Return(p, "ok", d, Partial)
    \/ /\ acked' = acked \union {d}
       /\ rest[p] # << >>
       /\ Goto(p, "put")
       /\ call' = [call EXCEPT ![p].want = Head(rest[p]).want, ![p].src = Head(rest[p]).src]
       /\ rest' = [rest EXCEPT ![p] = Tail(rest[p])]
       /\ UNCHANGED ret
    \/ /\ call[p].op # "put"
       /\ Return(p, "failed", d, Partial)
       /\ UNCHANGED acked

----------------------------------------------------------------------------
(* put and verifyExisting.                                                  *)

(* Entry of put, and verifyExisting's lstat; without an expected digest put *)
(* does not look.                                                           *)
Found(d) == IF d = AnyDigest THEN Absent ELSE dir[d]

PutStart(p) ==
    /\ pc[p] = "put"
    /\ LET entry == Found(call[p].want) IN
         \/ /\ entry # Directory
            /\ Goto(p, IF entry = Absent THEN "create" ELSE "verifyOpen")
            /\ UNCHANGED <<files, call, rest, temp, fd, ret, acked, lost, calls, crashes, tampers>>
         \/ /\ entry = Directory
            /\ Fail(p, "integrity")

(* The name may have gone, or have become a directory, since the lstat.     *)
VerifyOpen(p) ==
    /\ pc[p] = "verifyOpen"
    /\ IF Regular(call[p].want)
       THEN /\ fd' = [fd EXCEPT ![p] = dir[call[p].want]]
            /\ Goto(p, "verifyRead")
            /\ UNCHANGED <<files, call, rest, temp, ret, acked, lost, calls, crashes, tampers>>
       ELSE Fail(p, "failed")

(* Mutant of VerifyRead: a file that exists is reported without hashing it. *)
VerifyReadTrusting(p) ==
    /\ pc[p] = "verifyRead"
    /\ Succeed(p, call[p].want)
    /\ fd' = [fd EXCEPT ![p] = NoFile]
    /\ UNCHANGED <<files, temp, lost, calls, crashes, tampers>>

(* The file that was opened is hashed.  A match ends put without a write; a *)
(* mismatch is an error: a damaged blob is never replaced by Put.           *)
VerifyRead(p) ==
    /\ pc[p] = "verifyRead"
    /\ IF Whole(data[fd[p]], call[p].want)
       THEN /\ Succeed(p, call[p].want)
            /\ fd' = [fd EXCEPT ![p] = NoFile]
            /\ UNCHANGED <<files, temp, lost, calls, crashes, tampers>>
       ELSE Fail(p, "integrity")

(* MkdirAll and CreateTemp: a new, empty file under a name of its own.      *)
CreateTemp(p) ==
    /\ pc[p] = "create"
    /\ \E i \in Inodes \ Used :
         /\ temp' = [temp EXCEPT ![p] = i]
         /\ data' = [data EXCEPT ![i] = Partial]
         /\ synced' = synced \ {i}
    /\ Goto(p, "copy")
    /\ UNCHANGED <<dir, disk, litter, call, rest, fd, ret, acked, lost, calls, crashes, tampers>>

(* Mutant of Copy: the digest asked for is believed.                        *)
CopyUnchecked(p) ==
    /\ pc[p] = "copy"
    /\ LET c == call[p].src IN
         /\ data' = [data EXCEPT ![temp[p]] = c]
         /\ call' = [call EXCEPT ![p].want = IF @ = AnyDigest THEN Hash[c] ELSE @]
         /\ Goto(p, "sync")
         /\ UNCHANGED <<dir, disk, synced, litter, rest, temp, fd, ret,
                        acked, lost, calls, crashes, tampers>>

(* The source is copied through the hash and its digest compared.           *)
Copy(p) ==
    /\ pc[p] = "copy"
    /\ LET c == call[p].src
           d == Hash[c]
       IN \/ /\ call[p].want \in {d, AnyDigest}
             /\ data' = [data EXCEPT ![temp[p]] = c]
             /\ call' = [call EXCEPT ![p].want = d]
             /\ Goto(p, "sync")
             /\ UNCHANGED <<dir, disk, synced, litter, rest, temp, fd, ret,
                            acked, lost, calls, crashes, tampers>>
          \/ /\ call[p].want \notin {d, AnyDigest}
             /\ Fail(p, "integrity")

(* Mutant of Sync: no fsync.                                                *)
SyncSkipped(p) ==
    /\ pc[p] = "sync"
    /\ Goto(p, "rename")
    /\ UNCHANGED <<files, call, rest, temp, fd, ret, acked, lost, calls, crashes, tampers>>

Sync(p) ==
    /\ pc[p] = "sync"
    /\ synced' = synced \union {temp[p]}
    /\ Goto(p, "rename")
    /\ UNCHANGED <<dir, disk, data, litter, call, rest, temp, fd, ret,
                   acked, lost, calls, crashes, tampers>>

(* Close, chmod and rename over the name, which another caller may have     *)
(* published meanwhile.  rename does not replace a directory by a file.     *)
Rename(p) ==
    /\ pc[p] = "rename"
    /\ LET d == call[p].want IN
         \/ /\ dir[d] # Directory
            /\ dir' = [dir EXCEPT ![d] = temp[p]]
            /\ temp' = [temp EXCEPT ![p] = NoFile]
            /\ lost' = lost \ {d}
            /\ Succeed(p, d)
            /\ UNCHANGED <<disk, data, synced, litter, fd, calls, crashes, tampers>>
         \/ /\ dir[d] = Directory
            /\ Fail(p, "failed")

(* The steps that look at the context may find it done, before and after    *)
(* the copy; from then on put does not look again.                          *)
Cancelled(p) ==
    /\ pc[p] \in {"put", "verifyRead", "copy", "lstat", "read"}
    /\ Fail(p, "cancelled")

(* An I/O error of the call the caller is at.                               *)
IOError(p) == pc[p] # "idle" /\ Fail(p, "failed")

----------------------------------------------------------------------------
(* Open and CopyTo.  The bytes are not hashed.                              *)

OpenLstat(p) ==
    /\ pc[p] = "lstat"
    /\ IF dir[call[p].want] = Directory
       THEN Fail(p, "integrity")
       ELSE /\ Goto(p, "open")
            /\ UNCHANGED <<files, call, rest, temp, fd, ret, acked, lost, calls, crashes, tampers>>

(* os.Open and the stat of the open file, after which Open returns it.      *)
OpenFile(p) ==
    /\ pc[p] = "open"
    /\ LET d == call[p].want IN
         \/ /\ Regular(d)
            /\ fd' = [fd EXCEPT ![p] = dir[d]]
            /\ Goto(p, "read")
            /\ UNCHANGED <<files, call, rest, temp, ret, acked, lost, calls, crashes, tampers>>
         \/ dir[d] = Absent /\ Fail(p, "notFound")
         \/ dir[d] = Directory /\ Fail(p, "integrity")

Read(p) ==
    /\ pc[p] = "read"
    /\ Return(p, "ok", call[p].want, data[fd[p]])
    /\ fd' = [fd EXCEPT ![p] = NoFile]
    /\ UNCHANGED <<files, temp, acked, lost, calls, crashes, tampers>>

----------------------------------------------------------------------------
(* The environment.                                                         *)

(* The callers that die leave their temporaries behind.                     *)
Die(dead) ==
    /\ crashes' = crashes + 1
    /\ pc' = [p \in Procs |-> IF p \in dead THEN "idle" ELSE pc[p]]
    /\ call' = [p \in Procs |-> IF p \in dead THEN NoCall ELSE call[p]]
    /\ rest' = [p \in Procs |-> IF p \in dead THEN << >> ELSE rest[p]]
    /\ temp' = [p \in Procs |-> IF p \in dead THEN NoFile ELSE temp[p]]
    /\ fd' = [p \in Procs |-> IF p \in dead THEN NoFile ELSE fd[p]]
    /\ ret' = [p \in Procs |-> IF p \in dead THEN NoResult ELSE ret[p]]
    /\ litter' = litter \union ({temp[p] : p \in dead} \ {NoFile})

Crash(p) ==
    /\ crashes < MaxCrashes /\ pc[p] # "idle"
    /\ Die({p})
    /\ UNCHANGED <<dir, disk, data, synced, acked, lost, calls, tampers>>

(* Each name comes back as it was last seen or as it was on disk; each file *)
(* that was not fsynced may come back incomplete.                           *)
PowerLoss ==
    /\ crashes < MaxCrashes
    /\ Die(Procs)
    /\ \E reverted \in SUBSET Digests, torn \in SUBSET (Inodes \ synced) :
         /\ dir' = [d \in Digests |-> IF d \in reverted THEN disk[d] ELSE dir[d]]
         /\ disk' = dir'
         /\ data' = [i \in Inodes |-> IF i \in torn THEN Partial ELSE data[i]]
         /\ lost' = lost \union {d \in reverted : disk[d] # dir[d]}
    /\ UNCHANGED <<synced, acked, calls, tampers>>

(* Somebody removes a blob, replaces it by a directory, or writes into it.  *)
Disturb(d) ==
    /\ tampers < MaxTampers /\ tampers' = tampers + 1
    /\ lost' = lost \union {d}
    /\ UNCHANGED <<disk, synced, litter, local, acked, calls, crashes>>

Evict(d)   == Regular(d) /\ Disturb(d) /\ dir' = [dir EXCEPT ![d] = Absent] /\ UNCHANGED data
Replace(d) == Disturb(d) /\ dir' = [dir EXCEPT ![d] = Directory] /\ UNCHANGED data
Damage(d)  == Regular(d) /\ Disturb(d) /\ data' = [data EXCEPT ![dir[d]] = Damaged] /\ UNCHANGED dir

----------------------------------------------------------------------------
Work(p) ==
    \/ PutStart(p) \/ VerifyOpen(p) \/ VerifyRead(p) \/ CreateTemp(p)
    \/ Copy(p) \/ Sync(p) \/ Rename(p)
    \/ OpenLstat(p) \/ OpenFile(p) \/ Read(p)

Step(p) == Work(p) \/ Cancelled(p) \/ IOError(p)

Invoke(p) == Put(p) \/ PutFile(p) \/ ImportOCI(p) \/ CopyTo(p) \/ Has(p)

Environment ==
    \/ \E p \in Procs : Crash(p)
    \/ PowerLoss
    \/ \E d \in Digests : Evict(d) \/ Replace(d) \/ Damage(d)

Next == (\E p \in Procs : Invoke(p) \/ Step(p)) \/ Environment

Spec == Init /\ [][Next]_vars

----------------------------------------------------------------------------
(* Every variable has its type, and a caller has a temporary or an open     *)
(* file exactly where cache.go holds one.                                   *)
TypeOK ==
    /\ dir \in [Digests -> Inodes \union {Absent, Directory}]
    /\ disk \in [Digests -> Inodes \union {Absent, Directory}]
    /\ data \in [Inodes -> Bytes]
    /\ synced \subseteq Inodes /\ litter \subseteq Inodes
    /\ pc \in [Procs -> PcSet]
    /\ call \in [Procs -> Call]
    /\ rest \in [Procs -> Seq(Entries)]
    /\ temp \in [Procs -> Inodes \union {NoFile}]
    /\ fd \in [Procs -> Inodes \union {NoFile}]
    /\ ret \in [Procs -> Result]
    /\ acked \subseteq Digests /\ lost \subseteq Digests
    /\ calls \in 0..MaxCalls /\ crashes \in 0..MaxCrashes /\ tampers \in 0..MaxTampers

(* A file under a digest's name holds the bytes of that digest, whatever    *)
(* callers do at the same time and after any crash or power loss, unless    *)
(* somebody else wrote into it (put: hash, fsync, rename).                  *)
CacheIntegrity ==
    \A d \in Digests :
        Regular(d) => Whole(data[dir[d]], d) \/ data[dir[d]] = Damaged

(* What put reported as cached is in the cache until the environment takes  *)
(* it: no other caller, no failing call and no crash removes it.            *)
AckedStays == \A d \in acked \ lost : Valid(d)

(* A successful CopyTo delivered the whole blob it was asked for, although  *)
(* it checks no digest and the name may be renamed over while it reads.     *)
ReadsWhole ==
    \A p \in Procs :
        (ret[p].op = "copyTo" /\ ret[p].code = "ok")
            => Whole(ret[p].got, ret[p].want) \/ ret[p].got = Damaged

(* put leaves no temporary behind on any of its return paths: an inode that *)
(* is neither named nor being written was left by a crash.                  *)
NoTempLeft ==
    /\ \A p \in Procs : temp[p] # NoFile <=> pc[p] \in TempPcs
    /\ litter # {} => crashes > 0

(* A put never vouches for bytes nobody hashed: when a call of put succeeds,*)
(* the file it opened or wrote holds the digest at that moment, so a        *)
(* poisoned cache entry is refused and never reported as cached.            *)
NoBlindAck ==
    [][\A p \in Procs :
         (pc[p] \in PutPcs /\ pc'[p] = "idle" /\ ret'[p].code = "ok")
            => \E i \in {fd[p], temp[p]} \ {NoFile} : Whole(data[i], ret'[p].want)]_vars

----------------------------------------------------------------------------
(* The inductive invariant behind the safety properties.                    *)

(* A file with the name of d is on disk, whole unless somebody wrote to it. *)
Sound(i, d) == i \in synced /\ (Whole(data[i], d) \/ data[i] = Damaged)

(* So are the file of each name and the one a power loss would bring back.  *)
NamedSound ==
    \A d \in Digests : /\ dir[d] \in Inodes => Sound(dir[d], d)
                       /\ disk[d] \in Inodes => Sound(disk[d], d)

(* A temporary is its owner's alone until it is renamed.                    *)
TempsPrivate ==
    \A p \in Procs : temp[p] # NoFile =>
        /\ \A d \in Digests : temp[p] # dir[d] /\ temp[p] # disk[d]
        /\ \A q \in Procs : fd[q] # temp[p] /\ (q # p => temp[q] # temp[p])

(* After the copy it holds the digest it will be renamed to; after fsync it *)
(* keeps it through a power loss.                                           *)
TempsWhole ==
    \A p \in Procs :
        /\ pc[p] \in {"sync", "rename"} => Whole(data[temp[p]], call[p].want)
        /\ pc[p] = "rename" => temp[p] \in synced

(* An open file is one that had the name; a whole one is still cached, or   *)
(* the environment took it.                                                 *)
FdsSound ==
    \A p \in Procs : fd[p] # NoFile =>
        /\ Sound(fd[p], call[p].want)
        /\ Whole(data[fd[p]], call[p].want) => Valid(call[p].want) \/ call[p].want \in lost

(* Only a PutFile that has not hashed its source has no digest yet.         *)
CallsTyped ==
    \A p \in Procs :
        /\ pc[p] \in PutPcs => call[p].op \in {"put", "putFile", "import"} /\ call[p].src \in Contents
        /\ pc[p] \in ReadPcs => call[p].op = "copyTo"
        /\ pc[p] \in (PutPcs \union ReadPcs) \ {"put", "create", "copy"} => call[p].want \in Digests
        /\ fd[p] # NoFile <=> pc[p] \in FdPcs

IInv == /\ TypeOK /\ NamedSound /\ TempsPrivate /\ TempsWhole /\ FdsSound /\ CallsTyped
        /\ AckedStays /\ ReadsWhole /\ NoTempLeft

----------------------------------------------------------------------------
Store == INSTANCE ContentStore WITH stored <- {d \in Digests : Valid(d)}

(* The cache with concurrent callers, crashes and a careless user is a      *)
(* store: blobs appear whole, stay, and are only lost to the environment.   *)
ImplementsStore == Store!StoreSpec
=============================================================================
