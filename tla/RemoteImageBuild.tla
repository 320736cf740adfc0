------------------------- MODULE RemoteImageBuild -------------------------
(***************************************************************************)
(* buildpack.Builder.Build (image/buildpack/builder.go, materialize.go):   *)
(* builds that make images on a remote backend and bring the blobs of      *)
(* their OCI layout home, through one blob cache they share.               *)
(*                                                                         *)
(* The cache is the abstract store of ContentStore, which BlobCache        *)
(* implements: a call may still find a blob the environment has just       *)
(* taken.  The backend is external: it keeps the blobs of what it built    *)
(* until it collects them, and may list fewer blobs than the index needs.  *)
(***************************************************************************)
EXTENDS Naturals, FiniteSets

CONSTANTS
    Builds,
    Digests,
    Entries,        \* image entries of the configuration
    Needs,          \* the blobs the layout of an entry refers to
    MaxFaults,      \* bound: failing commands and damaged downloads
    MaxLosses       \* bound: blobs taken from the cache or the backend

ASSUME NeedsAssumption ==
    Needs \in [Entries -> SUBSET Digests] /\ \A e \in Entries : Needs[e] # {}
ASSUME BoundsAssumption == MaxFaults \in Nat /\ MaxLosses \in Nat

VARIABLES
    stored, acked, lost,   \* the blob cache
    remote,     \* blobs the backend has
    pc,
    built,      \* entries built so far
    listed,     \* blobs of the pack manifest
    rest,       \* blobs the present loop has still to visit
    missing,    \* blobs the cache did not have
    download,   \* the temporary file of a download: of which blob, with the right bytes or not
    files,      \* blobs in the artifact directory
    work,       \* the build has a work directory
    ret,
    faults, losses

Store == INSTANCE ContentStore

None == <<>>

cache == <<stored, acked, lost>>
build == <<pc, built, listed, rest, missing, download, files, work, ret>>
vars  == <<cache, remote, build, faults, losses>>

PcSet ==
    {"idle", "info", "buildPack", "packManifest", "has", "blobCheck", "blobGet", "put",
     "copyTo", "validate"}

Init ==
    /\ Store!SInit
    /\ remote = {}
    /\ pc = [b \in Builds |-> "idle"]
    /\ built = [b \in Builds |-> {}]
    /\ listed = [b \in Builds |-> {}]
    /\ rest = [b \in Builds |-> {}]
    /\ missing = [b \in Builds |-> {}]
    /\ download = [b \in Builds |-> None]
    /\ files = [b \in Builds |-> {}]
    /\ work = [b \in Builds |-> FALSE]
    /\ ret = [b \in Builds |-> "none"]
    /\ faults = 0 /\ losses = 0

Needed(b) == UNION {Needs[e] : e \in built[b]}

----------------------------------------------------------------------------
Goto(b, at) == pc' = [pc EXCEPT ![b] = at] /\ UNCHANGED ret
Visit(b, at, digests) == Goto(b, at) /\ rest' = [rest EXCEPT ![b] = digests]

(* Mutant of Fail: the work directory is left.                              *)
FailKeepsWork(b) ==
    /\ pc' = [pc EXCEPT ![b] = "idle"]
    /\ ret' = [ret EXCEPT ![b] = "failed"]
    /\ download' = [download EXCEPT ![b] = None]
    /\ UNCHANGED <<built, listed, rest, missing, work, files>>

(* Any error ends the build; its files are removed.                         *)
Fail(b) ==
    /\ pc' = [pc EXCEPT ![b] = "idle"]
    /\ ret' = [ret EXCEPT ![b] = "failed"]
    /\ work' = [work EXCEPT ![b] = FALSE]
    /\ files' = [files EXCEPT ![b] = {}]
    /\ download' = [download EXCEPT ![b] = None]
    /\ UNCHANGED <<built, listed, rest, missing>>

Begin(b) ==
    /\ pc[b] = "idle" /\ ret[b] = "none"
    /\ Goto(b, "info")
    /\ UNCHANGED <<cache, remote, built, listed, rest, missing, download, files, work, faults, losses>>

(* A command fails, a disk is full, the context ends.                       *)
Break(b) ==
    /\ pc[b] # "idle" /\ faults < MaxFaults
    /\ faults' = faults + 1
    /\ Fail(b)
    /\ UNCHANGED <<cache, remote, losses>>

(* backend.Info and the required capabilities, then the work directory.     *)
Info(b) ==
    /\ pc[b] = "info"
    /\ Goto(b, "buildPack")
    /\ work' = [work EXCEPT ![b] = TRUE]
    /\ UNCHANGED <<cache, remote, built, listed, rest, missing, download, files, faults, losses>>

BuildPack(b) ==
    /\ pc[b] = "buildPack"
    /\ \E e \in Entries \ built[b] :
         /\ built' = [built EXCEPT ![b] = @ \union {e}]
         /\ remote' = remote \union Needs[e]
         /\ Goto(b, IF built'[b] = Entries THEN "packManifest" ELSE "buildPack")
    /\ UNCHANGED <<cache, listed, rest, missing, download, files, work, faults, losses>>

(* A backend may leave out a blob; an empty list is refused.                *)
Listings(b) == {Needed(b)} \union {Needed(b) \ {d} : d \in Needed(b)}

PackImagesManifest(b) ==
    /\ pc[b] = "packManifest"
    /\ \E blobs \in Listings(b) :
         /\ blobs = Needed(b) \/ faults < MaxFaults
         /\ faults' = IF blobs = Needed(b) THEN faults ELSE faults + 1
         /\ \/ /\ blobs # {}
               /\ Visit(b, "has", blobs)
               /\ listed' = [listed EXCEPT ![b] = blobs]
               /\ UNCHANGED <<built, missing, download, files, work>>
            \/ blobs = {} /\ Fail(b)
    /\ UNCHANGED <<cache, remote, losses>>

----------------------------------------------------------------------------
(* The loops of materialize.                                                *)

Has(b) ==
    /\ pc[b] = "has"
    /\ \E d \in rest[b] :
         /\ \/ Store!Confirm(d) /\ UNCHANGED missing
            \/ d \notin stored /\ UNCHANGED cache
                 /\ missing' = [missing EXCEPT ![b] = @ \union {d}]
         /\ \/ rest[b] # {d} /\ Visit(b, "has", rest[b] \ {d})
            \/ rest[b] = {d} /\ missing'[b] # {} /\ Visit(b, "blobCheck", missing'[b])
            \/ rest[b] = {d} /\ missing'[b] = {} /\ Visit(b, "copyTo", listed[b])
    /\ UNCHANGED <<remote, built, listed, download, files, work, faults, losses>>

(* A blob the backend lacks ends the build.                                 *)
BlobCheck(b) ==
    /\ pc[b] = "blobCheck"
    /\ \/ missing[b] \subseteq remote
            /\ Visit(b, "blobGet", missing[b]) /\ UNCHANGED <<built, listed, missing, download, files, work>>
       \/ ~(missing[b] \subseteq remote) /\ Fail(b)
    /\ UNCHANGED <<cache, remote, faults, losses>>

BlobGet(b) ==
    /\ pc[b] = "blobGet"
    /\ \E d \in rest[b] :
         \/ /\ d \in remote
            /\ Visit(b, "put", rest[b] \ {d})
            /\ \/ download' = [download EXCEPT ![b] = <<d, "right">>] /\ UNCHANGED faults
               \/ /\ faults < MaxFaults /\ faults' = faults + 1
                  /\ download' = [download EXCEPT ![b] = <<d, "wrong">>]
            /\ UNCHANGED <<built, listed, missing, files, work>>
         \/ d \notin remote /\ Fail(b) /\ UNCHANGED faults
    /\ UNCHANGED <<cache, remote, losses>>

(* Mutant of Put: a blob that another build cached meanwhile is an error.   *)
PutExclusive(b) ==
    /\ pc[b] = "put"
    /\ \/ /\ download[b][2] = "right" /\ download[b][1] \notin stored
          /\ Store!Add(download[b][1])
          /\ IF rest[b] = {} THEN Visit(b, "copyTo", listed[b]) ELSE Visit(b, "blobGet", rest[b])
          /\ download' = [download EXCEPT ![b] = None]
          /\ UNCHANGED <<built, listed, missing, files, work>>
       \/ /\ download[b][2] = "wrong" \/ download[b][1] \in stored
          /\ Fail(b) /\ UNCHANGED cache
    /\ UNCHANGED <<remote, faults, losses>>

(* The cache takes bytes that have the digest, and the file is removed.  A  *)
(* size the backend listed wrongly is noticed only then.                    *)
Put(b) ==
    /\ pc[b] = "put"
    /\ \/ /\ download[b][2] = "right"
          /\ Store!Add(download[b][1])
          /\ \/ /\ IF rest[b] = {} THEN Visit(b, "copyTo", listed[b]) ELSE Visit(b, "blobGet", rest[b])
                /\ download' = [download EXCEPT ![b] = None]
                /\ UNCHANGED <<built, listed, missing, files, work, faults>>
             \/ faults < MaxFaults /\ faults' = faults + 1 /\ Fail(b)
       \/ download[b][2] = "wrong" /\ Fail(b) /\ UNCHANGED <<cache, faults>>
    /\ UNCHANGED <<remote, losses>>

(* A blob that has left the cache since it was looked for ends the build.   *)
CopyTo(b) ==
    /\ pc[b] = "copyTo"
    /\ \E d \in rest[b] :
         \/ /\ d \in stored \union lost
            /\ files' = [files EXCEPT ![b] = @ \union {d}]
            /\ IF rest[b] = {d} THEN Visit(b, "validate", {})
                                ELSE Visit(b, "copyTo", rest[b] \ {d})
            /\ UNCHANGED <<built, listed, missing, download, work>>
         \/ d \notin stored /\ Fail(b)
    /\ UNCHANGED <<cache, remote, faults, losses>>

(* Mutant of Valid: the layout is not validated.                            *)
ValidUnasked(b) == TRUE

(* oci.Validate: every blob index and lock refer to is there.               *)
Valid(b) == Needed(b) \subseteq files[b]

Validate(b) ==
    /\ pc[b] = "validate"
    /\ \/ /\ Valid(b)
          /\ pc' = [pc EXCEPT ![b] = "idle"] /\ ret' = [ret EXCEPT ![b] = "ok"]
          /\ UNCHANGED <<built, listed, rest, missing, download, files, work>>
       \/ ~Valid(b) /\ Fail(b)
    /\ UNCHANGED <<cache, remote, faults, losses>>

(* The caller of a build that succeeded closes its artifact.                *)
Close(b) ==
    /\ pc[b] = "idle" /\ ret[b] = "ok"
    /\ ret' = [ret EXCEPT ![b] = "closed"]
    /\ work' = [work EXCEPT ![b] = FALSE]
    /\ files' = [files EXCEPT ![b] = {}]
    /\ UNCHANGED <<cache, remote, pc, built, listed, rest, missing, download, faults, losses>>

----------------------------------------------------------------------------
(* The environment clears a blob from the cache, or the backend collects it. *)
LoseBlob ==
    /\ losses < MaxLosses /\ losses' = losses + 1
    /\ \E d \in Digests :
         \/ /\ stored' = stored \ {d} /\ Store!Lose({d})
            /\ UNCHANGED remote
         \/ remote' = remote \ {d} /\ UNCHANGED cache
    /\ UNCHANGED <<build, faults>>

Work(b) ==
    \/ Info(b) \/ BuildPack(b) \/ PackImagesManifest(b)
    \/ Has(b) \/ BlobCheck(b) \/ BlobGet(b) \/ Put(b) \/ CopyTo(b) \/ Validate(b)

Next == (\E b \in Builds : Begin(b) \/ Work(b) \/ Break(b) \/ Close(b)) \/ LoseBlob

Spec == Init /\ [][Next]_vars

----------------------------------------------------------------------------
(* Every variable has its type, and there is a temporary file exactly       *)
(* between a download and its Put.                                          *)
TypeOK ==
    /\ stored \subseteq Digests /\ acked \subseteq Digests /\ lost \subseteq Digests
    /\ remote \subseteq Digests
    /\ pc \in [Builds -> PcSet]
    /\ built \in [Builds -> SUBSET Entries]
    /\ {listed, rest, missing, files} \subseteq [Builds -> SUBSET Digests]
    /\ download \in [Builds -> (Digests \X {"right", "wrong"}) \union {None}]
    /\ \A b \in Builds : download[b] # None <=> pc[b] = "put"
    /\ work \in [Builds -> BOOLEAN] /\ ret \in [Builds -> {"none", "ok", "failed", "closed"}]
    /\ faults \in 0..MaxFaults /\ losses \in 0..MaxLosses

(* A build that succeeds gives a layout with every blob of every entry,     *)
(* also when the backend listed too few or the cache lost some meanwhile.   *)
ArtifactWhole ==
    \A b \in Builds :
        ret[b] = "ok" => work[b] /\ UNION {Needs[e] : e \in Entries} \subseteq files[b]

(* A build that is over has left no work directory unless it succeeded.     *)
NothingLeftOver == \A b \in Builds : pc[b] = "idle" /\ work[b] => ret[b] = "ok"

(* A download is open only while it is put into the cache, and a work        *)
(* directory outlives only a build that succeeded.                          *)
BuildInv == TypeOK /\ NothingLeftOver

(* Builds that share the cache and the backend do not make each other fail. *)
NoInterference ==
    (faults = 0 /\ losses = 0) => \A b \in Builds : ret[b] # "failed"

----------------------------------------------------------------------------
(* Why these hold.  A build lists only when every entry is built, has its   *)
(* work directory until it fails or is closed, and succeeds only with what  *)
(* it needs ...                                                             *)
Loops == {"has", "blobCheck", "blobGet", "put", "copyTo", "validate"}

BuildSteps ==
    \A b \in Builds :
        /\ pc[b] # "idle" => ret[b] = "none"
        /\ (ret[b] = "none" /\ pc[b] \notin Loops) => missing[b] = {}
        /\ pc[b] \in Loops \union {"packManifest"} => built[b] = Entries /\ Entries # {}
        /\ pc[b] \in Loops \union {"buildPack", "packManifest"} => work[b]
        /\ ret[b] = "ok" => work[b] /\ built[b] = Entries /\ Needed(b) \subseteq files[b]

(* ... and while nothing fails and nothing is lost, what the backend built  *)
(* is there, and each blob of the list is in the cache or still to be       *)
(* fetched, in the artifact or still to be copied.                          *)
Accounted(b) ==
    /\ listed[b] = Needed(b)
    /\ pc[b] = "has" => listed[b] \subseteq stored \union rest[b] \union missing[b]
    /\ pc[b] = "blobCheck" => listed[b] \subseteq stored \union missing[b]
    /\ pc[b] \in {"has", "blobCheck"} => missing[b] \subseteq listed[b]
    /\ pc[b] \in {"has", "blobGet", "put", "copyTo"} => rest[b] \subseteq listed[b]
    /\ pc[b] = "blobGet" => listed[b] \subseteq stored \union rest[b]
    /\ pc[b] = "put" => /\ listed[b] \subseteq stored \union rest[b] \union {download[b][1]}
                       /\ download[b][2] = "right"
    /\ pc[b] = "copyTo" => listed[b] \subseteq stored /\ listed[b] \subseteq files[b] \union rest[b]
    /\ pc[b] = "validate" => listed[b] \subseteq files[b]

Undisturbed ==
    (faults = 0 /\ losses = 0) =>
        /\ lost = {}
        /\ \A b \in Builds :
            /\ ret[b] # "failed" /\ Needed(b) \subseteq remote
            /\ pc[b] \in Loops => Accounted(b)

IInv == BuildInv /\ BuildSteps /\ Undisturbed
=============================================================================
