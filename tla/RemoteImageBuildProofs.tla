----------------------- MODULE RemoteImageBuildProofs -----------------------
(***************************************************************************)
(* Proofs about the remote image builder, for any builds, entries, blobs   *)
(* and bounds: the inductive invariant IInv of RemoteImageBuild, and what  *)
(* follows from it of the artifact, of what is left over and of builds     *)
(* that share the cache and the backend; and about the context that a      *)
(* build is given, for any project, Dockerfile, .dockerignore and edits:   *)
(* the inductive invariant ContextIInv of BuildContext.                    *)
(***************************************************************************)
EXTENDS RemoteImageBuild, BuildContext, SequenceTheorems, TLAPS

(* The initial states satisfy the invariant.                                *)
LEMMA BuildsStart == Init => IInv
<1> SUFFICES ASSUME Init PROVE IInv
  OBVIOUS
<1> USE BoundsAssumption DEF Init, Store!SInit
<1>1. TypeOK
  BY DEF TypeOK, PcSet, None
<1>2. NothingLeftOver /\ BuildSteps
  BY DEF NothingLeftOver, BuildSteps, Loops
<1>3. Undisturbed
  BY DEF Undisturbed, Needed, Loops
<1> QED BY <1>1, <1>2, <1>3 DEF IInv, BuildInv

(* A build that fails leaves nothing; it does so only when something was     *)
(* disturbed.                                                               *)
LEMMA FailKeeps ==
    ASSUME IInv, NEW b \in Builds, pc[b] # "idle", Fail(b),
           stored' \subseteq Digests, acked' \subseteq Digests, lost' \subseteq Digests,
           UNCHANGED <<remote, losses>>, faults' \in 0..MaxFaults, ~(faults' = 0 /\ losses' = 0)
    PROVE  IInv'
<1> USE DEF IInv, BuildInv, Fail
<1>1. TypeOK'
  BY DEF TypeOK, PcSet, None
<1>2. NothingLeftOver'
  BY DEF NothingLeftOver, TypeOK, BuildSteps, Loops, PcSet
<1>3. BuildSteps'
  BY DEF BuildSteps, TypeOK, Loops, PcSet, Needed
<1>4. Undisturbed'
  BY DEF Undisturbed
<1> QED BY <1>1, <1>2, <1>3, <1>4

(* A build begins, and breaks off.                                          *)
LEMMA BeginKeeps ==
    ASSUME IInv, NEW b \in Builds, Begin(b)
    PROVE  IInv'
<1> USE BoundsAssumption DEF IInv, BuildInv, cache, build, Begin, Goto
<1>1. TypeOK'
  BY NeedsAssumption DEF TypeOK, PcSet, None
<1>2. NothingLeftOver'
  BY DEF NothingLeftOver, TypeOK, BuildSteps, Loops, PcSet
<1>3. BuildSteps'
  BY DEF BuildSteps, TypeOK, Loops, PcSet, Needed
<1>4. Undisturbed'
  BY NeedsAssumption DEF Undisturbed, Accounted, BuildSteps, TypeOK, Loops, Needed
<1> QED BY <1>1, <1>2, <1>3, <1>4

(* A step that fails ends its build.                                        *)
LEMMA BreakKeeps ==
    ASSUME IInv, NEW b \in Builds, Break(b)
    PROVE  IInv'
<1> USE BoundsAssumption DEF IInv, BuildInv, cache, build, Break, Fail
<1>1. TypeOK'
  BY NeedsAssumption DEF TypeOK, PcSet, None
<1>2. NothingLeftOver'
  BY DEF NothingLeftOver, TypeOK, BuildSteps, Loops, PcSet
<1>3. BuildSteps'
  BY DEF BuildSteps, TypeOK, Loops, PcSet, Needed
<1>4. Undisturbed'
  BY NeedsAssumption DEF Undisturbed, Accounted, BuildSteps, TypeOK, Loops, Needed
<1> QED BY <1>1, <1>2, <1>3, <1>4

(* What the backend builds.                                                 *)
LEMMA InfoKeeps ==
    ASSUME IInv, NEW b \in Builds, Info(b)
    PROVE  IInv'
<1> USE BoundsAssumption DEF IInv, BuildInv, cache, build, Info, Goto
<1>1. TypeOK'
  BY NeedsAssumption DEF TypeOK, PcSet, None
<1>2. NothingLeftOver'
  BY DEF NothingLeftOver, TypeOK, BuildSteps, Loops, PcSet
<1>3. BuildSteps'
  BY DEF BuildSteps, TypeOK, Loops, PcSet, Needed
<1>4. Undisturbed'
  BY NeedsAssumption DEF Undisturbed, Accounted, BuildSteps, TypeOK, Loops, Needed
<1> QED BY <1>1, <1>2, <1>3, <1>4

(* An image is built at the backend, with its blobs.                        *)
LEMMA BuildPackKeeps ==
    ASSUME IInv, NEW b \in Builds, BuildPack(b)
    PROVE  IInv'
<1> USE BoundsAssumption DEF IInv, BuildInv, cache, build, BuildPack, Goto
<1>1. TypeOK'
  BY NeedsAssumption DEF TypeOK, PcSet, None
<1>2. NothingLeftOver'
  BY DEF NothingLeftOver, TypeOK, BuildSteps, Loops, PcSet
<1>3. BuildSteps'
  BY DEF BuildSteps, TypeOK, Loops, PcSet, Needed
<1>4. Undisturbed'
  BY NeedsAssumption DEF Undisturbed, Accounted, BuildSteps, TypeOK, Loops, Needed
<1> QED BY <1>1, <1>2, <1>3, <1>4

(* The images are listed when all are built.                                *)
LEMMA PackImagesManifestKeeps ==
    ASSUME IInv, NEW b \in Builds, PackImagesManifest(b)
    PROVE  IInv'
<1> USE BoundsAssumption DEF IInv, BuildInv, cache
<1>1. CASE Fail(b)
  <2>1. ~(faults' = 0 /\ losses' = 0)
    <3> SUFFICES ASSUME faults' = 0, losses' = 0 PROVE FALSE
      OBVIOUS
    <3>0. faults = 0 /\ losses = 0
      BY DEF PackImagesManifest, TypeOK
    <3>1. built[b] = Entries /\ Entries # {}
      BY <3>0 DEF PackImagesManifest, BuildSteps
    <3>2. Needed(b) # {}
      BY <3>1, NeedsAssumption DEF Needed
    <3> QED BY <1>1, <3>0, <3>2 DEF PackImagesManifest, Fail, Visit, Goto, TypeOK
  <2>2. /\ pc[b] # "idle" /\ UNCHANGED <<remote, losses>> /\ faults' \in 0..MaxFaults
        /\ stored' \subseteq Digests /\ acked' \subseteq Digests /\ lost' \subseteq Digests
    BY <1>1 DEF PackImagesManifest, Listings, TypeOK, None
  <2> QED BY <1>1, <2>1, <2>2, FailKeeps
<1>2. CASE ~Fail(b)
  <2> USE <1>2 DEF build, PackImagesManifest, Listings, Visit, Goto
  <2>0. PICK blobs \in Listings(b) :
          /\ blobs = Needed(b) \/ faults < MaxFaults
          /\ faults' = IF blobs = Needed(b) THEN faults ELSE faults + 1
          /\ Visit(b, "has", blobs) /\ listed' = [listed EXCEPT ![b] = blobs]
          /\ UNCHANGED <<built, missing, download, files, work>>
    BY <1>2
  <2>00. Needed(b) \subseteq Digests /\ blobs \subseteq Needed(b)
    BY NeedsAssumption DEF Needed, TypeOK
  <2>1. TypeOK'
    <3>1. faults' \in 0..MaxFaults
      BY <2>0 DEF TypeOK
    <3>2. pc' \in [Builds -> PcSet] /\ {listed', rest'} \subseteq [Builds -> SUBSET Digests]
      BY <2>0, <2>00 DEF TypeOK, PcSet
    <3>3. \A c \in Builds : download'[c] # None <=> pc'[c] = "put"
      BY <2>0 DEF TypeOK
    <3> QED BY <2>0, <3>1, <3>2, <3>3 DEF TypeOK
  <2>2. NothingLeftOver'
    BY DEF NothingLeftOver, TypeOK, BuildSteps, Loops, PcSet
  <2>3. BuildSteps'
    BY DEF BuildSteps, TypeOK, Loops, PcSet, Needed
  <2>4. Undisturbed'
    <3> SUFFICES ASSUME faults' = 0, losses' = 0 PROVE Undisturbed'
      BY DEF Undisturbed
    <3>1. faults = 0 /\ losses = 0 /\ blobs = Needed(b)
      BY <2>0 DEF TypeOK
    <3>2. /\ listed' = [listed EXCEPT ![b] = blobs] /\ rest' = [rest EXCEPT ![b] = blobs]
          /\ pc' = [pc EXCEPT ![b] = "has"] /\ UNCHANGED <<ret, built, missing, download, files>>
      BY <2>0
    <3>3. \A c \in Builds : Needed(c)' = Needed(c)
      BY <3>2 DEF Needed
    <3>4. /\ listed'[b] = blobs /\ rest'[b] = blobs /\ pc'[b] = "has"
          /\ \A c \in Builds \ {b} : listed'[c] = listed[c] /\ rest'[c] = rest[c] /\ pc'[c] = pc[c]
      BY <3>2 DEF TypeOK
    <3>5. /\ lost = {}
          /\ \A c \in Builds : /\ ret[c] # "failed" /\ Needed(c) \subseteq remote
                               /\ pc[c] \in Loops => Accounted(c)
      BY <3>1 DEF Undisturbed
    <3>6. missing'[b] = {}
      BY <3>2 DEF BuildSteps, Loops
    <3>7. ASSUME NEW c \in Builds, pc'[c] \in Loops PROVE Accounted(c)'
      <4>1. CASE c = b
        BY <3>1, <3>3, <3>4, <3>6, <4>1 DEF Accounted
      <4>2. CASE c # b
        <5>1. Accounted(c)
          BY <3>5, <3>7, <3>4, <4>2
        <5>2. UNCHANGED <<stored, missing, download, files>>
          BY <3>2
        <5> QED BY <3>3, <3>4, <4>2, <5>1, <5>2 DEF Accounted
      <4> QED BY <4>1, <4>2
    <3> QED BY <3>2, <3>3, <3>5, <3>7 DEF Undisturbed
  <2> QED BY <2>1, <2>2, <2>3, <2>4
<1> QED BY <1>1, <1>2

(* The blobs of the list: looked for, fetched, cached and copied.           *)
LEMMA HasKeeps ==
    ASSUME IInv, NEW b \in Builds, Has(b)
    PROVE  IInv'
<1> USE BoundsAssumption DEF IInv, BuildInv, cache, build, Has, Visit, Goto, Store!Confirm
<1>1. TypeOK'
  BY NeedsAssumption DEF TypeOK, PcSet, None
<1>2. NothingLeftOver'
  BY DEF NothingLeftOver, TypeOK, BuildSteps, Loops, PcSet
<1>3. BuildSteps'
  BY DEF BuildSteps, TypeOK, Loops, PcSet, Needed
<1>4. Undisturbed'
  <2> SUFFICES ASSUME faults = 0, losses = 0 PROVE Undisturbed'
    BY DEF Undisturbed
  <2>1. /\ lost = {} /\ Accounted(b)
        /\ \A c \in Builds : /\ ret[c] # "failed" /\ Needed(c) \subseteq remote
                             /\ pc[c] \in Loops => Accounted(c)
    BY DEF Undisturbed, Loops
  <2>2. PICK d \in rest[b] :
          /\ (d \in stored /\ UNCHANGED missing) \/ missing' = [missing EXCEPT ![b] = @ \union {d}]
          /\ \/ pc' = [pc EXCEPT ![b] = "has"] /\ rest' = [rest EXCEPT ![b] = rest[b] \ {d}]
             \/ rest[b] = {d} /\ pc' = [pc EXCEPT ![b] = "blobCheck"] /\ rest' = [rest EXCEPT ![b] = missing'[b]]
             \/ /\ rest[b] = {d} /\ missing'[b] = {} /\ pc' = [pc EXCEPT ![b] = "copyTo"]
                /\ rest' = [rest EXCEPT ![b] = listed[b]]
    BY <2>1
  <2>3. stored' = stored /\ lost' = lost /\ UNCHANGED <<ret, remote, built, listed, download, files>>
    OBVIOUS
  <2>4. ASSUME NEW c \in Builds, pc'[c] \in Loops PROVE Accounted(c)'
    <3>1. CASE c = b
      <4>1. /\ listed'[b] = Needed(b)' /\ listed[b] = listed'[b]
            /\ missing'[b] \subseteq listed[b] /\ d \in listed[b]
            /\ listed[b] \subseteq stored \union (rest[b] \ {d}) \union missing'[b]
        BY <2>1, <2>2, <2>3 DEF Accounted, Needed, TypeOK
      <4>2. CASE pc'[b] = "has" /\ rest'[b] = rest[b] \ {d}
        BY <2>1, <2>3, <3>1, <4>1, <4>2 DEF Accounted
      <4>3. CASE pc'[b] = "blobCheck" /\ rest[b] = {d}
        BY <2>3, <3>1, <4>1, <4>3 DEF Accounted
      <4>4. CASE pc'[b] = "copyTo" /\ rest[b] = {d} /\ missing'[b] = {} /\ rest'[b] = listed[b]
        BY <2>3, <3>1, <4>1, <4>4 DEF Accounted
      <4> QED BY <2>2, <4>2, <4>3, <4>4 DEF TypeOK
    <3>2. CASE c # b
      <4>1. pc'[c] = pc[c] /\ rest'[c] = rest[c] /\ missing'[c] = missing[c]
        BY <2>2, <3>2 DEF TypeOK
      <4>2. Accounted(c)
        BY <2>1, <2>4, <4>1
      <4>3. Needed(c)' = Needed(c)
        BY <2>3 DEF Needed
      <4> QED BY <2>3, <4>1, <4>2, <4>3 DEF Accounted
    <3> QED BY <3>1, <3>2
  <2> QED BY <2>1, <2>3, <2>4 DEF Undisturbed, Needed
<1> QED BY <1>1, <1>2, <1>3, <1>4

(* What the cache lacks is looked for at the backend.                       *)
LEMMA BlobCheckKeeps ==
    ASSUME IInv, NEW b \in Builds, BlobCheck(b)
    PROVE  IInv'
<1> USE BoundsAssumption DEF IInv, BuildInv, cache
<1>1. CASE Fail(b)
  <2>1. ~(faults' = 0 /\ losses' = 0)
    <3> SUFFICES ASSUME faults' = 0, losses' = 0 PROVE FALSE
      OBVIOUS
    <3>0. faults = 0 /\ losses = 0
      BY DEF BlobCheck, TypeOK
    <3>1. missing[b] \subseteq remote
      BY <3>0 DEF BlobCheck, Undisturbed, Accounted, Loops
    <3> QED BY <1>1, <3>0, <3>1 DEF BlobCheck, Fail, Visit, Goto, TypeOK
  <2>2. /\ pc[b] # "idle" /\ UNCHANGED <<remote, losses>> /\ faults' \in 0..MaxFaults
        /\ stored' \subseteq Digests /\ acked' \subseteq Digests /\ lost' \subseteq Digests
    BY <1>1 DEF BlobCheck, TypeOK, None
  <2> QED BY <1>1, <2>1, <2>2, FailKeeps
<1>2. CASE ~Fail(b)
  <2> USE <1>2 DEF build, BlobCheck, Visit, Goto
  <2>1. TypeOK'
    BY NeedsAssumption DEF TypeOK, PcSet, None
  <2>2. NothingLeftOver'
    BY DEF NothingLeftOver, TypeOK, BuildSteps, Loops, PcSet
  <2>3. BuildSteps'
    BY DEF BuildSteps, TypeOK, Loops, PcSet, Needed
  <2>4. Undisturbed'
    BY NeedsAssumption DEF Undisturbed, Accounted, BuildSteps, TypeOK, Loops, Needed
  <2> QED BY <2>1, <2>2, <2>3, <2>4
<1> QED BY <1>1, <1>2

(* A download is of a blob the cache lacked.                                *)
LEMMA BlobGetKeeps ==
    ASSUME IInv, NEW b \in Builds, BlobGet(b)
    PROVE  IInv'
<1> USE BoundsAssumption DEF IInv, BuildInv, cache
<1>1. CASE Fail(b)
  <2>1. ~(faults' = 0 /\ losses' = 0)
    <3> SUFFICES ASSUME faults' = 0, losses' = 0 PROVE FALSE
      OBVIOUS
    <3>0. faults = 0 /\ losses = 0
      BY DEF BlobGet, TypeOK
    <3>1. rest[b] \subseteq remote
      BY <3>0 DEF BlobGet, Undisturbed, Accounted, Loops
    <3> QED BY <1>1, <3>0, <3>1 DEF BlobGet, Fail, Visit, Goto, TypeOK
  <2>2. /\ pc[b] # "idle" /\ UNCHANGED <<remote, losses>> /\ faults' \in 0..MaxFaults
        /\ stored' \subseteq Digests /\ acked' \subseteq Digests /\ lost' \subseteq Digests
    BY <1>1 DEF BlobGet, TypeOK, None
  <2> QED BY <1>1, <2>1, <2>2, FailKeeps
<1>2. CASE ~Fail(b)
  <2> USE <1>2 DEF build, BlobGet, Visit, Goto
  <2>1. TypeOK'
    <3>1. PICK d \in rest[b] :
            /\ Visit(b, "put", rest[b] \ {d})
            /\ \E bytes \in {"right", "wrong"} : download' = [download EXCEPT ![b] = <<d, bytes>>]
            /\ UNCHANGED <<built, listed, missing, files, work>>
      BY <1>2
    <3>2. faults' = faults \/ (faults < MaxFaults /\ faults' = faults + 1)
      BY <1>2
    <3>3. faults' \in 0..MaxFaults
      BY <3>2 DEF TypeOK
    <3>4. d \in Digests
      BY <3>1 DEF TypeOK
    <3>5. /\ download' \in [Builds -> (Digests \X {"right", "wrong"}) \union {None}]
          /\ \A c \in Builds : download'[c] # None <=> pc'[c] = "put"
      BY <3>1, <3>4 DEF TypeOK, None
    <3>6. pc' \in [Builds -> PcSet] /\ rest' \in [Builds -> SUBSET Digests]
      BY <3>1 DEF TypeOK, PcSet
    <3> QED BY <3>1, <3>3, <3>5, <3>6 DEF TypeOK
  <2>2. NothingLeftOver'
    BY DEF NothingLeftOver, TypeOK, BuildSteps, Loops, PcSet
  <2>3. BuildSteps'
    BY DEF BuildSteps, TypeOK, Loops, PcSet, Needed
  <2>4. Undisturbed'
    BY NeedsAssumption DEF Undisturbed, Accounted, BuildSteps, TypeOK, Loops, Needed
  <2> QED BY <2>1, <2>2, <2>3, <2>4
<1> QED BY <1>1, <1>2

(* The cache takes a download only under its own digest.                    *)
LEMMA PutKeeps ==
    ASSUME IInv, NEW b \in Builds, Put(b)
    PROVE  IInv'
<1> USE BoundsAssumption DEF IInv, BuildInv, cache
<1>1. CASE Fail(b)
  <2>1. ~(faults' = 0 /\ losses' = 0)
    <3> SUFFICES ASSUME faults' = 0, losses' = 0 PROVE FALSE
      OBVIOUS
    <3>0. faults = 0 /\ losses = 0
      BY DEF Put, TypeOK
    <3>1. download[b][2] = "right"
      BY <3>0 DEF Put, Undisturbed, Accounted, Loops
    <3>2. \A place, digests : Visit(b, place, digests) => place = "idle"
      BY <1>1 DEF Fail, Visit, Goto, TypeOK
    <3> QED BY <3>0, <3>1, <3>2 DEF Put, TypeOK
  <2>2. /\ pc[b] # "idle" /\ UNCHANGED <<remote, losses>> /\ faults' \in 0..MaxFaults
        /\ stored' \subseteq Digests /\ acked' \subseteq Digests /\ lost' \subseteq Digests
    BY <1>1 DEF Put, Store!Add, TypeOK, None
  <2> QED BY <1>1, <2>1, <2>2, FailKeeps
<1>2. CASE ~Fail(b)
  <2> USE <1>2 DEF build, Put, Visit, Goto, Store!Add
  <2>1. TypeOK'
    BY NeedsAssumption DEF TypeOK, PcSet, None
  <2>2. NothingLeftOver'
    BY DEF NothingLeftOver, TypeOK, BuildSteps, Loops, PcSet
  <2>3. BuildSteps'
    BY DEF BuildSteps, TypeOK, Loops, PcSet, Needed
  <2>4. Undisturbed'
    BY NeedsAssumption DEF Undisturbed, Accounted, BuildSteps, TypeOK, Loops, Needed
  <2> QED BY <2>1, <2>2, <2>3, <2>4
<1> QED BY <1>1, <1>2

(* A blob of the list goes from the cache into the artifact.                *)
LEMMA CopyToKeeps ==
    ASSUME IInv, NEW b \in Builds, CopyTo(b)
    PROVE  IInv'
<1> USE BoundsAssumption DEF IInv, BuildInv, cache
<1>1. CASE Fail(b)
  <2>1. ~(faults' = 0 /\ losses' = 0)
    <3> SUFFICES ASSUME faults' = 0, losses' = 0 PROVE FALSE
      OBVIOUS
    <3>0. faults = 0 /\ losses = 0
      BY DEF CopyTo, TypeOK
    <3>1. rest[b] \subseteq stored
      BY <3>0 DEF CopyTo, Undisturbed, Accounted, Loops
    <3> QED BY <1>1, <3>0, <3>1 DEF CopyTo, Fail, Visit, Goto, TypeOK
  <2>2. /\ pc[b] # "idle" /\ UNCHANGED <<remote, losses>> /\ faults' \in 0..MaxFaults
        /\ stored' \subseteq Digests /\ acked' \subseteq Digests /\ lost' \subseteq Digests
    BY <1>1 DEF CopyTo, TypeOK, None
  <2> QED BY <1>1, <2>1, <2>2, FailKeeps
<1>2. CASE ~Fail(b)
  <2> USE <1>2 DEF build, CopyTo, Visit, Goto
  <2>1. TypeOK'
    BY NeedsAssumption DEF TypeOK, PcSet, None
  <2>2. NothingLeftOver'
    BY DEF NothingLeftOver, TypeOK, BuildSteps, Loops, PcSet
  <2>3. BuildSteps'
    BY DEF BuildSteps, TypeOK, Loops, PcSet, Needed
  <2>4. Undisturbed'
    BY NeedsAssumption DEF Undisturbed, Accounted, BuildSteps, TypeOK, Loops, Needed
  <2> QED BY <2>1, <2>2, <2>3, <2>4
<1> QED BY <1>1, <1>2

(* The artifact is validated, and closed.                                   *)
LEMMA ValidateKeeps ==
    ASSUME IInv, NEW b \in Builds, Validate(b)
    PROVE  IInv'
<1> USE BoundsAssumption DEF IInv, BuildInv, cache
<1>1. CASE Fail(b)
  <2>1. ~(faults' = 0 /\ losses' = 0)
    <3> SUFFICES ASSUME faults' = 0, losses' = 0 PROVE FALSE
      OBVIOUS
    <3>0. faults = 0 /\ losses = 0
      BY DEF Validate, TypeOK
    <3>1. Valid(b)
      BY <3>0 DEF Validate, Valid, Undisturbed, Accounted, Loops
    <3> QED BY <1>1, <3>0, <3>1 DEF Validate, Fail, TypeOK
  <2>2. /\ pc[b] # "idle" /\ UNCHANGED <<remote, losses>> /\ faults' \in 0..MaxFaults
        /\ stored' \subseteq Digests /\ acked' \subseteq Digests /\ lost' \subseteq Digests
    BY <1>1 DEF Validate, TypeOK, None
  <2> QED BY <1>1, <2>1, <2>2, FailKeeps
<1>2. CASE ~Fail(b)
  <2> USE <1>2 DEF build, Validate, Valid
  <2>1. TypeOK'
    BY NeedsAssumption DEF TypeOK, PcSet, None
  <2>2. NothingLeftOver'
    BY DEF NothingLeftOver, TypeOK, BuildSteps, Loops, PcSet
  <2>3. BuildSteps'
    BY DEF BuildSteps, TypeOK, Loops, PcSet, Needed
  <2>4. Undisturbed'
    BY NeedsAssumption DEF Undisturbed, Accounted, BuildSteps, TypeOK, Loops, Needed
  <2> QED BY <2>1, <2>2, <2>3, <2>4
<1> QED BY <1>1, <1>2

(* Close removes the work directory and nothing that is shared.             *)
LEMMA CloseKeeps ==
    ASSUME IInv, NEW b \in Builds, Close(b)
    PROVE  IInv'
<1> USE BoundsAssumption DEF IInv, BuildInv, cache, build, Close
<1>1. TypeOK'
  BY NeedsAssumption DEF TypeOK, PcSet, None
<1>2. NothingLeftOver'
  BY DEF NothingLeftOver, TypeOK, BuildSteps, Loops, PcSet
<1>3. BuildSteps'
  BY DEF BuildSteps, TypeOK, Loops, PcSet, Needed
<1>4. Undisturbed'
  BY NeedsAssumption DEF Undisturbed, Accounted, BuildSteps, TypeOK, Loops, Needed
<1> QED BY <1>1, <1>2, <1>3, <1>4

(* The cache or the backend loses a blob: from then on builds may fail.     *)
LEMMA LoseBlobKeeps ==
    ASSUME IInv, LoseBlob
    PROVE  IInv'
<1> USE BoundsAssumption DEF IInv, BuildInv, cache, build, LoseBlob, Store!Lose
<1>1. TypeOK'
  BY NeedsAssumption DEF TypeOK, PcSet, None
<1>2. NothingLeftOver'
  BY DEF NothingLeftOver, TypeOK, BuildSteps, Loops, PcSet
<1>3. BuildSteps'
  BY DEF BuildSteps, TypeOK, Loops, PcSet, Needed
<1>4. Undisturbed'
  BY NeedsAssumption DEF Undisturbed, Accounted, BuildSteps, TypeOK, Loops, Needed
<1> QED BY <1>1, <1>2, <1>3, <1>4

(* Every step keeps the invariant.                                          *)
LEMMA NextKeeps ==
    ASSUME IInv, [Next]_vars
    PROVE  IInv'
<1>1. CASE UNCHANGED vars
  BY <1>1 DEF vars, cache, build, IInv, BuildInv, TypeOK, NothingLeftOver, BuildSteps, Undisturbed, Accounted,
              Needed
<1>2. ASSUME NEW b \in Builds, Begin(b) \/ Break(b) \/ Close(b) PROVE IInv'
  BY <1>2, BeginKeeps, BreakKeeps, CloseKeeps
<1>3. ASSUME NEW b \in Builds, Work(b) PROVE IInv'
  BY <1>3, InfoKeeps, BuildPackKeeps, PackImagesManifestKeeps, HasKeeps, BlobCheckKeeps, BlobGetKeeps, PutKeeps,
     CopyToKeeps, ValidateKeeps DEF Work
<1> QED BY <1>1, <1>2, <1>3, LoseBlobKeeps DEF Next

(* In every behaviour of builds that share the cache and the backend.       *)
THEOREM BuildInvariance == Spec => []IInv
BY BuildsStart, NextKeeps, PTL DEF Spec

(* Builder.Build leaves no work directory but that of an artifact.          *)
THEOREM BuildsLeaveNothing == Spec => []BuildInv
<1>1. IInv => BuildInv
  BY DEF IInv
<1> QED BY <1>1, BuildInvariance, PTL

(* The artifact of a build that succeeds has every blob of every entry.     *)
LEMMA SucceedsWhole == IInv => ArtifactWhole
BY DEF IInv, BuildSteps, ArtifactWhole, Needed

(* Builder.Build succeeds only with every blob the images' layouts need.    *)
THEOREM ArtifactIsWhole == Spec => []ArtifactWhole
BY SucceedsWhole, BuildInvariance, PTL

(* Builds fail only for a fault or a loss: not for what another build does   *)
(* to the cache and the backend they share.                                 *)
THEOREM BuildsDoNotInterfere == Spec => []NoInterference
<1>1. IInv => NoInterference
  BY DEF IInv, Undisturbed, NoInterference
<1> QED BY <1>1, BuildInvariance, PTL

-----------------------------------------------------------------------------
(* The context                                                              *)

(* The beginnings of a path.                                                *)
LEMMA Beginnings ==
    ASSUME NEW p \in Seq(STRING), NEW n \in 0..Len(p)
    PROVE  /\ SubSeq(p, 1, n) \in Seq(STRING) /\ Len(SubSeq(p, 1, n)) = n
           /\ \A i \in 1..n : SubSeq(p, 1, n)[i] = p[i]
<1>1. 1 \in Int /\ n \in Int /\ (IF 1 <= n THEN n - 1 + 1 ELSE 0) = n /\ n - 1 + 1 = n
  OBVIOUS
<1>2. \A i \in 1..n : p[i] \in STRING
  OBVIOUS
<1>3. /\ SubSeq(p, 1, n) \in Seq(STRING)
      /\ Len(SubSeq(p, 1, n)) = IF 1 <= n THEN n - 1 + 1 ELSE 0
      /\ \A i \in 1..n - 1 + 1 : SubSeq(p, 1, n)[i] = p[1 + i - 1]
  BY <1>1, <1>2, SubSeqProperties
<1>4. \A i \in 1..n : 1 + i - 1 = i
  OBVIOUS
<1> QED BY <1>1, <1>3, <1>4

(* A path above another is a beginning of it.                               *)
LEMMA UnderIsPrefix ==
    ASSUME NEW p \in Seq(STRING), NEW q \in Seq(STRING), Under(p, q)
    PROVE  Len(p) \in 0..Len(q) /\ p = SubSeq(q, 1, Len(p))
<1>1. Len(p) \in Nat /\ Len(q) \in Nat /\ Len(p) <= Len(q)
  BY DEF Under
<1>2. /\ SubSeq(q, 1, Len(p)) \in Seq(STRING) /\ Len(SubSeq(q, 1, Len(p))) = Len(p)
      /\ \A i \in 1..Len(p) : SubSeq(q, 1, Len(p))[i] = q[i]
  BY <1>1, Beginnings
<1>3. \A i \in 1..Len(p) : p[i] = SubSeq(q, 1, Len(p))[i]
  BY <1>2 DEF Under
<1> QED BY <1>1, <1>2, <1>3

(* Two paths as long, one above the other, are the same.                    *)
LEMMA UnderAsLong ==
    ASSUME NEW p \in Seq(STRING), NEW q \in Seq(STRING), Under(p, q), Len(p) = Len(q)
    PROVE  p = q
<1>1. Len(p) \in Nat /\ \A i \in 1..Len(p) : p[i] = q[i]
  BY DEF Under
<1> QED BY <1>1

(* What is above what is above.                                             *)
LEMMA UnderTransitive ==
    ASSUME NEW p \in Seq(STRING), NEW q \in Seq(STRING), NEW r \in Seq(STRING), Under(p, q), Under(q, r)
    PROVE  Under(p, r)
BY DEF Under

(* A path lies below its parent, and what is above one of the two but not    *)
(* the path itself is above the other.                                      *)
LEMMA UnderParent ==
    ASSUME NEW p \in Seq(STRING), p # <<>>
    PROVE  /\ Parent(p) \in Seq(STRING) /\ Len(Parent(p)) = Len(p) - 1
           /\ Under(Parent(p), p)
           /\ \A q \in Seq(STRING) : Under(q, p) => q = p \/ Under(q, Parent(p))
           /\ \A q \in Seq(STRING) : Under(q, Parent(p)) => Under(q, p)
<1>0. \A s \in Seq(STRING) : s # <<>> => Len(s) \in Nat \ {0}
  BY EmptySeq
<1>1. Len(p) \in Nat /\ Len(p) # 0
  BY <1>0
<1>2. /\ Parent(p) \in Seq(STRING) /\ Len(Parent(p)) = Len(p) - 1
      /\ \A i \in 1..Len(p)-1 : Parent(p)[i] = p[i]
  <2>1. Len(p) - 1 \in 0..Len(p)
    BY <1>1
  <2> QED BY <2>1, Beginnings DEF Parent
<1>3. \A q \in Seq(STRING) : Under(q, p) => q = p \/ Under(q, Parent(p))
  <2> SUFFICES ASSUME NEW q \in Seq(STRING), Under(q, p), q # p PROVE Under(q, Parent(p))
    OBVIOUS
  <2>1. Len(q) \in Nat /\ Len(q) <= Len(p)
    BY DEF Under
  <2>2. Len(q) # Len(p)
    BY DEF Under
  <2> QED BY <1>1, <1>2, <2>1, <2>2 DEF Under
<1>4. Under(Parent(p), p) /\ \A q \in Seq(STRING) : Under(q, Parent(p)) => Under(q, p)
  BY <1>1, <1>2 DEF Under
<1> QED BY <1>2, <1>3, <1>4

(* What is in a tree lies in directories.                                   *)
LEMMA InDirectories ==
    ASSUME NEW t, IsTree(t), NEW p \in DOMAIN t, NEW d \in Seq(STRING), Under(d, p), d # p
    PROVE  IsDirectory(t, d)
<1>1. p \in Seq(STRING)
  BY PathsAssumption DEF IsTree
<1>2. Len(d) \in 0..Len(p) /\ d = SubSeq(p, 1, Len(d)) /\ p = SubSeq(p, 1, Len(p))
  BY <1>1, UnderIsPrefix
<1>3. Len(d) \in 0..Len(p)-1
  BY <1>1, <1>2
<1> QED BY <1>2, <1>3 DEF IsTree

(* While nobody edits what decides, a path that nobody touched is selected   *)
(* exactly when it is wanted.                                               *)
LEMMA SelectsWanted ==
    ASSUME ContextTypes, UntouchedStays, SelectionKnown, at = "walk", Settled,
           NEW p \in Paths \ touched, p \in DOMAIN tree, p # <<>>, ~Under(Cache, p)
    PROVE  Selects(p, IsDirectory(tree, p)) <=> Wanted(p)
<1> DEFINE dir == IsDirectory(tree, p)
<1>1. /\ dir = IsDirectory(entry.tree, p) /\ p \in DOMAIN entry.tree
      /\ IsTree(entry.tree) /\ p \in Seq(STRING) /\ text \in Data
  BY ContextsAssumption, PathsAssumption
  DEF UntouchedStays, ContextTypes, Normalized, IsDirectory, Steps
<1>2. rules = RulesOf(entry.tree)
  BY DEF SelectionKnown, Settled
<1>3. ASSUME NEW sel \in selectors
      PROVE  Matches(sel, p, dir) <=> Named(sel.path, p, dir)
  <2> DEFINE s == sel.path
  <2>1. s \in Sources(text) /\ s \in Seq(STRING) /\ sel.below = IsDirectory(entry.tree, s)
    BY <1>1, SourcesAssumption DEF SelectionKnown, Settled
  <2>2. s = <<>> => ~IsGlob(s) /\ Under(s, p)
    BY <1>1 DEF IsGlob, Under
  <2>3. Under(s, p) /\ s # p => IsDirectory(entry.tree, s)
    BY <1>1, <2>1, InDirectories
  <2>4. Under(p, p)
    BY <1>1 DEF Under
  <2> QED BY <2>1, <2>2, <2>3, <2>4 DEF Matches, Named
<1>4. (\E sel \in selectors : Matches(sel, p, dir)) <=> \E s \in Sources(text) : Named(s, p, dir)
  BY <1>3 DEF SelectionKnown
<1> QED BY <1>1, <1>2, <1>4 DEF Selects, Wanted

-----------------------------------------------------------------------------
(* A call that fails has removed its file.                                  *)
LEMMA FailContextKeeps ==
    ASSUME ContextIInv, FailContext, UNCHANGED <<entry, tree, touched>>
    PROVE  ContextIInv'
<1> USE DEF ContextIInv, FailContext
<1>1. ContextTypes'
  BY DEF ContextTypes, Steps
<1>2. UntouchedStays'
  BY DEF UntouchedStays
<1>3. SelectionKnown' /\ WalkComplete'
  BY DEF SelectionKnown, WalkComplete
<1>4. TarSoFar'
  BY DEF TarSoFar
<1> QED BY <1>1, <1>2, <1>3, <1>4

(* The steps before the walk.                                               *)
LEMMA PreparationKeeps ==
    ASSUME ContextIInv, ReadDockerfile \/ SelectSources \/ ReadDockerignore
    PROVE  ContextIInv'
<1>1. CASE FailContext
  BY <1>1, FailContextKeeps DEF ReadDockerfile, SelectSources, ReadDockerignore
<1> SUFFICES ASSUME ~FailContext PROVE ContextIInv'
  BY <1>1
<1> USE DEF ContextIInv
<1>2. CASE ReadDockerfile
  <2>1. /\ at = "start" /\ at' = "sources" /\ text' \in Data
        /\ UNCHANGED <<entry, tree, touched, selectors, rules, toList, pending>>
    BY <1>2, ContextsAssumption DEF ReadDockerfile, ContextTypes, Normalized, IsTree, IsFile, IsNode
  <2>2. ContextTypes' /\ UntouchedStays'
    BY <2>1 DEF ContextTypes, UntouchedStays, Steps
  <2>3. SelectionKnown' /\ WalkComplete' /\ TarSoFar'
    BY <2>1 DEF SelectionKnown, WalkComplete, TarSoFar
  <2> QED BY <2>2, <2>3
<1>3. CASE SelectSources
  <2>1. /\ at = "sources" /\ at' = "ignore" /\ selectors' = {Selector(tree, s) : s \in Sources(text)}
        /\ UNCHANGED <<entry, tree, touched, text, rules, toList, pending>>
    BY <1>3 DEF SelectSources
  <2>2. ContextTypes' /\ UntouchedStays'
    BY <2>1 DEF ContextTypes, UntouchedStays, Steps
  <2>3. SelectionKnown'
    <3>1. \A s : s \notin touched => IsDirectory(tree, s) = IsDirectory(entry.tree, s)
      BY ContextsAssumption DEF UntouchedStays, ContextTypes, IsDirectory, IsTree, Normalized
    <3>2. \A s : Selector(tree, s).path = s /\ Selector(tree, s).below = IsDirectory(tree, s)
      BY DEF Selector
    <3>3. \A s \in Sources(text) : \E sel \in selectors' : sel.path = s
      BY <2>1, <3>2
    <3>4. \A sel \in selectors' : \E s \in Sources(text) : sel.path = s /\ sel.below = IsDirectory(tree, s)
      BY <2>1, <3>2
    <3> QED BY <2>1, <3>1, <3>3, <3>4 DEF SelectionKnown
  <2>4. WalkComplete' /\ TarSoFar'
    BY <2>1 DEF WalkComplete, TarSoFar
  <2> QED BY <2>2, <2>3, <2>4
<1>4. CASE ReadDockerignore
  <2>1. /\ at = "ignore" /\ at' = "walk" /\ pending = {}
        /\ rules' = RulesOf(tree)
        /\ toList' = IF entry.linked THEN {} ELSE {<<>>}
        /\ UNCHANGED <<entry, tree, touched, text, selectors, pending>>
    BY <1>4 DEF ReadDockerignore, RulesOf, WalkComplete
  <2>2. ContextTypes' /\ UntouchedStays'
    BY <2>1 DEF ContextTypes, UntouchedStays, Steps
  <2>3. SelectionKnown'
    <3>1. Dockerignore \notin touched => RulesOf(tree) = RulesOf(entry.tree)
      BY ContextsAssumption DEF UntouchedStays, ContextTypes, RulesOf, IsFile, IsTree, Normalized
    <3> QED BY <2>1, <3>1 DEF SelectionKnown
  <2>4. WalkComplete'
    <3>1. <<>> \in Paths /\ ~Under(Cache, <<>>)
      BY DEF ContextTypes, IsTree, IsDirectory, Under, Cache
    <3>2. \A p : Under(<<>>, Parent(p))
      BY DEF Under
    <3> QED BY <2>1, <3>1, <3>2 DEF WalkComplete, AboutToBeFound
  <2>5. TarSoFar'
    BY <2>1 DEF TarSoFar
  <2> QED BY <2>2, <2>3, <2>4, <2>5
<1> QED BY <1>2, <1>3, <1>4

(* One directory more is read: what is wanted below it is selected, or below *)
(* one of its directories.                                                  *)
LEMMA ListKeeps ==
    ASSUME ContextIInv, List
    PROVE  ContextIInv'
<1>1. CASE FailContext
  BY <1>1, FailContextKeeps DEF List
<1> SUFFICES ASSUME ~FailContext PROVE ContextIInv'
  BY <1>1
<1> USE DEF ContextIInv
<1> PICK d \in toList :
      LET children == {p \in DOMAIN tree \ {<<>>, Cache} : Parent(p) = d}
      IN  /\ IsDirectory(tree, d)
          /\ pending' = pending \union {p \in children : Selects(p, IsDirectory(tree, p))}
          /\ toList' = (toList \ {d}) \union {p \in children : Descends(p)}
  BY DEF List
<1> DEFINE children == {p \in DOMAIN tree \ {<<>>, Cache} : Parent(p) = d}
<1>2. at = "walk" /\ UNCHANGED <<at, text, selectors, rules, entry, tree, touched>>
  BY DEF List
<1>3. /\ pending' = pending \union {p \in children : Selects(p, IsDirectory(tree, p))}
      /\ toList' = (toList \ {d}) \union {p \in children : IsDirectory(tree, p)}
  BY DEF Descends
<1>4. d \in Paths /\ d \in Seq(STRING) /\ ~Under(Cache, d) /\ IsTree(tree)
  BY <1>2, PathsAssumption DEF WalkComplete, ContextTypes
<1>40. Cache \in Seq(STRING)
  BY PathsAssumption
<1>5. \A p \in children :
        p \in Paths /\ p \in Seq(STRING) /\ p # <<>> /\ ~Under(Cache, p)
  BY <1>4, <1>40, PathsAssumption, UnderParent DEF IsTree
<1> HIDE DEF children
<1>6. ContextTypes' /\ UntouchedStays'
  BY <1>2, <1>3, <1>5 DEF ContextTypes, UntouchedStays
<1>7. SelectionKnown'
  BY <1>2 DEF SelectionKnown
<1>8. TarSoFar'
  BY <1>2 DEF TarSoFar
<1>9. WalkComplete'
  <2>1. \A q \in toList' : q \in Paths /\ ~Under(Cache, q)
    BY <1>2, <1>3, <1>5 DEF WalkComplete
  <2>2. ASSUME Settled, NEW p \in Paths \ touched, p \in pending'
        PROVE  Wanted(p)
    <3>1. CASE p \in pending
      BY <1>2, <2>2, <3>1 DEF WalkComplete
    <3>2. CASE p \in children /\ Selects(p, IsDirectory(tree, p))
      <4>1. p \in DOMAIN tree
        BY <3>2 DEF children
      <4> QED BY <1>2, <1>5, <2>2, <3>2, <4>1, SelectsWanted
    <3> QED BY <1>3, <2>2, <3>1, <3>2
  <2>3. ASSUME Settled, ~entry.linked, NEW p \in Paths \ touched, Wanted(p)
        PROVE  p \in pending' \/ \E q \in toList' : Under(q, Parent(p))
    <3>0. p \in DOMAIN tree /\ p # <<>> /\ ~Under(Cache, p) /\ p \in Seq(STRING)
      BY <2>3, PathsAssumption DEF Wanted, UntouchedStays
    <3>1. CASE p \in pending
      BY <1>3, <3>1
    <3>2. CASE \E q \in toList \ {d} : Under(q, Parent(p))
      BY <1>3, <3>2
    <3>3. CASE Under(d, Parent(p)) /\ Parent(p) = d
      <4>1. p # Cache
        BY <3>0, <1>4 DEF Under
      <4>2. p \in children
        BY <3>0, <3>3, <4>1 DEF children
      <4>3. Selects(p, IsDirectory(tree, p))
        BY <1>2, <2>3, <3>0, SelectsWanted
      <4> QED BY <1>3, <4>2, <4>3
    <3>4. CASE Under(d, Parent(p)) /\ Parent(p) # d
      <4> DEFINE c == SubSeq(p, 1, Len(d) + 1)
      <4>1. /\ Parent(p) \in Seq(STRING) /\ Len(Parent(p)) = Len(p) - 1
            /\ Len(p) \in Nat /\ Len(d) \in Nat
            /\ Under(Parent(p), p)
        BY <1>4, <3>0, UnderParent
      <4>2. Len(d) < Len(Parent(p))
        <5>1. Len(d) <= Len(Parent(p))
          BY <3>4 DEF Under
        <5>2. Len(d) # Len(Parent(p))
          BY <1>4, <3>4, <4>1, UnderAsLong
        <5> QED BY <4>1, <5>1, <5>2
      <4>3. Len(d) + 1 \in 0..Len(p) /\ Len(d) + 1 \in 0..Len(p)-1
        BY <4>1, <4>2
      <4>4. /\ c \in Seq(STRING) /\ Len(c) = Len(d) + 1
            /\ \A i \in 1..Len(d) + 1 : c[i] = p[i]
        BY <3>0, <4>3, Beginnings
      <4>5. IsDirectory(tree, c)
        BY <1>4, <3>0, <4>3 DEF IsTree
      <4>6. Under(c, Parent(p)) /\ Under(c, p)
        BY <4>1, <4>2, <4>4 DEF Under
      <4> HIDE DEF c
      <4>7. c # <<>> /\ c # Cache
        BY <3>0, <4>1, <4>4, <4>6
      <4>8. Parent(c) = d
        <5>1. /\ Parent(c) \in Seq(STRING) /\ Len(Parent(c)) = Len(d)
              /\ \A i \in 1..Len(d) : Parent(c)[i] = c[i]
          <6>1. Len(c) - 1 = Len(d) /\ Len(d) \in 0..Len(c)
            BY <4>1, <4>4
          <6> QED BY <4>4, <6>1, Beginnings DEF Parent
        <5>2. \A i \in 1..Len(d) : d[i] = p[i]
          BY <3>4, <4>1, <4>2 DEF Under
        <5> QED BY <1>4, <4>1, <4>4, <5>1, <5>2
      <4>9. c \in children
        BY <4>5, <4>7, <4>8 DEF children, IsDirectory
      <4> QED BY <1>3, <4>5, <4>6, <4>9
    <3> QED BY <1>2, <2>3, <3>1, <3>2, <3>3, <3>4 DEF WalkComplete, AboutToBeFound
  <2>4. Settled' = Settled /\ \A p : Wanted(p)' = Wanted(p)
    BY <1>2 DEF Settled, Wanted
  <2> QED BY <1>2, <2>1, <2>2, <2>3, <2>4 DEF WalkComplete, AboutToBeFound
<1> QED BY <1>6, <1>7, <1>8, <1>9

(* The TAR begins with the Dockerfile; what is selected is still to come.   *)
LEMMA CreateKeeps ==
    ASSUME ContextIInv, Create
    PROVE  ContextIInv'
<1>1. CASE FailContext
  BY <1>1, FailContextKeeps DEF Create
<1> SUFFICES ASSUME ~FailContext PROVE ContextIInv'
  BY <1>1
<1> USE DEF ContextIInv
<1>2. /\ at = "walk" /\ toList = {} /\ at' = "write"
      /\ out' = <<InTar(Dockerfile, "file", text)>> /\ pending' = pending \ {Dockerfile}
      /\ UNCHANGED <<text, selectors, rules, toList, entry, tree, touched>>
  BY DEF Create
<1>3. ContextTypes' /\ UntouchedStays' /\ SelectionKnown' /\ WalkComplete'
  BY <1>2 DEF ContextTypes, UntouchedStays, SelectionKnown, WalkComplete, Steps
<1>4. TarSoFar'
  <2>1. /\ out' \in Seq([name : Paths, kind : Kinds, data : Data])
        /\ Len(out') = 1 /\ out'[1] = InTar(Dockerfile, "file", text)
    <3>2. Dockerfile \in Paths /\ "file" \in Kinds /\ text \in Data
      BY <1>2, PathsAssumption DEF ContextTypes, Steps, Kinds
    <3>3. InTar(Dockerfile, "file", text) \in [name : Paths, kind : Kinds, data : Data]
      BY <3>2 DEF InTar
    <3> QED BY <1>2, <3>3
  <2>2. Written' = {} /\ InHeader' = {}
    BY <1>2, <2>1 DEF Written, InHeader
  <2>3. Settled /\ ~entry.linked => \A p \in Paths \ touched : p \in pending <=> Wanted(p)
    BY <1>2 DEF WalkComplete, AboutToBeFound
  <2>4. Settled' = Settled /\ \A p : Wanted(p)' = Wanted(p)
    BY <1>2 DEF Settled, Wanted
  <2> QED BY <1>2, <2>1, <2>2, <2>3, <2>4 DEF TarSoFar
<1> QED BY <1>3, <1>4

(* An entry is added to the TAR: it was the next, and it is as it was if     *)
(* nobody touched it.                                                       *)
LEMMA EntryAdded ==
    ASSUME ContextIInv, at \in {"write", "copy"}, at' = "write", NEW p \in Paths,
           p \in InHeader \union pending, IsFile(tree, p) \/ tree[p].kind \in {"directory", "link"},
           p \in DOMAIN tree,
           \A q \in (InHeader \union pending) \ {p} : Rank[p] < Rank[q],
           pending' = (InHeader \union pending) \ {p},
           out' = Append(out, InTar(p, tree[p].kind, tree[p].data)),
           UNCHANGED <<text, entry, tree, touched>>
    PROVE  TarSoFar'
<1> USE DEF ContextIInv
<1> DEFINE E == [name : Paths, kind : Kinds, data : Data]
           new == InTar(p, tree[p].kind, tree[p].data)
<1>1. new \in E /\ new.name = p
  BY PathsAssumption DEF InTar, ContextTypes, IsTree, IsNode
<1>2. out \in Seq(E) /\ Len(out) \in Nat \ {0}
  BY DEF TarSoFar
<1> HIDE DEF E, new
<1>3. /\ out' \in Seq(E) /\ Len(out') = Len(out) + 1
      /\ \A i \in 1..Len(out) : out'[i] = out[i]
      /\ out'[Len(out) + 1] = new
  BY <1>1, <1>2, AppendProperties DEF new
<1>4. Written' = Written \union {p} /\ InHeader' = {}
  BY <1>1, <1>2, <1>3 DEF Written, InHeader
<1>5. out'[1] = InTar(Dockerfile, "file", text)
  BY <1>2, <1>3 DEF TarSoFar
<1>6. /\ Written' \subseteq Paths /\ Dockerfile \notin Written' \union InHeader' \union pending'
      /\ \A q \in Written', r \in pending' : Rank[q] < Rank[r]
  BY <1>4 DEF TarSoFar
<1>7. \A i, j \in 2..Len(out') : i < j => Rank[out'[i].name] < Rank[out'[j].name]
  <2> SUFFICES ASSUME NEW i \in 2..Len(out'), NEW j \in 2..Len(out'), i < j
               PROVE  Rank[out'[i].name] < Rank[out'[j].name]
    OBVIOUS
  <2>0. \A m \in Nat : \A k \in 2..m+1 : k \in 2..m \/ k = m + 1
    OBVIOUS
  <2>1. i \in 2..Len(out) /\ out'[i] = out[i] /\ out[i].name \in Written
    BY <1>2, <1>3 DEF Written
  <2>2. CASE j \in 2..Len(out)
    BY <1>3, <2>1, <2>2 DEF TarSoFar
  <2>3. CASE j = Len(out) + 1
    <3>1. Rank[out[i].name] < Rank[p]
      BY <2>1 DEF TarSoFar
    <3> QED BY <1>1, <1>3, <2>1, <2>3, <3>1
  <2> QED BY <1>2, <1>3, <2>0, <2>2, <2>3
<1>8. \A i \in 2..Len(out') : out'[i].name \notin touched =>
        out'[i] = InTar(out'[i].name, entry.tree[out'[i].name].kind, entry.tree[out'[i].name].data)
  <2> SUFFICES ASSUME NEW i \in 2..Len(out'), out'[i].name \notin touched
               PROVE  out'[i] = InTar(out'[i].name, entry.tree[out'[i].name].kind, entry.tree[out'[i].name].data)
    OBVIOUS
  <2>1. CASE i \in 2..Len(out)
    BY <1>2, <1>3, <2>1 DEF TarSoFar
  <2>2. CASE i = Len(out) + 1
    <3>1. tree[p] = entry.tree[p]
      BY <1>1, <1>3, <2>2 DEF UntouchedStays
    <3> QED BY <1>1, <1>3, <2>2, <3>1 DEF new
  <2> QED BY <1>2, <1>3, <2>1, <2>2
<1>9. Settled' /\ ~entry'.linked => \A q \in Paths' \ (touched' \union {Dockerfile}) :
        q \in Written' \union InHeader' \union pending' <=> Wanted(q)'
  <2>1. Settled' = Settled /\ \A q : Wanted(q)' = Wanted(q)
    BY DEF Settled, Wanted
  <2>2. Written' \union InHeader' \union pending' = Written \union InHeader \union pending
    BY <1>4
  <2> QED BY <2>1, <2>2 DEF TarSoFar
<1>10. out' \in Seq([name : Paths, kind : Kinds, data : Data])'
  BY <1>3 DEF E
<1>11. Len(out') > 0
  BY <1>2, <1>3
<1> HIDE DEF ContextIInv
<1> QED BY <1>4, <1>5, <1>6, <1>7, <1>8, <1>9, <1>10, <1>11 DEF TarSoFar

(* The next path is in the TAR, or, if it is a file, its header is.         *)
LEMMA WriteHeaderKeeps ==
    ASSUME ContextIInv, WriteHeader
    PROVE  ContextIInv'
<1>1. CASE FailContext
  BY <1>1, FailContextKeeps DEF WriteHeader
<1> SUFFICES ASSUME ~FailContext PROVE ContextIInv'
  BY <1>1
<1> USE DEF ContextIInv
<1> PICK p \in pending :
      /\ \A q \in pending : Rank[p] <= Rank[q]
      /\ p \in DOMAIN tree /\ tree[p].kind # "socket"
      /\ pending' = pending \ {p}
      /\ IF tree[p].kind = "file"
         THEN at' = "copy" /\ header' = <<p, tree[p].data>> /\ UNCHANGED out
         ELSE /\ out' = Append(out, InTar(p, tree[p].kind, tree[p].data))
              /\ UNCHANGED <<at, header>>
  BY DEF WriteHeader
<1>2. at = "write" /\ UNCHANGED <<text, selectors, rules, toList, entry, tree, touched>>
  BY DEF WriteHeader
<1>3. p \in Paths /\ InHeader = {} /\ at' \in {"write", "copy"}
  BY <1>2 DEF ContextTypes, InHeader
<1>4. ContextTypes' /\ UntouchedStays' /\ SelectionKnown' /\ WalkComplete'
  BY <1>2, <1>3 DEF ContextTypes, UntouchedStays, SelectionKnown, WalkComplete, Steps
<1>5. \A q \in pending \ {p} : Rank[p] < Rank[q]
  <2>1. \A q \in pending \ {p} : Rank[p] # Rank[q] /\ {Rank[p], Rank[q]} \subseteq Nat
    BY PathsAssumption DEF ContextTypes, IsInjective
  <2> QED BY <2>1
<1>6. TarSoFar'
  <2>1. CASE tree[p].kind # "file"
    <3>1. tree[p].kind \in {"directory", "link"}
      BY <2>1 DEF ContextTypes, IsTree, IsNode, Kinds
    <3> QED BY <1>2, <1>3, <1>5, <2>1, <3>1, EntryAdded
  <2>2. CASE tree[p].kind = "file"
    <3>1. /\ at' = "copy" /\ header'[1] = p /\ header'[2] = tree[p].data /\ out' = out
          /\ tree[p].data \in Data
      BY <2>2 DEF ContextTypes, IsTree, IsNode
    <3>2. InHeader' = {p} /\ Written' = Written
      BY <3>1 DEF InHeader, Written
    <3>3. Settled' = Settled /\ \A q : Wanted(q)' = Wanted(q)
      BY <1>2 DEF Settled, Wanted
    <3>4. InHeader' \union pending' = InHeader \union pending
      BY <1>3, <3>2
    <3> QED BY <1>2, <1>3, <1>5, <3>1, <3>2, <3>3, <3>4 DEF TarSoFar
  <2> QED BY <2>1, <2>2
<1> QED BY <1>4, <1>6

(* The bytes of a file are those that are there when they are copied.       *)
LEMMA CopyBytesKeeps ==
    ASSUME ContextIInv, CopyBytes
    PROVE  ContextIInv'
<1>1. CASE FailContext
  BY <1>1, FailContextKeeps DEF CopyBytes
<1> SUFFICES ASSUME ~FailContext PROVE ContextIInv'
  BY <1>1
<1> USE DEF ContextIInv
<1> DEFINE p == header[1]
<1>2. /\ at = "copy" /\ at' = "write" /\ IsFile(tree, p)
      /\ out' = Append(out, InTar(p, "file", tree[p].data))
      /\ UNCHANGED <<text, selectors, rules, toList, pending, entry, tree, touched>>
  BY DEF CopyBytes
<1>3. /\ p \in Paths /\ InHeader = {p} /\ p \in DOMAIN tree /\ tree[p].kind = "file"
      /\ \A q \in pending : Rank[p] < Rank[q]
  BY <1>2 DEF TarSoFar, InHeader, IsFile
<1>4. ContextTypes' /\ UntouchedStays' /\ SelectionKnown' /\ WalkComplete'
  BY <1>2 DEF ContextTypes, UntouchedStays, SelectionKnown, WalkComplete, Steps
<1>5. p \notin pending
  <2>1. Rank[p] \in Nat
    BY <1>3, PathsAssumption
  <2> QED BY <1>3, <2>1
<1>6. TarSoFar'
  <2> HIDE DEF p
  <2> QED BY <1>2, <1>3, <1>5, EntryAdded
<1> QED BY <1>4, <1>6

(* The TAR ends when no path is left.                                       *)
LEMMA FinishKeeps ==
    ASSUME ContextIInv, Finish
    PROVE  ContextIInv'
<1>1. CASE FailContext
  BY <1>1, FailContextKeeps DEF Finish
<1> SUFFICES ASSUME ~FailContext PROVE ContextIInv'
  BY <1>1
<1> USE DEF ContextIInv
<1>2. /\ at = "write" /\ at' = "done" /\ pending = {}
      /\ UNCHANGED <<text, selectors, rules, toList, pending, header, out, entry, tree, touched>>
  BY DEF Finish
<1>3. ContextTypes' /\ UntouchedStays' /\ SelectionKnown' /\ WalkComplete'
  BY <1>2 DEF ContextTypes, UntouchedStays, SelectionKnown, WalkComplete, Steps
<1>4. TarSoFar'
  <2>1. Written' = Written /\ InHeader' = InHeader
    BY <1>2 DEF Written, InHeader
  <2>2. Settled' = Settled /\ \A q : Wanted(q)' = Wanted(q)
    BY <1>2 DEF Settled, Wanted
  <2> QED BY <1>2, <2>1, <2>2 DEF TarSoFar
<1> QED BY <1>3, <1>4

(* What an edit changes is touched from then on.                            *)
LEMMA EditKeeps ==
    ASSUME ContextIInv, Edit
    PROVE  ContextIInv'
<1> USE DEF ContextIInv
<1> PICK p \in Paths \ {<<>>} :
      LET others == {q \in DOMAIN tree : ~Under(p, q)}
      IN  /\ IsDirectory(tree, Parent(p))
          /\ \/ tree' = [q \in others |-> tree[q]]
             \/ \E n \in Nodes : tree' = [q \in others \union {p} |-> IF q = p THEN n ELSE tree[q]]
          /\ touched' = touched \union {q \in Paths : Under(p, q)}
  BY DEF Edit
<1> DEFINE others == {q \in DOMAIN tree : ~Under(p, q)}
<1>1. UNCHANGED <<entry, at, text, selectors, rules, toList, pending, header, out>>
  BY DEF Edit
<1>2. touched \subseteq touched' /\ touched' \subseteq Paths /\ Written' = Written /\ InHeader' = InHeader
  BY <1>1 DEF ContextTypes, Written, InHeader
<1>3. p \in Seq(STRING) /\ \A q \in Paths : q \in Seq(STRING)
  BY PathsAssumption
<1>4. /\ DOMAIN tree' \in {others, others \union {p}}
      /\ \A q \in others : tree'[q] = tree[q]
      /\ p \in DOMAIN tree' => IsNode(tree'[p])
  <2>1. p \notin others
    BY <1>3 DEF Under
  <2> QED BY <2>1, NodesAssumption
<1>5. IsTree(tree')
  <2>1. \A q \in Seq(STRING) : IsDirectory(tree, q) /\ ~Under(p, q) => IsDirectory(tree', q)
    BY <1>4 DEF IsDirectory
  <2>2. <<>> \in Seq(STRING) /\ ~Under(p, <<>>)
    <3>1. Len(p) \in Nat \ {0} /\ Len(<<>>) = 0
      BY <1>3, EmptySeq
    <3> QED BY <3>1 DEF Under
  <2>3. ASSUME NEW q \in DOMAIN tree', NEW k \in 0..Len(q)-1
        PROVE  IsDirectory(tree', SubSeq(q, 1, k))
    <3> DEFINE b == SubSeq(q, 1, k)
    <3>1. q \in Seq(STRING) /\ k \in 0..Len(q) /\ k < Len(q) /\ Len(q) \in Nat
      BY <1>3, <1>4 DEF ContextTypes, IsTree
    <3>2. b \in Seq(STRING) /\ Len(b) = k /\ \A i \in 1..k : b[i] = q[i]
      BY <3>1, Beginnings
    <3>3. Under(b, q)
      BY <3>1, <3>2 DEF Under
    <3>4. CASE q \in others
      <4>1. IsDirectory(tree, b)
        BY <3>4 DEF ContextTypes, IsTree
      <4>2. ~Under(p, b)
        BY <1>3, <3>1, <3>2, <3>3, <3>4, UnderTransitive
      <4> QED BY <2>1, <3>2, <4>1, <4>2
    <3>5. CASE q = p
      <4>1. Parent(p) \in DOMAIN tree /\ Parent(p) \in Seq(STRING) /\ Under(b, Parent(p))
        <5>1. b # p
          BY <3>1, <3>2, <3>5
        <5> QED BY <1>3, <3>2, <3>3, <3>5, <5>1, UnderParent DEF IsDirectory
      <4>2. IsDirectory(tree, b)
        BY <3>2, <4>1, InDirectories DEF ContextTypes
      <4>3. ~Under(p, b)
        BY <3>1, <3>2, <3>5 DEF Under
      <4> QED BY <2>1, <3>2, <4>2, <4>3
    <3> QED BY <1>4, <3>4, <3>5
  <2>4. \A q \in DOMAIN tree' : IsNode(tree'[q])
    BY <1>4 DEF ContextTypes, IsTree
  <2>5. DOMAIN tree' \subseteq Paths
    BY <1>4 DEF ContextTypes, IsTree
  <2> QED BY <2>1, <2>2, <2>3, <2>4, <2>5 DEF ContextTypes, IsTree
<1>6. ContextTypes'
  BY <1>1, <1>2, <1>5 DEF ContextTypes
<1>7. UntouchedStays'
  <2>1. \A q \in touched', r \in Paths : Under(q, r) => r \in touched'
    BY <1>3, UnderTransitive DEF UntouchedStays, ContextTypes
  <2>2. \A q \in Paths \ touched' : q # p /\ ~Under(p, q)
    BY <1>3 DEF Under
  <2> QED BY <1>1, <1>2, <1>4, <2>1, <2>2 DEF UntouchedStays
<1>8. SelectionKnown'
  BY <1>1, <1>2 DEF SelectionKnown
<1>9. Settled' => Settled
  BY <1>1, <1>2 DEF Settled
<1>10. \A q : Wanted(q)' = Wanted(q)
  BY <1>1 DEF Wanted
<1>11. WalkComplete'
  BY <1>1, <1>2, <1>9, <1>10 DEF WalkComplete, AboutToBeFound
<1>12. TarSoFar'
  BY <1>1, <1>2, <1>9, <1>10 DEF TarSoFar
<1> QED BY <1>6, <1>7, <1>8, <1>11, <1>12

-----------------------------------------------------------------------------
(* The inductive invariant holds of every context that is written.          *)
THEOREM ContextInvariance == ContextSpec => []ContextIInv
<1>1. ContextInit => ContextIInv
  <2> SUFFICES ASSUME ContextInit PROVE ContextIInv
    OBVIOUS
  <2>1. IsTree(tree)
    BY ContextsAssumption DEF ContextInit, Normalized
  <2>2. ContextTypes /\ UntouchedStays
    BY <2>1 DEF ContextInit, ContextTypes, UntouchedStays, Steps
  <2>3. SelectionKnown /\ WalkComplete /\ TarSoFar
    BY DEF ContextInit, SelectionKnown, WalkComplete, TarSoFar
  <2> QED BY <2>2, <2>3 DEF ContextIInv
<1>2. ContextIInv /\ [ContextNext]_contextVars => ContextIInv'
  <2> SUFFICES ASSUME ContextIInv, [ContextNext]_contextVars PROVE ContextIInv'
    OBVIOUS
  <2>1. CASE ReadDockerfile \/ SelectSources \/ ReadDockerignore
    BY <2>1, PreparationKeeps
  <2>2. CASE List
    BY <2>2, ListKeeps
  <2>3. CASE Create
    BY <2>3, CreateKeeps
  <2>4. CASE WriteHeader
    BY <2>4, WriteHeaderKeeps
  <2>5. CASE CopyBytes
    BY <2>5, CopyBytesKeeps
  <2>6. CASE Finish
    BY <2>6, FinishKeeps
  <2>7. CASE BreakContext
    BY <2>7, FailContextKeeps DEF BreakContext
  <2>8. CASE Edit
    BY <2>8, EditKeeps
  <2>9. CASE UNCHANGED contextVars
    <3> USE <2>9 DEF contextVars
    <3>1. ContextTypes' /\ UntouchedStays' /\ SelectionKnown'
      BY DEF ContextIInv, ContextTypes, UntouchedStays, SelectionKnown
    <3>2. Settled' = Settled /\ \A q : Wanted(q)' = Wanted(q)
      BY DEF Settled, Wanted
    <3>3. WalkComplete' /\ TarSoFar'
      BY <3>2 DEF ContextIInv, WalkComplete, AboutToBeFound, TarSoFar, Written, InHeader
    <3> QED BY <3>1, <3>3 DEF ContextIInv
  <2> QED BY <2>1, <2>2, <2>3, <2>4, <2>5, <2>6, <2>7, <2>8, <2>9 DEF ContextNext
<1> QED BY <1>1, <1>2, PTL DEF ContextSpec

(* The context of a build has what COPY and ADD name and .dockerignore lets, *)
(* in order and once, whatever the user edits meanwhile.                    *)
THEOREM ContextsAreExact == ContextSpec => []ContextExact
<1>1. ContextIInv => ContextExact
  <2> SUFFICES ASSUME ContextIInv PROVE ContextExact
    OBVIOUS
  <2>1. CASE at = "done"
    <3>1. pending = {} /\ InHeader = {}
      BY <2>1 DEF ContextIInv, TarSoFar, InHeader
    <3>2. \A i \in 2..Len(out) : out[i].name \in Written /\ out[i].name # Dockerfile
      BY <2>1 DEF ContextIInv, TarSoFar, Written
    <3>3. \A p : p \in Written <=> \E i \in 2..Len(out) : out[i].name = p
      BY DEF Written
    <3> QED BY <2>1, <3>1, <3>2, <3>3 DEF ContextIInv, TarSoFar, ContextExact
  <2>2. CASE at # "done"
    BY <2>2 DEF ContextIInv, TarSoFar, ContextExact
  <2> QED BY <2>1, <2>2
<1> QED BY <1>1, ContextInvariance, PTL
=============================================================================
