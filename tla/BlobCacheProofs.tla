-------------------------- MODULE BlobCacheProofs --------------------------
(***************************************************************************)
(* Proofs about the blob cache, for any callers, digests, contents and     *)
(* bounds: the inductive invariant IInv of BlobCache, the safety           *)
(* properties that follow from it, and that the cache implements           *)
(* ContentStore.  One lemma per action, one step per conjunct of IInv.     *)
(***************************************************************************)
EXTENDS BlobCache, TLAPS

(* An error return closes and removes whatever the call had.                *)
LEMMA FailInv ==
    ASSUME IInv, NEW p \in Procs, NEW code \in Codes \ {"ok"}, pc[p] # "idle", Fail(p, code)
    PROVE  IInv'
<1> USE DistinctAssumption, HashAssumption DEF IInv, Fail, Return, Goto, files
<1>1. TypeOK'
  <2>1. call[p] \in Call /\ call[p].op \in Ops /\ call[p].want \in Wanted
    BY DEF TypeOK, Call
  <2>2. NoCall \in Call /\ Partial \in Bytes
    BY DEF NoCall, Call, Ops, Wanted, Bytes
  <2>3. [op |-> call[p].op, code |-> code, want |-> call[p].want, got |-> Partial] \in Result
    BY <2>1, <2>2 DEF Result
  <2>4. "idle" \in PcSet /\ << >> \in Seq(Entries)
    BY DEF PcSet
  <2> QED
    BY <2>1, <2>2, <2>3, <2>4 DEF TypeOK
<1>2. NamedSound'
  BY DEF NamedSound, Sound, Whole
<1>3. TempsPrivate'
  BY DEF TempsPrivate, TypeOK
<1>4. TempsWhole'
  BY DEF TempsWhole, TypeOK, Whole, PcSet
<1>5. FdsSound'
  BY DEF FdsSound, Sound, Whole, TypeOK, Valid, Regular
<1>6. CallsTyped'
  BY DEF CallsTyped, TypeOK, PutPcs, ReadPcs, FdPcs, NoCall
<1>7. AckedStays'
  BY DEF AckedStays, Valid, Regular, Whole
<1>8. ReadsWhole'
  BY DEF ReadsWhole, TypeOK, Whole, CallsTyped
<1>9. NoTempLeft'
  BY DEF NoTempLeft, TypeOK, TempPcs
<1> QED
  BY <1>1, <1>2, <1>3, <1>4, <1>5, <1>6, <1>7, <1>8, <1>9 DEF IInv

(* Put, PutFile, ImportOCI and CopyTo start from a caller that is idle.     *)
LEMMA BeginInv ==
    ASSUME IInv, NEW p \in Procs, NEW op \in {"put", "putFile", "import", "copyTo"},
           NEW want \in Wanted, NEW src \in Bytes, NEW later \in Seq(Entries),
           op = "copyTo" => want \in Digests, op # "copyTo" => src \in Contents,
           Begin(p, op, want, src, later, IF op = "copyTo" THEN "lstat" ELSE "put")
    PROVE  IInv'
<1> USE DistinctAssumption, HashAssumption, BoundsAssumption DEF IInv, Begin, files
<1>1. TypeOK'
  <2>1. "lstat" \in PcSet /\ "put" \in PcSet
    BY DEF PcSet, PutPcs, ReadPcs
  <2>2. NoResult \in Result
    BY DEF NoResult, Result, Ops, Codes, Wanted, Bytes
  <2>3. [op |-> op, want |-> want, src |-> src] \in Call
    BY DEF Call, Ops
  <2> QED
    BY <2>1, <2>2, <2>3 DEF TypeOK
<1>2. NamedSound'
  BY DEF NamedSound, Sound, Whole, TypeOK
<1>3. TempsPrivate'
  BY DEF TempsPrivate, TypeOK
<1>4. TempsWhole'
  BY DEF TempsWhole, TypeOK, Whole, PcSet
<1>5. FdsSound'
  BY DEF FdsSound, Sound, Whole, TypeOK, Valid, Regular, CallsTyped, FdPcs
<1>6. CallsTyped'
  BY DEF CallsTyped, TypeOK, PutPcs, ReadPcs, FdPcs
<1>7. AckedStays'
  BY DEF AckedStays, Valid, Regular, Whole, TypeOK
<1>8. ReadsWhole'
  BY DEF ReadsWhole, TypeOK, Whole, NoResult
<1>9. NoTempLeft'
  BY DEF NoTempLeft, TypeOK, TempPcs
<1> QED
  BY <1>1, <1>2, <1>3, <1>4, <1>5, <1>6, <1>7, <1>8, <1>9 DEF IInv

(* Has only looks.                                                          *)
LEMMA HasInv ==
    ASSUME IInv, NEW p \in Procs, Has(p)
    PROVE  IInv'
<1> USE DistinctAssumption, HashAssumption, BoundsAssumption DEF IInv, Has, files
<1>1. TypeOK'
  <2>1. \E d \in Digests, code \in Codes :
            ret' = [ret EXCEPT ![p] = [op |-> "has", want |-> d, got |-> Partial, code |-> code]]
    BY DEF Codes
  <2>2. \A d \in Digests, code \in Codes : [op |-> "has", want |-> d, got |-> Partial, code |-> code] \in Result
    BY DEF Result, Ops, Wanted, Bytes
  <2> QED
    BY <2>1, <2>2 DEF TypeOK
<1>2. NamedSound'
  BY DEF NamedSound, Sound, Whole, TypeOK
<1>3. TempsPrivate'
  BY DEF TempsPrivate, TypeOK
<1>4. TempsWhole'
  BY DEF TempsWhole, TypeOK, Whole, PcSet
<1>5. FdsSound'
  BY DEF FdsSound, Sound, Whole, TypeOK, Valid, Regular
<1>6. CallsTyped'
  BY DEF CallsTyped, TypeOK, PutPcs, ReadPcs, FdPcs
<1>7. AckedStays'
  BY DEF AckedStays, Valid, Regular, Whole, TypeOK
<1>8. ReadsWhole'
  BY DEF ReadsWhole, TypeOK, Whole
<1>9. NoTempLeft'
  BY DEF NoTempLeft, TypeOK, TempPcs
<1> QED
  BY <1>1, <1>2, <1>3, <1>4, <1>5, <1>6, <1>7, <1>8, <1>9 DEF IInv

(* put has looked at the name: it will write the blob or verify the one there. *)
LEMMA PutStartInv ==
    ASSUME IInv, NEW p \in Procs, PutStart(p), Found(call[p].want) # Directory
    PROVE  IInv'
<1> USE DistinctAssumption, HashAssumption, BoundsAssumption DEF IInv, files
<1>a. /\ pc[p] = "put"
      /\ \/ pc' = [pc EXCEPT ![p] = "create"]
         \/ call[p].want # AnyDigest /\ pc' = [pc EXCEPT ![p] = "verifyOpen"]
      /\ UNCHANGED <<files, call, rest, temp, fd, ret, acked, lost, calls, crashes, tampers>>
  BY DEF PutStart, Fail, Goto, Found
<1>1. TypeOK'
  <2>1. "create" \in PcSet /\ "verifyOpen" \in PcSet
    BY DEF PcSet, PutPcs, ReadPcs
  <2>2. pc' \in [Procs -> PcSet]
    BY <1>a, <2>1 DEF TypeOK
  <2> QED
    BY <1>a, <2>1, <2>2 DEF TypeOK
<1>2. NamedSound'
  BY <1>a DEF NamedSound, Sound, Whole, TypeOK
<1>3. TempsPrivate'
  BY <1>a DEF TempsPrivate, TypeOK
<1>4. TempsWhole'
  BY <1>a DEF TempsWhole, TypeOK, Whole, PcSet
<1>5. FdsSound'
  BY <1>a DEF FdsSound, Sound, Whole, TypeOK, Valid, Regular
<1>6. CallsTyped'
  BY <1>a DEF CallsTyped, TypeOK, PutPcs, ReadPcs, FdPcs, Wanted, Call
<1>7. AckedStays'
  BY <1>a DEF AckedStays, Valid, Regular, Whole, TypeOK
<1>8. ReadsWhole'
  BY <1>a DEF ReadsWhole, TypeOK, Whole
<1>9. NoTempLeft'
  BY <1>a DEF NoTempLeft, TypeOK, TempPcs
<1> QED
  BY <1>1, <1>2, <1>3, <1>4, <1>5, <1>6, <1>7, <1>8, <1>9 DEF IInv

(* verifyExisting holds the file it found open.                             *)
LEMMA VerifyOpenInv ==
    ASSUME IInv, NEW p \in Procs, VerifyOpen(p), Regular(call[p].want)
    PROVE  IInv'
<1> USE DistinctAssumption, HashAssumption, BoundsAssumption DEF IInv, files
<1>a. /\ pc[p] = "verifyOpen" /\ pc' = [pc EXCEPT ![p] = "verifyRead"]
      /\ fd' = [fd EXCEPT ![p] = dir[call[p].want]]
      /\ UNCHANGED <<files, call, rest, temp, ret, acked, lost, calls, crashes, tampers>>
  BY DEF VerifyOpen, Goto
<1>b. call[p].want \in Digests /\ dir[call[p].want] \in Inodes
  BY <1>a DEF CallsTyped, PutPcs, ReadPcs, TypeOK, Regular
<1>1. TypeOK'
  <2>1. "verifyRead" \in PcSet
    BY DEF PcSet, PutPcs, ReadPcs
  <2> QED
    BY <1>a, <1>b, <2>1 DEF TypeOK
<1>2. NamedSound'
  BY <1>a, <1>b DEF NamedSound, Sound, Whole, TypeOK
<1>3. TempsPrivate'
  BY <1>a, <1>b DEF TempsPrivate, TypeOK
<1>4. TempsWhole'
  BY <1>a, <1>b DEF TempsWhole, TypeOK, Whole, PcSet
<1>5. FdsSound'
  BY <1>a, <1>b DEF FdsSound, Sound, Whole, TypeOK, Valid, Regular, NamedSound, CallsTyped, PutPcs, ReadPcs
<1>6. CallsTyped'
  BY <1>a, <1>b DEF CallsTyped, TypeOK, PutPcs, ReadPcs, FdPcs
<1>7. AckedStays'
  BY <1>a, <1>b DEF AckedStays, Valid, Regular, Whole, TypeOK
<1>8. ReadsWhole'
  BY <1>a, <1>b DEF ReadsWhole, TypeOK, Whole
<1>9. NoTempLeft'
  BY <1>a, <1>b DEF NoTempLeft, TypeOK, TempPcs
<1> QED
  BY <1>1, <1>2, <1>3, <1>4, <1>5, <1>6, <1>7, <1>8, <1>9 DEF IInv

(* The new temporary is nobody else's file.                                 *)
LEMMA CreateTempInv ==
    ASSUME IInv, NEW p \in Procs, CreateTemp(p)
    PROVE  IInv'
<1> USE DistinctAssumption, HashAssumption, BoundsAssumption DEF IInv, CreateTemp, Goto
<1>1. TypeOK'
  <2>1. "copy" \in PcSet
    BY DEF PcSet, PutPcs, ReadPcs
  <2>2. Partial \in Bytes
    BY DEF Bytes
  <2> QED
    BY <2>1, <2>2 DEF TypeOK
<1>2. NamedSound'
  BY DEF NamedSound, Sound, Whole, TypeOK, Used
<1>3. TempsPrivate'
  BY DEF TempsPrivate, TypeOK, Used
<1>4. TempsWhole'
  BY DEF TempsWhole, TypeOK, Whole, PcSet, Used, NoTempLeft, TempPcs
<1>5. FdsSound'
  BY DEF FdsSound, Sound, Whole, TypeOK, Valid, Regular, Used
<1>6. CallsTyped'
  BY DEF CallsTyped, TypeOK, PutPcs, ReadPcs, FdPcs
<1>7. AckedStays'
  BY DEF AckedStays, Valid, Regular, Whole, TypeOK, Used
<1>8. ReadsWhole'
  BY DEF ReadsWhole, TypeOK, Whole
<1>9. NoTempLeft'
  BY DEF NoTempLeft, TypeOK, TempPcs
<1> QED
  BY <1>1, <1>2, <1>3, <1>4, <1>5, <1>6, <1>7, <1>8, <1>9 DEF IInv

(* The digest agreed: the temporary holds the bytes it will be named for.   *)
LEMMA CopyInv ==
    ASSUME IInv, NEW p \in Procs, Copy(p), call[p].want \in {Hash[call[p].src], AnyDigest}
    PROVE  IInv'
<1> USE DistinctAssumption, HashAssumption, BoundsAssumption DEF IInv, files
<1>a. /\ pc[p] = "copy" /\ pc' = [pc EXCEPT ![p] = "sync"]
      /\ data' = [data EXCEPT ![temp[p]] = call[p].src]
      /\ call' = [call EXCEPT ![p].want = Hash[call[p].src]]
      /\ UNCHANGED <<dir, disk, synced, litter, rest, temp, fd, ret, acked, lost, calls, crashes, tampers>>
  BY DEF Copy, Goto
<1>b. call[p].src \in Contents /\ Hash[call[p].src] \in Digests /\ temp[p] \in Inodes /\ call[p] \in Call
  BY <1>a DEF CallsTyped, PutPcs, TypeOK, NoTempLeft, TempPcs
<1>c. /\ call'[p].op = call[p].op /\ call'[p].src = call[p].src /\ call'[p].want = Hash[call[p].src]
  BY <1>a, <1>b DEF TypeOK, Call
<1>d. /\ data'[temp[p]] = call[p].src
      /\ \A i \in Inodes : i # temp[p] => data'[i] = data[i]
  BY <1>a, <1>b DEF TypeOK
<1>1. TypeOK'
  <2>1. "sync" \in PcSet
    BY DEF PcSet, PutPcs, ReadPcs
  <2>2. call' \in [Procs -> Call]
    BY <1>a, <1>b DEF TypeOK, Call, Wanted
  <2>3. data' \in [Inodes -> Bytes]
    BY <1>a, <1>b DEF TypeOK, Bytes
  <2>4. pc' \in [Procs -> PcSet]
    BY <1>a, <2>1 DEF TypeOK
  <2> QED
    BY <1>a, <1>b, <1>c, <1>d, <2>1, <2>2, <2>3, <2>4 DEF TypeOK
<1>2. NamedSound'
  BY <1>a, <1>b, <1>c, <1>d DEF NamedSound, Sound, Whole, TypeOK, TempsPrivate, NoTempLeft, TempPcs
<1>3. TempsPrivate'
  BY <1>a, <1>b, <1>c, <1>d DEF TempsPrivate, TypeOK
<1>4. TempsWhole'
  BY <1>a, <1>b, <1>c, <1>d DEF TempsWhole, TypeOK, Whole, PcSet, TempsPrivate, NoTempLeft, TempPcs
<1>5. FdsSound'
  <2> SUFFICES ASSUME NEW q \in Procs, (fd[q] # NoFile)'
               PROVE  (/\ Sound(fd[q], call[q].want)
                       /\ Whole(data[fd[q]], call[q].want) => Valid(call[q].want) \/ call[q].want \in lost)'
    BY DEF FdsSound
  <2>1. fd[q] \in Inodes /\ fd[q] # temp[p] /\ q # p
    BY <1>a, <1>b DEF TypeOK, TempsPrivate, CallsTyped, FdPcs
  <2>2. call'[q] = call[q] /\ data'[fd[q]] = data[fd[q]] /\ call[q].want \in Digests
    BY <1>a, <1>d, <2>1 DEF TypeOK, CallsTyped, FdPcs, PutPcs, ReadPcs
  <2>3. Valid(call[q].want) => Valid(call[q].want)'
    <3>1. dir[call[q].want] # temp[p]
      BY <1>b, <2>2, DistinctAssumption DEF TempsPrivate
    <3> QED
      BY <1>a, <1>d, <2>2, <3>1 DEF Valid, Regular, Whole
  <2> QED
    BY <1>a, <2>1, <2>2, <2>3 DEF FdsSound, Sound, Whole
<1>6. CallsTyped'
  BY <1>a, <1>b, <1>c, <1>d DEF CallsTyped, TypeOK, PutPcs, ReadPcs, FdPcs
<1>7. AckedStays'
  BY <1>a, <1>b, <1>c, <1>d DEF AckedStays, Valid, Regular, Whole, TypeOK, TempsPrivate
<1>8. ReadsWhole'
  BY <1>a, <1>b, <1>c, <1>d DEF ReadsWhole, TypeOK, Whole
<1>9. NoTempLeft'
  BY <1>a, <1>b, <1>c, <1>d DEF NoTempLeft, TypeOK, TempPcs
<1> QED
  BY <1>1, <1>2, <1>3, <1>4, <1>5, <1>6, <1>7, <1>8, <1>9 DEF IInv

(* fsync makes those bytes survive a power loss.                            *)
LEMMA SyncInv ==
    ASSUME IInv, NEW p \in Procs, Sync(p)
    PROVE  IInv'
<1> USE DistinctAssumption, HashAssumption, BoundsAssumption DEF IInv, Sync, Goto, files
<1>1. TypeOK'
  <2>1. "rename" \in PcSet
    BY DEF PcSet, PutPcs, ReadPcs
  <2>2. temp[p] \in Inodes
    BY DEF TypeOK, NoTempLeft, TempPcs
  <2> QED
    BY <2>1, <2>2 DEF TypeOK
<1>2. NamedSound'
  BY DEF NamedSound, Sound, Whole, TypeOK
<1>3. TempsPrivate'
  BY DEF TempsPrivate, TypeOK
<1>4. TempsWhole'
  BY DEF TempsWhole, TypeOK, Whole, PcSet
<1>5. FdsSound'
  BY DEF FdsSound, Sound, Whole, TypeOK, Valid, Regular
<1>6. CallsTyped'
  BY DEF CallsTyped, TypeOK, PutPcs, ReadPcs, FdPcs
<1>7. AckedStays'
  BY DEF AckedStays, Valid, Regular, Whole, TypeOK
<1>8. ReadsWhole'
  BY DEF ReadsWhole, TypeOK, Whole
<1>9. NoTempLeft'
  BY DEF NoTempLeft, TypeOK, TempPcs
<1> QED
  BY <1>1, <1>2, <1>3, <1>4, <1>5, <1>6, <1>7, <1>8, <1>9 DEF IInv

(* Open has looked at the name.                                             *)
LEMMA OpenLstatInv ==
    ASSUME IInv, NEW p \in Procs, OpenLstat(p), dir[call[p].want] # Directory
    PROVE  IInv'
<1> USE DistinctAssumption, HashAssumption, BoundsAssumption DEF IInv, OpenLstat, Goto, files
<1>1. TypeOK'
  <2>1. "open" \in PcSet
    BY DEF PcSet, PutPcs, ReadPcs
  <2> QED
    BY <2>1 DEF TypeOK
<1>2. NamedSound'
  BY DEF NamedSound, Sound, Whole, TypeOK
<1>3. TempsPrivate'
  BY DEF TempsPrivate, TypeOK
<1>4. TempsWhole'
  BY DEF TempsWhole, TypeOK, Whole, PcSet
<1>5. FdsSound'
  BY DEF FdsSound, Sound, Whole, TypeOK, Valid, Regular
<1>6. CallsTyped'
  BY DEF CallsTyped, TypeOK, PutPcs, ReadPcs, FdPcs
<1>7. AckedStays'
  BY DEF AckedStays, Valid, Regular, Whole, TypeOK
<1>8. ReadsWhole'
  BY DEF ReadsWhole, TypeOK, Whole
<1>9. NoTempLeft'
  BY DEF NoTempLeft, TypeOK, TempPcs
<1> QED
  BY <1>1, <1>2, <1>3, <1>4, <1>5, <1>6, <1>7, <1>8, <1>9 DEF IInv

(* Open holds a file that had the name.                                     *)
LEMMA OpenFileInv ==
    ASSUME IInv, NEW p \in Procs, OpenFile(p), Regular(call[p].want)
    PROVE  IInv'
<1> USE DistinctAssumption, HashAssumption, BoundsAssumption DEF IInv, files
<1>a. /\ pc[p] = "open" /\ pc' = [pc EXCEPT ![p] = "read"]
      /\ fd' = [fd EXCEPT ![p] = dir[call[p].want]]
      /\ UNCHANGED <<files, call, rest, temp, ret, acked, lost, calls, crashes, tampers>>
  BY DEF OpenFile, Goto, Fail, Regular
<1>b. call[p].want \in Digests /\ dir[call[p].want] \in Inodes
  BY <1>a DEF CallsTyped, PutPcs, ReadPcs, TypeOK, Regular
<1>1. TypeOK'
  <2>1. "read" \in PcSet
    BY DEF PcSet, PutPcs, ReadPcs
  <2> QED
    BY <1>a, <1>b, <2>1 DEF TypeOK
<1>2. NamedSound'
  BY <1>a, <1>b DEF NamedSound, Sound, Whole, TypeOK
<1>3. TempsPrivate'
  BY <1>a, <1>b DEF TempsPrivate, TypeOK
<1>4. TempsWhole'
  BY <1>a, <1>b DEF TempsWhole, TypeOK, Whole, PcSet
<1>5. FdsSound'
  BY <1>a, <1>b DEF FdsSound, Sound, Whole, TypeOK, Valid, Regular, NamedSound, CallsTyped, PutPcs, ReadPcs
<1>6. CallsTyped'
  BY <1>a, <1>b DEF CallsTyped, TypeOK, PutPcs, ReadPcs, FdPcs
<1>7. AckedStays'
  BY <1>a, <1>b DEF AckedStays, Valid, Regular, Whole, TypeOK
<1>8. ReadsWhole'
  BY <1>a, <1>b DEF ReadsWhole, TypeOK, Whole
<1>9. NoTempLeft'
  BY <1>a, <1>b DEF NoTempLeft, TypeOK, TempPcs
<1> QED
  BY <1>1, <1>2, <1>3, <1>4, <1>5, <1>6, <1>7, <1>8, <1>9 DEF IInv

(* CopyTo delivers the bytes of the open file.                              *)
LEMMA ReadInv ==
    ASSUME IInv, NEW p \in Procs, Read(p)
    PROVE  IInv'
<1> USE DistinctAssumption, HashAssumption, BoundsAssumption DEF IInv, Read, Return, Goto, files
<1>1. TypeOK'
  <2>1. "idle" \in PcSet
    BY DEF PcSet, PutPcs, ReadPcs
  <2>2. NoCall \in Call
    BY DEF NoCall, Call, Ops, Wanted, Bytes
  <2>3. fd[p] \in Inodes
    BY DEF CallsTyped, FdPcs, TypeOK
  <2>4. call[p] \in Call /\ call[p].op \in Ops /\ call[p].want \in Wanted /\ call[p].src \in Bytes
    BY DEF TypeOK, Call
  <2>5. [op |-> call[p].op, code |-> "ok", want |-> call[p].want, got |-> data[fd[p]]] \in Result
    BY <2>3, <2>4 DEF Result, Codes, TypeOK
  <2>6. << >> \in Seq(Entries)
    OBVIOUS
  <2> QED
    BY <2>1, <2>2, <2>3, <2>4, <2>5, <2>6 DEF TypeOK
<1>2. NamedSound'
  BY DEF NamedSound, Sound, Whole, TypeOK
<1>3. TempsPrivate'
  BY DEF TempsPrivate, TypeOK
<1>4. TempsWhole'
  BY DEF TempsWhole, TypeOK, Whole, PcSet
<1>5. FdsSound'
  BY DEF FdsSound, Sound, Whole, TypeOK, Valid, Regular
<1>6. CallsTyped'
  BY DEF CallsTyped, TypeOK, PutPcs, ReadPcs, FdPcs, NoCall
<1>7. AckedStays'
  BY DEF AckedStays, Valid, Regular, Whole, TypeOK
<1>8. ReadsWhole'
  BY DEF ReadsWhole, TypeOK, Whole, FdsSound, Sound, CallsTyped, FdPcs
<1>9. NoTempLeft'
  BY DEF NoTempLeft, TypeOK, TempPcs
<1> QED
  BY <1>1, <1>2, <1>3, <1>4, <1>5, <1>6, <1>7, <1>8, <1>9 DEF IInv

(* What a successful put changes for its caller, whichever way it goes on.  *)
LEMMA SucceedEffect ==
    ASSUME TypeOK, NEW p \in Procs, NEW d \in Digests, Succeed(p, d)
    PROVE  /\ pc' \in [Procs -> PcSet] /\ call' \in [Procs -> Call]
           /\ rest' \in [Procs -> Seq(Entries)] /\ ret' \in [Procs -> Result]
           /\ acked' = acked \/ acked' = acked \union {d}
           /\ \A q \in Procs \ {p} : pc'[q] = pc[q] /\ call'[q] = call[q] /\ ret'[q] = ret[q]
           /\ pc'[p] \in {"idle", "put"}
           /\ pc'[p] = "put" => /\ call'[p].op = call[p].op /\ call'[p].src \in Contents
                                /\ call'[p].want \in Digests
           /\ ret'[p] = ret[p] \/ ret'[p].op = call[p].op
<1> USE DEF Succeed, Return, Goto
<1>1. {"idle", "put"} \subseteq PcSet /\ NoCall \in Call /\ << >> \in Seq(Entries)
  BY DEF PcSet, PutPcs, NoCall, Call, Ops, Wanted, Bytes
<1>2. call[p] \in Call /\ call[p].op \in Ops
  BY DEF TypeOK, Call
<1>3. \A code \in {"ok", "failed"} :
          [op |-> call[p].op, code |-> code, want |-> d, got |-> Partial] \in Result
  BY <1>2 DEF Result, Codes, Wanted, Bytes
<1>4. CASE Return(p, "ok", d, Partial) /\ acked' = acked \union {d}
  BY <1>1, <1>2, <1>3, <1>4 DEF TypeOK
<1>5. CASE Return(p, "failed", d, Partial) /\ acked' = acked
  BY <1>1, <1>2, <1>3, <1>5 DEF TypeOK
<1>6. CASE /\ acked' = acked \union {d} /\ rest[p] # << >> /\ Goto(p, "put")
           /\ call' = [call EXCEPT ![p].want = Head(rest[p]).want, ![p].src = Head(rest[p]).src]
           /\ rest' = [rest EXCEPT ![p] = Tail(rest[p])] /\ UNCHANGED ret
  <2>1. Head(rest[p]) \in Entries /\ Tail(rest[p]) \in Seq(Entries)
    BY <1>6 DEF TypeOK
  <2>2. /\ call' \in [Procs -> Call]
        /\ call'[p].op = call[p].op /\ call'[p].src = Head(rest[p]).src
        /\ call'[p].want = Head(rest[p]).want
    BY <1>2, <1>6, <2>1 DEF TypeOK, Call, Entries, Wanted, Bytes
  <2> QED
    BY <1>1, <1>6, <2>1, <2>2 DEF TypeOK, Entries
<1> QED
  BY <1>4, <1>5, <1>6

(* The blob that was there hashed to its name.                              *)
LEMMA VerifyReadInv ==
    ASSUME IInv, NEW p \in Procs, VerifyRead(p), Whole(data[fd[p]], call[p].want)
    PROVE  IInv'
<1> USE DistinctAssumption, HashAssumption, BoundsAssumption DEF IInv, files
<1>a. /\ pc[p] = "verifyRead"
      /\ fd' = [fd EXCEPT ![p] = NoFile]
      /\ UNCHANGED <<files, temp, lost, calls, crashes, tampers>>
  BY DEF VerifyRead
<1>b. call[p].want \in Digests /\ fd[p] # NoFile /\ call[p].op \in {"put", "putFile", "import"}
  BY <1>a DEF CallsTyped, PutPcs, ReadPcs, FdPcs
<1>c. /\ pc' \in [Procs -> PcSet] /\ call' \in [Procs -> Call]
      /\ rest' \in [Procs -> Seq(Entries)] /\ ret' \in [Procs -> Result]
      /\ acked' = acked \/ acked' = acked \union {call[p].want}
  BY <1>b, SucceedEffect DEF VerifyRead
<1>d. /\ \A q \in Procs \ {p} : pc'[q] = pc[q] /\ call'[q] = call[q] /\ ret'[q] = ret[q]
      /\ pc'[p] \in {"idle", "put"}
      /\ pc'[p] = "put" => /\ call'[p].op = call[p].op /\ call'[p].src \in Contents
                           /\ call'[p].want \in Digests
      /\ ret'[p] = ret[p] \/ ret'[p].op = call[p].op
  BY <1>b, SucceedEffect DEF VerifyRead
<1>1. TypeOK'
  BY <1>a, <1>b, <1>c DEF TypeOK
<1>2. NamedSound'
  BY <1>a, <1>b, <1>d DEF NamedSound, Sound, Whole, TypeOK
<1>3. TempsPrivate'
  BY <1>a, <1>b, <1>d DEF TempsPrivate, TypeOK
<1>4. TempsWhole'
  <2> SUFFICES ASSUME NEW q \in Procs
               PROVE  (/\ pc[q] \in {"sync", "rename"} => Whole(data[temp[q]], call[q].want)
                       /\ pc[q] = "rename" => temp[q] \in synced)'
    BY DEF TempsWhole
  <2>1. CASE q = p
    BY <1>a, <1>b, <1>d, <2>1 DEF TempsWhole
  <2>2. CASE q # p
    BY <1>a, <1>b, <1>d, <2>2 DEF TempsWhole, Whole
  <2> QED
    BY <2>1, <2>2
<1>5. FdsSound'
  <2> SUFFICES ASSUME NEW q \in Procs
               PROVE  (fd[q] # NoFile =>
                         /\ Sound(fd[q], call[q].want)
                         /\ Whole(data[fd[q]], call[q].want) => Valid(call[q].want) \/ call[q].want \in lost)'
    BY DEF FdsSound
  <2>1. CASE q = p
    BY <1>a, <1>b, <1>d, <2>1 DEF FdsSound, TypeOK, CallsTyped, FdPcs
  <2>2. CASE q # p
    BY <1>a, <1>b, <1>d, <2>2 DEF FdsSound, Sound, Whole, Valid, Regular, TypeOK, CallsTyped, FdPcs, PutPcs, ReadPcs
  <2> QED
    BY <2>1, <2>2
<1>6. CallsTyped'
  <2> SUFFICES ASSUME NEW q \in Procs
               PROVE  (/\ pc[q] \in PutPcs => call[q].op \in {"put", "putFile", "import"} /\ call[q].src \in Contents
                       /\ pc[q] \in ReadPcs => call[q].op = "copyTo"
                       /\ pc[q] \in (PutPcs \union ReadPcs) \ {"put", "create", "copy"} => call[q].want \in Digests
                       /\ fd[q] # NoFile <=> pc[q] \in FdPcs)'
    BY DEF CallsTyped
  <2>1. CASE q = p
    BY <1>a, <1>b, <1>d, <2>1 DEF CallsTyped, TypeOK, PutPcs, ReadPcs, FdPcs
  <2>2. CASE q # p
    BY <1>a, <1>b, <1>d, <2>2 DEF CallsTyped, TypeOK, PutPcs, ReadPcs, FdPcs
  <2> QED
    BY <2>1, <2>2
<1>7. AckedStays'
  BY <1>a, <1>b, <1>c DEF AckedStays, Valid, Regular, Whole, TypeOK, FdsSound
<1>8. ReadsWhole'
  <2> SUFFICES ASSUME NEW q \in Procs
               PROVE  ((ret[q].op = "copyTo" /\ ret[q].code = "ok")
                          => Whole(ret[q].got, ret[q].want) \/ ret[q].got = Damaged)'
    BY DEF ReadsWhole
  <2>1. CASE q = p
    BY <1>a, <1>b, <1>d, <2>1 DEF ReadsWhole, Whole
  <2>2. CASE q # p
    BY <1>a, <1>b, <1>d, <2>2 DEF ReadsWhole, Whole
  <2> QED
    BY <2>1, <2>2
<1>9. NoTempLeft'
  BY <1>a, <1>b, <1>d DEF NoTempLeft, TypeOK, TempPcs
<1> QED
  BY <1>1, <1>2, <1>3, <1>4, <1>5, <1>6, <1>7, <1>8, <1>9 DEF IInv

(* The blob is published: its file was whole, synced and private.           *)
LEMMA RenameInv ==
    ASSUME IInv, NEW p \in Procs, Rename(p), dir[call[p].want] # Directory
    PROVE  IInv'
<1> USE DistinctAssumption, HashAssumption, BoundsAssumption DEF IInv, files
<1>a. /\ pc[p] = "rename"
      /\ dir' = [dir EXCEPT ![call[p].want] = temp[p]]
      /\ temp' = [temp EXCEPT ![p] = NoFile]
      /\ lost' = lost \ {call[p].want}
      /\ UNCHANGED <<disk, data, synced, litter, fd, calls, crashes, tampers>>
  BY DEF Rename
<1>b. /\ call[p].want \in Digests /\ temp[p] \in Inodes /\ temp[p] # NoFile /\ fd[p] = NoFile
      /\ call[p].op \in {"put", "putFile", "import"}
      /\ Sound(temp[p], call[p].want) /\ Whole(data[temp[p]], call[p].want)
  BY <1>a DEF CallsTyped, PutPcs, ReadPcs, FdPcs, TypeOK, NoTempLeft, TempPcs, TempsWhole, Sound
<1>c. /\ pc' \in [Procs -> PcSet] /\ call' \in [Procs -> Call]
      /\ rest' \in [Procs -> Seq(Entries)] /\ ret' \in [Procs -> Result]
      /\ acked' = acked \/ acked' = acked \union {call[p].want}
  BY <1>b, SucceedEffect DEF Rename
<1>d. /\ \A q \in Procs \ {p} : pc'[q] = pc[q] /\ call'[q] = call[q] /\ ret'[q] = ret[q]
      /\ pc'[p] \in {"idle", "put"}
      /\ pc'[p] = "put" => /\ call'[p].op = call[p].op /\ call'[p].src \in Contents
                           /\ call'[p].want \in Digests
      /\ ret'[p] = ret[p] \/ ret'[p].op = call[p].op
  BY <1>b, SucceedEffect DEF Rename
<1>1. TypeOK'
  BY <1>a, <1>b, <1>c DEF TypeOK
<1>2. NamedSound'
  BY <1>a, <1>b, <1>d DEF NamedSound, Sound, Whole, TypeOK
<1>3. TempsPrivate'
  BY <1>a, <1>b, <1>d DEF TempsPrivate, TypeOK
<1>4. TempsWhole'
  <2> SUFFICES ASSUME NEW q \in Procs
               PROVE  (/\ pc[q] \in {"sync", "rename"} => Whole(data[temp[q]], call[q].want)
                       /\ pc[q] = "rename" => temp[q] \in synced)'
    BY DEF TempsWhole
  <2>1. CASE q = p
    BY <1>a, <1>b, <1>d, <2>1 DEF TempsWhole
  <2>2. CASE q # p
    BY <1>a, <1>b, <1>d, <2>2 DEF TempsWhole, Whole
  <2> QED
    BY <2>1, <2>2
<1>5. FdsSound'
  <2> SUFFICES ASSUME NEW q \in Procs
               PROVE  (fd[q] # NoFile =>
                         /\ Sound(fd[q], call[q].want)
                         /\ Whole(data[fd[q]], call[q].want) => Valid(call[q].want) \/ call[q].want \in lost)'
    BY DEF FdsSound
  <2>1. CASE q = p
    BY <1>a, <1>b, <1>d, <2>1 DEF FdsSound, TypeOK, CallsTyped, FdPcs
  <2>2. CASE q # p
    BY <1>a, <1>b, <1>d, <2>2, ZenonT(60) DEF FdsSound, Sound, Whole, Valid, Regular, TypeOK, CallsTyped, FdPcs, PutPcs, ReadPcs
  <2> QED
    BY <2>1, <2>2
<1>6. CallsTyped'
  <2> SUFFICES ASSUME NEW q \in Procs
               PROVE  (/\ pc[q] \in PutPcs => call[q].op \in {"put", "putFile", "import"} /\ call[q].src \in Contents
                       /\ pc[q] \in ReadPcs => call[q].op = "copyTo"
                       /\ pc[q] \in (PutPcs \union ReadPcs) \ {"put", "create", "copy"} => call[q].want \in Digests
                       /\ fd[q] # NoFile <=> pc[q] \in FdPcs)'
    BY DEF CallsTyped
  <2>1. CASE q = p
    BY <1>a, <1>b, <1>d, <2>1 DEF CallsTyped, TypeOK, PutPcs, ReadPcs, FdPcs
  <2>2. CASE q # p
    BY <1>a, <1>b, <1>d, <2>2 DEF CallsTyped, TypeOK, PutPcs, ReadPcs, FdPcs
  <2> QED
    BY <2>1, <2>2
<1>7. AckedStays'
  BY <1>a, <1>b, <1>c DEF AckedStays, Valid, Regular, Whole, TypeOK, FdsSound
<1>8. ReadsWhole'
  <2> SUFFICES ASSUME NEW q \in Procs
               PROVE  ((ret[q].op = "copyTo" /\ ret[q].code = "ok")
                          => Whole(ret[q].got, ret[q].want) \/ ret[q].got = Damaged)'
    BY DEF ReadsWhole
  <2>1. CASE q = p
    BY <1>a, <1>b, <1>d, <2>1 DEF ReadsWhole, Whole
  <2>2. CASE q # p
    BY <1>a, <1>b, <1>d, <2>2 DEF ReadsWhole, Whole
  <2> QED
    BY <2>1, <2>2
<1>9. NoTempLeft'
  BY <1>a, <1>b, <1>d DEF NoTempLeft, TypeOK, TempPcs
<1> QED
  BY <1>1, <1>2, <1>3, <1>4, <1>5, <1>6, <1>7, <1>8, <1>9 DEF IInv

(* What a crash leaves of its callers.                                      *)
LEMMA DieEffect ==
    ASSUME TypeOK, NEW dead \in SUBSET Procs, Die(dead), crashes < MaxCrashes
    PROVE  /\ pc' \in [Procs -> PcSet] /\ call' \in [Procs -> Call]
           /\ rest' \in [Procs -> Seq(Entries)] /\ ret' \in [Procs -> Result]
           /\ temp' \in [Procs -> Inodes \union {NoFile}]
           /\ fd' \in [Procs -> Inodes \union {NoFile}]
           /\ litter' \subseteq Inodes /\ crashes' \in 0..MaxCrashes /\ crashes' > 0
           /\ \A p \in dead : /\ pc'[p] = "idle" /\ temp'[p] = NoFile /\ fd'[p] = NoFile
                              /\ ret'[p] = NoResult
           /\ \A p \in Procs \ dead :
                 /\ pc'[p] = pc[p] /\ call'[p] = call[p] /\ temp'[p] = temp[p]
                 /\ fd'[p] = fd[p] /\ ret'[p] = ret[p]
<1>1. "idle" \in PcSet /\ NoCall \in Call /\ NoResult \in Result /\ << >> \in Seq(Entries)
  BY DEF PcSet, NoCall, Call, Ops, Wanted, Bytes, NoResult, Result, Codes
<1>2. litter' \subseteq Inodes
  BY DEF Die, TypeOK
<1> QED
  BY <1>1, <1>2, BoundsAssumption DEF Die, TypeOK

(* A caller dies anywhere.                                                  *)
LEMMA CrashInv ==
    ASSUME IInv, NEW c \in Procs, Crash(c)
    PROVE  IInv'
<1> USE DistinctAssumption, HashAssumption, BoundsAssumption DEF IInv, files
<1>a. /\ UNCHANGED <<dir, disk, data, synced, acked, lost, calls, tampers>>
  BY DEF Crash
<1>b. /\ pc' \in [Procs -> PcSet] /\ call' \in [Procs -> Call]
      /\ rest' \in [Procs -> Seq(Entries)] /\ ret' \in [Procs -> Result]
      /\ temp' \in [Procs -> Inodes \union {NoFile}]
      /\ fd' \in [Procs -> Inodes \union {NoFile}]
      /\ litter' \subseteq Inodes /\ crashes' \in 0..MaxCrashes /\ crashes' > 0
      /\ \A p \in {c} : /\ pc'[p] = "idle" /\ temp'[p] = NoFile /\ fd'[p] = NoFile
                      /\ ret'[p] = NoResult
      /\ \A p \in Procs \ {c} :
            /\ pc'[p] = pc[p] /\ call'[p] = call[p] /\ temp'[p] = temp[p]
            /\ fd'[p] = fd[p] /\ ret'[p] = ret[p]
  BY DieEffect DEF Crash
<1>1. TypeOK'
  BY <1>a, <1>b DEF TypeOK
<1>2. NamedSound'
  BY <1>a, <1>b DEF NamedSound, Sound, Whole, TypeOK
<1>3. TempsPrivate'
  <2> SUFFICES ASSUME NEW q \in Procs
               PROVE  (temp[q] # NoFile =>
                         /\ \A d \in Digests : temp[q] # dir[d] /\ temp[q] # disk[d]
                         /\ \A r \in Procs : fd[r] # temp[q] /\ (r # q => temp[r] # temp[q]))'
    BY DEF TempsPrivate
  <2>1. CASE q = c
    BY <1>a, <1>b, <2>1 DEF TypeOK
  <2>2. CASE q # c
    BY <1>a, <1>b, <2>2 DEF TempsPrivate, TypeOK
  <2> QED
    BY <2>1, <2>2
<1>4. TempsWhole'
  <2> SUFFICES ASSUME NEW q \in Procs
               PROVE  (/\ pc[q] \in {"sync", "rename"} => Whole(data[temp[q]], call[q].want)
                       /\ pc[q] = "rename" => temp[q] \in synced)'
    BY DEF TempsWhole
  <2>1. CASE q = c
    BY <1>a, <1>b, <2>1 DEF TempsWhole
  <2>2. CASE q # c
    <3>1. /\ pc[q] \in {"sync", "rename"} => Whole(data[temp[q]], call[q].want)
          /\ pc[q] = "rename" => temp[q] \in synced
      BY DEF TempsWhole
    <3>2. pc'[q] = pc[q] /\ call'[q] = call[q] /\ temp'[q] = temp[q]
      BY <1>b, <2>2
    <3>3. data' = data /\ synced' = synced
      BY <1>a
    <3> HIDE DEF IInv
    <3> QED
      BY <3>1, <3>2, <3>3 DEF Whole
  <2> QED
    BY <2>1, <2>2
<1>5. FdsSound'
  <2> SUFFICES ASSUME NEW q \in Procs
               PROVE  (fd[q] # NoFile =>
                         /\ Sound(fd[q], call[q].want)
                         /\ Whole(data[fd[q]], call[q].want) => Valid(call[q].want) \/ call[q].want \in lost)'
    BY DEF FdsSound
  <2>1. CASE q = c
    BY <1>b, <2>1
  <2>2. CASE q # c
    <3>1. fd[q] # NoFile =>
            /\ Sound(fd[q], call[q].want)
            /\ Whole(data[fd[q]], call[q].want) => Valid(call[q].want) \/ call[q].want \in lost
      BY DEF FdsSound
    <3>2. fd'[q] = fd[q] /\ call'[q] = call[q]
      BY <1>b, <2>2
    <3>3. dir' = dir /\ data' = data /\ synced' = synced /\ lost' = lost
      BY <1>a
    <3> HIDE DEF IInv
    <3> QED
      BY <3>1, <3>2, <3>3 DEF Sound, Whole, Valid, Regular
  <2> QED
    BY <2>1, <2>2
<1>6. CallsTyped'
  BY <1>a, <1>b, ZenonT(60) DEF CallsTyped, TypeOK, PutPcs, ReadPcs, FdPcs
<1>7. AckedStays'
  <2>1. AckedStays
    OBVIOUS
  <2> HIDE DEF IInv
  <2> QED
    BY <1>a, <2>1 DEF AckedStays, Valid, Regular, Whole
<1>8. ReadsWhole'
  <2> SUFFICES ASSUME NEW q \in Procs
               PROVE  ((ret[q].op = "copyTo" /\ ret[q].code = "ok")
                          => Whole(ret[q].got, ret[q].want) \/ ret[q].got = Damaged)'
    BY DEF ReadsWhole
  <2>1. CASE q = c
    BY <1>a, <1>b, <2>1 DEF NoResult
  <2>2. CASE q # c
    BY <1>a, <1>b, <2>2 DEF ReadsWhole, Whole
  <2> QED
    BY <2>1, <2>2
<1>9. NoTempLeft'
  BY <1>a, <1>b DEF NoTempLeft, TypeOK, TempPcs
<1> QED
  BY <1>1, <1>2, <1>3, <1>4, <1>5, <1>6, <1>7, <1>8, <1>9 DEF IInv

(* All callers die, names revert and files that were not synced are torn.   *)
LEMMA PowerLossInv ==
    ASSUME IInv, PowerLoss,
           NEW reverted \in SUBSET Digests, NEW torn \in SUBSET (Inodes \ synced),
           dir' = [d \in Digests |-> IF d \in reverted THEN disk[d] ELSE dir[d]], disk' = dir',
           data' = [i \in Inodes |-> IF i \in torn THEN Partial ELSE data[i]],
           lost' = lost \union {d \in reverted : disk[d] # dir[d]}
    PROVE  IInv'
<1> USE DistinctAssumption, HashAssumption, BoundsAssumption DEF IInv
<1>a. UNCHANGED <<synced, acked, calls, tampers>>
  BY DEF PowerLoss
<1>b. /\ pc' \in [Procs -> PcSet] /\ call' \in [Procs -> Call]
      /\ rest' \in [Procs -> Seq(Entries)] /\ ret' \in [Procs -> Result]
      /\ temp' \in [Procs -> Inodes \union {NoFile}]
      /\ fd' \in [Procs -> Inodes \union {NoFile}]
      /\ litter' \subseteq Inodes /\ crashes' \in 0..MaxCrashes /\ crashes' > 0
      /\ \A p \in Procs : /\ pc'[p] = "idle" /\ temp'[p] = NoFile /\ fd'[p] = NoFile
                      /\ ret'[p] = NoResult
      /\ \A p \in Procs \ Procs :
            /\ pc'[p] = pc[p] /\ call'[p] = call[p] /\ temp'[p] = temp[p]
            /\ fd'[p] = fd[p] /\ ret'[p] = ret[p]
  BY DieEffect DEF PowerLoss
<1>c. \A i \in synced : data'[i] = data[i]
  BY DEF TypeOK
<1>1. TypeOK'
  <2>1. Partial \in Bytes
    BY DEF Bytes
  <2> QED
    BY <1>a, <1>b, <1>c, <2>1 DEF TypeOK
<1>2. NamedSound'
  BY <1>a, <1>b, <1>c DEF NamedSound, Sound, Whole, TypeOK
<1>3. TempsPrivate'
  BY <1>a, <1>b, <1>c DEF TempsPrivate, TypeOK
<1>4. TempsWhole'
  BY <1>a, <1>b, <1>c DEF TempsWhole, TypeOK, Whole, PcSet
<1>5. FdsSound'
  BY <1>a, <1>b, <1>c DEF FdsSound, Sound, Whole, TypeOK, Valid, Regular
<1>6. CallsTyped'
  BY <1>a, <1>b, <1>c DEF CallsTyped, TypeOK, PutPcs, ReadPcs, FdPcs
<1>7. AckedStays'
  BY <1>a, <1>b, <1>c DEF AckedStays, Valid, Regular, Whole, TypeOK, NamedSound, Sound
<1>8. ReadsWhole'
  BY <1>a, <1>b, <1>c DEF ReadsWhole, TypeOK, Whole, NoResult
<1>9. NoTempLeft'
  BY <1>a, <1>b, <1>c DEF NoTempLeft, TypeOK, TempPcs
<1> QED
  BY <1>1, <1>2, <1>3, <1>4, <1>5, <1>6, <1>7, <1>8, <1>9 DEF IInv

(* Somebody removes a blob.                                                 *)
LEMMA EvictInv ==
    ASSUME IInv, NEW d \in Digests, Evict(d)
    PROVE  IInv'
<1> USE DistinctAssumption, HashAssumption, BoundsAssumption DEF IInv, Evict, Disturb, local
<1>1. TypeOK'
  BY DEF TypeOK, Regular, Bytes
<1>2. NamedSound'
  BY DEF NamedSound, Sound, Whole, TypeOK, Regular
<1>3. TempsPrivate'
  BY DEF TempsPrivate, TypeOK
<1>4. TempsWhole'
  BY DEF TempsWhole, TypeOK, Whole, PcSet, TempsPrivate, Regular, NoTempLeft, TempPcs
<1>5. FdsSound'
  BY DEF FdsSound, Sound, Whole, TypeOK, Valid, Regular
<1>6. CallsTyped'
  BY DEF CallsTyped, TypeOK, PutPcs, ReadPcs, FdPcs
<1>7. AckedStays'
  BY DEF AckedStays, Valid, Regular, Whole, TypeOK, NamedSound, Sound
<1>8. ReadsWhole'
  BY DEF ReadsWhole, TypeOK, Whole
<1>9. NoTempLeft'
  BY DEF NoTempLeft, TypeOK, TempPcs
<1> QED
  BY <1>1, <1>2, <1>3, <1>4, <1>5, <1>6, <1>7, <1>8, <1>9 DEF IInv

(* Somebody puts a directory in its place.                                  *)
LEMMA ReplaceInv ==
    ASSUME IInv, NEW d \in Digests, Replace(d)
    PROVE  IInv'
<1> USE DistinctAssumption, HashAssumption, BoundsAssumption DEF IInv, Replace, Disturb, local
<1>1. TypeOK'
  BY DEF TypeOK, Regular, Bytes
<1>2. NamedSound'
  BY DEF NamedSound, Sound, Whole, TypeOK, Regular
<1>3. TempsPrivate'
  BY DEF TempsPrivate, TypeOK
<1>4. TempsWhole'
  BY DEF TempsWhole, TypeOK, Whole, PcSet, TempsPrivate, Regular, NoTempLeft, TempPcs
<1>5. FdsSound'
  BY DEF FdsSound, Sound, Whole, TypeOK, Valid, Regular
<1>6. CallsTyped'
  BY DEF CallsTyped, TypeOK, PutPcs, ReadPcs, FdPcs
<1>7. AckedStays'
  BY DEF AckedStays, Valid, Regular, Whole, TypeOK, NamedSound, Sound
<1>8. ReadsWhole'
  BY DEF ReadsWhole, TypeOK, Whole
<1>9. NoTempLeft'
  BY DEF NoTempLeft, TypeOK, TempPcs
<1> QED
  BY <1>1, <1>2, <1>3, <1>4, <1>5, <1>6, <1>7, <1>8, <1>9 DEF IInv

(* Somebody writes into a blob.                                             *)
LEMMA DamageInv ==
    ASSUME IInv, NEW d \in Digests, Damage(d)
    PROVE  IInv'
<1> USE DistinctAssumption, HashAssumption, BoundsAssumption DEF IInv, Damage, Disturb, local
<1>1. TypeOK'
  BY DEF TypeOK, Regular, Bytes
<1>2. NamedSound'
  BY DEF NamedSound, Sound, Whole, TypeOK, Regular
<1>3. TempsPrivate'
  BY DEF TempsPrivate, TypeOK
<1>4. TempsWhole'
  BY DEF TempsWhole, TypeOK, Whole, PcSet, TempsPrivate, Regular, NoTempLeft, TempPcs
<1>5. FdsSound'
  <2> SUFFICES ASSUME NEW q \in Procs, fd[q] # NoFile
               PROVE  (/\ Sound(fd[q], call[q].want)
                       /\ Whole(data[fd[q]], call[q].want) => Valid(call[q].want) \/ call[q].want \in lost)'
    BY DEF FdsSound
  <2> DEFINE w == call[q].want
  <2>1. /\ fd[q] \in Inodes /\ dir[d] \in Inodes /\ w \in Digests
        /\ \A i \in Inodes : data'[i] = data[i] \/ (i = dir[d] /\ data'[i] = Damaged)
    BY DEF TypeOK, Regular, CallsTyped, FdPcs, PutPcs, ReadPcs
  <2>2. Sound(fd[q], w) /\ (Whole(data[fd[q]], w) => Valid(w) \/ w \in lost)
    BY DEF FdsSound
  <2>3. Valid(w) => Valid(w)' \/ w = d
    <3> SUFFICES ASSUME Valid(w), dir[w] = dir[d] PROVE w = d
      BY <2>1 DEF Valid, Regular, Whole, TypeOK
    <3> QED
      BY <2>1 DEF NamedSound, Sound, Valid, Whole
  <2> QED
    BY <2>1, <2>2, <2>3 DEF Sound, Whole
<1>6. CallsTyped'
  BY DEF CallsTyped, TypeOK, PutPcs, ReadPcs, FdPcs
<1>7. AckedStays'
  BY DEF AckedStays, Valid, Regular, Whole, TypeOK, NamedSound, Sound
<1>8. ReadsWhole'
  BY DEF ReadsWhole, TypeOK, Whole
<1>9. NoTempLeft'
  BY DEF NoTempLeft, TypeOK, TempPcs
<1> QED
  BY <1>1, <1>2, <1>3, <1>4, <1>5, <1>6, <1>7, <1>8, <1>9 DEF IInv

----------------------------------------------------------------------------
(* The invariant holds initially.                                           *)
LEMMA InitInv == Init => IInv
<1> SUFFICES ASSUME Init PROVE IInv
  OBVIOUS
<1> USE DistinctAssumption, HashAssumption, BoundsAssumption DEF Init
<1>1. TypeOK
  BY DEF TypeOK, PcSet, Call, Ops, Wanted, Bytes, NoCall, NoResult, Result, Codes
<1>2. NamedSound /\ TempsPrivate /\ TempsWhole /\ FdsSound
  BY DEF NamedSound, TempsPrivate, TempsWhole, FdsSound
<1>3. CallsTyped
  BY DEF CallsTyped, PutPcs, ReadPcs, FdPcs
<1>4. AckedStays /\ ReadsWhole /\ NoTempLeft
  BY DEF AckedStays, ReadsWhole, NoTempLeft, TempPcs, NoResult
<1> QED
  BY <1>1, <1>2, <1>3, <1>4 DEF IInv

(* A caller enters the cache.                                               *)
LEMMA InvokeInv ==
    ASSUME IInv, NEW p \in Procs, Invoke(p)
    PROVE  IInv'
<1>1. ASSUME Put(p) PROVE IInv'
  <2>1. PICK d \in Digests, c \in Contents : Begin(p, "put", d, c, << >>, "put")
    BY <1>1 DEF Put
  <2>2. d \in Wanted /\ c \in Bytes /\ << >> \in Seq(Entries)
    BY DEF Wanted, Bytes
  <2> QED
    BY <2>1, <2>2, BeginInv
<1>2. ASSUME PutFile(p) PROVE IInv'
  <2>1. PICK c \in Contents : Begin(p, "putFile", AnyDigest, c, << >>, "put")
    BY <1>2 DEF PutFile
  <2>2. AnyDigest \in Wanted /\ c \in Bytes /\ << >> \in Seq(Entries)
    BY DEF Wanted, Bytes
  <2> QED
    BY <2>1, <2>2, BeginInv
<1>3. ASSUME CopyTo(p) PROVE IInv'
  <2>1. PICK d \in Digests : Begin(p, "copyTo", d, Partial, << >>, "lstat")
    BY <1>3 DEF CopyTo
  <2>2. d \in Wanted /\ Partial \in Bytes /\ << >> \in Seq(Entries)
    BY DEF Wanted, Bytes
  <2> QED
    BY <2>1, <2>2, BeginInv
<1>4. ASSUME ImportOCI(p) PROVE IInv'
  <2>1. PICK layout \in Layouts :
            Begin(p, "import", Head(layout).want, Head(layout).src, Tail(layout), "put")
    BY <1>4 DEF ImportOCI
  <2>2. layout \in Seq(Entries) /\ layout # << >>
    BY LayoutsAssumption
  <2>3. Head(layout) \in Entries /\ Tail(layout) \in Seq(Entries)
    BY <2>2
  <2>4. /\ Head(layout).want \in Wanted /\ Head(layout).src \in Bytes
        /\ Head(layout).src \in Contents
    BY <2>3 DEF Entries, Wanted, Bytes
  <2> QED
    BY <2>1, <2>3, <2>4, BeginInv
<1>5. ASSUME Has(p) PROVE IInv'
  BY <1>5, HasInv
<1> QED
  BY <1>1, <1>2, <1>3, <1>4, <1>5 DEF Invoke

(* A caller inside the cache goes on, or returns with an error.             *)
LEMMA StepInv ==
    ASSUME IInv, NEW p \in Procs, Step(p)
    PROVE  IInv'
<1>1. ASSUME PutStart(p) PROVE IInv'
  <2>1. CASE Found(call[p].want) # Directory
    BY <1>1, <2>1, PutStartInv
  <2>2. CASE Found(call[p].want) = Directory
    BY <1>1, <2>2, FailInv DEF PutStart, Codes
  <2> QED
    BY <2>1, <2>2
<1>2. ASSUME VerifyOpen(p) PROVE IInv'
  <2>1. CASE Regular(call[p].want)
    BY <1>2, <2>1, VerifyOpenInv
  <2>2. CASE ~Regular(call[p].want)
    BY <1>2, <2>2, FailInv DEF VerifyOpen, Codes
  <2> QED
    BY <2>1, <2>2
<1>3. ASSUME VerifyRead(p) PROVE IInv'
  <2>1. CASE Whole(data[fd[p]], call[p].want)
    BY <1>3, <2>1, VerifyReadInv
  <2>2. CASE ~Whole(data[fd[p]], call[p].want)
    BY <1>3, <2>2, FailInv DEF VerifyRead, Codes
  <2> QED
    BY <2>1, <2>2
<1>4. ASSUME CreateTemp(p) PROVE IInv'
  BY <1>4, CreateTempInv
<1>5. ASSUME Copy(p) PROVE IInv'
  <2>1. CASE call[p].want \in {Hash[call[p].src], AnyDigest}
    BY <1>5, <2>1, CopyInv
  <2>2. CASE call[p].want \notin {Hash[call[p].src], AnyDigest}
    BY <1>5, <2>2, FailInv DEF Copy, Codes
  <2> QED
    BY <2>1, <2>2
<1>6. ASSUME Sync(p) PROVE IInv'
  BY <1>6, SyncInv
<1>7. ASSUME Rename(p) PROVE IInv'
  <2>1. CASE dir[call[p].want] # Directory
    BY <1>7, <2>1, RenameInv
  <2>2. CASE dir[call[p].want] = Directory
    BY <1>7, <2>2, FailInv DEF Rename, Codes
  <2> QED
    BY <2>1, <2>2
<1>8. ASSUME OpenLstat(p) PROVE IInv'
  <2>1. CASE dir[call[p].want] # Directory
    BY <1>8, <2>1, OpenLstatInv
  <2>2. CASE dir[call[p].want] = Directory
    BY <1>8, <2>2, FailInv DEF OpenLstat, Codes
  <2> QED
    BY <2>1, <2>2
<1>9. ASSUME OpenFile(p) PROVE IInv'
  <2>1. CASE Regular(call[p].want)
    BY <1>9, <2>1, OpenFileInv
  <2>2. CASE ~Regular(call[p].want)
    BY <1>9, <2>2, FailInv DEF OpenFile, Codes
  <2> QED
    BY <2>1, <2>2
<1>10. ASSUME Read(p) PROVE IInv'
  BY <1>10, ReadInv
<1>11. ASSUME Cancelled(p) \/ IOError(p) PROVE IInv'
  BY <1>11, FailInv DEF Cancelled, IOError, Codes
<1> QED
  BY <1>1, <1>2, <1>3, <1>4, <1>5, <1>6, <1>7, <1>8, <1>9, <1>10, <1>11 DEF Step, Work

(* Every step of the cache and of its environment preserves the invariant.  *)
LEMMA NextInv == IInv /\ [Next]_vars => IInv'
<1> SUFFICES ASSUME IInv, [Next]_vars PROVE IInv'
  OBVIOUS
<1>1. ASSUME NEW p \in Procs, Invoke(p) PROVE IInv'
  BY <1>1, InvokeInv
<1>2. ASSUME NEW p \in Procs, Step(p) PROVE IInv'
  BY <1>2, StepInv
<1>3. ASSUME NEW p \in Procs, Crash(p) PROVE IInv'
  BY <1>3, CrashInv
<1>4. ASSUME PowerLoss PROVE IInv'
  <2>1. PICK reverted \in SUBSET Digests, torn \in SUBSET (Inodes \ synced) :
            /\ dir' = [d \in Digests |-> IF d \in reverted THEN disk[d] ELSE dir[d]]
            /\ disk' = dir'
            /\ data' = [i \in Inodes |-> IF i \in torn THEN Partial ELSE data[i]]
            /\ lost' = lost \union {d \in reverted : disk[d] # dir[d]}
    BY <1>4 DEF PowerLoss
  <2> QED
    BY <1>4, <2>1, PowerLossInv
<1>5. ASSUME NEW d \in Digests, Evict(d) \/ Replace(d) \/ Damage(d) PROVE IInv'
  BY <1>5, EvictInv, ReplaceInv, DamageInv
<1>6. CASE UNCHANGED vars
  BY <1>6 DEF vars, files, local, IInv, TypeOK, NamedSound, TempsPrivate, TempsWhole, FdsSound,
              CallsTyped, AckedStays, ReadsWhole, NoTempLeft, Sound, Whole, Valid, Regular
<1> QED
  BY <1>1, <1>2, <1>3, <1>4, <1>5, <1>6 DEF Next, Environment

(* The inductive invariant holds of every behaviour of the cache.           *)
THEOREM Invariance == Spec => []IInv
  BY InitInv, NextInv, PTL DEF Spec

(* Every variable keeps its type.                                           *)
THEOREM TypeCorrect == Spec => []TypeOK
<1>1. IInv => TypeOK
  BY DEF IInv
<1> QED
  BY <1>1, Invariance, PTL

(* Files under a digest's name hold the bytes of that digest, for any       *)
(* number of callers, crashes and power losses (put in cache.go).           *)
THEOREM BlobsIntact == Spec => []CacheIntegrity
<1>1. IInv => CacheIntegrity
  BY DEF IInv, NamedSound, Sound, CacheIntegrity, Regular
<1> QED
  BY <1>1, Invariance, PTL

(* A digest reported as cached stays until the environment takes it.        *)
THEOREM AckedBlobsStay == Spec => []AckedStays
<1>1. IInv => AckedStays
  BY DEF IInv
<1> QED
  BY <1>1, Invariance, PTL

(* CopyTo, which hashes nothing, delivers whole blobs.                      *)
THEOREM ReadersGetWholeBlobs == Spec => []ReadsWhole
<1>1. IInv => ReadsWhole
  BY DEF IInv
<1> QED
  BY <1>1, Invariance, PTL

(* Only a crash leaves a temporary file behind.                             *)
THEOREM TempsAreRemoved == Spec => []NoTempLeft
<1>1. IInv => NoTempLeft
  BY DEF IInv
<1> QED
  BY <1>1, Invariance, PTL

----------------------------------------------------------------------------
(* A put that succeeds has hashed the file it vouches for.                  *)
LEMMA AckHashed ==
    ASSUME IInv, [Next]_vars, NEW p \in Procs,
           pc[p] \in PutPcs, pc'[p] = "idle", ret'[p].code = "ok"
    PROVE  \E i \in {fd[p], temp[p]} \ {NoFile} : Whole(data[i], ret'[p].want)
<1> DEFINE Hashed == \E i \in {fd[p], temp[p]} \ {NoFile} : Whole(data[i], ret'[p].want)
<1>a. pc[p] # "idle" /\ p \in DOMAIN pc /\ p \in DOMAIN ret
  BY DEF PutPcs, IInv, TypeOK
<1>b. ~UNCHANGED pc
  BY <1>a
<1>1. ASSUME NEW q \in Procs, Invoke(q) PROVE FALSE
  <2>1. pc[q] = "idle" /\ (UNCHANGED pc \/ \E at \in {"put", "lstat"} : pc' = [pc EXCEPT ![q] = at])
    BY <1>1 DEF Invoke, Put, PutFile, CopyTo, ImportOCI, Has, Begin
  <2> QED
    BY <1>a, <1>b, <2>1 DEF IInv, TypeOK
<1>2. ASSUME NEW q \in Procs, NEW code \in Codes \ {"ok"}, Fail(q, code), pc[q] # "idle" PROVE FALSE
  BY <1>2, <1>a DEF Fail, Return, Goto, IInv, TypeOK
<1>3. ASSUME NEW q \in Procs, NEW d, Succeed(q, d), q # p PROVE FALSE
  BY <1>3, <1>a DEF Succeed, Return, Goto, IInv, TypeOK
<1>4. ASSUME NEW q \in Procs, NEW at, Goto(q, at), UNCHANGED ret, at # "idle" PROVE FALSE
  BY <1>4, <1>a DEF Goto, IInv, TypeOK
<1>5. ASSUME NEW d, Succeed(p, d) PROVE ret'[p].want = d
  <2>1. CASE Return(p, "ok", d, Partial)
    BY <2>1, <1>a DEF Return, IInv, TypeOK
  <2>2. CASE Return(p, "failed", d, Partial)
    BY <2>2, <1>a DEF Return, IInv, TypeOK
  <2>3. CASE Goto(p, "put")
    BY <2>3, <1>a DEF Goto, IInv, TypeOK
  <2> QED
    BY <1>5, <2>1, <2>2, <2>3 DEF Succeed
<1>6. ASSUME NEW q \in Procs, Step(q) PROVE Hashed
  <2>1. CASE PutStart(q)
    <3>1. \/ Goto(q, "create") /\ UNCHANGED ret
          \/ Goto(q, "verifyOpen") /\ UNCHANGED ret
          \/ Fail(q, "integrity") /\ pc[q] # "idle"
      BY <2>1 DEF PutStart
    <3> QED
      BY <3>1, <1>2, <1>4 DEF Codes
  <2>2. CASE VerifyOpen(q)
    BY <2>2, <1>2, <1>4 DEF VerifyOpen, Codes
  <2>3. CASE VerifyRead(q)
    <3>1. CASE Whole(data[fd[q]], call[q].want)
      <4>1. Succeed(q, call[q].want) /\ pc[q] = "verifyRead"
        BY <2>3, <3>1 DEF VerifyRead
      <4>2. q = p
        BY <4>1, <1>3
      <4>3. fd[p] # NoFile
        BY <4>1, <4>2 DEF IInv, CallsTyped, FdPcs
      <4> QED
        BY <3>1, <4>1, <4>2, <4>3, <1>5
    <3>2. CASE ~Whole(data[fd[q]], call[q].want)
      BY <2>3, <3>2, <1>2 DEF VerifyRead, Codes
    <3> QED
      BY <3>1, <3>2
  <2>4. CASE CreateTemp(q)
    BY <2>4, <1>4 DEF CreateTemp
  <2>5. CASE Copy(q)
    BY <2>5, <1>2, <1>4 DEF Copy, Codes
  <2>6. CASE Sync(q)
    BY <2>6, <1>4 DEF Sync
  <2>7. CASE Rename(q)
    <3>1. CASE dir[call[q].want] # Directory
      <4>1. Succeed(q, call[q].want) /\ pc[q] = "rename"
        BY <2>7, <3>1 DEF Rename
      <4>2. q = p
        BY <4>1, <1>3
      <4>3. temp[p] # NoFile /\ Whole(data[temp[p]], call[p].want)
        BY <4>1, <4>2 DEF IInv, NoTempLeft, TempsWhole, TempPcs
      <4> QED
        BY <4>1, <4>2, <4>3, <1>5
    <3>2. CASE dir[call[q].want] = Directory
      BY <2>7, <3>2, <1>2 DEF Rename, Codes
    <3> QED
      BY <3>1, <3>2
  <2>8. CASE OpenLstat(q)
    BY <2>8, <1>2, <1>4 DEF OpenLstat, Codes
  <2>9. CASE OpenFile(q)
    <3>1. \/ Goto(q, "read") /\ UNCHANGED ret
          \/ (\E code \in Codes \ {"ok"} : Fail(q, code) /\ pc[q] # "idle")
      BY <2>9 DEF OpenFile, Codes
    <3> QED
      BY <3>1, <1>2, <1>4
  <2>10. CASE Read(q)
    BY <2>10, <1>a DEF Read, Return, Goto, IInv, TypeOK, PutPcs
  <2>11. CASE Cancelled(q) \/ IOError(q)
    BY <2>11, <1>2 DEF Cancelled, IOError, Codes
  <2> QED
    BY <1>6, <2>1, <2>2, <2>3, <2>4, <2>5, <2>6, <2>7, <2>8, <2>9, <2>10, <2>11 DEF Step, Work
<1>7. ASSUME NEW c \in Procs, Crash(c) PROVE FALSE
  BY <1>7, <1>a DEF Crash, Die, NoResult, IInv, TypeOK
<1>8. ASSUME PowerLoss PROVE FALSE
  BY <1>8, <1>a DEF PowerLoss, Die, NoResult
<1>9. ASSUME NEW d \in Digests, Evict(d) \/ Replace(d) \/ Damage(d) PROVE FALSE
  BY <1>9, <1>b DEF Evict, Replace, Damage, Disturb, local
<1>10. CASE UNCHANGED vars
  BY <1>10, <1>b DEF vars, local
<1> QED
  BY <1>1, <1>6, <1>7, <1>8, <1>9, <1>10 DEF Next, Environment

(* Put reports no bytes nobody hashed: a poisoned entry is refused          *)
(* (verifyExisting and the digest check of put).                            *)
THEOREM PutsAreHashed == Spec => NoBlindAck
<1>1. IInv /\ [Next]_vars =>
        [\A p \in Procs :
           (pc[p] \in PutPcs /\ pc'[p] = "idle" /\ ret'[p].code = "ok")
              => \E i \in {fd[p], temp[p]} \ {NoFile} : Whole(data[i], ret'[p].want)]_vars
  BY AckHashed
<1> QED
  BY <1>1, Invariance, PTL DEF Spec, NoBlindAck

----------------------------------------------------------------------------
(* The cache implements ContentStore: a blob is stored when its file has    *)
(* the name and the bytes.                                                  *)

Stored == {d \in Digests : Valid(d)}

(* A caller's step that leaves names, named bytes and reports alone is      *)
(* invisible to the store.                                                  *)
LEMMA Stutter ==
    ASSUME UNCHANGED <<acked, lost>>, \A d \in Digests : Valid(d)' <=> Valid(d)
    PROVE  UNCHANGED Store!svars
  BY DEF Store!svars

(* Valid blobs depend on names and bytes alone.                             *)
LEMMA SameDir ==
    ASSUME UNCHANGED <<dir, data>> PROVE \A d \in Digests : Valid(d)' <=> Valid(d)
  BY DEF Valid, Regular, Whole

(* A caller's step adds a blob, confirms one, or is invisible to the store. *)
LEMMA StepRefines ==
    ASSUME IInv, NEW p \in Procs, Step(p)
    PROVE  [Store!SNext]_(Store!svars)
<1>1. \A code : Fail(p, code) => UNCHANGED Store!svars
  <2> SUFFICES ASSUME NEW code, Fail(p, code) PROVE UNCHANGED Store!svars
    OBVIOUS
  <2>1. UNCHANGED <<dir, data, acked, lost>>
    BY DEF Fail, files
  <2> QED
    BY <2>1, Stutter, SameDir
<1>2. ASSUME CreateTemp(p) PROVE [Store!SNext]_(Store!svars)
  <2>1. PICK i \in Inodes \ Used : data' = [data EXCEPT ![i] = Partial]
    BY <1>2 DEF CreateTemp
  <2>2. UNCHANGED <<dir, acked, lost>>
    BY <1>2 DEF CreateTemp
  <2>3. \A d \in Digests : Valid(d)' <=> Valid(d)
    BY <2>1, <2>2 DEF Used, Valid, Regular, Whole, IInv, TypeOK
  <2> QED
    BY <2>2, <2>3, Stutter
<1>3. ASSUME Copy(p) PROVE [Store!SNext]_(Store!svars)
  <2>1. CASE call[p].want \in {Hash[call[p].src], AnyDigest}
    <3>1. /\ data' = [data EXCEPT ![temp[p]] = call[p].src]
          /\ UNCHANGED <<dir, acked, lost>> /\ pc[p] = "copy"
      BY <1>3, <2>1, <2>1 DEF Copy
    <3>2. temp[p] # NoFile
      BY <3>1 DEF IInv, NoTempLeft, TempPcs
    <3>3. \A d \in Digests : Valid(d)' <=> Valid(d)
      BY <3>1, <3>2 DEF TempsPrivate, Valid, Regular, Whole, IInv, TypeOK
    <3> QED
      BY <3>1, <3>3, Stutter
  <2>2. CASE call[p].want \notin {Hash[call[p].src], AnyDigest}
    BY <1>3, <2>2, <1>1 DEF Copy
  <2> QED
    BY <2>1, <2>2
<1>4. ASSUME VerifyRead(p) PROVE [Store!SNext]_(Store!svars)
  <2>1. CASE Whole(data[fd[p]], call[p].want)
    <3>1. /\ Succeed(p, call[p].want) /\ pc[p] = "verifyRead"
          /\ UNCHANGED <<dir, data, lost>>
      BY <1>4, <2>1, <2>1 DEF VerifyRead, files
    <3>2. call[p].want \in Digests /\ fd[p] # NoFile
      BY <3>1 DEF IInv, CallsTyped, PutPcs, ReadPcs, FdPcs
    <3>3. call[p].want \in Stored \union lost
      BY <1>4, <2>1, <3>2 DEF IInv, FdsSound, Stored
    <3>4. Stored' = Stored
      BY <3>1, SameDir DEF Stored
    <3>5. acked' = acked \/ acked' = acked \union {call[p].want}
      BY <3>1 DEF Succeed
    <3> QED
      BY <3>1, <3>2, <3>3, <3>4, <3>5 DEF Store!SNext, Store!Confirm, Store!svars, Stored
  <2>2. CASE ~Whole(data[fd[p]], call[p].want)
    BY <1>4, <2>2, <1>1 DEF VerifyRead
  <2> QED
    BY <2>1, <2>2
<1>5. ASSUME Rename(p) PROVE [Store!SNext]_(Store!svars)
  <2>1. CASE dir[call[p].want] # Directory
    <3> DEFINE w == call[p].want
    <3>1. /\ Succeed(p, w) /\ pc[p] = "rename"
          /\ dir' = [dir EXCEPT ![w] = temp[p]] /\ lost' = lost \ {w} /\ UNCHANGED data
      BY <1>5, <2>1, <2>1 DEF Rename
    <3>2. w \in Digests /\ temp[p] \in Inodes /\ Whole(data[temp[p]], w)
      BY <3>1 DEF IInv, TypeOK, CallsTyped, PutPcs, ReadPcs, NoTempLeft, TempPcs, TempsWhole
    <3>3. acked' = acked \/ acked' = acked \union {w}
      BY <3>1 DEF Succeed
    <3>4. Stored' = Stored \union {w}
      BY <3>1, <3>2 DEF Stored, Valid, Regular, Whole, IInv, TypeOK
    <3>5. Store!Add(w)
      BY <3>1, <3>3, <3>4 DEF Store!Add, Stored
    <3> QED
      BY <3>2, <3>5 DEF Store!SNext
  <2>2. CASE dir[call[p].want] = Directory
    BY <1>5, <2>2, <1>1 DEF Rename
  <2> QED
    BY <2>1, <2>2
<1>6. ASSUME UNCHANGED <<dir, data, acked, lost>> PROVE UNCHANGED Store!svars
  BY <1>6, Stutter, SameDir
<1>7. ASSUME PutStart(p) PROVE UNCHANGED Store!svars
  BY <1>1, <1>6, <1>7 DEF PutStart, files
<1>8. ASSUME VerifyOpen(p) PROVE UNCHANGED Store!svars
  BY <1>1, <1>6, <1>8 DEF VerifyOpen, files
<1>9. ASSUME Sync(p) PROVE UNCHANGED Store!svars
  BY <1>6, <1>9 DEF Sync
<1>10. ASSUME OpenLstat(p) PROVE UNCHANGED Store!svars
  BY <1>1, <1>6, <1>10 DEF OpenLstat, files
<1>11. ASSUME OpenFile(p) PROVE UNCHANGED Store!svars
  BY <1>1, <1>6, <1>11 DEF OpenFile, files
<1>12. ASSUME Read(p) PROVE UNCHANGED Store!svars
  BY <1>6, <1>12 DEF Read, files
<1>13. ASSUME Cancelled(p) \/ IOError(p) PROVE UNCHANGED Store!svars
  BY <1>1, <1>13 DEF Cancelled, IOError
<1> QED
  BY <1>2, <1>3, <1>4, <1>5, <1>7, <1>8, <1>9, <1>10, <1>11, <1>12, <1>13 DEF Step, Work

(* What the environment does is a loss.                                     *)
LEMMA EnvironmentRefines ==
    ASSUME IInv, Environment
    PROVE  [Store!SNext]_(Store!svars)
<1>1. ASSUME NEW c \in Procs, Crash(c) PROVE UNCHANGED Store!svars
  BY <1>1, Stutter, SameDir DEF Crash
<1>2. ASSUME PowerLoss PROVE Store!SNext
  <2>1. PICK reverted \in SUBSET Digests, torn \in SUBSET (Inodes \ synced) :
            /\ dir' = [d \in Digests |-> IF d \in reverted THEN disk[d] ELSE dir[d]]
            /\ data' = [i \in Inodes |-> IF i \in torn THEN Partial ELSE data[i]]
            /\ lost' = lost \union {d \in reverted : disk[d] # dir[d]}
    BY <1>2 DEF PowerLoss
  <2> DEFINE S == {d \in reverted : disk[d] # dir[d]}
  <2>2. UNCHANGED acked /\ S \in SUBSET Digests
    BY <1>2 DEF PowerLoss
  <2>3. \A d \in Digests \ S : dir'[d] = dir[d]
    BY <2>1
  <2>4. \A d \in Digests : dir[d] \in Inodes => data'[dir[d]] = data[dir[d]]
    BY <2>1 DEF IInv, NamedSound, Sound
  <2>5. \A d \in Digests \ S : Valid(d)' <=> Valid(d)
    BY <2>3, <2>4 DEF Valid, Regular, Whole
  <2>6. Stored \ S \subseteq Stored' /\ Stored' \subseteq Stored \union S /\ Stored' \subseteq Digests
    BY <2>5 DEF Stored
  <2>7. Store!Lose(S)
    BY <2>1, <2>2, <2>6 DEF Store!Lose, Stored
  <2> QED
    BY <2>2, <2>7 DEF Store!SNext
<1>3. ASSUME NEW d \in Digests, Evict(d) \/ Replace(d) \/ Damage(d) PROVE Store!SNext
  <2>1. UNCHANGED acked /\ lost' = lost \union {d}
    BY <1>3 DEF Evict, Replace, Damage, Disturb
  <2>2. \A e \in Digests \ {d} : Valid(e)' <=> Valid(e)
    <3>1. CASE Evict(d) \/ Replace(d)
      <4>1. \A e \in Digests \ {d} : dir'[e] = dir[e] /\ data' = data
        BY <3>1 DEF Evict, Replace, Disturb, IInv, TypeOK
      <4> QED
        BY <4>1 DEF Valid, Regular, Whole
    <3>2. CASE Damage(d)
      <4>1. /\ UNCHANGED dir /\ dir[d] \in Inodes
            /\ data'[dir[d]] = Damaged
            /\ \A i \in Inodes : i # dir[d] => data'[i] = data[i]
        BY <3>2 DEF Damage, Disturb, Regular, IInv, TypeOK
      <4>2. \A e \in Digests \ {d} : dir[e] = dir[d] => ~Valid(e)
        BY <4>1, DistinctAssumption DEF IInv, NamedSound, Sound, Valid, Whole
      <4> QED
        BY <4>1, <4>2, DistinctAssumption DEF Valid, Regular, Whole
    <3> QED
      BY <1>3, <3>1, <3>2
  <2>3. Stored \ {d} \subseteq Stored' /\ Stored' \subseteq Stored \union {d} /\ Stored' \subseteq Digests
    BY <2>2 DEF Stored
  <2>4. Store!Lose({d})
    BY <2>1, <2>3 DEF Store!Lose, Stored
  <2> QED
    BY <2>4 DEF Store!SNext
<1> QED
  BY <1>1, <1>2, <1>3 DEF Environment

(* Calls are invisible to the store.                                        *)
LEMMA InvokeRefines ==
    ASSUME NEW p \in Procs, Invoke(p)
    PROVE  UNCHANGED Store!svars
<1>1. UNCHANGED <<dir, data, acked, lost>>
  BY DEF Invoke, Put, PutFile, CopyTo, ImportOCI, Has, Begin, files
<1> QED
  BY <1>1, Stutter, SameDir

(* The cache is a content store: blobs appear whole, stay, are reported     *)
(* only when they are there, and are lost only to the environment.          *)
THEOREM CacheImplementsStore == Spec => ImplementsStore
<1>1. Init => Store!SInit
  BY DistinctAssumption DEF Init, Store!SInit, Valid, Regular
<1>2. IInv /\ [Next]_vars => [Store!SNext]_(Store!svars)
  <2> SUFFICES ASSUME IInv, [Next]_vars PROVE [Store!SNext]_(Store!svars)
    OBVIOUS
  <2>1. CASE UNCHANGED vars
    BY <2>1, Stutter, SameDir DEF vars, files
  <2> QED
    BY <2>1, InvokeRefines, StepRefines, EnvironmentRefines DEF Next
<1> QED
  BY <1>1, <1>2, Invariance, PTL DEF Spec, ImplementsStore, Store!StoreSpec
=============================================================================
