----------------------- MODULE LocalImageBuildProofs -----------------------
(***************************************************************************)
(* Proofs about LocalImageBuild: for any images, layers and versions of    *)
(* the base image, the package has every layer it does not leave to a      *)
(* published image, and no build leaves an image or a file behind.         *)
(***************************************************************************)
EXTENDS LocalImageBuild, SequenceTheorems, TLAPS

(* What InspectBase makes of the layers built has the shape of a result.    *)
LEMMA UpstreamType ==
    ASSUME NEW built \in Seq(Layers)
    PROVE  LET r == Upstream(built)
           IN /\ r \in Results /\ r.layers = built
              /\ r.prefix <= Len(built)
              /\ IF r.upstream = NoBase THEN r.prefix = 0
                 ELSE /\ r.prefix = Len(BaseLayers[r.upstream])
                      /\ IsPrefix(BaseLayers[r.upstream], built)
<1>1. /\ Published \subseteq Bases /\ NoBase \notin Published
      /\ \A v \in Bases : BaseLayers[v] \in Seq(Layers)
    BY ImagesAssumption
<1>2. CASE base \in Published /\ IsPrefix(BaseLayers[base], built)
    <2>1. Len(BaseLayers[base]) \in Nat /\ Len(BaseLayers[base]) <= Len(built)
        BY <1>1, <1>2 DEF IsPrefix
    <2> QED  BY <1>1, <1>2, <2>1 DEF Upstream, Results
<1>3. CASE ~(base \in Published /\ IsPrefix(BaseLayers[base], built))
    <2>1. Upstream(built) = [NoResult EXCEPT !.layers = built]
        BY <1>3 DEF Upstream
    <2>2. Upstream(built) = [layers |-> built, upstream |-> NoBase, prefix |-> 0]
        BY <2>1 DEF NoResult
    <2> QED  BY <1>1, <2>2 DEF Results
<1> QED  BY <1>2, <1>3

(* The layers that a result does not embed are layers of its upstream.      *)
LEMMA NotEmbeddedIsUpstream ==
    ASSUME ShapeOK, UpstreamIsPrefix, NEW e \in Entries,
           NEW i \in DOMAIN results[e].layers, results[e].layers[i] \notin Embedded(e)
    PROVE  /\ results[e].upstream \in Published
           /\ results[e].layers[i] \in ToSet(BaseLayers[results[e].upstream])
<1> DEFINE r == results[e]
<1>1. /\ r.layers \in Seq(Layers) /\ r.upstream \in Published \union {NoBase}
      /\ r.prefix \in Nat /\ i \in 1..Len(r.layers)
    BY DEF ShapeOK, Results
<1>2. i <= r.prefix
    BY <1>1 DEF Embedded
<1>3. r.upstream # NoBase
    BY <1>1, <1>2 DEF UpstreamIsPrefix
<1> DEFINE b == BaseLayers[r.upstream]
<1>4. r.upstream \in Published /\ b \in Seq(Layers)
    BY <1>1, <1>3, ImagesAssumption
<1>5. r.prefix = Len(b) /\ SubSeq(b, 1, Len(b)) = SubSeq(r.layers, 1, Len(b)) /\ Len(b) <= Len(r.layers)
    BY <1>3 DEF UpstreamIsPrefix, IsPrefix
<1>6. i \in 1..Len(b)
    BY <1>1, <1>2, <1>4, <1>5
<1>7. SubSeq(b, 1, Len(b))[i] = b[i]
    BY <1>4, <1>6
<1>8. SubSeq(r.layers, 1, Len(b))[i] = r.layers[i]
    BY <1>1, <1>4, <1>5, <1>6
<1>9. b[i] = r.layers[i]
    BY <1>5, <1>7, <1>8
<1>10. i \in DOMAIN b
    BY <1>4, <1>6
<1> QED  BY <1>4, <1>9, <1>10 DEF ToSet

(* So a package made from such results has all its layers.                  *)
LEMMA ConvertedHasLayers ==
    ASSUME ShapeOK, UpstreamIsPrefix, Converted
    PROVE  LayersObtainable
<1> SUFFICES ASSUME ret = "ok", NEW e \in Entries
             PROVE  /\ DOMAIN lock[e] = DOMAIN results[e].layers
                    /\ \A i \in DOMAIN lock[e] :
                         /\ lock[e][i].layer = results[e].layers[i]
                         /\ \/ lock[e][i].source = "embed" /\ lock[e][i].layer \in blobs
                            \/ /\ lock[e][i].source = "upstream"
                               /\ results[e].upstream \in Published
                               /\ lock[e][i].layer \in ToSet(BaseLayers[results[e].upstream])
    BY DEF LayersObtainable
<1>1. lock[e] = LockOf(e) /\ Embedded(e) \subseteq blobs
    BY DEF Converted
<1>2. DOMAIN lock[e] = DOMAIN results[e].layers
    BY <1>1 DEF LockOf
<1>3. ASSUME NEW i \in DOMAIN results[e].layers
      PROVE  /\ lock[e][i].layer = results[e].layers[i]
             /\ \/ lock[e][i].source = "embed" /\ lock[e][i].layer \in blobs
                \/ /\ lock[e][i].source = "upstream"
                   /\ results[e].upstream \in Published
                   /\ lock[e][i].layer \in ToSet(BaseLayers[results[e].upstream])
    <2>1. lock[e][i] = [layer |-> results[e].layers[i],
                        source |-> IF results[e].layers[i] \in Embedded(e)
                                   THEN "embed" ELSE "upstream"]
        BY <1>1 DEF LockOf
    <2>2. CASE results[e].layers[i] \in Embedded(e)
        BY <1>1, <2>1, <2>2
    <2>3. CASE results[e].layers[i] \notin Embedded(e)
        BY <2>1, <2>3, NotEmbeddedIsUpstream
    <2> QED  BY <2>2, <2>3
<1> QED  BY <1>2, <1>3

(* Nor does a build that is over leave anything.                            *)
LEMMA RemovedLeavesNothing ==
    ASSUME TypeOK, Progressed, Removed
    PROVE  NothingLeftOver
<1> SUFFICES ASSUME pc = "over"
             PROVE  dirs = {} /\ (stuck = 0 => \A e \in refs : images[e] = <<>>)
    BY DEF NothingLeftOver
<1>1. rest = {}
    BY DEF TypeOK
<1> QED  BY <1>1 DEF Progressed, Removed

(* Init of IInv: nothing is staged, built or known.                         *)
LEMMA InitIInv == Init => IInv
<1> SUFFICES ASSUME Init PROVE IInv
    OBVIOUS
<1>1. <<>> \in Seq(Layers) /\ Len(<<>>) = 0
    OBVIOUS
<1>2. NoResult \in Results /\ NoResult.layers = <<>> /\ NoResult.upstream = NoBase /\ NoResult.prefix = 0
    BY <1>1 DEF NoResult, Results
<1>3. ShapeOK
    BY <1>2 DEF Init, ShapeOK, Places
<1>4. TypeOK
    <2>1. 0 \in 0..MaxFaults /\ 0 \in 0..MaxStuck /\ 0 \in 0..MaxMoves
        BY BoundsAssumption
    <2>2. \A e \in Entries : results[e] = NoResult
        BY DEF Init
    <2>3. \A e \in Entries :
             /\ results[e].layers \in Seq(Layers) /\ results[e].upstream \in Published \union {NoBase}
             /\ results[e].prefix \in 0..Len(results[e].layers)
        <3>1. 0 \in 0..Len(NoResult.layers)
            BY <1>1, <1>2
        <3> QED  BY <1>1, <1>2, <2>2, <3>1
    <2>4. images \in [Entries -> Seq(Layers)]
        BY <1>1 DEF Init
    <2> QED  BY <2>1, <2>3, <2>4 DEF Init, TypeOK
<1>5. Progressed /\ UpstreamIsPrefix /\ Converted /\ Removed
    BY <1>2 DEF Init, Progressed, UpstreamIsPrefix, Converted, Removed
<1> QED  BY <1>3, <1>4, <1>5 DEF IInv

(* Steps that leave what was found and made alone, and the place too or it  *)
(* moves on to "to", keep what is said of the results.                      *)
LEMMA ResultsKept ==
    ASSUME IInv, UNCHANGED <<found, made>>,
           ret' = "ok" \/ pc' \in {"adopt", "write"} \/ (pc' = "remove" /\ ret' = "none") =>
             pc \in {"adopt", "write"} \/ (pc = "remove" /\ ret = "none") \/ ret = "ok"
    PROVE  UpstreamIsPrefix' /\ Converted'
BY DEF IInv, found, made, UpstreamIsPrefix, Converted, LockOf, Embedded

(* An error ends the build: Owed images wait for removal.                   *)
LEMMA FailKeeps ==
    ASSUME IInv, Fail, pc \notin {"remove", "over"}, UNCHANGED <<images, base, stuck>>,
           faults' \in 0..MaxFaults, moves' \in 0..MaxMoves
    PROVE  IInv'
<1> USE DEF IInv
<1>1. ret = "none" /\ rest = {} /\ UNCHANGED <<entry, results, refs, lock, blobs>>
    BY DEF Progressed, TypeOK, Fail, found, made
<1>2. Owed \subseteq refs
    BY DEF Owed
<1>3. /\ ret' = "failed" /\ rest' = Owed
      /\ \/ Owed = {} /\ pc' = "over" /\ dirs' = {}
         \/ Owed # {} /\ pc' = "remove" /\ dirs' = {"staging"}
    BY DEF Fail
<1>4. TypeOK' /\ ShapeOK' /\ Progressed'
    BY <1>1, <1>2, <1>3 DEF TypeOK, ShapeOK, Progressed, Places
<1>5. UpstreamIsPrefix' /\ Converted'
    BY <1>1, <1>3, ResultsKept DEF Fail
<1>6. Removed'
    <2>1. CASE InBuilder
        BY <1>1, <1>3, <2>1 DEF Removed, Owed
    <2>2. CASE ~InBuilder
        <3>1. pc \in {"start", "adopt", "write"}
            BY <2>2 DEF InBuilder, ShapeOK, Places
        <3> QED  BY <1>1, <1>3, <2>2, <3>1 DEF Removed, Owed, Progressed
    <2> QED  BY <2>1, <2>2
<1> QED  BY <1>4, <1>5, <1>6

(* Break: any step that can fail does.                                      *)
LEMMA BreakKeeps ==
    ASSUME IInv, Break PROVE IInv'
<1>1. faults' \in 0..MaxFaults /\ moves' \in 0..MaxMoves
    BY BoundsAssumption DEF Break, IInv, TypeOK
<1> QED  BY <1>1, FailKeeps DEF Break, docker

(* The steps that only move the build on.                                   *)
LEMMA WalkKeeps ==
    ASSUME IInv, Stage \/ Extract \/ Adopt \/ Write
    PROVE  IInv'
<1> USE DEF IInv
<1>1. UNCHANGED <<images, base, entry, results, refs, lock, blobs, rest, faults, stuck, moves>>
    BY DEF Stage, Extract, Adopt, Write, Goto, docker, found, made, counts
<1>2. TypeOK'
    BY <1>1 DEF Stage, Extract, Adopt, Write, Goto, TypeOK, Progressed
<1>3. ShapeOK' /\ Progressed'
    BY <1>1 DEF Stage, Extract, Adopt, Write, Goto, ShapeOK, Progressed, Places
<1>4. UpstreamIsPrefix' /\ Converted'
    BY ResultsKept DEF Stage, Extract, Adopt, Write, Goto, Progressed
<1>5. Removed'
    BY <1>1 DEF Stage, Extract, Adopt, Write, Goto, Removed
<1> QED  BY <1>2, <1>3, <1>4, <1>5

(* docker buildx build: an image appears for an entry not yet known.        *)
LEMMA EngineBuildKeeps ==
    ASSUME IInv, EngineBuild PROVE IInv'
<1> USE DEF IInv
<1>1. PICK e \in Entries \ refs, v \in Bases :
         images' = [images EXCEPT ![e] = BaseLayers[v] \o Own[e]] /\ entry' = e
    BY DEF EngineBuild
<1>2. /\ pc = "engine" /\ pc' = "inspect" /\ dirs' = dirs \union {"dockerfile"}
      /\ UNCHANGED <<base, results, refs, lock, blobs, rest, ret, faults, stuck, moves>>
    BY DEF EngineBuild, Goto, made, counts
<1>3. images' \in [Entries -> Seq(Layers)]
    <2>1. BaseLayers[v] \in Seq(Layers) /\ Own[e] \in Seq(Layers)
        BY ImagesAssumption
    <2>2. BaseLayers[v] \o Own[e] \in Seq(Layers)
        BY <2>1
    <2> QED  BY <1>1, <2>2 DEF TypeOK
<1>4. TypeOK'
    BY <1>1, <1>2, <1>3 DEF TypeOK
<1>5. ShapeOK' /\ Progressed'
    BY <1>1, <1>2 DEF ShapeOK, Progressed, Places
<1>6. UpstreamIsPrefix' /\ Converted' /\ Removed'
    BY <1>2 DEF UpstreamIsPrefix, Converted, Removed, Progressed, LockOf, Embedded
<1> QED  BY <1>4, <1>5, <1>6

(* docker image inspect of what was built, or it is gone.                   *)
LEMMA InspectKeeps ==
    ASSUME IInv, Inspect PROVE IInv'
<1> USE DEF IInv
<1>1. UNCHANGED <<images, base, faults, stuck, moves>> /\ pc = "inspect"
    BY DEF Inspect, docker, counts
<1>2. CASE Fail
    BY <1>1, <1>2, FailKeeps DEF TypeOK
<1>3. CASE /\ results' = [results EXCEPT ![entry].layers = images[entry]]
           /\ Goto("inspectBase") /\ UNCHANGED <<entry, refs, made, dirs>>
    <2>1. /\ entry \in Entries \ refs /\ images[entry] \in Seq(Layers)
          /\ Len(images[entry]) \in Nat /\ results[entry] \in Results
        BY <1>1 DEF TypeOK, Progressed, ShapeOK
    <2>2. results[entry].upstream = NoBase /\ results[entry].prefix = 0
        BY <2>1 DEF UpstreamIsPrefix
    <2>3. /\ results'[entry].layers = images[entry]
          /\ results'[entry].upstream = NoBase /\ results'[entry].prefix = 0
          /\ results' \in [Entries -> Results]
          /\ \A e \in Entries \ {entry} : results'[e] = results[e]
        BY <1>3, <2>1, <2>2 DEF ShapeOK, Results
    <2>4. TypeOK'
        BY <1>1, <1>3, <2>1, <2>3 DEF TypeOK, Goto, made
    <2>5. ShapeOK' /\ Progressed'
        BY <1>1, <1>3, <2>3 DEF ShapeOK, Progressed, Goto, Places
    <2>6. UpstreamIsPrefix'
        BY <1>3, <2>1, <2>3 DEF UpstreamIsPrefix
    <2>7. Converted' /\ Removed'
        BY <1>1, <1>3 DEF Converted, Removed, Goto, Progressed
    <2> QED  BY <2>4, <2>5, <2>6, <2>7
<1> QED  BY <1>2, <1>3 DEF Inspect

(* The base image is inspected as it is by now: the entry's image is one    *)
(* the builder will remove.                                                 *)
LEMMA InspectBaseKeeps ==
    ASSUME IInv, InspectBase PROVE IInv'
<1> USE DEF IInv
<1>1. /\ pc = "inspectBase" /\ refs' = refs \union {entry} /\ dirs' = dirs \ {"dockerfile"}
      /\ UNCHANGED <<images, base, entry, lock, blobs, rest, ret, faults, stuck, moves>>
      /\ \/ refs' = Entries /\ pc' = "save"
         \/ refs' # Entries /\ pc' = "engine"
    BY DEF InspectBase, Goto, docker, made, counts
<1>2. entry \in Entries \ refs /\ results[entry].layers \in Seq(Layers)
    BY <1>1 DEF TypeOK, Progressed
<1> DEFINE r == Upstream(results[entry].layers)
<1>3. results' = [results EXCEPT ![entry] = r]
    BY DEF InspectBase
<1>4. /\ r \in Results /\ r.layers = results[entry].layers /\ r.prefix <= Len(r.layers)
      /\ IF r.upstream = NoBase THEN r.prefix = 0
         ELSE r.prefix = Len(BaseLayers[r.upstream]) /\ IsPrefix(BaseLayers[r.upstream], r.layers)
    BY <1>2, UpstreamType
<1> HIDE DEF r
<1>5. /\ results' \in [Entries -> Results] /\ results'[entry] = r
      /\ \A e \in Entries \ {entry} : results'[e] = results[e]
    BY <1>2, <1>3, <1>4 DEF ShapeOK
<1>6. r.prefix \in 0..Len(r.layers) /\ r.layers \in Seq(Layers)
      /\ r.upstream \in Published \union {NoBase}
    BY <1>2, <1>4 DEF Results
<1>7. TypeOK'
    <2>1. \A e \in Entries :
             /\ results'[e].layers \in Seq(Layers) /\ results'[e].upstream \in Published \union {NoBase}
             /\ results'[e].prefix \in 0..Len(results'[e].layers)
        BY <1>5, <1>6 DEF TypeOK
    <2>2. refs' \subseteq Entries /\ rest' \subseteq refs'
        BY <1>1, <1>2 DEF TypeOK
    <2>3. /\ (pc' = "remove") = (rest' # {})
          /\ ("dockerfile" \in dirs') = (pc' \in {"inspect", "inspectBase"})
          /\ ("extracted" \in dirs') = (pc' = "convert")
          /\ ("work" \in dirs')
               = (pc' \in {"extract", "convert", "adopt"} \/ (pc' = "remove" /\ ret' = "none"))
        BY <1>1 DEF TypeOK
    <2> QED  BY <1>1, <2>1, <2>2, <2>3 DEF TypeOK
<1>8. ShapeOK' /\ Progressed'
    BY <1>1, <1>5 DEF ShapeOK, Progressed, Places
<1>9. UpstreamIsPrefix'
    BY <1>1, <1>2, <1>4, <1>5 DEF UpstreamIsPrefix
<1>10. Converted' /\ Removed'
    BY <1>1 DEF Converted, Removed, Progressed
<1> QED  BY <1>7, <1>8, <1>9, <1>10

(* docker image save, or one of the images is gone.                         *)
LEMMA SaveKeeps ==
    ASSUME IInv, Save PROVE IInv'
<1> USE DEF IInv
<1>1. UNCHANGED <<images, base, faults, stuck, moves>> /\ pc = "save"
    BY DEF Save, docker, counts
<1>2. CASE Fail
    BY <1>1, <1>2, FailKeeps DEF TypeOK
<1>3. CASE dirs' = dirs \union {"work"} /\ Goto("extract") /\ UNCHANGED <<found, made>>
    <2>1. TypeOK' /\ ShapeOK' /\ Progressed'
        BY <1>1, <1>3 DEF TypeOK, ShapeOK, Progressed, Goto, found, made, Places
    <2>2. UpstreamIsPrefix' /\ Converted'
        BY <1>3, ResultsKept DEF Goto, Progressed
    <2>3. Removed'
        BY <1>1, <1>3 DEF Removed, Goto
    <2> QED  BY <2>1, <2>2, <2>3
<1> QED  BY <1>2, <1>3 DEF Save

(* The artifact is made; every image of the build is due for removal.       *)
LEMMA ConvertKeeps ==
    ASSUME IInv, Convert PROVE IInv'
<1> USE DEF IInv
<1>1. /\ pc = "convert" /\ pc' = "remove" /\ rest' = refs /\ ret' = ret
      /\ dirs' = dirs \ {"extracted"}
      /\ UNCHANGED <<images, base, entry, results, refs, faults, stuck, moves>>
      /\ lock' = [e \in Entries |-> LockOf(e)]
      /\ blobs' = UNION {Embedded(e) : e \in Entries}
    BY DEF Convert, docker, found, counts
<1>2. refs = Entries /\ refs # {} /\ ret = "none"
    BY <1>1 DEF Progressed, TypeOK
<1>3. blobs' \subseteq Layers
    <2>1. \A e \in Entries : Embedded(e) \subseteq Layers
        BY DEF Embedded, TypeOK
    <2> QED  BY <1>1, <2>1
<1>4. TypeOK' /\ ShapeOK' /\ Progressed'
    BY <1>1, <1>2, <1>3 DEF TypeOK, ShapeOK, Progressed, Places
<1>5. UpstreamIsPrefix' /\ Converted'
    BY <1>1 DEF UpstreamIsPrefix, Converted, LockOf, Embedded
<1>6. Removed'
    BY <1>1 DEF Removed
<1> QED  BY <1>4, <1>5, <1>6

(* One removal, which may fail; the next one is due whatever happens.       *)
LEMMA RemoveImageKeeps ==
    ASSUME IInv, RemoveImage PROVE IInv'
<1> USE DEF IInv
<1>1. PICK e \in rest :
         /\ rest' = rest \ {e}
         /\ \/ images' = [images EXCEPT ![e] = <<>>] /\ UNCHANGED stuck
            \/ stuck < MaxStuck /\ stuck' = stuck + 1 /\ UNCHANGED images
    BY DEF RemoveImage
<1>2. /\ pc = "remove" /\ UNCHANGED <<base, entry, results, refs, lock, blobs, ret, faults, moves>>
      /\ \/ rest' # {} /\ UNCHANGED <<pc, dirs>>
         \/ rest' = {} /\ ret = "none" /\ pc' = "adopt" /\ UNCHANGED dirs
         \/ rest' = {} /\ ret = "failed" /\ pc' = "over" /\ dirs' = {}
    BY DEF RemoveImage, found, made
<1>3. /\ images' \in [Entries -> Seq(Layers)] /\ e \in Entries
      /\ stuck' \in 0..MaxStuck /\ (stuck' = 0 => stuck = 0 /\ images'[e] = <<>>)
      /\ \A d \in Entries : images[d] = <<>> => images'[d] = <<>>
    <2>1. <<>> \in Seq(Layers) /\ e \in Entries
        BY DEF TypeOK
    <2>2. CASE images' = [images EXCEPT ![e] = <<>>] /\ UNCHANGED stuck
        BY <2>1, <2>2 DEF TypeOK
    <2>3. CASE stuck < MaxStuck /\ stuck' = stuck + 1 /\ UNCHANGED images
        BY <2>1, <2>3, BoundsAssumption DEF TypeOK
    <2> QED  BY <1>1, <2>2, <2>3
<1>4. ShapeOK' /\ Progressed'
    BY <1>1, <1>2 DEF TypeOK, ShapeOK, Progressed, Places
<1>5. TypeOK'
    <2>1. rest' \subseteq refs'
        BY <1>1, <1>2 DEF TypeOK
    <2>2. (pc' = "remove") = (rest' # {})
        BY <1>1, <1>2
    <2>3. /\ ("dockerfile" \in dirs') = (pc' \in {"inspect", "inspectBase"})
          /\ ("extracted" \in dirs') = (pc' = "convert")
        BY <1>2 DEF TypeOK
    <2>4. ("work" \in dirs')
            = (pc' \in {"extract", "convert", "adopt"} \/ (pc' = "remove" /\ ret' = "none"))
        BY <1>2 DEF TypeOK
    <2> QED  BY <1>2, <1>3, <2>1, <2>2, <2>3, <2>4 DEF TypeOK
<1>6. UpstreamIsPrefix' /\ Converted'
    BY <1>2, ResultsKept DEF found, made, Progressed
<1>7. Removed'
    BY <1>1, <1>2, <1>3 DEF Removed, TypeOK
<1> QED  BY <1>4, <1>5, <1>6, <1>7

(* Others move the base image's tag or prune a temporary image.             *)
LEMMA MeddleKeeps ==
    ASSUME IInv, Meddle PROVE IInv'
<1> USE DEF IInv
<1>1. UNCHANGED <<pc, entry, results, refs, rest, lock, blobs, dirs, ret, faults, stuck>>
    BY DEF Meddle, found, made
<1>2. /\ images' \in [Entries -> Seq(Layers)] /\ base' \in Bases \union {NoBase}
      /\ moves' \in 0..MaxMoves
      /\ \A d \in Entries : images[d] = <<>> => images'[d] = <<>>
    <2>1. <<>> \in Seq(Layers)
        OBVIOUS
    <2>2. moves' \in 0..MaxMoves
        BY BoundsAssumption DEF Meddle, TypeOK
    <2>3. CASE base' \in (Bases \union {NoBase}) \ {base} /\ UNCHANGED images
        BY <2>2, <2>3 DEF TypeOK
    <2>4. ASSUME NEW e \in Entries, images' = [images EXCEPT ![e] = <<>>], UNCHANGED base
          PROVE  /\ images' \in [Entries -> Seq(Layers)]
                 /\ \A d \in Entries : images[d] = <<>> => images'[d] = <<>>
        BY <2>1, <2>4 DEF TypeOK
    <2>5. base \in Bases \union {NoBase}
        BY DEF TypeOK
    <2> QED  BY <2>2, <2>3, <2>4, <2>5 DEF Meddle
<1>3. TypeOK' /\ ShapeOK' /\ Progressed'
    BY <1>1, <1>2 DEF TypeOK, ShapeOK, Progressed
<1>4. UpstreamIsPrefix' /\ Converted'
    BY <1>1, ResultsKept DEF found, made
<1>5. Removed'
    BY <1>1, <1>2 DEF Removed, TypeOK
<1> QED  BY <1>3, <1>4, <1>5

(* Every step keeps IInv.                                                   *)
LEMMA NextIInv == IInv /\ [Next]_vars => IInv'
<1> SUFFICES ASSUME IInv, [Next]_vars PROVE IInv'
    OBVIOUS
<1>1. CASE UNCHANGED vars
    <2> USE <1>1 DEF vars, docker, found, made, counts, IInv
    <2>1. TypeOK' /\ ShapeOK' /\ Progressed'
        BY DEF TypeOK, ShapeOK, Progressed
    <2>2. UpstreamIsPrefix' /\ Converted' /\ Removed'
        BY DEF UpstreamIsPrefix, Converted, Removed, LockOf, Embedded
    <2> QED  BY <2>1, <2>2
<1> QED  BY <1>1, WalkKeeps, EngineBuildKeeps, InspectKeeps, InspectBaseKeeps, SaveKeeps,
            ConvertKeeps, RemoveImageKeeps, BreakKeeps, MeddleKeeps DEF Next

(* The inductive invariant of a build.                                      *)
LEMMA SpecIInv == Spec => []IInv
BY InitIInv, NextIInv, PTL DEF Spec

(* A build that is over has left no file, and no image that the engine      *)
(* reported unless its removal failed, wherever it broke off and whatever   *)
(* others did in the local Docker.                                          *)
THEOREM BuildLeavesNothing == Spec => []BuildInv
<1>1. IInv => BuildInv
    BY RemovedLeavesNothing DEF IInv, BuildInv
<1> QED  BY <1>1, SpecIInv, PTL

(* Every layer of every image of a finished package is in the package, or   *)
(* in the published image that images.lock names as its upstream, even when *)
(* the tag of the base image moved between the build and the inspection.    *)
THEOREM PackageHasItsLayers == Spec => []LayersObtainable
<1>1. IInv => LayersObtainable
    BY ConvertedHasLayers DEF IInv
<1> QED  BY <1>1, SpecIInv, PTL
=============================================================================
