-------------------------- MODULE LocalImageBuild --------------------------
(***************************************************************************)
(* build.Build and BuildFile (build/build.go) with dockerlocal.Builder as  *)
(* their image builder (image/dockerlocal, image/dockerarchive): one build *)
(* of a package with its images, from the staging directory to the end.    *)
(*                                                                         *)
(* The local Docker is external.  Others use it too: they move the tag of  *)
(* the base image, and prune images.  A layer stands for its diff ID and   *)
(* an image for its layers; a temporary image is known by its entry, as    *)
(* its random reference is.                                                *)
(***************************************************************************)
EXTENDS Naturals, SequencesExt

CONSTANTS
    Entries,        \* image entries of the configuration
    Layers,
    Bases,          \* versions of the external image the Dockerfiles are FROM
    NoBase,         \* the local Docker does not have it
    Published,      \* versions with a repository digest that upstream-match accepts
    BaseLayers,     \* layers of a version
    Own,            \* layers the Dockerfile of an entry adds
    MaxFaults,      \* bound: failing steps
    MaxStuck,       \* bound: failing removals of images
    MaxMoves        \* bound: what others do in the local Docker

ASSUME ImagesAssumption ==
    /\ Published \subseteq Bases /\ NoBase \notin Bases
    /\ BaseLayers \in [Bases -> Seq(Layers)] /\ \A v \in Bases : BaseLayers[v] # <<>>
    /\ Own \in [Entries -> Seq(Layers)]
ASSUME BoundsAssumption == {MaxFaults, MaxStuck, MaxMoves} \subseteq Nat

VARIABLES
    images,     \* temporary images in the local Docker: their layers, <<>> if not there
    base,       \* the version its tag of the base image names
    pc, entry,
    results,    \* what the engine said of the images it built
    refs,       \* images the builder knows it has to remove
    rest,       \* those it has still to remove
    lock,       \* images.lock: the layers of each entry, with their sources
    blobs,      \* layers that are in the artifact
    dirs,       \* temporary files and directories
    ret,
    faults, stuck, moves

docker == <<images, base>>
found  == <<entry, results, refs>>
made   == <<lock, blobs>>
counts == <<faults, stuck, moves>>
vars   == <<docker, pc, found, rest, made, dirs, ret, counts>>

NoResult == [layers |-> <<>>, upstream |-> NoBase, prefix |-> 0]

Init ==
    /\ images = [e \in Entries |-> <<>>] /\ base \in Bases \union {NoBase}
    /\ pc = "start" /\ entry \in Entries
    /\ results = [e \in Entries |-> NoResult] /\ refs = {} /\ rest = {}
    /\ lock = [e \in Entries |-> <<>>] /\ blobs = {}
    /\ dirs = {} /\ ret = "none"
    /\ faults = 0 /\ stuck = 0 /\ moves = 0

----------------------------------------------------------------------------
InBuilder == pc \in {"engine", "inspect", "inspectBase", "save", "extract", "convert"}

(* Mutant of Owed: images are removed with the context that has ended.      *)
OwedWithContext == {}

(* The images that the builder's deferred function removes.                 *)
Owed == IF InBuilder THEN refs ELSE {}

(* An error ends the build: its directories go, then its images, then the   *)
(* staging directory of the caller.                                         *)
Fail ==
    /\ ret' = "failed" /\ rest' = Owed
    /\ IF Owed = {} THEN pc' = "over" /\ dirs' = {}
                    ELSE pc' = "remove" /\ dirs' = {"staging"}
    /\ UNCHANGED <<found, made>>

(* A step fails, an entry needs a remote builder, or the context ends.  The *)
(* removals ignore their errors and the end of the context.                 *)
Break ==
    /\ pc \notin {"remove", "over"} /\ faults < MaxFaults /\ faults' = faults + 1
    /\ Fail /\ UNCHANGED <<docker, stuck, moves>>

Goto(at) == pc' = at /\ UNCHANGED <<rest, ret>>

(* Configuration, build script, staging directory and documents.            *)
Stage ==
    /\ pc = "start"
    /\ dirs' = {"staging"} /\ Goto("engine")
    /\ UNCHANGED <<docker, found, made, counts>>

(* docker buildx build of one entry, from whatever version BuildKit finds.  *)
EngineBuild ==
    /\ pc = "engine"
    /\ \E e \in Entries \ refs, v \in Bases :
         images' = [images EXCEPT ![e] = BaseLayers[v] \o Own[e]] /\ entry' = e
    /\ dirs' = dirs \union {"dockerfile"} /\ Goto("inspect")
    /\ UNCHANGED <<base, results, refs, made, counts>>

(* docker image inspect of what was built.                                  *)
Inspect ==
    /\ pc = "inspect"
    /\ \/ /\ images[entry] # <<>>
          /\ results' = [results EXCEPT ![entry].layers = images[entry]]
          /\ Goto("inspectBase") /\ UNCHANGED <<entry, refs, made, dirs>>
       \/ images[entry] = <<>> /\ Fail
    /\ UNCHANGED <<docker, counts>>

(* The base image, as the local Docker has it by now, is the upstream of    *)
(* what was built if it is published and its layers are the first ones.     *)
Upstream(layers) ==
    IF base \in Published /\ IsPrefix(BaseLayers[base], layers)
    THEN [layers |-> layers, upstream |-> base, prefix |-> Len(BaseLayers[base])]
    ELSE [NoResult EXCEPT !.layers = layers]

InspectBase ==
    /\ pc = "inspectBase"
    /\ results' = [results EXCEPT ![entry] = Upstream(@.layers)]
    /\ refs' = refs \union {entry} /\ dirs' = dirs \ {"dockerfile"}
    /\ Goto(IF refs' = Entries THEN "save" ELSE "engine")
    /\ UNCHANGED <<docker, entry, made, counts>>

(* docker image save of all of them, into the builder's directory.          *)
Save ==
    /\ pc = "save"
    /\ \/ /\ \A e \in Entries : images[e] # <<>>
          /\ dirs' = dirs \union {"work"} /\ Goto("extract") /\ UNCHANGED <<found, made>>
       \/ /\ \E e \in Entries : images[e] = <<>>
          /\ Fail
    /\ UNCHANGED <<docker, counts>>

----------------------------------------------------------------------------
(* dockerarchive.Convert.                                                   *)

Extract ==
    /\ pc = "extract"
    /\ dirs' = dirs \union {"extracted"} /\ Goto("convert")
    /\ UNCHANGED <<docker, found, made, counts>>

(* Mutant of Embedded: the first own layer is taken for an upstream one.    *)
EmbeddedTooFew(e) ==
    {results[e].layers[i] : i \in {j \in DOMAIN results[e].layers : j > results[e].prefix + 1}}

(* The diff IDs a spec embeds, wherever in the image they stand.            *)
Embedded(e) ==
    {results[e].layers[i] : i \in {j \in DOMAIN results[e].layers : j > results[e].prefix}}

LockOf(e) ==
    [i \in DOMAIN results[e].layers |->
        [layer |-> results[e].layers[i],
         source |-> IF results[e].layers[i] \in Embedded(e) THEN "embed" ELSE "upstream"]]

(* The artifact, validated; then the builder's deferred removals.           *)
Convert ==
    /\ pc = "convert"
    /\ lock' = [e \in Entries |-> LockOf(e)] /\ blobs' = UNION {Embedded(e) : e \in Entries}
    /\ pc' = "remove" /\ rest' = refs /\ UNCHANGED ret
    /\ dirs' = dirs \ {"extracted"}
    /\ UNCHANGED <<docker, found, counts>>

(* The deferred removal of one image; whatever happens, the next one is due. *)
RemoveImage ==
    /\ pc = "remove"
    /\ \E e \in rest :
         /\ rest' = rest \ {e}
         /\ \/ images' = [images EXCEPT ![e] = <<>>] /\ UNCHANGED stuck
            \/ stuck < MaxStuck /\ stuck' = stuck + 1 /\ UNCHANGED images
    /\ \/ rest' # {} /\ UNCHANGED <<pc, dirs>>
       \/ rest' = {} /\ ret = "none" /\ pc' = "adopt" /\ UNCHANGED dirs
       \/ rest' = {} /\ ret = "failed" /\ pc' = "over" /\ dirs' = {}
    /\ UNCHANGED <<base, found, made, ret, faults, moves>>

(* The caller validates the artifact, copies it and closes it once.         *)
Adopt ==
    /\ pc = "adopt"
    /\ dirs' = dirs \ {"work"} /\ Goto("write")
    /\ UNCHANGED <<docker, found, made, counts>>

(* Documents, contents and the package; the staging directory goes.         *)
Write ==
    /\ pc = "write"
    /\ pc' = "over" /\ ret' = "ok" /\ dirs' = {}
    /\ UNCHANGED <<docker, found, rest, made, counts>>

----------------------------------------------------------------------------
(* Others pull the base image or remove it, or prune a temporary image.     *)
Meddle ==
    /\ moves < MaxMoves /\ moves' = moves + 1
    /\ \/ base' \in (Bases \union {NoBase}) \ {base} /\ UNCHANGED images
       \/ \E e \in Entries :
            images[e] # <<>> /\ images' = [images EXCEPT ![e] = <<>>] /\ UNCHANGED base
    /\ UNCHANGED <<pc, found, rest, made, dirs, ret, faults, stuck>>

Next ==
    \/ Stage \/ EngineBuild \/ Inspect \/ InspectBase \/ Save
    \/ Extract \/ Convert \/ RemoveImage \/ Adopt \/ Write
    \/ Break \/ Meddle

Spec == Init /\ [][Next]_vars

----------------------------------------------------------------------------
(* Every variable has its type, and the temporary files are those of the    *)
(* place the build is in.                                                   *)
TypeOK ==
    /\ images \in [Entries -> Seq(Layers)] /\ base \in Bases \union {NoBase}
    /\ entry \in Entries /\ rest \subseteq refs /\ refs \subseteq Entries
    /\ \A e \in Entries :
         /\ results[e].layers \in Seq(Layers) /\ results[e].upstream \in Published \union {NoBase}
         /\ results[e].prefix \in 0..Len(results[e].layers)
    /\ blobs \subseteq Layers
    /\ (pc = "remove") = (rest # {})
    /\ ("dockerfile" \in dirs) = (pc \in {"inspect", "inspectBase"})
    /\ ("extracted" \in dirs) = (pc = "convert")
    /\ ("work" \in dirs) = (pc \in {"extract", "convert", "adopt"} \/ (pc = "remove" /\ ret = "none"))
    /\ faults \in 0..MaxFaults /\ stuck \in 0..MaxStuck /\ moves \in 0..MaxMoves

(* A package that was built has every layer of every image it was built     *)
(* with: in the package, or in the published image that images.lock names   *)
(* as the upstream, whatever became of the tag of the base image meanwhile. *)
LayersObtainable ==
    ret = "ok" =>
        \A e \in Entries :
            /\ DOMAIN lock[e] = DOMAIN results[e].layers
            /\ \A i \in DOMAIN lock[e] :
                 /\ lock[e][i].layer = results[e].layers[i]
                 /\ \/ lock[e][i].source = "embed" /\ lock[e][i].layer \in blobs
                    \/ /\ lock[e][i].source = "upstream" /\ results[e].upstream \in Published
                       /\ lock[e][i].layer \in ToSet(BaseLayers[results[e].upstream])

(* A build that is over has left no file, and no image that the engine      *)
(* reported to the builder, unless its removal failed.                      *)
NothingLeftOver ==
    pc = "over" => dirs = {} /\ (stuck = 0 => \A e \in refs : images[e] = <<>>)

(* Every directory belongs to the step that a build is at, images wait for  *)
(* removal only while the builder returns, and none of it outlives a build. *)
BuildInv == TypeOK /\ NothingLeftOver

----------------------------------------------------------------------------
(* What BuildInv and LayersObtainable follow from, inductively.  Shapes of the       *)
(* records, and the places of a build.                                      *)
Results == [layers : Seq(Layers), upstream : Published \union {NoBase}, prefix : Nat]

Places == {"start", "engine", "inspect", "inspectBase", "save", "extract", "convert",
           "remove", "adopt", "write", "over"}

ShapeOK ==
    /\ results \in [Entries -> Results] /\ pc \in Places
    /\ ret \in {"none", "failed", "ok"} /\ dirs \subseteq {"staging", "dockerfile", "work", "extracted"}

(* What the builder knows of the images, by the place it is in.             *)
Progressed ==
    /\ pc = "start" => refs = {}
    /\ pc \in {"inspect", "inspectBase"} => entry \notin refs
    /\ pc \in {"save", "extract", "convert"} => refs = Entries
    /\ pc \notin {"remove", "over"} => ret = "none"
    /\ pc = "remove" => ret # "ok"
    /\ pc \in {"start", "over"} => dirs = {}

(* A result claims no upstream layers before the base image was inspected;  *)
(* then those it claims are the first ones of what was built.               *)
UpstreamIsPrefix ==
    \A e \in Entries :
        LET r == results[e]
        IN /\ e \notin refs => r.upstream = NoBase
           /\ IF r.upstream = NoBase THEN r.prefix = 0
              ELSE r.prefix = Len(BaseLayers[r.upstream]) /\ IsPrefix(BaseLayers[r.upstream], r.layers)

(* After the conversion the lock and the artifact are those of the results. *)
Converted ==
    pc \in {"adopt", "write"} \/ (pc = "remove" /\ ret = "none") \/ ret = "ok" =>
        lock = [e \in Entries |-> LockOf(e)] /\ blobs = UNION {Embedded(e) : e \in Entries}

(* The images that are no longer due have been removed.                     *)
Removed ==
    pc \in {"remove", "adopt", "write", "over"} /\ stuck = 0 =>
        \A e \in refs \ rest : images[e] = <<>>

IInv == TypeOK /\ ShapeOK /\ Progressed /\ UpstreamIsPrefix /\ Converted /\ Removed
=============================================================================
