---------------------------- MODULE ArchivePaths ----------------------------
(***************************************************************************)
(* The names in a container and what package archive makes of them: the    *)
(* lexical rules of reader.go and extract.go.                              *)
(*                                                                         *)
(* A name is the sequence of its components.  "/" as the first component   *)
(* makes it absolute (as "C:" does); "a\b" is one component that holds a   *)
(* backslash, which every reader of names turns into a slash.  The length  *)
(* of a name is counted in components.  The empty sequence is "" before    *)
(* and "." after path.Clean.                                               *)
(***************************************************************************)
EXTENDS Integers, SequencesExt

Backslashed == "a\\b"

(* The provers do not know a literal for a string.                          *)
ASSUME LiteralsAssumption == {"a", "b", "none", "default"} \subseteq STRING

(* strings.ReplaceAll(name, "\\", "/")                                      *)
Slashed(name) ==
    FlattenSeq([i \in DOMAIN name |->
                  IF name[i] = Backslashed THEN <<"a", "b">> ELSE <<name[i]>>])

Absolute(name) == name # <<>> /\ name[1] = "/"

(* One component of path.Clean: "." goes, ".." takes the component before   *)
(* it, and stays where there is none to take.                               *)
CleanStep(done, c) ==
    CASE c = "." -> done
      [] c = ".." /\ done = <<"/">> -> done
      [] c = ".." /\ done # <<>> /\ done # <<"/">> /\ Last(done) # ".." -> Front(done)
      [] OTHER -> Append(done, c)

Clean(name) == FoldLeft(CleanStep, <<>>, name)

(* normalizeName                                                            *)
Normal(name) == Clean(Slashed(name))

Parent(path) == IF Len(path) <= 1 THEN <<>> ELSE Front(path)

(* Not ".." and not under "../": what a cleaned relative name must be.      *)
Local(path) == path = <<>> \/ path[1] # ".."

(* validateExtractionPath: a name relative to the destination.  Only the    *)
(* entry of a directory may name the destination itself.                    *)
ValidPath(name, maxPath, rootDirectory) ==
    /\ ~Absolute(Slashed(name))
    /\ Normal(name) = <<>> => rootDirectory
    /\ Local(Normal(name))
    /\ Len(Slashed(name)) <= maxPath

(* validateSymlinkTarget: from the directory of the link, lexically, the    *)
(* target is not above the destination.                                     *)
ValidTarget(path, target, maxPath) ==
    /\ target # <<>>
    /\ ~Absolute(Slashed(target))
    /\ Len(Slashed(target)) <= maxPath
    /\ Local(Clean(Parent(path) \o Normal(target)))

(* localArchivePath: what Write takes from a file system.                   *)
LocalArchivePath(path) ==
    /\ path # <<>>
    /\ Clean(path) = path
    /\ path[1] \notin {"/", ".."}
    /\ Slashed(path) = path

-----------------------------------------------------------------------------
(* References: the same questions asked of a walk down the name, component  *)
(* by component, with a count of how deep it is.                            *)

DepthAfter(name, i) ==
    Cardinality({k \in 1..i : name[k] \notin {".", ".."}}) - Cardinality({k \in 1..i : name[k] = ".."})

ClimbsOut(name) == \E i \in 1..Len(name) : DepthAfter(name, i) < 0

(* What Clean leaves of a relative name: u times "..", and then others.     *)
UpsThenPlain(x, u) ==
    /\ x \in Seq(STRING) /\ u \in 0..Len(x)
    /\ \A k \in 1..u : x[k] = ".."
    /\ \A k \in (u+1)..Len(x) : x[k] \notin {"..", ".", "/"}
=============================================================================
