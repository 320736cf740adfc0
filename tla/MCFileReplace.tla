---- MODULE MCFileReplace ----
(* Two callers of one file of each kind.                                    *)
EXTENDS FileReplace, TLC
CONSTANTS p1, p2, v1, v2, i1, i2, i3, i4
MCSymmetry == Permutations(Procs) \union Permutations(Bodies) \union Permutations(Inodes)
====
