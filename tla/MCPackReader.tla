---- MODULE MCPackReader ----
(* One reader, two goroutines, and the callers that replace its file.       *)
EXTENDS PackReader, TLC
CONSTANTS p1, v1, v2, i1, i2, i3, g1, g2
MCLayout   == (v1 :> "V1") @@ (v2 :> "V2")
MCEntries  == (v1 :> {"manifest"}) @@ (v2 :> {"package"})
MCSymmetry == Permutations(Inodes) \union Permutations(Goroutines)
====
