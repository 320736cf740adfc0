---------------------------- MODULE MCBlobCache ----------------------------
(* Instances of BlobCache for TLC.                                          *)
EXTENDS BlobCache, TLC

CONSTANTS p1, p2, d1, d2, c1, c2, i1, i2, i3, i4

MCHash == (c1 :> d1) @@ (c2 :> d2)

(* A layout whose second blob does not hash to its name, and a sound one.   *)
MCLayouts == { <<[want |-> d1, src |-> c1], [want |-> d2, src |-> c1]>>,
               <<[want |-> d1, src |-> c1], [want |-> d2, src |-> c2]>> }

MCSymmetry == Permutations(Procs) \union Permutations(Inodes)
=============================================================================
