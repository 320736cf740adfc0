--------------------------- MODULE ContentStore ---------------------------
(***************************************************************************)
(* What the blob cache promises its callers: a set of digests whose bytes  *)
(* are available, which grows when a caller adds one and shrinks only when *)
(* the environment takes one away.                                         *)
(***************************************************************************)
CONSTANT Digests

VARIABLES
    stored,    \* digests whose bytes are available
    acked,     \* digests reported to some caller as available
    lost       \* digests the environment took and nobody has added again

svars == <<stored, acked, lost>>

SInit == stored = {} /\ acked = {} /\ lost = {}

(* A blob becomes available; whoever added it may or may not be told.      *)
Add(d) ==
    /\ stored' = stored \union {d}
    /\ acked' \in {acked, acked \union {d}}
    /\ lost' = lost \ {d}

(* A caller is told of a digest that somebody stored earlier.              *)
Confirm(d) ==
    /\ d \in stored \union lost
    /\ acked' = acked \union {d}
    /\ UNCHANGED <<stored, lost>>

(* The environment takes some; a power loss may bring earlier ones back.   *)
Lose(S) ==
    /\ stored \ S \subseteq stored' /\ stored' \subseteq stored \union S
    /\ stored' \subseteq Digests
    /\ lost' = lost \union S
    /\ UNCHANGED acked

SNext ==
    \/ \E d \in Digests : Add(d) \/ Confirm(d)
    \/ \E S \in SUBSET Digests : Lose(S)

StoreSpec == SInit /\ [][SNext]_svars
=============================================================================
