---------------------------- MODULE AtomicFile ----------------------------
(***************************************************************************)
(* What the functions that replace a file promise: the file changes in one *)
(* step, to whole contents, and in no other step than the one in which the *)
(* call that changes it succeeds.  A power loss may bring back contents    *)
(* the file had before.                                                    *)
(***************************************************************************)
CONSTANTS Callers, Contents, Absent

VARIABLES
    content,    \* of the file, or Absent
    past,       \* contents a power loss may bring back
    outcome     \* of each caller's call

fvars == <<content, past, outcome>>

FInit ==
    /\ content = Absent /\ past = {Absent}
    /\ outcome = [c \in Callers |-> "none"]

Turn(c, from, to) == outcome[c] = from /\ outcome' = [outcome EXCEPT ![c] = to]

Begin(c) == (\E o \in {"none", "ok", "failed"} : Turn(c, o, "busy")) /\ UNCHANGED <<content, past>>

(* The one step that changes the file is the one that succeeds.            *)
Commit(c) ==
    /\ Turn(c, "busy", "ok")
    /\ content' \in Contents \union {Absent}
    /\ past' = past \union {content'}

(* A call that only reads, or that finds nothing to do.                    *)
Return(c) == Turn(c, "busy", "ok") /\ UNCHANGED <<content, past>>

Fail(c) == Turn(c, "busy", "failed") /\ UNCHANGED <<content, past>>

Die(c) == Turn(c, "busy", "none") /\ UNCHANGED <<content, past>>

PowerLoss ==
    /\ content' \in past /\ past' = {content'}
    /\ outcome' = [c \in Callers |-> "none"]

FNext == PowerLoss \/ \E c \in Callers : Begin(c) \/ Commit(c) \/ Return(c) \/ Fail(c) \/ Die(c)

FileSpec == FInit /\ [][FNext]_fvars
=============================================================================
