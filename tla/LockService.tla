---------------------------- MODULE LockService ----------------------------
(***************************************************************************)
(* What a lock promises to the processes that use it: one owner at a time, *)
(* only the owner is inside the section the lock protects, and only the    *)
(* owner gives the lock back.                                              *)
(***************************************************************************)
CONSTANTS Procs, Nobody

VARIABLES owner, inside

vars == <<owner, inside>>

Init == owner = Nobody /\ inside = {}

Take(p) == owner = Nobody /\ owner' = p /\ UNCHANGED inside

Enter(p) == owner = p /\ inside' = inside \cup {p} /\ UNCHANGED owner

Leave(p) == inside' = inside \ {p} /\ UNCHANGED owner

Give(p) == owner = p /\ p \notin inside /\ owner' = Nobody /\ UNCHANGED inside

Next == \E p \in Procs : Take(p) \/ Enter(p) \/ Leave(p) \/ Give(p)

Spec == Init /\ [][Next]_vars
=============================================================================
