----------------------------- MODULE MCRequests -----------------------------
(***************************************************************************)
(* A root and its child, which asks.                                       *)
(***************************************************************************)
EXTENDS Requests, TLC

CONSTANTS root, child

UnderOf == [r \in Runs |-> IF r = child THEN {root} ELSE {}]

RunsOf == [q \in Reqs |-> child]

Alike == Permutations(Surfaces)
=============================================================================
