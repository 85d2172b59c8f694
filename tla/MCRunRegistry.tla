---------------------------- MODULE MCRunRegistry ----------------------------
(***************************************************************************)
(* Small trees of runs for the registry.                                   *)
(***************************************************************************)
EXTENDS RunRegistry, TLC

CONSTANTS root, left, right, user, other, closer, none

\* A root with two children it launches.
Fork2 == [r \in {root, left, right} |-> IF r = root THEN none ELSE root]

\* A root, its child and its grandchild.
Chain3 == [r \in {root, left, right} |->
             CASE r = root -> none [] r = left -> root [] OTHER -> left]

\* A root with one child.
Chain2 == [r \in {root, left} |-> IF r = root THEN none ELSE root]

\* Two people who stop runs.
Alike == Permutations({user, other})
=============================================================================
