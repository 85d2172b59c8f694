------------------------------ MODULE FifoLane ------------------------------
(***************************************************************************)
(* What withPerKeyLane promises its callers: the claims of one key run one *)
(* at a time, in the order they were made, and a claim may give up whether *)
(* it is running or waiting.                                               *)
(***************************************************************************)
EXTENDS Naturals

CONSTANTS Claims, Keys, None

VARIABLES pc,     \* [Claims -> {"new", "waiting", "inside", "left"}]
          key,    \* the key a claim was made on
          place,  \* its number in the order claims were made
          clock   \* the next number

vars == <<pc, key, place, clock>>

Earlier(d, c) == key[d] = key[c] /\ place[d] < place[c]

\* Every claim of c's key made before c is over.
First(c) == \A d \in Claims : Earlier(d, c) => pc[d] = "left"

Init == /\ pc = [c \in Claims |-> "new"]
        /\ key = [c \in Claims |-> None]
        /\ place = [c \in Claims |-> 0]
        /\ clock = 0

\* A claim on a key with nothing running or waiting goes straight in.
Claim(c, k) ==
    /\ pc[c] = "new"
    /\ pc' = [pc EXCEPT ![c] =
                IF \A d \in Claims : key[d] = k => pc[d] = "left"
                THEN "inside" ELSE "waiting"]
    /\ key' = [key EXCEPT ![c] = k]
    /\ place' = [place EXCEPT ![c] = clock]
    /\ clock' = clock + 1

Enter(c) ==
    /\ pc[c] = "waiting" /\ First(c)
    /\ pc' = [pc EXCEPT ![c] = "inside"]
    /\ UNCHANGED <<key, place, clock>>

Leave(c) ==
    /\ pc[c] \in {"waiting", "inside"}
    /\ pc' = [pc EXCEPT ![c] = "left"]
    /\ UNCHANGED <<key, place, clock>>

Next == \E c \in Claims :
          \/ \E k \in Keys : Claim(c, k)
          \/ Enter(c)
          \/ Leave(c)

Spec == Init /\ [][Next]_vars
=============================================================================
