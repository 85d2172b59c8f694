----------------------------- MODULE LogReaders -----------------------------
(***************************************************************************)
(* What the tails of a log promise: each is a reader with a place of its   *)
(* own, that only moves on, and never past the log.  A move hands it the   *)
(* rows between, all of them the store still holds, and none at or before  *)
(* the place it had; a row dropped meanwhile may be among them, if it was  *)
(* read before.                                                            *)
(***************************************************************************)
EXTENDS Integers, Sequences

CONSTANT Readers

VARIABLES
    size,       \* the rows of the log are 1..size
    gone,       \* those the store holds no more
    state,      \* [Readers -> {"off", "on", "over"}]
    mark,       \* [Readers -> 0..size], a reader's place
    got         \* [Readers -> Seq(SUBSET (1..size))], what it was handed

vars == <<size, gone, state, mark, got>>

Init ==
    /\ size = 0 /\ gone = {}
    /\ state = [t \in Readers |-> "off"]
    /\ mark = [t \in Readers |-> 0]
    /\ got = [t \in Readers |-> <<>>]

Grow ==
    /\ size' \in Nat /\ size' > size
    /\ UNCHANGED <<gone, state, mark, got>>

Drop ==
    /\ gone \subseteq gone' /\ gone' \subseteq 1..size
    /\ UNCHANGED <<size, state, mark, got>>

\* A reader starts anywhere within the log.
Open(t) ==
    /\ state[t] = "off"
    /\ state' = [state EXCEPT ![t] = "on"]
    /\ mark'[t] \in 0..size /\ mark' = [mark EXCEPT ![t] = mark'[t]]
    /\ UNCHANGED <<size, gone, got>>

\* All the rows of (a, b] the store still holds, and no other row.
AllOf(rows, a, b) ==
    /\ rows \subseteq (a + 1)..b
    /\ (a + 1)..b \subseteq rows \cup gone

\* A move over nothing hands on nothing.
Move(t, rows) ==
    /\ state[t] = "on"
    /\ mark'[t] \in mark[t]..size /\ mark' = [mark EXCEPT ![t] = mark'[t]]
    /\ AllOf(rows, mark[t], mark'[t])
    /\ got' = IF rows = {} THEN got
              ELSE [got EXCEPT ![t] = Append(@, rows)]
    /\ UNCHANGED <<size, gone, state>>

Close(t) ==
    /\ state[t] = "on"
    /\ state' = [state EXCEPT ![t] = "over"]
    /\ UNCHANGED <<size, gone, mark, got>>

Next ==
    \/ Grow \/ Drop
    \/ \E t \in Readers :
         \/ Open(t) \/ Close(t)
         \/ \E rows \in SUBSET ((mark[t] + 1)..size) : Move(t, rows)

Spec == Init /\ [][Next]_vars
=============================================================================
