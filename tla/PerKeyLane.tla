----------------------------- MODULE PerKeyLane -----------------------------
(***************************************************************************)
(* withPerKeyLane (utils/core/perKeyQueue.ts): one exclusive first-come    *)
(* lane per key, as a chain of Deferreds.  A claim installs its own        *)
(* Deferred as the lane's tail in one synchronous step, waits for the one  *)
(* it replaced, and completes its own on the way out: for good if it had   *)
(* entered, and otherwise with the wait for its own predecessor, so that   *)
(* its successor still waits for whoever holds the lane.                   *)
(*                                                                         *)
(* A claim is one run of the wrapped effect, which is never run twice: a   *)
(* Deferred is not reset.  The model names it by its fiber.  JavaScript    *)
(* runs the steps below one at a time; between them fibers interleave.     *)
(***************************************************************************)
EXTENDS Naturals, FiniteSets

CONSTANTS
    Claims,     \* the runs of an effect wrapped with the lane
    Keys,
    None        \* undefined

Lane == [tail : Claims, fibers : Nat]

ASSUME ClaimsFinite == IsFiniteSet(Claims)
ASSUME NoneIsNone == None \notin Claims \cup Keys \cup Lane

VARIABLES
    lanes,      \* lanes.get(k): the lane of k, or None
    pc,         \* where each claim is
    key,        \* the key it was made on
    previous,   \* the tail it replaced
    awaits,     \* the claim whose Deferred it is waiting for
    mine,       \* its own Deferred: pending, done, or the wait for previous
    place,      \* history: its number in the order of the claims
    clock       \* history: the next number

vars == <<lanes, pc, key, previous, awaits, mine, place, clock>>

MaybeClaim == Claims \cup {None}

TypeOK ==
    /\ lanes \in [Keys -> Lane \cup {None}]
    /\ pc \in [Claims -> {"new", "waiting", "inside", "left"}]
    /\ key \in [Claims -> Keys \cup {None}]
    /\ previous \in [Claims -> MaybeClaim]
    /\ awaits \in [Claims -> MaybeClaim]
    /\ mine \in [Claims -> {"pending", "done", "forwards"}]
    /\ place \in [Claims -> Nat]
    /\ clock \in Nat

Init ==
    /\ lanes = [k \in Keys |-> None]
    /\ pc = [c \in Claims |-> "new"]
    /\ key = [c \in Claims |-> None]
    /\ previous = [c \in Claims |-> None]
    /\ awaits = [c \in Claims |-> None]
    /\ mine = [c \in Claims |-> "pending"]
    /\ place = [c \in Claims |-> 0]
    /\ clock = 0

\* Fault: a tail whose claim is over is taken for an idle lane.
BugIdleTail(k) == IF lanes[k] = None THEN None
                  ELSE IF pc[lanes[k].tail] = "left" THEN None
                  ELSE lanes[k].tail

\* existing?.tail
TailOf(k) == IF lanes[k] = None THEN None ELSE lanes[k].tail

FibersOf(k) == IF lanes[k] = None THEN 0 ELSE lanes[k].fibers

\* The synchronous claim: swap the tail, count the fiber, and with no
\* predecessor run at once.
Claim(c, k) ==
    /\ pc[c] = "new"
    /\ lanes' = [lanes EXCEPT ![k] = [tail   |-> c,
                                      fibers |-> FibersOf(k) + 1]]
    /\ previous' = [previous EXCEPT ![c] = TailOf(k)]
    /\ awaits' = [awaits EXCEPT ![c] = TailOf(k)]
    /\ pc' = [pc EXCEPT ![c] = IF TailOf(k) = None
                               THEN "inside" ELSE "waiting"]
    /\ key' = [key EXCEPT ![c] = k]
    /\ place' = [place EXCEPT ![c] = clock]
    /\ clock' = clock + 1
    /\ UNCHANGED mine

\* The Deferred c waits for is done: entered = true, and self runs.
Enter(c) ==
    /\ pc[c] = "waiting"
    /\ mine[awaits[c]] = "done"
    /\ pc' = [pc EXCEPT ![c] = "inside"]
    /\ UNCHANGED <<lanes, key, previous, awaits, mine, place, clock>>

\* It was completed with a wait of its own: c waits for that one.
Forward(c) ==
    /\ pc[c] = "waiting"
    /\ mine[awaits[c]] = "forwards"
    /\ awaits' = [awaits EXCEPT ![c] = previous[awaits[c]]]
    /\ UNCHANGED <<lanes, pc, key, previous, mine, place, clock>>

Entered(c) == previous[c] = None \/ pc[c] = "inside"

\* Fault: an interrupted waiter wakes nobody.
BugWakeNobody(c) == IF Entered(c) THEN "done" ELSE "pending"

\* What the finalizer of `ensuring` completes the claim's Deferred with.
HandOff(c) == IF Entered(c) THEN "done" ELSE "forwards"

\* Fault: the lane stays in the map after its last fiber.
BugLaneStays(k) == [lanes[k] EXCEPT !.fibers = @ - 1]

\* The lane with one fiber less: it leaves the map with its last fiber.
OneLess(k) == IF FibersOf(k) = 1 THEN None
              ELSE [lanes[k] EXCEPT !.fibers = @ - 1]

\* The finalizer.  Inside, self succeeded, failed or was interrupted;
\* waiting, the wait was interrupted.
Leave(c) ==
    /\ pc[c] \in {"waiting", "inside"}
    /\ mine' = [mine EXCEPT ![c] = HandOff(c)]
    /\ lanes' = [lanes EXCEPT ![key[c]] = OneLess(key[c])]
    /\ pc' = [pc EXCEPT ![c] = "left"]
    /\ UNCHANGED <<key, previous, awaits, place, clock>>

Next == \E c \in Claims :
          \/ \E k \in Keys : Claim(c, k)
          \/ Enter(c)
          \/ Forward(c)
          \/ Leave(c)

Spec == Init /\ [][Next]_vars

\* A resumed fiber runs, and what runs on the lane ends: the lane's callers
\* hold it for one bounded write or request.  No claim need be made, and no
\* waiter need be interrupted.
Fairness == \A c \in Claims : /\ WF_vars(Enter(c))
                              /\ WF_vars(Forward(c))
                              /\ WF_vars(pc[c] = "inside" /\ Leave(c))

LiveSpec == Spec /\ Fairness

-----------------------------------------------------------------------------
Earlier(d, c) == key[d] = key[c] /\ place[d] < place[c]

Active(k) == {c \in Claims : key[c] = k /\ pc[c] \in {"waiting", "inside"}}

\* Whoever runs on a lane is the oldest claim of its key still there:
\* whatever waiters were interrupted before it and however their Deferreds
\* forward, it overlaps no other and overtakes none.
InsideIsFirst ==
    \A c \in Claims : pc[c] = "inside" =>
        \A d \in Claims : Earlier(d, c) => pc[d] = "left"

\* A lane is in the map exactly while a fiber holds or waits on it: it is
\* neither dropped under a waiter, which would let the next claim of the
\* key in beside it, nor left behind by the last fiber.
LaneLastsWhileClaimed ==
    \A k \in Keys : /\ FibersOf(k) = Cardinality(Active(k))
                    /\ lanes[k] = None <=> Active(k) = {}

\* Every waiter gets in or gives up: no interruption of the claims before it
\* loses the hand-off it waits for.
EveryWaiterLeaves ==
    \A c \in Claims : pc[c] = "waiting" ~> pc[c] # "waiting"

\* The chain of Deferreds is a first-come lock.
Fifo == INSTANCE FifoLane

ImplementsFifo == Fifo!Spec
=============================================================================
