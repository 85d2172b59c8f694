----------------------------- MODULE CommitLog -----------------------------
(***************************************************************************)
(* What a session's publisher promises those who enqueue on it: the jobs   *)
(* run one at a time in the order they were enqueued, each one transaction *)
(* whose rows reach the log together or not at all, and each awaited job   *)
(* is answered by what became of its transaction.  The close may cut the   *)
(* job that runs, which then may have committed, and refuses the rest.     *)
(***************************************************************************)
EXTENDS Naturals, Sequences

CONSTANTS Jobs, Sizes

VARIABLES
    pending,    \* the jobs enqueued and not decided, oldest first
    log,        \* the rows committed, each named by its job
    fate,       \* "none", "queued", "committed", "void"
    done        \* what its enqueuer was told: "none", "waiting", or the answer

vars == <<pending, log, fate, done>>

RowsOf(j, n) == [i \in 1..n |-> j]

Init ==
    /\ pending = <<>>
    /\ log = <<>>
    /\ fate = [j \in Jobs |-> "none"]
    /\ done = [j \in Jobs |-> "none"]

Enqueue(j) ==
    /\ done[j] = "none"
    /\ pending' = Append(pending, j)
    /\ fate' = [fate EXCEPT ![j] = "queued"]
    /\ done' = [done EXCEPT ![j] = "waiting"]
    /\ UNCHANGED log

\* Enqueued on a closed plane: nothing is queued.
TooLate(j) ==
    /\ done[j] = "none"
    /\ done' = [done EXCEPT ![j] = "late"]
    /\ UNCHANGED <<pending, log, fate>>

Commit(n) ==
    /\ pending # <<>>
    /\ log' = log \o RowsOf(Head(pending), n)
    /\ fate' = [fate EXCEPT ![Head(pending)] = "committed"]
    /\ pending' = Tail(pending)
    /\ UNCHANGED done

RollBack ==
    /\ pending # <<>>
    /\ fate' = [fate EXCEPT ![Head(pending)] = "void"]
    /\ pending' = Tail(pending)
    /\ UNCHANGED <<log, done>>

Truth(j) == IF fate[j] = "committed" THEN {"ok", "cut"} ELSE {"failed", "cut"}

Answer(j) ==
    /\ done[j] = "waiting"
    /\ fate[j] \in {"committed", "void"}
    /\ \E a \in Truth(j) : done' = [done EXCEPT ![j] = a]
    /\ UNCHANGED <<pending, log, fate>>

\* The job that runs is cut: it rolls back and says so.
Cut ==
    /\ pending # <<>>
    /\ fate' = [fate EXCEPT ![Head(pending)] = "void"]
    /\ done' = [done EXCEPT ![Head(pending)] = "cut"]
    /\ pending' = Tail(pending)
    /\ UNCHANGED log

\* All that is left is refused at once.
RefuseRest ==
    /\ fate' = [j \in Jobs |-> IF fate[j] = "queued" THEN "void" ELSE fate[j]]
    /\ done' = [j \in Jobs |-> IF fate[j] = "queued" THEN "refused" ELSE done[j]]
    /\ pending' = <<>>
    /\ UNCHANGED log

Next ==
    \/ \E j \in Jobs : Enqueue(j) \/ TooLate(j) \/ Answer(j)
    \/ \E n \in {0} \cup Sizes : Commit(n)
    \/ RollBack \/ Cut \/ RefuseRest

Spec == Init /\ [][Next]_vars
=============================================================================
