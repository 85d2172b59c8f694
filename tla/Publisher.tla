----------------------------- MODULE Publisher -----------------------------
(***************************************************************************)
(* The session's publisher (agent/runtime/SessionEvents.ts): one inbox and *)
(* one consumer fiber.  Every job, awaited (`transact`) or detached        *)
(* (`detach`), runs in the order it was enqueued as one transaction        *)
(* (Database.job), or for an ordering job in its place with none.  An      *)
(* awaited job's Deferred is completed with the job's own exit.  Closing   *)
(* the plane (`drain`) ends the inbox and waits for the consumer inside    *)
(* one deadline, then cuts the job that runs and refuses what is queued.   *)
(*                                                                         *)
(* Each action is one stretch of a fiber between two points where another  *)
(* may run.  COMMIT is not interruptible: a cut that arrives in it takes   *)
(* effect when it is over, and the job may have committed.                 *)
(***************************************************************************)
EXTENDS Naturals, Sequences, SequencesExt

CONSTANTS
    Jobs,
    Ordering,   \* those enqueued with `order`: no transaction, no rows
    Sizes,      \* how many rows a job may append
    None

ASSUME OrderingAssumption == Ordering \subseteq Jobs
ASSUME SizesAssumption == Sizes \subseteq Nat
ASSUME NoneAssumption == None \notin Jobs

VARIABLES
    inbox,      \* jobs the consumer has not taken
    plane,      \* the queue: "open", "ended" (Queue.end), "cleared"
    running,    \* the job the consumer is in, or None
    phase,      \* "idle", "body", "committing", "committed", "failed", "stuck"
    rows,       \* the rows the running job appended
    consumer,   \* "up" or "ended"
    drain,      \* "idle", "waiting", "cutting", "joined", "done"
    done,       \* each job's answer: its Deferred, or a detached one's outcome
    log,        \* the table, each row named by its job
    tracked,    \* jobs whose rows openWork counts
    fate        \* history: "none", "queued", "committed", "void"

vars == <<inbox, plane, running, phase, rows, consumer, drain, done,
          log, tracked, fate>>

Answers == {"none", "waiting", "ok", "failed", "cut", "refused", "late"}

TypeOK ==
    /\ inbox \in Seq(Jobs)
    /\ plane \in {"open", "ended", "cleared"}
    /\ running \in Jobs \cup {None}
    /\ phase \in {"idle", "body", "committing", "committed", "failed", "stuck"}
    /\ rows \in Nat
    /\ consumer \in {"up", "ended"}
    /\ drain \in {"idle", "waiting", "cutting", "joined", "done"}
    /\ done \in [Jobs -> Answers]
    /\ log \in Seq(Jobs)
    /\ tracked \in SUBSET Jobs
    /\ fate \in [Jobs -> {"none", "queued", "committed", "void"}]

RowsOf(j, n) == [i \in 1..n |-> j]

Init ==
    /\ inbox = <<>> /\ plane = "open"
    /\ running = None /\ phase = "idle" /\ rows = 0
    /\ consumer = "up" /\ drain = "idle"
    /\ done = [j \in Jobs |-> "none"]
    /\ log = <<>> /\ tracked = {}
    /\ fate = [j \in Jobs |-> "none"]

-----------------------------------------------------------------------------
(* The doors                                                               *)

\* Queue.offerUnsafe: refused once the queue has ended.
Admitted == plane = "open"

\* transact or detach.  Too late, an awaited job is its caller's defect and a
\* detached one is logged and dropped.
Enqueue(j) ==
    /\ done[j] = "none"
    /\ done' = [done EXCEPT ![j] = IF Admitted THEN "waiting" ELSE "late"]
    /\ fate' = [fate EXCEPT ![j] = IF Admitted THEN "queued" ELSE @]
    /\ inbox' = IF Admitted THEN Append(inbox, j) ELSE inbox
    /\ UNCHANGED <<plane, running, phase, rows, consumer, drain, log, tracked>>

-----------------------------------------------------------------------------
(* The consumer                                                            *)

Interrupted == drain = "cutting"

\* Queue.take
Take ==
    /\ consumer = "up" /\ ~Interrupted
    /\ running = None /\ inbox # <<>>
    /\ running' = Head(inbox)
    /\ phase' = "body"
    /\ inbox' = Tail(inbox)
    /\ UNCHANGED <<plane, rows, consumer, drain, done, log, tracked, fate>>

\* The body ends and COMMIT begins; an ordering job has none.
Complete(n) ==
    /\ phase = "body" /\ ~Interrupted
    /\ running \in Ordering => n = 0
    /\ rows' = n
    /\ phase' = "committing"
    /\ UNCHANGED <<inbox, plane, running, consumer, drain, done, log,
                   tracked, fate>>

\* The body fails, with whatever it appended rolled back.
BodyFails ==
    /\ phase = "body" /\ ~Interrupted
    /\ phase' = "failed"
    /\ fate' = [fate EXCEPT ![running] = "void"]
    /\ UNCHANGED <<inbox, plane, running, rows, consumer, drain, done,
                   log, tracked>>

\* Fault: a job may wait on its own publisher.
BugReentry == "stuck"

\* The body of a transaction calls transact: InPublisherJob makes that its
\* defect, so the body fails and rolls back.
Reentry == "failed"

Reenter ==
    /\ phase = "body" /\ running \notin Ordering /\ ~Interrupted
    /\ phase' = Reentry
    /\ fate' = [fate EXCEPT ![running] = "void"]
    /\ UNCHANGED <<inbox, plane, running, rows, consumer, drain, done,
                   log, tracked>>

\* COMMIT is over: written, or failed and rolled back (never an ordering
\* job's).
Committed ==
    /\ phase = "committing"
    /\ phase' = "committed"
    /\ log' = log \o RowsOf(running, rows)
    /\ fate' = [fate EXCEPT ![running] = "committed"]
    /\ UNCHANGED <<inbox, plane, running, rows, consumer, drain, done,
                   tracked>>

CommitFails ==
    /\ phase = "committing" /\ running \notin Ordering
    /\ phase' = "failed"
    /\ fate' = [fate EXCEPT ![running] = "void"]
    /\ UNCHANGED <<inbox, plane, running, rows, consumer, drain, done,
                   log, tracked>>

\* Fault: a job's exit is taken for a success.
BugExitOf(j) == "ok"

\* The job's exit, as `settling` completes its Deferred with it and as
\* `detach` hands it to `failed`.
ExitOf(j) == IF phase = "committed" THEN "ok" ELSE "failed"

\* Fault: the rows are tracked as the job appends them.
BugOpenRows == tracked \cup {running}

\* `track(appended)`, once the transaction committed.
OpenRows == IF phase = "committed" THEN tracked \cup {running} ELSE tracked

Idle ==
    /\ running' = None /\ phase' = "idle" /\ rows' = 0

Finish ==
    /\ phase \in {"committed", "failed"} /\ ~Interrupted
    /\ done' = [done EXCEPT ![running] = ExitOf(running)]
    /\ tracked' = OpenRows
    /\ Idle
    /\ UNCHANGED <<inbox, plane, consumer, drain, log, fate>>

\* The ended queue ran dry: Queue.take fails with Done.
ConsumerEnds ==
    /\ consumer = "up" /\ ~Interrupted
    /\ running = None /\ inbox = <<>> /\ plane = "ended"
    /\ consumer' = "ended"
    /\ UNCHANGED <<inbox, plane, running, phase, rows, drain, done, log,
                   tracked, fate>>

-----------------------------------------------------------------------------
(* The close                                                               *)

\* Queue.end.  Cached: only the first close runs it.
Drain ==
    /\ drain = "idle"
    /\ plane' = "ended"
    /\ drain' = "waiting"
    /\ UNCHANGED <<inbox, running, phase, rows, consumer, done, log,
                   tracked, fate>>

\* Fiber.await(consumer) is back before the deadline.
Joined ==
    /\ drain = "waiting" /\ consumer = "ended"
    /\ drain' = "joined"
    /\ UNCHANGED <<inbox, plane, running, phase, rows, consumer, done,
                   log, tracked, fate>>

\* SESSION_CLOSE_DEADLINE_MS: Fiber.interrupt(consumer).
Deadline ==
    /\ drain = "waiting" /\ consumer = "up"
    /\ drain' = "cutting"
    /\ UNCHANGED <<inbox, plane, running, phase, rows, consumer, done,
                   log, tracked, fate>>

\* Fault: `settling` has no onInterrupt.
BugCutAnswers == done

\* onInterrupt(() => refuse(true))
CutAnswers == IF running = None THEN done
              ELSE [done EXCEPT ![running] = "cut"]

\* Rolled back, unless it had committed.
CutFates == IF phase \in {"body", "stuck"}
            THEN [fate EXCEPT ![running] = "void"] ELSE fate

\* Fault: a job is not cut in its body either.
BugUncut == running = None

Interruptible == phase # "committing"

Interrupt ==
    /\ drain = "cutting" /\ consumer = "up" /\ Interruptible
    /\ consumer' = "ended"
    /\ drain' = "joined"
    /\ done' = CutAnswers
    /\ fate' = CutFates
    /\ Idle
    /\ UNCHANGED <<inbox, plane, log, tracked>>

Refused(j) == IF j \in ToSet(inbox) THEN "refused" ELSE done[j]

\* Queue.clear, and `refuse` of each job.
RefuseRest ==
    /\ drain = "joined"
    /\ done' = [j \in Jobs |-> Refused(j)]
    /\ fate' = [j \in Jobs |-> IF j \in ToSet(inbox) THEN "void" ELSE fate[j]]
    /\ inbox' = <<>>
    /\ plane' = "cleared"
    /\ drain' = "done"
    /\ UNCHANGED <<running, phase, rows, consumer, log, tracked>>

-----------------------------------------------------------------------------
BodyStep == (\E n \in {0} \cup Sizes : Complete(n)) \/ BodyFails \/ Reenter

ConsumerMoves == Take \/ Committed \/ CommitFails \/ Finish \/ ConsumerEnds

DrainStep == Joined \/ Deadline \/ Interrupt \/ RefuseRest

Next ==
    \/ \E j \in Jobs : Enqueue(j)
    \/ BodyStep \/ ConsumerMoves
    \/ Drain \/ DrainStep

Spec == Init /\ [][Next]_vars

-----------------------------------------------------------------------------
(* Properties                                                              *)

\* Jobs run one at a time in the order they were enqueued, a job's rows are
\* in the log together or not at all, and what its enqueuer is told is what
\* became of it, "cut" alone leaving that open: through failures, a failed
\* COMMIT and the close at any point.
Promise == INSTANCE CommitLog WITH
    pending <- (IF phase \in {"body", "committing"} THEN <<running>> ELSE <<>>)
               \o inbox

ImplementsCommitLog == Promise!Spec

\* After the close nobody waits on the publisher: each job was answered,
\* also the one that was cut in its COMMIT and those enqueued while the
\* consumer was going.
NoneLeftWaiting ==
    drain = "done" => \A j \in Jobs : done[j] # "waiting"

\* openWork counts a job's rows exactly when the job committed, and misses
\* only those of a job cut between its COMMIT and its exit: the close reads
\* no work that a rollback took back.
TrackedIsCommitted ==
    /\ \A j \in tracked : fate[j] = "committed"
    /\ \A j \in Jobs : fate[j] = "committed"
         => j \in tracked \/ j = running \/ done[j] = "cut"

\* Once the drain is over the table stands still.
ClosedLogStands == [][drain = "done" => log' = log]_vars

\* A drain ends, and every job with it, even when a job's body never does.
DrainEnds == drain = "waiting" ~> drain = "done"
=============================================================================
