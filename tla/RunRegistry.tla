----------------------------- MODULE RunRegistry -----------------------------
(***************************************************************************)
(* The session's runs (agent/runtime/runRegistry.ts): the fibers this      *)
(* process drives, one per run, how a launch opens a run and forks it, and *)
(* what a stop, a session close and a file operation do with them.         *)
(*                                                                         *)
(* The registry's maps change in synchronous steps of the JavaScript       *)
(* thread; an action is the code from one suspension point to the next.    *)
(* What lies between is the store: a transaction is one job of the         *)
(* session's publisher, atomic here, and its caller goes on only once the  *)
(* session's view has folded the log up to the commit.  The registry       *)
(* reads parent edges from that view, so `unfolded` keeps the edges the    *)
(* log holds and the view does not yet.                                    *)
(*                                                                         *)
(* The runs' own programs are external: a driven run may end at any time,  *)
(* once the launches its tool calls have in flight are settled, and does   *)
(* when interrupted.  Children are background ones: the wait of an         *)
(* awaited child is the in-band call's (LetGo).                            *)
(***************************************************************************)
EXTENDS Integers, Sequences, FiniteSets

CONSTANTS
    Runs,
    ParentOf,       \* [Runs -> Runs \cup {None}]: who launches a run
    Inherited,      \* the runs an earlier process may have left rows of
    Stoppers,       \* the callers of `stop`, each with one at a time
    Closer,         \* the caller of stopAll, one of Stoppers or None
    None,
    KeepAgentsRunning,  \* the setting: a user's stop detaches its children
    MaxLives,       \* bound: the lifecycles opened for one run
    MaxStops,       \* bound: the stops asked of the registry
    MaxRefused,     \* bound: the transactions of a stop the store refuses
    MaxLetGo        \* bound: the interruptions without a stop

Reasons == {"user", "shutdown"}

ASSUME RunsFinite == IsFiniteSet(Runs)
ASSUME NoneIsNoRun == None \notin Runs \cup Stoppers
ASSUME InheritedAreRuns == Inherited \subseteq Runs
ASSUME CloserStops == Closer \in Stoppers \cup {None}
ASSUME ParentsAreRuns == ParentOf \in [Runs -> Runs \cup {None}]
\* A run is launched by one that was there before it.
ASSUME ParentsAreNoCycle ==
    \A S \in (SUBSET Runs) \ {{}} : \E r \in S : ParentOf[r] \notin S

VARIABLES
    rows,       \* the log: whether a run was born, its stop and its end
    seen,       \* the view: each run's attached parent
    unfolded,   \* the parent edges committed and not yet folded, in order
    lives,      \* the number of lifecycles opened for each run here
    starting,   \* the openings in flight
    live,       \* the fiber driving each run
    stopping,   \* the runs whose stop is committing
    busy,       \* the runs a file operation or a deletion holds
    closing,    \* stopAll was called
    stops,      \* what each stopper is doing
    spent       \* how much of each bound was used

vars == <<rows, seen, unfolded, lives, starting, live, stopping, busy,
          closing, stops, spent>>

Idle == [at |-> "idle", run |-> None, reason |-> "user", fiber |-> 0,
         todo |-> {}, child |-> None, childFiber |-> 0, lag |-> 0,
         roots |-> {}]

Row == [born : BOOLEAN, stop : Reasons \cup {None}, ended : BOOLEAN]
Fiber == [phase : {"running", "ended"}, interrupted : BOOLEAN]
Opening == [at : {"reading", "building", "settling", "stopping", "failing",
                  "stopped", "failed"},
            resume : BOOLEAN, stop : Reasons \cup {None}, lag : Nat]
Stop == [at : {"idle", "stop", "settle", "detach", "detached", "child",
               "childSettle", "next", "done"},
         run : Runs \cup {None}, reason : Reasons, fiber : Nat,
         todo : SUBSET Runs, child : Runs \cup {None}, childFiber : Nat,
         lag : Nat, roots : SUBSET Runs]

\* A missing fiber, opening or reason is none of them.
ASSUME NoneIsNothing == None \notin Fiber \cup Opening \cup Reasons

TypeOK ==
    /\ rows \in [Runs -> Row]
    /\ seen \in [Runs -> Runs \cup {None}]
    /\ unfolded \in Seq(Runs \X (Runs \cup {None}))
    /\ lives \in [Runs -> Nat]
    /\ starting \in [Runs -> Opening \cup {None}]
    /\ live \in [Runs -> Fiber \cup {None}]
    /\ stopping \subseteq Runs
    /\ busy \subseteq Runs
    /\ closing \in BOOLEAN
    /\ stops \in [Stoppers -> Stop]
    /\ spent \in [stops : Nat, refused : Nat, letGo : Nat]

-----------------------------------------------------------------------------
(* Queries. *)

Held == {r \in Runs : live[r] # None \/ starting[r] # None}

\* A set that holds the attached parent of each run in it.
UpClosed(S) == \A q \in S : seen[q] # None => seen[q] \in S

\* The run's attached ancestors, by the edges the view holds: the least such
\* set its parent is in.
AncestorsOf(r) ==
    {a \in Runs : \A S \in SUBSET Runs :
                    UpClosed(S) /\ (seen[r] # None => seen[r] \in S) => a \in S}

\* Fault: only a run's own children are under it.
BugHeldUnder(r) == {h \in Held : seen[h] = r}

\* At any depth: an ended run between them hides none.
HeldUnder(r) == {h \in Held : r \in AncestorsOf(h)}

\* The children one parent's detach covers.
ChildRunIds(r) == {h \in Held : seen[h] = r}

Called(r) == {c \in Runs : /\ starting[c] # None /\ ~starting[c].resume
                           /\ ParentOf[c] = r}

Interrupted(r) == live[r] # None /\ live[r].interrupted

\* The reason of a stop still to be recorded keeps the first one asked.
Asked(o, reason) ==
    IF o.stop = None THEN [o EXCEPT !.stop = reason] ELSE o

-----------------------------------------------------------------------------
(* stopRun: the rows a stop commits, decided in its job.                   *)

Stoppable(r) == rows[r].born /\ ~rows[r].ended

StopRows(r, reason, end) ==
    LET stop == IF rows[r].stop = None THEN reason ELSE rows[r].stop
    IN  IF Stoppable(r)
        THEN [rows EXCEPT ![r].stop = stop, ![r].ended = end] ELSE rows

\* A job that appended rows settles once the view folded up to them.
LagOf(r, end) ==
    IF Stoppable(r) /\ (end \/ rows[r].stop = None) THEN Len(unfolded) ELSE 0

-----------------------------------------------------------------------------
(* start: a launch's opening, in its caller's fiber, then the fork.        *)

\* Fault: a start reads only the runs driven or opening.
BugStartIgnoresStopping(r) == live[r] = None /\ starting[r] = None

\* Fault: a start does not wait for a file operation.
BugAdmits(r) == ~closing /\ live[r] = None /\ starting[r] = None
                /\ r \notin stopping

\* Neither closing, driven, opening nor stopping; a busy run is waited for.
Free(r) == live[r] = None /\ starting[r] = None /\ r \notin stopping

Admits(r) == ~closing /\ Free(r) /\ r \notin busy

Enter(r, resume) ==
    /\ starting' = [starting EXCEPT ![r] =
                      [at |-> "reading", resume |-> resume,
                       stop |-> None, lag |-> 0]]
    /\ UNCHANGED <<rows, seen, unfolded, lives, live, stopping, busy,
                   closing, stops, spent>>

\* A fresh run: a root from a host, a child from a tool call of its parent.
StartBirth(r) ==
    /\ Admits(r) /\ ~rows[r].born /\ lives[r] < MaxLives
    /\ LET p == ParentOf[r] IN
         p # None => /\ live[p] # None /\ ~Interrupted(p)
                     /\ live[p].phase = "running"
    /\ Enter(r, FALSE)

\* A resume: a host's, or the wake of a run that holds input.
StartResume(r) ==
    /\ Admits(r) /\ rows[r].born /\ lives[r] < MaxLives
    /\ Enter(r, TRUE)

Move(r, at) == starting' = [starting EXCEPT ![r].at = at]

\* The opening failed: a stop asked of it ends the run on its rows.
Fail(r, stop) ==
    starting' = [starting EXCEPT ![r] =
                   IF stop = None THEN None
                   ELSE [@ EXCEPT !.stop = stop, !.at = "failing"]]

Opens(r, at) == starting[r] # None /\ starting[r].at = at

\* registrationRows reads the parent; a resume asks whether it was stopped
\* meanwhile.
Refused(r) ==
    IF starting[r].resume THEN starting[r].stop # None
    ELSE LET p == ParentOf[r] IN
           p # None /\ (rows[p].stop # None \/ rows[p].ended)

Read(r) ==
    /\ Opens(r, "reading")
    /\ IF Refused(r) THEN Fail(r, starting[r].stop) ELSE Move(r, "building")
    /\ UNCHANGED <<rows, seen, unfolded, lives, live, stopping, busy,
                   closing, stops, spent>>

\* Its context could not be built: nothing was committed.
OpenFails(r) ==
    /\ Opens(r, "building")
    /\ Fail(r, starting[r].stop)
    /\ UNCHANGED <<rows, seen, unfolded, lives, live, stopping, busy,
                   closing, stops, spent>>

\* The opening's batch: `run.start` with its parent edge, or `run.activate`.
Open(r) ==
    /\ Opens(r, "building")
    /\ rows' = [rows EXCEPT ![r] = [born |-> TRUE, stop |-> None,
                                    ended |-> FALSE]]
    /\ unfolded' = IF starting[r].resume \/ ParentOf[r] = None
                   THEN unfolded ELSE Append(unfolded, <<r, ParentOf[r]>>)
    /\ lives' = [lives EXCEPT ![r] = @ + 1]
    /\ starting' = [starting EXCEPT ![r].at = "settling",
                                    ![r].lag = Len(unfolded')]
    /\ UNCHANGED <<seen, live, stopping, busy, closing, stops, spent>>

\* Fault: only a stop asked of the opening counts, not its interruption.
BugCutStop(r) == starting[r].stop

\* What an interrupted opening is stopped for.
CutStop(r) == IF starting[r].stop # None THEN starting[r].stop
              ELSE IF closing THEN "shutdown" ELSE "user"

\* Its caller's interruption: a host's program let go, a tool call cut, or
\* its parent stopped.  The opening's batch masks it until it settled.
Cut(r) ==
    /\ starting[r] # None
    /\ \/ starting[r].at \in {"reading", "building"}
       \/ starting[r].at = "settling" /\ starting[r].lag = 0
    /\ Fail(r, CutStop(r))
    /\ UNCHANGED <<rows, seen, unfolded, lives, live, stopping, busy,
                   closing, stops, spent>>

CallerInterrupted(r) ==
    /\ starting[r] # None /\ ~starting[r].resume
    /\ ParentOf[r] # None /\ Interrupted(ParentOf[r])

\* Fault: only the session's close counts once the opening answered.
BugStopOf(r) == IF closing THEN "shutdown" ELSE None

\* A stop asked meanwhile, or the session's close.
StopOf(r) == IF starting[r].stop # None THEN starting[r].stop
             ELSE IF closing THEN "shutdown" ELSE None

\* Drive r from now on; the start is over.
Fork(r, interrupted) ==
    /\ live' = [live EXCEPT ![r] = [phase |-> "running",
                                    interrupted |-> interrupted]]
    /\ starting' = [starting EXCEPT ![r] = None]

\* The opening answered: fork the run at once, or record its stop first.
Answer(r) ==
    /\ Opens(r, "settling") /\ starting[r].lag = 0
    /\ ~CallerInterrupted(r)
    /\ IF StopOf(r) = None THEN Fork(r, FALSE)
       ELSE /\ starting' = [starting EXCEPT ![r].at = "stopping",
                                            ![r].stop = StopOf(r)]
            /\ UNCHANGED live
    /\ UNCHANGED <<rows, seen, unfolded, lives, stopping, busy, closing,
                   stops, spent>>

\* stopRows of the start: the stop, and for a failed opening the end too.
RecordOpeningStop(r) ==
    /\ starting[r] # None /\ starting[r].at \in {"stopping", "failing"}
    /\ LET end == starting[r].at = "failing" IN
         /\ rows' = StopRows(r, starting[r].stop, end)
         /\ starting' = [starting EXCEPT
                           ![r].lag = LagOf(r, end),
                           ![r].at = IF end THEN "failed" ELSE "stopped"]
    /\ UNCHANGED <<seen, unfolded, lives, live, stopping, busy, closing,
                   stops, spent>>

\* Fault: a run whose opening was stopped drives on untouched.
BugForkStopped(r) ==
    /\ Opens(r, "stopped") /\ starting[r].lag = 0
    /\ Fork(r, FALSE)
    /\ UNCHANGED <<rows, seen, unfolded, lives, stopping, busy, closing,
                   stops, spent>>

ForkStopped(r) ==
    /\ Opens(r, "stopped") /\ starting[r].lag = 0
    /\ Fork(r, TRUE)
    /\ UNCHANGED <<rows, seen, unfolded, lives, stopping, busy, closing,
                   stops, spent>>

LeaveFailed(r) ==
    /\ Opens(r, "failed") /\ starting[r].lag = 0
    /\ starting' = [starting EXCEPT ![r] = None]
    /\ UNCHANGED <<rows, seen, unfolded, lives, live, stopping, busy,
                   closing, stops, spent>>

-----------------------------------------------------------------------------
(* The fibers. *)

\* The run's one terminal commits its end; the first end stands.
EndRun(r) ==
    /\ live[r] # None /\ live[r].phase = "running"
    /\ Called(r) = {}
    /\ rows' = [rows EXCEPT ![r].ended = TRUE]
    /\ live' = [live EXCEPT ![r].phase = "ended"]
    /\ UNCHANGED <<seen, unfolded, lives, starting, stopping, busy, closing,
                   stops, spent>>

ExitRun(r) ==
    /\ live[r] # None /\ live[r].phase = "ended"
    /\ live' = [live EXCEPT ![r] = None]
    /\ UNCHANGED <<rows, seen, unfolded, lives, starting, stopping, busy,
                   closing, stops, spent>>

\* The fibers once the one captured when the stop was asked, known by its
\* lifecycle, is interrupted; another one driving the run by now is not.
InterruptFiber(fibers, r, fiber) ==
    IF fibers[r] # None /\ fiber = lives[r]
    THEN [fibers EXCEPT ![r].interrupted = TRUE] ELSE fibers

\* interrupt: a caller that let go of the run it awaited.
LetGo(r) ==
    /\ live[r] # None /\ spent.letGo < MaxLetGo
    /\ live' = [live EXCEPT ![r].interrupted = TRUE]
    /\ spent' = [spent EXCEPT !.letGo = @ + 1]
    /\ UNCHANGED <<rows, seen, unfolded, lives, starting, stopping, busy,
                   closing, stops>>

CapturedFiber(r) == IF live[r] = None THEN 0 ELSE lives[r]

-----------------------------------------------------------------------------
(* stop: the run's row, then its children's, then the interruption.        *)

\* What a stopper does once its stop is over: the next root, or nothing.
Rest(s) == [Idle EXCEPT !.at = IF s = Closer THEN "next" ELSE "idle",
                        !.roots = stops[s].roots]

\* The synchronous part: an opening takes the stop; otherwise capture the
\* fiber and refuse starts.
Ask(s, r, reason, roots) ==
    IF starting[r] # None
    THEN /\ starting' = [starting EXCEPT ![r] = Asked(@, reason)]
         /\ stops' = [stops EXCEPT ![s].roots = roots]
         /\ UNCHANGED stopping
    ELSE /\ stops' = [stops EXCEPT ![s] =
                        [Idle EXCEPT !.at = "stop", !.run = r,
                                     !.reason = reason, !.roots = roots,
                                     !.fiber = CapturedFiber(r)]]
         /\ stopping' = stopping \cup {r}
         /\ UNCHANGED starting

StopAsk(s, r) ==
    /\ s # Closer /\ stops[s].at = "idle" /\ spent.stops < MaxStops
    /\ r \in Held \/ rows[r].born
    /\ Ask(s, r, "user", {})
    /\ spent' = [spent EXCEPT !.stops = @ + 1]
    /\ UNCHANGED <<rows, seen, unfolded, lives, live, busy, closing>>

StopCommit(s) ==
    /\ stops[s].at = "stop"
    /\ LET r == stops[s].run  end == stops[s].fiber = 0 IN
         /\ rows' = StopRows(r, stops[s].reason, end)
         /\ stops' = [stops EXCEPT ![s].at = "settle",
                                   ![s].lag = LagOf(r, end)]
    /\ UNCHANGED <<seen, unfolded, lives, starting, live, stopping, busy,
                   closing, spent>>

Detaches(s) == KeepAgentsRunning /\ stops[s].reason = "user"

\* stopHeld of runs that need no rows, in one go: an opening takes the
\* stop, and a run that left meanwhile needs none.
AskOpenings(S, reason) ==
    starting' = [r \in Runs |-> IF r \in S /\ starting[r] # None
                                THEN Asked(starting[r], reason)
                                ELSE starting[r]]

\* The cascade goes on, without a pause, to the next run driven here, whose
\* stop is then committing, or to its end: the run itself is interrupted.
Cascade(s, todo, fibers, held) ==
    LET driven == {c \in todo : starting[c] = None /\ fibers[c] # None}
        op == stops[s]
    IN  \/ \E c \in driven, passed \in SUBSET (todo \ driven) :
              /\ AskOpenings(passed, op.reason)
              /\ live' = fibers
              /\ stopping' = held \cup {c}
              /\ stops' = [stops EXCEPT
                             ![s].at = "child", ![s].child = c,
                             ![s].childFiber = lives[c],
                             ![s].todo = todo \ (passed \cup {c})]
        \/ /\ driven = {}
           /\ AskOpenings(todo, op.reason)
           /\ live' = InterruptFiber(fibers, op.run, op.fiber)
           /\ stopping' = held \ {op.run}
           /\ stops' = [stops EXCEPT ![s] = Rest(s)]

\* The rows are in: the runs under it, as the view holds them now.
StopSettled(s) ==
    /\ stops[s].at = "settle" /\ stops[s].lag = 0
    /\ IF Detaches(s)
       THEN /\ stops' = [stops EXCEPT ![s].at = "detach"]
            /\ UNCHANGED <<starting, live, stopping>>
       ELSE Cascade(s, HeldUnder(stops[s].run), live, stopping)
    /\ UNCHANGED <<rows, seen, unfolded, lives, busy, closing, spent>>

\* One job severs the children's edges, in the order it lists them; with
\* none it appends nothing.
Detach(s) ==
    /\ stops[s].at = "detach"
    /\ LET cut == {c \in ChildRunIds(stops[s].run) : rows[c].born}
           n == Cardinality(cut)
       IN  \E order \in [1..n -> cut] :
             /\ \A i, j \in 1..n : order[i] = order[j] => i = j
             /\ unfolded' = unfolded \o [i \in 1..n |-> <<order[i], None>>]
             /\ stops' = [stops EXCEPT
                            ![s].at = "detached",
                            ![s].lag = IF n = 0 THEN 0 ELSE Len(unfolded')]
    /\ UNCHANGED <<rows, seen, lives, starting, live, stopping, busy,
                   closing, spent>>

\* stopHeld of a run driven here: its row, its interruption, the next.
ChildCommit(s) ==
    /\ stops[s].at = "child"
    /\ LET c == stops[s].child IN
         /\ rows' = StopRows(c, stops[s].reason, FALSE)
         /\ stops' = [stops EXCEPT ![s].at = "childSettle",
                                   ![s].lag = LagOf(c, FALSE)]
    /\ UNCHANGED <<seen, unfolded, lives, starting, live, stopping, busy,
                   closing, spent>>

ChildStopped(s) ==
    /\ stops[s].at = "childSettle" /\ stops[s].lag = 0
    /\ Cascade(s, stops[s].todo,
               InterruptFiber(live, stops[s].child, stops[s].childFiber),
               stopping \ {stops[s].child})
    /\ UNCHANGED <<rows, seen, unfolded, lives, busy, closing, spent>>

\* The children are detached: the interruption of the run alone.
Detached(s) ==
    /\ stops[s].at = "detached" /\ stops[s].lag = 0
    /\ live' = InterruptFiber(live, stops[s].run, stops[s].fiber)
    /\ stopping' = stopping \ {stops[s].run}
    /\ stops' = [stops EXCEPT ![s] = Rest(s)]
    /\ UNCHANGED <<rows, seen, unfolded, lives, starting, busy, closing,
                   spent>>

\* The store refused the stop's rows, the run's or a child's: the stop
\* fails there; a closing's is logged and the run interrupted.
StopRefused(s) ==
    /\ stops[s].at \in {"stop", "child", "detach"}
    /\ spent.refused < MaxRefused
    /\ spent' = [spent EXCEPT !.refused = @ + 1]
    /\ stopping' = stopping \ {stops[s].run, stops[s].child}
    /\ live' = IF s = Closer /\ live[stops[s].run] # None
               THEN [live EXCEPT ![stops[s].run].interrupted = TRUE]
               ELSE live
    /\ stops' = [stops EXCEPT ![s] = Rest(s)]
    /\ UNCHANGED <<rows, seen, unfolded, lives, starting, busy, closing>>

-----------------------------------------------------------------------------
(* stopAll and awaitDrained: the session closes. *)

\* Fault: a root is a run without a parent, held here or not.
BugRoots == {r \in Held : seen[r] = None}

\* The held forest's roots: each run's cascade covers what is under it.
Roots == {r \in Held : AncestorsOf(r) \cap Held = {}}

StopAll(s) ==
    /\ s = Closer /\ ~closing
    /\ closing' = TRUE
    /\ stops' = [stops EXCEPT ![s] = [Idle EXCEPT !.at = "next",
                                                  !.roots = Roots]]
    /\ UNCHANGED <<rows, seen, unfolded, lives, starting, live, stopping,
                   busy, spent>>

StopRoot(s, r) ==
    /\ stops[s].at = "next" /\ r \in stops[s].roots
    /\ Ask(s, r, "shutdown", stops[s].roots \ {r})
    /\ UNCHANGED <<rows, seen, unfolded, lives, live, busy, closing, spent>>

StoppedAll(s) ==
    /\ stops[s].at = "next" /\ stops[s].roots = {}
    /\ stops' = [stops EXCEPT ![s].at = "done"]
    /\ UNCHANGED <<rows, seen, unfolded, lives, starting, live, stopping,
                   busy, closing, spent>>

-----------------------------------------------------------------------------
(* withInactiveRun, and the view. *)

TakeFiles(r) ==
    /\ rows[r].born
    /\ r \notin Held /\ HeldUnder(r) = {} /\ r \notin busy
    /\ busy' = busy \cup {r}
    /\ UNCHANGED <<rows, seen, unfolded, lives, starting, live, stopping,
                   closing, stops, spent>>

ReleaseFiles(r) ==
    /\ r \in busy
    /\ busy' = busy \ {r}
    /\ UNCHANGED <<rows, seen, unfolded, lives, starting, live, stopping,
                   closing, stops, spent>>

Less(n) == IF n = 0 THEN 0 ELSE n - 1

\* The view folds the next edge: every caller settling has one less to see.
Fold ==
    /\ unfolded # <<>>
    /\ seen' = [seen EXCEPT ![Head(unfolded)[1]] = Head(unfolded)[2]]
    /\ unfolded' = Tail(unfolded)
    /\ starting' = [r \in Runs |->
                      IF starting[r] = None THEN None
                      ELSE [starting[r] EXCEPT !.lag = Less(@)]]
    /\ stops' = [s \in Stoppers |-> [stops[s] EXCEPT !.lag = Less(@)]]
    /\ UNCHANGED <<rows, lives, live, stopping, busy, closing, spent>>

-----------------------------------------------------------------------------
\* A session opens over runs of an earlier process: none, ended, or left
\* without an end, each with its parent edge in the view.
Init ==
    /\ rows \in [Runs -> {[born |-> FALSE, stop |-> None, ended |-> FALSE],
                          [born |-> TRUE, stop |-> None, ended |-> FALSE],
                          [born |-> TRUE, stop |-> None, ended |-> TRUE]}]
    /\ \A r \in Runs :
         rows[r].born => /\ r \in Inherited
                         /\ ParentOf[r] # None => rows[ParentOf[r]].born
    /\ seen = [r \in Runs |-> IF rows[r].born THEN ParentOf[r] ELSE None]
    /\ unfolded = <<>>
    /\ lives = [r \in Runs |-> 0]
    /\ starting = [r \in Runs |-> None]
    /\ live = [r \in Runs |-> None]
    /\ stopping = {}
    /\ busy = {}
    /\ closing = FALSE
    /\ stops = [s \in Stoppers |-> Idle]
    /\ spent = [stops |-> 0, refused |-> 0, letGo |-> 0]

OpeningStep(r) ==
    \/ Read(r) \/ OpenFails(r) \/ Open(r) \/ Cut(r) \/ Answer(r)
    \/ RecordOpeningStop(r) \/ ForkStopped(r) \/ LeaveFailed(r)

StopStep(s) ==
    \/ StopCommit(s) \/ StopSettled(s) \/ Detach(s)
    \/ Detached(s) \/ ChildCommit(s) \/ ChildStopped(s) \/ StopRefused(s)
    \/ \E r \in Runs : StopRoot(s, r)
    \/ StoppedAll(s)

Next ==
    \/ \E r \in Runs : \/ StartBirth(r) \/ StartResume(r) \/ OpeningStep(r)
                       \/ EndRun(r) \/ ExitRun(r) \/ LetGo(r)
                       \/ TakeFiles(r) \/ ReleaseFiles(r)
    \/ \E s \in Stoppers : \/ \E r \in Runs : StopAsk(s, r)
                           \/ StopAll(s) \/ StopStep(s)
    \/ Fold

Spec == Init /\ [][Next]_vars

\* What is under way comes to its next step: the store commits, the view
\* folds, an opening settles or fails, an interrupted run's terminal runs
\* and its fiber exits, and a stopper goes on.  No run need end by itself,
\* no host need let go, and no one need launch or stop anything.
Fairness ==
    /\ \A r \in Runs : /\ WF_vars(OpeningStep(r))
                       /\ WF_vars(CallerInterrupted(r) /\ Cut(r))
                       /\ WF_vars(Interrupted(r) /\ EndRun(r))
                       /\ WF_vars(ExitRun(r))
    /\ \A s \in Stoppers : WF_vars(StopStep(s))
    /\ WF_vars(Fold)

LiveSpec == Spec /\ Fairness

-----------------------------------------------------------------------------
Running(r) == live[r] # None /\ live[r].phase = "running"

\* A stop that is under way will interrupt the fiber that drives r.
BeingStopped(r) ==
    \E s \in Stoppers :
        \/ /\ stops[s].run = r /\ stops[s].fiber = lives[r]
           /\ stops[s].at \notin {"idle", "next", "done"}
        \/ stops[s].child = r /\ stops[s].childFiber = lives[r]

\* A run opened here always has its fiber or its end: no interruption of
\* its opening and no stop leaves it with neither (start, 304-306).
DrivenOrEnded ==
    \A r \in Runs : lives[r] > 0 => r \in Held \/ rows[r].ended

-----------------------------------------------------------------------------
(* What becomes of each run: RunLives.tla. *)

\* Who holds the run; no run is held twice ("clash").
PlaceOf(r) ==
    IF \/ r \in busy /\ r \in Held
       \/ starting[r] # None /\ live[r] # None THEN "clash"
    ELSE IF r \in busy THEN "files"
    ELSE IF starting[r] # None
    THEN IF starting[r].stop = None THEN "opening" ELSE "doomed"
    ELSE IF live[r] = None THEN "free"
    ELSE IF live[r].phase = "ended" THEN "over"
    ELSE IF live[r].interrupted THEN "cut" ELSE "driven"

\* A lifecycle opened here has no end yet.
Unended(r) == lives[r] > 0 /\ ~rows[r].ended

Lives == INSTANCE RunLives WITH at <- [r \in Runs |-> PlaceOf(r)],
                                open <- [r \in Runs |-> Unended(r)]

\* Each run has one holder at a time, leaves it only with its lifecycle
\* ended, and is never driven uninterrupted from an opening asked to stop.
ImplementsLives == Lives!Spec

\* No fiber drives on a run whose lifecycle was stopped or ended under it:
\* the run is interrupted, or the stop that will interrupt it is under way,
\* while the store refuses no stop its rows.
StoppedIsInterrupted ==
    \A r \in Runs :
        /\ Running(r) /\ ~Interrupted(r)
        /\ rows[r].stop # None \/ rows[r].ended
        /\ spent.refused = 0
        => BeingStopped(r)

\* r is driven, or about to be, though stopped or ended on its rows, and no
\* stop under way will interrupt it.
Slipped(r) ==
    /\ \/ Running(r) /\ ~Interrupted(r) /\ ~BeingStopped(r)
       \/ Opens(r, "settling") /\ starting[r].stop = None
    /\ rows[r].stop # None \/ rows[r].ended

\* The rows of s's stop of r are about to commit, and r may start meanwhile:
\* another stop of r took the mark with it when it was through.
Overtaken(s, r) ==
    /\ r \notin stopping
    /\ \/ stops[s].at = "stop" /\ stops[s].run = r
       \/ stops[s].at = "child" /\ stops[s].child = r

\* A run slips only by the rows of an overtaken stop, or where the store
\* refuses a stop that has it in hand.
SlipsHaveCause ==
    [][\A r \in Runs : Slipped(r)' =>
         \/ Slipped(r)
         \/ \E s \in Stoppers :
               /\ stops'[s] # stops[s]
               /\ \/ Overtaken(s, r)
                  \/ /\ r \in {stops[s].run, stops[s].child}
                     /\ spent'.refused # spent.refused]_vars

\* A file operation or a deletion never holds a run driven or opening here.
FilesExcludeDriver == busy \cap Held = {}

\* A stop asked of an opening is applied when the start is over: the run is
\* forked interrupted, or ended on its rows, or was never born.
AskedStopIsApplied ==
    [][\A r \in Runs :
         /\ starting[r] # None /\ starting'[r] = None
         /\ starting[r].stop # None
         => \/ live'[r] # None /\ live'[r].interrupted
            \/ rows'[r].ended \/ ~rows'[r].born]_vars

\* Once stopAll is through, every run driven here is interrupted, or a stop
\* still under way will interrupt it.
ClosedIsStopped ==
    Closer # None /\ stops[Closer].at = "done" =>
        \A r \in Runs : Running(r) => Interrupted(r) \/ BeingStopped(r)

\* A closing session drains: nothing started before it drives on.
ClosingDrains == closing ~> Held = {}

\* A stop reaches every child: none born under the run drives on, attached
\* and unstopped, once the stop of the run is through (stop, 437-440).
NoneEscapes ==
    \A c \in Runs :
        /\ ParentOf[c] # None /\ Running(c) /\ ~Interrupted(c)
        /\ lives[c] = 1 /\ seen[c] = ParentOf[c] /\ rows[c].stop = None
        /\ rows[ParentOf[c]].stop # None
        => \E s \in Stoppers : stops[s].at \notin {"idle", "next", "done"}

=============================================================================
