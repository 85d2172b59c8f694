# A verification of the TeXRA harness

TLA+ models of the run-time core of TeXRA (`packages/harness`), the TLC runs
that check them on small instances, and TLAPS proofs of their main invariants
for every instance. Paths below are relative to `src/packages/harness/src/`
unless they say otherwise.

1. [The system](#1-the-system)
2. [The modules](#2-the-modules)
3. [The runs](#3-the-runs)
4. [Fairness](#4-fairness)
5. [What is proved](#5-what-is-proved)
6. [What was found](#6-what-was-found)
7. [What is not modelled](#7-what-is-not-modelled)
8. [The plan](#8-the-plan)

## 1. The system

The harness runs *agents*: programs that alternate calls of a language model
with calls of tools. One session process owns one SQLite store. A run is a
sequence of rows in it; whatever the process keeps in memory about a run is a
fold of its rows, so another process can take the run up after a crash. Every
run has at most one driver fiber. Fibers are Effect fibers on one JavaScript
thread: code between two suspension points is not preempted, a fiber may be
interrupted at any suspension point that is not masked, and anything else may
happen while it is suspended. A store transaction is one job of the session's
one publisher.

A launch, a resume or a host goes through the **run registry**, which opens the
run on the store and forks its fiber. The fiber's **tool loop** reads its
**follow-up inbox**, makes one **model invocation** per turn through the
process-wide **retry gate**, and dispatches tools; some tools launch child runs,
whose end comes back through the parent's inbox. A tool call may need a
person's word: its **request** is decided by a surface, a grant, the policy or
the run's end. Everything is written by jobs of the session's **publisher**;
**tails** of the log carry each commit to the views that hosts read. A stop goes through the
registry to the run's rows and then to its fiber. Where callers must not
overlap (a session's root, the sends to one run, JSON stores), they queue on a
**per-key lane**.

### Inventory

| Component | State it keeps | Operations | What is hard | What makes it correct |
|---|---|---|---|---|
| Model retry gate `agent/runtime/ModelRetryGate.ts` | per route: healthy, streak, `retryAt`, cooling count, one probe permit; shared by all runs | `gate` a call through its routes; settle each on exit | calls of one cohort fail together or late; a run is interrupted holding a permit; a route moves while a call is at another | one probe and one cooling per cohort, no attempt before a backoff, no permit leaks, every call comes out |
| Model invocation `shared/session/inFlight.ts`, `agent/runtime/ModelInvoker.ts`, `agent/runtime/run/backgroundTurn.ts` | `attempt`, `accepted`, `failed`, `closed`, answer rows; the loop's own fold | send, accept, observe, fail, renew, ask a person, stop, cancel, resume | a crash at every point; a stop's row under a loop still running; unknown outcomes; money is spent per request | bounded bill, recorded work observed until that fails, a history that loads, always an answer, an end or a person |
| Per-key lanes `utils/core/perKeyQueue.ts` | a map from key to tail Deferred and fiber count | claim, enter, forward, leave | a waiter interrupted before it enters; the last fiber leaving as another claims | mutual exclusion, first come first served, nothing leaks, nobody stranded |
| Run registry `agent/runtime/runRegistry.ts` | maps of openings, fibers, stops in progress, held files; a view that lags the log | start, stop and its cascade, `stopAll`, detach, file operations, drain | each suspension of an opening against a stop, a close, an interruption; the view lags; overlapping stops; the store refuses | one driver per run; a run opened has its fiber or its end; a stop reaches what it names; a close drains |
| Follow-up inbox `agent/followUp/{Inbox,RunInput,ToolUseFollowUp}.ts`, `agent/runtime/{FollowUps,resumeRun}.ts` | queue rows, taken ids; reader and latch; the send lane | send, admit, read, take, end, stop, close, wake, resume | a message that lands as its reader leaves, twice, under a stop, across a crash | read at most once, never slept on, someone always comes |
| Session publisher and store `agent/runtime/SessionEvents.ts`, `controllers/session/{Database,sessionStore}.ts` | the queue of jobs, the one consumer, open work; the view's cursor and the folded level | transact, detach, `settled`, drain | a body or a COMMIT that fails; a close that cuts a job anywhere; callers that wait for a fold that may never come | jobs whole and in order; every caller answered by what became of its job; a return means folded |
| Log tails `shared/session/sessionEvents.ts` | a wake level, the drain's position, subscribers | forward, subscribe, catch up, receive, end | a subscription in the middle of a read; wakes that collapse; rows the store dropped | each row once, in order, none missed |
| Requests and approvals `agent/runtime/{requests,runApprovalQueue,loop/toolGuard}.ts`, `controllers/session/SessionRequests.ts` | request and decision rows, a plugin's record, grants | open, decide, grant, cancel, re-enter | two surfaces, a grant, the policy, the run's end and a resume answer one request, over a view that lags | one decision, the one its asker goes on with; a grant leaves nothing it covers waiting |
| Run history `agent/runtime/RunHistory.ts`, `shared/session/{runState,runRows}.ts` | the fold of the rows | read, append | own and foreign rows | fold of what is there |
| Run lifecycle `agent/storage/runLifecycle.ts`, `agent/runtime/AgentRunLifecycle.ts` | start, stop, end rows | register, stop, end, report | a parent stopped between check and registration | one end per lifecycle |
| Tool loop `agent/runtime/loop/` | messages, step | turn, dispatch, park | a crash between a tool's effect and its row | no effect twice unasked |
| Delegation `agent/runtime/{delegation/,childDelivery,childRunBudget,leftoverChildren}.ts` | attachment, owed calls, budget | launch, deliver, sweep | a process dies between a parent's call and its child's end | each owed call answered once |
| Session owners and view `controllers/session/` | layers; folds of the log for hosts | open, close, fold | teardown order | |
| Scripts and code mode `agent/codeSandbox/`, `agent/runtime/{scriptRun,processRun}.ts` | interpreter, replayed calls | run, replay | replay of recorded calls | |
| Prompts, skills, agents, memory; tools; model access; shared libraries | files and text | read, parse | | |
| GitHub subscriptions `packages/texra/src/tools/github/` | subscriptions, dedup windows, poll loop, deliveries | subscribe, poll, detach, drain | a poll outliving its subscription; a drain with a deadline | an event delivered once; the loop runs while anything is subscribed |
| Lean servers `packages/texra/src/tools/lean/direct/` | a pool of server processes | acquire, release, evict, restart | a server dying under its users | |
| Background service `packages/texra/src/controllers/server/` | discovery, feeds | serve, connect, call | reconnects | |
| `packages/llm`, the rest of `packages/texra`, the hosts | wire formats, LaTeX, interfaces | | | |

The first eight are modelled; why each other is not is in
[section 7](#7-what-is-not-modelled), and the hazards each is exposed to are in
`PROJECT.json`.

## 2. The modules

| Module | What it is |
|---|---|
| `ModelRetryGate`, `MCModelRetryGate`, `ModelRetryGate_proofs` | the gate, its instance, its proofs |
| `RouteBreaker` | the abstract promise of a route: a circuit breaker |
| `Invocation`, `Invocation_proofs` | one model invocation across processes |
| `PerKeyLane`, `PerKeyLane_proofs` | the Deferred chain |
| `FifoLane` | its abstract promise: a first-come lock |
| `RunRegistry`, `MCRunRegistry`, `RunRegistry_proofs` | the registry, trees of runs, proofs |
| `RunLives` | its abstract promise: one holder of a run at a time, given up with the run's end |
| `FollowUpInbox`, `MCFollowUpInbox`, `FollowUpInbox_proofs` | the inbox, senders and holds, proofs |
| `Mailbox` | its abstract promise: a message waits, and is read once or dropped |
| `Publisher` | the jobs, the consumer and the close |
| `CommitLog` | its abstract promise: a log of whole jobs, in order, truly answered |
| `SessionStore`, `SessionStore_proofs` | the publisher composed with the view that settles its callers; the proofs of both |
| `LogTails`, `LogTails_proofs` | the drain and its tails |
| `LogReaders` | their abstract promise: each tail is a reader with a place of its own |
| `Requests`, `MCRequests`, `Requests_proofs` | requests, decisions and grants; a run and its parent; proofs |
| `DecisionRegister` | their abstract promise: a register decided once |

Conventions. An action is at most the code between two suspension points, so
everything another fiber can do falls between actions. A store transaction is
atomic. A `Bug...` operator is a plausible fault of the definition it precedes,
used only to confirm that a property notices it; `Spec` never reaches one.
`Max...` constants bound the exploration and nothing else: the proofs hold for
every value of them.

**ModelRetryGate.** `healthy`, `failures`, `due`, `cooled` are the fields of a
route's state (`due` abstracts `now >= retryAt`, and the backoff's length is
left out); `holder` is its semaphore; `pc`, `at` say where a call is on its
`Path`; `cohort`, `admitted`, `probing` are what its frames captured on entry
(`passed`, `pass.healthy`, the permits); `slept` is the cooling whose
backoff it slept out; `exit` is the route its failure blames. `JoinCohort` /
`Admit` / `Queue` / `TakeProbe` / `FindOpened` / `AdmitOpened` / `GoAsProbe` are
the branches of entering a route; `Start` and `Unwind` are the recheck before
the attempt and COOLED; `WaitAgain` restarts; `Settle...` are the branches of
settling one route, innermost first; `Interrupt` is legal everywhere.

**Invocation.** `inv` is what `invocationAfter` folds the rows to, `mine` the
loop's own fold, `decision`/`heard` the request row and what the loop heard of
it, `remote` the provider's side, which no failure recorded here stops. `Append(row)` is the fold of one row;
`MaySend`, `ToGate`, `ToObserve`, `ToAwait`, `ToEnd`, `Reask` are the outcomes
of `nextAttempt`, `AttemptRow`/`Send`/`Respond`/`Accept`/`AcceptRow`/`Fail`/
`RenewAndResend`/`RenewObservation` an attempt's steps, `StopRow`/`Interrupt`/
`CancelConfirmed`/`CancelUnconfirmed`/`Retire`/`Leave` a stop's, `Crash` and
`Activate` a process's death and the next one. `billed`, `allowance`,
`admitted` are history variables. The list `earlier` of failed attempts is kept
as the three facts the code reads off it.

**PerKeyLane.** `lanes` is the map, `mine` each claim's Deferred (pending,
done, or completed with the predecessor's wait), `previous` and `awaits` what
it replaced and waits for. `Claim`, `Enter`, `Forward`, `Leave`.

**RunRegistry.** `rows` is the log (born, stopped, ended), `seen` the parents
the session's view holds, `unfolded` the edges it has not folded yet;
`starting`, `live`, `stopping`, `busy`, `closing` are the registry's maps and
flags; `lives` numbers a run's fibers so that a stop that captured one does not
mean the next. An opening goes `StartBirth`/`StartResume`, `Read`, `Open`,
`Answer` or `RecordOpeningStop`, with `Refused`, `OpenFails`, `Cut`,
`CallerInterrupted` on the way; a fiber ends by `EndRun`, `ExitRun`; each
stopper's `stop` goes `StopAsk`, `StopCommit`, `StopSettled`, then `Detach` or
the children (`ChildCommit`, `ChildStopped`), or `StopRefused`; `StopAll`,
`StopRoot`, `StoppedAll` are the close; `TakeFiles`, `ReleaseFiles` are
`withInactiveRun`; `Fold` is the view.

**FollowUpInbox.** `rows` is the log (queued, taken, lifecycle, closed), `run`
the registry's hold of the run and its loop's position, `reader`/`signal` the
map entry and its latch, `send`/`cap` each sender, `wake` each wake, `halt` the
user's stop, `left` the messages left to an explicit resume. A sender goes
`Send`, `EnterLane`, `Check`, `ReadFacts`, `Drained`, `Admit` (a child's report goes
`ChildEnds`, `ChildExits`: it commits with the child's end); a wake `Look`,
`ReadInput`, `Resume`, `Join`; an opening `OpenCheck`, `Activate`, `Fork`, or
`OpenFails`/`OpenGone` and `OpenLeaves`, with the rows of a stop asked meanwhile
(`OpenStops`, `OpenEnds`) before the run is let go; the loop `OpenReader`, `TurnReads`, `TurnRests`, `CloseTurn`, `Park`,
`Listen`, `ReadIdle`, `Sleep`, `Awake`, `Take`, `LoopFails`, `EndRun`, `Exit`.
`Listen`, `ReadIdle`, `Sleep` are the three steps between which a signal could
be lost.

**Publisher.** `inbox` is the queue, `running` and `phase` the one job's
progress (body, COMMIT, committed or failed), `plane` and `consumer` the
queue's and the fiber's life, `drain` the close, `fate` what became of a
transaction and `done` what its caller was told, `tracked` the jobs whose rows
`openWork` counts. `Enqueue`, `Take`, `Complete` / `BodyFails` / `Reenter` (a
body that waits on its own queue), `Committed` / `CommitFails`, `Finish`,
`ConsumerEnds`; `Drain`, `Joined`, `Deadline`, `Interrupt`, `RefuseRest` are the
close. Only BEGIN..COMMIT is masked, so `Interruptible` names the phases an
interruption may cut.

**SessionStore** extends it: `delivered`, `viewed`, `foldedRead` are how far the
tail, the view and the folded tail's reader are; `caller` what a transaction
that committed waits for; `read` the commit a barrier (`settled`) read. A job's
exit sends its caller to `Settled` or `LevelOver`; `Deliver`, `ReadFolded` move
the levels, `Ends` ends them.

**LogTails.** `size` is the log, `gone` the rows the store dropped, `wake` the
level's one pending raise, `reading`/`at`/`upTo`/`share` the drain's read, and
`published`, `fanout` what it published. A tail is `from`, `taken` (deliveries
it took), `behind` (what it reads itself), `mark` (through where it has all)
and `got`. The rows of one delivery are a set: the query returns them in
order.

**Requests.** `log` is the transactions, `view` how many the session's view
folded, `ask` each call's place, `surf` each surface's decision, `change` a
grant's, `run` the runs, `side` a plugin's own record. A call opens
(`Read`, `Open`, `Opened`), hears (`Hear`), posts without waiting (`Post`), or
comes back (`Reenter`, `Rejoin`, `Retire`); a surface goes `Issue`, `Enter`,
`Record`, `Write`, `Answered` in its request's lane; a grant `Change`,
`WriteChange`, `ChangeReturns`; `End` and `Resume` cancel what nobody waits on.

## 3. The runs

Distinct states are those of the last run of each.

| Run | Instance | Checks |
|---|---|---|
| `gate` | two calls, routes `<<model1, wire>>` and `<<model2, wire>>` as `routePolicies` builds them; each route cools at most twice; 262 587 states | `CoolingAdmitsOnlyItsProbe`; `NoCircularWait`; `AttemptWaitsOutEveryRoute`; `OneCoolingPerCohort`; `ImplementsBreaker` (refines `RouteBreaker`); `EveryCallEnds` |
| `invocation_billed` | one automatic retry, background work, a person's stop and a shutdown, 3 attempts, 1 restart; 1.70 million | `HistoryLoads`; `BilledWithinBudget`; `RecordedWorkIsObserved`; `AskedBeforeResend`; `SettlesOrAsks` |
| `invocation_observed` | no stop, no restart | violates `FailedObservationIsAsked` |
| `lane` | four claims, two keys; 31 985 | `LaneLastsWhileClaimed`; `ImplementsFifo` (refines `FifoLane`); `EveryWaiterLeaves` |
| `registry_stop` | a root left by an earlier process and its child, "Keep agents running" on, two people's stops and a close, two stops in all, one refused transaction, one stray interruption; 1.35 million | `SlipsHaveCause`; `AskedStopIsApplied`; `ImplementsLives` (refines `RunLives`) |
| `registry_close` | a chain of three, a person and a close; 557 123 | `ClosedIsStopped`; `StoppedIsInterrupted`; `ClosingDrains` |
| `registry_escape` | a root and two children | violates `NoneEscapes` |
| `inbox` | a message held for the turn's end and a child's report, two lives, a stop, a crash; 965 100 | `NoSleepOnInput`; `SomeoneComes`; `ImplementsMailbox` (refines `Mailbox`); `OwedIsRead` |
| `inbox_lane` | a user's message, a stop, a crash | violates `EverySendLands` |
| `store` | an awaited job, a detached one, a barrier, two rows each; a close at any point; 593 993 | `NoneLeftWaiting`; `TrackedIsCommitted`; `ReturnedIsFolded`; `SettledCoversEarlier`; `ImplementsCommitLog` (refines `CommitLog`); `DrainEnds`; `CallersReturn` |
| `tails` | one tail, three commits, one dropped row; 473 746 | `QuietIsCaughtUp`; `ImplementsReaders` (refines `LogReaders`); `TailsCatchUp`; `TailsEnd` |
| `requests` | a root and the child that asks, one request of any kind, two surfaces, two changes of grants, one crash; 6.03 million | `ImplementsRegister` (refines `DecisionRegister`); `NoLostDecision`; `PluginAgrees`; `CoveredIsDecided`; `ChangeStands` |

No run checks a type invariant, nor a safety property whose faults another
property of its run shows as well: `PermitIsHeldInScope`, `RowsNameEveryBill`,
`InsideIsFirst`, `ClosedLogStands`, and what an abstract specification says
already (`FilesExcludeDriver` and `DrivenOrEnded` of `RunLives`, `ReadOnce` and
`ClosedIsEmpty` of `Mailbox`, `TailExact` of `LogReaders`, `DecisionsStand` and
`AnswerIsRecord` of `DecisionRegister`). Those are proved
([section 5](#5-what-is-proved)).

Why the bounds are enough to mean something:

- *gate.* Two calls on three routes have one route shared and one each, so a
  call can wait at a second route while its first cools, and both can fail
  together or late. Two coolings let a pass go stale across a whole
  cool-and-open cycle.
- *invocation.* Three attempts spend the automatic retry and reach a person's
  answer and a resend; the restart puts a crash before and after each row of an
  attempt, and the invariants are proved for any number of them. `MaxAttempts`
  bounds only a person's grants.
- *lane.* Four claims on one key have a holder, an interrupted waiter, an
  interrupted waiter behind it, and a fourth behind both; the second key shows
  that keys do not mix.
- *registry.* The root an earlier process left has a life there and one here,
  and its child one; "two stops" are one each of two people or both of one, so
  that one overtakes the other, and the close stops beside them. A chain of
  three is the least where a cascade passes through a run; a person and the
  close overlap there. What depends on more lives, stops or runs is the
  theorems'.
- *inbox.* Two messages, one of which wakes and one of which replays; two lives
  are a generation leaving while the next comes. Each is sent once: what a
  second send of the same message may do is in `InboxIsMailbox` and
  `InboxReadOnce`, proved for any `MaxSends`; that a follower is read only beside a leader is `InboxIsMailbox`,
  since the run has no message that follows.
- *store.* One job of each sort: awaited, detached, barrier. Each order of the
  three is an order of enqueuing, so a barrier has jobs before it and after,
  and a cut job has others behind it. Two rows are the least job that could be
  torn.
- *tails.* The drain and a tail meet in pairs, so one tail suffices; three
  commits make a page, a share that covers the rest, and one more behind both;
  the dropped row may be any.
- *requests.* One request, since requests of different calls share only the
  grants; the child has a parent to be granted under; two surfaces are two
  decisions; two changes are a grant and its taking back, at either run; the
  crash falls anywhere.

`registry_close` switches off what its properties are known not to survive;
[section 6](#6-what-was-found) lists each. Deadlock is not
checked (`CHECK_DEADLOCK FALSE`) where the system may really stop: a run nobody
opens again, all claims over, a session closed or its bounds used up. `Gate.cfg`
checks it. Two runs use symmetry: `requests` over its surfaces, `registry_stop`
over its two people, who differ in nothing. They check no liveness, for which
symmetry would be unsound.

## 4. Fairness

- *Gate.* Weak for a call's own steps (`Through`: the fiber is scheduled, the
  provider's answer or the transport's timeout comes), strong for `Acquire`
  (an Effect semaphore serves its waiters first come first served, so one that
  waits while the permit is repeatedly free gets it), weak for `Elapse` (a
  timer fires). Nothing need be interrupted or succeed.
- *Invocation.* Weak for the loop as a whole, for the provider finishing what
  it accepted, and for a stop's interruption arriving. Nobody need answer,
  resume or send.
- *Lane.* Weak for entering, forwarding, and leaving from inside: holders hold
  it for one bounded operation. No waiter need give up.
- *Registry.* Weak for an opening's steps, an interrupted run's end, every
  exit, each stopper's steps, and the fold. No run need end by itself, no host
  need let go.
- *Inbox.* Weak for *some* sender, *some* wake, the opening, the loop and the
  stop. The turns of the loop end by themselves, which holds of a loop whose
  calls come out (`EveryCallEnds`, `SettlesOrAsks`, or a person answers).
  Nobody need send, stop, resume or restart.
- *Store.* Weak for each thing a fiber does by itself: the consumer, the
  drain with its deadline (a timer), the tail, the folded reader, a caller's
  settlement. A job's body need not end, nobody need enqueue or close, and no
  level need end.
- *Tails.* Weak for the drain and for each tail. Nobody need commit, subscribe
  or close.
- *Requests.* None: no property of the run is about progress. A surface waits
  only in its request's lane, whose liveness is `lane`'s, and a call waits for
  a person for as long as it takes.

## 5. What is proved

TLAPS checks all of it from the named `ASSUME`s of each module, for any number
of calls, routes, claims, runs, messages, jobs, commits, tails, requests,
surfaces, retries and restarts. Every module's type invariant is among it. Two facts about
the platform are built into the actions rather than assumed: no preemption
between suspension points, and atomic store jobs. Every proof has the same
layout: the inductive invariant, one lemma per action (or per family of them),
their sum over `Next`, and a temporal theorem for each property.

Each component but the invocation implements an abstract specification, and the
proof of it is one: the initial states map to initial states, and under the
inductive invariant every step maps to a step of the abstract one or to a
stutter (`GateImplementsBreaker`, `LaneImplementsFifo`,
`RegistryImplementsLives`, `InboxIsMailbox`, `PublisherImplementsLog`,
`TailsAreReaders`, `RequestsAreRegisters`). The abstract specification says in a
page what the component promises; it names no queue, latch, view or fiber.

- **Gate** (`ModelRetryGate_proofs`). None of the safety properties is
  inductive alone. `IInv` adds `Standing` (what each place of a call says of
  its frames and permit), `PassIsPast` (an admission number is never ahead of
  the route's), and `ProbedIsCooling` (a route a call sleeps out or goes
  through as its probe stays cooling).
  From it: `GatePermits`, `GateCooling`, the action properties `GateOneCooling`
  and `GateBackoff`, and `GateImplementsBreaker`: with `Mode` as the refinement
  mapping, every step moves each route as a circuit breaker may or leaves it.
  `Mode` is a function of a route's health, its backoff and whether a probe of
  it is in flight or being settled, so one step of a call with several routes
  moves each by its own rule. A probe keeps its permit while it queues for its
  next route's, so calls hold and wait. `GateNoCircularWait`: a call that queues
  while another waits for a permit of its own queues for a later route of its
  path (`QueuesForLater`), so where no chain of later and later routes goes on
  for ever no set of calls waits for each other. `GateModelThenWire` discharges
  that hypothesis for the paths `routePolicies` builds, a model's route and then
  a wire's.
- **Invocation** (`Invocation_proofs`). The loop sends by its own fold, and
  rows it did not write may be ahead of it. `Follows` says how far; `Shape`
  says, per place, which attempt is the current one; `Answered` and `Named` tie
  the provider's side to the rows; `Foldable` excludes `Refused`; `Budget`
  counts spent retries and grants against the attempts. From it
  `InvocationHistoryLoads`, `InvocationBill`, `InvocationRowsNameBills`.
  `InvocationObserves` goes through the steps that could end the observation of
  recorded work: at each place but the two observing ones, `Follows` and `Shape`
  have the work unrecorded or done. `InvocationAsks` takes a second invariant, `Admission`,
  beside the first: a person's answer stays readable in the rows
  (`Remembered`: by the failure it answers, and after the next attempt by that
  attempt's earlier failures), the process never reads less of it than the rows
  hold, and a loop at the gate that reads one has nothing of unknown outcome.
  `InvocationNeverStuck` is the safety half of `SettlesOrAsks`: a failure that
  asks always has its request's row (`Answerable`), so a process that reads its
  next move off the rows finds one, and only one.
- **Lane** (`PerKeyLane_proofs`). `Chain` and `TailIsLast` say the `previous`
  links of a key are its claims in order with the tail the last; `Waits` and
  `HandsOff` say the Deferred a claim waits for is finished only when every
  earlier claim is out, through any number of forwarding ones. From it
  `LaneInsideIsFirst`, `LaneLasts` (with cardinality lemmas on the fibers of a
  key), and `LaneImplementsFifo`. `LaneNeverStalls` is the safety half of
  `EveryWaiterLeaves`: the oldest waiter of a lane always has a completed
  Deferred before it.
- **Registry** (`RunRegistry_proofs`). `Fates` ties the maps to the rows: an
  opening and a fiber exclude each other and a file operation (`Exclusive`,
  `FilesExcludeDriver`), an opening past its rows is of a run born
  (`OpenedIsBorn`), each run opened is held or ended (`Accounted`), a failed
  opening is over on its rows (`FailedIsOver`). From it
  `RegistryDrivenOrEnded`, `RegistryFilesExcludeDriver`,
  `RegistryAskedStopIsApplied`. `Aims` adds what a stop finds when it commits:
  the run, and each child of the cascade, as the stop captured it, since
  nothing can start it meanwhile (`Aimed`), and an opening whose rows are its
  own batch's (`FreshRows`). `RegistryStoppedIsInterrupted` follows where one
  stopper acts beside the close (`OneUser`): a second stop of a run may take it
  out of `stopping` under the first, which is harmless only when one of the two
  is the close's, for then the session starts nothing. For any number of
  stoppers there are two theorems. `RegistrySlipsHaveCause`, with no condition
  at all: a fiber comes to drive on under a stop or an end only by the rows of
  a stop that another one overtook, or where the store refuses one that has it
  in hand. Its invariant (`Marks`) says what `stopping` is worth while it
  stands: a marked run is not opening, and if a fiber drives it untended then
  some stop under way has captured that fiber. `RegistryUnlessOvertaken`:
  `StoppedIsInterrupted` holds of every behaviour in which no stop is overtaken.
  `RegistryImplementsLives` reads the place of a run off its file operation, its
  opening and its fiber, one of which it has at a time, and gives each action's
  move of it; a cascade moves several runs in one step, each by its own rules.
  `RegistryClosedIsStopped` is for a session of fresh runs (`FreshRuns`: no
  inherited rows, no resume, "Keep agents running" off, no refused stop), any
  tree and any number of stoppers. `Family` says there that a run is launched
  only by a driven one and that the view's edges are only added. Then every
  fiber not yet interrupted is in a hand of the close (`InHand`): under a root
  still listed, under the root being stopped, that root, or in its cascade.
  The ancestors are the least set closed under the attached parent, so what
  holds of them is shown of a closed set, without induction; that every held
  run is under a root rests on the tree having no cycle.
- **Inbox** (`FollowUpInbox_proofs`). `ReaderIsLooping` (a reader exists
  exactly while its loop does), `Quiet` (a loop past its look at the queue has
  its latch open or nothing readable), `StopHolds` (a stop in progress and the
  row it writes), `Once` (queued, in a batch, and taken exclude each other,
  with the count of turns), `Closed`. `SomeoneComes` is then inductive
  with them. From it `InboxNoSleepOnInput`, `InboxSomeoneComes`,
  `InboxReadOnce`, `InboxClosedIsEmpty`. `InboxIsMailbox` reads the place of a
  message off its rows (new, queued, read, dropped with a root's end) for every
  assignment of senders and holds: a batch is read at once, and one that holds a
  message which waits for an instruction holds the instruction.
- **Publisher and store** (`SessionStore_proofs`). `PInv` says the queue holds
  exactly the waiting jobs, once each (`Queued`, `Waits`), that a job's fate is
  its phase's (`Works`), and what each step of the close leaves (`Closing`).
  From it `CloseAnswersAll`, `TrackingIsTrue`, `ClosedLogIsFinal` and
  `PublisherImplementsLog`, whose mapping makes the undecided job the head of
  `pending`. `StoreIsPublisher`: every step of the store is a step of the
  publisher or leaves it alone, so all of it holds of the composition. `SInv`
  adds that a caller which returned has its commits within the levels
  (`Settles`), that the jobs a barrier must cover are ahead of it in the queue
  (`Ahead`) and, once it ran, committed no later than what it read (`Passed`):
  `ReturnsAreFolded` and `BarriersCover`. `PublisherNeverStalls`: a job somebody
  waits for is always in somebody's hands, its body's, the database's, the
  consumer's or the close's. The last row of a job is a greatest number of a set; the
  induction it needs is the well-foundedness of `<` on the naturals.
- **Tails** (`LogTails_proofs`). Each delivery covers the range from where the
  one before it reached (`Drains`), and a tail has, or reads itself, what it
  skipped of them (`Follows`): from it `TailsAreExact`. The move of `published`
  and the publish are two steps, and the share in hand between them is a
  conjunct of its own. `TailsAreReaders` follows from one lemma on what a tail
  drops of a delivery it partly has (`FreshCovers`). `QuietTailsAreCaughtUp` is
  the safety half of `TailsCatchUp`, no raise is lost: what is committed past
  the drain's bound has a raise nobody took (`Wakes`).
- **Requests** (`Requests_proofs`). What a request's row says is its last entry
  in the log, so the proofs rest on lemmas on what one more transaction does to
  a last entry. The invariant says what each place of a call, a surface and a
  change knows of the log at the point it last read it, and that a view never
  runs ahead. From it `AnswersAreRecorded`, `NoDecisionIsLost`, `PluginsAgree`,
  `CoveredAreDecided`, `ChangesStand`, `DecisionsAreFinal`. In
  `RequestsAreRegisters` one transaction may decide many requests at once (a
  grant's, a run's end) and only those still open; `Overrule` is the one way a
  decision changes, and `Again` has to come before it.

**Only model-checked.** Liveness, which needs ENABLED: `EveryCallEnds`,
`SettlesOrAsks`, `EveryWaiterLeaves`, `ClosingDrains`, `OwedIsRead`,
`DrainEnds`, `CallersReturn`, `TailsCatchUp`, `TailsEnd`. Every safety property a passing
run checks has its theorem; those of `StoppedIsInterrupted` and
`ClosedIsStopped` are under the conditions said above, and that of
`NoCircularWait` under one on the routes' order. Liveness is TLC's alone also
where its safety half is proved: that a step can be taken is a theorem, that it
is taken rests on the fairness of [section 4](#4-fairness). No module declares a `RECURSIVE` operator.

## 6. What was found

Three claims of the repository's own text do not hold of the code. Each has a
run whose trace shows it.

- `invocation_observed`: `docs/spec.md:613` (of the harness package) says a
  failed observation of an accepted operation never resubmits it. `invoke` sets
  `observed` only when the move came from the rows (`ModelInvoker.ts:923`), so
  an observation that fails in the attempt that submitted the work counts as a
  failed send and is retried: the same work runs, and bills, twice.
- `registry_escape`: `runRegistry.ts:437-440` says no child escapes a stop. A
  child whose parent was read (`runLifecycle.ts:116`) before the parent's stop
  commits, and whose own rows commit after, is missed by the row check and by
  the cascade.
- `inbox_lane`: `ToolUseFollowUp.ts:177-179` says a send does not hold the
  later ones for a resumed turn. Sent to a run left stopped and unended by a
  crash, while it is being resumed, it waits in the lane for that generation's
  drain.

Behaviours met on the way that contradict no written claim, or only a bound of
a run's instance; the models have them all:

- `ClosedIsStopped` fails when a parent is resumed over a child already driven
  (`runRegistry.ts:449`), when "Keep agents running" detaches a child after
  `stopAll` listed its roots (509), and when the store refuses one transaction
  of the cascade (517). `registry_close` therefore has fresh runs, the setting
  off, and no refusal.
- `StoppedIsInterrupted` fails when two persons' stops of one run overlap,
  since the first to finish clears the mark that refuses starts (472): a run
  resumed in between drives on over the second's rows. `registry_close` has one
  such stopper beside the close; `SlipsHaveCause` of `registry_stop` has two,
  and says that this and a refused transaction are the only ways.
  `StoppedIsInterrupted` itself says nothing once the store refused a stop its
  rows.
- A run under the one a file operation holds may start: the wait is on the run
  itself (317).
- `RecordedWorkIsObserved` has the exception of `invocation_observed`: the
  failed observation of the execution that submitted the work. Every other one
  asks or ends the invocation. Nothing is cancelled at the provider by then, so
  an answer that retries sends again beside the work that runs on; the answer
  may be the automatic fallback off a used-up plan.
- `AskedBeforeResend` does not count an answer given to the failure of an
  attempt a clean close had marked (`~inv.closed` in `Decide`): that failure is
  left out of the earlier ones even when it, and the person's word on it, were
  recorded after the mark (`inFlight.ts:88`).
- A clean close excuses whatever attempt the rows leave open, one lost in an
  earlier crash included; the bill stays bounded, since the excuse is counted.
- A stop at the retry prompt cancels the invocation for good: every later
  resume of the run ends at once, as `docs/spec.md:583` intends.
- A failure older than its route's last cooling leaves a route that has since
  reopened healthy, and the failed call goes again with no pause.
- A user's message that passed the stop check and commits between a root's stop
  and its end is dropped with the end. A wake refused while a stop's
  transactions run leaves its message to an explicit resume.
- A decision changes in one way (`Overrule` of `DecisionRegister`). A call resumed over its open request
  takes the policy's answer to it and commits it unchecked
  (`toolGuard.ts:359-362`, `requests.ts:388-404`), and the fold lets the last
  decision win (`runRows.ts:216-225`): a denial a surface was told is recorded
  is replaced, where `requests.ts:8-9` has every decision one checked append.
- `CoveredIsDecided` has one. A grant committed between a call's read of the
  view and the opening of its request neither answers it nor finds it open: it
  waits for a person, although `requests.ts:3-7` has the grant answer it.
- `PluginAgrees` has two. A plugin records and delivers a decision before the
  row is checked, so a run's end in between leaves the row cancelled, and a
  crash leaves it open.

## 7. What is not modelled

Inside the modelled components:

- *Gate*: the length of backoff and jitter; which error blames which route is an
  input.
- *Invocation*: compaction's own call, the identified and `sent` payloads,
  streamed parts, rows naming other invocations, delays, a prompt's wait ended
  by the closing of the log, and the check of the recorded request
  (`checkRecordedRequest`, on in development and CI), whose failure is a defect
  that ends the run between the attempt's row and its send.
- *Lane*: `refuseClaim`, which no caller passes.
- *Publisher and store*: which rows `openWork` opens and closes (a job's rows
  open one piece of work), `removeRun`, the retries of a busy lock, reads, and
  a caller interrupted while its job runs on.
- *Tails*: the text of a filter, and the order within a delivery, which the
  query gives.
- *Requests*: goal grants and launch limits (a person's value stands for a
  goal's), what a kind's answers are beyond approve, deny and cancel, the
  host that presents a request, a run attached or detached while it asks.
- *Registry*: `dispose`, the controls map, an in-band caller's wait for its
  child beyond its interruption (`LetGo`), an end the store refuses, the wakes
  an exit sends (they are in the inbox).
- *Inbox*: control rows (`/compact`, a switch of model), a Stop hook's block,
  deletion, `dispose` and shutdown stops (every stop is a user's), the early
  answer of `sentBefore`, failed reads, an awaited child's owning call, detach,
  one-shot roots, the order of the send lane (that is `PerKeyLane`) and of a
  batch.

Each component is modelled against an external environment: the registry's runs
end when they like, the inbox's openings decide as they like, a request's call
asks when it likes. The store is composed with its publisher; the others are
not composed yet, and take from it what `PublisherImplementsLog` and
`ReturnsAreFolded` say: a transaction is one step, and its caller goes on once
the view has folded it.

Whole components: the tool loop, delegation, GitHub subscriptions and Lean
servers are planned. The session's layers and views are constructors and folds
over rows in order, whose one concurrent effect, that the view lags, is in
`RunRegistry`, `SessionStore` and `Requests`. The rest is files, text, wire
formats and interfaces.

## 8. The plan

Written, in this order: gate, invocation, lane, registry, inbox, the most
expensive mistakes (money, lost input, runs nobody can stop) first; then the
publisher and its store, the tails and the requests, which say what the first
five assume of a transaction and what a person's word is worth. Every safety
property has its theorem, and every component but the invocation its abstract
specification.

Next:

1. **Delegation**: an awaited call, its child's end, a crash between, and the
   sweep of leftover children; each owed call answered once.
2. **Registry and inbox composed**: the inbox's external openings replaced by
   the registry's, so that the exit's wake and the stop's hold are the same
   state in both.
3. **Tool dispatch across a crash**.
4. **GitHub subscriptions** (`PollingSourceBase.ts`, `RunSubscriptionRegistry.ts`)
   and the **Lean server pool**: their fibers, listeners and drains.
5. **Proofs**: `ClosedIsStopped` under inherited runs, with what it loses there
   named as `SlipsHaveCause` names it of a stop; a tree's cascade as one
   abstract step; the invocation as a metered account, the abstract
   specification it lacks.
