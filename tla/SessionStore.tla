---------------------------- MODULE SessionStore ----------------------------
(***************************************************************************)
(* A session's store (controllers/session/sessionStore.ts): its publisher, *)
(* and the three positions in the log its callers wait for.  The session's *)
(* own tail delivers each commit, the view folds each, and the reader of   *)
(* the folded tail runs over what both have.  A transaction returns once   *)
(* its own last commit is delivered and folded; `settled` is an ordering   *)
(* job that returns once that reader has run over every commit before it.  *)
(*                                                                         *)
(* A tail is a position that moves over the log until it ends: LogTails is *)
(* how it does that.                                                       *)
(***************************************************************************)
EXTENDS Publisher, Functions

CONSTANT Awaited    \* the jobs of callers that wait; a barrier's is one

ASSUME AwaitedAssumption == Ordering \subseteq Awaited /\ Awaited \subseteq Jobs

VARIABLES
    delivered,  \* the tail's position
    viewed,     \* the view's cursor
    foldedRead, \* how far the reader of the folded tail ran
    levelUp,    \* neither the tail nor the view's fiber ended
    readerUp,   \* nor the reader of the folded tail
    caller,     \* "out", "in", "settling", "returned", "failed"
    read,       \* the commit a barrier read in its place
    before      \* history: the jobs enqueued before a barrier

levels == <<delivered, viewed, foldedRead>>
ups == <<levelUp, readerUp>>
storeVars == <<levels, ups, caller, read, before>>
allVars == <<vars, storeVars>>

StoreTypeOK ==
    /\ TypeOK
    /\ {delivered, viewed, foldedRead} \subseteq 0..Len(log)
    /\ {levelUp, readerUp} \subseteq BOOLEAN
    /\ caller \in [Awaited -> {"out", "in", "settling", "returned", "failed"}]
    /\ read \in [Ordering -> 0..Len(log)]
    /\ before \in [Ordering -> SUBSET Jobs]

StoreInit ==
    /\ Init
    /\ delivered = 0 /\ viewed = 0 /\ foldedRead = 0
    /\ levelUp = TRUE /\ readerUp = TRUE
    /\ caller = [j \in Awaited |-> "out"]
    /\ read = [j \in Ordering |-> 0]
    /\ before = [j \in Ordering |-> {}]

-----------------------------------------------------------------------------
(* Callers: log.transact, log.settled; detach has none                     *)

Call(j) ==
    /\ Enqueue(j)
    /\ caller' = IF j \in Awaited THEN [caller EXCEPT ![j] = "in"] ELSE caller
    /\ before' = IF j \in Ordering
                 THEN [before EXCEPT ![j] = {k \in Jobs : done[k] # "none"}]
                 ELSE before
    /\ UNCHANGED <<levels, ups, read>>

CurrentCommit == Len(log)

\* A barrier's body reads currentCommit in its place.
BodyRuns ==
    /\ BodyStep
    /\ read' = IF running \in Ordering
               THEN [read EXCEPT ![running] = CurrentCommit] ELSE read
    /\ UNCHANGED <<levels, ups, caller, before>>

Commits(j) == {i \in DOMAIN log : log[i] = j}

\* Fault: a batch settles to its first commit.
BugNeed(j) == IF j \in Ordering THEN read[j]
              ELSE IF Commits(j) = {} THEN 0 ELSE Min(Commits(j))

\* Where the caller of j settles: the commit its barrier read, its own last
\* commit, and with no row nowhere.
Need(j) == IF j \in Ordering THEN read[j]
           ELSE IF Commits(j) = {} THEN 0 ELSE Max(Commits(j))

\* The Deferred is done: the caller goes on to its settlement, or fails.
Answered(j) ==
    /\ caller[j] = "in" /\ done[j] # "waiting"
    /\ caller' = [caller EXCEPT ![j] = IF done[j] = "ok" THEN "settling"
                                       ELSE "failed"]
    /\ UNCHANGED <<vars, levels, ups, read, before>>

Cursor == IF viewed < delivered THEN viewed ELSE delivered

\* Fault: a barrier returns once its commit is folded.
BugBarrierLevel(j) == Cursor

Level(j) == IF j \in Ordering THEN foldedRead ELSE Cursor

\* `to(commit)`
Settled(j) ==
    /\ caller[j] = "settling" /\ Level(j) >= Need(j)
    /\ caller' = [caller EXCEPT ![j] = "returned"]
    /\ UNCHANGED <<vars, levels, ups, read, before>>

\* Fault: the settlement waits on its level alone.
BugLevelOver(j) == FALSE

\* The tail ended, or the level did with the view's fiber or the reader.
LevelOver(j) == ~levelUp \/ (j \in Ordering /\ ~readerUp)

SettleDies(j) ==
    /\ caller[j] = "settling" /\ LevelOver(j)
    /\ caller' = [caller EXCEPT ![j] = "failed"]
    /\ UNCHANGED <<vars, levels, ups, read, before>>

-----------------------------------------------------------------------------
(* The tail, the view and the reader of the folded tail                    *)

Deliver ==
    /\ levelUp /\ delivered < Len(log)
    /\ delivered' = delivered + 1
    /\ UNCHANGED <<vars, viewed, foldedRead, ups, caller, read, before>>

Fold ==
    /\ levelUp /\ viewed < Len(log)
    /\ viewed' = viewed + 1
    /\ UNCHANGED <<vars, delivered, foldedRead, ups, caller, read, before>>

ReadFolded ==
    /\ readerUp /\ foldedRead < Cursor
    /\ foldedRead' \in (foldedRead + 1)..Cursor
    /\ UNCHANGED <<vars, delivered, viewed, ups, caller, read, before>>

\* A read failure, a defect in a fold, or the scope's close ends one.
Ends ==
    /\ \/ levelUp /\ levelUp' = FALSE /\ UNCHANGED readerUp
       \/ readerUp /\ readerUp' = FALSE /\ UNCHANGED levelUp
    /\ UNCHANGED <<vars, levels, caller, read, before>>

-----------------------------------------------------------------------------
CallerStep(j) == Answered(j) \/ Settled(j) \/ SettleDies(j)

StoreNext ==
    \/ \E j \in Jobs : Call(j)
    \/ BodyRuns
    \/ (ConsumerMoves \/ Drain \/ DrainStep) /\ UNCHANGED storeVars
    \/ \E j \in Awaited : CallerStep(j)
    \/ Deliver \/ Fold \/ ReadFolded \/ Ends

StoreSpec == StoreInit /\ [][StoreNext]_allVars

\* The consumer's own steps are taken, the deadline is a timer, and COMMIT
\* and the interrupt come back; callers, the tail, the view and the reader
\* are fibers that are run while they last.  Nothing says that a job's body
\* ends, that the session closes or that anybody enqueues.
StoreFairness ==
    /\ WF_allVars(ConsumerMoves /\ UNCHANGED storeVars)
    /\ WF_allVars(DrainStep /\ UNCHANGED storeVars)
    /\ WF_allVars(\E j \in Awaited : CallerStep(j))
    /\ WF_allVars(Deliver) /\ WF_allVars(Fold) /\ WF_allVars(ReadFolded)

StoreLiveSpec == StoreSpec /\ StoreFairness

-----------------------------------------------------------------------------
\* What a caller wrote is delivered and folded when its transaction returns:
\* the view it reads next has all of its rows.
ReturnedIsFolded ==
    \A j \in Awaited \ Ordering : caller[j] = "returned" =>
        \A i \in Commits(j) : i <= delivered /\ i <= viewed

\* When `settled` returns, every job enqueued before it is over and the
\* reader of the folded tail has run over its rows: what a run's end asks of
\* its trace (`lost`, openWork) counts every row published before.
SettledCoversEarlier ==
    \A b \in Ordering : caller[b] = "returned" =>
        \A j \in before[b] : /\ done[j] # "waiting"
                             /\ \A i \in Commits(j) : i <= foldedRead

\* While bodies end, every caller is answered: by its settlement or, with
\* the tail, the view or the reader gone under it, by a failure.
BodiesEnd == []<>(phase # "body")
CallersReturn ==
    BodiesEnd => \A j \in Awaited :
        caller[j] = "in" ~> caller[j] \in {"returned", "failed"}
=============================================================================
