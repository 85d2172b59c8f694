------------------------------ MODULE LogTails ------------------------------
(***************************************************************************)
(* The tails of the log (logTails, shared/session/sessionEvents.ts): one   *)
(* drain reads each commit once and fans it out to every tail.  A commit   *)
(* raises a level, and the raises of one read collapse into one further    *)
(* read.  A tail subscribes first, then reads what it starts behind from   *)
(* the database itself, and drops from both what it already has.           *)
(*                                                                         *)
(* A row is its commit, 1..size.  The rows of one delivery are a set: the  *)
(* database's query orders them.  The store may drop a row (a deleted      *)
(* run's) before a read reaches it: nothing is delivered for it, and the   *)
(* readers' positions pass it all the same.                                *)
(***************************************************************************)
EXTENDS Integers, Sequences, FiniteSets

CONSTANTS
    Tails,
    MaxLog,     \* bound on the commits of a behaviour
    MaxGone     \* bound on the rows the store drops

ASSUME MaxLogAssumption == MaxLog \in Nat
ASSUME MaxGoneAssumption == MaxGone \in Nat

VARIABLES
    size,       \* the last commit
    gone,       \* commits whose rows the store holds no more
    wake,       \* a raise of the level nobody took yet
    reading,    \* the drain: "idle", "woken", "reading", "publishing", "over"
    at,         \* how far the drain has read
    upTo,       \* the bound captured for the read under way
    share,      \* the delivery in hand: [rows, through]
    published,  \* what a tail that starts now finds in the database
    fanout,     \* every delivery published, in order
    tail,       \* "off", "subscribed", "behind", "live", "over"
    from,       \* where a tail starts
    taken,      \* how many deliveries of fanout it skipped or took
    behind,     \* through where it reads the database itself
    mark,       \* how far it got
    got         \* the rows it was handed, a set for each share with any

vars == <<size, gone, wake, reading, at, upTo, share, published, fanout, tail,
          from, taken, behind, mark, got>>

drainVars == <<reading, at, upTo, share, published, fanout>>
tailVars == <<tail, from, taken, behind, mark, got>>

NoShare == [rows |-> {}, through |-> 0]

Init ==
    /\ size = 0 /\ gone = {}
    /\ wake = TRUE
    /\ reading = "idle" /\ at = 0 /\ upTo = 0 /\ share = NoShare
    /\ published = 0 /\ fanout = <<>>
    /\ tail = [t \in Tails |-> "off"]
    /\ from = [t \in Tails |-> 0]
    /\ taken = [t \in Tails |-> 0]
    /\ behind = [t \in Tails |-> 0]
    /\ mark = [t \in Tails |-> 0]
    /\ got = [t \in Tails |-> <<>>]

\* The rows a read of (a, b] finds.
Held(a, b) == (a + 1)..b \ gone

-----------------------------------------------------------------------------
(* The store                                                               *)

\* A transaction committed n rows, then raised the level.
Grow(n) ==
    /\ n > 0 /\ size + n <= MaxLog
    /\ size' = size + n
    /\ wake' = TRUE
    /\ UNCHANGED <<gone, drainVars, tailVars>>

Collect(c) ==
    /\ c \in 1..size \ gone /\ Cardinality(gone) < MaxGone
    /\ gone' = gone \cup {c}
    /\ UNCHANGED <<size, wake, drainVars, tailVars>>

-----------------------------------------------------------------------------
(* forwardReads: the one drain                                             *)

\* The dropping buffer of one gives up the raise it holds.
WakeUp ==
    /\ reading = "idle" /\ wake
    /\ wake' = FALSE
    /\ reading' = "woken"
    /\ UNCHANGED <<size, gone, at, upTo, share, published, fanout, tailVars>>

\* Fault: the bound misses the last commit.
BugUpper == IF size = 0 THEN 0 ELSE size - 1

\* level.get
Upper == size

Capture ==
    /\ reading = "woken"
    /\ reading' = "reading"
    /\ upTo' = Upper
    /\ UNCHANGED <<size, gone, wake, at, share, published, fanout, tailVars>>

\* Fault: `published` moves only after the publish.
BugInHand(rows, through) ==
    /\ share' = [rows |-> rows, through |-> through]
    /\ at' = through
    /\ published' = at
    /\ reading' = "publishing"
    /\ UNCHANGED <<size, gone, wake, upTo, fanout, tailVars>>

\* A page of the rows through c, never past the bound, or the last share,
\* which has no row and covers the whole range.
InHand(rows, through) ==
    /\ share' = [rows |-> rows, through |-> through]
    /\ at' = through
    /\ published' = through
    /\ reading' = "publishing"
    /\ UNCHANGED <<size, gone, wake, upTo, fanout, tailVars>>

Page(c) ==
    /\ reading = "reading" /\ c \in (at + 1)..upTo \ gone
    /\ InHand(Held(at, c), c)

Covered ==
    /\ reading = "reading" /\ Held(at, upTo) = {}
    /\ InHand({}, IF at > upTo THEN at ELSE upTo)

\* Fault: a read ends with its first page.
BugAfterShare == "idle"

\* PubSub.publish; the share that covers the range ends the read.
AfterShare == IF share.rows = {} THEN "idle" ELSE "reading"

Publish ==
    /\ reading = "publishing"
    /\ fanout' = Append(fanout, share)
    /\ reading' = AfterShare
    /\ UNCHANGED <<size, gone, wake, at, upTo, share, published, tailVars>>

\* A read fails, or the scope closes: PubSub.end, and every tail with it.
End ==
    /\ reading # "over"
    /\ reading' = "over"
    /\ UNCHANGED <<size, gone, wake, at, upTo, share, published, fanout,
                   tailVars>>

-----------------------------------------------------------------------------
(* A tail                                                                  *)

\* PubSub.subscribe: what is published from here on reaches it.
Subscribe(t, f) ==
    /\ tail[t] = "off"
    /\ f \in 0..size
    /\ tail' = [tail EXCEPT ![t] = "subscribed"]
    /\ from' = [from EXCEPT ![t] = f]
    /\ mark' = [mark EXCEPT ![t] = f]
    /\ taken' = [taken EXCEPT ![t] = Len(fanout)]
    /\ UNCHANGED <<size, gone, wake, drainVars, behind, got>>

\* What it starts behind: through `published`, as it is now.
Start(t) ==
    /\ tail[t] = "subscribed"
    /\ behind' = [behind EXCEPT ![t] = published]
    /\ tail' = [tail EXCEPT ![t] = IF from[t] < published
                                   THEN "behind" ELSE "live"]
    /\ UNCHANGED <<size, gone, wake, drainVars, from, taken, mark, got>>

\* Fault: a tail hands on whatever it is given.
BugFresh(t, rows) == rows

\* `released`: the rows past what it already has.
Fresh(t, rows) == {c \in rows : c > mark[t]}

Hand(t, rows, through) ==
    /\ got' = [got EXCEPT ![t] = IF Fresh(t, rows) = {} THEN @
                                 ELSE Append(@, Fresh(t, rows))]
    /\ mark' = [mark EXCEPT ![t] = IF through > @ THEN through ELSE @]

CatchUp(t) ==
    /\ tail[t] = "behind"
    /\ Hand(t, Held(from[t], behind[t]), behind[t])
    /\ tail' = [tail EXCEPT ![t] = "live"]
    /\ UNCHANGED <<size, gone, wake, drainVars, from, taken, behind>>

\* Its own read fails: the tail ends alone.
ReadFails(t) ==
    /\ tail[t] = "behind"
    /\ tail' = [tail EXCEPT ![t] = "over"]
    /\ UNCHANGED <<size, gone, wake, drainVars, from, taken, behind, mark, got>>

Receive(t) ==
    /\ tail[t] = "live" /\ taken[t] < Len(fanout)
    /\ LET delivery == fanout[taken[t] + 1]
       IN Hand(t, delivery.rows, delivery.through)
    /\ taken' = [taken EXCEPT ![t] = @ + 1]
    /\ UNCHANGED <<size, gone, wake, drainVars, tail, from, behind>>

\* Fault: a drain that fails does not end its PubSub.
BugEnded == FALSE

\* PubSub.end, with the drain's exit.
Ended == reading = "over"

\* What was published before the end is handed on first.
TailEnds(t) ==
    /\ tail[t] = "live" /\ taken[t] = Len(fanout) /\ Ended
    /\ tail' = [tail EXCEPT ![t] = "over"]
    /\ UNCHANGED <<size, gone, wake, drainVars, from, taken, behind, mark, got>>

-----------------------------------------------------------------------------
DrainStep ==
    \/ WakeUp \/ Capture
    \/ \E c \in 1..MaxLog : Page(c)
    \/ Covered \/ Publish

TailStep(t) ==
    Start(t) \/ CatchUp(t) \/ ReadFails(t) \/ Receive(t) \/ TailEnds(t)

Next ==
    \/ \E n \in 1..MaxLog : Grow(n)
    \/ \E c \in 1..MaxLog : Collect(c)
    \/ DrainStep
    \/ End
    \/ \E t \in Tails : TailStep(t) \/ \E f \in 0..MaxLog : Subscribe(t, f)

Spec == Init /\ [][Next]_vars

\* The drain and a tail are fibers that are run; nobody need commit, open a
\* tail or close.
Fairness == WF_vars(DrainStep) /\ \A t \in Tails : WF_vars(TailStep(t))

LiveSpec == Spec /\ Fairness

-----------------------------------------------------------------------------
TypeOK ==
    /\ size \in 0..MaxLog
    /\ gone \subseteq 1..size
    /\ wake \in BOOLEAN
    /\ reading \in {"idle", "woken", "reading", "publishing", "over"}
    /\ at \in 0..size /\ upTo \in 0..size /\ published \in 0..size
    /\ share \in [rows : SUBSET (1..size), through : 0..size]
    /\ fanout \in Seq([rows : SUBSET (1..size), through : 0..size])
    /\ tail \in [Tails -> {"off", "subscribed", "behind", "live", "over"}]
    /\ from \in [Tails -> 0..size] /\ behind \in [Tails -> 0..size]
    /\ mark \in [Tails -> 0..size]
    /\ taken \in [Tails -> Nat]
    /\ got \in [Tails -> Seq(SUBSET (1..size))]

\* A tail is open from its subscription on.
StateOf(t) == IF tail[t] \in {"off", "over"} THEN tail[t] ELSE "on"

Log == INSTANCE LogReaders WITH Readers <- Tails,
                                state <- [t \in Tails |-> StateOf(t)]

\* Each tail is a reader with a place of its own: whatever it skips, reads
\* itself or is handed by the drain, it only moves on, and over every row
\* between; what the others do, or a tail opened later, moves it nowhere.
ImplementsReaders == Log!Spec

\* No raise is lost: with the drain asleep, its level taken and every
\* delivery handed on, a live tail is at the last commit, however the raises
\* collapsed and wherever between two steps of a read they came.
QuietIsCaughtUp ==
    reading = "idle" /\ ~wake =>
        \A t \in Tails :
            tail[t] = "live" /\ taken[t] = Len(fanout) => mark[t] = size

\* A tail hands on each row past its start once, in commit order, and none
\* is missing before its position but those the store no longer held:
\* wherever in a read, between its two steps or ahead of the drain it
\* subscribed.
TailExact ==
    \A t \in Tails :
        /\ \A i \in 1..Len(got[t]) : got[t][i] \subseteq (from[t] + 1)..mark[t]
        /\ \A k \in 1..Len(got[t]) : \A i \in 1..(k - 1) :
               \A c \in got[t][i], d \in got[t][k] : c < d
        /\ \A c \in (from[t] + 1)..mark[t] :
               c \in gone \/ \E i \in 1..Len(got[t]) : c \in got[t][i]

\* Every tail reaches every commit, however the raises collapse, unless the
\* drain or the tail is over.
TailsCatchUp ==
    \A t \in Tails : \A c \in 1..MaxLog :
        (tail[t] # "off" /\ size >= c) ~>
            (mark[t] >= c \/ reading = "over" \/ tail[t] = "over")

\* Every tail ends with the drain, one opened later included.
TailsEnd ==
    \A t \in Tails : (tail[t] # "off" /\ reading = "over") ~> tail[t] = "over"
=============================================================================
