---------------------------- MODULE FollowUpInbox ----------------------------
(***************************************************************************)
(* One run's input: what its rows queue (agent/followUp/Inbox.ts), the     *)
(* reader of the generation that drives it (RunInput.ts), the senders      *)
(* (ToolUseFollowUp.ts), and the wakes that resume the run for a message   *)
(* nobody here reads.                                                      *)
(*                                                                         *)
(* A transaction is one job of the session's publisher and holds the       *)
(* database, so no read falls inside it: atomic here, with the signal an   *)
(* admission gives the reader.  Everything else goes on between the steps. *)
(* The queue is the set of pending messages; the order in which a batch    *)
(* lists them is data.  The run's turns, and how its openings decide, are  *)
(* external.  A child of the run sends its report with its own end.        *)
(***************************************************************************)
EXTENDS Naturals, FiniteSets

CONSTANTS
    Msgs,           \* the messages, each its own follow-up id
    From,           \* [Msgs -> Senders]: who each is from
    Hold,           \* [Msgs -> Holds]: when it may be read
    Exits,          \* the waker that is a run's exit
    MaxLives,       \* bound: the generations started
    MaxStops,       \* bound: the user's stops
    MaxRestarts,    \* bound: the crashes, each followed by a new process
    MaxSends        \* bound: how often one message is sent (a retry, a replay)

Senders == {"user", "child", "parent", "peer", "notification"}
Holds == {"none", "turn", "instruction"}
Wakers == Msgs \cup {Exits}

ASSUME MsgsFinite == IsFiniteSet(Msgs)
ASSUME SendersAssumption == From \in [Msgs -> Senders]
ASSUME HoldsAssumption == Hold \in [Msgs -> Holds]
ASSUME ExitsIsNoMessage == Exits \notin Msgs

VARIABLES
    rows,    \* the log: the queue, what was taken, the run's lifecycle
    run,     \* the registry's hold of the run and its loop's position
    reader,  \* the generation's reader is in the inbox's map
    signal,  \* its latch is open
    send,    \* what each sender is doing
    cap,     \* the generation a sender found, whose drain it may wait for
    wake,    \* what each wake of the run is doing
    halt,    \* the user's stop in progress
    left,    \* the messages a logged refusal or a crash left to a resume
    spent    \* how much of each bound was used

vars == <<rows, run, reader, signal, send, cap, wake, halt, left, spent>>

Opening == {"opening", "checked", "opened", "halted", "failing", "failed"}
Looping == {"entry", "turn", "boundary", "taking", "park", "listen", "read",
            "empty", "wait"}
Ending == {"leaving", "exiting"}
Places == {"none"} \cup Opening \cup Looping \cup Ending
InLane == {"lane", "facts", "drain", "admit"}
Sending == {"idle", "queued", "reported"} \cup InLane
Waking == {"idle", "look", "input", "resume", "join"}

\* What the run's rows say: the messages queued, those taken or dropped,
\* those queued after the stop, how often each became part of a turn, and
\* the lifecycle.
Rows == [queued: SUBSET Msgs, taken: SUBSET Msgs, late: SUBSET Msgs,
         turns: [Msgs -> 0 .. 2], ended: BOOLEAN, stopped: BOOLEAN,
         closed: BOOLEAN, resting: BOOLEAN, child: BOOLEAN]

TypeOK ==
    /\ rows \in Rows
    /\ run \in [at: Places, life: Nat, asked: BOOLEAN, batch: SUBSET Msgs]
    /\ reader \in BOOLEAN /\ signal \in BOOLEAN
    /\ send \in [Msgs -> Sending]
    /\ cap \in [Msgs -> Nat]
    /\ wake \in [Wakers -> Waking]
    /\ halt \in [at: {"idle", "asked", "written"}, life: Nat]
    /\ left \subseteq Msgs
    /\ spent \in [stops: Nat, restarts: Nat, sends: [Msgs -> Nat]]

\* A run its session just forked, with nothing queued.
Init ==
    /\ \E c \in BOOLEAN :
          rows = [queued |-> {}, taken |-> {}, late |-> {},
                  turns |-> [m \in Msgs |-> 0], ended |-> FALSE,
                  stopped |-> FALSE, closed |-> FALSE, resting |-> FALSE,
                  child |-> c]
    /\ run = [at |-> "entry", life |-> 1, asked |-> FALSE, batch |-> {}]
    /\ reader = FALSE /\ signal = FALSE
    /\ send = [m \in Msgs |-> "idle"]
    /\ cap = [m \in Msgs |-> 0]
    /\ wake = [w \in Wakers |-> "idle"]
    /\ halt = [at |-> "idle", life |-> 0]
    /\ left = {}
    /\ spent = [stops |-> 0, restarts |-> 0, sends |-> [m \in Msgs |-> 0]]

-----------------------------------------------------------------------------
(* What the rows say. *)

Instruction(m) == From[m] \in {"user", "parent"}

\* The pending messages a run reads at one point of its loop.
Readable(queued, at) ==
    LET asked == \E m \in queued : Hold[m] = "none" /\ Instruction(m)
    IN  {m \in queued :
            \/ Hold[m] = "none"
            \/ Hold[m] = "turn" /\ at # "request"
            \/ Hold[m] = "instruction" /\ asked}

\* Whether pending message m obliges a resume of the run.
Obliges(m) ==
    /\ m \in Readable(rows.queued, "idle")
    /\ LET stopped == rows.ended /\ rows.stopped
       IN  CASE From[m] = "user" -> ~stopped \/ m \in rows.late
             [] From[m] \in {"child", "parent"} -> ~stopped
             [] From[m] = "peer" -> ~rows.ended
             [] OTHER -> FALSE

NeedsWake == \E m \in Msgs : Obliges(m)

\* The run's end on rows r: a root's unread input is dropped.
EndOf(r) ==
    IF r.ended THEN r
    ELSE IF r.child THEN [r EXCEPT !.ended = TRUE]
    ELSE [r EXCEPT !.ended = TRUE, !.queued = {}, !.taken = @ \cup r.queued]

\* The run's stop on rows r: the first of a lifecycle stands.
StopOf(r) ==
    IF r.ended \/ r.stopped THEN r
    ELSE [r EXCEPT !.stopped = TRUE, !.late = {}]

\* A variant in which the batch stays queued.
BugTakenOf(r, b) ==
    [r EXCEPT !.taken = @ \cup b, !.resting = FALSE,
              !.turns = [m \in Msgs |-> r.turns[m] + (IF m \in b THEN 1 ELSE 0)]]

\* Batch b became a message of the run's turn, which its rows open or join.
TakenOf(r, b) ==
    [r EXCEPT !.queued = @ \ b, !.taken = @ \cup b, !.resting = FALSE,
              !.turns = [m \in Msgs |-> r.turns[m] + (IF m \in b THEN 1 ELSE 0)]]

Live == run.at \in Looping \cup Ending

\* What an admission of m writes, read in its own job: nothing to a closed
\* input with no reader, nothing for an id the run holds or took.
Refused == rows.closed /\ ~reader
New(m) == ~Refused /\ m \notin rows.queued \cup rows.taken
Admitted(m) ==
    IF New(m)
    THEN [rows EXCEPT !.queued = @ \cup {m},
                      !.late = IF rows.stopped THEN @ \cup {m} ELSE @]
    ELSE rows
\* A variant whose signal only a waiting reader hears.
BugHeard(m) == signal \/ (run.at = "wait" /\ m \notin rows.taken)
Heard(m) == signal \/ (reader /\ ~Refused /\ m \notin rows.taken)

\* The reader ends with its generation; what is pending stays queued.
Released(to) ==
    /\ run' = [run EXCEPT !.at = to, !.batch = {}]
    /\ reader' = FALSE

-----------------------------------------------------------------------------
(* The senders (submitFollowUp). *)

Send(m) ==
    /\ From[m] # "child" /\ send[m] = "idle" /\ spent.sends[m] < MaxSends
    /\ send' = [send EXCEPT ![m] = "queued"]
    /\ spent' = [spent EXCEPT !.sends[m] = @ + 1]
    /\ UNCHANGED <<rows, run, reader, signal, cap, wake, halt, left>>

\* One send to the run at a time, from its checks to its row.
EnterLane(m) ==
    /\ send[m] = "queued" /\ \A n \in Msgs : send[n] \notin InLane
    /\ send' = [send EXCEPT ![m] = "lane"]
    /\ UNCHANGED <<rows, run, reader, signal, cap, wake, halt, left, spent>>

\* With no launch here the records say whether the run can continue; a
\* user's message to a run that is held here reads its rows first.
Check(m) ==
    /\ send[m] = "lane"
    /\ \E to \in IF run.at = "none" THEN {"idle", "admit"}
                 ELSE IF From[m] = "user" THEN {"facts"} ELSE {"admit"} :
          /\ send' = [send EXCEPT ![m] = to]
          /\ cap' = [cap EXCEPT ![m] = IF to = "facts" THEN run.life ELSE 0]
    /\ UNCHANGED <<rows, run, reader, signal, wake, halt, left, spent>>

\* To a run that is stopping, it waits until the generation it found drained.
ReadFacts(m) ==
    LET stopping == rows.stopped /\ ~rows.ended
    IN  /\ send[m] = "facts"
        /\ send' = [send EXCEPT ![m] = IF stopping THEN "drain" ELSE "admit"]
        /\ cap' = [cap EXCEPT ![m] = IF stopping THEN @ ELSE 0]
        /\ UNCHANGED <<rows, run, reader, signal, wake, halt, left, spent>>

Drained(m) ==
    /\ send[m] = "drain" /\ (run.at = "none" \/ run.life # cap[m])
    /\ send' = [send EXCEPT ![m] = "admit"]
    /\ cap' = [cap EXCEPT ![m] = 0]
    /\ UNCHANGED <<rows, run, reader, signal, wake, halt, left, spent>>

\* The send's job; a row no reader takes is the sender's to wake the run for.
Admit(m) ==
    /\ send[m] = "admit"
    /\ rows' = Admitted(m) /\ signal' = Heard(m)
    /\ wake' = IF New(m) THEN [wake EXCEPT ![m] = "look"] ELSE wake
    /\ send' = [send EXCEPT ![m] = "idle"]
    /\ UNCHANGED <<run, reader, cap, halt, left, spent>>

\* A child ends, its report admitted in the job of its end; its exit, later,
\* wakes this run.
ChildEnds(m) ==
    /\ From[m] = "child" /\ send[m] = "idle" /\ spent.sends[m] = 0
    /\ rows' = Admitted(m) /\ signal' = Heard(m)
    /\ send' = [send EXCEPT ![m] = "reported"]
    /\ spent' = [spent EXCEPT !.sends[m] = @ + 1]
    /\ UNCHANGED <<run, reader, cap, wake, halt, left>>

ChildExits(m) ==
    /\ send[m] = "reported"
    /\ send' = [send EXCEPT ![m] = "idle"]
    /\ wake' = [wake EXCEPT ![m] = "look"]
    /\ UNCHANGED <<rows, run, reader, signal, cap, halt, left, spent>>

-----------------------------------------------------------------------------
(* The wakes (wakeIfOwed, wakeRun, resumeRun). *)

\* A run with a reader here owes nothing.
Look(w) ==
    /\ wake[w] = "look"
    /\ wake' = [wake EXCEPT ![w] = IF reader THEN "idle" ELSE "input"]
    /\ UNCHANGED <<rows, run, reader, signal, send, cap, halt, left, spent>>

ReadInput(w) ==
    /\ wake[w] = "input"
    /\ wake' = [wake EXCEPT ![w] =
                  IF ~rows.closed /\ NeedsWake THEN "resume" ELSE "idle"]
    /\ UNCHANGED <<rows, run, reader, signal, send, cap, halt, left, spent>>

\* The registry's start: an opening run begins its next generation.
Begun == [run EXCEPT !.at = "opening", !.life = run.life + 1, !.asked = FALSE]
Startable == run.at = "none" /\ halt.at = "idle" /\ run.life < MaxLives

\* A run held here reads its input itself, an opening is joined; while the
\* run's stop is committing the resume is refused, and says so.
Resume(w) ==
    /\ wake[w] = "resume"
    /\ wake' = [wake EXCEPT ![w] = IF run.at \in Opening THEN "join" ELSE "idle"]
    /\ run' = IF Startable THEN Begun ELSE run
    /\ left' = IF run.at = "none" /\ ~Startable THEN rows.queued ELSE left
    /\ UNCHANGED <<rows, reader, signal, send, cap, halt, spent>>

Join(w) ==
    /\ wake[w] = "join" /\ run.at \notin Opening
    /\ wake' = [wake EXCEPT ![w] = "idle"]
    /\ left' = IF run.at = "none" THEN rows.queued ELSE left
    /\ UNCHANGED <<rows, run, reader, signal, send, cap, halt, spent>>

\* A person resumes the run.
HostResume ==
    /\ Startable /\ run' = Begun
    /\ UNCHANGED <<rows, reader, signal, send, cap, wake, halt, left, spent>>

-----------------------------------------------------------------------------
(* A resume's opening (openResume). *)

\* The opening fails, leaving rows r.
FailOn(r) ==
    /\ rows' = r
    /\ run' = [run EXCEPT !.at = "failing"]
    /\ UNCHANGED <<reader, signal, send, cap, wake, halt, left, spent>>

OpenFails == run.at \in {"opening", "checked"} /\ FailOn(rows)

\* A variant that closes whatever is queued.
BugOpenGone ==
    /\ run.at = "opening"
    /\ FailOn([rows EXCEPT !.closed = TRUE])

\* The run's records are gone: with nothing queued its input closes.
OpenGone ==
    /\ run.at = "opening"
    /\ FailOn(IF rows.queued = {} THEN [rows EXCEPT !.closed = TRUE] ELSE rows)

\* A stop asked of the failed opening ends the run on its rows.
OpenEnds ==
    /\ run.at = "failing" /\ run.asked
    /\ rows' = EndOf(StopOf(rows))
    /\ run' = [run EXCEPT !.at = "failed"]
    /\ UNCHANGED <<reader, signal, send, cap, wake, halt, left, spent>>

OpenLeaves ==
    /\ run.at = "failed" \/ (run.at = "failing" /\ ~run.asked)
    /\ left' = rows.queued
    /\ run' = [run EXCEPT !.at = "none", !.asked = FALSE]
    /\ UNCHANGED <<rows, reader, signal, send, cap, wake, halt, spent>>

OpenCheck ==
    /\ run.at = "opening" /\ ~rows.closed /\ ~run.asked
    /\ run' = [run EXCEPT !.at = "checked"]
    /\ UNCHANGED <<rows, reader, signal, send, cap, wake, halt, left, spent>>

\* The activation opens the next lifecycle.
Activate ==
    /\ run.at = "checked"
    /\ rows' = [rows EXCEPT !.ended = FALSE, !.stopped = FALSE,
                            !.closed = FALSE, !.late = {}]
    /\ run' = [run EXCEPT !.at = "opened"]
    /\ left' = {}
    /\ UNCHANGED <<reader, signal, send, cap, wake, halt, spent>>

\* Asked to stop meanwhile, the run is stopped on its rows, and interrupted
\* before its first step.
OpenStops ==
    /\ run.at = "opened" /\ run.asked
    /\ rows' = StopOf(rows)
    /\ run' = [run EXCEPT !.at = "halted"]
    /\ UNCHANGED <<reader, signal, send, cap, wake, halt, left, spent>>

Fork ==
    /\ run.at = "halted" \/ (run.at = "opened" /\ ~run.asked)
    /\ run' = [run EXCEPT !.at = IF run.asked THEN "leaving" ELSE "entry",
                          !.asked = FALSE]
    /\ UNCHANGED <<rows, reader, signal, send, cap, wake, halt, left, spent>>

-----------------------------------------------------------------------------
(* The loop and its reader (runToolUse, RunInput). *)

LoopOnly == UNCHANGED <<send, cap, wake, halt, left, spent>>

\* The loop goes from one place to another, holding batch b.
Goes(from, to, b) ==
    /\ run.at = from
    /\ run' = [run EXCEPT !.at = to, !.batch = b]

OpenReader ==
    /\ Goes("entry", IF rows.resting THEN "park" ELSE "turn", {})
    /\ reader' = TRUE /\ signal' = FALSE
    /\ UNCHANGED rows /\ LoopOnly

\* Before a request inside a turn, and at a root's completed turn's end:
\* what is readable is read, to be taken.
TurnReads(at) ==
    /\ at = "turn" => ~rows.child
    /\ Readable(rows.queued, at) # {}
    /\ Goes("turn", "taking", Readable(rows.queued, at))
    /\ UNCHANGED <<rows, reader, signal>> /\ LoopOnly

\* A turn ends with no input read: none is there, the run is a one-shot
\* child, or the turn failed.
TurnRests ==
    /\ Goes("turn", "boundary", {})
    /\ UNCHANGED <<rows, reader, signal>> /\ LoopOnly

\* A one-shot child ends with its completed turn.
CloseTurn ==
    /\ \E to \in {"park"} \cup (IF rows.child THEN {"leaving"} ELSE {}) :
          /\ Goes("boundary", to, {})
          /\ reader' = (to = "park")
    /\ rows' = [rows EXCEPT !.resting = TRUE]
    /\ UNCHANGED signal /\ LoopOnly

\* A person cancels what the turn asked, or the batch is not stored: nothing
\* was consumed.
LoopFails ==
    /\ run.at \in {"turn", "taking"} /\ Released("leaving")
    /\ UNCHANGED <<rows, signal>> /\ LoopOnly

\* A one-shot child with nothing pending ends at its park.
Park ==
    /\ run.at = "park"
    /\ IF rows.child /\ Readable(rows.queued, "idle") = {}
       THEN Released("leaving")
       ELSE Goes("park", "listen", {}) /\ UNCHANGED reader
    /\ UNCHANGED <<rows, signal>> /\ LoopOnly

\* The latch closes before the read.
Listen ==
    /\ Goes("listen", "read", {}) /\ signal' = FALSE
    /\ UNCHANGED <<rows, reader>> /\ LoopOnly

\* A variant that reads at rest as before a request.
BugReadIdle ==
    /\ LET b == Readable(rows.queued, "request")
       IN  Goes("read", IF b = {} THEN "empty" ELSE "taking", b)
    /\ UNCHANGED <<rows, reader, signal>> /\ LoopOnly

ReadIdle ==
    /\ LET b == Readable(rows.queued, "idle")
       IN  Goes("read", IF b = {} THEN "empty" ELSE "taking", b)
    /\ UNCHANGED <<rows, reader, signal>> /\ LoopOnly

Sleep ==
    /\ Goes("empty", "wait", {})
    /\ UNCHANGED <<rows, reader, signal>> /\ LoopOnly

Awake ==
    /\ signal /\ Goes("wait", "listen", {})
    /\ UNCHANGED <<rows, reader, signal>> /\ LoopOnly

\* The batch's consumed rows and the message it became, in one batch.
Take ==
    /\ Goes("taking", "turn", {})
    /\ rows' = TakenOf(rows, run.batch)
    /\ UNCHANGED <<reader, signal>> /\ LoopOnly

EndRun ==
    /\ Goes("leaving", "exiting", {})
    /\ rows' = EndOf(rows)
    /\ UNCHANGED <<reader, signal>> /\ LoopOnly

\* A variant whose exit wakes nobody.
BugExit ==
    /\ Goes("exiting", "none", {})
    /\ UNCHANGED <<rows, reader, signal, send, cap, wake, halt, left, spent>>

\* The fiber's exit wakes the run for what it holds.
Exit ==
    /\ Goes("exiting", "none", {})
    /\ wake' = [wake EXCEPT ![Exits] = "look"]
    /\ UNCHANGED <<rows, reader, signal, send, cap, halt, left, spent>>

-----------------------------------------------------------------------------
(* The user's stop, and the end of the process. *)

StopAsk ==
    /\ spent.stops < MaxStops /\ halt.at = "idle"
    /\ spent' = [spent EXCEPT !.stops = @ + 1]
    /\ IF run.at \in Opening
       THEN run' = [run EXCEPT !.asked = TRUE] /\ UNCHANGED halt
       ELSE /\ halt' = [at |-> "asked", life |-> IF Live THEN run.life ELSE 0]
            /\ UNCHANGED run
    /\ UNCHANGED <<rows, reader, signal, send, cap, wake, left>>

\* A run no fiber drives ends in the batch of its stop.
StopWrite ==
    /\ halt.at = "asked"
    /\ rows' = IF halt.life = 0 THEN EndOf(StopOf(rows)) ELSE StopOf(rows)
    /\ halt' = [halt EXCEPT !.at = "written"]
    /\ UNCHANGED <<run, reader, signal, send, cap, wake, left, spent>>

StopDone ==
    /\ halt.at = "written"
    /\ halt' = [at |-> "idle", life |-> 0]
    /\ IF run.at \in Looping /\ run.life = halt.life
       THEN Released("leaving")
       ELSE UNCHANGED <<run, reader>>
    /\ UNCHANGED <<rows, signal, send, cap, wake, left, spent>>

\* The process dies and another opens the session: the rows are what is
\* left, and nothing wakes a run for what an earlier process queued.
Restart ==
    /\ spent.restarts < MaxRestarts
    /\ spent' = [spent EXCEPT !.restarts = @ + 1]
    /\ run' = [run EXCEPT !.at = "none", !.asked = FALSE, !.batch = {}]
    /\ reader' = FALSE /\ signal' = FALSE
    /\ send' = [m \in Msgs |-> "idle"] /\ cap' = [m \in Msgs |-> 0]
    /\ wake' = [w \in Wakers |-> "idle"]
    /\ halt' = [at |-> "idle", life |-> 0]
    /\ left' = rows.queued
    /\ UNCHANGED rows

-----------------------------------------------------------------------------
SendStep(m) ==
    \/ EnterLane(m) \/ Check(m) \/ ReadFacts(m) \/ Drained(m) \/ Admit(m)
    \/ ChildExits(m)

WakeStep(w) == Look(w) \/ ReadInput(w) \/ Resume(w) \/ Join(w)

OpenStep ==
    \/ OpenFails \/ OpenGone \/ OpenEnds \/ OpenLeaves
    \/ OpenCheck \/ Activate \/ OpenStops \/ Fork

LoopStep ==
    \/ OpenReader \/ TurnReads("request") \/ TurnReads("turn") \/ TurnRests
    \/ CloseTurn \/ LoopFails \/ Park \/ Listen \/ ReadIdle \/ Sleep
    \/ Awake \/ Take \/ EndRun \/ Exit

StopStep == StopWrite \/ StopDone

Next ==
    \/ \E m \in Msgs : Send(m) \/ ChildEnds(m) \/ SendStep(m)
    \/ \E w \in Wakers : WakeStep(w)
    \/ HostResume \/ OpenStep \/ LoopStep \/ StopAsk \/ StopStep \/ Restart

Spec == Init /\ [][Next]_vars

\* Fibers run: while a sender can go on, some sender does, and so for the
\* wakes, the opening, a stop's transactions and the loop, whose turns end.
LiveSpec ==
    /\ Spec
    /\ WF_vars(\E m \in Msgs : SendStep(m))
    /\ WF_vars(\E w \in Wakers : WakeStep(w))
    /\ WF_vars(OpenStep) /\ WF_vars(LoopStep) /\ WF_vars(StopStep)

-----------------------------------------------------------------------------
\* The run never rests on a closed latch while a message it may read at rest
\* is queued: no signal is lost between its read and its wait (next).
NoSleepOnInput ==
    run.at = "wait" /\ ~signal => Readable(rows.queued, "idle") = {}

\* A message that obliges a resume has someone coming for it: a generation,
\* a wake, or the exit of the child that sent it; unless a refused resume
\* said otherwise, or the process it was sent to died (owesResume, wakeRun).
SomeoneComes ==
    \A m \in Msgs :
        /\ Obliges(m) /\ ~rows.closed /\ m \notin left
        => \/ run.at # "none"
           \/ \E w \in Wakers : wake[w] # "idle"
           \/ \E c \in Msgs : send[c] = "reported"

\* A message becomes part of one turn at most, whatever is sent again,
\* interrupted, or lost with the process (consume, admission).
ReadOnce == \A m \in Msgs : rows.turns[m] <= 1

\* A closed input holds no message (closeInput, admission).
ClosedIsEmpty == rows.closed => rows.queued = {}

\* The inbox is a mailbox: where each message is, by the run's rows.
PlaceOf(m) ==
    CASE m \in rows.queued /\ rows.turns[m] = 0 -> "queued"
      [] m \in rows.taken \ rows.queued /\ rows.turns[m] = 0 -> "dropped"
      [] m \in rows.taken \ rows.queued /\ rows.turns[m] = 1 -> "read"
      [] m \notin rows.queued \cup rows.taken /\ rows.turns[m] = 0 -> "new"
      [] OTHER -> "astray"

Box == INSTANCE Mailbox
         WITH Leaders <- {m \in Msgs : Hold[m] = "none" /\ Instruction(m)},
              Followers <- {m \in Msgs : Hold[m] = "instruction"},
              place <- [m \in Msgs |-> PlaceOf(m)],
              shut <- rows.closed, keeps <- rows.child

ImplementsMailbox == Box!Spec

\* A message that obliges a resume does not do so forever: it is read,
\* dropped with the run's end, held by a stop, or left to an explicit resume.
OwedIsRead ==
    \A m \in Msgs : Obliges(m) /\ m \notin left ~>
                    ~(Obliges(m) /\ m \notin left)

\* A send does not hold the lane, and the sends behind it, for as long as
\* the run goes on: it is refused or its row commits (submitFollowUp).
EverySendLands ==
    \A m \in Msgs : send[m] \in InLane ~> send[m] \notin InLane
=============================================================================
