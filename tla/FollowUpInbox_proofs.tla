------------------------ MODULE FollowUpInbox_proofs ------------------------
(***************************************************************************)
(* The safety of the follow-up inbox for any messages, senders, holds and  *)
(* bounds: no message sleeps unread, is read twice, is closed over, or     *)
(* waits with nobody coming for it.                                        *)
(***************************************************************************)
EXTENDS FollowUpInbox, TLAPS

\* What the assumptions and the types rest on.
USE SendersAssumption, HoldsAssumption, ExitsIsNoMessage

\* A reader is in the map from its opening to the loop's exit.
ReaderIsLooping ==
    /\ reader => run.at \in Looping \ {"entry"}
    /\ run.at \in {"turn", "taking", "park", "listen", "read", "empty", "wait"}
       => reader

\* The latch is closed at rest only over nothing to read.
Quiet ==
    run.at \in {"empty", "wait"} /\ ~signal => Readable(rows.queued, "idle") = {}

\* A stop that ends the run with its own rows keeps every start away.
StopHolds == halt.at # "idle" /\ halt.life = 0 => run.at = "none"

\* A message is queued or taken, never both, and part of a turn at most once;
\* the loop holds queued messages only.
Once ==
    /\ rows.queued \cap rows.taken = {}
    /\ \A m \in Msgs : rows.turns[m] <= 1
    /\ \A m \in Msgs : m \notin rows.taken => rows.turns[m] = 0
    /\ run.at = "taking" => run.batch \subseteq rows.queued

\* An input closes in a failing opening, empty, and opens with an activation.
Closed ==
    rows.closed => /\ run.at \in {"none", "opening", "failing", "failed"}
                   /\ rows.queued = {}

IInv ==
    /\ TypeOK /\ run.life > 0
    /\ ReaderIsLooping /\ Quiet /\ StopHolds /\ Once /\ Closed /\ SomeoneComes

-----------------------------------------------------------------------------
(* What the rows' operators keep. *)

\* An end keeps the rows' types, turns and closure, and drops what it
\* unqueues (endIn).
LEMMA EndOfRows ==
    ASSUME NEW r \in Rows
    PROVE  /\ EndOf(r) \in Rows
           /\ EndOf(r).turns = r.turns
           /\ EndOf(r).closed = r.closed
           /\ EndOf(r).ended
           /\ \/ EndOf(r).queued = r.queued /\ EndOf(r).taken = r.taken
              \/ /\ EndOf(r).queued = {}
                 /\ EndOf(r).taken = r.taken \cup r.queued
<1>1. CASE r.ended
    BY <1>1 DEF EndOf, Rows
<1>2. CASE ~r.ended /\ r.child
    BY <1>2 DEF EndOf, Rows
<1>3. CASE ~r.ended /\ ~r.child
    BY <1>3 DEF EndOf, Rows
<1> QED
    BY <1>1, <1>2, <1>3 DEF Rows

\* A stop keeps the queue, what was taken, the turns and the closure
\* (stopRun).
LEMMA StopOfRows ==
    ASSUME NEW r \in Rows
    PROVE  /\ StopOf(r) \in Rows
           /\ StopOf(r).turns = r.turns
           /\ StopOf(r).closed = r.closed
           /\ StopOf(r).ended = r.ended
           /\ StopOf(r).queued = r.queued
           /\ StopOf(r).taken = r.taken
<1>1. CASE r.ended \/ r.stopped
    BY <1>1 DEF StopOf, Rows
<1>2. CASE ~(r.ended \/ r.stopped)
    BY <1>2 DEF StopOf, Rows
<1> QED
    BY <1>1, <1>2 DEF Rows

\* A stop's end of the run owes nothing the rows did not owe before it
\* (needsWake over stopRun and endIn).
LEMMA StopOwesNothing ==
    ASSUME NEW m \in Msgs, rows \in Rows, rows' = EndOf(StopOf(rows)),
           Obliges(m)'
    PROVE  Obliges(m)
<1> From[m] \in Senders
    BY DEF Senders
<1>1. CASE rows.ended
    BY <1>1 DEF EndOf, StopOf, Obliges, Readable, Instruction, Rows
<1>2. CASE ~rows.ended /\ ~rows.child
  <2>1. rows'.queued = {}
    BY <1>2 DEF EndOf, StopOf, Rows
  <2> QED
    BY <2>1 DEF Obliges, Readable
<1>3. CASE ~rows.ended /\ rows.child
  <2>1. rows'.queued = rows.queued /\ rows'.ended /\ rows'.stopped
    BY <1>3 DEF EndOf, StopOf, Rows
  <2>2. rows'.late = IF rows.stopped THEN rows.late ELSE {}
    BY <1>3 DEF EndOf, StopOf, Rows
  <2>3. m \in Readable(rows.queued, "idle")
    BY <2>1 DEF Obliges
  <2>4. From[m] = "user" /\ rows.stopped /\ m \in rows.late
    BY <2>1, <2>2 DEF Obliges, Senders
  <2> QED
    BY <1>3, <2>3, <2>4 DEF Obliges
<1> QED
    BY <1>1, <1>2, <1>3 DEF Rows

\* An admission queues a message no turn read and nothing dropped, or
\* changes nothing (admission).
LEMMA AdmittedRows ==
    ASSUME NEW m \in Msgs, rows \in Rows
    PROVE  /\ Admitted(m) \in Rows
           /\ Admitted(m).taken = rows.taken
           /\ Admitted(m).turns = rows.turns
           /\ Admitted(m).closed = rows.closed
           /\ Admitted(m).queued =
                IF New(m) THEN rows.queued \cup {m} ELSE rows.queued
           /\ ~New(m) => Admitted(m) = rows
<1>1. CASE New(m)
    BY <1>1 DEF Admitted, Rows
<1>2. CASE ~New(m)
    BY <1>2 DEF Admitted, Rows
<1> QED
    BY <1>1, <1>2

\* A batch no turn read becomes part of one (consume).
LEMMA TakenRows ==
    ASSUME NEW b \in SUBSET Msgs, rows \in Rows,
           \A m \in b : rows.turns[m] = 0
    PROVE  /\ TakenOf(rows, b) \in Rows
           /\ TakenOf(rows, b).queued = rows.queued \ b
           /\ TakenOf(rows, b).taken = rows.taken \cup b
           /\ TakenOf(rows, b).closed = rows.closed
           /\ \A m \in Msgs : TakenOf(rows, b).turns[m] =
                                IF m \in b THEN 1 ELSE rows.turns[m]
<1>1. \A m \in Msgs : rows.turns[m] \in 0 .. 2
    BY DEF Rows
<1> DEFINE t == [m \in Msgs |-> rows.turns[m] + (IF m \in b THEN 1 ELSE 0)]
<1>2. t \in [Msgs -> 0 .. 2]
    BY <1>1
<1>3. \A m \in Msgs : t[m] = IF m \in b THEN 1 ELSE rows.turns[m]
    BY <1>1
<1>4. TakenOf(rows, b) =
        [rows EXCEPT !.queued = rows.queued \ b,
                     !.taken = rows.taken \cup b, !.resting = FALSE,
                     !.turns = t]
    BY DEF TakenOf, Rows
<1> HIDE DEF t
<1>5. TakenOf(rows, b) \in Rows
    BY <1>2, <1>4 DEF Rows
<1>6. /\ TakenOf(rows, b).queued = rows.queued \ b
      /\ TakenOf(rows, b).taken = rows.taken \cup b
      /\ TakenOf(rows, b).closed = rows.closed
      /\ TakenOf(rows, b).turns = t
    BY <1>4 DEF Rows
<1> QED
    BY <1>3, <1>5, <1>6

\* What the loop may read is queued (readableMessages).
LEMMA ReadableIsQueued ==
    ASSUME NEW q, NEW at
    PROVE  Readable(q, at) \subseteq q /\ (q = {} => Readable(q, at) = {})
BY DEF Readable

-----------------------------------------------------------------------------
(* The type invariant. *)

\* The run's initial state is in the invariant.
LEMMA InboxInit == Init => IInv
<1> SUFFICES ASSUME Init PROVE IInv
    OBVIOUS
<1>1. PICK c \in BOOLEAN :
        rows = [queued |-> {}, taken |-> {}, late |-> {},
                turns |-> [m \in Msgs |-> 0], ended |-> FALSE,
                stopped |-> FALSE, closed |-> FALSE, resting |-> FALSE,
                child |-> c]
    BY DEF Init
<1>2. rows \in Rows
    BY <1>1 DEF Rows
<1>3. TypeOK
    BY <1>2 DEF Init, TypeOK, Places, Opening, Looping, Ending, Sending,
                Waking
<1>4. ~rows.closed /\ rows.queued = {} /\ rows.taken = {}
      /\ \A m \in Msgs : rows.turns[m] = 0
    BY <1>1
<1>5. run.at = "entry" /\ run.life = 1 /\ ~reader /\ halt.at = "idle"
    BY DEF Init
<1>6. SomeoneComes
    BY <1>5 DEF SomeoneComes
<1> QED
    BY <1>3, <1>4, <1>5, <1>6 DEF IInv, ReaderIsLooping, Quiet, StopHolds,
       Once, Closed, Looping

\* A failing opening keeps the types.
LEMMA FailOnType ==
    ASSUME TypeOK, NEW r \in Rows, FailOn(r)
    PROVE  TypeOK'
BY DEF FailOn, TypeOK, Places, Opening, Rows

\* A step of a sender keeps the types (submitFollowUp).
LEMMA SendType ==
    ASSUME TypeOK, NEW m \in Msgs, Send(m) \/ ChildEnds(m) \/ SendStep(m)
    PROVE  TypeOK'
<1>0. m \in Wakers /\ Admitted(m) \in Rows
    BY AdmittedRows DEF TypeOK, Wakers
<1>1. CASE Send(m)
    BY <1>1 DEF Send, TypeOK, Sending
<1>2. CASE ChildEnds(m)
    BY <1>0, <1>2 DEF ChildEnds, TypeOK, Sending, Heard, Refused, Rows
<1>3. CASE EnterLane(m)
    BY <1>3 DEF EnterLane, TypeOK, Sending, InLane
<1>4. CASE Check(m)
    BY <1>4 DEF Check, TypeOK, Sending, InLane
<1>5. CASE ReadFacts(m) \/ Drained(m)
    BY <1>5 DEF ReadFacts, Drained, TypeOK, Sending, InLane
<1>6. CASE Admit(m)
  <2>1. rows' \in Rows /\ signal' \in BOOLEAN
      BY <1>0, <1>6 DEF Admit, TypeOK, Heard, Refused, Rows
  <2>2. wake' \in [Wakers -> Waking] /\ send' \in [Msgs -> Sending]
      BY <1>0, <1>6 DEF Admit, TypeOK, Waking, Sending
  <2> QED
      BY <1>6, <2>1, <2>2 DEF Admit, TypeOK
<1>7. CASE ChildExits(m)
    BY <1>0, <1>7 DEF ChildExits, TypeOK, Sending, Waking
<1> QED
    BY <1>1, <1>2, <1>3, <1>4, <1>5, <1>6, <1>7 DEF SendStep

\* A start keeps the run's type (start).
LEMMA BegunType ==
    ASSUME TypeOK
    PROVE  Begun \in [at: Places, life: Nat, asked: BOOLEAN, batch: SUBSET Msgs]
<1>1. run.life + 1 \in Nat
    BY DEF TypeOK
<1> QED
    BY <1>1 DEF TypeOK, Begun, Places, Opening

\* A step of a wake keeps the types (wakeIfOwed, resumeRun).
LEMMA WakeType ==
    ASSUME TypeOK, NEW w \in Wakers, WakeStep(w)
    PROVE  TypeOK'
<1>1. CASE Look(w)
    BY <1>1 DEF Look, TypeOK, Waking
<1>2. CASE ReadInput(w)
    BY <1>2 DEF ReadInput, TypeOK, Waking
<1>3. CASE Resume(w)
  <2>1. wake' \in [Wakers -> Waking]
      BY <1>3 DEF Resume, TypeOK, Waking
  <2>2. run' \in [at: Places, life: Nat, asked: BOOLEAN, batch: SUBSET Msgs]
      BY <1>3, BegunType DEF Resume, TypeOK
  <2>3. left' \subseteq Msgs
      BY <1>3 DEF Resume, TypeOK, Rows
  <2> QED
      BY <1>3, <2>1, <2>2, <2>3 DEF Resume, TypeOK
<1>4. CASE Join(w)
    BY <1>4 DEF Join, TypeOK, Waking, Rows
<1> QED
    BY <1>1, <1>2, <1>3, <1>4 DEF WakeStep

\* A step of an opening keeps the types (openResume).
LEMMA OpenType ==
    ASSUME TypeOK, OpenStep
    PROVE  TypeOK'
<1>1. CASE OpenFails
    BY <1>1, FailOnType DEF OpenFails, TypeOK
<1>2. CASE OpenGone
  <2>1. [rows EXCEPT !.closed = TRUE] \in Rows /\ rows \in Rows
      BY DEF TypeOK, Rows
  <2> QED
      BY <1>2, <2>1, FailOnType DEF OpenGone
<1>3. CASE OpenCheck
    BY <1>3 DEF OpenCheck, TypeOK, Places, Opening
<1>4. CASE Activate
  <2>1. rows' \in Rows
      BY <1>4 DEF Activate, TypeOK, Rows
  <2> QED
      BY <1>4, <2>1 DEF Activate, TypeOK, Places, Opening
<1>5. CASE OpenEnds \/ OpenStops
  <2>1. StopOf(rows) \in Rows /\ EndOf(StopOf(rows)) \in Rows
      BY StopOfRows, EndOfRows DEF TypeOK
  <2>2. rows' \in Rows
      BY <1>5, <2>1 DEF OpenEnds, OpenStops
  <2> QED
      BY <1>5, <2>2 DEF OpenEnds, OpenStops, TypeOK, Places, Opening
<1>6. CASE OpenLeaves
    BY <1>6 DEF OpenLeaves, TypeOK, Places, Rows
<1>7. CASE Fork
    BY <1>7 DEF Fork, TypeOK, Places, Looping, Ending
<1> QED
    BY <1>1, <1>2, <1>3, <1>4, <1>5, <1>6, <1>7 DEF OpenStep

\* A step of the loop keeps the types (runToolUse).
LEMMA LoopType ==
    ASSUME TypeOK, Once, LoopStep
    PROVE  TypeOK'
<1> USE DEF LoopOnly, Goes, Released, Places, Looping, Ending
<1>0. \A at : Readable(rows.queued, at) \subseteq Msgs
    BY ReadableIsQueued DEF TypeOK, Rows
<1>1. CASE OpenReader
    BY <1>1 DEF OpenReader, TypeOK
<1>2. ASSUME NEW at, TurnReads(at) PROVE TypeOK'
    BY <1>0, <1>2 DEF TurnReads, TypeOK
<1>3. CASE TurnRests
    BY <1>3 DEF TurnRests, TypeOK
<1>4. CASE CloseTurn
  <2>1. rows' \in Rows
      BY <1>4 DEF CloseTurn, TypeOK, Rows
  <2>2. PICK to \in {"park", "leaving"} :
          Goes("boundary", to, {}) /\ reader' = (to = "park")
      BY <1>4 DEF CloseTurn
  <2> QED
      BY <1>4, <2>1, <2>2 DEF CloseTurn, TypeOK
<1>5. CASE LoopFails
    BY <1>5 DEF LoopFails, TypeOK
<1>6. CASE Park
  <2>1. CASE Goes("park", "listen", {}) /\ UNCHANGED reader
      BY <1>6, <2>1 DEF Park, TypeOK
  <2>2. CASE Released("leaving")
      BY <1>6, <2>2 DEF Park, TypeOK
  <2> QED
      BY <1>6, <2>1, <2>2 DEF Park
<1>7. CASE Listen
    BY <1>7 DEF Listen, TypeOK
<1>8. CASE ReadIdle
  <2>1. run' \in [at: Places, life: Nat, asked: BOOLEAN, batch: SUBSET Msgs]
      BY <1>0, <1>8 DEF ReadIdle, TypeOK
  <2> QED
      BY <1>8, <2>1 DEF ReadIdle, TypeOK
<1>9. CASE Sleep \/ Awake
    BY <1>9 DEF Sleep, Awake, TypeOK
<1>10. CASE Take
  <2>1. run.batch \in SUBSET Msgs /\ \A m \in run.batch : rows.turns[m] = 0
      BY <1>10 DEF Take, Once, TypeOK, Rows
  <2>2. rows' \in Rows
      BY <1>10, <2>1, TakenRows DEF Take, TypeOK
  <2> QED
      BY <1>10, <2>2 DEF Take, TypeOK
<1>11. CASE EndRun
    BY <1>11, EndOfRows DEF EndRun, TypeOK
<1>12. CASE Exit
    BY <1>12 DEF Exit, TypeOK, Waking, Wakers
<1> QED
    BY <1>1, <1>2, <1>3, <1>4, <1>5, <1>6, <1>7, <1>8, <1>9, <1>10, <1>11,
       <1>12 DEF LoopStep

\* A step of a stop or a new process keeps the types (stop).
LEMMA StopType ==
    ASSUME TypeOK, StopAsk \/ StopStep \/ Restart \/ HostResume
    PROVE  TypeOK'
<1>1. CASE StopAsk
  <2>1. spent' \in [stops: Nat, restarts: Nat, sends: [Msgs -> Nat]]
      BY <1>1 DEF StopAsk, TypeOK
  <2>2. run' \in [at: Places, life: Nat, asked: BOOLEAN, batch: SUBSET Msgs]
    <3>1. run' = run \/ run' = [run EXCEPT !.asked = TRUE]
        BY <1>1 DEF StopAsk
    <3> QED
        BY <3>1 DEF TypeOK
  <2>3. halt' \in [at: {"idle", "asked", "written"}, life: Nat]
    <3>1. CASE run.at \in Opening
        BY <1>1, <3>1 DEF StopAsk, TypeOK
    <3>2. CASE run.at \notin Opening
      <4>1. (IF Live THEN run.life ELSE 0) \in Nat
          BY DEF TypeOK
      <4> QED
          BY <1>1, <3>2, <4>1 DEF StopAsk
    <3> QED
        BY <3>1, <3>2
  <2> QED
      BY <1>1, <2>1, <2>2, <2>3 DEF StopAsk, TypeOK
<1>2. CASE StopWrite
    BY <1>2, EndOfRows, StopOfRows DEF StopWrite, TypeOK
<1>3. CASE StopDone
    BY <1>3 DEF StopDone, TypeOK, Released, Places, Ending
<1>4. CASE Restart
  <2>1. spent' \in [stops: Nat, restarts: Nat, sends: [Msgs -> Nat]]
      BY <1>4 DEF Restart, TypeOK
  <2>2. /\ run' \in [at: Places, life: Nat, asked: BOOLEAN, batch: SUBSET Msgs]
        /\ left' \subseteq Msgs
      BY <1>4 DEF Restart, TypeOK, Places, Rows
  <2> QED
      BY <1>4, <2>1, <2>2 DEF Restart, TypeOK, Sending, Waking
<1>5. CASE HostResume
    BY <1>5, BegunType DEF HostResume, TypeOK
<1> QED
    BY <1>1, <1>2, <1>3, <1>4, <1>5 DEF StopStep

\* Every step keeps the types.
LEMMA InboxType == IInv /\ [Next]_vars => TypeOK'
<1> SUFFICES ASSUME IInv, [Next]_vars PROVE TypeOK'
    OBVIOUS
<1> TypeOK /\ Once
    BY DEF IInv
<1>1. CASE UNCHANGED vars
    BY <1>1 DEF vars, TypeOK
<1>2. CASE Next
    BY <1>2, SendType, WakeType, OpenType, LoopType, StopType
       DEF Next, SendStep, StopStep
<1> QED
    BY <1>1, <1>2

-----------------------------------------------------------------------------
(* The run's place: its reader, its latch, its stop and its closure. *)

\* The steps that leave the run, its reader, its latch, its stop and its rows
\* as they are.
Aside ==
    UNCHANGED <<rows, run, reader, signal, halt>>

\* What a step may be to the run: a sender that does not admit, a wake that
\* does not resume and a joined opening leave it as it is.
LEMMA StepKinds ==
    ASSUME [Next]_vars
    PROVE  \/ Aside
           \/ \E m \in Msgs : Admit(m) \/ ChildEnds(m)
           \/ \E w \in Wakers : Resume(w) \/ HostResume
           \/ OpenStep \/ LoopStep \/ StopAsk \/ StopStep \/ Restart
<1>1. Exits \in Wakers
    BY DEF Wakers
<1>2. ASSUME NEW m \in Msgs, Send(m) \/ ChildEnds(m) \/ SendStep(m)
      PROVE  Aside \/ Admit(m) \/ ChildEnds(m)
    BY <1>2 DEF Send, SendStep, EnterLane, Check, ReadFacts, Drained,
                ChildExits, Aside
<1>3. ASSUME NEW w \in Wakers, WakeStep(w) PROVE Aside \/ Resume(w)
    BY <1>3 DEF WakeStep, Look, ReadInput, Join, Aside
<1>4. CASE UNCHANGED vars
    BY <1>4 DEF vars, Aside
<1>5. CASE Next
    BY <1>1, <1>2, <1>3, <1>5 DEF Next
<1> QED
    BY <1>4, <1>5

\* The admissions touch the queue and the latch alone.
LEMMA Admissions ==
    ASSUME TypeOK, NEW m \in Msgs, Admit(m) \/ ChildEnds(m)
    PROVE  /\ UNCHANGED <<run, reader, halt, left>>
           /\ rows' = Admitted(m) /\ signal' = Heard(m)
BY DEF Admit, ChildEnds

\* A resume starts a run nothing holds here and no stop is committing, or
\* leaves it.
LEMMA Starts ==
    ASSUME NEW w \in Wakers, Resume(w) \/ HostResume
    PROVE  /\ UNCHANGED <<rows, reader, signal, halt>>
           /\ \/ UNCHANGED run
              \/ run.at = "none" /\ halt.at = "idle" /\ run' = Begun
BY DEF Resume, HostResume, Startable

\* The run's generations are numbered from one, and its reader is in the map
\* exactly while its loop reads (open, release).
LEMMA InboxReader ==
    IInv /\ [Next]_vars => run'.life > 0 /\ ReaderIsLooping' /\ StopHolds'
<1> SUFFICES ASSUME IInv, [Next]_vars
             PROVE  run'.life > 0 /\ ReaderIsLooping' /\ StopHolds'
    OBVIOUS
<1> TypeOK /\ ReaderIsLooping /\ StopHolds /\ run.life > 0 /\ run.life \in Nat
    BY DEF IInv, TypeOK
<1> DEFINE Goal == run'.life > 0 /\ ReaderIsLooping' /\ StopHolds'
<1> USE DEF ReaderIsLooping, StopHolds, Looping
<1>1. CASE Aside
    BY <1>1 DEF Aside
<1>2. ASSUME NEW m \in Msgs, Admit(m) \/ ChildEnds(m) PROVE Goal
    BY <1>2, Admissions
<1>3. ASSUME NEW w \in Wakers, Resume(w) \/ HostResume PROVE Goal
  <2>1. Begun.at = "opening" /\ Begun.life = run.life + 1
      BY DEF Begun, TypeOK
  <2> QED
      BY <1>3, <2>1, Starts
<1>4. CASE OpenStep
  <2>1. CASE OpenFails \/ OpenGone \/ OpenEnds \/ OpenLeaves \/ OpenStops
    <3>1. /\ run.at \notin Looping \union {"none"}
          /\ UNCHANGED <<reader, halt>>
          /\ run'.at \in {"none", "failing", "failed", "halted"}
          /\ run'.life = run.life
        BY <2>1 DEF OpenFails, OpenGone, OpenEnds, OpenLeaves, OpenStops,
           FailOn, TypeOK
    <3> QED
        BY <3>1
  <2>2. CASE OpenCheck
      BY <2>2 DEF OpenCheck, TypeOK
  <2>3. CASE Activate
      BY <2>3 DEF Activate, TypeOK
  <2>4. CASE Fork
      BY <2>4 DEF Fork, TypeOK
  <2> QED
      BY <1>4, <2>1, <2>2, <2>3, <2>4 DEF OpenStep
<1>5. CASE LoopStep
  <2> USE DEF LoopOnly, Goes, Released, TypeOK
  <2>1. CASE OpenReader
      BY <2>1 DEF OpenReader
  <2>2. ASSUME NEW at, TurnReads(at) PROVE Goal
      BY <2>2 DEF TurnReads
  <2>3. CASE TurnRests \/ LoopFails \/ Take \/ Listen
      BY <2>3 DEF TurnRests, LoopFails, Take, Listen
  <2>4. CASE CloseTurn
    <3>1. PICK to \in {"park", "leaving"} :
            Goes("boundary", to, {}) /\ reader' = (to = "park")
        BY <2>4 DEF CloseTurn
    <3> QED
        BY <2>4, <3>1 DEF CloseTurn
  <2>5. CASE Park
    <3>1. CASE Goes("park", "listen", {}) /\ UNCHANGED reader
        BY <2>5, <3>1 DEF Park
    <3>2. CASE Released("leaving")
        BY <2>5, <3>2 DEF Park
    <3> QED
        BY <2>5, <3>1, <3>2 DEF Park
  <2>6. CASE ReadIdle
      BY <2>6 DEF ReadIdle
  <2>7. CASE Sleep \/ Awake
      BY <2>7 DEF Sleep, Awake
  <2>8. CASE EndRun \/ Exit
    <3>1. /\ run.at \in {"leaving", "exiting"} /\ UNCHANGED <<reader, halt>>
          /\ run'.at \in {"exiting", "none"} /\ run'.life = run.life
          /\ run.at = "leaving" => run'.at = "exiting"
        BY <2>8 DEF EndRun, Exit
    <3>2. ~reader /\ run.at # "none"
        BY <3>1
    <3> QED
        BY <3>1, <3>2
  <2> QED
      BY <1>5, <2>1, <2>2, <2>3, <2>4, <2>5, <2>6, <2>7, <2>8 DEF LoopStep
<1>6. CASE StopAsk
    BY <1>6 DEF StopAsk, TypeOK, Places, Opening, Ending, Live
<1>7. CASE StopStep
  <2>1. CASE StopWrite
      BY <2>1 DEF StopWrite, TypeOK
  <2>2. CASE StopDone
      BY <2>2 DEF StopDone, Released, TypeOK
  <2> QED
      BY <1>7, <2>1, <2>2 DEF StopStep
<1>8. CASE Restart
    BY <1>8 DEF Restart, TypeOK
<1> HIDE DEF ReaderIsLooping, StopHolds, Looping
<1> QED
    BY StepKinds, <1>1, <1>2, <1>3, <1>4, <1>5, <1>6, <1>7, <1>8

\* The latch is closed at rest only over nothing to read: an admission signals
\* the reader that reads before it waits (next, notify).
LEMMA InboxQuiet == IInv /\ [Next]_vars => Quiet'
<1> SUFFICES ASSUME IInv, [Next]_vars PROVE Quiet'
    OBVIOUS
<1> TypeOK /\ ReaderIsLooping /\ StopHolds /\ Quiet
    BY DEF IInv
<1> DEFINE Resting == run.at \in {"empty", "wait"}
<1>0. rows \in Rows /\ reader \in BOOLEAN /\ signal \in BOOLEAN
    BY DEF TypeOK
<1>1. CASE Aside
    BY <1>1 DEF Aside, Quiet
<1>2. ASSUME NEW m \in Msgs, Admit(m) \/ ChildEnds(m) PROVE Quiet'
  <2>1. UNCHANGED run /\ rows' = Admitted(m) /\ signal' = Heard(m)
      BY <1>2, Admissions
  <2>2. CASE ~New(m)
      BY <1>0, <2>1, <2>2, AdmittedRows DEF Quiet, Heard
  <2>3. CASE New(m)
      BY <1>0, <2>1, <2>3 DEF Quiet, Heard, New, ReaderIsLooping
  <2> QED
      BY <2>2, <2>3
<1>3. ASSUME NEW w \in Wakers, Resume(w) \/ HostResume PROVE Quiet'
  <2>1. Begun.at = "opening"
      BY DEF Begun, TypeOK
  <2> QED
      BY <1>3, <2>1, Starts DEF Quiet
<1>4. CASE OpenStep
  <2>1. run'.at \notin {"empty", "wait"}
      BY <1>4 DEF OpenStep, OpenFails, OpenGone, FailOn, OpenEnds, OpenLeaves,
         OpenCheck, Activate, OpenStops, Fork, TypeOK
  <2> QED
      BY <2>1 DEF Quiet
<1>5. CASE LoopStep
  <2>1. CASE ReadIdle
      BY <2>1 DEF ReadIdle, Goes, Quiet, TypeOK
  <2>2. CASE Sleep
      BY <2>2 DEF Sleep, Goes, Quiet, TypeOK
  <2>3. CASE ~ReadIdle /\ ~Sleep
    <3>1. run'.at \notin {"empty", "wait"}
        BY <1>5, <2>3 DEF LoopStep, OpenReader, TurnReads, TurnRests,
           CloseTurn, LoopFails, Park, Listen, Awake, Take, EndRun, Exit,
           Goes, Released, TypeOK
    <3> QED
        BY <3>1 DEF Quiet
  <2> QED
      BY <2>1, <2>2, <2>3
<1>6. CASE StopAsk
  <2>1. UNCHANGED <<rows, signal>> /\ run'.at = run.at
      BY <1>6 DEF StopAsk, TypeOK
  <2> QED
      BY <2>1 DEF Quiet
<1>7. CASE StopStep
  <2>1. CASE StopWrite
    <3>1. /\ UNCHANGED <<run, signal>>
          /\ run.at # "none" => rows' = StopOf(rows)
        BY <2>1 DEF StopWrite, StopHolds
    <3>2. run.at # "none" => rows'.queued = rows.queued
        BY <1>0, <3>1, StopOfRows
    <3> QED
        BY <3>1, <3>2 DEF Quiet
  <2>2. CASE StopDone
      BY <2>2 DEF StopDone, Released, Quiet, TypeOK
  <2> QED
      BY <1>7, <2>1, <2>2 DEF StopStep
<1>8. CASE Restart
    BY <1>8 DEF Restart, Quiet, TypeOK
<1> QED
    BY StepKinds, <1>1, <1>2, <1>3, <1>4, <1>5, <1>6, <1>7, <1>8

\* A message leaves the queue for good, and becomes part of one turn at most
\* (consume, endIn, admission).
LEMMA InboxOnce == IInv /\ [Next]_vars => Once'
<1> SUFFICES ASSUME IInv, [Next]_vars PROVE Once'
    OBVIOUS
<1> TypeOK /\ ReaderIsLooping /\ StopHolds /\ Once
    BY DEF IInv
<1>0. rows \in Rows
    BY DEF TypeOK
<1>1. CASE Aside
    BY <1>1 DEF Aside, Once
<1>2. ASSUME NEW m \in Msgs, Admit(m) \/ ChildEnds(m) PROVE Once'
  <2>1. UNCHANGED run /\ rows' = Admitted(m)
      BY <1>2, Admissions
  <2>2. CASE New(m)
      BY <1>0, <2>1, <2>2, AdmittedRows DEF Once, New
  <2>3. CASE ~New(m)
      BY <1>0, <2>1, <2>3, AdmittedRows DEF Once
  <2> QED
      BY <2>2, <2>3
<1>3. ASSUME NEW w \in Wakers, Resume(w) \/ HostResume PROVE Once'
  <2>1. Begun.at = "opening"
      BY DEF Begun, TypeOK
  <2> QED
      BY <1>3, <2>1, Starts DEF Once
<1>9. ASSUME NEW r \in Rows, rows' = EndOf(r), r.queued = rows.queued,
             r.taken = rows.taken, r.turns = rows.turns, run'.at # "taking"
      PROVE  Once'
    BY <1>9, EndOfRows DEF Once
<1>10. ASSUME rows'.queued = rows.queued, rows'.taken = rows.taken,
              rows'.turns = rows.turns,
              run'.at = "taking" => run'.batch \subseteq rows.queued
       PROVE  Once'
    BY <1>10 DEF Once
<1>11. StopOf(rows) \in Rows /\ StopOf(rows).queued = rows.queued
       /\ StopOf(rows).taken = rows.taken /\ StopOf(rows).turns = rows.turns
    BY <1>0, StopOfRows
<1>4. CASE OpenStep
  <2>0. run'.at # "taking"
      BY <1>4 DEF OpenStep, OpenFails, OpenGone, FailOn, OpenEnds, OpenLeaves,
         OpenCheck, Activate, OpenStops, Fork, TypeOK
  <2>1. ASSUME NEW r \in Rows, FailOn(r), r.queued = rows.queued,
               r.taken = rows.taken, r.turns = rows.turns
        PROVE  Once'
      BY <1>10, <2>0, <2>1 DEF FailOn
  <2>2. CASE OpenFails
      BY <1>0, <2>1, <2>2 DEF OpenFails
  <2>3. CASE OpenGone
    <3> DEFINE r == IF rows.queued = {} THEN [rows EXCEPT !.closed = TRUE]
                    ELSE rows
    <3>1. r \in Rows /\ r.queued = rows.queued /\ r.taken = rows.taken
          /\ r.turns = rows.turns
        BY <1>0 DEF Rows
    <3>2. FailOn(r)
        BY <2>3 DEF OpenGone
    <3> HIDE DEF r
    <3> QED
        BY <2>1, <3>1, <3>2
  <2>4. CASE OpenCheck \/ Activate
      BY <1>0, <1>10, <2>0, <2>4 DEF OpenCheck, Activate, Rows
  <2>5. CASE OpenEnds
      BY <1>9, <1>11, <2>0, <2>5 DEF OpenEnds
  <2>6. CASE OpenStops
      BY <1>10, <1>11, <2>0, <2>6 DEF OpenStops
  <2>7. CASE OpenLeaves \/ Fork
      BY <1>10, <2>0, <2>7 DEF OpenLeaves, Fork
  <2> QED
      BY <1>4, <2>2, <2>3, <2>4, <2>5, <2>6, <2>7 DEF OpenStep
<1>5. CASE LoopStep
  <2>1. CASE ReadIdle
      BY <1>10, <2>1, ReadableIsQueued DEF ReadIdle, Goes, TypeOK
  <2>2. ASSUME NEW at, TurnReads(at) PROVE Once'
      BY <1>10, <2>2, ReadableIsQueued DEF TurnReads, Goes, TypeOK
  <2>3. CASE Take
    <3>1. run.batch \in SUBSET Msgs /\ run.batch \subseteq rows.queued
          /\ rows' = TakenOf(rows, run.batch) /\ run'.at = "turn"
        BY <2>3 DEF Take, Goes, Once, TypeOK
    <3>2. \A m \in run.batch : rows.turns[m] = 0
        BY <3>1 DEF Once
    <3> QED
        BY <1>0, <3>1, <3>2, TakenRows DEF Once
  <2>4. CASE EndRun
    <3>1. rows' = EndOf(rows) /\ run'.at = "exiting"
        BY <2>4 DEF EndRun, Goes, TypeOK
    <3> QED
        BY <1>0, <1>9, <3>1
  <2>5. CASE ~ReadIdle /\ ~Take /\ ~EndRun /\ ~(\E at : TurnReads(at))
    <3>1. run'.at # "taking"
        BY <1>5, <2>5 DEF LoopStep, OpenReader, TurnRests,
           CloseTurn, LoopFails, Park, Listen, Sleep, Awake, Exit,
           Goes, Released, TypeOK
    <3>2. rows'.queued = rows.queued /\ rows'.taken = rows.taken
          /\ rows'.turns = rows.turns
        BY <1>0, <1>5, <2>5 DEF LoopStep, OpenReader, TurnRests,
           CloseTurn, LoopFails, Park, Listen, Sleep, Awake, Exit, Rows
    <3> QED
        BY <1>10, <3>1, <3>2
  <2> QED
      BY <2>1, <2>2, <2>3, <2>4, <2>5
<1>6. CASE StopAsk
  <2>1. UNCHANGED rows /\ run'.at = run.at /\ run'.batch = run.batch
      BY <1>6 DEF StopAsk, TypeOK
  <2> QED
      BY <1>10, <2>1 DEF Once
<1>7. CASE StopStep
  <2>1. CASE StopWrite
    <3>1. CASE halt.life = 0
      <4>1. run'.at = "none" /\ rows' = EndOf(StopOf(rows))
          BY <2>1, <3>1 DEF StopWrite, StopHolds
      <4> QED
          BY <1>9, <1>11, <4>1
    <3>2. CASE halt.life # 0
      <4>1. UNCHANGED run /\ rows' = StopOf(rows)
          BY <2>1, <3>2 DEF StopWrite
      <4> QED
          BY <1>10, <1>11, <4>1 DEF Once
    <3> QED
        BY <3>1, <3>2
  <2>2. CASE StopDone
    <3>1. UNCHANGED rows /\ (run' = run \/ run'.at = "leaving")
        BY <2>2 DEF StopDone, Released, TypeOK
    <3> QED
        BY <1>10, <3>1 DEF Once
  <2> QED
      BY <1>7, <2>1, <2>2 DEF StopStep
<1>8. CASE Restart
  <2>1. UNCHANGED rows /\ run'.at = "none"
      BY <1>8 DEF Restart, TypeOK
  <2> QED
      BY <1>10, <2>1
<1> QED
    BY StepKinds, <1>1, <1>2, <1>3, <1>4, <1>5, <1>6, <1>7, <1>8

\* An input with a message stays open, and one that closed stays closed until
\* an activation opens it (closeInput, recordFacts).
LEMMA InboxClosed == IInv /\ [Next]_vars => Closed'
<1> SUFFICES ASSUME IInv, [Next]_vars PROVE Closed'
    OBVIOUS
<1> TypeOK /\ ReaderIsLooping /\ Closed
    BY DEF IInv
<1>0. rows \in Rows
    BY DEF TypeOK
<1>1. CASE Aside
    BY <1>1 DEF Aside, Closed
<1>2. ASSUME NEW m \in Msgs, Admit(m) \/ ChildEnds(m) PROVE Closed'
  <2>1. UNCHANGED run /\ rows' = Admitted(m)
      BY <1>2, Admissions
  <2>2. rows.closed => ~New(m)
      BY DEF Closed, New, Refused, ReaderIsLooping, Looping
  <2> QED
      BY <1>0, <2>1, <2>2, AdmittedRows DEF Closed
<1>3. ASSUME NEW w \in Wakers, Resume(w) \/ HostResume PROVE Closed'
  <2>1. Begun.at = "opening"
      BY DEF Begun, TypeOK
  <2> QED
      BY <1>3, <2>1, Starts DEF Closed
<1>4. ASSUME NEW r \in Rows, r.closed = rows.closed, r.queued = rows.queued,
             rows' = r \/ rows' = EndOf(r),
             \/ run'.at \in {"none", "opening", "failing", "failed"}
             \/ run'.at = run.at
             \/ run.at \notin {"none", "opening", "failing", "failed"}
      PROVE  Closed'
    BY <1>4, EndOfRows DEF Closed
<1>5. StopOf(rows) \in Rows /\ StopOf(rows).closed = rows.closed
      /\ StopOf(rows).queued = rows.queued
    BY <1>0, StopOfRows
<1>6. CASE OpenStep
  <2>1. ASSUME NEW r \in Rows, FailOn(r), r.closed => r.queued = {}
        PROVE  Closed'
      BY <2>1 DEF FailOn, Closed, TypeOK
  <2>2. CASE OpenFails
      BY <1>0, <2>1, <2>2 DEF OpenFails, Closed
  <2>3. CASE OpenGone
    <3> DEFINE r == IF rows.queued = {} THEN [rows EXCEPT !.closed = TRUE]
                    ELSE rows
    <3>1. r \in Rows /\ (r.closed => r.queued = {})
        BY <1>0 DEF Rows, Closed
    <3>2. FailOn(r)
        BY <2>3 DEF OpenGone
    <3> HIDE DEF r
    <3> QED
        BY <2>1, <3>1, <3>2
  <2>4. CASE OpenCheck
      BY <2>4 DEF OpenCheck, Closed
  <2>5. CASE Activate
      BY <1>0, <2>5 DEF Activate, Closed, Rows
  <2>6. CASE OpenEnds
      BY <1>4, <1>5, <2>6 DEF OpenEnds, TypeOK
  <2>7. CASE OpenStops
      BY <1>4, <1>5, <2>7 DEF OpenStops, TypeOK
  <2>8. CASE OpenLeaves \/ Fork
      BY <1>0, <1>4, <2>8 DEF OpenLeaves, Fork, TypeOK
  <2> QED
      BY <1>6, <2>2, <2>3, <2>4, <2>5, <2>6, <2>7, <2>8 DEF OpenStep
<1>7. CASE LoopStep
  <2>1. run.at \notin {"none", "opening", "failing", "failed"}
      BY <1>7 DEF LoopStep, OpenReader, TurnReads, TurnRests, CloseTurn,
         LoopFails, Park, Listen, ReadIdle, Sleep, Awake, Take, EndRun, Exit,
         Goes
  <2>2. rows'.closed = rows.closed
    <3>1. CASE Take
        BY <1>0, <3>1 DEF Take, TakenOf, Rows
    <3>2. CASE EndRun
        BY <1>0, <3>2, EndOfRows DEF EndRun
    <3>3. CASE ~Take /\ ~EndRun
        BY <1>0, <1>7, <3>3 DEF LoopStep, OpenReader, TurnReads, TurnRests,
           CloseTurn, LoopFails, Park, Listen, ReadIdle, Sleep, Awake, Exit,
           Rows
    <3> QED
        BY <3>1, <3>2, <3>3
  <2> QED
      BY <2>1, <2>2 DEF Closed
<1>8. CASE StopAsk
  <2>1. UNCHANGED rows /\ run'.at = run.at
      BY <1>8 DEF StopAsk, TypeOK
  <2> QED
      BY <2>1 DEF Closed
<1>9. CASE StopStep
  <2>1. CASE StopWrite
      BY <1>4, <1>5, <2>1 DEF StopWrite
  <2>2. CASE StopDone
      BY <2>2 DEF StopDone, Released, Closed, TypeOK, Looping
  <2> QED
      BY <1>9, <2>1, <2>2 DEF StopStep
<1>10. CASE Restart
    BY <1>10 DEF Restart, Closed, TypeOK
<1> QED
    BY StepKinds, <1>1, <1>2, <1>3, <1>6, <1>7, <1>8, <1>9, <1>10

\* A message is owed only while it is queued (needsWake).
LEMMA OwedIsQueued ==
    ASSUME NEW m \in Msgs, Obliges(m)
    PROVE  m \in rows.queued /\ NeedsWake
BY ReadableIsQueued DEF Obliges, NeedsWake

\* Someone comes for a message that obliges a resume: each step that ends a
\* generation, a wake or a child's exit starts the next, finds nothing owed,
\* or leaves the message to an explicit resume (wakeRun, owesResume).
LEMMA InboxSomeone == IInv /\ [Next]_vars => SomeoneComes'
<1> SUFFICES ASSUME IInv, [Next]_vars PROVE SomeoneComes'
    OBVIOUS
<1> TypeOK /\ ReaderIsLooping /\ StopHolds /\ SomeoneComes
    BY DEF IInv
<1>0. rows \in Rows
    BY DEF TypeOK
<1>1. ASSUME run'.at # "none" PROVE SomeoneComes'
    BY <1>1 DEF SomeoneComes
<1>2. ASSUME NEW w \in Wakers, wake'[w] # "idle" PROVE SomeoneComes'
    BY <1>2 DEF SomeoneComes
<1>3. ASSUME left' = rows'.queued PROVE SomeoneComes'
    BY <1>3, ReadableIsQueued DEF SomeoneComes, Obliges
\* Nothing more is owed, and nobody who was coming left.
<1>4. ASSUME \A m \in Msgs : Obliges(m)' => Obliges(m),
             rows'.closed = rows.closed, left' = left,
             run'.at = run.at, wake' = wake,
             \A m \in Msgs : send[m] = "reported" => send'[m] = "reported"
      PROVE  SomeoneComes'
    BY <1>4 DEF SomeoneComes
<1>5. UNCHANGED rows => \A m \in Msgs : Obliges(m)' = Obliges(m)
    BY DEF Obliges
<1>6. ASSUME NEW m \in Msgs, Send(m) \/ ChildEnds(m) \/ SendStep(m)
      PROVE  SomeoneComes'
  <2>0. m \in Wakers
      BY DEF Wakers
  <2>1. CASE Send(m) \/ EnterLane(m) \/ Check(m) \/ ReadFacts(m) \/ Drained(m)
      BY <1>4, <1>5, <2>1 DEF Send, EnterLane, Check, ReadFacts, Drained, TypeOK
  <2>2. CASE ChildEnds(m)
    <3>1. send'[m] = "reported"
        BY <2>2 DEF ChildEnds, TypeOK
    <3> QED
        BY <3>1 DEF SomeoneComes
  <2>3. CASE Admit(m)
    <3>1. CASE New(m)
      <4>1. wake'[m] = "look"
          BY <2>0, <2>3, <3>1 DEF Admit, TypeOK
      <4> QED
          BY <1>2, <2>0, <4>1
    <3>2. CASE ~New(m)
      <4>1. UNCHANGED <<rows, run, left, wake>>
          BY <2>3, <3>2, <1>0, AdmittedRows DEF Admit
      <4>2. \A n \in Msgs : send[n] = "reported" => send'[n] = "reported"
          BY <2>3 DEF Admit, TypeOK
      <4> QED
          BY <1>4, <1>5, <4>1, <4>2
    <3> QED
        BY <3>1, <3>2
  <2>4. CASE ChildExits(m)
    <3>1. wake'[m] = "look"
        BY <2>0, <2>4 DEF ChildExits, TypeOK
    <3> QED
        BY <1>2, <2>0, <3>1
  <2> QED
      BY <1>6, <2>1, <2>2, <2>3, <2>4 DEF SendStep
<1>7. ASSUME NEW w \in Wakers, WakeStep(w) PROVE SomeoneComes'
  <2>1. CASE Look(w)
    <3>1. CASE reader
        BY <1>1, <2>1, <3>1 DEF Look, ReaderIsLooping, Looping
    <3>2. CASE ~reader
      <4>1. wake'[w] = "input"
          BY <2>1, <3>2 DEF Look, TypeOK
      <4> QED
          BY <1>2, <4>1
    <3> QED
        BY <3>1, <3>2
  <2>2. CASE ReadInput(w)
    <3>1. CASE ~rows.closed /\ NeedsWake
      <4>1. wake'[w] = "resume"
          BY <2>2, <3>1 DEF ReadInput, TypeOK
      <4> QED
          BY <1>2, <4>1
    <3>2. CASE rows.closed
        BY <2>2, <3>2 DEF ReadInput, SomeoneComes
    <3>3. CASE ~NeedsWake
        BY <1>5, <2>2, <3>3, OwedIsQueued DEF ReadInput, SomeoneComes
    <3> QED
        BY <3>1, <3>2, <3>3
  <2>3. CASE Resume(w)
    <3>1. CASE Startable
      <4>1. run'.at = "opening"
          BY <2>3, <3>1 DEF Resume, Begun, TypeOK
      <4> QED
          BY <1>1, <4>1
    <3>2. CASE run.at = "none" /\ ~Startable
        BY <1>3, <2>3, <3>2 DEF Resume
    <3>3. CASE run.at # "none"
        BY <1>1, <2>3, <3>3 DEF Resume, Startable
    <3> QED
        BY <3>1, <3>2, <3>3
  <2>4. CASE Join(w)
    <3>1. CASE run.at = "none"
        BY <1>3, <2>4, <3>1 DEF Join
    <3>2. CASE run.at # "none"
        BY <1>1, <2>4, <3>2 DEF Join
    <3> QED
        BY <3>1, <3>2
  <2> QED
      BY <1>7, <2>1, <2>2, <2>3, <2>4 DEF WakeStep
<1>8. CASE HostResume
  <2>1. run'.at = "opening"
      BY <1>8 DEF HostResume, Begun, TypeOK
  <2> QED
      BY <1>1, <2>1
<1>9. CASE OpenStep
  <2>1. CASE OpenLeaves
      BY <1>3, <2>1 DEF OpenLeaves
  <2>2. CASE ~OpenLeaves
    <3>1. run'.at # "none"
        BY <1>9, <2>2 DEF OpenStep, OpenFails, OpenGone, FailOn, OpenEnds,
           OpenCheck, Activate, OpenStops, Fork, TypeOK
    <3> QED
        BY <1>1, <3>1
  <2> QED
      BY <2>1, <2>2
<1>10. CASE LoopStep
  <2>1. CASE Exit
    <3>1. Exits \in Wakers
        BY DEF Wakers
    <3>2. wake'[Exits] = "look"
        BY <2>1, <3>1 DEF Exit, TypeOK
    <3> QED
        BY <1>2, <3>1, <3>2
  <2>2. CASE ~Exit
    <3>1. run'.at # "none"
        BY <1>10, <2>2 DEF LoopStep, OpenReader, TurnReads, TurnRests,
           CloseTurn, LoopFails, Park, Listen, ReadIdle, Sleep, Awake, Take,
           EndRun, Goes, Released, TypeOK
    <3> QED
        BY <1>1, <3>1
  <2> QED
      BY <2>1, <2>2
<1>11. CASE StopAsk
  <2>1. /\ UNCHANGED <<rows, send, wake, left>>
        /\ run'.at = run.at
      BY <1>11 DEF StopAsk, TypeOK
  <2> QED
      BY <1>4, <1>5, <2>1
<1>12. CASE StopStep
  <2>1. CASE StopWrite
    <3>1. CASE halt.life = 0
      <4>1. rows' = EndOf(StopOf(rows)) /\ UNCHANGED <<run, left, wake, send>>
          BY <2>1, <3>1 DEF StopWrite
      <4>2. rows'.closed = rows.closed
          BY <1>0, <4>1, EndOfRows, StopOfRows
      <4>3. \A m \in Msgs : Obliges(m)' => Obliges(m)
          BY <1>0, <4>1, StopOwesNothing
      <4> QED
          BY <1>4, <4>1, <4>2, <4>3
    <3>2. CASE halt.life # 0
      <4>1. CASE run.at # "none"
          BY <1>1, <2>1, <4>1 DEF StopWrite
      <4>2. CASE run.at = "none"
        <5>1. rows' = StopOf(rows) /\ UNCHANGED <<run, left, wake, send>>
            BY <2>1, <3>2 DEF StopWrite
        <5>2. rows'.closed = rows.closed
            BY <1>0, <5>1, StopOfRows
        <5>3. \A m \in Msgs : Obliges(m)' => Obliges(m)
            BY <1>0, <5>1 DEF StopOf, Obliges, Rows
        <5> QED
            BY <1>4, <5>1, <5>2, <5>3
      <4> QED
          BY <4>1, <4>2
    <3> QED
        BY <3>1, <3>2
  <2>2. CASE StopDone
    <3>1. CASE run.at # "none"
      <4>1. run'.at # "none"
          BY <2>2, <3>1 DEF StopDone, Released, TypeOK
      <4> QED
          BY <1>1, <4>1
    <3>2. CASE run.at = "none"
        BY <1>4, <1>5, <2>2, <3>2 DEF StopDone, Looping
    <3> QED
        BY <3>1, <3>2
  <2> QED
      BY <1>12, <2>1, <2>2 DEF StopStep
<1>13. CASE Restart
    BY <1>3, <1>13 DEF Restart
<1>14. CASE UNCHANGED vars
    BY <1>4, <1>5, <1>14 DEF vars
<1> QED
    BY <1>6, <1>7, <1>8, <1>9, <1>10, <1>11, <1>12, <1>13, <1>14 DEF Next

-----------------------------------------------------------------------------
(* The theorems. *)

\* The invariant of the inbox, for any messages and any bounds.
THEOREM InboxInvariant == Spec => []IInv
<1>1. IInv /\ [Next]_vars => IInv'
  <2> SUFFICES ASSUME IInv, [Next]_vars PROVE IInv'
      OBVIOUS
  <2>1. TypeOK' /\ Quiet' /\ Once' /\ Closed' /\ SomeoneComes'
      BY InboxType, InboxQuiet, InboxOnce, InboxClosed, InboxSomeone
  <2>2. run'.life > 0 /\ ReaderIsLooping' /\ StopHolds'
      BY InboxReader
  <2> QED
      BY <2>1, <2>2 DEF IInv
<1> QED
    BY InboxInit, <1>1, PTL DEF Spec

\* Type correctness: among others, no message becomes part of a third turn.
THEOREM InboxTypeOK == Spec => []TypeOK
<1>1. IInv => TypeOK
    BY DEF IInv
<1> QED
    BY InboxInvariant, <1>1, PTL

\* No signal is lost between a reader's read and its wait (next, notify).
THEOREM InboxNoSleepOnInput == Spec => []NoSleepOnInput
<1>1. IInv => NoSleepOnInput
    BY DEF IInv, Quiet, NoSleepOnInput
<1> QED
    BY InboxInvariant, <1>1, PTL

\* Someone comes for every message that obliges a resume (wakeRun,
\* owesResume).
THEOREM InboxSomeoneComes == Spec => []SomeoneComes
<1>1. IInv => SomeoneComes
    BY DEF IInv
<1> QED
    BY InboxInvariant, <1>1, PTL

\* A message is read once, whatever is sent again (consume, admission).
THEOREM InboxReadOnce == Spec => []ReadOnce
<1>1. IInv => ReadOnce
    BY DEF IInv, Once, ReadOnce
<1> QED
    BY InboxInvariant, <1>1, PTL

\* A closed input holds no message (closeInput).
THEOREM InboxClosedIsEmpty == Spec => []ClosedIsEmpty
<1>1. IInv => ClosedIsEmpty
    BY DEF IInv, Closed, ClosedIsEmpty
<1> QED
    BY InboxInvariant, <1>1, PTL

-----------------------------------------------------------------------------
(* The inbox is a mailbox. *)

\* Where rows r say a message is.
PlaceIn(r, m) ==
    IF m \in r.queued /\ r.turns[m] = 0 THEN "queued"
    ELSE IF m \in r.taken \ r.queued /\ r.turns[m] = 0 THEN "dropped"
    ELSE IF m \in r.taken \ r.queued /\ r.turns[m] = 1 THEN "read"
    ELSE IF m \notin r.queued \cup r.taken /\ r.turns[m] = 0 THEN "new"
    ELSE "astray"

Place == [m \in Msgs |-> PlaceOf(m)]
Leading == {m \in Msgs : Hold[m] = "none" /\ Instruction(m)}
Following == {m \in Msgs : Hold[m] = "instruction"}

\* Each message has one place.
LEMMA PlaceIs ==
    \A m \in Msgs : PlaceOf(m) = PlaceIn(rows, m) /\ PlaceOf(m)' = PlaceIn(rows', m)
BY DEF PlaceOf, PlaceIn

\* None is astray, and those queued are the rows' queue.
LEMMA PlaceFacts ==
    ASSUME TypeOK, Once
    PROVE  /\ rows.queued = {m \in Msgs : Place[m] = "queued"}
           /\ \A m \in rows.queued : m \in Msgs /\ rows.turns[m] = 0
           /\ Place \in [Msgs -> {"new", "queued", "read", "dropped"}]
<1>1. /\ rows.queued \subseteq Msgs
      /\ \A m \in Msgs : rows.turns[m] \in {0, 1}
    BY DEF TypeOK, Rows, Once
<1>2. \A m \in rows.queued : m \in Msgs /\ rows.turns[m] = 0
    BY <1>1 DEF Once
<1>3. \A m \in Msgs : PlaceIn(rows, m) = "queued" <=> m \in rows.queued
    BY <1>2 DEF PlaceIn
<1>4. \A m \in Msgs : PlaceIn(rows, m) \in {"new", "queued", "read", "dropped"}
    BY <1>1 DEF PlaceIn, Once
<1> QED
    BY <1>2, <1>3, <1>4, PlaceIs, <1>1 DEF Place

\* A batch the loop holds has a leader when a follower is in it.
Led == run.at = "taking" /\ run.batch \cap Following # {}
         => run.batch \cap Leading # {}

\* What is read at once has a leader for its followers (readableMessages).
LEMMA ReadableIsLed ==
    ASSUME NEW q \in SUBSET Msgs, NEW at, Readable(q, at) \cap Following # {}
    PROVE  Readable(q, at) \cap Leading # {}
BY DEF Readable, Following, Leading

\* So it is in every step.
LEMMA LedStep == IInv /\ Led /\ [Next]_vars => Led'
<1> SUFFICES ASSUME IInv, Led, [Next]_vars PROVE Led'
    OBVIOUS
<1>0. TypeOK /\ rows.queued \in SUBSET Msgs /\ rows'.queued \in SUBSET Msgs
  <2>1. TypeOK'
      BY InboxType
  <2> QED
      BY <2>1 DEF IInv, TypeOK, Rows
<1>1. ASSUME run'.at = run.at, run'.batch = run.batch PROVE Led'
    BY <1>1 DEF Led
<1>2. ASSUME run'.at # "taking" PROVE Led'
    BY <1>2 DEF Led
<1>3. CASE Aside
    BY <1>1, <1>3 DEF Aside
<1>4. ASSUME NEW m \in Msgs, Admit(m) \/ ChildEnds(m) PROVE Led'
    BY <1>0, <1>1, <1>4, Admissions
<1>5. ASSUME NEW w \in Wakers, Resume(w) \/ HostResume PROVE Led'
    BY <1>0, <1>1, <1>2, <1>5, Starts DEF Begun, TypeOK
<1>6. CASE OpenStep
    BY <1>0, <1>2, <1>6 DEF OpenStep, OpenFails, OpenGone, FailOn, OpenEnds,
       OpenLeaves, OpenCheck, Activate, OpenStops, Fork, TypeOK
<1>7. CASE LoopStep
  <2>1. ASSUME NEW at, TurnReads(at) PROVE Led'
      BY <1>0, <2>1, ReadableIsLed DEF TurnReads, Goes, TypeOK, Led
  <2>2. CASE ReadIdle
      BY <1>0, <2>2, ReadableIsLed DEF ReadIdle, Goes, TypeOK, Led
  <2>3. CASE ~ReadIdle /\ ~(\E at : TurnReads(at))
    <3>1. run'.at # "taking"
        BY <1>0, <1>7, <2>3 DEF LoopStep, OpenReader, TurnRests,
           CloseTurn, LoopFails, Park, Listen, Sleep, Awake, Take, EndRun, Exit,
           Goes, Released, TypeOK
    <3> QED
        BY <1>2, <3>1
  <2> QED
      BY <2>1, <2>2, <2>3
<1>8. CASE StopAsk
    BY <1>0, <1>1, <1>8 DEF StopAsk, TypeOK
<1>9. CASE StopStep
    BY <1>0, <1>1, <1>2, <1>9 DEF StopStep, StopWrite, StopDone, Released, TypeOK
<1>10. CASE Restart
    BY <1>0, <1>2, <1>10 DEF Restart, TypeOK
<1> QED
    BY StepKinds, <1>3, <1>4, <1>5, <1>6, <1>7, <1>8, <1>9, <1>10

\* So it is in every reachable state.
LEMMA AlwaysLed == Spec => []Led
<1>1. Init => Led
    BY DEF Init, Led
<1> QED
    BY <1>1, LedStep, InboxInvariant, PTL DEF Spec

\* The fields of the rows the mailbox is made of.
Same(r, s) == /\ r.queued = s.queued /\ r.taken = s.taken
              /\ r.turns = s.turns /\ r.child = s.child

BoxVars == <<Place, rows.closed, rows.child>>

\* Rows that agree on them agree on every place.
LEMMA SamePlace ==
    ASSUME Same(rows', rows)
    PROVE  Place' = Place /\ rows'.child = rows.child
<1>1. \A m \in Msgs : PlaceIn(rows', m) = PlaceIn(rows, m)
    BY DEF PlaceIn, Same
<1> QED
    BY <1>1, PlaceIs DEF Place, Same

\* A stop, and a child's or a second end, move no message.
LEMMA EndMoves ==
    ASSUME NEW r \in Rows
    PROVE  /\ Same(StopOf(r), r) /\ StopOf(r) \in Rows
           /\ EndOf(r).closed = r.closed /\ StopOf(r).closed = r.closed
           /\ EndOf(r).child = r.child /\ EndOf(r).turns = r.turns
           /\ \/ Same(EndOf(r), r)
              \/ /\ ~r.child /\ EndOf(r).queued = {}
                 /\ EndOf(r).taken = r.taken \cup r.queued
<1>1. Same(StopOf(r), r) /\ StopOf(r) \in Rows /\ StopOf(r).closed = r.closed
    BY DEF StopOf, Same, Rows
<1>2. EndOf(r).closed = r.closed /\ EndOf(r).child = r.child /\ EndOf(r).turns = r.turns
    BY DEF EndOf, Rows
<1>3. \/ Same(EndOf(r), r)
      \/ /\ ~r.child /\ EndOf(r).queued = {}
         /\ EndOf(r).taken = r.taken \cup r.queued
    BY DEF EndOf, Same, Rows
<1> QED
    BY <1>1, <1>2, <1>3

\* An end, a stop or neither, on rows like these, drops the queue or leaves
\* every message.
LEMMA EndsDrop ==
    ASSUME TypeOK, Once, NEW r \in Rows, Same(r, rows), r.closed = rows.closed,
           rows' \in {r, EndOf(r), StopOf(r), EndOf(StopOf(r))}
    PROVE  Box!Drop \/ UNCHANGED BoxVars
<1>1. \/ Same(rows', r)
      \/ /\ ~r.child /\ rows'.queued = {} /\ rows'.turns = r.turns
         /\ rows'.taken = r.taken \cup r.queued /\ rows'.child = r.child
  <2>1. CASE rows' = r \/ rows' = StopOf(r)
      BY <2>1, EndMoves DEF Same
  <2>2. CASE rows' = EndOf(r)
      BY <2>2, EndMoves
  <2>3. CASE rows' = EndOf(StopOf(r))
    <3> DEFINE s == StopOf(r)
    <3>1. s \in Rows /\ Same(s, r)
        BY EndMoves
    <3> HIDE DEF s
    <3>2. \/ Same(EndOf(s), s)
          \/ /\ ~s.child /\ EndOf(s).queued = {} /\ EndOf(s).turns = s.turns
             /\ EndOf(s).taken = s.taken \cup s.queued /\ EndOf(s).child = s.child
        BY <3>1, EndMoves
    <3> QED
        BY <2>3, <3>1, <3>2 DEF Same, s
  <2> QED
      BY <2>1, <2>2, <2>3
<1>2. rows'.closed = rows.closed
    BY EndMoves
<1>3. CASE Same(rows', r)
  <2>1. Same(rows', rows)
      BY <1>3 DEF Same
  <2> QED
      BY <1>2, <2>1, SamePlace DEF BoxVars
<1>4. CASE /\ ~r.child /\ rows'.queued = {} /\ rows'.turns = r.turns
           /\ rows'.taken = r.taken \cup r.queued /\ rows'.child = r.child
  <2>1. /\ ~rows.child /\ rows'.queued = {} /\ rows'.turns = rows.turns
        /\ rows'.taken = rows.taken \cup rows.queued /\ rows'.child = rows.child
      BY <1>4 DEF Same
  <2>2. \A m \in Msgs : PlaceIn(rows', m) =
            IF m \in rows.queued THEN "dropped" ELSE PlaceIn(rows, m)
      BY <2>1, PlaceFacts DEF PlaceIn
  <2>3. Place' = [m \in Msgs |-> IF m \in {n \in Msgs : Place[n] = "queued"}
                                 THEN "dropped" ELSE Place[m]]
      BY <2>2, PlaceIs, PlaceFacts DEF Place
  <2> QED
      BY <1>2, <2>1, <2>3 DEF Box!Drop, Box!Queued, Place
<1> QED
    BY <1>1, <1>3, <1>4

\* An admission finds the box open: its reader goes with its generation.
LEMMA AdmitsOpen ==
    ASSUME IInv, NEW m \in Msgs, rows' = Admitted(m)
    PROVE  Box!Admit(m) \/ UNCHANGED BoxVars
<1>0. TypeOK /\ Once /\ rows \in Rows
    BY DEF IInv, TypeOK
<1>1. CASE ~New(m)
  <2>1. Same(rows', rows) /\ rows'.closed = rows.closed
      BY <1>0, <1>1, AdmittedRows DEF Same
  <2> QED
      BY <2>1, SamePlace DEF BoxVars
<1>2. CASE New(m)
  <2>1. ~rows.closed
      BY <1>2 DEF New, Refused, IInv, Closed, ReaderIsLooping, Looping
  <2>2. /\ rows'.queued = rows.queued \cup {m} /\ rows'.taken = rows.taken
        /\ rows'.turns = rows.turns /\ rows'.closed = rows.closed
      BY <1>0, <1>2, AdmittedRows
  <2>3. rows'.child = rows.child
      BY <1>0 DEF Admitted, Rows
  <2>4. m \notin rows.queued \cup rows.taken /\ rows.turns[m] = 0
      BY <1>0, <1>2 DEF New, Once
  <2>5. \A n \in Msgs : PlaceIn(rows', n) = IF n = m THEN "queued"
                                            ELSE PlaceIn(rows, n)
      BY <2>2, <2>4 DEF PlaceIn
  <2>6. Place' = [Place EXCEPT ![m] = "queued"] /\ Place[m] = "new"
      BY <2>4, <2>5, PlaceIs DEF Place, PlaceIn
  <2> QED
      BY <2>1, <2>2, <2>3, <2>6 DEF Box!Admit, Place
<1> QED
    BY <1>1, <1>2

\* A batch taken is read, at once and for the first time.
LEMMA TakeReads ==
    ASSUME IInv, Led, Take
    PROVE  \E batch \in SUBSET Box!Queued : Box!Read(batch)
<1>0. TypeOK /\ Once /\ rows \in Rows
    BY DEF IInv, TypeOK
<1>1. /\ run.batch \in SUBSET Msgs /\ run.batch \subseteq rows.queued
      /\ run.at = "taking" /\ rows' = TakenOf(rows, run.batch)
    BY <1>0 DEF Take, Goes, Once, TypeOK
<1>2. \A m \in run.batch : rows.turns[m] = 0
    BY <1>0, <1>1, PlaceFacts
<1>3. /\ rows'.queued = rows.queued \ run.batch
      /\ rows'.taken = rows.taken \cup run.batch
      /\ rows'.closed = rows.closed
      /\ \A m \in Msgs : rows'.turns[m] = IF m \in run.batch THEN 1
                                          ELSE rows.turns[m]
    BY <1>0, <1>1, <1>2, TakenRows
<1>4. rows'.child = rows.child
    BY <1>0, <1>1 DEF TakenOf, Rows
<1>5. \A m \in Msgs : PlaceIn(rows', m) = IF m \in run.batch THEN "read"
                                          ELSE PlaceIn(rows, m)
    BY <1>3 DEF PlaceIn
<1>6. Place' = [m \in Msgs |-> IF m \in run.batch THEN "read" ELSE Place[m]]
    BY <1>5, PlaceIs DEF Place
<1>7. run.batch \in SUBSET Box!Queued
    BY <1>0, <1>1, PlaceFacts DEF Box!Queued, Place
<1>8. Box!Read(run.batch)
    BY <1>1, <1>3, <1>4, <1>6 DEF Box!Read, Led, Place, Leading, Following
<1> QED
    BY <1>7, <1>8

\* Every step is one of the mailbox's, or none of its business.
LEMMA BoxStep ==
    ASSUME IInv, Led, [Next]_vars
    PROVE  Box!Next \/ UNCHANGED BoxVars
<1> DEFINE Goal == Box!Next \/ UNCHANGED BoxVars
<1>0. TypeOK /\ Once /\ rows \in Rows
    BY DEF IInv, TypeOK
<1>1. /\ Box!Drop \/ Box!Shut \/ Box!Reopen => Goal
      /\ UNCHANGED BoxVars => Goal
      /\ \A m \in Msgs : Box!Admit(m) => Goal
      /\ (\E batch \in SUBSET Box!Queued : Box!Read(batch)) => Goal
    BY DEF Box!Next
<1>2. ASSUME NEW r \in Rows, Same(r, rows), r.closed = rows.closed,
             rows' \in {r, EndOf(r), StopOf(r), EndOf(StopOf(r))}
      PROVE  Goal
    BY <1>0, <1>1, <1>2, EndsDrop
<1> SUFFICES Goal
    OBVIOUS
<1> HIDE DEF Goal
<1>3. ASSUME rows' \in {rows, EndOf(rows), StopOf(rows), EndOf(StopOf(rows))}
      PROVE  Goal
    BY <1>0, <1>2, <1>3 DEF Same
<1>4. ASSUME NEW m \in Msgs, Admit(m) \/ ChildEnds(m) PROVE Goal
    BY <1>0, <1>1, <1>4, Admissions, AdmitsOpen
<1>5. ASSUME NEW w \in Wakers, Resume(w) \/ HostResume PROVE Goal
    BY <1>3, <1>5, Starts
<1>6. CASE OpenStep
  <2>1. CASE \/ OpenFails \/ OpenEnds \/ OpenLeaves
             \/ OpenCheck \/ OpenStops \/ Fork
      BY <1>3, <2>1 DEF OpenFails, FailOn, OpenEnds, OpenLeaves, OpenCheck,
         OpenStops, Fork
  <2>2. CASE OpenGone /\ rows.queued # {}
      BY <1>3, <2>2 DEF OpenGone, FailOn
  <2>3. CASE OpenGone /\ rows.queued = {}
    <3>1. Same(rows', rows) /\ rows'.closed
        BY <1>0, <2>3 DEF OpenGone, FailOn, Rows, Same
    <3>2. Place' = Place /\ rows'.child = rows.child
        BY <3>1, SamePlace
    <3>3. Box!Queued = {}
        BY <1>0, <2>3, PlaceFacts DEF Box!Queued, Place
    <3>4. rows'.closed = TRUE
        BY <3>1, <1>0, InboxType DEF TypeOK, Rows
    <3>5. Box!Shut
        BY <3>2, <3>3, <3>4 DEF Box!Shut, Place
    <3> QED
        BY <1>1, <3>5
  <2>4. CASE Activate
    <3>1. Same(rows', rows) /\ rows'.closed = FALSE
        BY <1>0, <2>4 DEF Activate, Rows, Same
    <3>2. Place' = Place /\ rows'.child = rows.child
        BY <3>1, SamePlace
    <3>3. Box!Reopen
        BY <3>1, <3>2 DEF Box!Reopen, Place
    <3> QED
        BY <1>1, <3>3
  <2> QED
      BY <1>6, <2>1, <2>2, <2>3, <2>4 DEF OpenStep
<1>7. CASE LoopStep
  <2>1. CASE Take
      BY <1>1, <2>1, TakeReads
  <2>2. CASE EndRun
      BY <1>3, <2>2 DEF EndRun
  <2>3. CASE CloseTurn
    <3>1. Same(rows', rows) /\ rows'.closed = rows.closed
        BY <1>0, <2>3 DEF CloseTurn, Rows, Same
    <3> QED
        BY <1>1, <3>1, SamePlace DEF BoxVars
  <2>4. CASE ~Take /\ ~EndRun /\ ~CloseTurn
    <3>1. rows' = rows
        BY <1>7, <2>4 DEF LoopStep, OpenReader, TurnReads, TurnRests,
           LoopFails, Park, Listen, ReadIdle, Sleep, Awake, Exit
    <3> QED
        BY <1>3, <3>1
  <2> QED
      BY <2>1, <2>2, <2>3, <2>4
<1>8. CASE Aside \/ StopAsk \/ StopStep \/ Restart
    BY <1>3, <1>8 DEF Aside, StopAsk, StopStep, StopWrite, StopDone, Restart
<1> QED
    BY StepKinds, <1>4, <1>5, <1>6, <1>7, <1>8

\* The inbox is a mailbox (Inbox.ts, RunInput.ts, FollowUps.ts consume, endIn):
\* a message admitted is read once or dropped with a root's end, none waits in
\* a shut box, and one held for an instruction is read with an instruction.
THEOREM InboxIsMailbox == Spec => ImplementsMailbox
<1>1. Init => Box!Init
  <2> SUFFICES ASSUME Init PROVE Box!Init
      OBVIOUS
  <2>1. /\ rows.queued = {} /\ rows.taken = {} /\ rows.closed = FALSE
        /\ rows.child \in BOOLEAN /\ \A m \in Msgs : rows.turns[m] = 0
      BY DEF Init
  <2>2. \A m \in Msgs : PlaceOf(m) = "new"
      BY <2>1, PlaceIs DEF PlaceIn
  <2> QED
      BY <2>1, <2>2 DEF Box!Init
<1>2. IInv /\ Led /\ [Next]_vars => [Box!Next]_(Box!vars)
    BY BoxStep DEF Box!vars, BoxVars, Place
<1> QED
    BY <1>1, <1>2, InboxInvariant, AlwaysLed, PTL
    DEF Spec, ImplementsMailbox, Box!Spec

=============================================================================
