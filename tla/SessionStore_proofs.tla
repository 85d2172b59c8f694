------------------------ MODULE SessionStore_proofs ------------------------
(***************************************************************************)
(* The safety of a session's publisher and of its store, for any jobs,     *)
(* sizes and callers: the publisher implements the log it promises, nobody *)
(* is left waiting by a close, and a caller returns to a view that has     *)
(* what it waited for.                                                     *)
(***************************************************************************)
EXTENDS SessionStore, WellFoundedInduction, TLAPS

\* What the assumptions say of the constants.
USE OrderingAssumption, SizesAssumption, NoneAssumption, AwaitedAssumption

-----------------------------------------------------------------------------
(* The publisher's invariant *)

\* A queued job waits, once, and is not the one that runs.
Queued ==
    /\ \A i \in 1..Len(inbox) :
          /\ inbox[i] # running
          /\ fate[inbox[i]] = "queued" /\ done[inbox[i]] = "waiting"
    /\ \A i, k \in 1..Len(inbox) : inbox[i] = inbox[k] => i = k

\* A job runs while its enqueuer waits, and its fate is its phase's.
Works ==
    /\ running = None <=> phase = "idle"
    /\ phase # "stuck"
    /\ rows \in {0} \cup Sizes
    /\ running # None =>
          /\ consumer = "up" /\ done[running] = "waiting"
          /\ fate[running] = CASE phase = "committed" -> "committed"
                               [] phase = "failed" -> "void"
                               [] OTHER -> "queued"

\* Who waits is queued or runs; who was never queued has no fate.
Waits ==
    \A j \in Jobs :
        /\ done[j] = "waiting" =>
              j = running \/ \E i \in 1..Len(inbox) : inbox[i] = j
        /\ done[j] \in {"none", "late"} => fate[j] = "none"
        /\ fate[j] = "queued" => done[j] = "waiting"

\* The queue is ended by the close alone, which ends the consumer with it.
Closing ==
    /\ drain = "idle" <=> plane = "open"
    /\ drain \in {"joined", "done"} => consumer = "ended"
    /\ drain = "done" => inbox = <<>>

PInv == TypeOK /\ Queued /\ Works /\ Waits /\ Closing /\ TrackedIsCommitted

\* At first no job is anywhere.
LEMMA PInvInit == Init => PInv
<1> SUFFICES ASSUME Init PROVE PInv
    OBVIOUS
<1>1. Len(inbox) = 0
    BY DEF Init
<1>2. TypeOK
    BY DEF Init, TypeOK, Answers
<1>3. Queued /\ Works /\ Waits /\ Closing
    BY <1>1 DEF Init, Queued, Works, Waits, Closing
<1>4. TrackedIsCommitted
    BY DEF Init, TrackedIsCommitted
<1> QED
    BY <1>2, <1>3, <1>4 DEF PInv

\* The publisher's steps but those that leave its jobs alone.
LEMMA EnqueueKeeps ==
    ASSUME PInv, NEW j \in Jobs, Enqueue(j)
    PROVE  PInv'
<1>0. /\ TypeOK /\ Queued /\ Works /\ Waits /\ Closing /\ TrackedIsCommitted
      /\ done[j] = "none" /\ j # None
    BY DEF PInv, Enqueue
<1>1. CASE ~Admitted
  <2>1. /\ done' = [done EXCEPT ![j] = "late"]
        /\ UNCHANGED <<inbox, plane, running, phase, rows, consumer, drain, log,
                       tracked, fate>>
      BY <1>0, <1>1 DEF Enqueue, TypeOK
  <2>2. TypeOK'
      BY <1>0, <2>1 DEF TypeOK, Answers
  <2>3. Queued' /\ Works' /\ Waits' /\ Closing'
      BY <1>0, <2>1 DEF TypeOK, Queued, Works, Waits, Closing
  <2>4. TrackedIsCommitted'
      BY <1>0, <2>1 DEF TypeOK, TrackedIsCommitted
  <2> QED
      BY <2>2, <2>3, <2>4 DEF PInv
<1>2. CASE Admitted
  <2>1. /\ done' = [done EXCEPT ![j] = "waiting"]
        /\ fate' = [fate EXCEPT ![j] = "queued"]
        /\ inbox' = Append(inbox, j)
        /\ UNCHANGED <<plane, running, phase, rows, consumer, drain, log, tracked>>
      BY <1>0, <1>2 DEF Enqueue
  <2>2. /\ Len(inbox') = Len(inbox) + 1 /\ inbox'[Len(inbox')] = j
        /\ \A i \in 1..Len(inbox) : inbox'[i] = inbox[i]
        /\ Len(inbox) \in Nat /\ inbox' \in Seq(Jobs)
      BY <1>0, <2>1 DEF TypeOK
  <2>3. /\ \A i \in 1..Len(inbox) : inbox[i] # j
        /\ j # running
      BY <1>0 DEF Queued, Works
  <2>4. TypeOK'
      BY <1>0, <2>1, <2>2 DEF TypeOK, Answers
  <2>5. Queued'
    <3>1. \A i \in 1..Len(inbox') : i = Len(inbox') \/ i \in 1..Len(inbox)
        BY <2>2
    <3>2. \A i \in 1..Len(inbox) : inbox[i] \in Jobs
        BY <1>0 DEF TypeOK
    <3> QED
        BY <1>0, <2>1, <2>2, <2>3, <3>1, <3>2 DEF Queued, TypeOK
  <2>6. Works'
      BY <1>0, <2>1, <2>3 DEF Works, TypeOK
  <2>7. Waits'
    <3>1. Len(inbox') \in 1..Len(inbox')
        BY <2>2
    <3>2. \A i \in 1..Len(inbox) : i \in 1..Len(inbox')
        BY <2>2
    <3> QED
        BY <1>0, <2>1, <2>2, <3>1, <3>2 DEF Waits, TypeOK
  <2>8. Closing'
      BY <1>0, <1>2, <2>1 DEF Closing, Admitted
  <2>9. TrackedIsCommitted'
      BY <1>0, <2>1 DEF TrackedIsCommitted, TypeOK, Waits
  <2> QED
      BY <2>4, <2>5, <2>6, <2>7, <2>8, <2>9 DEF PInv
<1> QED
    BY <1>1, <1>2

\* The head of the queue runs, and no longer queues.
LEMMA TakeKeeps ==
    ASSUME PInv, Take
    PROVE  PInv'
<1>0. /\ TypeOK /\ Queued /\ Works /\ Waits /\ Closing /\ TrackedIsCommitted
    BY DEF PInv
<1>1. /\ running = None /\ consumer = "up" /\ drain # "cutting"
      /\ running' = inbox[1] /\ phase' = "body" /\ inbox' = Tail(inbox)
      /\ UNCHANGED <<plane, rows, consumer, drain, done, log, tracked, fate>>
    BY <1>0 DEF Take, Interrupted, TypeOK
<1>2. /\ Len(inbox) \in Nat /\ Len(inbox) > 0 /\ inbox[1] \in Jobs
      /\ inbox' \in Seq(Jobs) /\ Len(inbox') = Len(inbox) - 1
      /\ \A i \in 1..Len(inbox') : inbox'[i] = inbox[i + 1]
    BY <1>0 DEF Take, TypeOK
<1>3. \A i \in 1..Len(inbox') : i + 1 \in 1..Len(inbox) /\ i + 1 # 1
    BY <1>2
<1>4. 1 \in 1..Len(inbox)
    BY <1>2
<1>5. TypeOK'
    BY <1>0, <1>1, <1>2 DEF TypeOK
<1>6. Queued'
  <2>1. ASSUME NEW i \in 1..Len(inbox'), NEW k \in 1..Len(inbox'),
               inbox'[i] = inbox'[k]
        PROVE  i = k
    <3>1. i + 1 = k + 1
        BY <1>0, <1>2, <1>3, <2>1 DEF Queued
    <3> QED
        BY <1>2, <3>1
  <2>2. ASSUME NEW i \in 1..Len(inbox')
        PROVE  inbox'[i] # running' /\ fate'[inbox'[i]] = "queued"
               /\ done'[inbox'[i]] = "waiting"
      BY <1>0, <1>1, <1>2, <1>3, <1>4 DEF Queued
  <2> QED
      BY <2>1, <2>2 DEF Queued
<1>7. Works'
    BY <1>0, <1>1, <1>2, <1>4 DEF Works, Queued
<1>8. Waits'
  <2>1. ASSUME NEW j \in Jobs, done[j] = "waiting"
        PROVE  j = running' \/ \E i \in 1..Len(inbox') : inbox'[i] = j
    <3>1. PICK i \in 1..Len(inbox) : inbox[i] = j
        BY <1>0, <1>1, <2>1 DEF Waits
    <3>2. CASE i = 1
        BY <1>1, <3>1, <3>2
    <3>3. CASE i # 1
      <4>1. i - 1 \in 1..Len(inbox') /\ (i - 1) + 1 = i
          BY <1>2, <3>3
      <4> QED
          BY <1>2, <3>1, <4>1
    <3> QED
        BY <3>2, <3>3
  <2> QED
      BY <1>0, <1>1, <2>1 DEF Waits
<1>9. Closing'
    BY <1>0, <1>1, <1>2 DEF Closing
<1>10. TrackedIsCommitted'
    BY <1>0, <1>1 DEF TrackedIsCommitted
<1> QED
    BY <1>5, <1>6, <1>7, <1>8, <1>9, <1>10 DEF PInv

\* A job goes through its phases, its fate with them.
LEMMA PhaseKeeps ==
    ASSUME PInv, BodyStep \/ Committed \/ CommitFails
    PROVE  PInv'
<1>0. /\ TypeOK /\ Queued /\ Works /\ Waits /\ Closing /\ TrackedIsCommitted
    BY DEF PInv
<1>1. /\ phase \in {"body", "committing"} /\ running \in Jobs
      /\ fate[running] = "queued"
      /\ UNCHANGED <<inbox, plane, running, consumer, drain, done, tracked>>
      /\ \/ /\ phase' = "committing" /\ rows' \in {0} \cup Sizes
            /\ UNCHANGED <<log, fate>>
         \/ /\ phase' = "failed" /\ fate' = [fate EXCEPT ![running] = "void"]
            /\ UNCHANGED <<rows, log>>
         \/ /\ phase' = "committed"
            /\ fate' = [fate EXCEPT ![running] = "committed"]
            /\ log' = log \o RowsOf(running, rows) /\ UNCHANGED rows
    BY <1>0 DEF BodyStep, Complete, BodyFails, Reenter, Reentry, Committed,
                CommitFails, TypeOK, Works
<1>2. log' \in Seq(Jobs)
  <2>1. RowsOf(running, rows) \in Seq(Jobs)
      BY <1>0, <1>1 DEF RowsOf, TypeOK
  <2>2. log \in Seq(Jobs)
      BY <1>0 DEF TypeOK
  <2>3. log \o RowsOf(running, rows) \in Seq(Jobs)
      BY <2>1, <2>2
  <2> QED
      BY <1>1, <2>2, <2>3
<1>3. TypeOK'
  <2>1. rows' \in Nat
    <3>1. rows \in Nat /\ {0} \cup Sizes \subseteq Nat
        BY <1>0 DEF TypeOK
    <3>2. rows' = rows \/ rows' \in {0} \cup Sizes
        BY <1>1
    <3> QED
        BY <3>1, <3>2
  <2>2. fate' \in [Jobs -> {"none", "queued", "committed", "void"}]
      BY <1>0, <1>1 DEF TypeOK
  <2>3. phase' \in {"idle", "body", "committing", "committed", "failed", "stuck"}
      BY <1>1
  <2> QED
      BY <1>0, <1>1, <1>2, <2>1, <2>2, <2>3 DEF TypeOK
<1>4. Queued'
  <2>1. Queued
      BY <1>0
  <2>2. ASSUME NEW i \in 1..Len(inbox)
        PROVE  inbox[i] \in Jobs /\ fate'[inbox[i]] = "queued"
    <3>1. inbox \in Seq(Jobs)
        BY <1>0 DEF TypeOK
    <3>2. inbox[i] \in Jobs /\ inbox[i] # running /\ fate[inbox[i]] = "queued"
        BY <2>1, <3>1 DEF Queued
    <3> QED
        BY <1>0, <1>1, <3>2 DEF TypeOK
  <2> QED
      BY <1>1, <2>1, <2>2 DEF Queued
<1>5. Works'
    BY <1>0, <1>1 DEF Works, TypeOK
<1>6. Waits'
    BY <1>0, <1>1 DEF Waits, Works, TypeOK
<1>7. Closing'
    BY <1>0, <1>1 DEF Closing
<1>8. TrackedIsCommitted'
    BY <1>0, <1>1 DEF TrackedIsCommitted, TypeOK
<1> QED
    BY <1>3, <1>4, <1>5, <1>6, <1>7, <1>8 DEF PInv

\* A job's exit answers its enqueuer, and so does the interrupt that cuts it.
LEMMA ExitKeeps ==
    ASSUME PInv, Finish \/ Interrupt
    PROVE  PInv'
<1>0. /\ TypeOK /\ Queued /\ Works /\ Waits /\ Closing /\ TrackedIsCommitted
    BY DEF PInv
<1>1. /\ running' = None /\ phase' = "idle" /\ rows' = 0
      /\ UNCHANGED <<inbox, plane, log>>
    BY DEF Finish, Interrupt, Idle
<1>2. CASE Finish
  <2>1. /\ running \in Jobs /\ phase \in {"committed", "failed"}
        /\ done' = [done EXCEPT ![running] = ExitOf(running)]
        /\ ExitOf(running) \in {"ok", "failed"}
        /\ tracked' = IF phase = "committed" THEN tracked \cup {running}
                      ELSE tracked
        /\ UNCHANGED <<consumer, drain, fate>>
      BY <1>0, <1>2 DEF Finish, ExitOf, OpenRows, Works, TypeOK
  <2>2. TypeOK'
      BY <1>0, <1>1, <2>1 DEF TypeOK, Answers
  <2>3. Queued'
      BY <1>0, <1>1, <2>1 DEF Queued, TypeOK
  <2>4. Works' /\ Closing'
      BY <1>0, <1>1, <2>1 DEF Works, Closing
  <2>5. Waits'
      BY <1>0, <1>1, <2>1 DEF Waits, Works, TypeOK
  <2>6. TrackedIsCommitted'
      BY <1>0, <1>1, <2>1 DEF TrackedIsCommitted, Works, TypeOK
  <2> QED
      BY <2>2, <2>3, <2>4, <2>5, <2>6 DEF PInv
<1>3. CASE Interrupt
  <2>1. /\ drain = "cutting" /\ drain' = "joined" /\ consumer' = "ended"
        /\ tracked' = tracked
        /\ done' = CutAnswers /\ fate' = CutFates /\ phase # "committing"
      BY <1>3 DEF Interrupt, Interruptible
  <2>2. CASE running = None
    <3>1. done' = done /\ fate' = fate
        BY <1>0, <2>1, <2>2 DEF CutAnswers, CutFates, Works
    <3>2. TypeOK' /\ Queued'
        BY <1>0, <1>1, <2>1, <2>2, <3>1 DEF TypeOK, Queued
    <3>3. Works' /\ Waits' /\ Closing'
        BY <1>0, <1>1, <2>1, <2>2, <3>1 DEF Works, Waits, Closing
    <3>4. TrackedIsCommitted'
        BY <1>0, <1>1, <2>1, <2>2, <3>1 DEF TrackedIsCommitted
    <3> QED
        BY <3>2, <3>3, <3>4 DEF PInv
  <2>3. CASE running # None
    <3>1. /\ running \in Jobs /\ phase \in {"body", "committed", "failed"}
          /\ done' = [done EXCEPT ![running] = "cut"]
          /\ fate' = IF phase = "body" THEN [fate EXCEPT ![running] = "void"]
                     ELSE fate
        BY <1>0, <2>1, <2>3 DEF CutAnswers, CutFates, Works, TypeOK
    <3>2. TypeOK'
        BY <1>0, <1>1, <2>1, <3>1 DEF TypeOK, Answers
    <3>3. Queued'
        BY <1>0, <1>1, <2>1, <3>1 DEF Queued, TypeOK
    <3>4. Works' /\ Closing'
        BY <1>0, <1>1, <2>1, <3>1 DEF Works, Closing
    <3>5. Waits'
        BY <1>0, <1>1, <2>1, <3>1 DEF Waits, Works, TypeOK
    <3>6. TrackedIsCommitted'
        BY <1>0, <1>1, <2>1, <3>1 DEF TrackedIsCommitted, Works, TypeOK
    <3> QED
        BY <3>2, <3>3, <3>4, <3>5, <3>6 DEF PInv
  <2> QED
      BY <2>2, <2>3
<1> QED
    BY <1>2, <1>3

\* The consumer's end and the close leave the jobs alone, but for the queued
\* ones, which are refused once nobody runs them.
LEMMA CloseKeeps ==
    ASSUME PInv, ConsumerEnds \/ Drain \/ Joined \/ Deadline \/ RefuseRest
    PROVE  PInv'
<1>0. /\ TypeOK /\ Queued /\ Works /\ Waits /\ Closing /\ TrackedIsCommitted
    BY DEF PInv
<1>1. CASE ConsumerEnds \/ Drain \/ Joined \/ Deadline
  <2>1. /\ UNCHANGED <<inbox, running, phase, rows, done, log, tracked, fate>>
        /\ \/ /\ consumer' = "ended" /\ running = None
              /\ UNCHANGED <<plane, drain>>
           \/ /\ drain = "idle" /\ drain' = "waiting" /\ plane' = "ended"
              /\ UNCHANGED consumer
           \/ /\ drain = "waiting" /\ UNCHANGED <<consumer, plane>>
              /\ \/ drain' = "joined" /\ consumer = "ended"
                 \/ drain' = "cutting"
      BY <1>1 DEF ConsumerEnds, Drain, Joined, Deadline
  <2>2. TypeOK' /\ Closing'
      BY <1>0, <2>1 DEF TypeOK, Closing
  <2>3. Queued' /\ Works' /\ Waits'
      BY <1>0, <2>1 DEF Queued, Works, Waits
  <2>4. TrackedIsCommitted'
      BY <1>0, <2>1 DEF TrackedIsCommitted
  <2> QED
      BY <2>2, <2>3, <2>4 DEF PInv
<1>2. CASE RefuseRest
  <2> DEFINE Q == ToSet(inbox)
  <2>1. /\ drain = "joined" /\ drain' = "done" /\ plane' = "cleared"
        /\ inbox' = <<>> /\ running = None
        /\ done' = [j \in Jobs |-> IF j \in Q THEN "refused" ELSE done[j]]
        /\ fate' = [j \in Jobs |-> IF j \in Q THEN "void" ELSE fate[j]]
        /\ UNCHANGED <<running, phase, rows, consumer, log, tracked>>
      BY <1>0, <1>2 DEF RefuseRest, Refused, Closing, Works
  <2>2. \A j \in Q : fate[j] = "queued" /\ done[j] = "waiting"
      BY <1>0 DEF Queued, ToSet, TypeOK
  <2>3. \A j \in Jobs : done[j] = "waiting" => j \in Q
      BY <1>0, <2>1, SMTT(20) DEF Waits, ToSet, TypeOK
  <2> HIDE DEF Q
  <2>4. TypeOK'
    <3>1. inbox' \in Seq(Jobs)
        BY <2>1
    <3> QED
        BY <1>0, <2>1, <3>1 DEF TypeOK, Answers
  <2>5. Len(inbox') = 0
      BY <2>1
  <2>6. Queued' /\ Works' /\ Closing'
      BY <1>0, <2>1, <2>5 DEF Queued, Works, Closing
  <2>7. Waits'
      BY <1>0, <2>1, <2>2, <2>3 DEF Waits
  <2>8. TrackedIsCommitted'
      BY <1>0, <2>1, <2>2 DEF TrackedIsCommitted, TypeOK
  <2> QED
      BY <2>4, <2>6, <2>7, <2>8 DEF PInv
<1> QED
    BY <1>1, <1>2

\* Every step keeps the publisher's invariant.
LEMMA PInvStep == PInv /\ [Next]_vars => PInv'
<1> SUFFICES ASSUME PInv, [Next]_vars PROVE PInv'
    OBVIOUS
<1>1. CASE UNCHANGED vars
    BY <1>1 DEF vars, PInv, TypeOK, Queued, Works, Waits, Closing,
                TrackedIsCommitted
<1>2. CASE Next
    BY <1>2, EnqueueKeeps, TakeKeeps, PhaseKeeps, ExitKeeps, CloseKeeps
    DEF Next, ConsumerMoves, DrainStep
<1> QED
    BY <1>1, <1>2

\* In every reachable state.
LEMMA PInductive == Spec => []PInv
BY PInvInit, PInvStep, PTL DEF Spec

-----------------------------------------------------------------------------
(* The publisher's theorems *)

\* What the publisher holds is of its type.
THEOREM PublisherTyped == Spec => []TypeOK
<1>1. PInv => TypeOK
    BY DEF PInv
<1> QED
    BY <1>1, PInductive, PTL

\* When the close of the plane is over (SessionEvents.ts drain) every job was
\* answered, whichever the consumer was in when the deadline cut it.
THEOREM CloseAnswersAll == Spec => []NoneLeftWaiting
<1>1. PInv => NoneLeftWaiting
  <2> SUFFICES ASSUME PInv, drain = "done", NEW j \in Jobs PROVE done[j] # "waiting"
      BY DEF NoneLeftWaiting
  <2>1. running = None /\ Len(inbox) = 0
      BY DEF PInv, Closing, Works
  <2>2. j # None
      OBVIOUS
  <2> QED
      BY <2>1, <2>2 DEF PInv, Waits
<1> QED
    BY <1>1, PInductive, PTL

\* openWork counts the rows of the jobs that committed, and misses only those
\* of a job cut between its COMMIT and its exit (inTransaction's `track`).
THEOREM TrackingIsTrue == Spec => []TrackedIsCommitted
<1>1. PInv => TrackedIsCommitted
    BY DEF PInv
<1> QED
    BY <1>1, PInductive, PTL

\* The consumer ends by itself only behind Queue.end, and not once the
\* deadline has it interrupted.
Consuming == consumer = "ended" => drain \in {"waiting", "joined", "done"}

\* A job somebody waits for is in the body's or the database's hands, is the
\* consumer's to finish or to take, or the close's to join, cut or refuse.
InSomeonesHands ==
    \A j \in Jobs : done[j] = "waiting" =>
        \/ phase \in {"body", "committing"}
        \/ /\ consumer = "up" /\ ~Interrupted
           /\ phase \in {"committed", "failed"} \/ (running = None /\ inbox # <<>>)
        \/ drain = "cutting" /\ consumer = "up"
        \/ drain = "waiting" /\ consumer = "ended"
        \/ drain = "joined"

\* No enqueuer waits for a step that nobody will take: the publisher never
\* stalls, wherever the close's deadline falls and whatever a job calls.
THEOREM PublisherNeverStalls == Spec => []InSomeonesHands
<1>1. Init => Consuming
    BY DEF Init, Consuming
<1>2. PInv /\ Consuming /\ [Next]_vars => Consuming'
  <2> SUFFICES ASSUME PInv, Consuming, [Next]_vars PROVE Consuming'
      OBVIOUS
  <2>1. CASE ConsumerEnds
      BY <2>1 DEF PInv, TypeOK, Closing, Consuming, ConsumerEnds, Interrupted
  <2>2. CASE Deadline \/ Joined \/ Interrupt \/ RefuseRest \/ Drain
      BY <2>2 DEF PInv, Closing, Consuming, Joined, Deadline, Interrupt,
                  RefuseRest, Drain
  <2>3. CASE UNCHANGED <<consumer, drain>>
      BY <2>3 DEF Consuming
  <2> QED
      BY <2>1, <2>2, <2>3
      DEF vars, Next, Enqueue, BodyStep, Complete, BodyFails, Reenter,
          ConsumerMoves, Take, Committed, CommitFails, Finish, DrainStep
<1>3. PInv /\ Consuming => InSomeonesHands
  <2> SUFFICES ASSUME PInv, Consuming, NEW j \in Jobs, done[j] = "waiting",
                      phase \notin {"body", "committing"}, drain # "joined",
                      ~(drain = "waiting" /\ consumer = "ended"),
                      ~(drain = "cutting" /\ consumer = "up")
               PROVE  /\ consumer = "up" /\ ~Interrupted
                      /\ phase \in {"committed", "failed"}
                            \/ (running = None /\ inbox # <<>>)
      BY DEF InSomeonesHands
  <2>1. drain # "done" /\ consumer = "up"
    <3>1. ASSUME drain = "done" PROVE FALSE
      <4>1. running = None /\ Len(inbox) = 0 /\ j # None
          BY <3>1 DEF PInv, Closing, Works
      <4> QED
          BY <4>1 DEF PInv, Waits
    <3> QED
        BY <3>1 DEF PInv, TypeOK, Consuming
  <2>2. CASE running = None
    <3>1. PICK i \in 1..Len(inbox) : inbox[i] = j
        BY <2>2 DEF PInv, Waits
    <3>2. inbox # <<>>
        BY <3>1
    <3> QED
        BY <2>1, <2>2, <3>2 DEF Interrupted
  <2>3. CASE running # None
      BY <2>1, <2>3 DEF PInv, TypeOK, Works, Interrupted
  <2> QED
      BY <2>2, <2>3
<1> QED
    BY <1>1, <1>2, <1>3, PInductive, PTL DEF Spec

\* Nothing is written once the close of the plane returned.
THEOREM ClosedLogIsFinal == Spec => ClosedLogStands
<1>1. ASSUME PInv, [Next]_vars, drain = "done" PROVE log' = log
  <2>1. running = None /\ phase = "idle"
      BY <1>1 DEF PInv, Closing, Works
  <2>2. ~Committed
      BY <2>1 DEF Committed
  <2> QED
      BY <1>1, <2>1, <2>2
      DEF vars, Next, Enqueue, BodyStep, Complete, BodyFails, Reenter,
          ConsumerMoves, Take, CommitFails, Finish, ConsumerEnds, Drain, DrainStep,
          Joined, Deadline, Interrupt, RefuseRest
<1>2. PInv /\ [Next]_vars => [drain = "done" => log' = log]_vars
    BY <1>1
<1> QED
    BY <1>2, PInductive, PTL DEF Spec, ClosedLogStands

-----------------------------------------------------------------------------
(* The publisher implements the log it promises *)

\* The jobs not decided: the one at work before its COMMIT is over, and the
\* queue.
Pending == (IF phase \in {"body", "committing"} THEN <<running>> ELSE <<>>) \o inbox

\* Which is what the mapping gives the abstract log.
LEMMA PendingCases ==
    ASSUME TypeOK, Works
    PROVE  /\ phase \notin {"body", "committing"} => Pending = inbox
           /\ phase \in {"body", "committing"} =>
                 Pending = <<running>> \o inbox /\ Pending # <<>>
                 /\ Head(Pending) = running /\ Tail(Pending) = inbox
<1>1. CASE phase \notin {"body", "committing"}
    BY <1>1 DEF Pending, TypeOK
<1>2. CASE phase \in {"body", "committing"}
  <2>1. running \in Jobs /\ inbox \in Seq(Jobs)
      BY <1>2 DEF TypeOK, Works
  <2>2. Pending = <<running>> \o inbox
      BY <1>2 DEF Pending
  <2>3. /\ <<running>> \o inbox # <<>> /\ Head(<<running>> \o inbox) = running
        /\ Tail(<<running>> \o inbox) = inbox
      BY <2>1
  <2> QED
      BY <1>2, <2>2, <2>3
<1> QED
    BY <1>1, <1>2

\* A job's enqueuing appends to what is pending, or comes too late.
LEMMA EnqueueIsPromised ==
    ASSUME PInv, NEW j \in Jobs, Enqueue(j)
    PROVE  Promise!Next
<1>0. TypeOK /\ Works /\ done[j] = "none"
    BY DEF PInv, Enqueue
<1>1. CASE ~Admitted
  <2>1. Promise!TooLate(j)
      BY <1>0, <1>1 DEF Enqueue, Promise!TooLate, TypeOK
  <2> QED
      BY <2>1 DEF Promise!Next
<1>2. CASE Admitted
  <2>1. Pending' = Append(Pending, j)
    <3>1. CASE phase \notin {"body", "committing"}
        BY <1>0, <1>2, <3>1 DEF Pending, Enqueue, TypeOK
    <3>2. CASE phase \in {"body", "committing"}
      <4>1. inbox \in Seq(Jobs) /\ running \in Jobs
          BY <1>0, <3>2 DEF TypeOK, Works
      <4>2. <<running>> \o Append(inbox, j) = Append(<<running>> \o inbox, j)
          BY <4>1
      <4> QED
          BY <1>2, <3>2, <4>2 DEF Pending, Enqueue
    <3> QED
        BY <3>1, <3>2
  <2>2. Promise!Enqueue(j)
      BY <1>0, <1>2, <2>1 DEF Enqueue, Promise!Enqueue, Pending
  <2> QED
      BY <2>2 DEF Promise!Next
<1> QED
    BY <1>1, <1>2

\* A job's COMMIT commits the first that is pending, and its failure rolls
\* that back; its other phases are not seen.
LEMMA PhaseIsPromised ==
    ASSUME PInv, BodyStep \/ ConsumerMoves
    PROVE  Promise!Next \/ UNCHANGED Promise!vars
<1>0. TypeOK /\ Works /\ Queued
    BY DEF PInv
<1>1. CASE Take
  <2>1. phase = "idle" /\ inbox \in Seq(Jobs) /\ inbox # <<>>
      BY <1>0, <1>1 DEF Take, Works, TypeOK
  <2>2. <<Head(inbox)>> \o Tail(inbox) = inbox /\ <<>> \o inbox = inbox
      BY <2>1
  <2>3. Pending' = Pending
      BY <1>1, <2>1, <2>2 DEF Take, Pending
  <2> QED
      BY <1>1, <2>3 DEF Take, Promise!vars, Pending
<1>2. ASSUME NEW n \in {0} \cup Sizes, Complete(n)
      PROVE  UNCHANGED Promise!vars
    BY <1>2 DEF Complete, Promise!vars
<1>3. CASE BodyFails \/ Reenter \/ CommitFails
  <2>1. /\ phase \in {"body", "committing"} /\ phase' = "failed"
        /\ fate' = [fate EXCEPT ![running] = "void"]
        /\ UNCHANGED <<inbox, running, done, log>>
      BY <1>3 DEF BodyFails, Reenter, Reentry, CommitFails
  <2>2. Pending # <<>> /\ Head(Pending) = running /\ Tail(Pending) = inbox
      BY <1>0, <2>1, PendingCases
  <2>3. Pending' = inbox
      BY <1>0, <2>1 DEF Pending, TypeOK
  <2>4. Promise!RollBack
      BY <2>1, <2>2, <2>3 DEF Promise!RollBack, Pending
  <2> QED
      BY <2>4 DEF Promise!Next
<1>4. CASE Committed
  <2>1. /\ phase = "committing" /\ phase' = "committed"
        /\ fate' = [fate EXCEPT ![running] = "committed"]
        /\ log' = log \o RowsOf(running, rows)
        /\ UNCHANGED <<inbox, running, done>>
      BY <1>4 DEF Committed
  <2>2. Pending # <<>> /\ Head(Pending) = running /\ Tail(Pending) = inbox
      BY <1>0, <2>1, PendingCases
  <2>3. Pending' = inbox
      BY <1>0, <2>1 DEF Pending, TypeOK
  <2>4. RowsOf(running, rows) = Promise!RowsOf(running, rows)
      BY DEF RowsOf, Promise!RowsOf
  <2>5. Promise!Commit(rows)
      BY <2>1, <2>2, <2>3, <2>4 DEF Promise!Commit, Pending
  <2> QED
      BY <1>0, <2>5 DEF Promise!Next, Works
<1>5. CASE Finish
  <2>1. /\ phase \in {"committed", "failed"} /\ phase' = "idle"
        /\ running \in Jobs /\ done[running] = "waiting"
        /\ done' = [done EXCEPT ![running] = ExitOf(running)]
        /\ UNCHANGED <<inbox, log, fate>>
      BY <1>0, <1>5 DEF Finish, Idle, Works, TypeOK
  <2>2. Pending' = Pending
      BY <2>1 DEF Pending
  <2>3. fate[running] \in {"committed", "void"}
        /\ ExitOf(running) \in Promise!Truth(running)
      BY <1>0, <2>1 DEF ExitOf, Works, Promise!Truth
  <2>4. Promise!Answer(running)
      BY <2>1, <2>2, <2>3 DEF Promise!Answer, Pending
  <2> QED
      BY <2>1, <2>4 DEF Promise!Next
<1>6. CASE ConsumerEnds
    BY <1>6 DEF ConsumerEnds, Promise!vars
<1> QED
    BY <1>1, <1>2, <1>3, <1>4, <1>5, <1>6 DEF BodyStep, ConsumerMoves

\* The close cuts the job that runs, and refuses the queue.
LEMMA CloseIsPromised ==
    ASSUME PInv, Drain \/ DrainStep
    PROVE  Promise!Next \/ UNCHANGED Promise!vars
<1>0. TypeOK /\ Works /\ Queued /\ Waits /\ Closing
    BY DEF PInv
<1>1. CASE Drain \/ Joined \/ Deadline
    BY <1>1 DEF Drain, Joined, Deadline, Promise!vars
<1>2. CASE Interrupt
  <2>1. /\ phase # "committing" /\ phase' = "idle" /\ running' = None
        /\ done' = CutAnswers /\ fate' = CutFates
        /\ UNCHANGED <<inbox, log>>
      BY <1>2 DEF Interrupt, Interruptible, Idle
  <2>2. Pending' = inbox
      BY <1>0, <2>1 DEF Pending, TypeOK
  <2>3. CASE running = None
    <3>1. done' = done /\ fate' = fate /\ Pending = inbox
        BY <1>0, <2>1, <2>3, PendingCases DEF CutAnswers, CutFates, Works
    <3> QED
        BY <2>1, <2>2, <3>1 DEF Promise!vars, Pending
  <2>4. CASE running # None
    <3>1. /\ running \in Jobs /\ done[running] = "waiting"
          /\ phase \in {"body", "committed", "failed"}
          /\ done' = [done EXCEPT ![running] = "cut"]
        BY <1>0, <2>1, <2>4 DEF CutAnswers, Works, TypeOK
    <3>2. CASE phase = "body"
      <4>1. fate' = [fate EXCEPT ![running] = "void"]
          BY <2>1, <3>2 DEF CutFates
      <4>2. Pending # <<>> /\ Head(Pending) = running /\ Tail(Pending) = inbox
          BY <1>0, <3>2, PendingCases
      <4>3. Promise!Cut
          BY <2>1, <2>2, <3>1, <4>1, <4>2 DEF Promise!Cut, Pending
      <4> QED
          BY <4>3 DEF Promise!Next
    <3>3. CASE phase \in {"committed", "failed"}
      <4>1. fate' = fate /\ fate[running] \in {"committed", "void"}
          BY <1>0, <2>1, <2>4, <3>3 DEF CutFates, Works
      <4>2. Pending = inbox
          BY <1>0, <3>3, PendingCases
      <4>3. "cut" \in Promise!Truth(running)
          BY DEF Promise!Truth
      <4>4. Promise!Answer(running)
          BY <2>1, <2>2, <3>1, <4>1, <4>2, <4>3 DEF Promise!Answer, Pending
      <4> QED
          BY <3>1, <4>4 DEF Promise!Next
    <3> QED
        BY <3>1, <3>2, <3>3
  <2> QED
      BY <2>3, <2>4
<1>3. CASE RefuseRest
  <2>1. running = None /\ phase = "idle" /\ phase' = phase /\ log' = log
        /\ inbox' = <<>>
      BY <1>0, <1>3 DEF RefuseRest, Closing, Works
  <2>2. Pending' = <<>>
      BY <2>1 DEF Pending
  <2>3. \A j \in Jobs : j \in ToSet(inbox) <=> fate[j] = "queued"
    <3>1. ASSUME NEW j \in Jobs, j \in ToSet(inbox) PROVE fate[j] = "queued"
        BY <1>0, <3>1 DEF ToSet, Queued, TypeOK
    <3>2. ASSUME NEW j \in Jobs, fate[j] = "queued" PROVE j \in ToSet(inbox)
        BY <1>0, <2>1, <3>2 DEF ToSet, Waits, TypeOK
    <3> QED
        BY <3>1, <3>2
  <2>4. Promise!RefuseRest
      BY <1>3, <2>1, <2>2, <2>3 DEF RefuseRest, Refused, Promise!RefuseRest, Pending
  <2> QED
      BY <2>4 DEF Promise!Next
<1> QED
    BY <1>1, <1>2, <1>3 DEF DrainStep

\* The publisher (SessionEvents.ts) implements the log it promises: each
\* step is one of the log's, or is not seen there.
THEOREM PublisherImplementsLog == Spec => ImplementsCommitLog
<1>1. Init => Promise!Init
    BY DEF Init, Promise!Init
<1>2. PInv /\ [Next]_vars => [Promise!Next]_(Promise!vars)
  <2> SUFFICES ASSUME PInv, [Next]_vars
               PROVE  Promise!Next \/ UNCHANGED Promise!vars
      OBVIOUS
  <2>1. CASE UNCHANGED vars
      BY <2>1 DEF vars, Promise!vars
  <2>2. CASE Next
      BY <2>2, EnqueueIsPromised, PhaseIsPromised, CloseIsPromised DEF Next
  <2> QED
      BY <2>1, <2>2
<1> QED
    BY <1>1, <1>2, PInductive, PTL DEF Spec, ImplementsCommitLog, Promise!Spec

-----------------------------------------------------------------------------
(* The store is its publisher, and three positions in the log *)

\* Each step of the store is its publisher's, or leaves that alone.
LEMMA StoreSteps ==
    ASSUME [StoreNext]_allVars
    PROVE  [Next]_vars
<1>1. CASE UNCHANGED allVars
    BY <1>1 DEF allVars
<1>2. CASE StoreNext
    BY <1>2 DEF StoreNext, Call, BodyRuns, CallerStep, Answered, Settled, SettleDies,
                Deliver, Fold, ReadFolded, Ends, Next
<1> QED
    BY <1>1, <1>2

\* What holds of a publisher holds of a store's.
THEOREM StoreIsPublisher == StoreSpec => Spec
<1>1. StoreInit => Init
    BY DEF StoreInit
<1>2. [StoreNext]_allVars => [Next]_vars
    BY StoreSteps
<1> QED
    BY <1>1, <1>2, PTL DEF StoreSpec, Spec

\* Numbers are well founded: a set of them has a least member.
LEMMA LeastMember ==
    ASSUME NEW S \in SUBSET Nat, S # {}
    PROVE  \E x \in S : \A y \in S : x <= y
<1>1. IsWellFoundedOn(OpToRel(<, Nat), Nat)
    BY NatLessThanWellFounded
<1>2. PICK x \in S : \A y \in S : ~(<<y, x>> \in OpToRel(<, Nat))
    BY <1>1, WFMin
<1>3. \A y \in S : ~(y < x)
    BY <1>2 DEF OpToRel
<1> QED
    BY <1>3

\* A bounded set of numbers has a greatest member.
LEMMA GreatestMember ==
    ASSUME NEW n \in Nat, NEW S \in SUBSET (0..n), S # {}
    PROVE  Max(S) \in S /\ \A y \in S : y <= Max(S)
<1> DEFINE D == {n - x : x \in S}
<1>1. D \in SUBSET Nat
    OBVIOUS
<1>2. D # {}
  <2>1. PICK x \in S : TRUE
      OBVIOUS
  <2>2. n - x \in D
      OBVIOUS
  <2> QED
      BY <2>2
<1>3. PICK d \in D : \A e \in D : d <= e
    BY <1>1, <1>2, LeastMember
<1>4. PICK x \in S : d = n - x
    OBVIOUS
<1>5. \A y \in S : y <= x
  <2> TAKE y \in S
  <2>1. n - y \in D
      OBVIOUS
  <2> HIDE DEF D
  <2>2. d <= n - y
      BY <1>3, <2>1
  <2> QED
      BY <1>4, <2>2
<1> QED
    BY <1>5 DEF Max

\* A sequence after another keeps the first as it is.
LEMMA Joins ==
    ASSUME NEW S, NEW a \in Seq(S), NEW b \in Seq(S)
    PROVE  /\ Len(a \o b) = Len(a) + Len(b) /\ DOMAIN (a \o b) = 1..(Len(a) + Len(b))
           /\ \A i \in 1..Len(a) : (a \o b)[i] = a[i]
           /\ \A i \in (Len(a) + 1)..(Len(a) + Len(b)) :
                 i - Len(a) \in 1..Len(b) /\ (a \o b)[i] = b[i - Len(a)]
<1>1. Len(a) \in Nat /\ Len(b) \in Nat
    OBVIOUS
<1>2. /\ Len(a \o b) = Len(a) + Len(b) /\ DOMAIN (a \o b) = 1..(Len(a) + Len(b))
      /\ \A i \in 1..Len(a) : (a \o b)[i] = a[i]
    OBVIOUS
<1>3. ASSUME NEW i \in (Len(a) + 1)..(Len(a) + Len(b))
      PROVE  i - Len(a) \in 1..Len(b) /\ (a \o b)[i] = b[i - Len(a)]
    BY <1>1
<1> QED
    BY <1>2, <1>3

\* An answer stands; one job's step writes no other's rows.
LEMMA JobStep ==
    ASSUME PInv, [Next]_vars, NEW j \in Jobs
    PROVE  /\ done[j] \notin {"none", "waiting"} => done'[j] = done[j]
           /\ done[j] # "none" => done'[j] # "none"
           /\ done'[j] = "waiting" => done[j] = "waiting" \/ Enqueue(j)
           /\ done'[j] = "ok" =>
                 done[j] = "ok" \/ (running = j /\ phase = "committed")
           /\ j # running => Commits(j)' = Commits(j)
           /\ Len(log) \in Nat /\ Len(log') \in Nat /\ Len(log) <= Len(log')
<1>0. TypeOK /\ Queued /\ Works /\ Waits /\ j # None
    BY DEF PInv
<1>1. \/ done' = done
      \/ \E k \in Jobs : Enqueue(k) /\ done[k] = "none"
                        /\ \E a \in {"waiting", "late"} : done' = [done EXCEPT ![k] = a]
      \/ /\ running \in Jobs /\ done[running] = "waiting"
         /\ \/ done' = [done EXCEPT ![running] = "failed"]
            \/ done' = [done EXCEPT ![running] = "cut"]
            \/ phase = "committed" /\ done' = [done EXCEPT ![running] = "ok"]
      \/ \A k \in Jobs : \/ done'[k] = done[k]
                         \/ done[k] = "waiting" /\ done'[k] = "refused"
  <2>1. ASSUME NEW k \in Jobs, Enqueue(k)
        PROVE  \E a \in {"waiting", "late"} : done' = [done EXCEPT ![k] = a]
      BY <2>1 DEF Enqueue
  <2>2. CASE Finish
      BY <1>0, <2>2 DEF Finish, ExitOf, Works, TypeOK
  <2>3. CASE Interrupt
      BY <1>0, <2>3 DEF Interrupt, CutAnswers, Works, TypeOK
  <2>4. CASE RefuseRest
    <3>1. \A k \in ToSet(inbox) : done[k] = "waiting"
        BY <1>0 DEF Queued, ToSet, TypeOK
    <3> QED
      <4>1. \A k \in Jobs : done'[k] = IF k \in ToSet(inbox) THEN "refused"
                                       ELSE done[k]
          BY <2>4 DEF RefuseRest, Refused
      <4> QED
          BY <3>1, <4>1
  <2>5. CASE UNCHANGED vars
      BY <2>5 DEF vars
  <2>6. CASE BodyStep \/ Take \/ Committed \/ CommitFails \/ ConsumerEnds \/ Drain
             \/ Joined \/ Deadline
      BY <2>6 DEF BodyStep, Complete, BodyFails, Reenter, Take, Committed,
                  CommitFails, ConsumerEnds, Drain, Joined, Deadline
  <2> QED
      BY <2>1, <2>2, <2>3, <2>4, <2>5, <2>6
      DEF Next, ConsumerMoves, DrainStep, Enqueue
<1>2. log' = log \/ Committed
    BY DEF vars, Next, Enqueue, BodyStep, Complete, BodyFails, Reenter,
           ConsumerMoves, Take, CommitFails, Finish, ConsumerEnds, Drain, DrainStep,
           Joined, Deadline, Interrupt, RefuseRest
<1>3. done \in [Jobs -> Answers] /\ log \in Seq(Jobs)
    BY <1>0 DEF TypeOK
<1>4. /\ done[j] \notin {"none", "waiting"} => done'[j] = done[j]
      /\ done[j] # "none" => done'[j] # "none"
      /\ done'[j] = "waiting" => done[j] = "waiting" \/ Enqueue(j)
      /\ done'[j] = "ok" =>
            done[j] = "ok" \/ (running = j /\ phase = "committed")
    BY <1>1, <1>3
<1>5. CASE log' = log
    BY <1>3, <1>4, <1>5 DEF Commits
<1>6. CASE Committed
  <2> DEFINE r == RowsOf(running, rows)
  <2>1. /\ running \in Jobs /\ rows \in Nat /\ log' = log \o r
      BY <1>0, <1>6 DEF Committed, Works, TypeOK
  <2>2. r \in Seq(Jobs) /\ Len(r) = rows /\ \A i \in 1..rows : r[i] = running
      BY <2>1 DEF RowsOf
  <2> HIDE DEF r
  <2>3. /\ Len(log') = Len(log) + rows /\ Len(log) \in Nat
        /\ DOMAIN log' = 1..(Len(log) + rows) /\ DOMAIN log = 1..Len(log)
        /\ \A i \in 1..Len(log) : log'[i] = log[i]
        /\ \A i \in (Len(log) + 1)..(Len(log) + rows) : log'[i] = running
    <3>0. log \in Seq(Jobs) /\ r \in Seq(Jobs)
        BY <1>3, <2>2
    <3>1. /\ Len(log \o r) = Len(log) + Len(r)
          /\ DOMAIN (log \o r) = 1..(Len(log) + Len(r))
          /\ \A i \in 1..Len(log) : (log \o r)[i] = log[i]
        BY <3>0
    <3>2. Len(log) \in Nat /\ DOMAIN log = 1..Len(log)
        BY <1>3
    <3>3. ASSUME NEW i \in (Len(log) + 1)..(Len(log) + rows) PROVE log'[i] = running
      <4>1. i - Len(log) \in 1..Len(r) /\ Len(log) \in Nat
          BY <2>1, <2>2, <3>2, <3>3
      <4>2. (log \o r)[i] = r[i - Len(log)]
          BY <2>2, <3>0, <3>3, <4>1
      <4> QED
          BY <2>1, <2>2, <4>1, <4>2
    <3> QED
        BY <2>1, <2>2, <3>1, <3>2, <3>3
  <2>4. j # running => Commits(j)' = Commits(j)
      BY <2>1, <2>3 DEF Commits
  <2> QED
      BY <1>4, <2>1, <2>3, <2>4
<1> QED
    BY <1>2, <1>5, <1>6

-----------------------------------------------------------------------------
(* The store's invariant *)

\* Who settles, or has, was told that its job committed.
Settles ==
    \A j \in Awaited : caller[j] \in {"settling", "returned"} => done[j] = "ok"

\* Those before a barrier were enqueued.
Known(b) == \A j \in before[b] : j \in Jobs /\ j # b /\ done[j] # "none"

\* While a barrier waits, those before it that wait are ahead of it.
Ahead(b) ==
    done[b] = "waiting" =>
        \A j \in before[b] : done[j] = "waiting" =>
            \E k \in 1..Len(inbox) :
                /\ inbox[k] = b
                /\ j = running \/ \E i \in 1..(k - 1) : inbox[i] = j

\* A barrier that read its commit: those before it are over, and all they
\* wrote is no later than that.
HasRead(b) == done[b] = "ok" \/ (running = b /\ phase \in {"committing", "committed"})

Passed(b) ==
    HasRead(b) =>
        \A j \in before[b] : /\ done[j] # "waiting"
                             /\ \A i \in Commits(j) : i <= read[b]

SInv ==
    /\ PInv /\ StoreTypeOK /\ Settles /\ ReturnedIsFolded
    /\ \A b \in Ordering : /\ Known(b) /\ Ahead(b) /\ Passed(b)
                           /\ caller[b] = "returned" => read[b] <= foldedRead

\* At first there is neither log nor caller.
LEMMA SInvInit == StoreInit => SInv
<1> SUFFICES ASSUME StoreInit PROVE SInv
    OBVIOUS
<1>1. PInv
    BY PInvInit DEF StoreInit
<1>2. log = <<>> /\ Len(log) = 0 /\ running = None /\ \A j \in Jobs : done[j] = "none"
    BY DEF StoreInit, Init
<1>3. /\ delivered = 0 /\ viewed = 0 /\ foldedRead = 0
      /\ levelUp = TRUE /\ readerUp = TRUE
      /\ caller = [j \in Awaited |-> "out"]
      /\ read = [j \in Ordering |-> 0]
      /\ before = [j \in Ordering |-> {}]
    BY DEF StoreInit
<1>4. StoreTypeOK
    BY <1>1, <1>2, <1>3 DEF StoreTypeOK, PInv
<1>5. Settles /\ ReturnedIsFolded
    BY <1>3 DEF Settles, ReturnedIsFolded
<1>6. ASSUME NEW b \in Ordering
      PROVE  /\ Known(b) /\ Ahead(b) /\ Passed(b)
             /\ caller[b] = "returned" => read[b] <= foldedRead
    BY <1>3 DEF Known, Ahead, Passed
<1> QED
    BY <1>1, <1>4, <1>5, <1>6 DEF SInv

\* What a step of the store does to the callers, and to the barriers.
LEMMA CallerStepCases ==
    ASSUME StoreTypeOK, [StoreNext]_allVars
    PROVE  /\ \A j \in Awaited :
                \/ caller'[j] = caller[j]
                \/ caller'[j] \in {"in", "failed"}
                \/ /\ caller[j] = "in" /\ caller'[j] = "settling"
                   /\ done[j] = "ok" /\ done' = done
                \/ /\ caller[j] = "settling" /\ caller'[j] = "returned"
                   /\ Level(j) >= Need(j) /\ UNCHANGED <<vars, levels, read>>
           /\ \A b \in Ordering :
                /\ \/ before'[b] = before[b]
                   \/ /\ Enqueue(b)
                      /\ before'[b] = {k \in Jobs : done[k] # "none"}
                /\ \/ read'[b] = read[b]
                   \/ /\ running = b /\ phase = "body" /\ BodyStep
                      /\ read'[b] = Len(log)
           /\ caller' \in
                [Awaited -> {"out", "in", "settling", "returned", "failed"}]
           /\ before' \in [Ordering -> SUBSET Jobs]
           /\ BodyStep \/ read' = read
<1>0. /\ caller \in [Awaited -> {"out", "in", "settling", "returned", "failed"}]
      /\ before \in [Ordering -> SUBSET Jobs] /\ Ordering \subseteq Awaited
      /\ read \in [Ordering -> 0..Len(log)]
    BY DEF StoreTypeOK
<1>1. ASSUME NEW j \in Jobs, Call(j)
      PROVE  /\ caller' = IF j \in Awaited THEN [caller EXCEPT ![j] = "in"] ELSE caller
             /\ before' = IF j \in Ordering
                          THEN [before EXCEPT ![j] = {k \in Jobs : done[k] # "none"}]
                          ELSE before
             /\ read' = read /\ Enqueue(j)
    BY <1>1 DEF Call
<1>2. CASE BodyRuns
  <2>1. /\ caller' = caller /\ before' = before /\ BodyStep
        /\ read' = IF running \in Ordering
                   THEN [read EXCEPT ![running] = Len(log)] ELSE read
      BY <1>2 DEF BodyRuns, CurrentCommit
  <2>2. phase = "body"
      BY <2>1 DEF BodyStep, Complete, BodyFails, Reenter
  <2> QED
      BY <1>0, <2>1, <2>2
<1>3. ASSUME NEW j \in Awaited, CallerStep(j)
      PROVE  /\ UNCHANGED <<vars, levels, read, before>>
             /\ \/ caller' = [caller EXCEPT ![j] = "failed"]
                \/ /\ caller[j] = "in" /\ done[j] = "ok"
                   /\ caller' = [caller EXCEPT ![j] = "settling"]
                \/ /\ caller[j] = "settling" /\ Level(j) >= Need(j)
                   /\ caller' = [caller EXCEPT ![j] = "returned"]
    BY <1>3 DEF CallerStep, Answered, Settled, SettleDies
<1>4. CASE \/ (ConsumerMoves \/ Drain \/ DrainStep) /\ UNCHANGED storeVars
           \/ Deliver \/ Fold \/ ReadFolded \/ Ends \/ UNCHANGED allVars
  <2>1. caller' = caller /\ before' = before /\ read' = read
      BY <1>4 DEF storeVars, allVars, Deliver, Fold, ReadFolded, Ends
  <2> QED
      BY <1>0, <2>1
<1>5. ASSUME NEW j \in Jobs, Call(j)
      PROVE  /\ \A k \in Awaited : caller'[k] = caller[k] \/ caller'[k] = "in"
             /\ \A b \in Ordering :
                  \/ before'[b] = before[b]
                  \/ /\ Enqueue(b)
                     /\ before'[b] = {k \in Jobs : done[k] # "none"}
             /\ caller' \in
                  [Awaited -> {"out", "in", "settling", "returned", "failed"}]
             /\ before' \in [Ordering -> SUBSET Jobs] /\ read' = read
    BY <1>0, <1>1, <1>5
<1>6. ASSUME NEW j \in Awaited, CallerStep(j)
      PROVE  /\ \A k \in Awaited :
                  \/ caller'[k] = caller[k]
                  \/ caller'[k] \in {"in", "failed"}
                  \/ /\ caller[k] = "in" /\ caller'[k] = "settling"
                     /\ done[k] = "ok" /\ done' = done
                  \/ /\ caller[k] = "settling" /\ caller'[k] = "returned"
                     /\ Level(k) >= Need(k) /\ UNCHANGED <<vars, levels, read>>
             /\ caller' \in
                  [Awaited -> {"out", "in", "settling", "returned", "failed"}]
             /\ before' = before /\ read' = read
  <2>1. done' = done
      BY <1>3, <1>6 DEF vars
  <2> QED
      BY <1>0, <1>3, <1>6, <2>1
<1>7. CASE \E j \in Jobs : Call(j)
    BY <1>5, <1>7
<1>8. CASE \E j \in Awaited : CallerStep(j)
    BY <1>0, <1>6, <1>8
<1> QED
    BY <1>2, <1>4, <1>7, <1>8 DEF StoreNext

\* The positions advance, within the log.
LEMMA LevelsGrow ==
    ASSUME PInv, StoreTypeOK, [StoreNext]_allVars
    PROVE  /\ {delivered, viewed, foldedRead} \subseteq Nat
           /\ delivered <= delivered' /\ viewed <= viewed' /\ foldedRead <= foldedRead'
           /\ {delivered', viewed', foldedRead'} \subseteq 0..Len(log')
           /\ {levelUp', readerUp'} \subseteq BOOLEAN
<1>0. /\ delivered \in 0..Len(log) /\ viewed \in 0..Len(log)
      /\ foldedRead \in 0..Len(log) /\ levelUp \in BOOLEAN /\ readerUp \in BOOLEAN
    BY DEF StoreTypeOK
<1>1. Len(log) \in Nat /\ Len(log') \in Nat /\ Len(log) <= Len(log')
  <2>1. CASE UNCHANGED log
      BY <2>1 DEF PInv, TypeOK
  <2>2. CASE ~ UNCHANGED log
    <3>1. Committed
        BY <2>2, StoreSteps DEF vars, Next, Enqueue, BodyStep, Complete, BodyFails,
           Reenter, ConsumerMoves, Take, CommitFails, Finish, ConsumerEnds, Drain,
           DrainStep, Joined, Deadline, Interrupt, RefuseRest
    <3>2. running \in Jobs
        BY <3>1 DEF PInv, Works, Committed, TypeOK
    <3> QED
        BY <3>2, StoreSteps, JobStep
  <2> QED
      BY <2>1, <2>2
<1>2. CASE Deliver
    BY <1>0, <1>1, <1>2 DEF Deliver, vars, ups
<1>3. CASE Fold
    BY <1>0, <1>1, <1>3 DEF Fold, vars, ups
<1>4. CASE ReadFolded
  <2>1. Cursor \in 0..Len(log) /\ foldedRead' \in (foldedRead + 1)..Cursor
        /\ UNCHANGED <<delivered, viewed, levelUp, readerUp, log>>
      BY <1>0, <1>4 DEF ReadFolded, Cursor, vars, ups
  <2> QED
      BY <1>0, <1>1, <2>1
<1>5. CASE Ends
  <2>1. UNCHANGED <<delivered, viewed, foldedRead>>
      BY <1>5 DEF Ends, levels
  <2>2. levelUp' \in BOOLEAN /\ readerUp' \in BOOLEAN
      BY <1>0, <1>5 DEF Ends
  <2> QED
      BY <1>0, <1>1, <2>1, <2>2
<1>6. CASE \/ \E j \in Jobs : Call(j)
           \/ BodyRuns \/ UNCHANGED allVars
           \/ (ConsumerMoves \/ Drain \/ DrainStep) /\ UNCHANGED storeVars
           \/ \E j \in Awaited : CallerStep(j)
  <2>1. UNCHANGED <<delivered, viewed, foldedRead, levelUp, readerUp>>
      BY <1>6 DEF Call, BodyRuns, storeVars, allVars, levels, ups, CallerStep,
                  Answered, Settled, SettleDies
  <2> QED
      BY <1>0, <1>1, <2>1
<1> QED
    BY <1>2, <1>3, <1>4, <1>5, <1>6 DEF StoreNext

\* The types hold of every step's outcome.
LEMMA StoreTypeStep ==
    ASSUME PInv, PInv', StoreTypeOK, [StoreNext]_allVars
    PROVE  StoreTypeOK'
<1>1. TypeOK'
    BY DEF PInv
<1>2. read' \in [Ordering -> 0..Len(log')]
  <2>1. /\ read \in [Ordering -> 0..Len(log)] /\ Len(log) \in Nat
        /\ Len(log') \in Nat
      BY <1>1 DEF StoreTypeOK, TypeOK
  <2>2. CASE read' = read
    <3>1. CASE Jobs = {}
        BY <2>1, <2>2, <3>1
    <3>2. CASE Jobs # {}
      <4>1. Len(log) <= Len(log')
          BY <3>2, StoreSteps, JobStep
      <4> QED
          BY <2>1, <2>2, <4>1
    <3> QED
        BY <3>1, <3>2
  <2>3. CASE BodyRuns
    <3>1. log' = log
        BY <2>3 DEF BodyRuns, BodyStep, Complete, BodyFails, Reenter
    <3> QED
        BY <2>1, <2>3, <3>1 DEF BodyRuns, CurrentCommit
  <2> QED
      BY <2>2, <2>3 DEF StoreNext, allVars, storeVars, Call, CallerStep, Answered,
                        Settled, SettleDies, Deliver, Fold, ReadFolded, Ends
<1> QED
    BY <1>1, <1>2, LevelsGrow, CallerStepCases DEF StoreTypeOK

\* Who goes on to settle was told of a commit, and is told nothing else.
LEMMA SettlesStep ==
    ASSUME PInv, StoreTypeOK, Settles, [StoreNext]_allVars
    PROVE  Settles'
<1> SUFFICES ASSUME NEW j \in Awaited, caller'[j] \in {"settling", "returned"}
             PROVE  done'[j] = "ok"
    BY DEF Settles
<1>1. j \in Jobs /\ (done[j] = "ok" => done'[j] = "ok")
    BY StoreSteps, JobStep
<1>2. \/ caller'[j] = caller[j]
      \/ caller[j] = "in" /\ caller'[j] = "settling" /\ done[j] = "ok"
      \/ caller[j] = "settling" /\ caller'[j] = "returned"
    BY CallerStepCases
<1> QED
    BY <1>1, <1>2 DEF Settles

\* A caller returns to a tail and a view that have its rows, and a job that
\* is over writes none.
LEMMA ReturnedStep ==
    ASSUME PInv, StoreTypeOK, Settles, ReturnedIsFolded, [StoreNext]_allVars
    PROVE  ReturnedIsFolded'
<1> SUFFICES ASSUME NEW j \in Awaited \ Ordering, caller'[j] = "returned",
                    NEW i \in Commits(j)'
             PROVE  i <= delivered' /\ i <= viewed'
    BY DEF ReturnedIsFolded
<1>1. /\ j \in Jobs /\ delivered \in Nat /\ viewed \in Nat
      /\ delivered' \in Nat /\ viewed' \in Nat
      /\ delivered <= delivered' /\ viewed <= viewed'
    BY LevelsGrow
<1>2. \/ caller[j] = "returned"
      \/ /\ caller[j] = "settling" /\ Level(j) >= Need(j)
         /\ UNCHANGED <<vars, levels, read>>
    BY CallerStepCases
<1>3. done[j] = "ok"
    BY <1>2 DEF Settles
<1>4. j # running
    BY <1>3 DEF PInv, Works
<1>5. i \in Commits(j) /\ Commits(j) \in SUBSET (0..Len(log)) /\ Len(log) \in Nat
  <2>1. Commits(j)' = Commits(j) /\ Len(log) \in Nat
      BY <1>1, <1>4, StoreSteps, JobStep
  <2>2. log \in Seq(Jobs)
      BY DEF PInv, TypeOK
  <2>3. Commits(j) \in SUBSET (0..Len(log))
      BY <2>1, <2>2 DEF Commits
  <2> QED
      BY <2>1, <2>3
<1>6. CASE caller[j] = "returned"
  <2>1. i <= delivered /\ i <= viewed
      BY <1>5, <1>6 DEF ReturnedIsFolded
  <2> QED
      BY <1>1, <1>5, <2>1
<1>7. CASE caller[j] = "settling" /\ Level(j) >= Need(j)
  <2>1. Max(Commits(j)) \in Commits(j) /\ i <= Max(Commits(j))
      BY <1>5, GreatestMember
  <2>2. Need(j) = Max(Commits(j)) /\ Level(j) = Cursor
      BY <1>5 DEF Need, Level
  <2>3. i <= Cursor
      BY <1>1, <1>5, <1>7, <2>1, <2>2 DEF Cursor
  <2>4. i <= delivered /\ i <= viewed
      BY <1>1, <1>5, <2>3 DEF Cursor
  <2> QED
      BY <1>1, <1>5, <2>4
<1> QED
    BY <1>2, <1>6, <1>7

\* Those before a barrier are those enqueued before it.
LEMMA KnownStep ==
    ASSUME PInv, StoreTypeOK, NEW b \in Ordering, Known(b), [StoreNext]_allVars
    PROVE  Known(b)'
<1> SUFFICES ASSUME NEW j \in before'[b]
             PROVE  j \in Jobs /\ j # b /\ done'[j] # "none"
    BY DEF Known
<1>1. CASE before'[b] = before[b]
  <2>1. j \in Jobs /\ j # b /\ done[j] # "none"
      BY <1>1 DEF Known
  <2> QED
      BY <2>1, StoreSteps, JobStep
<1>2. CASE Enqueue(b) /\ before'[b] = {k \in Jobs : done[k] # "none"}
  <2>1. j \in Jobs /\ done[j] # "none" /\ done[b] = "none"
      BY <1>2 DEF Enqueue
  <2> QED
      BY <2>1, StoreSteps, JobStep
<1> QED
    BY <1>1, <1>2, CallerStepCases

\* A barrier keeps its place behind those it waits for.
LEMMA AheadStep ==
    ASSUME PInv, StoreTypeOK, NEW b \in Ordering, Known(b), Ahead(b),
           [StoreNext]_allVars
    PROVE  Ahead(b)'
<1> SUFFICES ASSUME done'[b] = "waiting", NEW j \in before'[b],
                    done'[j] = "waiting"
             PROVE  \E k \in 1..Len(inbox') :
                      /\ inbox'[k] = b
                      /\ j = running' \/ \E i \in 1..(k - 1) : inbox'[i] = j
    BY DEF Ahead
<1>0. /\ TypeOK /\ Queued /\ Works /\ Waits /\ b \in Jobs /\ [Next]_vars
    BY StoreSteps DEF PInv
<1>1. CASE Enqueue(b)
  <2>1. /\ done' = [done EXCEPT ![b] = "waiting"] /\ inbox' = Append(inbox, b)
        /\ running' = running /\ done[b] = "none"
      BY <1>0, <1>1 DEF Enqueue, TypeOK
  <2>2. before'[b] = before[b] \/ before'[b] = {k \in Jobs : done[k] # "none"}
      BY CallerStepCases
  <2>3. j \in Jobs /\ j # b
      BY <2>1, <2>2 DEF Known
  <2>4. done[j] = "waiting"
      BY <1>0, <2>1, <2>3 DEF TypeOK
  <2>5. j = running \/ \E i \in 1..Len(inbox) : inbox[i] = j
      BY <1>0, <2>3, <2>4 DEF Waits
  <2>6. /\ Len(inbox) \in Nat /\ Len(inbox') = Len(inbox) + 1
        /\ inbox'[Len(inbox')] = b /\ \A i \in 1..Len(inbox) : inbox'[i] = inbox[i]
      BY <1>0, <2>1 DEF TypeOK
  <2>7. Len(inbox') \in 1..Len(inbox') /\ Len(inbox') - 1 = Len(inbox)
      BY <2>6
  <2> QED
      BY <2>1, <2>5, <2>6, <2>7
<1>2. CASE ~Enqueue(b)
  <2>1. before'[b] = before[b] /\ done[b] = "waiting"
      BY <1>0, <1>2, CallerStepCases, JobStep
  <2>2. j \in Jobs /\ j # b /\ done[j] # "none"
      BY <2>1 DEF Known
  <2>3. done[j] = "waiting"
      BY <1>0, <2>2, JobStep
  <2>4. PICK k \in 1..Len(inbox) :
          /\ inbox[k] = b
          /\ j = running \/ \E i \in 1..(k - 1) : inbox[i] = j
      BY <2>1, <2>3 DEF Ahead
  <2>5. ASSUME NEW c \in Jobs, Enqueue(c)
        PROVE  /\ running' = running /\ Len(inbox) \in Nat /\ Len(inbox) <= Len(inbox')
               /\ \A i \in 1..Len(inbox) : inbox'[i] = inbox[i]
    <3>1. inbox' = inbox \/ inbox' = Append(inbox, c)
        BY <2>5 DEF Enqueue
    <3> QED
        BY <1>0, <2>5, <3>1 DEF Enqueue, TypeOK
  <2>6. CASE \E c \in Jobs : Enqueue(c)
    <3>1. /\ running' = running /\ Len(inbox) \in Nat /\ Len(inbox) <= Len(inbox')
          /\ \A i \in 1..Len(inbox) : inbox'[i] = inbox[i]
        BY <2>5, <2>6
    <3>2. k \in 1..Len(inbox') /\ \A i \in 1..(k - 1) : i \in 1..Len(inbox)
        BY <1>0, <3>1 DEF TypeOK
    <3> QED
        BY <2>4, <3>1, <3>2
  <2>7. CASE Take
    <3>1. /\ running = None /\ running' = inbox[1] /\ inbox' = Tail(inbox)
        BY <1>0, <2>7 DEF Take, TypeOK
    <3>2. /\ Len(inbox) \in Nat /\ Len(inbox') = Len(inbox) - 1
          /\ \A i \in 1..Len(inbox') : inbox'[i] = inbox[i + 1]
        BY <1>0, <2>7, <3>1 DEF Take, TypeOK
    <3>3. PICK i \in 1..(k - 1) : inbox[i] = j
        BY <2>2, <2>4, <3>1
    <3>4. k - 1 \in 1..Len(inbox') /\ inbox'[k - 1] = b
        BY <2>4, <3>2, <3>3
    <3>5. CASE i = 1
        BY <3>1, <3>3, <3>4, <3>5
    <3>6. CASE i # 1
      <4>1. i - 1 \in 1..((k - 1) - 1) /\ i - 1 \in 1..Len(inbox')
            /\ (i - 1) + 1 = i
          BY <3>2, <3>3, <3>6
      <4>2. inbox'[i - 1] = j
          BY <3>2, <3>3, <4>1
      <4> QED
          BY <3>4, <4>1, <4>2
    <3> QED
        BY <3>5, <3>6
  <2>8. CASE Finish \/ Interrupt
    <3>1. inbox' = inbox /\ (running # None => done'[running] # "waiting")
        BY <1>0, <2>8 DEF Finish, ExitOf, Interrupt, CutAnswers, Works, TypeOK
    <3>2. j # running
        BY <2>2, <3>1
    <3> QED
        BY <2>4, <3>1, <3>2
  <2>9. CASE RefuseRest
    <3>1. b \in ToSet(inbox)
        BY <1>0, <2>4 DEF ToSet, TypeOK
    <3>2. done'[b] = "refused"
        BY <1>0, <2>9, <3>1 DEF RefuseRest, Refused
    <3> QED
        BY <3>2
  <2>10. CASE \/ BodyStep \/ Committed \/ CommitFails \/ ConsumerEnds \/ Drain
              \/ Joined \/ Deadline \/ UNCHANGED vars
    <3>1. inbox' = inbox /\ running' = running
        BY <2>10 DEF BodyStep, Complete, BodyFails, Reenter, Committed, CommitFails,
                     ConsumerEnds, Drain, Joined, Deadline, vars
    <3> QED
        BY <2>4, <3>1
  <2> QED
      BY <1>0, <2>6, <2>7, <2>8, <2>9, <2>10 DEF Next, ConsumerMoves, DrainStep
<1> QED
    BY <1>1, <1>2

\* A barrier reads the commit when all before it are over, and they stay so.
LEMMA PassedStep ==
    ASSUME PInv, StoreTypeOK, NEW b \in Ordering, Known(b), Ahead(b), Passed(b),
           [StoreNext]_allVars
    PROVE  Passed(b)'
<1>0. /\ TypeOK /\ Queued /\ Works /\ b \in Jobs /\ b # None /\ [Next]_vars
    BY StoreSteps DEF PInv
<1> SUFFICES ASSUME HasRead(b)', NEW j \in before'[b]
             PROVE  /\ done'[j] # "waiting"
                    /\ \A i \in Commits(j)' : i <= read'[b]
    BY DEF Passed
<1>1. CASE \/ HasRead(b)
           \/ running = b /\ phase = "body" /\ \E n \in {0} \cup Sizes : Complete(n)
  <2>1. done[b] # "none"
      BY <1>0, <1>1 DEF HasRead, Works
  <2>2. before'[b] = before[b]
      BY <2>1, CallerStepCases DEF Enqueue
  <2>3. j \in Jobs /\ j # b /\ done[j] # "none" /\ j # None
      BY <2>2 DEF Known
  <2>4. CASE HasRead(b)
    <3>1. done[j] # "waiting" /\ \A i \in Commits(j) : i <= read[b]
        BY <2>2, <2>4 DEF Passed
    <3>2. j # running
        BY <1>0, <2>3, <3>1 DEF Works
    <3>3. done'[j] # "waiting" /\ Commits(j)' = Commits(j)
        BY <1>0, <2>3, <3>1, <3>2, JobStep
    <3>4. read'[b] = read[b]
        BY <1>0, <2>4, CallerStepCases DEF HasRead, Works
    <3> QED
        BY <3>1, <3>3, <3>4
  <2>5. CASE running = b /\ phase = "body" /\ \E n \in {0} \cup Sizes : Complete(n)
    <3>1. done[b] = "waiting" /\ \A k \in 1..Len(inbox) : inbox[k] # b
        BY <1>0, <2>5 DEF Works, Queued
    <3>2. done[j] # "waiting"
        BY <2>2, <3>1 DEF Ahead
    <3>3. done' = done /\ log' = log /\ phase' = "committing"
        BY <2>5 DEF Complete
    <3>4. BodyRuns
        BY <2>5, <3>3 DEF StoreNext, allVars, vars, Call, Enqueue, ConsumerMoves, Take,
           Committed, CommitFails, Finish, ConsumerEnds, Idle, Drain, DrainStep,
           Joined, Deadline, Interrupt, RefuseRest, CallerStep, Answered, Settled,
           SettleDies, Deliver, Fold, ReadFolded, Ends
    <3>5. read'[b] = Len(log)
        BY <2>5, <3>4 DEF BodyRuns, CurrentCommit, StoreTypeOK
    <3>6. \A i \in Commits(j)' : i <= Len(log)
        BY <1>0, <3>3 DEF Commits, TypeOK
    <3> QED
        BY <3>2, <3>3, <3>5, <3>6
  <2> QED
      BY <1>1, <2>4, <2>5
<1>2. CASE ~HasRead(b)
  <2>1. running = b /\ phase = "body" /\ \E n \in {0} \cup Sizes : Complete(n)
    <3>1. done'[b] # "ok"
        BY <1>0, <1>2, JobStep DEF HasRead
    <3>2. running' = b /\ phase' \in {"committing", "committed"}
        BY <3>1 DEF HasRead
    <3>3. phase \notin {"committing", "committed"} \/ running # b
        BY <1>2 DEF HasRead
    <3> QED
        BY <1>0, <3>2, <3>3
        DEF Next, vars, Enqueue, BodyStep, Complete, BodyFails, Reenter, Reentry,
            ConsumerMoves, Take, Committed, CommitFails, Finish, ConsumerEnds, Idle,
            Drain, DrainStep, Joined, Deadline, Interrupt, RefuseRest, Works
  <2> QED
      BY <1>1, <2>1
<1> QED
    BY <1>1, <1>2

\* A barrier returns once the reader has run over what it read.
LEMMA BarrierStep ==
    ASSUME PInv, StoreTypeOK, Settles, NEW b \in Ordering,
           caller[b] = "returned" => read[b] <= foldedRead,
           [StoreNext]_allVars, caller'[b] = "returned"
    PROVE  read'[b] <= foldedRead'
<1>1. /\ b \in Awaited /\ foldedRead \in Nat /\ foldedRead' \in Nat
      /\ foldedRead <= foldedRead' /\ read[b] \in Nat
    BY LevelsGrow DEF StoreTypeOK
<1>2. \/ caller[b] = "returned"
      \/ caller[b] = "settling" /\ Level(b) >= Need(b) /\ read' = read
    BY <1>1, CallerStepCases
<1>3. done[b] = "ok" /\ running # b
    BY <1>1, <1>2 DEF Settles, PInv, Works
<1>4. read'[b] = read[b]
    BY <1>3, CallerStepCases
<1>5. Level(b) >= Need(b) => read[b] <= foldedRead
    BY <1>1 DEF Level, Need
<1> QED
    BY <1>1, <1>2, <1>4, <1>5

\* Every step keeps the store's invariant.
LEMMA SInvStep == SInv /\ [StoreNext]_allVars => SInv'
<1> SUFFICES ASSUME SInv, [StoreNext]_allVars PROVE SInv'
    OBVIOUS
<1>1. PInv /\ StoreTypeOK /\ Settles /\ ReturnedIsFolded
    BY DEF SInv
<1>2. PInv'
    BY <1>1, StoreSteps, PInvStep
<1>3. StoreTypeOK' /\ Settles' /\ ReturnedIsFolded'
    BY <1>1, <1>2, StoreTypeStep, SettlesStep, ReturnedStep
<1>4. ASSUME NEW b \in Ordering
      PROVE  /\ Known(b)' /\ Ahead(b)' /\ Passed(b)'
             /\ caller'[b] = "returned" => read'[b] <= foldedRead'
  <2>1. /\ Known(b) /\ Ahead(b) /\ Passed(b)
        /\ caller[b] = "returned" => read[b] <= foldedRead
      BY DEF SInv
  <2> QED
      BY <1>1, <2>1, KnownStep, AheadStep, PassedStep, BarrierStep
<1> QED
    BY <1>2, <1>3, <1>4 DEF SInv

\* In every reachable state.
LEMMA SInductive == StoreSpec => []SInv
BY SInvInit, SInvStep, PTL DEF StoreSpec

-----------------------------------------------------------------------------
(* The store's theorems *)

\* What the store holds is of its type, its positions within the log.
THEOREM StoreTyped == StoreSpec => []StoreTypeOK
<1>1. SInv => StoreTypeOK
    BY DEF SInv
<1> QED
    BY <1>1, SInductive, PTL

\* A transaction returns to a view that folded its rows, and a tail that
\* delivered them (sessionStore.ts transaction): all of a batch's.
THEOREM ReturnsAreFolded == StoreSpec => []ReturnedIsFolded
<1>1. SInv => ReturnedIsFolded
    BY DEF SInv
<1> QED
    BY <1>1, SInductive, PTL

\* When `settled` returns (sessionStore.ts), every job enqueued before it is
\* over, and the reader of the folded tail ran over all that they wrote.
THEOREM BarriersCover == StoreSpec => []SettledCoversEarlier
<1>1. SInv => SettledCoversEarlier
  <2> SUFFICES ASSUME SInv, NEW b \in Ordering, caller[b] = "returned",
                      NEW j \in before[b]
               PROVE  /\ done[j] # "waiting"
                      /\ \A i \in Commits(j) : i <= foldedRead
      BY DEF SettledCoversEarlier
  <2>1. b \in Awaited /\ done[b] = "ok" /\ read[b] <= foldedRead
      BY DEF SInv, Settles, StoreTypeOK
  <2>2. done[j] # "waiting" /\ \A i \in Commits(j) : i <= read[b]
      BY <2>1 DEF SInv, Passed, HasRead
  <2>3. read[b] \in Nat /\ foldedRead \in Nat /\ Commits(j) \subseteq Nat
      BY DEF SInv, PInv, StoreTypeOK, TypeOK, Commits
  <2> QED
      BY <2>1, <2>2, <2>3
<1> QED
    BY <1>1, SInductive, PTL

=============================================================================
