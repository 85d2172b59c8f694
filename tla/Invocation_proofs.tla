--------------------------- MODULE Invocation_proofs ---------------------------
(***************************************************************************)
(* What holds of Invocation for every number of retries, attempts and      *)
(* restarts.  The rows and the process's fold of them drift apart when a   *)
(* shutdown's stop marks the open attempt, so the argument relates the     *)
(* two (`Follows`), says what each program point knows of the rows         *)
(* (`Shape`), and counts what the next request may be billed to            *)
(* (`Budget`).                                                             *)
(***************************************************************************)
EXTENDS Invocation, TLAPS

(* What a history that folds looks like. *)
Foldable(i) ==
    /\ i.failed # "refused"
    /\ i.attempt = 0 => i = NoInvocation

(* A live process knows the open attempt, and counts no less against it.   *)
Follows ==
    pc # "down" =>
        /\ mine.attempt = inv.attempt
        /\ mine.accepted = inv.accepted
        /\ mine.failed = inv.failed
        /\ mine.closed => inv.closed
        /\ inv.spent <= mine.spent

(* What the rows hold at each point of the loop. *)
Shape ==
    /\ pc \in {"sent", "flight", "accepted"} =>
          Unknown(mine) /\ ~mine.accepted
    /\ pc \in {"observing", "reobserving", "cancelling", "retiring"} =>
          Unknown(mine) /\ mine.accepted
    /\ pc = "gate" => ~(Unknown(mine) /\ mine.accepted)
    /\ pc = "retiring" => remote # "running"
    /\ pc = "ended" => ~Unknown(mine)

(* The answer the process acts on is the rows' answer, and an open request *)
(* is the current attempt's.                                               *)
Answered ==
    /\ decision = "open" => inv.failed = "ask"
    /\ pc # "down" /\ heard = "retry" /\ mine.failed = "ask" =>
          decision = "retry"
    /\ pc = "gate" => decision # "open"

(* The request whose row is in and which has not left. *)
Pending == IF pc = "sent" THEN 1 ELSE 0

(* Every request that left, and the one about to, has its row. *)
Named == billed + Pending <= inv.attempt

Covered(n) ==
    n <= 1 + (IF inv.spent <= Retries THEN inv.spent ELSE Retries) + allowance

(* Another request is already paid for. *)
Paid == Covered(billed + 1)

(* What the attempts so far may cost, and what the next one would.         *)
Budget ==
    /\ Covered(billed + Pending)
    /\ inv.closed => Covered(billed + Pending + 1)
    /\ inv.failed = "unchain" => Paid
    /\ inv.failed = "ask" /\ decision = "retry" => Paid
    /\ inv.failed = "retry" => Paid \/ inv.spent < Retries
    /\ pc = "gate" =>
          \/ Paid
          \/ inv.spent < Retries /\ ~inv.closed /\ inv.failed # "unchain"
                /\ inv.attempt > 0

IInv ==
    /\ TypeOK
    /\ Foldable(inv) /\ Foldable(mine)
    /\ Follows
    /\ Shape
    /\ Answered
    /\ Named
    /\ Budget
-------------------------------------------------------------------------------
(* The fold, row by row. *)

(* The failures before the next attempt: the current one counts unless a   *)
(* clean close or a lost chain excuses it (`failuresBefore`).              *)
LEMMA CountedFields ==
    ASSUME NEW i \in Invocations
    PROVE  /\ Counted(i) \in Invocations
           /\ Counted(i).spent =
                 IF i.attempt = 0 \/ i.closed \/ i.failed = "unchain"
                 THEN i.spent ELSE i.spent + 1
  <1>1. CASE i.attempt = 0 \/ i.closed
    BY <1>1 DEF Counted
  <1>2. CASE ~(i.attempt = 0 \/ i.closed)
    <2>1. Counted(i) =
            [attempt |-> i.attempt, accepted |-> i.accepted,
             failed |-> i.failed, closed |-> i.closed,
             spent |-> IF i.failed = "unchain" THEN i.spent ELSE i.spent + 1,
             unchained |-> i.unchained \/ i.failed = "unchain",
             allowed |-> i.allowed \/ i.failed = "ask"]
      BY <1>2 DEF Counted, Invocations
    <2>2. i.spent + 1 \in Nat
      BY DEF Invocations
    <2>3. QED  BY <1>2, <2>1, <2>2 DEF Invocations
  <1>3. QED  BY <1>1, <1>2

(* An opened attempt starts afresh (`openedBy`).                           *)
LEMMA OpenedFields ==
    ASSUME NEW i \in Invocations, NEW f \in Nexts \union {"none"}
    PROVE  /\ Opened(i, f) \in Invocations
           /\ Opened(i, f).attempt = i.attempt + 1
           /\ ~Opened(i, f).accepted
           /\ Opened(i, f).failed = f
           /\ ~Opened(i, f).closed
           /\ Opened(i, f).spent =
                 IF i.attempt = 0 \/ i.closed \/ i.failed = "unchain"
                 THEN i.spent ELSE i.spent + 1
  <1> DEFINE c == Counted(i)
  <1>1. /\ c \in Invocations
        /\ c.spent = IF i.attempt = 0 \/ i.closed \/ i.failed = "unchain"
                     THEN i.spent ELSE i.spent + 1
    BY CountedFields
  <1>2. Opened(i, f) = [c EXCEPT !.attempt = i.attempt + 1, !.accepted = FALSE,
                                 !.failed = f, !.closed = FALSE]
    BY DEF Opened
  <1>3. i.attempt + 1 \in Nat
    BY DEF Invocations
  <1> HIDE DEF c
  <1>4. QED  BY <1>1, <1>2, <1>3 DEF Invocations, Nexts

(* An `attempt` row opens the next attempt. *)
LEMMA AfterAttempt ==
    ASSUME NEW i \in Invocations
    PROVE  InvocationAfter(i, Row("attempt", i.attempt + 1, "none"))
              = Opened(i, "none")
  BY DEF InvocationAfter, Row, Invocations

(* A `failed` row naming the next attempt opens it failed. *)
LEMMA AfterUnsent ==
    ASSUME NEW i \in Invocations, NEW n \in Nexts
    PROVE  InvocationAfter(i, Row("failed", i.attempt + 1, n)) = Opened(i, n)
  BY DEF InvocationAfter, Row, Invocations

(* A `failed` row of the open attempt records how it ended. *)
LEMMA AfterFailed ==
    ASSUME NEW i \in Invocations, NEW n \in Nexts, Unknown(i)
    PROVE  InvocationAfter(i, Row("failed", i.attempt, n))
              = [i EXCEPT !.failed = n]
  BY DEF InvocationAfter, Row, Invocations

(* The `accepted` row marks the open attempt as background work. *)
LEMMA AfterAccepted ==
    ASSUME NEW i \in Invocations, Unknown(i)
    PROVE  InvocationAfter(i, Row("accepted", i.attempt, "none"))
              = [i EXCEPT !.accepted = TRUE]
  BY DEF InvocationAfter, Row, Invocations

(* The `cancelled` row retires it. *)
LEMMA AfterCancelled ==
    ASSUME NEW i \in Invocations, Unknown(i), i.accepted
    PROVE  InvocationAfter(i, Row("cancelled", i.attempt, "none"))
              = [i EXCEPT !.accepted = FALSE]
  BY DEF InvocationAfter, Row, Invocations

(* The `response` row closes the invocation. *)
LEMMA AfterResponse ==
    ASSUME NEW i \in Invocations, Unknown(i)
    PROVE  InvocationAfter(i, Row("response", i.attempt, "none"))
              = NoInvocation
  BY DEF InvocationAfter, Row, Invocations

(* A new invocation holds nothing. *)
LEMMA NoInvocationFields ==
    /\ NoInvocation \in Invocations
    /\ NoInvocation.attempt = 0
    /\ NoInvocation.failed = "none"
    /\ ~NoInvocation.accepted
    /\ ~NoInvocation.closed
    /\ NoInvocation.spent = 0
  BY DEF NoInvocation, Invocations

-------------------------------------------------------------------------------
(* The steps that move both folds. *)

(* An `attempt` row moves both folds to the same fresh attempt, and counts *)
(* the one before it (`attemptOnce`).                                      *)
LEMMA AttemptMoves ==
    ASSUME IInv, AttemptRow
    PROVE  /\ inv' \in Invocations /\ mine' \in Invocations
           /\ inv'.attempt = inv.attempt + 1 /\ mine'.attempt = inv'.attempt
           /\ inv'.failed = "none" /\ mine'.failed = "none"
           /\ ~inv'.accepted /\ ~mine'.accepted
           /\ ~inv'.closed /\ ~mine'.closed
           /\ inv'.spent <= mine'.spent
           /\ inv'.spent =
                 IF inv.attempt = 0 \/ inv.closed \/ inv.failed = "unchain"
                 THEN inv.spent ELSE inv.spent + 1
  <1>1. inv \in Invocations /\ mine \in Invocations
    BY DEF IInv, TypeOK
  <1>2. pc = "gate" /\ mine.attempt = inv.attempt
    BY DEF IInv, Follows, AttemptRow
  <1>3. inv' = Opened(inv, "none") /\ mine' = Opened(mine, "none")
    BY <1>1, <1>2, AfterAttempt DEF AttemptRow, Append
  <1>4. /\ mine.failed = inv.failed
        /\ mine.closed => inv.closed
        /\ inv.spent <= mine.spent
    BY <1>2 DEF IInv, Follows
  <1>5. /\ mine'.spent =
              IF mine.attempt = 0 \/ mine.closed \/ mine.failed = "unchain"
              THEN mine.spent ELSE mine.spent + 1
        /\ inv'.spent =
              IF inv.attempt = 0 \/ inv.closed \/ inv.failed = "unchain"
              THEN inv.spent ELSE inv.spent + 1
    BY <1>1, <1>3, OpenedFields
  <1>6. inv'.spent <= mine'.spent
    BY <1>1, <1>2, <1>4, <1>5 DEF Invocations
  <1>7. QED  BY <1>1, <1>2, <1>3, <1>5, <1>6, OpenedFields

(* A `failed` row ends the same attempt in both folds; the failure counts  *)
(* that chose it are the process's, never below the rows'                  *)
(* (`recordFailure`).                                                      *)
LEMMA FailedMoves ==
    ASSUME inv \in Invocations, mine \in Invocations,
           mine.attempt = inv.attempt, mine.accepted = inv.accepted,
           mine.failed = inv.failed, mine.closed => inv.closed,
           inv.spent <= mine.spent,
           NEW n \in Nexts, NEW a,
           \/ a = mine.attempt + 1
           \/ a = mine.attempt /\ Unknown(mine),
           Append(Row("failed", a, n))
    PROVE  /\ inv' \in Invocations /\ mine' \in Invocations
           /\ inv'.attempt = a /\ mine'.attempt = a
           /\ inv'.attempt > 0 /\ inv.attempt <= inv'.attempt
           /\ inv'.failed = n /\ mine'.failed = n
           /\ mine'.accepted = inv'.accepted
           /\ mine'.closed => inv'.closed
           /\ inv'.spent <= mine'.spent
           /\ inv.spent <= inv'.spent
           /\ inv'.closed => inv.closed
           /\ mine'.spent = FailuresBefore(mine, a).spent
  <1>1. CASE a = mine.attempt + 1
    <2>1. inv' = Opened(inv, n) /\ mine' = Opened(mine, n)
      BY <1>1, AfterUnsent DEF Append
    <2>2. n \in Nexts \union {"none"}
      OBVIOUS
    <2>3. /\ mine'.spent =
                IF mine.attempt = 0 \/ mine.closed \/ mine.failed = "unchain"
                THEN mine.spent ELSE mine.spent + 1
          /\ inv'.spent =
                IF inv.attempt = 0 \/ inv.closed \/ inv.failed = "unchain"
                THEN inv.spent ELSE inv.spent + 1
      BY <2>1, <2>2, OpenedFields
    <2>4. inv'.spent <= mine'.spent /\ inv.spent <= inv'.spent
      BY <2>3 DEF Invocations
    <2>5. /\ inv' \in Invocations /\ mine' \in Invocations
          /\ inv'.attempt = a /\ mine'.attempt = a
          /\ inv'.failed = n /\ mine'.failed = n
          /\ ~mine'.accepted /\ ~inv'.accepted
          /\ ~mine'.closed /\ ~inv'.closed
      BY <1>1, <2>1, <2>2, OpenedFields
    <2>6. inv'.attempt > 0 /\ inv.attempt <= inv'.attempt
      BY <1>1, <2>5 DEF Invocations
    <2>7. mine'.spent = FailuresBefore(mine, a).spent
      BY <1>1, <2>3, CountedFields DEF FailuresBefore, Invocations
    <2>8. QED
      <3>1. mine'.accepted = inv'.accepted
        BY <2>5 DEF Invocations
      <3>2. QED  BY <2>4, <2>5, <2>6, <2>7, <3>1
  <1>2. CASE a = mine.attempt /\ Unknown(mine)
    <2>1. Unknown(inv)
      BY <1>2 DEF Unknown
    <2>2. /\ inv' = [inv EXCEPT !.failed = n]
          /\ mine' = [mine EXCEPT !.failed = n]
      BY <1>2, <2>1, AfterFailed DEF Append
    <2>3. inv' \in Invocations /\ mine' \in Invocations
      BY <2>2 DEF Invocations
    <2>4. FailuresBefore(mine, a) = mine
      BY <1>2 DEF FailuresBefore
    <2>5. QED  BY <1>2, <2>1, <2>2, <2>3, <2>4 DEF Invocations, Unknown
  <1>3. QED  BY <1>1, <1>2

(* The `accepted` row, the `response` row and the `cancelled` row fit both *)
(* folds (`submitAndObserve`, `finishAttempt`, `observeBackground`).       *)
LEMMA AcceptMoves ==
    ASSUME IInv, AcceptRow
    PROVE  /\ inv' \in Invocations /\ mine' \in Invocations
           /\ inv' = [inv EXCEPT !.accepted = TRUE]
           /\ mine' = [mine EXCEPT !.accepted = TRUE]
           /\ Unknown(inv) /\ Unknown(mine)
  <1>1. inv \in Invocations /\ mine \in Invocations
    BY DEF IInv, TypeOK
  <1>2. Unknown(mine) /\ Unknown(inv) /\ mine.attempt = inv.attempt
    BY DEF IInv, Follows, Shape, Unknown, AcceptRow
  <1>3. /\ inv' = [inv EXCEPT !.accepted = TRUE]
        /\ mine' = [mine EXCEPT !.accepted = TRUE]
    BY <1>1, <1>2, AfterAccepted DEF AcceptRow, Append
  <1>4. QED  BY <1>1, <1>2, <1>3 DEF Invocations

(* A response closes both. *)
LEMMA RespondMoves ==
    ASSUME IInv, Respond
    PROVE  inv' = NoInvocation /\ mine' = NoInvocation
  <1>1. inv \in Invocations /\ mine \in Invocations
    BY DEF IInv, TypeOK
  <1>2. Unknown(mine) /\ Unknown(inv) /\ mine.attempt = inv.attempt
    BY DEF IInv, Follows, Shape, Unknown, Respond
  <1>3. QED  BY <1>1, <1>2, AfterResponse DEF Respond, Append

(* A cancelled operation is retired in both, or in neither. *)
LEMMA RetireMoves ==
    ASSUME IInv, Retire
    PROVE  /\ inv' \in Invocations /\ mine' \in Invocations
           /\ Unknown(inv) /\ Unknown(mine)
           /\ \/ /\ inv' = [inv EXCEPT !.accepted = FALSE]
                 /\ mine' = [mine EXCEPT !.accepted = FALSE]
              \/ inv' = inv /\ mine' = mine
  <1>1. inv \in Invocations /\ mine \in Invocations
    BY DEF IInv, TypeOK
  <1>2. /\ Unknown(mine) /\ Unknown(inv) /\ mine.attempt = inv.attempt
        /\ mine.accepted /\ inv.accepted
    BY DEF IInv, Follows, Shape, Unknown, Retire
  <1>3. \/ /\ inv' = [inv EXCEPT !.accepted = FALSE]
           /\ mine' = [mine EXCEPT !.accepted = FALSE]
        \/ inv' = inv /\ mine' = mine
    BY <1>1, <1>2, AfterCancelled DEF Retire, Append
  <1>4. QED  BY <1>1, <1>2, <1>3 DEF Invocations

(* Every recorded failure, whichever way it came about: what the rows and  *)
(* the process hold after it, and what pays for the attempt it allows.     *)
LEMMA RecordMoves ==
    ASSUME IInv, Fail \/ RenewAndResend \/ Reask
    PROVE  /\ inv' \in Invocations /\ mine' \in Invocations
           /\ mine'.attempt = inv'.attempt
           /\ inv'.attempt > 0 /\ inv.attempt <= inv'.attempt
           /\ inv'.failed \in Nexts /\ mine'.failed = inv'.failed
           /\ mine'.accepted = inv'.accepted
           /\ mine'.closed => inv'.closed
           /\ inv'.spent <= mine'.spent
           /\ inv.spent <= inv'.spent
           /\ inv'.closed => inv.closed
           /\ pc \notin {"down", "sent"} /\ pc' \in {"idle", "ended"}
           /\ decision' \in Decisions /\ heard' = decision'
           /\ decision' # "none" => inv'.failed = "ask"
           /\ declined' \in BOOLEAN /\ chained' \in BOOLEAN
           /\ word' \in BOOLEAN /\ renewed' \in BOOLEAN
           /\ lifecycle' = lifecycle /\ restarts' = restarts
           /\ billed' = billed /\ admitted' = admitted
           /\ remote' = remote
           /\ allowance' \in {allowance, allowance + 1}
           /\ inv'.failed = "retry" =>
                 allowance' = allowance + 1 \/ mine'.spent < Retries
           /\ inv'.failed = "unchain" => allowance' = allowance + 1
           /\ decision' = "retry" => allowance' = allowance + 1
  <1>1. /\ inv \in Invocations /\ mine \in Invocations
        /\ declined \in BOOLEAN /\ chained \in BOOLEAN /\ word \in BOOLEAN
        /\ renewed \in BOOLEAN
    BY DEF IInv, TypeOK
  <1>2. pc \in Trying \union {"idle"}
    BY DEF Fail, RenewAndResend, Reask, Trying
  <1>3. /\ mine.attempt = inv.attempt /\ mine.accepted = inv.accepted
        /\ mine.failed = inv.failed
        /\ mine.closed => inv.closed
        /\ inv.spent <= mine.spent
    BY <1>2 DEF IInv, Follows, Trying
  <1>4. \E n \in Nexts, answer \in {"open", "deny", "retry"} :
           /\ Record(Failing, n, answer)
           /\ pc = "gate" \/ Unknown(mine)
           /\ renewed' \in BOOLEAN
           /\ allowance' \in {allowance, allowance + 1}
           /\ n = "retry" => \/ allowance' = allowance + 1
                             \/ FailuresBefore(mine, Failing).spent < Retries
           /\ n = "unchain" => allowance' = allowance + 1
           /\ n = "ask" /\ answer = "retry" => allowance' = allowance + 1
    <2>1. CASE Fail
      <3>1. pc \in Trying /\ renewed' = renewed
        BY <2>1 DEF Fail
      <3>2. pc = "gate" \/ Unknown(mine)
        BY <3>1 DEF IInv, Shape, Trying
      <3>3. PICK verdict \in Verdicts :
              LET next == FailedNext(FailuresBefore(mine, Failing), verdict)
              IN \E answer \in Answers(verdict) :
                    /\ Record(Failing, next, answer)
                    /\ allowance' =
                          IF next = "unchain"
                             \/ (next = "ask" /\ answer = "retry")
                          THEN allowance + 1 ELSE allowance
        BY <2>1 DEF Fail
      <3> DEFINE next == FailedNext(FailuresBefore(mine, Failing), verdict)
      <3>4. /\ next \in Nexts
            /\ next = "retry" => FailuresBefore(mine, Failing).spent < Retries
        BY DEF FailedNext, Nexts
      <3>5. Answers(verdict) \subseteq {"open", "deny", "retry"}
        BY DEF Answers
      <3> HIDE DEF next
      <3>6. PICK answer \in Answers(verdict) :
              /\ Record(Failing, next, answer)
              /\ allowance' =
                    IF next = "unchain" \/ (next = "ask" /\ answer = "retry")
                    THEN allowance + 1 ELSE allowance
        BY <3>3 DEF next
      <3>7. renewed' \in BOOLEAN
        BY <1>1, <3>1
      <3>8. /\ allowance' \in {allowance, allowance + 1}
            /\ next = "unchain" => allowance' = allowance + 1
            /\ next = "ask" /\ answer = "retry" => allowance' = allowance + 1
        BY <3>6
      <3>9. answer \in {"open", "deny", "retry"}
        BY <3>5
      <3>10. QED  BY <3>2, <3>4, <3>6, <3>7, <3>8, <3>9, Zenon
    <2>2. CASE RenewAndResend
      <3>1. pc \in Trying /\ Record(Failing, "retry", "open")
            /\ renewed' = TRUE /\ allowance' = allowance + 1
        BY <2>2 DEF RenewAndResend
      <3>2. pc = "gate" \/ Unknown(mine)
        BY <3>1 DEF IInv, Shape, Trying
      <3>3. QED  BY <3>1, <3>2 DEF Nexts
    <2>3. CASE Reask
      <3>1. PICK answer \in {"open", "deny"} :
              Record(mine.attempt, "ask", answer)
        BY <2>3 DEF Reask
      <3>2. Failing = mine.attempt
        BY <2>3 DEF Reask, Failing
      <3>3. /\ Unknown(mine) /\ renewed' = renewed /\ allowance' = allowance
        BY <2>3 DEF Reask
      <3>4. renewed' \in BOOLEAN
        BY <1>1, <3>3
      <3>5. /\ answer \in {"open", "deny", "retry"} /\ answer # "retry"
            /\ "ask" \in Nexts
            /\ allowance' \in {allowance, allowance + 1}
        BY <3>3 DEF Nexts
      <3>6. Record(Failing, "ask", answer)
        BY <3>1, <3>2
      <3>7. QED  BY <3>3, <3>4, <3>5, <3>6
    <2>4. QED  BY <2>1, <2>2, <2>3
  <1>5. PICK n \in Nexts, answer \in {"open", "deny", "retry"} :
           /\ Record(Failing, n, answer)
           /\ pc = "gate" \/ Unknown(mine)
           /\ renewed' \in BOOLEAN
           /\ allowance' \in {allowance, allowance + 1}
           /\ n = "retry" => \/ allowance' = allowance + 1
                             \/ FailuresBefore(mine, Failing).spent < Retries
           /\ n = "unchain" => allowance' = allowance + 1
           /\ n = "ask" /\ answer = "retry" => allowance' = allowance + 1
    BY <1>4
  <1>6. Append(Row("failed", Failing, n))
    BY <1>5 DEF Record
  <1>7. \/ Failing = mine.attempt + 1
        \/ Failing = mine.attempt /\ Unknown(mine)
    BY <1>5 DEF Failing
  <1>8. /\ inv' \in Invocations /\ mine' \in Invocations
        /\ inv'.attempt = Failing /\ mine'.attempt = Failing
        /\ inv'.attempt > 0 /\ inv.attempt <= inv'.attempt
        /\ inv'.failed = n /\ mine'.failed = n
        /\ mine'.accepted = inv'.accepted
        /\ mine'.closed => inv'.closed
        /\ inv'.spent <= mine'.spent
        /\ inv.spent <= inv'.spent
        /\ inv'.closed => inv.closed
        /\ mine'.spent = FailuresBefore(mine, Failing).spent
    <2>1. PICK a \in Nat : a = Failing
      BY <1>1, <1>7 DEF Invocations
    <2>2. /\ Append(Row("failed", a, n))
          /\ a = mine.attempt + 1 \/ (a = mine.attempt /\ Unknown(mine))
      BY <1>6, <1>7, <2>1
    <2>3. /\ inv' \in Invocations /\ mine' \in Invocations
          /\ inv'.attempt = a /\ mine'.attempt = a
          /\ inv'.attempt > 0 /\ inv.attempt <= inv'.attempt
          /\ inv'.failed = n /\ mine'.failed = n
          /\ mine'.accepted = inv'.accepted
          /\ mine'.closed => inv'.closed
          /\ inv'.spent <= mine'.spent
          /\ inv.spent <= inv'.spent
          /\ inv'.closed => inv.closed
          /\ mine'.spent = FailuresBefore(mine, a).spent
      BY <1>1, <1>3, <2>2, FailedMoves
    <2>4. QED  BY <2>1, <2>3
  <1>9. /\ decision' = (IF n = "ask" THEN answer ELSE "none")
        /\ heard' = decision'
        /\ declined' = (declined \/ decision' = "retry")
        /\ chained' = (chained /\ n # "unchain")
        /\ remote' = remote
        /\ pc' \in {"idle", "ended"} /\ word' = FALSE
        /\ lifecycle' = lifecycle /\ restarts' = restarts
        /\ billed' = billed /\ admitted' = admitted
    BY <1>5 DEF Record
  <1>10. decision' \in Decisions
    BY <1>9 DEF Decisions
  <1>11. pc \notin {"down", "sent"}
    BY <1>2 DEF Trying
  <1>12. declined' \in BOOLEAN /\ chained' \in BOOLEAN /\ word' \in BOOLEAN
    BY <1>9
  <1>13. QED  BY <1>5, <1>8, <1>9, <1>10, <1>11, <1>12

-------------------------------------------------------------------------------
(* Every step preserves each part. *)

(* Every step keeps the types. *)
LEMMA TypeStep ==
    ASSUME IInv, Next
    PROVE  TypeOK'
  <1>1. TypeOK /\ Shape
    BY DEF IInv
  <1>2. CASE ToGate
    <2>1. inv' \in Invocations /\ mine' \in Invocations
      BY <1>2, <1>1
         DEF ToGate, rows, memory, ledger, TypeOK, Shape, Unknown, Invocations
    <2>2. /\ chained' \in BOOLEAN /\ declined' \in BOOLEAN
          /\ word' \in BOOLEAN /\ renewed' \in BOOLEAN
          /\ admitted' \in BOOLEAN
      BY <1>2, <1>1, Zenon
         DEF ToGate, rows, memory, ledger, TypeOK
    <2>3. /\ decision' \in Decisions /\ heard' \in Decisions
          /\ lifecycle' \in {"running", "user", "shutdown", "ended"}
          /\ pc' \in PCs
          /\ remote' \in {"none", "unrecorded", "running", "finished",
                         "cancelled"}
          /\ restarts' \in Nat /\ billed' \in Nat /\ allowance' \in Nat
      BY <1>2, <1>1
         DEF ToGate, rows, memory, ledger, TypeOK, PCs, Decisions
    <2>4. QED  BY <2>1, <2>2, <2>3 DEF TypeOK
  <1>3. CASE ToObserve
    BY <1>3, <1>1
       DEF ToObserve, rows, memory, ledger, TypeOK, PCs, Decisions, Shape,
           Unknown, Invocations
  <1>4. CASE ToAwait
    BY <1>4, <1>1
       DEF ToAwait, rows, memory, ledger, TypeOK, PCs, Decisions, Shape,
           Unknown, Invocations
  <1>5. CASE ToEnd
    BY <1>5, <1>1
       DEF ToEnd, rows, memory, ledger, TypeOK, PCs, Decisions, Shape,
           Unknown, Invocations
  <1>6. CASE AttemptRow
    BY <1>6, <1>1, AttemptMoves
       DEF AttemptRow, rows, memory, ledger, TypeOK, PCs, Decisions, Shape,
           Unknown, Invocations
  <1>7. CASE Send
    <2>1. inv' \in Invocations /\ mine' \in Invocations
      BY <1>7, <1>1
         DEF Send, rows, memory, ledger, TypeOK, Shape, Unknown, Invocations
    <2>2. /\ chained' \in BOOLEAN /\ declined' \in BOOLEAN
          /\ word' \in BOOLEAN /\ renewed' \in BOOLEAN
          /\ admitted' \in BOOLEAN
      BY <1>7, <1>1, Zenon
         DEF Send, rows, memory, ledger, TypeOK
    <2>3. /\ decision' \in Decisions /\ heard' \in Decisions
          /\ lifecycle' \in {"running", "user", "shutdown", "ended"}
          /\ pc' \in PCs
          /\ remote' \in {"none", "unrecorded", "running", "finished",
                         "cancelled"}
          /\ restarts' \in Nat /\ billed' \in Nat /\ allowance' \in Nat
      BY <1>7, <1>1
         DEF Send, rows, memory, ledger, TypeOK, PCs, Decisions
    <2>4. QED  BY <2>1, <2>2, <2>3 DEF TypeOK
  <1>8. CASE Accept
    BY <1>8, <1>1
       DEF Accept, rows, memory, ledger, TypeOK, PCs, Decisions, Shape,
           Unknown, Invocations
  <1>9. CASE AcceptRow
    <2>1. inv' \in Invocations /\ mine' \in Invocations
      BY <1>9, <1>1, AcceptMoves
         DEF AcceptRow, rows, memory, ledger, TypeOK, Shape, Unknown,
             Invocations
    <2>2. /\ chained' \in BOOLEAN /\ declined' \in BOOLEAN
          /\ word' \in BOOLEAN /\ renewed' \in BOOLEAN
          /\ admitted' \in BOOLEAN
      BY <1>9, <1>1, Zenon
         DEF AcceptRow, rows, memory, ledger, TypeOK
    <2>3. /\ decision' \in Decisions /\ heard' \in Decisions
          /\ lifecycle' \in {"running", "user", "shutdown", "ended"}
          /\ pc' \in PCs
          /\ remote' \in {"none", "unrecorded", "running", "finished",
                         "cancelled"}
          /\ restarts' \in Nat /\ billed' \in Nat /\ allowance' \in Nat
      BY <1>9, <1>1
         DEF AcceptRow, rows, memory, ledger, TypeOK, PCs, Decisions
    <2>4. QED  BY <2>1, <2>2, <2>3 DEF TypeOK
  <1>10. CASE Respond
    <2>1. inv' \in Invocations /\ mine' \in Invocations
      BY <1>10, <1>1, RespondMoves, NoInvocationFields
         DEF Respond, rows, memory, ledger, TypeOK, Shape, Unknown,
             Invocations
    <2>2. /\ chained' \in BOOLEAN /\ declined' \in BOOLEAN
          /\ word' \in BOOLEAN /\ renewed' \in BOOLEAN
          /\ admitted' \in BOOLEAN
      BY <1>10, <1>1, Zenon
         DEF Respond, rows, memory, ledger, TypeOK
    <2>3. /\ decision' \in Decisions /\ heard' \in Decisions
          /\ lifecycle' \in {"running", "user", "shutdown", "ended"}
          /\ pc' \in PCs
          /\ remote' \in {"none", "unrecorded", "running", "finished",
                         "cancelled"}
          /\ restarts' \in Nat /\ billed' \in Nat /\ allowance' \in Nat
      BY <1>10, <1>1
         DEF Respond, rows, memory, ledger, TypeOK, PCs, Decisions
    <2>4. QED  BY <2>1, <2>2, <2>3 DEF TypeOK
  <1>11. CASE RenewObservation
    BY <1>11, <1>1
       DEF RenewObservation, rows, memory, ledger, TypeOK, PCs, Decisions,
           Shape, Unknown, Invocations
  <1>12. CASE Hear
    BY <1>12, <1>1
       DEF Hear, rows, memory, ledger, TypeOK, PCs, Decisions, Shape, Unknown,
           Invocations
  <1>13. CASE CancelConfirmed
    BY <1>13, <1>1
       DEF CancelConfirmed, rows, memory, ledger, TypeOK, PCs, Decisions,
           Shape, Unknown, Invocations
  <1>14. CASE CancelUnconfirmed
    BY <1>14, <1>1
       DEF CancelUnconfirmed, rows, memory, ledger, TypeOK, PCs, Decisions,
           Shape, Unknown, Invocations
  <1>15. CASE Retire
    <2>1. inv' \in Invocations /\ mine' \in Invocations
      BY <1>15, <1>1, RetireMoves
         DEF Retire, rows, memory, ledger, TypeOK, Shape, Unknown, Invocations
    <2>2. /\ chained' \in BOOLEAN /\ declined' \in BOOLEAN
          /\ word' \in BOOLEAN /\ renewed' \in BOOLEAN
          /\ admitted' \in BOOLEAN
      BY <1>15, <1>1, Zenon
         DEF Retire, rows, memory, ledger, TypeOK
    <2>3. /\ decision' \in Decisions /\ heard' \in Decisions
          /\ lifecycle' \in {"running", "user", "shutdown", "ended"}
          /\ pc' \in PCs
          /\ remote' \in {"none", "unrecorded", "running", "finished",
                         "cancelled"}
          /\ restarts' \in Nat /\ billed' \in Nat /\ allowance' \in Nat
      BY <1>15, <1>1
         DEF Retire, rows, memory, ledger, TypeOK, PCs, Decisions
    <2>4. QED  BY <2>1, <2>2, <2>3 DEF TypeOK
  <1>16. CASE Leave
    <2>1. inv' \in Invocations /\ mine' \in Invocations
      BY <1>16, <1>1, NoInvocationFields
         DEF Leave, End, rows, memory, ledger, TypeOK, Shape, Unknown,
             Invocations
    <2>2. /\ chained' \in BOOLEAN /\ declined' \in BOOLEAN
          /\ word' \in BOOLEAN /\ renewed' \in BOOLEAN
          /\ admitted' \in BOOLEAN
      BY <1>16, <1>1, Zenon
         DEF Leave, End, rows, memory, ledger, TypeOK
    <2>3. /\ decision' \in Decisions /\ heard' \in Decisions
          /\ lifecycle' \in {"running", "user", "shutdown", "ended"}
          /\ pc' \in PCs
          /\ remote' \in {"none", "unrecorded", "running", "finished",
                         "cancelled"}
          /\ restarts' \in Nat /\ billed' \in Nat /\ allowance' \in Nat
      BY <1>16, <1>1
         DEF Leave, End, rows, memory, ledger, TypeOK, PCs, Decisions
    <2>4. QED  BY <2>1, <2>2, <2>3 DEF TypeOK
  <1>17. CASE RemoteFinishes
    BY <1>17, <1>1
       DEF RemoteFinishes, rows, memory, ledger, TypeOK, PCs, Decisions,
           Shape, Unknown, Invocations
  <1>18. CASE Decide
    <2>1. inv' \in Invocations /\ mine' \in Invocations
      BY <1>18, <1>1
         DEF Decide, rows, memory, ledger, TypeOK, Shape, Unknown, Invocations
    <2>2. /\ chained' \in BOOLEAN /\ declined' \in BOOLEAN
          /\ word' \in BOOLEAN /\ renewed' \in BOOLEAN
          /\ admitted' \in BOOLEAN
      BY <1>18, <1>1, Zenon
         DEF Decide, rows, memory, ledger, TypeOK
    <2>3. /\ decision' \in Decisions /\ heard' \in Decisions
          /\ lifecycle' \in {"running", "user", "shutdown", "ended"}
          /\ pc' \in PCs
          /\ remote' \in {"none", "unrecorded", "running", "finished",
                         "cancelled"}
          /\ restarts' \in Nat /\ billed' \in Nat /\ allowance' \in Nat
      <3>1. /\ allowance' = allowance + 1 \/ allowance' = allowance
            /\ decision' \in {"retry", "deny", "cancel"}
        BY <1>18, Zenon DEF Decide
      <3>2. /\ lifecycle' = lifecycle /\ pc' = pc /\ heard' = heard
            /\ remote' = remote /\ restarts' = restarts
            /\ billed' = billed
        BY <1>18 DEF Decide, memory
      <3>3. QED
        BY <1>1, <3>1, <3>2 DEF TypeOK, Decisions
    <2>4. QED  BY <2>1, <2>2, <2>3 DEF TypeOK
  <1>19. CASE NextTurn
    BY <1>19, <1>1, NoInvocationFields
       DEF NextTurn, rows, memory, ledger, TypeOK, PCs, Decisions, Shape,
           Unknown, Invocations
  <1>20. CASE StopRow
    <2>1. inv' \in Invocations /\ mine' \in Invocations
      <3>1. mine' = mine /\ (inv' = ClosedBy(inv) \/ inv' = inv)
        BY <1>20 DEF StopRow, memory
      <3>2. ClosedBy(inv) \in Invocations
        BY <1>1 DEF ClosedBy, TypeOK, Invocations
      <3>3. QED
        BY <1>1, <3>1, <3>2 DEF TypeOK
    <2>2. /\ chained' \in BOOLEAN /\ declined' \in BOOLEAN
          /\ word' \in BOOLEAN /\ renewed' \in BOOLEAN
          /\ admitted' \in BOOLEAN
      BY <1>20, <1>1, Zenon
         DEF StopRow, ClosedBy, Unknown, rows, memory, ledger, TypeOK
    <2>3. /\ decision' \in Decisions /\ heard' \in Decisions
          /\ lifecycle' \in {"running", "user", "shutdown", "ended"}
          /\ pc' \in PCs
          /\ remote' \in {"none", "unrecorded", "running", "finished",
                         "cancelled"}
          /\ restarts' \in Nat /\ billed' \in Nat /\ allowance' \in Nat
      BY <1>20, <1>1, StopReasonsAssumption
         DEF StopRow, ClosedBy, Unknown, rows, memory, ledger, TypeOK, PCs,
             Decisions
    <2>4. QED  BY <2>1, <2>2, <2>3 DEF TypeOK
  <1>21. CASE Interrupt
    <2>1. inv' \in Invocations /\ mine' \in Invocations
      BY <1>21, <1>1
         DEF Interrupt, rows, memory, ledger, TypeOK, Shape, Unknown,
             Invocations
    <2>2. /\ chained' \in BOOLEAN /\ declined' \in BOOLEAN
          /\ word' \in BOOLEAN /\ renewed' \in BOOLEAN
          /\ admitted' \in BOOLEAN
      BY <1>21, <1>1, Zenon
         DEF Interrupt, rows, memory, ledger, TypeOK
    <2>3. /\ decision' \in Decisions /\ heard' \in Decisions
          /\ lifecycle' \in {"running", "user", "shutdown", "ended"}
          /\ pc' \in PCs
          /\ remote' \in {"none", "unrecorded", "running", "finished",
                         "cancelled"}
          /\ restarts' \in Nat /\ billed' \in Nat /\ allowance' \in Nat
      BY <1>21, <1>1
         DEF Interrupt, rows, memory, ledger, TypeOK, PCs, Decisions
    <2>4. QED  BY <2>1, <2>2, <2>3 DEF TypeOK
  <1>22. CASE StopDown
    <2>1. inv' \in Invocations /\ mine' \in Invocations
      BY <1>22, <1>1, NoInvocationFields
         DEF StopDown, End, rows, memory, ledger, TypeOK, Shape, Unknown,
             Invocations
    <2>2. /\ chained' \in BOOLEAN /\ declined' \in BOOLEAN
          /\ word' \in BOOLEAN /\ renewed' \in BOOLEAN
          /\ admitted' \in BOOLEAN
      BY <1>22, <1>1, Zenon
         DEF StopDown, End, rows, memory, ledger, TypeOK
    <2>3. /\ decision' \in Decisions /\ heard' \in Decisions
          /\ lifecycle' \in {"running", "user", "shutdown", "ended"}
          /\ pc' \in PCs
          /\ remote' \in {"none", "unrecorded", "running", "finished",
                         "cancelled"}
          /\ restarts' \in Nat /\ billed' \in Nat /\ allowance' \in Nat
      BY <1>22, <1>1
         DEF StopDown, End, rows, memory, ledger, TypeOK, PCs, Decisions
    <2>4. QED  BY <2>1, <2>2, <2>3 DEF TypeOK
  <1>23. CASE Crash
    <2>1. inv' \in Invocations /\ mine' \in Invocations
      BY <1>23, <1>1, NoInvocationFields
         DEF Crash, rows, memory, ledger, TypeOK, Shape, Unknown, Invocations
    <2>2. /\ chained' \in BOOLEAN /\ declined' \in BOOLEAN
          /\ word' \in BOOLEAN /\ renewed' \in BOOLEAN
          /\ admitted' \in BOOLEAN
      BY <1>23, <1>1, Zenon
         DEF Crash, rows, memory, ledger, TypeOK
    <2>3. /\ decision' \in Decisions /\ heard' \in Decisions
          /\ lifecycle' \in {"running", "user", "shutdown", "ended"}
          /\ pc' \in PCs
          /\ remote' \in {"none", "unrecorded", "running", "finished",
                         "cancelled"}
          /\ restarts' \in Nat /\ billed' \in Nat /\ allowance' \in Nat
      BY <1>23, <1>1
         DEF Crash, rows, memory, ledger, TypeOK, PCs, Decisions
    <2>4. QED  BY <2>1, <2>2, <2>3 DEF TypeOK
  <1>24. CASE Activate
    BY <1>24, <1>1
       DEF Activate, rows, memory, ledger, TypeOK, PCs, Decisions, Shape,
           Unknown, Invocations
  <1>25. CASE Fail \/ RenewAndResend \/ Reask
    BY <1>25, <1>1, RecordMoves
       DEF TypeOK, PCs, Decisions, Shape, Unknown, Invocations
  <1>26. QED
    BY <1>2, <1>3, <1>4, <1>5, <1>6, <1>7, <1>8, <1>9, <1>10, <1>11, <1>12,
        <1>13, <1>14, <1>15, <1>16, <1>17, <1>18, <1>19, <1>20, <1>21, <1>22,
        <1>23, <1>24, <1>25
       DEF Next, Loop

(* The process's fold follows the rows through every step, and each point  *)
(* of the loop finds the attempt it counts on.                             *)
LEMMA FoldStep ==
    ASSUME IInv, Next
    PROVE  Foldable(inv)' /\ Foldable(mine)' /\ Follows' /\ Shape' /\ Answered'
  <1>1. /\ TypeOK
        /\ Foldable(inv) /\ Foldable(mine) /\ Follows /\ Shape /\ Answered
    BY DEF IInv
  <1>2. inv \in Invocations /\ mine \in Invocations
    BY DEF IInv, TypeOK
  <1>3. CASE ToGate
    <2>1. /\ pc = "idle" /\ pc' = "gate"
          /\ inv' = inv /\ mine' = mine /\ decision' = decision
          /\ heard' = heard /\ remote' = remote
      BY <1>3 DEF ToGate, rows
    <2>2. MaySend \/ Asked("retry")
      BY <1>3 DEF ToGate
    <2>3. ~(Unknown(mine) /\ mine.accepted)
      BY <1>1, <2>2 DEF MaySend, Asked, Unknown, Foldable, NoInvocation
    <2>4. decision # "open"
      BY <1>1, <2>1, <2>2
         DEF MaySend, Asked, Unknown, Foldable, Follows, Answered,
             NoInvocation
    <2>5. QED
      BY <1>1, <2>1, <2>3, <2>4 DEF Foldable, Follows, Shape, Answered,
                                    Unknown
  <1>4. CASE ToObserve
    BY <1>4, <1>1, <1>2
       DEF ToObserve, rows, memory, ledger, Foldable, Follows, Shape,
           Answered, Unknown, Invocations
  <1>5. CASE ToAwait
    BY <1>5, <1>1, <1>2
       DEF ToAwait, rows, memory, ledger, Foldable, Follows, Shape, Answered,
           Unknown, Invocations
  <1>6. CASE ToEnd
    BY <1>6, <1>1, <1>2
       DEF ToEnd, Asked, rows, memory, ledger, Foldable, Follows, Shape,
           Answered, Unknown, Invocations
  <1>7. CASE AttemptRow
    BY <1>7, <1>1, <1>2, AttemptMoves
       DEF AttemptRow, rows, memory, ledger, Foldable, Follows, Shape,
           Answered, Unknown, Invocations
  <1>8. CASE Send
    BY <1>8, <1>1, <1>2
       DEF Send, rows, memory, ledger, Foldable, Follows, Shape, Answered,
           Unknown, Invocations
  <1>9. CASE Accept
    BY <1>9, <1>1, <1>2
       DEF Accept, rows, memory, ledger, Foldable, Follows, Shape, Answered,
           Unknown, Invocations
  <1>10. CASE AcceptRow
    BY <1>10, <1>1, <1>2, AcceptMoves
       DEF AcceptRow, rows, memory, ledger, Foldable, Follows, Shape,
           Answered, Unknown, Invocations
  <1>11. CASE Respond
    <2>1. /\ inv' = NoInvocation /\ mine' = NoInvocation
          /\ pc' = "ended" /\ decision' = "none" /\ heard' = "none"
      BY <1>11, RespondMoves DEF Respond
    <2>2. QED
      BY <2>1, NoInvocationFields DEF Foldable, Follows, Shape, Answered,
                                      Unknown
  <1>12. CASE RenewObservation
    BY <1>12, <1>1, <1>2
       DEF RenewObservation, rows, memory, ledger, Foldable, Follows, Shape,
           Answered, Unknown, Invocations
  <1>13. CASE Hear
    BY <1>13, <1>1, <1>2
       DEF Hear, rows, memory, ledger, Foldable, Follows, Shape, Answered,
           Unknown, Invocations
  <1>14. CASE CancelConfirmed
    BY <1>14, <1>1, <1>2
       DEF CancelConfirmed, rows, memory, ledger, Foldable, Follows, Shape,
           Answered, Unknown, Invocations
  <1>15. CASE CancelUnconfirmed
    BY <1>15, <1>1, <1>2
       DEF CancelUnconfirmed, rows, memory, ledger, Foldable, Follows, Shape,
           Answered, Unknown, Invocations
  <1>16. CASE Retire
    BY <1>16, <1>1, <1>2, RetireMoves
       DEF Retire, rows, memory, ledger, Foldable, Follows, Shape, Answered,
           Unknown, Invocations
  <1>17. CASE Leave
    BY <1>17, <1>1, <1>2, NoInvocationFields
       DEF Leave, End, rows, memory, ledger, Foldable, Follows, Shape,
           Answered, Unknown, Invocations
  <1>18. CASE RemoteFinishes
    BY <1>18, <1>1, <1>2
       DEF RemoteFinishes, rows, memory, ledger, Foldable, Follows, Shape,
           Answered, Unknown, Invocations
  <1>19. CASE Decide
    BY <1>19, <1>1, <1>2
       DEF Decide, rows, memory, ledger, Foldable, Follows, Shape, Answered,
           Unknown, Invocations
  <1>20. CASE NextTurn
    BY <1>20, <1>1, <1>2, NoInvocationFields
       DEF NextTurn, rows, memory, ledger, Foldable, Follows, Shape, Answered,
           Unknown, Invocations
  <1>21. CASE StopRow
    BY <1>21, <1>1, <1>2
       DEF StopRow, ClosedBy, Unknown, rows, memory, ledger, Foldable,
           Follows, Shape, Answered, Unknown, Invocations
  <1>22. CASE Interrupt
    BY <1>22, <1>1, <1>2
       DEF Interrupt, rows, memory, ledger, Foldable, Follows, Shape,
           Answered, Unknown, Invocations
  <1>23. CASE StopDown
    BY <1>23, <1>1, <1>2, NoInvocationFields
       DEF StopDown, End, rows, memory, ledger, Foldable, Follows, Shape,
           Answered, Unknown, Invocations
  <1>24. CASE Crash
    BY <1>24, <1>1, <1>2, NoInvocationFields
       DEF Crash, rows, memory, ledger, Foldable, Follows, Shape, Answered,
           Unknown, Invocations
  <1>25. CASE Activate
    BY <1>25, <1>1, <1>2
       DEF Activate, rows, memory, ledger, Foldable, Follows, Shape, Answered,
           Unknown, Invocations
  <1>26. CASE Fail \/ RenewAndResend \/ Reask
    BY <1>26, <1>1, <1>2, RecordMoves
       DEF Nexts, Foldable, Follows, Shape, Answered, Unknown, Invocations
  <1>27. QED
    BY <1>3, <1>4, <1>5, <1>6, <1>7, <1>8, <1>9, <1>10, <1>11, <1>12, <1>13,
        <1>14, <1>15, <1>16, <1>17, <1>18, <1>19, <1>20, <1>21, <1>22, <1>23,
        <1>24, <1>25, <1>26
       DEF Next, Loop

(* No step sends a request without its row. *)
LEMMA RowsStep ==
    ASSUME IInv, Next
    PROVE  Named'
  <1>1. TypeOK /\ Foldable(inv) /\ Follows /\ Shape /\ Named
    BY DEF IInv
  <1>2. /\ inv \in Invocations /\ mine \in Invocations /\ billed \in Nat
        /\ inv' \in Invocations /\ mine' \in Invocations /\ billed' \in Nat
    BY TypeStep DEF IInv, TypeOK
  <1>3. CASE ToGate
    BY <1>3, <1>1, <1>2
       DEF ToGate, rows, memory, ledger, Named, Pending,
           Follows, Shape, Unknown, Invocations
  <1>4. CASE ToObserve
    BY <1>4, <1>1, <1>2
       DEF ToObserve, rows, memory, ledger, Named, Pending,
           Follows, Shape, Unknown, Invocations
  <1>5. CASE ToAwait
    BY <1>5, <1>1, <1>2
       DEF ToAwait, rows, memory, ledger, Named, Pending,
           Follows, Shape, Unknown, Invocations
  <1>6. CASE ToEnd
    BY <1>6, <1>1, <1>2
       DEF ToEnd, rows, memory, ledger, Named, Pending,
           Follows, Shape, Unknown, Invocations
  <1>7. CASE AttemptRow
    BY <1>7, <1>1, <1>2, AttemptMoves
       DEF AttemptRow, rows, memory, ledger, Named, Pending,
           Follows, Shape, Unknown, Invocations
  <1>8. CASE Send
    BY <1>8, <1>1, <1>2
       DEF Send, rows, memory, ledger, Named, Pending, Follows, Shape, Unknown, Invocations
  <1>9. CASE Accept
    BY <1>9, <1>1, <1>2
       DEF Accept, rows, memory, ledger, Named, Pending,
           Follows, Shape, Unknown, Invocations
  <1>10. CASE AcceptRow
    BY <1>10, <1>1, <1>2, AcceptMoves
       DEF AcceptRow, rows, memory, ledger, Named, Pending,
           Follows, Shape, Unknown, Invocations
  <1>11. CASE Respond
    BY <1>11, <1>1, <1>2, RespondMoves, NoInvocationFields
       DEF Respond, rows, memory, ledger, Named, Pending,
           Follows, Shape, Unknown, Invocations
  <1>12. CASE RenewObservation
    BY <1>12, <1>1, <1>2
       DEF RenewObservation, rows, memory, ledger, Named, Pending,
           Follows, Shape, Unknown, Invocations
  <1>13. CASE Hear
    BY <1>13, <1>1, <1>2
       DEF Hear, rows, memory, ledger, Named, Pending, Follows, Shape, Unknown, Invocations
  <1>14. CASE CancelConfirmed
    BY <1>14, <1>1, <1>2
       DEF CancelConfirmed, rows, memory, ledger, Named, Pending,
           Follows, Shape, Unknown, Invocations
  <1>15. CASE CancelUnconfirmed
    BY <1>15, <1>1, <1>2
       DEF CancelUnconfirmed, rows, memory, ledger, Named, Pending,
           Follows, Shape, Unknown, Invocations
  <1>16. CASE Retire
    BY <1>16, <1>1, <1>2, RetireMoves
       DEF Retire, rows, memory, ledger, Named, Pending,
           Follows, Shape, Unknown, Invocations
  <1>17. CASE Leave
    BY <1>17, <1>1, <1>2, NoInvocationFields
       DEF Leave, End, rows, memory, ledger, Named, Pending,
           Follows, Shape, Unknown, Invocations
  <1>18. CASE RemoteFinishes
    BY <1>18, <1>1, <1>2
       DEF RemoteFinishes, rows, memory, ledger, Named, Pending,
           Follows, Shape, Unknown, Invocations
  <1>19. CASE Decide
    BY <1>19, <1>1, <1>2
       DEF Decide, rows, memory, ledger, Named, Pending,
           Follows, Shape, Unknown, Invocations
  <1>20. CASE NextTurn
    BY <1>20, <1>1, <1>2, NoInvocationFields
       DEF NextTurn, rows, memory, ledger, Named, Pending,
           Follows, Shape, Unknown, Invocations
  <1>21. CASE StopRow
    BY <1>21, <1>1, <1>2
       DEF StopRow, ClosedBy, Unknown, rows, memory, ledger, Named, Pending,
           Follows, Shape, Unknown, Invocations
  <1>22. CASE Interrupt
    BY <1>22, <1>1, <1>2
       DEF Interrupt, rows, memory, ledger, Named, Pending,
           Follows, Shape, Unknown, Invocations
  <1>23. CASE StopDown
    BY <1>23, <1>1, <1>2, NoInvocationFields
       DEF StopDown, End, rows, memory, ledger, Named, Pending,
           Follows, Shape, Unknown, Invocations
  <1>24. CASE Crash
    BY <1>24, <1>1, <1>2, NoInvocationFields
       DEF Crash, rows, memory, ledger, Named, Pending,
           Follows, Shape, Unknown, Invocations
  <1>25. CASE Activate
    BY <1>25, <1>1, <1>2
       DEF Activate, rows, memory, ledger, Named, Pending,
           Follows, Shape, Unknown, Invocations
  <1>26. CASE Fail \/ RenewAndResend \/ Reask
    BY <1>26, <1>1, <1>2, RecordMoves
       DEF Named, Pending, Follows, Shape, Unknown,
           Invocations
  <1>27. QED
    BY <1>3, <1>4, <1>5, <1>6, <1>7, <1>8, <1>9, <1>10, <1>11, <1>12, <1>13,
        <1>14, <1>15, <1>16, <1>17, <1>18, <1>19, <1>20, <1>21, <1>22, <1>23,
        <1>24, <1>25, <1>26
       DEF Next, Loop

(* No step spends what nothing pays for. *)
LEMMA BudgetStep ==
    ASSUME IInv, Next
    PROVE  Budget'
  <1>1. /\ TypeOK /\ Foldable(inv) /\ Follows /\ Shape /\ Answered
        /\ Named /\ Budget
    BY DEF IInv
  <1>2. /\ inv \in Invocations /\ mine \in Invocations
        /\ billed \in Nat /\ allowance \in Nat
        /\ inv' \in Invocations /\ mine' \in Invocations
        /\ billed' \in Nat /\ allowance' \in Nat
    BY TypeStep DEF IInv, TypeOK
  <1>3. Retries \in Nat
    BY RetriesAssumption
  <1>4. CASE ToGate
    <2>1. /\ pc = "idle" /\ pc' = "gate"
          /\ inv' = inv /\ decision' = decision
          /\ billed' = billed /\ allowance' = allowance
      BY <1>4 DEF ToGate, rows, ledger
    <2> DEFINE counts == /\ inv.spent < Retries /\ ~inv.closed
                         /\ inv.failed # "unchain" /\ inv.attempt > 0
    <2>2. Paid \/ counts
      <3>1. /\ Covered(billed)
            /\ inv.closed => Paid
            /\ inv.failed = "unchain" => Paid
            /\ inv.failed = "ask" /\ decision = "retry" => Paid
            /\ inv.failed = "retry" => Paid \/ inv.spent < Retries
        BY <1>1, <1>2, <2>1 DEF Budget, Paid, Pending, Covered
      <3>2. CASE mine.attempt = 0
        <4>1. inv.attempt = 0 /\ billed = 0
          BY <1>1, <1>2, <2>1, <3>2 DEF Follows, Named, Pending, Invocations
        <4>2. QED
          BY <1>2, <1>3, <4>1 DEF Paid, Covered, Invocations
      <3>3. CASE inv.attempt > 0 /\ mine.failed \in {"retry", "unchain"}
        BY <1>1, <2>1, <3>1, <3>3 DEF Follows
      <3>4. CASE inv.attempt > 0 /\ Unknown(mine) /\ ~Spent
        <4>1. inv.spent < Retries /\ inv.failed = "none"
          BY <1>1, <1>2, <1>3, <2>1, <3>4
             DEF Follows, Spent, Unknown, Invocations
        <4>2. QED  BY <3>1, <3>4, <4>1
      <3>5. CASE Asked("retry")
        BY <1>1, <2>1, <3>1, <3>5 DEF Asked, Follows, Answered
      <3>6. mine.attempt = 0 \/ inv.attempt > 0
        BY <1>1, <1>2, <2>1 DEF Follows, Invocations
      <3>7. QED
        BY <1>4, <3>2, <3>3, <3>4, <3>5, <3>6 DEF ToGate, MaySend
    <2>3. QED
      BY <1>1, <1>2, <1>3, <2>1, <2>2 DEF Budget, Paid, Covered, Pending
  <1>5. CASE ToObserve
    BY <1>5, <1>1, <1>2, <1>3
       DEF ToObserve, rows, memory, ledger, Budget, Covered, Paid, Pending,
           Named, Follows, Unknown, Invocations
  <1>6. CASE ToAwait
    BY <1>6, <1>1, <1>2, <1>3
       DEF ToAwait, rows, memory, ledger, Budget, Covered, Paid, Pending,
           Named, Follows, Unknown, Invocations
  <1>7. CASE ToEnd
    BY <1>7, <1>1, <1>2, <1>3
       DEF ToEnd, rows, memory, ledger, Budget, Covered, Paid, Pending, Named,
           Follows, Unknown, Invocations
  <1>8. CASE AttemptRow
    BY <1>8, <1>1, <1>2, <1>3, AttemptMoves
       DEF AttemptRow, rows, memory, ledger, Budget, Covered, Paid, Pending,
           Named, Follows, Unknown, Invocations
  <1>9. CASE Send
    <2>1. /\ pc = "sent" /\ pc' = "flight"
          /\ inv' = inv /\ decision' = decision
          /\ billed' = billed + 1 /\ allowance' = allowance
      BY <1>9 DEF Send, rows
    <2>2. inv.failed = "none"
      BY <1>1, <2>1 DEF Follows, Shape, Unknown
    <2>3. Covered(billed + 1) /\ (inv.closed => Covered(billed + 2))
      BY <1>1, <1>2, <1>3, <2>1 DEF Budget, Pending, Covered, Invocations
    <2>4. QED
      BY <1>2, <1>3, <2>1, <2>2, <2>3 DEF Budget, Paid, Covered, Pending
  <1>10. CASE Accept
    BY <1>10, <1>1, <1>2, <1>3
       DEF Accept, rows, memory, ledger, Budget, Covered, Paid, Pending,
           Named, Follows, Unknown, Invocations
  <1>11. CASE AcceptRow
    BY <1>11, <1>1, <1>2, <1>3, AcceptMoves
       DEF AcceptRow, rows, memory, ledger, Budget, Covered, Paid, Pending,
           Named, Follows, Unknown, Invocations
  <1>12. CASE Respond
    BY <1>12, <1>1, <1>2, <1>3, RespondMoves, NoInvocationFields
       DEF Respond, rows, memory, ledger, Budget, Covered, Paid, Pending,
           Named, Follows, Unknown, Invocations
  <1>13. CASE RenewObservation
    BY <1>13, <1>1, <1>2, <1>3
       DEF RenewObservation, rows, memory, ledger, Budget, Covered, Paid,
           Pending, Named, Follows, Unknown, Invocations
  <1>14. CASE Hear
    BY <1>14, <1>1, <1>2, <1>3
       DEF Hear, rows, memory, ledger, Budget, Covered, Paid, Pending, Named,
           Follows, Unknown, Invocations
  <1>15. CASE CancelConfirmed
    BY <1>15, <1>1, <1>2, <1>3
       DEF CancelConfirmed, rows, memory, ledger, Budget, Covered, Paid,
           Pending, Named, Follows, Unknown, Invocations
  <1>16. CASE CancelUnconfirmed
    BY <1>16, <1>1, <1>2, <1>3
       DEF CancelUnconfirmed, rows, memory, ledger, Budget, Covered, Paid,
           Pending, Named, Follows, Unknown, Invocations
  <1>17. CASE Retire
    BY <1>17, <1>1, <1>2, <1>3, RetireMoves
       DEF Retire, rows, memory, ledger, Budget, Covered, Paid, Pending,
           Named, Follows, Unknown, Invocations
  <1>18. CASE Leave
    BY <1>18, <1>1, <1>2, <1>3, NoInvocationFields
       DEF Leave, End, rows, memory, ledger, Budget, Covered, Paid, Pending,
           Named, Follows, Unknown, Invocations
  <1>19. CASE RemoteFinishes
    BY <1>19, <1>1, <1>2, <1>3
       DEF RemoteFinishes, rows, memory, ledger, Budget, Covered, Paid,
           Pending, Named, Follows, Unknown, Invocations
  <1>20. CASE Decide
    <2>1. /\ inv' = inv /\ pc' = pc /\ billed' = billed
          /\ decision = "open"
      BY <1>20 DEF Decide, memory
    <2>2. inv.failed = "ask" /\ pc # "gate"
      BY <1>1, <2>1 DEF Answered
    <2>3. \/ decision' = "retry" /\ allowance' = allowance + 1
          \/ decision' \in {"deny", "cancel"} /\ allowance' = allowance
      BY <1>20, Zenon DEF Decide
    <2>4. pc # "sent"
      BY <1>1, <2>2 DEF Follows, Shape, Unknown
    <2>5. CASE decision' = "retry" /\ allowance' = allowance + 1
      BY <1>1, <1>2, <1>3, <2>1, <2>2, <2>4, <2>5
         DEF Budget, Paid, Covered, Pending, Invocations
    <2>6. CASE decision' \in {"deny", "cancel"} /\ allowance' = allowance
      BY <1>1, <1>2, <1>3, <2>1, <2>2, <2>4, <2>6
         DEF Budget, Paid, Covered, Pending, Invocations
    <2>7. QED  BY <2>3, <2>5, <2>6
  <1>21. CASE NextTurn
    BY <1>21, <1>1, <1>2, <1>3, NoInvocationFields
       DEF NextTurn, rows, memory, ledger, Budget, Covered, Paid, Pending,
           Named, Follows, Unknown, Invocations
  <1>22. CASE StopRow
    BY <1>22, <1>1, <1>2, <1>3
       DEF StopRow, ClosedBy, Unknown, rows, memory, ledger, Budget, Covered,
           Paid, Pending, Named, Follows, Unknown, Invocations
  <1>23. CASE Interrupt
    BY <1>23, <1>1, <1>2, <1>3
       DEF Interrupt, rows, memory, ledger, Budget, Covered, Paid, Pending,
           Named, Follows, Unknown, Invocations
  <1>24. CASE StopDown
    BY <1>24, <1>1, <1>2, <1>3, NoInvocationFields
       DEF StopDown, End, rows, memory, ledger, Budget, Covered, Paid,
           Pending, Named, Follows, Unknown, Invocations
  <1>25. CASE Crash
    BY <1>25, <1>1, <1>2, <1>3, NoInvocationFields
       DEF Crash, rows, memory, ledger, Budget, Covered, Paid, Pending, Named,
           Follows, Unknown, Invocations
  <1>26. CASE Activate
    BY <1>26, <1>1, <1>2, <1>3
       DEF Activate, rows, memory, ledger, Budget, Covered, Paid, Pending,
           Named, Follows, Unknown, Invocations
  <1>27. CASE Fail \/ RenewAndResend \/ Reask
    BY <1>27, <1>1, <1>2, <1>3, RecordMoves
       DEF Budget, Covered, Paid, Pending, Named, Follows, Unknown,
           Invocations
  <1>28. QED
    BY <1>4, <1>5, <1>6, <1>7, <1>8, <1>9, <1>10, <1>11, <1>12, <1>13, <1>14,
        <1>15, <1>16, <1>17, <1>18, <1>19, <1>20, <1>21, <1>22, <1>23, <1>24,
        <1>25, <1>26, <1>27
       DEF Next, Loop

-------------------------------------------------------------------------------
(* The theorems. *)

(* The program starts with nothing billed, open or asked. *)
LEMMA InvariantHoldsInitially == Init => IInv
  <1> SUFFICES ASSUME Init PROVE IInv
    OBVIOUS
  <1>1. TypeOK
    BY NoInvocationFields DEF Init, TypeOK, PCs, Decisions
  <1>2. Budget
    BY NoInvocationFields, RetriesAssumption
       DEF Init, Budget, Covered, Paid, Pending
  <1>3. QED
    BY <1>1, <1>2, NoInvocationFields
       DEF Init, IInv, Foldable, Follows, Shape, Answered, Named, Pending,
           Unknown

(* A step in which nothing moves keeps the invariant. *)
LEMMA InvariantStutters == ASSUME IInv, UNCHANGED vars PROVE IInv'
  BY DEF vars, IInv, TypeOK, Foldable, Follows, Shape, Answered, Named,
         Pending, Unknown, Budget, Covered, Paid

(* The rows, the process's fold of them and the bill agree in every        *)
(* reachable state, whatever crashes, stops, answers and resumes there     *)
(* were.                                                                   *)
THEOREM InvocationInvariant == Spec => []IInv
  <1>1. Init => IInv
    BY InvariantHoldsInitially
  <1>2. IInv /\ [Next]_vars => IInv'
    <2>1. ASSUME IInv, Next PROVE IInv'
      BY <2>1, TypeStep, FoldStep, RowsStep, BudgetStep DEF IInv
    <2>2. ASSUME IInv, UNCHANGED vars PROVE IInv'
      BY <2>2, InvariantStutters
    <2>3. QED  BY <2>1, <2>2
  <1>3. QED  BY <1>1, <1>2, PTL DEF Spec

(* Every variable keeps its type. *)
THEOREM InvocationTypeOK == Spec => []TypeOK
  BY InvocationInvariant, PTL DEF IInv

(* No process ever writes a row that a later one cannot fold: a history    *)
(* always loads.                                                           *)
THEOREM InvocationHistoryLoads == Spec => []HistoryLoads
  <1>1. IInv => HistoryLoads
    BY DEF IInv, Foldable, HistoryLoads, Refused, NoInvocation
  <1>2. QED  BY <1>1, InvocationInvariant, PTL

(* An invocation bills its first request, the automatic retries, and one   *)
(* request for each grant outside them, across any number of crashes,      *)
(* stops and resumes.                                                      *)
THEOREM InvocationBill == Spec => []BilledWithinBudget
  <1>1. IInv => BilledWithinBudget
    <2> SUFFICES ASSUME IInv PROVE BilledWithinBudget
      OBVIOUS
    <2>1. Covered(billed + Pending)
      BY DEF IInv, Budget
    <2>2. billed \in Nat /\ allowance \in Nat /\ inv.spent \in Nat
      BY DEF IInv, TypeOK, Invocations
    <2>3. QED
      BY <2>1, <2>2, RetriesAssumption
         DEF Covered, Pending, BilledWithinBudget
  <1>2. QED  BY <1>1, InvocationInvariant, PTL

(* Every request that left the process is named by a row of the history.   *)
THEOREM InvocationRowsNameBills == Spec => []RowsNameEveryBill
  <1>1. IInv => RowsNameEveryBill
    <2> SUFFICES ASSUME IInv PROVE RowsNameEveryBill
      OBVIOUS
    <2>1. billed + Pending <= inv.attempt
      BY DEF IInv, Named
    <2>2. billed \in Nat /\ inv.attempt \in Nat
      BY DEF IInv, TypeOK, Invocations
    <2>3. QED  BY <2>1, <2>2 DEF Pending, RowsNameEveryBill
  <1>2. QED  BY <1>1, InvocationInvariant, PTL

(* Recorded work that still runs leaves the rows' observation only by the  *)
(* failure of one: a confirmed cancel and an arrived turn find it done.    *)
LEMMA ObservationEnds ==
    ASSUME IInv, Next, remote = "running", Observable(inv), ~Observable(inv)'
    PROVE  /\ inv'.attempt = inv.attempt
           /\ \/ pc = "observing" /\ inv'.failed \in Nexts
              \/ pc = "reobserving" /\ inv'.failed \in {"ask", "stop"}
  <1>1. /\ inv \in Invocations /\ mine \in Invocations
        /\ Follows /\ Shape /\ inv' # inv
    BY DEF IInv, TypeOK, Observable, Unknown
  <1>2. pc # "down" => Unknown(mine) /\ mine.accepted
    BY <1>1 DEF Follows, Observable, Unknown
  <1>3. pc \notin {"gate", "sent", "flight", "accepted", "retiring", "ended"}
    BY <1>1, <1>2 DEF Shape
  <1>4. CASE \/ AttemptRow \/ AcceptRow \/ Respond \/ Retire \/ NextTurn
             \/ Reask
    BY <1>2, <1>3, <1>4 DEF AttemptRow, AcceptRow, Respond, Retire, NextTurn,
                            Reask
  <1>5. CASE StopRow
    <2>1. inv' = inv \/ inv' = [inv EXCEPT !.closed = TRUE]
      BY <1>5 DEF StopRow, ClosedBy
    <2>2. Observable(inv)'
      BY <1>1, <2>1 DEF Observable, Unknown, Invocations
    <2>3. QED  BY <2>2
  <1>6. CASE Fail \/ RenewAndResend
    <2>1. pc \in {"observing", "reobserving"} /\ Failing = mine.attempt
      BY <1>3, <1>6 DEF Fail, RenewAndResend, Trying, Failing
    <2>2. /\ inv'.failed \in Nexts
          /\ pc = "reobserving" => inv'.failed \in {"ask", "stop"}
          /\ inv'.attempt = inv.attempt
      <3>1. PICK n \in Nexts :
              /\ Append(Row("failed", Failing, n))
              /\ pc = "reobserving" => n \in {"ask", "stop"}
        <4>1. CASE Fail
          <5>1. PICK verdict \in Verdicts :
                  \E answer \in Answers(verdict) :
                     Record(Failing,
                            FailedNext(FailuresBefore(mine, Failing), verdict),
                            answer)
            BY <4>1 DEF Fail
          <5>2. FailedNext(FailuresBefore(mine, Failing), verdict) \in Nexts
            BY DEF FailedNext, Nexts
          <5>3. verdict # "gone"
            BY <2>1 DEF Verdicts
          <5>4. pc = "reobserving" =>
                  FailedNext(FailuresBefore(mine, Failing), verdict)
                     \in {"ask", "stop"}
            BY <5>3 DEF FailedNext
          <5>5. QED  BY <5>1, <5>2, <5>4 DEF Record
        <4>2. CASE RenewAndResend
          BY <4>2 DEF RenewAndResend, Record, Nexts
        <4>3. QED  BY <1>6, <4>1, <4>2
      <3>2. mine.attempt = inv.attempt /\ Unknown(inv)
        BY <1>1, <2>1 DEF Follows, Observable
      <3>3. inv' = [inv EXCEPT !.failed = n]
        BY <1>1, <2>1, <3>1, <3>2, AfterFailed DEF Append
      <3>4. inv'.failed = n /\ inv'.attempt = inv.attempt
        BY <1>1, <3>3 DEF Invocations
      <3>5. QED  BY <3>1, <3>4
    <2>3. QED  BY <2>1, <2>2
  <1>7. CASE \/ ToGate \/ ToObserve \/ ToAwait \/ ToEnd \/ Send \/ Accept
             \/ RenewObservation \/ Hear \/ CancelConfirmed
             \/ CancelUnconfirmed \/ Leave \/ RemoteFinishes \/ Decide
             \/ Interrupt \/ StopDown \/ Crash \/ Activate
    <2>1. inv' = inv
      BY <1>7 DEF ToGate, ToObserve, ToAwait, ToEnd, Send, Accept,
                  RenewObservation, Hear, CancelConfirmed, CancelUnconfirmed,
                  Leave, RemoteFinishes, Decide, Interrupt, StopDown, Crash,
                  Activate, End, rows
    <2>2. QED  BY <1>1, <2>1
  <1>8. QED  BY <1>4, <1>5, <1>6, <1>7 DEF Next, Loop

(* Background work the provider runs and the rows recorded is observed     *)
(* until an observation of it fails, and only the execution that submitted *)
(* it takes that for a failed send (`nextAttempt`, `moveAfter`).           *)
THEOREM InvocationObserves == Spec => RecordedWorkIsObserved
  <1>1. ASSUME IInv, Next, remote' = "running", remote # "running"
        PROVE  Observable(inv)'
    <2>1. AcceptRow
      <3>1. ASSUME Fail \/ RenewAndResend \/ Reask PROVE FALSE
        BY <1>1, <3>1, RecordMoves
      <3>2. QED
        BY <1>1, <3>1 DEF Next, Loop, ToGate, ToObserve, ToAwait, ToEnd,
           AttemptRow, Send, Accept, Respond, RenewObservation, Hear,
           CancelConfirmed, CancelUnconfirmed, Retire, Leave, RemoteFinishes,
           Decide, NextTurn, StopRow, Interrupt, StopDown, Crash, Activate, End
    <2>2. QED
      BY <1>1, <2>1, AcceptMoves DEF Observable, Unknown, Invocations
  <1>2. IInv /\ [Next]_vars =>
          [/\ remote' = "running" /\ remote # "running" => Observable(inv)'
           /\ remote = "running" /\ Observable(inv) /\ ~Observable(inv)' =>
                 /\ inv'.attempt = inv.attempt
                 /\ \/ pc = "observing" /\ inv'.failed \in Nexts
                    \/ pc = "reobserving" /\ inv'.failed \in {"ask", "stop"}
          ]_vars
    BY <1>1, ObservationEnds
  <1>3. QED
    BY <1>2, InvocationInvariant, PTL DEF Spec, RecordedWorkIsObserved

-------------------------------------------------------------------------------
(* A person is asked again.  The rows remember that a person allowed an    *)
(* attempt, by the failure they answered and then by the attempt after it, *)
(* and the process that resumes reads no less off them.                    *)

Remembered(i) == i.allowed \/ (i.failed = "ask" /\ ~i.closed)

Admission ==
    /\ admitted => Remembered(inv)
    /\ pc # "down" /\ inv.allowed => mine.allowed
    /\ pc = "gate" => ~(Unknown(mine) /\ mine.allowed)

(* What an opened attempt, and a failure recorded of the open one,         *)
(* remember.                                                               *)
LEMMA OpenedRemembers ==
    ASSUME NEW i \in Invocations, NEW f \in Nexts \union {"none"}
    PROVE  Opened(i, f).allowed
              = (i.allowed \/ (i.attempt # 0 /\ ~i.closed /\ i.failed = "ask"))
  <1> DEFINE c == Counted(i)
  <1>1. c.allowed
           = (i.allowed \/ (i.attempt # 0 /\ ~i.closed /\ i.failed = "ask"))
    <2>1. CASE i.attempt = 0 \/ i.closed
      BY <2>1 DEF Counted, Invocations
    <2>2. CASE ~(i.attempt = 0 \/ i.closed)
      BY <2>2 DEF Counted, Invocations
    <2>3. QED  BY <2>1, <2>2
  <1>2. c \in Invocations
    BY CountedFields
  <1>3. Opened(i, f) = [c EXCEPT !.attempt = i.attempt + 1, !.accepted = FALSE,
                                 !.failed = f, !.closed = FALSE]
    BY DEF Opened
  <1> HIDE DEF c
  <1>4. Opened(i, f).allowed = c.allowed
    BY <1>2, <1>3 DEF Invocations
  <1>5. QED  BY <1>1, <1>4

(* A recorded failure forgets no person's answer, and the process counts   *)
(* it where the rows do.                                                   *)
LEMMA RecordRemembers ==
    ASSUME IInv, Admission, Fail \/ RenewAndResend \/ Reask
    PROVE  /\ admitted => Remembered(inv')
           /\ inv'.allowed => mine'.allowed
  <1>1. inv \in Invocations /\ mine \in Invocations
    BY DEF IInv, TypeOK
  <1>2. pc \in Trying \union {"idle"}
    BY DEF Fail, RenewAndResend, Reask, Trying
  <1>3. /\ mine.attempt = inv.attempt /\ mine.failed = inv.failed
        /\ mine.closed => inv.closed
    BY <1>2 DEF IInv, Follows, Trying
  <1>4. /\ admitted => Remembered(inv)
        /\ inv.allowed => mine.allowed
    BY <1>2 DEF Admission, Trying
  <1>5. inv.failed = "ask" => inv.attempt # 0
    BY DEF IInv, Foldable, NoInvocation
  <1>6. pc = "gate" \/ Unknown(mine)
    <2>1. CASE Reask
      BY <2>1 DEF Reask
    <2>2. CASE Fail \/ RenewAndResend
      <3>1. pc \in Trying
        BY <2>2 DEF Fail, RenewAndResend
      <3>2. QED  BY <3>1 DEF IInv, Shape, Trying
    <2>3. QED  BY <2>1, <2>2
  <1>7. \E n \in Nexts : Append(Row("failed", Failing, n))
    <2>1. CASE Fail
      <3>1. PICK verdict \in Verdicts :
              \E answer \in Answers(verdict) :
                 Record(Failing,
                        FailedNext(FailuresBefore(mine, Failing), verdict),
                        answer)
        BY <2>1 DEF Fail
      <3>2. FailedNext(FailuresBefore(mine, Failing), verdict) \in Nexts
        BY DEF FailedNext, Nexts
      <3>3. QED  BY <3>1, <3>2 DEF Record
    <2>2. CASE RenewAndResend
      BY <2>2 DEF RenewAndResend, Record, Nexts
    <2>3. CASE Reask
      <3>1. Failing = mine.attempt
        BY <2>3 DEF Reask, Failing
      <3>2. QED  BY <2>3, <3>1 DEF Reask, Record, Nexts
    <2>4. QED  BY <2>1, <2>2, <2>3
  <1>8. PICK n \in Nexts : Append(Row("failed", Failing, n))
    BY <1>7
  <1>9. CASE pc = "gate"
    <2>1. inv' = Opened(inv, n) /\ mine' = Opened(mine, n)
      BY <1>1, <1>3, <1>8, <1>9, AfterUnsent DEF Append, Failing
    <2>2. n \in Nexts \union {"none"}
      OBVIOUS
    <2>3. /\ inv'.allowed = (inv.allowed \/ (inv.attempt # 0 /\ ~inv.closed
                                             /\ inv.failed = "ask"))
          /\ mine'.allowed = (mine.allowed \/ (mine.attempt # 0 /\ ~mine.closed
                                               /\ mine.failed = "ask"))
      BY <1>1, <2>1, <2>2, OpenedRemembers
    <2>4. QED  BY <1>3, <1>4, <1>5, <2>3 DEF Remembered
  <1>10. CASE pc # "gate"
    <2>1. Unknown(mine) /\ Unknown(inv) /\ Failing = mine.attempt
      BY <1>3, <1>6, <1>10 DEF Unknown, Failing
    <2>2. /\ inv' = [inv EXCEPT !.failed = n]
          /\ mine' = [mine EXCEPT !.failed = n]
      BY <1>1, <1>3, <1>8, <2>1, AfterFailed DEF Append
    <2>3. inv'.allowed = inv.allowed /\ mine'.allowed = mine.allowed
      BY <1>1, <2>2 DEF Invocations
    <2>4. QED  BY <1>4, <2>1, <2>3 DEF Remembered, Unknown
  <1>11. QED  BY <1>9, <1>10

(* Every step keeps what the rows and the process remember of the answer.  *)
LEMMA AdmissionStep ==
    ASSUME IInv, Admission, Next
    PROVE  Admission'
  <1>1. /\ inv \in Invocations /\ mine \in Invocations
        /\ Foldable(inv) /\ Follows /\ Shape /\ Answered
    BY DEF IInv, TypeOK
(* Most steps move neither fold nor what was admitted. *)
  <1>2. ASSUME UNCHANGED <<inv, admitted>>,
               pc' = "down" \/ (pc # "down" /\ mine' = mine),
               pc' # "gate" \/ pc = "gate"
        PROVE  Admission'
    BY <1>2 DEF Admission, Remembered, Unknown
  <1>3. CASE ToGate
    <2>1. /\ pc = "idle" /\ (MaySend \/ Asked("retry"))
          /\ UNCHANGED <<inv, mine, admitted>>
      BY <1>3 DEF ToGate, rows, ledger
    <2>2. ~(Unknown(mine) /\ mine.allowed)
      BY <2>1 DEF MaySend, Asked, Spent, Unknown
    <2>3. QED  BY <2>1, <2>2, <1>3 DEF ToGate, Admission, Remembered, Unknown
  <1>4. CASE ToObserve \/ ToAwait \/ ToEnd
    BY <1>2, <1>4 DEF ToObserve, ToAwait, ToEnd, rows, memory, ledger
  <1>5. CASE AttemptRow
    <2>1. inv' = Opened(inv, "none") /\ mine' = Opened(mine, "none")
      BY <1>1, <1>5, AfterAttempt DEF AttemptRow, Append, Follows
    <2>2. /\ inv'.allowed = (inv.allowed \/ (inv.attempt # 0 /\ ~inv.closed
                                             /\ inv.failed = "ask"))
          /\ mine'.allowed = (mine.allowed \/ (mine.attempt # 0 /\ ~mine.closed
                                               /\ mine.failed = "ask"))
      BY <1>1, <2>1, OpenedRemembers
    <2>3. /\ mine.attempt = inv.attempt /\ mine.failed = inv.failed
          /\ mine.closed => inv.closed
          /\ inv.failed = "ask" => inv.attempt # 0
      BY <1>1, <1>5 DEF AttemptRow, Follows, Foldable, NoInvocation
    <2>4. pc = "gate" /\ pc' = "sent" /\ admitted' = admitted
      BY <1>5 DEF AttemptRow, ledger
    <2>5. QED  BY <2>2, <2>3, <2>4 DEF Admission, Remembered
  <1>6. CASE Send \/ Accept \/ RenewObservation
    BY <1>2, <1>6, <1>1 DEF Send, Accept, RenewObservation, rows, memory,
                            ledger
  <1>7. CASE AcceptRow \/ Retire
    <2>1. /\ inv'.allowed = inv.allowed /\ inv'.failed = inv.failed
          /\ inv'.closed = inv.closed /\ mine'.allowed = mine.allowed
      <3>1. CASE AcceptRow
        BY <1>1, <3>1, AcceptMoves DEF Invocations
      <3>2. CASE Retire
        BY <1>1, <3>2, RetireMoves DEF Invocations
      <3>3. QED  BY <1>7, <3>1, <3>2
    <2>2. pc # "down" /\ pc' # "gate" /\ admitted' = admitted
      BY <1>7 DEF AcceptRow, Retire, ledger
    <2>3. QED  BY <2>1, <2>2 DEF Admission, Remembered
  <1>8. CASE Respond \/ NextTurn
    <2>1. inv' = mine' /\ admitted' = FALSE /\ pc' # "gate"
      <3>1. CASE Respond
        BY <3>1, RespondMoves DEF Respond
      <3>2. CASE NextTurn
        BY <3>2 DEF NextTurn
      <3>3. QED  BY <1>8, <3>1, <3>2
    <2>2. QED  BY <2>1 DEF Admission
  <1>9. CASE Fail \/ RenewAndResend \/ Reask
    <2>1. pc' # "gate" /\ admitted' = admitted
      BY <1>9, RecordMoves
    <2>2. QED  BY <1>9, <2>1, RecordRemembers DEF Admission, Remembered
  <1>10. CASE Hear \/ Activate
    <2>1. mine' = inv /\ inv' = inv /\ admitted' = admitted /\ pc' # "gate"
      BY <1>10 DEF Hear, Activate, rows, ledger
    <2>2. QED  BY <2>1 DEF Admission, Remembered
  <1>11. CASE CancelConfirmed \/ CancelUnconfirmed \/ RemoteFinishes
    BY <1>2, <1>11 DEF CancelConfirmed, CancelUnconfirmed, RemoteFinishes,
                       rows, memory, ledger, Admission, Remembered, Unknown
  <1>12. CASE Leave \/ StopDown \/ Crash
    BY <1>2, <1>12 DEF Leave, StopDown, End, Crash, rows, ledger
  <1>13. CASE Interrupt
    BY <1>2, <1>13 DEF Interrupt, rows, ledger
  <1>14. CASE Decide
    <2>1. UNCHANGED <<inv, mine, pc>> /\ decision = "open"
      BY <1>14 DEF Decide, memory
    <2>2. \/ admitted' = (admitted \/ (lifecycle = "running" /\ ~inv.closed))
          \/ admitted' = admitted
      BY <1>14 DEF Decide
    <2>3. admitted' => admitted \/ ~inv.closed
      BY <2>2
    <2>4. inv.failed = "ask"
      BY <1>1, <2>1 DEF Answered
    <2>5. QED  BY <2>1, <2>3, <2>4 DEF Admission, Remembered, Unknown
  <1>15. CASE StopRow
    <2>1. /\ inv' = inv \/ (Unknown(inv) /\ inv' = [inv EXCEPT !.closed = TRUE])
          /\ UNCHANGED <<mine, pc, admitted>> /\ pc # "down"
      BY <1>15 DEF StopRow, ClosedBy, memory
    <2>2. /\ inv'.allowed = inv.allowed
          /\ Remembered(inv) => Remembered(inv)'
      BY <1>1, <2>1 DEF Invocations, Remembered, Unknown
    <2>3. QED  BY <2>1, <2>2 DEF Admission, Unknown
  <1>16. QED
    BY <1>3, <1>4, <1>5, <1>6, <1>7, <1>8, <1>9, <1>10, <1>11, <1>12, <1>13,
       <1>14, <1>15
       DEF Next, Loop

(* A person who allowed an attempt is asked again before a request of      *)
(* unknown outcome is sent again, through any number of crashes, stops and *)
(* resumes (`nextAttempt`).                                                *)
THEOREM InvocationAsks == Spec => AskedBeforeResend
  <1>1. Init => Admission
    BY DEF Init, Admission, NoInvocation
  <1>2. IInv /\ Admission /\ [Next]_vars => Admission'
    <2>1. ASSUME IInv, Admission, Next PROVE Admission'
      BY <2>1, AdmissionStep
    <2>2. ASSUME Admission, UNCHANGED vars PROVE Admission'
      BY <2>2 DEF Admission, Remembered, Unknown, vars
    <2>3. QED  BY <2>1, <2>2
  <1>3. IInv /\ Admission =>
          [pc = "gate" /\ pc' = "sent" /\ admitted => ~Unknown(inv)]_vars
    <2> SUFFICES ASSUME IInv, Admission, pc = "gate", admitted, Unknown(inv)
                 PROVE  FALSE
      OBVIOUS
    <2>1. inv.allowed
      BY DEF Admission, Remembered, Unknown
    <2>2. mine.allowed /\ Unknown(mine)
      BY <2>1 DEF Admission, IInv, Follows, Unknown
    <2>3. QED  BY <2>2 DEF Admission
  <1>4. QED
    BY <1>1, <1>2, <1>3, InvocationInvariant, PTL DEF Spec, AskedBeforeResend

-------------------------------------------------------------------------------
(* The next move is always there.  A failure that asks has its retry       *)
(* request's row, written with it, so the process that reads the rows      *)
(* finds the decision, or that nobody decided yet.                         *)

Answerable ==
    /\ inv.failed = "ask" => decision # "none"
    /\ mine.failed = "ask" => heard # "none"

(* An attempt is asked about only by a `failed` row that says so.          *)
LEMMA OnlyFailedAsks ==
    ASSUME NEW i \in Invocations, NEW a,
           NEW k \in {"attempt", "accepted", "cancelled", "response"}
    PROVE  InvocationAfter(i, Row(k, a, "none")).failed # "ask"
  <1>1. Opened(i, "none").failed = "none"
    BY OpenedFields
  <1>2. QED
    BY <1>1 DEF InvocationAfter, Row, Unknown, Refused, NoInvocation,
                Invocations

(* A `failed` row asks only if it says so.                                 *)
LEMMA FailedAsks ==
    ASSUME NEW i \in Invocations, NEW a, NEW n \in Nexts, n # "ask"
    PROVE  InvocationAfter(i, Row("failed", a, n)).failed # "ask"
  <1>1. Opened(i, n).failed = n
    BY OpenedFields
  <1>2. QED
    BY <1>1 DEF InvocationAfter, Row, Unknown, Refused, NoInvocation,
                Invocations

(* A recorded failure that asks is recorded with an answer or none yet.    *)
LEMMA RecordAnswerable ==
    ASSUME inv \in Invocations, mine \in Invocations, NEW a,
           NEW n \in Nexts, NEW answer \in {"open", "deny", "retry"},
           Record(a, n, answer)
    PROVE  Answerable'
  <1>1. decision' = (IF n = "ask" THEN answer ELSE "none") /\ heard' = decision'
    BY DEF Record
  <1>2. /\ inv' = InvocationAfter(inv, Row("failed", a, n))
        /\ mine' = InvocationAfter(mine, Row("failed", a, n))
    BY DEF Record, Append
  <1>3. n # "ask" => inv'.failed # "ask" /\ mine'.failed # "ask"
    BY <1>2, FailedAsks
  <1>4. QED  BY <1>1, <1>3 DEF Answerable

(* Every step keeps the retry requests with what they are of.              *)
LEMMA AnswerableStep ==
    ASSUME IInv, Answerable, Next
    PROVE  Answerable'
  <1>1. inv \in Invocations /\ mine \in Invocations
    BY DEF IInv, TypeOK
  <1>2. ASSUME ToGate \/ ToObserve \/ ToAwait \/ ToEnd \/ Send \/ Accept
                 \/ RenewObservation \/ CancelConfirmed \/ CancelUnconfirmed
                 \/ RemoteFinishes \/ Interrupt
        PROVE  Answerable'
    <2>1. UNCHANGED <<inv, mine, decision, heard>>
      BY <1>2 DEF ToGate, ToObserve, ToAwait, ToEnd, Send, Accept,
                  RenewObservation, CancelConfirmed, CancelUnconfirmed,
                  RemoteFinishes, Interrupt, rows, memory
    <2>2. QED  BY <2>1 DEF Answerable
  <1>3. ASSUME AttemptRow \/ AcceptRow \/ Respond PROVE Answerable'
    <2>1. inv'.failed # "ask" /\ mine'.failed # "ask"
      BY <1>1, <1>3, OnlyFailedAsks DEF AttemptRow, AcceptRow, Respond, Append
    <2>2. QED  BY <2>1 DEF Answerable
  <1>4. ASSUME Retire PROVE Answerable'
    <2>1. CASE Append(Row("cancelled", mine.attempt, "none"))
      <3>1. inv'.failed # "ask" /\ mine'.failed # "ask"
        BY <1>1, <2>1, OnlyFailedAsks DEF Append
      <3>2. QED  BY <3>1 DEF Answerable
    <2>2. CASE UNCHANGED <<inv, mine>>
      BY <1>4, <2>2 DEF Retire, Answerable
    <2>3. QED  BY <1>4, <2>1, <2>2 DEF Retire
  <1>5. ASSUME Fail PROVE Answerable'
    <2>1. PICK verdict \in Verdicts :
             LET next == FailedNext(FailuresBefore(mine, Failing), verdict)
             IN \E answer \in Answers(verdict) : Record(Failing, next, answer)
      BY <1>5 DEF Fail
    <2>2. FailedNext(FailuresBefore(mine, Failing), verdict) \in Nexts
      BY DEF FailedNext, Nexts
    <2>3. Answers(verdict) \subseteq {"open", "deny", "retry"}
      BY DEF Answers
    <2>4. QED  BY <1>1, <2>1, <2>2, <2>3, RecordAnswerable
  <1>6. ASSUME RenewAndResend PROVE Answerable'
    BY <1>1, <1>6, RecordAnswerable DEF RenewAndResend, Nexts
  <1>7. ASSUME Reask PROVE Answerable'
    BY <1>1, <1>7, RecordAnswerable DEF Reask, Nexts
  <1>8. ASSUME Decide PROVE Answerable'
    BY <1>8 DEF Decide, memory, Answerable
  <1>9. ASSUME Hear \/ Activate PROVE Answerable'
    BY <1>9 DEF Hear, Activate, rows, Answerable
  <1>10. ASSUME NextTurn PROVE Answerable'
    BY <1>10, NoInvocationFields DEF NextTurn, Answerable
  <1>11. ASSUME StopRow PROVE Answerable'
    BY <1>1, <1>11 DEF StopRow, ClosedBy, memory, Invocations, Answerable
  <1>12. ASSUME Leave \/ StopDown PROVE Answerable'
    BY <1>12, NoInvocationFields DEF Leave, StopDown, End, Answerable
  <1>13. ASSUME Crash PROVE Answerable'
    BY <1>13, NoInvocationFields DEF Crash, rows, Answerable
  <1>14. QED
    BY <1>2, <1>3, <1>4, <1>5, <1>6, <1>7, <1>8, <1>9, <1>10, <1>11, <1>12,
       <1>13
       DEF Next, Loop

(* The process that drives the run reads one next move off its rows, and   *)
(* one only: it sends, observes, asks again, waits for a person, or ends   *)
(* (`nextAttempt`).                                                        *)
OneNextMove ==
    LET sends == MaySend \/ Asked("retry")
        observes == Unknown(mine) /\ mine.accepted
        reasks == Unknown(mine) /\ ~mine.accepted /\ Spent
        waits == Asked("open")
        ends == mine.failed = "stop" \/ Asked("deny") \/ Asked("cancel")
    IN pc = "idle" =>
          /\ sends \/ observes \/ reasks \/ waits \/ ends
          /\ sends => ~(observes \/ reasks \/ waits \/ ends)
          /\ observes => ~(reasks \/ waits \/ ends)
          /\ reasks => ~(waits \/ ends)
          /\ waits => ~ends

(* No history leaves the loop without a next move or with two, whatever    *)
(* crashes, stops and answers it went through.                             *)
THEOREM InvocationNeverStuck == Spec => []OneNextMove
  <1>1. Init => Answerable
    BY NoInvocationFields DEF Init, Answerable
  <1>2. IInv /\ Answerable /\ [Next]_vars => Answerable'
    <2>1. ASSUME IInv, Answerable, Next PROVE Answerable'
      BY <2>1, AnswerableStep
    <2>2. ASSUME Answerable, UNCHANGED vars PROVE Answerable'
      BY <2>2 DEF Answerable, vars
    <2>3. QED  BY <2>1, <2>2
  <1>3. IInv /\ Answerable => OneNextMove
    <2> SUFFICES ASSUME IInv, Answerable PROVE OneNextMove
      OBVIOUS
    <2>1. /\ mine.attempt \in Nat
          /\ mine.failed \in {"none", "retry", "unchain", "ask", "stop"}
          /\ mine.attempt = 0 => mine.failed = "none"
      BY NoInvocationFields
         DEF IInv, TypeOK, Foldable, Invocations, Nexts
    <2>2. heard \in Decisions /\ (mine.failed = "ask" => heard # "none")
      BY DEF IInv, TypeOK, Answerable
    <2>3. QED
      BY <2>1, <2>2 DEF OneNextMove, MaySend, Asked, Unknown, Decisions
  <1>4. QED
    BY <1>1, <1>2, <1>3, InvocationInvariant, PTL DEF Spec

===============================================================================
