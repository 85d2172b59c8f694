------------------------------ MODULE Invocation ------------------------------
(***************************************************************************)
(* One turn's model invocation (agent/runtime/ModelInvoker.ts), driven off *)
(* the rows of the run's history (shared/session/inFlight.ts).  The rows   *)
(* outlive the process: `inv` is what they fold to.  The process that      *)
(* drives the run holds its own fold of them, `mine`, which every append   *)
(* of its own moves with the rows and which rows it did not write (a stop, *)
(* a decision) leave behind until it reads the history again.              *)
(*                                                                         *)
(* A step is at most what the loop does between two suspensions.  An       *)
(* append is atomic and masked from interruption; a crash falls between    *)
(* any two steps, an interruption follows a stop's row after any delay.    *)
(* The list of earlier failures is kept as the three facts the code reads  *)
(* off it: how many spend a retry, whether one lost its chain, whether one *)
(* asked a person.                                                         *)
(***************************************************************************)
EXTENDS Naturals

CONSTANTS
    Retries,      \* the binding's `automaticRetries`
    Background,   \* whether the provider may accept a turn as background work
    StopReasons,  \* the stops explored, of "user" and "shutdown"
    MaxAttempts,  \* bound: a person allows a retry below this attempt only
    MaxRestarts   \* bound: how often the run is opened again

ASSUME RetriesAssumption == Retries \in Nat

ASSUME BackgroundAssumption == Background \in BOOLEAN

ASSUME StopReasonsAssumption == StopReasons \subseteq {"user", "shutdown"}

ASSUME BoundsAssumption == MaxAttempts \in Nat /\ MaxRestarts \in Nat

VARIABLES
    inv,        \* the invocation the rows fold to
    decision,   \* the rows' decision of the current attempt's retry request
    chained,    \* the rows hold a continuation the next request chains on
    declined,   \* the run moved off the plan whose quota is used up
    lifecycle,  \* the run's latest lifecycle row since it was activated
    pc,         \* where the process that drives the run is
    mine,       \* its fold of the rows
    heard,      \* the decision that fold holds
    word,       \* the send under way goes on a person's answer
    renewed,    \* `renewed`: this execution spent its one renewal
    remote,     \* the provider's background work for the last request sent
    restarts,   \* how often the run was opened again
    billed,     \* how many requests of the invocation reached the provider
    allowance,  \* sends granted outside the automatic retries
    admitted    \* a person allowed an attempt of it: no stop under way, and the
                \* failure they answered not left out for a clean close

rows == <<inv, decision, chained, declined, lifecycle>>
memory == <<mine, heard, word, renewed>>
ledger == <<billed, allowance, admitted>>
vars == <<inv, decision, chained, declined, lifecycle, pc, mine, heard, word,
          renewed, remote, restarts, billed, allowance, admitted>>

Nexts == {"retry", "unchain", "ask", "stop"}

Invocations ==
    [attempt: Nat,                                \* current.ref.attempt
     accepted: BOOLEAN,                           \* current.accepted # null
     failed: Nexts \union {"none", "refused"},    \* current.failed.next
     closed: BOOLEAN,                             \* current.closed
     spent: Nat,                                  \* spentRetries(earlier)
     unchained: BOOLEAN,                          \* some earlier `unchain`
     allowed: BOOLEAN]                            \* some earlier `ask`

NoInvocation ==
    [attempt |-> 0, accepted |-> FALSE, failed |-> "none", closed |-> FALSE,
     spent |-> 0, unchained |-> FALSE, allowed |-> FALSE]

\* What a history holding a row that cannot follow the others folds to.
Refused == [NoInvocation EXCEPT !.failed = "refused"]

-------------------------------------------------------------------------------
(* The fold. *)

Unknown(i) == i.attempt > 0 /\ i.failed = "none"

(* An attempt of unknown outcome that is forgotten. *)
BugCounted(i) ==
    IF i.attempt = 0 \/ i.closed \/ Unknown(i) THEN i
    ELSE [i EXCEPT !.spent = IF i.failed = "unchain" THEN @ ELSE @ + 1,
                   !.unchained = @ \/ i.failed = "unchain",
                   !.allowed = @ \/ i.failed = "ask"]

(* The failures before the attempt that follows `i`: its earlier ones and  *)
(* its own, unless a clean close stopped it.                               *)
Counted(i) ==
    IF i.attempt = 0 \/ i.closed THEN i
    ELSE [i EXCEPT !.spent = IF i.failed = "unchain" THEN @ ELSE @ + 1,
                   !.unchained = @ \/ i.failed = "unchain",
                   !.allowed = @ \/ i.failed = "ask"]

FailuresBefore(i, attempt) == IF attempt = i.attempt THEN i ELSE Counted(i)

(* The next attempt, opened by its own row ("none") or by the failure that *)
(* kept it from being sent.                                                *)
Opened(i, failed) ==
    [Counted(i) EXCEPT !.attempt = i.attempt + 1, !.accepted = FALSE,
                       !.failed = failed, !.closed = FALSE]

Row(kind, attempt, next) == [kind |-> kind, attempt |-> attempt, next |-> next]

InvocationAfter(i, row) ==
    CASE row.kind = "attempt" /\ row.attempt = i.attempt + 1 ->
            Opened(i, "none")
      [] row.kind = "failed" /\ row.attempt = i.attempt + 1 ->
            Opened(i, row.next)
      [] row.kind = "failed" /\ row.attempt = i.attempt /\ Unknown(i) ->
            [i EXCEPT !.failed = row.next]
      [] row.kind = "accepted" /\ row.attempt = i.attempt /\ Unknown(i) ->
            [i EXCEPT !.accepted = TRUE]
      [] row.kind = "cancelled" /\ row.attempt = i.attempt /\ Unknown(i)
            /\ i.accepted ->
            [i EXCEPT !.accepted = FALSE]
      [] row.kind = "response" /\ row.attempt = i.attempt /\ Unknown(i) ->
            NoInvocation
      [] OTHER -> Refused

(* A shutdown's `run.stop`: the open attempt was cut, and spends nothing.  *)
ClosedBy(i) == IF Unknown(i) THEN [i EXCEPT !.closed = TRUE] ELSE i

(* The process appends a row: the rows move, and its own fold with them.   *)
Append(row) ==
    /\ inv' = InvocationAfter(inv, row)
    /\ mine' = InvocationAfter(mine, row)

Init ==
    /\ inv = NoInvocation
    /\ decision = "none"
    /\ chained = FALSE
    /\ declined = FALSE
    /\ lifecycle = "running"
    /\ pc = "idle"
    /\ mine = NoInvocation
    /\ heard = "none"
    /\ word = FALSE
    /\ renewed = FALSE
    /\ remote = "none"
    /\ restarts = 0
    /\ billed = 0
    /\ allowance = 0
    /\ admitted = FALSE

-------------------------------------------------------------------------------
(* The next move, read off the rows (`nextAttempt`). *)

Asked(answer) == mine.failed = "ask" /\ heard = answer

Spent == mine.allowed \/ mine.spent >= Retries

(* An accepted operation submitted again. *)
BugMaySend ==
    \/ mine.attempt = 0
    \/ mine.failed \in {"retry", "unchain"}
    \/ Unknown(mine) /\ ~Spent

(* An attempt of unknown outcome sent again whatever was spent. *)
BugUnasked ==
    \/ mine.attempt = 0
    \/ mine.failed \in {"retry", "unchain"}
    \/ Unknown(mine) /\ ~mine.accepted

(* An attempt of unknown outcome nobody goes on from. *)
BugStuck == mine.attempt = 0 \/ mine.failed \in {"retry", "unchain"}

MaySend ==
    \/ mine.attempt = 0
    \/ mine.failed \in {"retry", "unchain"}
    \/ Unknown(mine) /\ ~mine.accepted /\ ~Spent

(* The next attempt goes to the route gate: unasked, or on the person's    *)
(* answer, which rebinds first.                                            *)
ToGate ==
    /\ pc = "idle"
    /\ \/ MaySend /\ word' = FALSE
       \/ Asked("retry") /\ word' = TRUE
    /\ pc' = "gate"
    /\ UNCHANGED <<rows, mine, heard, renewed, remote, restarts, ledger>>

(* The rows hold an accepted operation: it is observed. *)
ToObserve ==
    /\ pc = "idle"
    /\ Unknown(mine) /\ mine.accepted
    /\ pc' = "reobserving"
    /\ UNCHANGED <<rows, memory, remote, restarts, ledger>>

ToAwait ==
    /\ pc = "idle"
    /\ Asked("open")
    /\ pc' = "await"
    /\ UNCHANGED <<rows, memory, remote, restarts, ledger>>

(* The invocation ends failed or cancelled, as its rows say. *)
ToEnd ==
    /\ pc = "idle"
    /\ mine.failed = "stop" \/ Asked("deny") \/ Asked("cancel")
    /\ pc' = "ended"
    /\ UNCHANGED <<rows, memory, remote, restarts, ledger>>

(* An attempt ends as `failed`: the row, the retry request it asks with    *)
(* its decision where the policy or a quota fallback gives one, and the    *)
(* chain an `unchain` drops.  Nothing is cancelled at the provider: work   *)
(* it accepted runs on.                                                    *)
Record(attempt, next, answer) ==
    /\ Append(Row("failed", attempt, next))
    /\ decision' = IF next = "ask" THEN answer ELSE "none"
    /\ heard' = decision'
    /\ declined' = (declined \/ decision' = "retry")
    /\ chained' = (chained /\ next # "unchain")
    /\ pc' = IF next = "stop" THEN "ended" ELSE "idle"
    /\ word' = FALSE
    /\ UNCHANGED <<lifecycle, remote, restarts, billed, admitted>>

(* An attempt of unknown outcome, past the retries or once allowed by a    *)
(* person, is asked about again.                                           *)
Reask ==
    /\ pc = "idle"
    /\ Unknown(mine) /\ ~mine.accepted /\ Spent
    /\ \E answer \in {"open", "deny"} : Record(mine.attempt, "ask", answer)
    /\ UNCHANGED <<renewed, allowance>>

-------------------------------------------------------------------------------
(* One attempt. *)

(* Past the gate and prepared: the `attempt` row. *)
AttemptRow ==
    /\ pc = "gate"
    /\ Append(Row("attempt", mine.attempt + 1, "none"))
    /\ pc' = "sent"
    /\ UNCHANGED <<decision, chained, declined, lifecycle, heard, word, renewed,
                   remote, restarts, ledger>>

(* The request leaves the process. *)
Send ==
    /\ pc = "sent"
    /\ billed' = billed + 1
    /\ remote' = "none"
    /\ pc' = "flight"
    /\ word' = FALSE
    /\ UNCHANGED <<rows, mine, heard, renewed, restarts, allowance, admitted>>

(* The provider accepts the turn as background work. *)
Accept ==
    /\ pc = "flight"
    /\ Background
    /\ remote' = "unrecorded"
    /\ pc' = "accepted"
    /\ UNCHANGED <<rows, memory, restarts, ledger>>

AcceptRow ==
    /\ pc = "accepted"
    /\ Append(Row("accepted", mine.attempt, "none"))
    /\ remote' = IF remote = "unrecorded" THEN "running" ELSE remote
    /\ pc' = "observing"
    /\ UNCHANGED <<decision, chained, declined, lifecycle, heard, word, renewed,
                   restarts, ledger>>

(* The provider's work finishes, whoever observes it. *)
RemoteFinishes ==
    /\ remote \in {"unrecorded", "running"}
    /\ remote' = "finished"
    /\ UNCHANGED <<rows, pc, memory, restarts, ledger>>

(* The turn arrives whole: its `response` row closes the invocation. *)
Respond ==
    /\ \/ pc = "flight"
       \/ pc \in {"observing", "reobserving"} /\ remote = "finished"
    /\ Append(Row("response", mine.attempt, "none"))
    /\ chained' \in BOOLEAN
    /\ decision' = "none"
    /\ heard' = "none"
    /\ remote' = "none"
    /\ billed' = 0
    /\ allowance' = 0
    /\ admitted' = FALSE
    /\ pc' = "ended"
    /\ UNCHANGED <<declined, lifecycle, word, renewed, restarts>>

-------------------------------------------------------------------------------
(* The failures. *)

(* Where an attempt may fail: before its row (the next attempt's failure,  *)
(* unsent), in flight, or while it is observed.                            *)
Trying == {"gate", "flight", "observing", "reobserving"}

(* The failure of an attempt never sent, recorded on the one before it. *)
BugFailing == mine.attempt

Failing == IF pc = "gate" THEN mine.attempt + 1 ELSE mine.attempt

(* llm's verdicts.  A chain is lost only by a request that sent one; a     *)
(* rebind that fails, for a person's answer or a renewal, is fatal.        *)
Verdicts ==
    {"transient", "quota", "fatal"} \union
    IF pc = "flight" /\ chained THEN {"gone"} ELSE {}

(* A resumed observation that failed, taken for a failed send. *)
BugFailedNext(before, verdict) ==
    LET automatic == /\ verdict = "transient"
                     /\ before.spent < Retries
    IN CASE verdict = "gone" /\ ~before.unchained -> "unchain"
         [] automatic -> "retry"
         [] verdict \in {"transient", "quota"} /\ ~automatic -> "ask"
         [] OTHER -> "stop"

(* `failedNext` over `moveAfter`'s reading: a resumed observation that     *)
(* failed is never resent unasked.                                         *)
FailedNext(before, verdict) ==
    LET automatic == /\ verdict = "transient"
                     /\ pc # "reobserving"
                     /\ before.spent < Retries
    IN CASE verdict = "gone" /\ ~before.unchained -> "unchain"
         [] automatic -> "retry"
         [] verdict \in {"transient", "quota"} /\ ~automatic -> "ask"
         [] OTHER -> "stop"

(* What answers a retry request as it opens: nobody yet, the policy's      *)
(* denial, or the automatic fallback off a used-up plan, once per run.      *)
Answers(verdict) ==
    {"open", "deny"} \union
    IF verdict = "quota" /\ ~declined THEN {"retry"} ELSE {}

Fail ==
    /\ pc \in Trying
    /\ \E verdict \in Verdicts :
          LET next == FailedNext(FailuresBefore(mine, Failing), verdict)
          IN \E answer \in Answers(verdict) :
                /\ Record(Failing, next, answer)
                /\ allowance' =
                      IF next = "unchain" \/ (next = "ask" /\ answer = "retry")
                      THEN allowance + 1 ELSE allowance
    /\ UNCHANGED renewed

(* A rejected subscription token, renewed once per execution: the attempt  *)
(* is resent, whatever the retries say.                                    *)
RenewAndResend ==
    /\ pc \in Trying \ {"reobserving"}
    /\ ~renewed
    /\ renewed' = TRUE
    /\ Record(Failing, "retry", "open")
    /\ allowance' = allowance + 1

(* A resumed observation is repeated, unrecorded. *)
RenewObservation ==
    /\ pc = "reobserving"
    /\ ~renewed
    /\ renewed' = TRUE
    /\ UNCHANGED <<rows, pc, mine, heard, word, remote, restarts, ledger>>

-------------------------------------------------------------------------------
(* People, stops, ends and restarts. *)

(* A person answers the open retry request, whether or not a process waits *)
(* for it.                                                                 *)
Decide ==
    /\ decision = "open"
    /\ \/ /\ inv.attempt < MaxAttempts
          /\ decision' = "retry"
          /\ declined' \in {declined, TRUE}
          /\ allowance' = allowance + 1
          /\ admitted' = (admitted \/ (lifecycle = "running" /\ ~inv.closed))
       \/ /\ decision' \in {"deny", "cancel"}
          /\ UNCHANGED <<declined, allowance, admitted>>
    /\ UNCHANGED <<inv, chained, lifecycle, pc, memory, remote, restarts,
                   billed>>

(* The waiting loop sees the answer and reads the history again. *)
Hear ==
    /\ pc = "await"
    /\ decision # "open"
    /\ mine' = inv
    /\ heard' = decision
    /\ pc' = "idle"
    /\ UNCHANGED <<rows, word, renewed, remote, restarts, ledger>>

(* The next turn's input, or the compaction an overflow calls for, clears  *)
(* the ended invocation.                                                   *)
NextTurn ==
    /\ pc = "ended"
    /\ ~Asked("cancel")
    /\ inv' = NoInvocation
    /\ mine' = NoInvocation
    /\ decision' = "none"
    /\ heard' = "none"
    /\ chained' \in {chained, FALSE}
    /\ renewed' = FALSE
    /\ remote' = "none"
    /\ billed' = 0
    /\ allowance' = 0
    /\ admitted' = FALSE
    /\ pc' = "idle"
    /\ UNCHANGED <<declined, lifecycle, word, restarts>>

(* The first stop of the lifecycle commits its row; the run goes on until  *)
(* its interruption.                                                       *)
StopRow ==
    /\ pc # "down"
    /\ lifecycle = "running"
    /\ lifecycle' \in StopReasons
    /\ inv' = IF lifecycle' = "shutdown" THEN ClosedBy(inv) ELSE inv
    /\ allowance' = IF lifecycle' = "shutdown" /\ Unknown(inv)
                    THEN allowance + 1 ELSE allowance
    /\ UNCHANGED <<decision, chained, declined, pc, memory, remote, restarts,
                   billed, admitted>>

(* The stopped run's fiber is interrupted.  A person's stop of observed    *)
(* background work cancels it at the provider first.                       *)
Interrupt ==
    /\ lifecycle \in {"user", "shutdown"}
    /\ pc \notin {"down", "cancelling", "retiring", "leaving"}
    /\ pc' = IF pc \in {"observing", "reobserving"} /\ lifecycle = "user"
             THEN "cancelling" ELSE "leaving"
    /\ word' = FALSE
    /\ UNCHANGED <<rows, mine, heard, renewed, remote, restarts, ledger>>

CancelConfirmed ==
    /\ pc = "cancelling"
    /\ remote = "running"
    /\ remote' = "cancelled"
    /\ pc' = "retiring"
    /\ UNCHANGED <<rows, memory, restarts, ledger>>

CancelUnconfirmed ==
    /\ pc = "cancelling"
    /\ pc' = "leaving"
    /\ UNCHANGED <<rows, memory, remote, restarts, ledger>>

(* The `cancelled` row retires the operation, or was not written. *)
Retire ==
    /\ pc = "retiring"
    /\ \/ Append(Row("cancelled", mine.attempt, "none"))
       \/ UNCHANGED <<inv, mine>>
    /\ pc' = "leaving"
    /\ UNCHANGED <<decision, chained, declined, lifecycle, heard, word, renewed,
                   remote, restarts, ledger>>

(* The run's end: the requests it leaves open are cancelled with it. *)
End ==
    /\ lifecycle' = "ended"
    /\ decision' = IF decision = "open" THEN "cancel" ELSE decision
    /\ mine' = NoInvocation
    /\ heard' = "none"
    /\ pc' = "down"
    /\ renewed' = FALSE
    /\ UNCHANGED <<inv, chained, declined, word, remote, restarts, ledger>>

Leave == pc \in {"leaving", "ended"} /\ End

(* A person stops a run no process drives, left by a crash. *)
StopDown == pc = "down" /\ lifecycle # "ended" /\ End

Crash ==
    /\ pc # "down"
    /\ pc' = "down"
    /\ mine' = NoInvocation
    /\ heard' = "none"
    /\ word' = FALSE
    /\ renewed' = FALSE
    /\ UNCHANGED <<rows, remote, restarts, ledger>>

(* A process opens the run again: a new lifecycle over the same rows. *)
Activate ==
    /\ pc = "down"
    /\ restarts < MaxRestarts
    /\ restarts' = restarts + 1
    /\ lifecycle' = "running"
    /\ mine' = inv
    /\ heard' = decision
    /\ pc' = "idle"
    /\ UNCHANGED <<inv, decision, chained, declined, word, renewed, remote,
                   ledger>>

Loop ==
    \/ ToGate \/ ToObserve \/ ToAwait \/ ToEnd \/ Reask
    \/ AttemptRow \/ Send \/ Accept \/ AcceptRow \/ Respond
    \/ Fail \/ RenewAndResend \/ RenewObservation
    \/ Hear
    \/ CancelConfirmed \/ CancelUnconfirmed \/ Retire \/ Leave

Next ==
    \/ Loop
    \/ RemoteFinishes
    \/ Decide \/ NextTurn \/ StopRow \/ Interrupt \/ StopDown
    \/ Crash \/ Activate

Spec == Init /\ [][Next]_vars

(* A loop that is not interrupted goes on, the provider answers, finishes  *)
(* what it accepted, and a stop's interruption arrives.  Nobody has to     *)
(* answer a request, open a run again or send another turn.                *)
Fairness == WF_vars(Loop) /\ WF_vars(RemoteFinishes) /\ WF_vars(Interrupt)

FairSpec == Spec /\ Fairness

-------------------------------------------------------------------------------
(* Properties. *)

PCs == {"down",        \* no process drives the run
        "idle",        \* the loop reads its next move
        "gate",        \* waiting at the route gate, then preparing the turn
        "sent",        \* the attempt row is in, the request not yet out
        "flight",      \* the request is with the provider
        "accepted",    \* accepted as background work, the row not yet in
        "observing",   \* observed by the attempt that submitted it
        "reobserving", \* observed by a later execution
        "await",       \* waiting for a person
        "ended",       \* the invocation is over
        "cancelling",  \* a person's stop cancels the work at the provider
        "retiring",    \* cancelled there, the row not yet in
        "leaving"}     \* the fiber is unwinding

Decisions == {"none", "open", "retry", "deny", "cancel"}

TypeOK ==
    /\ inv \in Invocations
    /\ mine \in Invocations
    /\ decision \in Decisions
    /\ heard \in Decisions
    /\ chained \in BOOLEAN
    /\ declined \in BOOLEAN
    /\ lifecycle \in {"running", "user", "shutdown", "ended"}
    /\ pc \in PCs
    /\ word \in BOOLEAN
    /\ renewed \in BOOLEAN
    /\ remote \in {"none", "unrecorded", "running", "finished", "cancelled"}
    /\ restarts \in Nat
    /\ billed \in Nat
    /\ allowance \in Nat
    /\ admitted \in BOOLEAN

(* The history never holds a row that cannot follow the others: whatever   *)
(* the crashes, stops and answers, a later process can fold it             *)
(* (`invocationAfter` returns no rejection), and so can the process that   *)
(* wrote it.                                                               *)
HistoryLoads == inv # Refused /\ mine # Refused

(* However often the process dies or the run is stopped, an invocation     *)
(* bills its first request, the automatic retries, and one request for     *)
(* each grant outside them: a person's answer, a lost chain, a renewed     *)
(* credential, a clean close (`spentRetries`, `failuresBefore`).           *)
BilledWithinBudget == billed <= 1 + Retries + allowance

(* No request is billed that the rows do not name: the `attempt` row is    *)
(* in before the request leaves (`attemptOnce`).                           *)
RowsNameEveryBill == billed <= inv.attempt

(* The rows hold accepted work: the next execution observes it. *)
Observable(i) == i.accepted /\ Unknown(i)

(* Background work the provider runs and the rows recorded stays what the  *)
(* next execution observes, through crashes, stops and resumes: only a     *)
(* failed observation of it ends that, and one that a later execution made *)
(* asks a person or ends the invocation.  The exception is the execution   *)
(* that submitted the work, whose failed observation counts as a failed    *)
(* send and may have it submitted again while it runs                      *)
(* (`submitAndObserve`, `nextAttempt`, `moveAfter`).                       *)
RecordedWorkIsObserved ==
    [][/\ remote' = "running" /\ remote # "running" => Observable(inv)'
       /\ remote = "running" /\ Observable(inv) /\ ~Observable(inv)' =>
             /\ inv'.attempt = inv.attempt
             /\ \/ pc = "observing" /\ inv'.failed \in Nexts
                \/ pc = "reobserving" /\ inv'.failed \in {"ask", "stop"}]_vars

(* A person who allowed an attempt is asked again before a request of      *)
(* unknown outcome is sent again, a crash or a clean close having cut the  *)
(* one they allowed (`nextAttempt`).                                       *)
AskedBeforeResend ==
    [][pc = "gate" /\ pc' = "sent" /\ admitted => ~Unknown(inv)]_vars

(* Work that still runs is not submitted again unasked                     *)
(* (`moveAfter`).                                                          *)
FailedObservationIsAsked ==
    [][pc = "sent" /\ pc' = "flight" /\ ~word =>
          remote # "running"]_vars

(* A run left alone reaches its answer, its end or a person: no failure,   *)
(* renewal or repeated observation keeps it busy forever.                  *)
SettlesOrAsks == pc \notin {"await", "ended", "down"} ~>
                    pc \in {"await", "ended", "down"}
===============================================================================
