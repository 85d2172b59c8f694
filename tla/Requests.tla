------------------------------ MODULE Requests ------------------------------
(***************************************************************************)
(* What a run asks of a person, and who answers it (agent/runtime/         *)
(* requests.ts, runApprovalQueue.ts, loop/toolGuard.ts, controllers/       *)
(* session/SessionRequests.ts).  A call opens a request with the policy's  *)
(* own answer beside it, or waits for the decision a surface lands.  A     *)
(* grant approves what it covers in its own transaction, a run's end and   *)
(* a resume cancel what nobody waits on, and a resumed call joins the      *)
(* request it left standing.                                               *)
(*                                                                         *)
(* `log` is the committed rows, one entry a transaction.  The policy and   *)
(* the surfaces read the view, which lags it; a decision's check and a     *)
(* grant's approvals read the log, in the transaction.  A caller's         *)
(* transaction returns once the view has folded it.                        *)
(*                                                                         *)
(* One bypass stands for the three grants, and a person's value for a      *)
(* goal's.  A run's parent is fixed, and a run that asks nothing lives on. *)
(***************************************************************************)
EXTENDS Integers, Sequences, FiniteSetsExt

CONSTANTS
    Runs,
    Under,      \* [Runs -> SUBSET Runs]: a run's attached ancestors
    Reqs,
    RunOf,      \* [Reqs -> Runs]: who asks
    Surfaces,   \* each issues one decision
    None,
    MaxChanges, \* bound on the grant changes asked
    MaxCrashes  \* bound on the crashes

ASSUME RunOfAssumption == RunOf \in [Reqs -> Runs]
ASSUME UnderAssumption == Under \in [Runs -> SUBSET Runs]
ASSUME ApartAssumption == Runs \cap Reqs = {} /\ None \notin Runs \cup Reqs

VARIABLES
    kind,       \* each request's: "tool", "plan", "plugin", or "none" yet
    log,        \* the transactions committed
    view,       \* how many of them the session's view folded
    ask,        \* what each request's asker is doing
    surf,       \* what each surface is doing
    change,     \* the one policy.set under way, or what the last one did
    run,        \* "up", "down", "opening", "ended"
    side,       \* what a plugin last recorded of a decision
    crashes

vars == <<kind, log, view, ask, surf, change, run, side, crashes>>

Words == {"approve", "deny", "cancel"}
Entry == [Reqs \cup Runs -> {"-", "open", "on", "off"} \cup Words]

Rows(S, word) == [x \in Reqs \cup Runs |-> IF x \in S THEN word ELSE "-"]

\* What askers, surfaces and a change hold when n transactions committed.
Askers(n) ==
    [at : {"none", "read", "opened", "waiting", "standing", "reread",
           "answered", "gone"},
     word : Words \cup {"none"}, from : 0..n, seen : 0..n]

Deciders(n) ==
    [at : {"idle", "queued", "recording", "writing", "settling", "told"},
     of : Reqs \cup {None}, word : Words, grant : BOOLEAN, held : BOOLEAN,
     to : 0..n]

Changes(n) ==
    [at : {"idle", "writing", "settling", "returned"}, run : Runs \cup {None},
     value : {"on", "off"}, since : 0..n, to : 0..n, count : Nat]

TypeOK ==
    /\ kind \in [Reqs -> {"none", "tool", "plan", "plugin"}]
    /\ log \in Seq(Entry)
    /\ view \in 0..Len(log)
    /\ ask \in [Reqs -> Askers(Len(log))]
    /\ surf \in [Surfaces -> Deciders(Len(log))]
    /\ change \in Changes(Len(log))
    /\ run \in [Runs -> {"up", "down", "opening", "ended"}]
    /\ side \in [Reqs -> Words \cup {"none"}]
    /\ crashes \in Nat

Quiet == [at |-> "idle", of |-> None, word |-> "cancel", grant |-> FALSE,
          held |-> FALSE, to |-> 0]

Init ==
    /\ kind = [q \in Reqs |-> "none"]
    /\ log = <<>> /\ view = 0
    /\ ask = [q \in Reqs |-> [at |-> "none", word |-> "none", from |-> 0,
                              seen |-> 0]]
    /\ surf = [s \in Surfaces |-> Quiet]
    /\ change = [at |-> "idle", run |-> None, value |-> "off", since |-> 0,
                 to |-> 0, count |-> 0]
    /\ run = [r \in Runs |-> "up"]
    /\ side = [q \in Reqs |-> "none"]
    /\ crashes = 0

-----------------------------------------------------------------------------
(* The folds of the first n transactions                                   *)

Told(x, n) == {i \in 1..n : log[i][x] # "-"}

\* The last write stands, for a request and for a run's grant alike.
Last(x, n) == IF Told(x, n) = {} THEN "-" ELSE log[Max(Told(x, n))][x]

Status(q) == Last(q, Len(log))
IsOpen(q) == Status(q) = "open"
Decided(q) == Status(q) \in Words

\* resolveBypass: the nearest of the run and its ancestors that decides.
Covered(r, n) ==
    \E a \in {r} \cup Under[r] :
        /\ Last(a, n) = "on"
        /\ \A b \in {r} \cup Under[r] : a \in Under[b] => Last(b, n) = "-"

Blocking(q) == kind[q] # "plugin"

\* answerFor: a grant in the view, or for a plan whatever the approval
\* setting is at the time.
Answers(q, k) ==
    IF k = "tool" THEN {IF Covered(RunOf[q], view) THEN "approve" ELSE "none"}
    ELSE {"approve", "none"}

\* The rows of a transaction that are about requests and grants, if any.
Commit(rows) == log' = IF rows = Rows({}, "-") THEN log ELSE Append(log, rows)

-----------------------------------------------------------------------------
(* A call that asks                                                        *)

\* policyDecidedRows
Read(q, k) ==
    /\ run[RunOf[q]] = "up" /\ ask[q].at = "none" /\ k # "plugin"
    /\ kind' = [kind EXCEPT ![q] = k]
    /\ \E word \in Answers(q, k) :
         ask' = [ask EXCEPT ![q] = [@ EXCEPT !.at = "read", !.word = word,
                                             !.seen = view]]
    /\ UNCHANGED <<log, view, surf, change, run, side, crashes>>

\* openRequest: one batch, from the commit that was last before it.
Open(q) ==
    /\ ask[q].at = "read"
    /\ Commit(Rows({q}, IF ask[q].word = "none" THEN "open" ELSE ask[q].word))
    /\ ask' = [ask EXCEPT ![q] = [@ EXCEPT !.at = "opened",
                                           !.from = Len(log)]]
    /\ UNCHANGED <<kind, view, surf, change, run, side, crashes>>

\* Fault: the log is read from where it is once the batch returned.
BugFrom(q) == Len(log)

From(q) == ask[q].from

\* The batch returned.
Opened(q) ==
    /\ ask[q].at = "opened" /\ view > ask[q].from
    /\ ask' = [ask EXCEPT ![q] = [@ EXCEPT
                    !.at = IF ask[q].word = "none" THEN "waiting" ELSE "answered",
                    !.from = From(q)]]
    /\ UNCHANGED <<kind, log, view, surf, change, run, side, crashes>>

\* A plugin posts one that does not block its caller.
Post(q) ==
    /\ run[RunOf[q]] = "up" /\ ask[q].at = "none"
    /\ kind' = [kind EXCEPT ![q] = "plugin"]
    /\ Commit(Rows({q}, "open"))
    /\ ask' = [ask EXCEPT ![q].at = "gone"]
    /\ UNCHANGED <<view, surf, change, run, side, crashes>>

Heard(q) == {i \in (ask[q].from + 1)..Len(log) : log[i][q] \in Words}

\* decisionOf: the first decision past `from`.
Hear(q) ==
    /\ ask[q].at = "waiting" /\ Heard(q) # {}
    /\ ask' = [ask EXCEPT ![q] = [@ EXCEPT !.at = "answered",
                                           !.word = log[Min(Heard(q))][q]]]
    /\ UNCHANGED <<kind, log, view, surf, change, run, side, crashes>>

\* A resumed call asks again: the decision the resume read, or the policy's.
Reenter(q) ==
    /\ ask[q].at = "standing" /\ run[RunOf[q]] = "up"
    /\ LET recorded == Last(q, ask[q].from)
       IN  IF recorded \in Words
           THEN ask' = [ask EXCEPT ![q] = [@ EXCEPT !.at = "answered",
                                                      !.word = recorded]]
           ELSE \E word \in Answers(q, kind[q]) :
                  ask' = [ask EXCEPT ![q] = [@ EXCEPT !.at = "reread",
                                                      !.word = word]]
    /\ UNCHANGED <<kind, log, view, surf, change, run, side, crashes>>

\* The policy's answer commits as it is, with no check; else the call waits
\* from where the resume read the run.
Rejoin(q) ==
    /\ ask[q].at = "reread"
    /\ IF ask[q].word = "none"
       THEN /\ ask' = [ask EXCEPT ![q] = [@ EXCEPT !.at = "waiting",
                                                    !.from = From(q)]]
            /\ UNCHANGED log
       ELSE /\ ask' = [ask EXCEPT ![q].at = "answered"]
            /\ Commit(Rows({q}, ask[q].word))
    /\ UNCHANGED <<kind, view, surf, change, run, side, crashes>>

\* Fault: a decision is not checked against the committed rows.
BugTakes(q) == Status(q) # "-"

\* decideRequest's check
Takes(q) == IsOpen(q)

\* The call no longer asks: its standing request is cancelled, if open.
Retire(q) ==
    /\ ask[q].at = "standing" /\ run[RunOf[q]] = "up"
    /\ ask' = [ask EXCEPT ![q].at = "gone"]
    /\ Commit(Rows(IF Takes(q) THEN {q} ELSE {}, "cancel"))
    /\ UNCHANGED <<kind, view, surf, change, run, side, crashes>>

-----------------------------------------------------------------------------
(* Grants                                                                  *)

\* Fault: a grant approves what its own run has open.
BugReaches(r, q) == RunOf[q] = r

\* approvalsUnder: the run's own, and those of the runs under it that follow
\* its grant.
Reaches(r, q) ==
    \/ RunOf[q] = r
    \/ /\ r \in Under[RunOf[q]]
       /\ \A b \in {RunOf[q]} \cup Under[RunOf[q]] :
              r \in Under[b] => Last(b, Len(log)) = "-"

Approved(r, value) ==
    {q \in Reqs : /\ value = "on" /\ kind[q] = "tool"
                  /\ IsOpen(q) /\ Reaches(r, q)}

\* grantRows: none when the run's grant is recorded so.
GrantRows(r, value) ==
    IF Last(r, Len(log)) = value THEN Rows({}, "-")
    ELSE [x \in Reqs \cup Runs |-> IF x = r THEN value
                                   ELSE Rows(Approved(r, value), "approve")[x]]

\* The last of the commits whose callers have their answer.
Returned ==
    Max({change.to} \cup
        {surf[s].to : s \in {t \in Surfaces : surf[t].at = "told"}})

\* change: what the view already shows is not written.
Change(r, value) ==
    /\ change.at \in {"idle", "returned"} /\ change.count < MaxChanges
    /\ value = "on" => run[r] = "up"
    /\ change' = [change EXCEPT
                    !.at = IF Last(r, view) = value THEN "returned"
                           ELSE "writing",
                    !.run = r, !.value = value, !.since = Returned,
                    !.count = @ + 1]
    /\ UNCHANGED <<kind, log, view, ask, surf, run, side, crashes>>

WriteChange ==
    /\ change.at = "writing"
    /\ Commit(GrantRows(change.run, change.value))
    /\ change' = [change EXCEPT !.at = "settling",
                                !.to = IF log' = log THEN 0 ELSE Len(log')]
    /\ UNCHANGED <<kind, view, ask, surf, run, side, crashes>>

\* Fault: a transaction returns once it is committed.
BugFolded(n) == TRUE

Folded(n) == view >= n

ChangeReturns ==
    /\ change.at = "settling" /\ Folded(change.to)
    /\ change' = [change EXCEPT !.at = "returned"]
    /\ UNCHANGED <<kind, log, view, ask, surf, run, side, crashes>>

-----------------------------------------------------------------------------
(* A surface's decision                                                    *)

\* Admitted: a grant only over a working run.
Issue(s, q, word, grant) ==
    /\ surf[s].at = "idle" /\ Status(q) # "-"
    /\ grant => word = "approve" /\ kind[q] = "tool" /\ run[RunOf[q]] = "up"
    /\ surf' = [surf EXCEPT ![s] =
                    [@ EXCEPT !.at = "queued", !.of = q, !.word = word,
                              !.grant = grant,
                              !.held = run[RunOf[q]] \in {"up", "opening"}]]
    /\ UNCHANGED <<kind, log, view, ask, change, run, side, crashes>>

\* Fault: the lane ends with the write.
BugInLane(s) == surf[s].at \in {"recording", "writing"}

InLane(s) == surf[s].at \in {"recording", "writing", "settling"}

\* The request's lane is free: is it pending, and does its asker live here?
Enter(s) ==
    LET q == surf[s].of IN
    /\ surf[s].at = "queued"
    /\ \A t \in Surfaces : InLane(t) => surf[t].of # q
    /\ surf' = [surf EXCEPT ![s].at =
                  IF Last(q, view) # "open" \/ (Blocking(q) /\ ~surf[s].held)
                  THEN "told"
                  ELSE IF Blocking(q) THEN "writing" ELSE "recording"]
    /\ UNCHANGED <<kind, log, view, ask, change, run, side, crashes>>

\* The plugin records the decision, and delivers it.
Record(s) ==
    /\ surf[s].at = "recording"
    /\ side' = [side EXCEPT ![surf[s].of] = surf[s].word]
    /\ surf' = [surf EXCEPT ![s].at = "writing"]
    /\ UNCHANGED <<kind, log, view, ask, change, run, crashes>>

\* decideRequest, or decideUnder with its grant.
Write(s) ==
    LET q == surf[s].of
        grant == IF surf[s].grant THEN GrantRows(RunOf[q], "on")
                 ELSE Rows({}, "-")
        rows == [grant EXCEPT ![q] = IF Takes(q) THEN surf[s].word ELSE "-"]
    IN  /\ surf[s].at = "writing"
        /\ Commit(rows)
        /\ surf' = [surf EXCEPT ![s] =
                        [@ EXCEPT !.at = "settling",
                                  !.to = IF log' = log THEN 0 ELSE Len(log')]]
        /\ UNCHANGED <<kind, view, ask, change, run, side, crashes>>

Answered(s) ==
    /\ surf[s].at = "settling" /\ Folded(surf[s].to)
    /\ surf' = [surf EXCEPT ![s].at = "told"]
    /\ UNCHANGED <<kind, log, view, ask, change, run, side, crashes>>

-----------------------------------------------------------------------------
(* The view, the runs' ends, and the process                               *)

Fold ==
    /\ view < Len(log)
    /\ view' \in (view + 1)..Len(log)
    /\ UNCHANGED <<kind, log, ask, surf, change, run, side, crashes>>

OpenOf(r) == {q \in Reqs : RunOf[q] = r /\ IsOpen(q)}

\* The call's fiber goes with its run.
Left(S) == [q \in Reqs |-> IF q \in S /\ ask[q].at # "answered"
                           THEN [ask[q] EXCEPT !.at = "gone"] ELSE ask[q]]

\* endIn: the end cancels what the run leaves open.
End(r) ==
    /\ run[r] = "up"
    /\ run' = [run EXCEPT ![r] = "ended"]
    /\ Commit(Rows(OpenOf(r), "cancel"))
    /\ ask' = Left({q \in Reqs : RunOf[q] = r})
    /\ UNCHANGED <<kind, view, surf, change, side, crashes>>

\* The process dies, and another opens the session: an answer heard is in
\* the rows, a request that was opened stands, and a surface asks anew.
Crash ==
    /\ crashes < MaxCrashes
    /\ crashes' = crashes + 1
    /\ view' = Len(log)
    /\ run' = [r \in Runs |->
                 CASE run[r] = "ended" -> "ended"
                   [] \E q \in Reqs : RunOf[q] = r -> "down"
                   [] OTHER -> run[r]]
    /\ ask' = [q \in Reqs |->
                 CASE ask[q].at = "read" -> [ask[q] EXCEPT !.at = "none"]
                   [] ask[q].at \in {"opened", "waiting", "reread"} ->
                        [ask[q] EXCEPT !.at = "standing"]
                   [] OTHER -> ask[q]]
    /\ surf' = [s \in Surfaces |-> IF surf[s].at = "told" THEN surf[s]
                                   ELSE Quiet]
    /\ change' = [change EXCEPT !.at = "idle"]
    /\ UNCHANGED <<kind, log, side>>

StartResume(r) ==
    /\ run[r] = "down"
    /\ run' = [run EXCEPT ![r] = "opening"]
    /\ UNCHANGED <<kind, log, view, ask, surf, change, side, crashes>>

\* activate: what no attempt re-enters (by the call records, here any) is
\* cancelled, and what the loop knows of the rest is as of this commit.
Resume(r) ==
    /\ run[r] = "opening"
    /\ run' = [run EXCEPT ![r] = "up"]
    /\ \E unbound \in SUBSET {q \in OpenOf(r) : Blocking(q)} :
         /\ Commit(Rows(unbound, "cancel"))
         /\ ask' = [q \in Reqs |->
                      IF q \in unbound THEN [ask[q] EXCEPT !.at = "gone"]
                      ELSE IF RunOf[q] = r /\ ask[q].at = "standing"
                      THEN [ask[q] EXCEPT !.from = Len(log')] ELSE ask[q]]
    /\ UNCHANGED <<kind, view, surf, change, side, crashes>>

-----------------------------------------------------------------------------
SurfaceStep(s) == Enter(s) \/ Record(s) \/ Write(s) \/ Answered(s)

AskStep(q) == Open(q) \/ Opened(q) \/ Hear(q) \/ Rejoin(q)

EndStep(r) == End(r) \/ StartResume(r) \/ Resume(r)

Next ==
    \/ \E q \in Reqs : \/ \E k \in {"tool", "plan"} : Read(q, k)
                       \/ Post(q) \/ AskStep(q) \/ Reenter(q) \/ Retire(q)
                       \/ EndStep(RunOf[q])
    \/ \E r \in Runs, v \in {"on", "off"} : Change(r, v)
    \/ WriteChange \/ ChangeReturns
    \/ \E s \in Surfaces :
         \/ SurfaceStep(s)
         \/ \E q \in Reqs, w \in {"approve", "deny"}, g \in BOOLEAN :
                Issue(s, q, w, g)
    \/ Fold \/ Crash

Spec == Init /\ [][Next]_vars

-----------------------------------------------------------------------------
\* A decision stands: a surface, a grant, a run's end, a resume and a call
\* that stops asking answer only what is open.  The one exception is the
\* call that re-enters its request: its policy's answer is not checked.
DecisionsStand ==
    [][\A q \in Reqs : Decided(q) /\ Status(q)' # Status(q)
                       => ask[q].at = "reread"]_vars

\* A call goes on with the decision its rows record, however it came by it.
AnswerIsRecord ==
    \A q \in Reqs : ask[q].at = "answered" => Status(q) = ask[q].word

\* Each request is a register decided once: what its asker went on with is
\* what the rows say from then on, whoever decides, and over a crash.
AskerOf(q) == CASE ask[q].at = "answered" -> ask[q].word
                [] ask[q].at = "reread" -> "again"
                [] OTHER -> "asking"

Register == INSTANCE DecisionRegister
              WITH verdict <- [q \in Reqs |-> Status(q)],
                   asker <- [q \in Reqs |-> AskerOf(q)]

ImplementsRegister == Register!Spec

\* A decision committed before its asker listens is not lost on it.
NoLostDecision ==
    \A q \in Reqs : ask[q].at = "waiting" /\ Decided(q) => Heard(q) # {}

\* A plugin recorded the decision its request's row holds, unless the run's
\* end took the request first, or a crash came before the row.
PluginAgrees ==
    \A q \in Reqs :
        /\ side[q] # "none"
        /\ \A s \in Surfaces : surf[s].of = q => surf[s].at # "writing"
        => \/ Status(q) \in {side[q], "cancel"}
           \/ IsOpen(q) /\ crashes > 0

OpenedAt(q) == Min(Told(q, Len(log)))

\* Nothing a grant covers waits for a person, but a request whose call read
\* the view before the grant and opened after it: neither then answers it.
CoveredIsDecided ==
    \A q \in Reqs :
        kind[q] = "tool" /\ IsOpen(q) /\ Covered(RunOf[q], Len(log)) =>
            \E i \in (ask[q].seen + 1)..(OpenedAt(q) - 1) :
                \E a \in {RunOf[q]} \cup Under[RunOf[q]] : log[i][a] = "on"

\* A person who turned a grant off, and was told so, has it off, also when
\* the view showed it off already: unless another change came after the ones
\* that had returned when this one was asked.
ChangeStands ==
    change.at = "returned" =>
        \/ Last(change.run, Len(log)) = change.value
        \/ \E i \in (change.since + 1)..Len(log) : log[i][change.run] # "-"

=============================================================================
