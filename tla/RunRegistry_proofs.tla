------------------------- MODULE RunRegistry_proofs -------------------------
(***************************************************************************)
(* Proofs about the run registry, for any tree of runs, any stoppers and   *)
(* any bounds: its types, what becomes of a run it opened, that no run     *)
(* stopped on its rows drives on, and that a close stops every run driven  *)
(* here.                                                                   *)
(***************************************************************************)
EXTENDS RunRegistry, FiniteSetTheorems, TLAPS

-----------------------------------------------------------------------------
(* What the operators return. *)

\* The rows of a stop are rows: the birth is kept, an end is never undone,
\* and a stop that ends leaves a born run ended.
LEMMA StopRowsFacts ==
    ASSUME TypeOK, NEW r \in Runs, NEW reason \in Reasons \cup {None},
           NEW end \in BOOLEAN
    PROVE  /\ StopRows(r, reason, end) \in [Runs -> Row]
           /\ \A q \in Runs :
                /\ StopRows(r, reason, end)[q].born = rows[q].born
                /\ rows[q].ended => StopRows(r, reason, end)[q].ended
           /\ end /\ rows[r].born => StopRows(r, reason, end)[r].ended
<1>1. rows \in [Runs -> Row]
  BY DEF TypeOK
<1>2. StopRows(r, reason, end) \in [Runs -> Row]
  <2> DEFINE stop == IF rows[r].stop = None THEN reason ELSE rows[r].stop
  <2>1. rows[r] \in Row
    BY <1>1
  <2>2. stop \in Reasons \cup {None}
    BY <2>1 DEF Row
  <2>3. [rows[r] EXCEPT !.stop = stop, !.ended = end] \in Row
    BY <2>1, <2>2 DEF Row
  <2>4. StopRows(r, reason, end) =
          IF Stoppable(r)
          THEN [rows EXCEPT ![r] = [rows[r] EXCEPT !.stop = stop,
                                                   !.ended = end]]
          ELSE rows
    BY <1>1, <2>1 DEF StopRows, Row
  <2> QED
    BY <1>1, <2>1, <2>3, <2>4
<1>3. ASSUME NEW q \in Runs
      PROVE  /\ StopRows(r, reason, end)[q].born = rows[q].born
             /\ rows[q].ended => StopRows(r, reason, end)[q].ended
  BY <1>1 DEF StopRows, Stoppable, Row
<1>4. end /\ rows[r].born => StopRows(r, reason, end)[r].ended
  BY <1>1 DEF StopRows, Stoppable, Row
<1> QED
  BY <1>2, <1>3, <1>4

\* The runs of a set driven or opening here are runs.
LEMMA HeldAreRuns == Held \subseteq Runs
  BY DEF Held

\* What a caller waits for is a number.
LEMMA LagIsNat ==
    ASSUME TypeOK, NEW r \in Runs, NEW end \in BOOLEAN
    PROVE  LagOf(r, end) \in Nat
  BY DEF TypeOK, LagOf

\* What a stopper does next is one of its steps.
LEMMA RestTyped ==
    ASSUME TypeOK, NEW s \in Stoppers
    PROVE  Rest(s) \in Stop
<1>1. stops[s] \in Stop
  BY DEF TypeOK
<1> QED
  BY <1>1 DEF Rest, Idle, Stop, Reasons

\* The same opening or fiber, further on: nothing undoes the stop asked of
\* an opening, nor an interruption.
SameOpening(o, p) == p.at = o.at /\ (o.stop = None \/ p.stop = o.stop)
SameFiber(f, g) == g.phase = f.phase /\ (f.interrupted => g.interrupted)

\* An interruption leaves the fibers fibers, and only marks them.
LEMMA InterruptTyped ==
    ASSUME NEW fibers \in [Runs -> Fiber \cup {None}],
           NEW r \in Runs \cup {None}, NEW fiber
    PROVE  /\ InterruptFiber(fibers, r, fiber) \in [Runs -> Fiber \cup {None}]
           /\ \A q \in Runs :
                /\ InterruptFiber(fibers, r, fiber)[q] = None
                     <=> fibers[q] = None
                /\ fibers[q] # None
                     => SameFiber(fibers[q],
                                  InterruptFiber(fibers, r, fiber)[q])
<1>1. CASE r \in Runs
  BY <1>1, NoneIsNothing DEF InterruptFiber, Fiber, SameFiber
<1>2. CASE r \notin Runs
  BY <1>2, NoneIsNothing DEF InterruptFiber, Fiber, SameFiber
<1> QED
  BY <1>1, <1>2

-----------------------------------------------------------------------------
(* Types. *)

\* A stop under way names its run, and the child whose row commits.
StopsNamed ==
    \A s \in Stoppers :
        /\ stops[s].at \notin {"idle", "next", "done"} => stops[s].run \in Runs
        /\ stops[s].at \in {"child", "childSettle"} => stops[s].child \in Runs

Typed == TypeOK /\ StopsNamed

\* An opening that took a stop, moved on or failed is an opening.
LEMMA OpeningTyped ==
    ASSUME NEW o \in Opening
    PROVE  /\ \A a \in {"reading", "building", "settling", "stopping",
                         "failing", "stopped", "failed"}, n \in Nat :
                /\ [o EXCEPT !.at = a] \in Opening
                /\ [o EXCEPT !.at = a, !.lag = n] \in Opening
           /\ \A reason \in Reasons : Asked(o, reason) \in Opening
           /\ [o EXCEPT !.lag = Less(@)] \in Opening
<1>1. \A a \in {"reading", "building", "settling", "stopping", "failing",
                "stopped", "failed"}, n \in Nat :
        /\ [o EXCEPT !.at = a] \in Opening
        /\ [o EXCEPT !.at = a, !.lag = n] \in Opening
  BY DEF Opening
<1>2. ASSUME NEW reason \in Reasons
      PROVE  Asked(o, reason) \in Opening
  <2>1. [o EXCEPT !.stop = reason] \in Opening
    BY DEF Opening
  <2> QED
    BY <2>1 DEF Asked
<1>3. [o EXCEPT !.lag = Less(@)] \in Opening
  <2>1. Less(o.lag) \in Nat
    BY DEF Opening, Less
  <2> QED
    BY <2>1 DEF Opening
<1> QED
  BY <1>1, <1>2, <1>3

\* The steps of an opening keep the types.
LEMMA OpeningTypes ==
    ASSUME Typed, NEW r \in Runs,
           StartBirth(r) \/ StartResume(r) \/ OpeningStep(r)
    PROVE  Typed'
<1> USE DEF Typed
<1>1. UNCHANGED <<seen, stopping, busy, closing, stops, spent>>
  BY DEF StartBirth, StartResume, OpeningStep, Enter, Read, OpenFails, Open,
         Cut, Answer, RecordOpeningStop, ForkStopped, LeaveFailed
<1>2. starting[r] # None => starting[r] \in Opening
  BY DEF TypeOK
<1>3. CASE StartBirth(r) \/ StartResume(r)
  <2>1. [at |-> "reading", resume |-> TRUE, stop |-> None, lag |-> 0]
          \in Opening
    BY DEF Opening
  <2>2. [at |-> "reading", resume |-> FALSE, stop |-> None, lag |-> 0]
          \in Opening
    BY DEF Opening
  <2>3. starting' \in [Runs -> Opening \cup {None}]
    BY <1>3, <2>1, <2>2 DEF StartBirth, StartResume, Enter, TypeOK
  <2> QED
    BY <1>1, <1>3, <2>3
       DEF StartBirth, StartResume, Enter, TypeOK, StopsNamed
<1>4. ASSUME NEW stop \in Reasons \cup {None}, Fail(r, stop),
             starting[r] # None
      PROVE  starting' \in [Runs -> Opening \cup {None}]
  <2>1. stop # None => [starting[r] EXCEPT !.stop = stop, !.at = "failing"]
                         \in Opening
    BY <1>2, <1>4 DEF Opening
  <2> QED
    BY <1>4, <2>1 DEF Fail, TypeOK
<1>5. starting[r] # None => starting[r].stop \in Reasons \cup {None}
  BY <1>2 DEF Opening
<1>6. CASE Read(r)
  <2>1. starting' \in [Runs -> Opening \cup {None}]
    <3>1. CASE Refused(r)
      BY <1>4, <1>5, <1>6, <3>1 DEF Read, Opens
    <3>2. CASE ~Refused(r)
      BY <1>2, <1>6, <3>2, OpeningTyped DEF Read, Opens, Move, TypeOK
    <3> QED
      BY <3>1, <3>2
  <2> QED
    BY <1>1, <1>6, <2>1 DEF Read, TypeOK, StopsNamed
<1>7. CASE OpenFails(r)
  <2>1. starting' \in [Runs -> Opening \cup {None}]
    BY <1>4, <1>5, <1>7 DEF OpenFails, Opens
  <2> QED
    BY <1>1, <1>7, <2>1 DEF OpenFails, TypeOK, StopsNamed
<1>8. CASE Cut(r)
  <2>1. CutStop(r) \in Reasons
    BY <1>5, <1>8 DEF Cut, CutStop, Reasons
  <2>2. starting' \in [Runs -> Opening \cup {None}]
    BY <1>4, <1>8, <2>1 DEF Cut
  <2> QED
    BY <1>1, <1>8, <2>2 DEF Cut, TypeOK, StopsNamed
<1>9. CASE Open(r)
  <2>1. unfolded' \in Seq(Runs \X (Runs \cup {None}))
    <3>1. <<r, ParentOf[r]>> \in Runs \X (Runs \cup {None})
      BY ParentsAreRuns
    <3>2. unfolded' \in {unfolded, Append(unfolded, <<r, ParentOf[r]>>)}
      BY <1>9 DEF Open
    <3>3. unfolded \in Seq(Runs \X (Runs \cup {None}))
      BY DEF TypeOK
    <3> HIDE DEF Typed
    <3> QED
      BY <3>1, <3>2, <3>3
  <2>2. Len(unfolded') \in Nat
    BY <2>1
  <2>3. starting' = [starting EXCEPT ![r] = [starting[r] EXCEPT
                        !.at = "settling", !.lag = Len(unfolded')]]
    BY <1>2, <1>9 DEF Open, Opens, TypeOK, Opening
  <2>4. starting' \in [Runs -> Opening \cup {None}]
    <3>1. starting[r] \in Opening
      BY <1>2, <1>9 DEF Open, Opens
    <3>2. [starting[r] EXCEPT !.at = "settling", !.lag = Len(unfolded')]
            \in Opening
      BY <2>2, <3>1, OpeningTyped
    <3> QED
      BY <2>3, <3>2 DEF TypeOK
  <2>5. rows' \in [Runs -> Row] /\ lives' \in [Runs -> Nat]
    BY <1>9 DEF Open, TypeOK, Row
  <2> QED
    BY <1>1, <1>9, <2>1, <2>4, <2>5 DEF Open, TypeOK, StopsNamed
<1>10. ASSUME NEW b \in BOOLEAN
       PROVE  [phase |-> "running", interrupted |-> b] \in Fiber
  BY DEF Fiber
<1>11. CASE Answer(r)
  <2>1. CASE StopOf(r) = None
    <3>1. Fork(r, FALSE) /\ UNCHANGED <<rows, unfolded, lives>>
      BY <1>11, <2>1 DEF Answer
    <3>2. /\ live' \in [Runs -> Fiber \cup {None}]
          /\ starting' \in [Runs -> Opening \cup {None}]
      BY <1>10, <3>1 DEF Fork, TypeOK
    <3> QED
      BY <1>1, <3>1, <3>2 DEF TypeOK, StopsNamed
  <2>2. CASE StopOf(r) # None
    <3>1. StopOf(r) \in Reasons
      BY <1>5, <1>11, <2>2 DEF Answer, Opens, StopOf, Reasons
    <3>2. starting' = [starting EXCEPT ![r] = [starting[r] EXCEPT
                         !.at = "stopping", !.stop = StopOf(r)]]
      BY <1>2, <1>11, <2>2 DEF Answer, Opens, TypeOK, Opening
    <3>3. [starting[r] EXCEPT !.at = "stopping", !.stop = StopOf(r)]
            \in Opening
      BY <1>2, <1>11, <3>1 DEF Answer, Opens, Opening
    <3> QED
      BY <1>1, <1>11, <2>2, <3>2, <3>3 DEF Answer, TypeOK, StopsNamed
  <2> QED
    BY <2>1, <2>2
<1>12. CASE RecordOpeningStop(r)
  <2> DEFINE end == starting[r].at = "failing"
  <2>1. end \in BOOLEAN /\ LagOf(r, end) \in Nat
    BY LagIsNat
  <2>2. starting' = [starting EXCEPT ![r] = [starting[r] EXCEPT
                       !.lag = LagOf(r, end),
                       !.at = IF end THEN "failed" ELSE "stopped"]]
    BY <1>2, <1>12 DEF RecordOpeningStop, TypeOK, Opening
  <2>3. [starting[r] EXCEPT !.lag = LagOf(r, end),
                            !.at = IF end THEN "failed" ELSE "stopped"]
          \in Opening
    BY <1>2, <1>12, <2>1 DEF RecordOpeningStop, Opening
  <2>4. rows' \in [Runs -> Row]
    BY <1>12, <2>1, StopRowsFacts, <1>5 DEF RecordOpeningStop
  <2> QED
    BY <1>1, <1>12, <2>2, <2>3, <2>4
       DEF RecordOpeningStop, TypeOK, StopsNamed
<1>13. CASE ForkStopped(r)
  BY <1>1, <1>10, <1>13 DEF ForkStopped, Fork, TypeOK, StopsNamed
<1>14. CASE LeaveFailed(r)
  BY <1>1, <1>14 DEF LeaveFailed, TypeOK, StopsNamed
<1> QED
  BY <1>3, <1>6, <1>7, <1>8, <1>9, <1>11, <1>12, <1>13, <1>14 DEF OpeningStep

\* A run's end and exit, an interruption, a file operation and the view's
\* fold keep the types.
LEMMA FiberTypes ==
    ASSUME Typed,
           \/ \E r \in Runs : \/ EndRun(r) \/ ExitRun(r) \/ LetGo(r)
                             \/ TakeFiles(r) \/ ReleaseFiles(r)
           \/ Fold
    PROVE  Typed'
<1> USE DEF Typed
<1>1. CASE \E r \in Runs : EndRun(r)
  <2>1. PICK r \in Runs : EndRun(r)
    BY <1>1
  <2>2. live[r] \in Fiber /\ rows[r] \in Row
    BY <2>1 DEF EndRun, TypeOK
  <2>3. rows' \in [Runs -> Row]
    BY <2>1, <2>2 DEF EndRun, TypeOK, Row
  <2>4. live' \in [Runs -> Fiber \cup {None}]
    BY <2>1, <2>2 DEF EndRun, TypeOK, Fiber
  <2> QED
    BY <2>1, <2>3, <2>4 DEF EndRun, TypeOK, StopsNamed
<1>2. CASE \E r \in Runs : ExitRun(r)
  BY <1>2 DEF ExitRun, TypeOK, StopsNamed
<1>3. CASE \E r \in Runs : LetGo(r)
  <2>1. PICK r \in Runs : LetGo(r)
    BY <1>3
  <2>2. live[r] \in Fiber
    BY <2>1 DEF LetGo, TypeOK
  <2>3. live' \in [Runs -> Fiber \cup {None}]
    BY <2>1, <2>2 DEF LetGo, TypeOK, Fiber
  <2>4. spent' \in [stops : Nat, refused : Nat, letGo : Nat]
    <3>1. spent \in [stops : Nat, refused : Nat, letGo : Nat]
      BY DEF TypeOK
    <3>2. spent' = [spent EXCEPT !.letGo = @ + 1]
      BY <2>1 DEF LetGo
    <3> HIDE DEF Typed
    <3> QED
      BY <3>1, <3>2
  <2> QED
    BY <2>1, <2>3, <2>4 DEF LetGo, TypeOK, StopsNamed
<1>4. CASE \E r \in Runs : TakeFiles(r) \/ ReleaseFiles(r)
  BY <1>4 DEF TakeFiles, ReleaseFiles, TypeOK, StopsNamed
<1>5. CASE Fold
  <2>1. unfolded \in Seq(Runs \X (Runs \cup {None})) /\ unfolded # <<>>
    BY <1>5 DEF Fold, TypeOK
  <2>2. /\ Head(unfolded) \in Runs \X (Runs \cup {None})
        /\ Tail(unfolded) \in Seq(Runs \X (Runs \cup {None}))
    <3> HIDE DEF Typed
    <3> QED
      BY <2>1
  <2>3. seen' \in [Runs -> Runs \cup {None}]
    BY <1>5, <2>2 DEF Fold, TypeOK
  <2>4. starting' \in [Runs -> Opening \cup {None}]
    <3>1. ASSUME NEW r \in Runs, starting[r] # None
          PROVE  [starting[r] EXCEPT !.lag = Less(@)] \in Opening
      BY <3>1, OpeningTyped DEF TypeOK
    <3> QED
      BY <1>5, <3>1 DEF Fold
  <2>5. \A s \in Stoppers :
          /\ stops'[s] = [stops[s] EXCEPT !.lag = Less(@)]
          /\ stops'[s] \in Stop
    <3>1. ASSUME NEW s \in Stoppers
          PROVE  [stops[s] EXCEPT !.lag = Less(@)] \in Stop
      <4>1. stops[s] \in Stop
        BY DEF TypeOK
      <4>2. Less(stops[s].lag) \in Nat
        BY <4>1 DEF Stop, Less
      <4> QED
        BY <4>1, <4>2 DEF Stop
    <3> QED
      BY <1>5, <3>1 DEF Fold
  <2>6. stops' \in [Stoppers -> Stop]
    BY <1>5, <2>5 DEF Fold
  <2>7. StopsNamed'
    <3>1. ASSUME NEW s \in Stoppers
          PROVE  /\ stops'[s].at = stops[s].at
                 /\ stops'[s].run = stops[s].run
                 /\ stops'[s].child = stops[s].child
      BY <2>5 DEF TypeOK, Stop
    <3> QED
      BY <3>1 DEF StopsNamed
  <2> QED
    BY <1>5, <2>2, <2>3, <2>4, <2>6, <2>7 DEF Fold, TypeOK
<1> QED
  BY <1>1, <1>2, <1>3, <1>4, <1>5

\* A stop at its end or at its next root names no run.
LEMMA RestNamed ==
    ASSUME NEW s \in Stoppers
    PROVE  Rest(s).at \in {"idle", "next"}
  BY DEF Rest, Idle

\* One stopper's new step, typed and naming its run, keeps them all so.
LEMMA OneStopTyped ==
    ASSUME Typed, NEW s \in Stoppers, NEW op \in Stop,
           stops' = [stops EXCEPT ![s] = op],
           op.at \notin {"idle", "next", "done"} => op.run \in Runs,
           op.at \in {"child", "childSettle"} => op.child \in Runs
    PROVE  stops' \in [Stoppers -> Stop] /\ StopsNamed'
  BY DEF Typed, TypeOK, StopsNamed

\* Asking several openings leaves every opening an opening.
LEMMA AskTyped ==
    ASSUME Typed, NEW S, NEW reason \in Reasons, AskOpenings(S, reason)
    PROVE  starting' \in [Runs -> Opening \cup {None}]
<1>1. ASSUME NEW r \in Runs, starting[r] # None
      PROVE  Asked(starting[r], reason) \in Opening
  BY <1>1, OpeningTyped DEF Typed, TypeOK
<1>2. \A r \in Runs : starting[r] \in Opening \cup {None}
  BY DEF Typed, TypeOK
<1> QED
  BY <1>1, <1>2 DEF AskOpenings

\* Asking a stop of a run keeps the openings and the stops typed.
LEMMA AskTypes ==
    ASSUME Typed, NEW s \in Stoppers, NEW r \in Runs, NEW reason \in Reasons,
           NEW roots \in SUBSET Runs, Ask(s, r, reason, roots),
           stops[s].at \in {"idle", "next"}
    PROVE  /\ starting' \in [Runs -> Opening \cup {None}]
           /\ stopping' \subseteq Runs \/ stopping' = stopping
           /\ stops' \in [Stoppers -> Stop]
           /\ StopsNamed'
<1>1. stops[s] \in Stop
  BY DEF Typed, TypeOK
<1>2. CASE starting[r] # None
  <2>1. starting[r] \in Opening
    BY <1>2 DEF Typed, TypeOK
  <2>2. Asked(starting[r], reason) \in Opening
    BY <2>1, OpeningTyped
  <2>3. starting' \in [Runs -> Opening \cup {None}]
    BY <1>2, <2>2 DEF Ask, Typed, TypeOK
  <2>4. [stops[s] EXCEPT !.roots = roots] \in Stop
    BY <1>1 DEF Stop
  <2>5. stops' = [stops EXCEPT ![s] = [stops[s] EXCEPT !.roots = roots]]
    BY <1>1, <1>2 DEF Ask, Typed, TypeOK, Stop
  <2>6. [stops[s] EXCEPT !.roots = roots].at = stops[s].at
    BY <1>1 DEF Stop
  <2>7. stops' \in [Stoppers -> Stop] /\ StopsNamed'
    BY <2>4, <2>5, <2>6, OneStopTyped
  <2> QED
    BY <1>2, <2>3, <2>7 DEF Ask
<1>3. CASE starting[r] = None
  <2> DEFINE op == [Idle EXCEPT !.at = "stop", !.run = r, !.reason = reason,
                                !.roots = roots, !.fiber = CapturedFiber(r)]
  <2>1. CapturedFiber(r) \in Nat
    BY DEF CapturedFiber, Typed, TypeOK
  <2>2. op \in Stop
    BY <2>1 DEF Idle, Stop
  <2>3. op.at = "stop" /\ op.run = r
    BY DEF Idle
  <2>4. stops' = [stops EXCEPT ![s] = op] /\ stopping' = stopping \cup {r}
    BY <1>3 DEF Ask
  <2>5. stops' \in [Stoppers -> Stop] /\ StopsNamed'
    <3> HIDE DEF op
    <3> QED
      BY <2>2, <2>3, <2>4, OneStopTyped
  <2> QED
    BY <1>3, <2>4, <2>5 DEF Ask, Typed, TypeOK
<1> QED
  BY <1>2, <1>3

\* The cascade's next part keeps the types.
LEMMA CascadeTypes ==
    ASSUME Typed, NEW s \in Stoppers, NEW todo \in SUBSET Runs,
           NEW fibers \in [Runs -> Fiber \cup {None}],
           NEW held \in SUBSET Runs, Cascade(s, todo, fibers, held),
           stops[s].run \in Runs, stops[s].at \in {"settle", "childSettle"}
    PROVE  /\ starting' \in [Runs -> Opening \cup {None}]
           /\ live' \in [Runs -> Fiber \cup {None}]
           /\ stopping' \subseteq Runs
           /\ stops' \in [Stoppers -> Stop]
           /\ StopsNamed'
<1> DEFINE op == stops[s]
           driven == {c \in todo : starting[c] = None /\ fibers[c] # None}
<1>1. op \in Stop /\ op.reason \in Reasons /\ op.run \in Runs
  BY DEF Typed, TypeOK, Stop
<1>2. CASE \E c \in driven, passed \in SUBSET (todo \ driven) :
             /\ AskOpenings(passed, op.reason)
             /\ live' = fibers
             /\ stopping' = held \cup {c}
             /\ stops' = [stops EXCEPT
                            ![s].at = "child", ![s].child = c,
                            ![s].childFiber = lives[c],
                            ![s].todo = todo \ (passed \cup {c})]
  <2>1. PICK c \in driven, passed \in SUBSET (todo \ driven) :
             /\ AskOpenings(passed, op.reason)
             /\ live' = fibers
             /\ stopping' = held \cup {c}
             /\ stops' = [stops EXCEPT
                            ![s].at = "child", ![s].child = c,
                            ![s].childFiber = lives[c],
                            ![s].todo = todo \ (passed \cup {c})]
    BY <1>2
  <2>2. c \in Runs
    OBVIOUS
  <2>3. starting' \in [Runs -> Opening \cup {None}]
    BY <1>1, <2>1, AskTyped
  <2> DEFINE next == [op EXCEPT !.at = "child", !.child = c,
                        !.childFiber = lives[c],
                        !.todo = todo \ (passed \cup {c})]
  <2>4. lives[c] \in Nat /\ todo \ (passed \cup {c}) \in SUBSET Runs
    BY <2>2 DEF Typed, TypeOK
  <2>5. /\ next \in Stop
        /\ next.run = op.run /\ next.child = c
    BY <1>1, <2>2, <2>4 DEF Stop
  <2>6. stops' = [stops EXCEPT ![s] = next]
    BY <1>1, <2>1 DEF Typed, TypeOK, Stop
  <2>7. stops' \in [Stoppers -> Stop] /\ StopsNamed'
    <3> HIDE DEF next
    <3> QED
      BY <1>1, <2>2, <2>5, <2>6, OneStopTyped
  <2> QED
    BY <2>1, <2>2, <2>3, <2>7
<1>3. CASE /\ AskOpenings(todo, op.reason)
           /\ live' = InterruptFiber(fibers, op.run, op.fiber)
           /\ stopping' = held \ {op.run}
           /\ stops' = [stops EXCEPT ![s] = Rest(s)]
  <2>1. starting' \in [Runs -> Opening \cup {None}]
    BY <1>1, <1>3, AskTyped
  <2>2. live' \in [Runs -> Fiber \cup {None}]
    BY <1>1, <1>3, InterruptTyped
  <2>3. Rest(s) \in Stop
    BY RestTyped DEF Typed
  <2>4. stops' \in [Stoppers -> Stop] /\ StopsNamed'
    BY <1>3, <2>3, RestNamed, OneStopTyped
  <2> QED
    BY <1>3, <2>1, <2>2, <2>4
<1> QED
  BY <1>2, <1>3 DEF Cascade

\* A counter of what was used counts on.
LEMMA SpentTyped ==
    ASSUME NEW u \in [stops : Nat, refused : Nat, letGo : Nat]
    PROVE  /\ [u EXCEPT !.stops = @ + 1]
                \in [stops : Nat, refused : Nat, letGo : Nat]
           /\ [u EXCEPT !.refused = @ + 1]
                \in [stops : Nat, refused : Nat, letGo : Nat]
  OBVIOUS

\* Starting a stop, or a close, keeps the types.
LEMMA AskingTypes ==
    ASSUME Typed, NEW s \in Stoppers,
           \/ \E r \in Runs : StopAsk(s, r) \/ StopRoot(s, r)
           \/ StopAll(s) \/ StoppedAll(s)
    PROVE  Typed'
<1>1. stops[s] \in Stop
  BY DEF Typed, TypeOK
<1>2. CASE \E r \in Runs : StopAsk(s, r)
  <2>1. PICK r \in Runs : StopAsk(s, r)
    BY <1>2
  <2>2. "user" \in Reasons /\ {} \in SUBSET Runs
    BY DEF Reasons
  <2>3. /\ starting' \in [Runs -> Opening \cup {None}]
        /\ stopping' \subseteq Runs \/ stopping' = stopping
        /\ stops' \in [Stoppers -> Stop]
        /\ StopsNamed'
    BY <2>1, <2>2, AskTypes DEF StopAsk
  <2>4. spent' \in [stops : Nat, refused : Nat, letGo : Nat]
    BY <2>1, SpentTyped DEF StopAsk, Typed, TypeOK
  <2> QED
    BY <2>1, <2>3, <2>4 DEF StopAsk, Typed, TypeOK
<1>3. CASE \E r \in Runs : StopRoot(s, r)
  <2>1. PICK r \in Runs : StopRoot(s, r)
    BY <1>3
  <2>2. "shutdown" \in Reasons /\ stops[s].roots \ {r} \in SUBSET Runs
    BY <1>1 DEF Reasons, Stop
  <2>3. /\ starting' \in [Runs -> Opening \cup {None}]
        /\ stopping' \subseteq Runs \/ stopping' = stopping
        /\ stops' \in [Stoppers -> Stop]
        /\ StopsNamed'
    BY <2>1, <2>2, AskTypes DEF StopRoot
  <2> QED
    BY <2>1, <2>3 DEF StopRoot, Typed, TypeOK
<1>4. CASE StopAll(s)
  <2> DEFINE op == [Idle EXCEPT !.at = "next", !.roots = Roots]
  <2>1. op \in Stop /\ op.at = "next"
    BY DEF Idle, Stop, Roots, Held, Reasons
  <2>2. stops' \in [Stoppers -> Stop] /\ StopsNamed'
    <3>1. stops' = [stops EXCEPT ![s] = op]
      BY <1>4 DEF StopAll
    <3> HIDE DEF op
    <3> QED
      BY <2>1, <3>1, OneStopTyped
  <2> QED
    BY <1>4, <2>2 DEF StopAll, Typed, TypeOK
<1>5. CASE StoppedAll(s)
  <2> DEFINE op == [stops[s] EXCEPT !.at = "done"]
  <2>1. op \in Stop /\ op.at = "done"
    BY <1>1 DEF Stop
  <2>2. stops' \in [Stoppers -> Stop] /\ StopsNamed'
    <3>1. stops' = [stops EXCEPT ![s] = op]
      BY <1>1, <1>5 DEF StoppedAll, Typed, TypeOK, Stop
    <3> HIDE DEF op
    <3> QED
      BY <2>1, <3>1, OneStopTyped
  <2> QED
    BY <1>5, <2>2 DEF StoppedAll, Typed, TypeOK
<1> QED
  BY <1>2, <1>3, <1>4, <1>5

\* The transactions of a stop, the run's and a child's, keep the types.
LEMMA CommitTypes ==
    ASSUME Typed, NEW s \in Stoppers, StopCommit(s) \/ ChildCommit(s)
    PROVE  Typed'
<1>1. /\ stops[s] \in Stop
      /\ stops[s].reason \in Reasons \cup {None}
  BY DEF Typed, TypeOK, Stop
<1>2. CASE StopCommit(s)
  <2> DEFINE r == stops[s].run
             end == stops[s].fiber = 0
             op == [stops[s] EXCEPT !.at = "settle", !.lag = LagOf(r, end)]
  <2>1. r \in Runs /\ end \in BOOLEAN
    BY <1>2 DEF StopCommit, Typed, StopsNamed
  <2>2. LagOf(r, end) \in Nat /\ rows' \in [Runs -> Row]
    <3>1. rows' = StopRows(r, stops[s].reason, end)
      BY <1>2 DEF StopCommit
    <3> QED
      BY <1>1, <2>1, <3>1, LagIsNat, StopRowsFacts DEF Typed
  <2>3. op \in Stop /\ op.at = "settle" /\ op.run = r
    BY <1>1, <2>2 DEF Stop
  <2>4. stops' \in [Stoppers -> Stop] /\ StopsNamed'
    <3>1. stops' = [stops EXCEPT ![s] = op]
      BY <1>1, <1>2 DEF StopCommit, Typed, TypeOK, Stop
    <3> HIDE DEF op, r, end
    <3> QED
      BY <2>1, <2>3, <3>1, OneStopTyped
  <2> QED
    BY <1>2, <2>2, <2>4 DEF StopCommit, Typed, TypeOK
<1>3. CASE ChildCommit(s)
  <2> DEFINE c == stops[s].child
             op == [stops[s] EXCEPT !.at = "childSettle",
                                    !.lag = LagOf(c, FALSE)]
  <2>1. c \in Runs /\ stops[s].run \in Runs
    BY <1>3 DEF ChildCommit, Typed, StopsNamed
  <2>2. LagOf(c, FALSE) \in Nat /\ rows' \in [Runs -> Row]
    <3>1. rows' = StopRows(c, stops[s].reason, FALSE)
      BY <1>3 DEF ChildCommit
    <3> QED
      BY <1>1, <2>1, <3>1, LagIsNat, StopRowsFacts DEF Typed
  <2>3. op \in Stop /\ op.run = stops[s].run /\ op.child = c
    BY <1>1, <2>2 DEF Stop
  <2>4. stops' \in [Stoppers -> Stop] /\ StopsNamed'
    <3>1. stops' = [stops EXCEPT ![s] = op]
      BY <1>1, <1>3 DEF ChildCommit, Typed, TypeOK, Stop
    <3> HIDE DEF op, c
    <3> QED
      BY <2>1, <2>3, <3>1, OneStopTyped
  <2> QED
    BY <1>3, <2>2, <2>4 DEF ChildCommit, Typed, TypeOK
<1> QED
  BY <1>2, <1>3

\* The edges a detach severs go on the log, in any order.
LEMMA DetachTypes ==
    ASSUME Typed, NEW s \in Stoppers, Detach(s)
    PROVE  Typed'
<1> DEFINE cut == {c \in ChildRunIds(stops[s].run) : rows[c].born}
           n == Cardinality(cut)
<1>1. cut \subseteq Runs
  BY DEF ChildRunIds, Held
<1>2. n \in Nat
  <2>1. IsFiniteSet(cut)
    BY <1>1, RunsFinite, FS_Subset
  <2> QED
    BY <2>1, FS_CardinalityType
<1>3. PICK order \in [1..n -> cut] :
        /\ unfolded' = unfolded \o [i \in 1..n |-> <<order[i], None>>]
        /\ stops' = [stops EXCEPT
                       ![s].at = "detached",
                       ![s].lag = IF n = 0 THEN 0 ELSE Len(unfolded')]
  BY DEF Detach
<1> HIDE DEF n, cut
<1>4. unfolded' \in Seq(Runs \X (Runs \cup {None}))
  <2>1. \A i \in 1..n : <<order[i], None>> \in Runs \X (Runs \cup {None})
    BY <1>1
  <2>2. [i \in 1..n |-> <<order[i], None>>]
          \in Seq(Runs \X (Runs \cup {None}))
    BY <1>2, <2>1
  <2>3. unfolded \in Seq(Runs \X (Runs \cup {None}))
    BY DEF Typed, TypeOK
  <2> QED
    BY <1>3, <2>2, <2>3
<1> DEFINE op == [stops[s] EXCEPT
                    !.at = "detached",
                    !.lag = IF n = 0 THEN 0 ELSE Len(unfolded')]
<1>5. stops[s] \in Stop /\ stops[s].run \in Runs
  BY DEF Detach, Typed, TypeOK, StopsNamed
<1>6. op \in Stop /\ op.at = "detached" /\ op.run = stops[s].run
  <2>1. Len(unfolded') \in Nat
    BY <1>4
  <2> QED
    BY <1>5, <2>1 DEF Stop
<1>7. stops' \in [Stoppers -> Stop] /\ StopsNamed'
  <2>1. stops' = [stops EXCEPT ![s] = op]
    BY <1>3, <1>5 DEF Typed, TypeOK, Stop
  <2> HIDE DEF op
  <2> QED
    BY <1>5, <1>6, <2>1, OneStopTyped
<1> QED
  BY <1>4, <1>7 DEF Detach, Typed, TypeOK

\* What a stop does once its rows are in keeps the types.
LEMMA SettledTypes ==
    ASSUME Typed, NEW s \in Stoppers,
           StopSettled(s) \/ ChildStopped(s) \/ Detached(s)
    PROVE  Typed'
<1>1. stops[s] \in Stop
  BY DEF Typed, TypeOK
<1>2. stops[s].run \in Runs
  BY DEF StopSettled, ChildStopped, Detached, Typed, StopsNamed
<1>3. live \in [Runs -> Fiber \cup {None}] /\ stopping \in SUBSET Runs
  BY DEF Typed, TypeOK
<1>4. CASE StopSettled(s)
  <2>1. CASE Detaches(s)
    <3> DEFINE op == [stops[s] EXCEPT !.at = "detach"]
    <3>1. op \in Stop /\ op.at = "detach" /\ op.run = stops[s].run
      BY <1>1 DEF Stop
    <3>2. stops' = [stops EXCEPT ![s] = op]
      BY <1>1, <1>4, <2>1 DEF StopSettled, Typed, TypeOK, Stop
    <3>3. stops' \in [Stoppers -> Stop] /\ StopsNamed'
      <4> HIDE DEF op
      <4> QED
        BY <1>2, <3>1, <3>2, OneStopTyped
    <3> QED
      BY <1>4, <2>1, <3>3 DEF StopSettled, Typed, TypeOK
  <2>2. CASE ~Detaches(s)
    <3>1. /\ Cascade(s, HeldUnder(stops[s].run), live, stopping)
          /\ stops[s].at = "settle"
      BY <1>4, <2>2 DEF StopSettled
    <3>2. HeldUnder(stops[s].run) \in SUBSET Runs
      BY DEF HeldUnder, Held
    <3>3. /\ starting' \in [Runs -> Opening \cup {None}]
          /\ live' \in [Runs -> Fiber \cup {None}]
          /\ stopping' \subseteq Runs
          /\ stops' \in [Stoppers -> Stop]
          /\ StopsNamed'
      BY <1>2, <1>3, <3>1, <3>2, CascadeTypes
    <3> QED
      BY <1>4, <3>3 DEF StopSettled, Typed, TypeOK
  <2> QED
    BY <2>1, <2>2
<1>5. CASE ChildStopped(s)
  <2> DEFINE fibers == InterruptFiber(live, stops[s].child,
                                      stops[s].childFiber)
             held == stopping \ {stops[s].child}
  <2>1. Cascade(s, stops[s].todo, fibers, held) /\ stops[s].at = "childSettle"
    BY <1>5 DEF ChildStopped
  <2>2. stops[s].todo \in SUBSET Runs /\ stops[s].child \in Runs \cup {None}
    BY <1>1 DEF Stop
  <2>3. fibers \in [Runs -> Fiber \cup {None}] /\ held \in SUBSET Runs
    BY <1>3, <2>2, InterruptTyped
  <2>4. /\ starting' \in [Runs -> Opening \cup {None}]
        /\ live' \in [Runs -> Fiber \cup {None}]
        /\ stopping' \subseteq Runs
        /\ stops' \in [Stoppers -> Stop]
        /\ StopsNamed'
    <3> HIDE DEF fibers, held
    <3> QED
      BY <1>2, <2>1, <2>2, <2>3, CascadeTypes
  <2> QED
    BY <1>5, <2>4 DEF ChildStopped, Typed, TypeOK
<1>6. CASE Detached(s)
  <2>1. live' \in [Runs -> Fiber \cup {None}]
    BY <1>2, <1>3, <1>6, InterruptTyped DEF Detached
  <2>2. Rest(s) \in Stop
    BY RestTyped DEF Typed
  <2>3. stops' \in [Stoppers -> Stop] /\ StopsNamed'
    BY <1>6, <2>2, RestNamed, OneStopTyped DEF Detached
  <2> QED
    BY <1>6, <2>1, <2>3 DEF Detached, Typed, TypeOK
<1> QED
  BY <1>4, <1>5, <1>6

\* A refused transaction ends the stop and keeps the types.
LEMMA RefusedTypes ==
    ASSUME Typed, NEW s \in Stoppers, StopRefused(s)
    PROVE  Typed'
<1>1. stops[s].run \in Runs
  BY DEF StopRefused, Typed, StopsNamed
<1>2. live' \in [Runs -> Fiber \cup {None}]
  <2>1. live \in [Runs -> Fiber \cup {None}]
    BY DEF Typed, TypeOK
  <2>2. ASSUME live[stops[s].run] # None
        PROVE  [live[stops[s].run] EXCEPT !.interrupted = TRUE] \in Fiber
    BY <1>1, <2>1, <2>2 DEF Fiber
  <2> QED
    BY <1>1, <2>1, <2>2 DEF StopRefused, Fiber
<1>3. Rest(s) \in Stop
  BY RestTyped DEF Typed
<1>4. stops' \in [Stoppers -> Stop] /\ StopsNamed'
  BY <1>3, RestNamed, OneStopTyped DEF StopRefused
<1>5. spent' \in [stops : Nat, refused : Nat, letGo : Nat]
  BY SpentTyped DEF StopRefused, Typed, TypeOK
<1> QED
  BY <1>2, <1>4, <1>5 DEF StopRefused, Typed, TypeOK

\* Every step keeps the types.
LEMMA TypedStep ==
    ASSUME Typed, [Next]_vars
    PROVE  Typed'
<1>1. CASE \E r \in Runs : StartBirth(r) \/ StartResume(r) \/ OpeningStep(r)
  BY <1>1, OpeningTypes
<1>2. CASE \/ \E r \in Runs : \/ EndRun(r) \/ ExitRun(r) \/ LetGo(r)
                             \/ TakeFiles(r) \/ ReleaseFiles(r)
           \/ Fold
  BY <1>2, FiberTypes
<1>3. CASE \E s \in Stoppers :
             \/ \E r \in Runs : StopAsk(s, r) \/ StopRoot(s, r)
             \/ StopAll(s) \/ StoppedAll(s)
  BY <1>3, AskingTypes
<1>4. CASE \E s \in Stoppers : StopCommit(s) \/ ChildCommit(s)
  BY <1>4, CommitTypes
<1>5. CASE \E s \in Stoppers :
             \/ StopSettled(s) \/ ChildStopped(s) \/ Detached(s)
             \/ StopRefused(s) \/ Detach(s)
  BY <1>5, SettledTypes, RefusedTypes, DetachTypes
<1>6. CASE UNCHANGED vars
  BY <1>6 DEF vars, Typed, TypeOK, StopsNamed
<1> QED
  BY <1>1, <1>2, <1>3, <1>4, <1>5, <1>6 DEF Next, StopStep

-----------------------------------------------------------------------------
(* What becomes of a run opened here.  DrivenOrEnded is not inductive: that *)
(* an opening may fail and leave nothing behind rests on the run having     *)
(* ended before it, and that a fiber may exit rests on its terminal.        *)

\* A run is opening or driven, never both.
Exclusive == \A r \in Runs : starting[r] = None \/ live[r] = None

\* A run opened here has rows.
OpenedIsBorn == \A r \in Runs : lives[r] > 0 => rows[r].born

\* A run opened here has its end, or an opening past its batch, or a fiber
\* whose terminal is still to run.
Accounted ==
    \A r \in Runs :
        lives[r] > 0 =>
            \/ rows[r].ended
            \/ /\ starting[r] # None
               /\ starting[r].at \notin {"reading", "building"}
            \/ Running(r)

\* A failed opening that recorded its stop left the run ended or unborn.
FailedIsOver ==
    \A r \in Runs : Opens(r, "failed") => rows[r].ended \/ ~rows[r].born

Fates == /\ Exclusive
         /\ FilesExcludeDriver
         /\ OpenedIsBorn
         /\ Accounted
         /\ FailedIsOver

\* A step that moves no opening and no fiber, gives birth to no run and
\* undoes no end, no stop asked of an opening and no interruption; one that
\* commits rows changes nothing else of the runs.
Quiet ==
    /\ UNCHANGED <<lives, busy>>
    /\ UNCHANGED rows \/ UNCHANGED <<starting, live>>
    /\ \A r \in Runs :
         /\ starting'[r] = None <=> starting[r] = None
         /\ starting[r] # None => SameOpening(starting[r], starting'[r])
         /\ live'[r] = None <=> live[r] = None
         /\ live[r] # None => SameFiber(live[r], live'[r])
         /\ rows'[r].born = rows[r].born
         /\ rows[r].ended => rows'[r].ended

\* Such a step keeps every run's fate.
LEMMA QuietKeeps ==
    ASSUME Typed, Fates, Quiet
    PROVE  Fates'
<1>1. Exclusive' /\ OpenedIsBorn' /\ FailedIsOver'
  BY DEF Fates, Exclusive, OpenedIsBorn, FailedIsOver, Opens, Quiet,
         SameOpening
<1>2. FilesExcludeDriver'
  BY DEF Fates, FilesExcludeDriver, Held, Quiet
<1>3. Accounted'
  BY DEF Fates, Accounted, Running, Quiet, SameOpening, SameFiber
<1> QED
  BY <1>1, <1>2, <1>3 DEF Fates

\* An opening that takes a stop goes on where it was.
LEMMA AskedStays ==
    ASSUME NEW o \in Opening, NEW reason \in Reasons
    PROVE  Asked(o, reason) # None /\ SameOpening(o, Asked(o, reason))
<1>1. SameOpening(o, Asked(o, reason))
  BY DEF Asked, Opening, SameOpening
<1>2. Asked(o, reason) \in Opening
  BY OpeningTyped
<1> QED
  BY <1>1, <1>2, NoneIsNothing

\* A cascade moves no opening and no fiber.
LEMMA CascadeIsQuiet ==
    ASSUME Typed, NEW s \in Stoppers, NEW todo \in SUBSET Runs,
           NEW fibers \in [Runs -> Fiber \cup {None}],
           \A q \in Runs : /\ fibers[q] = None <=> live[q] = None
                           /\ live[q] # None => SameFiber(live[q], fibers[q]),
           NEW held, Cascade(s, todo, fibers, held),
           UNCHANGED <<rows, lives, busy>>
    PROVE  Quiet
<1>1. stops[s].reason \in Reasons /\ stops[s].run \in Runs \cup {None}
  BY DEF Typed, TypeOK, Stop
<1>2. PICK S : AskOpenings(S, stops[s].reason)
  BY DEF Cascade
<1>3. ASSUME NEW r \in Runs
      PROVE  /\ starting'[r] = None <=> starting[r] = None
             /\ starting[r] # None => SameOpening(starting[r], starting'[r])
  <2>1. starting[r] \in Opening \cup {None}
    BY DEF Typed, TypeOK
  <2>2. starting'[r] = IF r \in S /\ starting[r] # None
                       THEN Asked(starting[r], stops[s].reason)
                       ELSE starting[r]
    BY <1>2 DEF AskOpenings
  <2> QED
    BY <1>1, <2>1, <2>2, AskedStays DEF SameOpening
<1>4. \/ live' = fibers
      \/ live' = InterruptFiber(fibers, stops[s].run, stops[s].fiber)
  BY DEF Cascade
<1>5. ASSUME NEW r \in Runs
      PROVE  /\ live'[r] = None <=> live[r] = None
             /\ live[r] # None => SameFiber(live[r], live'[r])
  <2>1. CASE live' = fibers
    BY <2>1
  <2>2. CASE live' = InterruptFiber(fibers, stops[s].run, stops[s].fiber)
    <3>1. /\ live'[r] = None <=> fibers[r] = None
          /\ fibers[r] # None => SameFiber(fibers[r], live'[r])
      <4>1. ASSUME NEW run \in Runs \cup {None}, NEW fiber,
                   live' = InterruptFiber(fibers, run, fiber)
            PROVE  /\ live'[r] = None <=> fibers[r] = None
                   /\ fibers[r] # None => SameFiber(fibers[r], live'[r])
        BY <4>1, InterruptTyped, SMTT(60)
      <4> QED
        BY <1>1, <2>2, <4>1
    <3> QED
      BY <3>1 DEF SameFiber
  <2> QED
    BY <1>4, <2>1, <2>2
<1> QED
  BY <1>3, <1>5 DEF Quiet

\* Nor does any other step of a stop, an interruption or the view's fold.
LEMMA StopIsQuiet ==
    ASSUME Typed,
           \/ \E s \in Stoppers :
                \/ \E r \in Runs : StopAsk(s, r) \/ StopRoot(s, r)
                \/ StopAll(s) \/ StoppedAll(s) \/ Detach(s)
                \/ StopCommit(s) \/ ChildCommit(s) \/ StopSettled(s)
                \/ ChildStopped(s) \/ Detached(s) \/ StopRefused(s)
           \/ \E r \in Runs : LetGo(r)
           \/ Fold
    PROVE  Quiet
<1>1. ASSUME NEW s \in Stoppers, NEW r \in Runs,
             StopAsk(s, r) \/ StopRoot(s, r)
      PROVE  Quiet
  <2>1. PICK reason \in Reasons : \E roots : Ask(s, r, reason, roots)
    BY <1>1 DEF StopAsk, StopRoot, Reasons
  <2>2. starting[r] \in Opening \cup {None} /\ r \in DOMAIN starting
    BY DEF Typed, TypeOK
  <2>3. \/ starting' = starting
        \/ /\ starting[r] # None
           /\ starting' = [starting EXCEPT ![r] = Asked(starting[r], reason)]
    BY <2>1 DEF Ask
  <2>4. \A q \in Runs : /\ starting'[q] = None <=> starting[q] = None
                        /\ starting[q] # None
                             => SameOpening(starting[q], starting'[q])
    BY <2>2, <2>3, AskedStays DEF Typed, TypeOK, SameOpening
  <2> QED
    BY <1>1, <2>4 DEF StopAsk, StopRoot, Quiet, SameFiber
<1>2. ASSUME NEW s \in Stoppers, StopAll(s) \/ StoppedAll(s) \/ Detach(s)
      PROVE  Quiet
  BY <1>2 DEF StopAll, StoppedAll, Detach, Quiet, SameOpening, SameFiber
<1>3. ASSUME NEW s \in Stoppers, StopCommit(s) \/ ChildCommit(s)
      PROVE  Quiet
  <2>1. stops[s].reason \in Reasons \cup {None}
    BY DEF Typed, TypeOK, Stop
  <2>2. PICK r \in Runs, end \in BOOLEAN :
          rows' = StopRows(r, stops[s].reason, end)
    BY <1>3 DEF StopCommit, ChildCommit, Typed, StopsNamed
  <2>3. \A q \in Runs : /\ rows'[q].born = rows[q].born
                        /\ rows[q].ended => rows'[q].ended
    BY <2>1, <2>2, StopRowsFacts DEF Typed
  <2> QED
    BY <1>3, <2>3 DEF StopCommit, ChildCommit, Quiet, SameOpening, SameFiber
<1>4. ASSUME NEW s \in Stoppers, StopSettled(s)
      PROVE  Quiet
  <2>1. CASE Detaches(s)
    BY <1>4, <2>1 DEF StopSettled, Quiet, SameOpening, SameFiber
  <2>2. CASE ~Detaches(s)
    <3>1. HeldUnder(stops[s].run) \in SUBSET Runs
      BY DEF HeldUnder, Held
    <3>2. live \in [Runs -> Fiber \cup {None}]
      BY DEF Typed, TypeOK
    <3>3. /\ Cascade(s, HeldUnder(stops[s].run), live, stopping)
          /\ UNCHANGED <<rows, lives, busy>>
      BY <1>4, <2>2 DEF StopSettled
    <3> QED
      BY <3>1, <3>2, <3>3, CascadeIsQuiet DEF SameFiber
  <2> QED
    BY <2>1, <2>2
<1>5. ASSUME NEW s \in Stoppers, ChildStopped(s)
      PROVE  Quiet
  <2> DEFINE fibers == InterruptFiber(live, stops[s].child,
                                      stops[s].childFiber)
  <2>1. live \in [Runs -> Fiber \cup {None}]
    BY DEF Typed, TypeOK
  <2>2. stops[s].todo \in SUBSET Runs /\ stops[s].child \in Runs \cup {None}
    BY DEF Typed, TypeOK, Stop
  <2>3. fibers \in [Runs -> Fiber \cup {None}]
    BY <2>1, <2>2, InterruptTyped
  <2>5. \A q \in Runs : /\ fibers[q] = None <=> live[q] = None
                        /\ live[q] # None => SameFiber(live[q], fibers[q])
    BY <2>1, <2>2, InterruptTyped
  <2> DEFINE held == stopping \ {stops[s].child}
  <2>4. /\ Cascade(s, stops[s].todo, fibers, held)
        /\ UNCHANGED <<rows, lives, busy>>
    BY <1>5 DEF ChildStopped
  <2> HIDE DEF fibers, held
  <2> QED
    BY <2>2, <2>3, <2>4, <2>5, CascadeIsQuiet
<1>6. ASSUME NEW s \in Stoppers, Detached(s)
      PROVE  Quiet
  <2>1. live \in [Runs -> Fiber \cup {None}] /\ stops[s].run \in Runs
    BY <1>6 DEF Detached, Typed, TypeOK, StopsNamed
  <2>2. live' = InterruptFiber(live, stops[s].run, stops[s].fiber)
    BY <1>6 DEF Detached
  <2>3. \A q \in Runs : /\ live'[q] = None <=> live[q] = None
                        /\ live[q] # None => SameFiber(live[q], live'[q])
    BY <2>1, <2>2, InterruptTyped
  <2> QED
    BY <1>6, <2>3 DEF Detached, Quiet, SameOpening
<1>7. ASSUME NEW r \in Runs,
             \/ live' = live
             \/ /\ live[r] # None
                /\ live' = [live EXCEPT ![r].interrupted = TRUE],
             UNCHANGED <<rows, lives, starting, busy>>
      PROVE  Quiet
  <2>1. live \in [Runs -> Fiber \cup {None}]
    BY DEF Typed, TypeOK
  <2>2. \A q \in Runs : /\ live'[q] = None <=> live[q] = None
                        /\ live[q] # None => SameFiber(live[q], live'[q])
    <3>1. CASE live' = live
      BY <3>1 DEF SameFiber
    <3>2. CASE /\ live[r] # None
               /\ live' = [live EXCEPT ![r].interrupted = TRUE]
      <4>1. live[r] \in Fiber
        BY <2>1, <3>2
      <4>2. live'[r] \in Fiber /\ SameFiber(live[r], live'[r])
        BY <2>1, <3>2, <4>1 DEF Fiber, SameFiber
      <4>3. \A q \in Runs \ {r} : live'[q] = live[q]
        BY <2>1, <3>2
      <4> QED
        BY <3>2, <4>2, <4>3, NoneIsNothing DEF SameFiber
    <3> QED
      BY <1>7, <3>1, <3>2
  <2> QED
    BY <1>7, <2>2 DEF Quiet, SameOpening
<1>8. ASSUME NEW s \in Stoppers, StopRefused(s)
      PROVE  Quiet
  <2>1. stops[s].run \in Runs
    BY <1>8 DEF StopRefused, Typed, StopsNamed
  <2> QED
    BY <1>7, <1>8, <2>1 DEF StopRefused
<1>9. ASSUME NEW r \in Runs, LetGo(r)
      PROVE  Quiet
  BY <1>7, <1>9 DEF LetGo
<1>10. CASE Fold
  <2>1. ASSUME NEW r \in Runs
        PROVE  /\ starting'[r] = None <=> starting[r] = None
               /\ starting[r] # None => SameOpening(starting[r], starting'[r])
    <3>1. starting'[r] = IF starting[r] = None THEN None
                         ELSE [starting[r] EXCEPT !.lag = Less(@)]
      BY <1>10 DEF Fold
    <3>2. ASSUME starting[r] # None
          PROVE  /\ [starting[r] EXCEPT !.lag = Less(@)] \in Opening
                 /\ [starting[r] EXCEPT !.lag = Less(@)].at = starting[r].at
      <4>1. starting[r] \in Opening
        BY <3>2 DEF Typed, TypeOK
      <4>2. [starting[r] EXCEPT !.lag = Less(@)] \in Opening
        BY <4>1, OpeningTyped
      <4>3. [starting[r] EXCEPT !.lag = Less(@)].at = starting[r].at
        BY <4>1 DEF Opening
      <4> QED
        BY <4>2, <4>3
    <3> QED
      BY <3>1, <3>2, NoneIsNothing DEF SameOpening
  <2> QED
    BY <1>10, <2>1 DEF Fold, Quiet, SameFiber
<1> QED
  BY <1>1, <1>2, <1>3, <1>4, <1>5, <1>6, <1>8, <1>9, <1>10

\* A step of one run's opening or fiber keeps the others' fates.
LEMMA OneFate ==
    ASSUME Typed, Fates, NEW r \in Runs,
           \A q \in Runs \ {r} :
             /\ starting'[q] = starting[q] /\ live'[q] = live[q]
             /\ rows'[q] = rows[q] /\ lives'[q] = lives[q],
           busy' \ {r} \subseteq busy,
           starting'[r] = None \/ live'[r] = None,
           r \in busy' => starting'[r] = None /\ live'[r] = None,
           lives'[r] > 0 =>
             /\ rows'[r].born
             /\ \/ rows'[r].ended
                \/ /\ starting'[r] # None
                   /\ starting'[r].at \notin {"reading", "building"}
                \/ live'[r] # None /\ live'[r].phase = "running",
           starting'[r] # None /\ starting'[r].at = "failed"
             => rows'[r].ended \/ ~rows'[r].born
    PROVE  Fates'
<1>1. Exclusive'
  BY DEF Fates, Exclusive
<1>2. FilesExcludeDriver'
  BY DEF Fates, FilesExcludeDriver, Held
<1>3. OpenedIsBorn'
  BY DEF Fates, OpenedIsBorn
<1>4. Accounted'
  BY DEF Fates, Accounted, Running
<1>5. FailedIsOver'
  BY DEF Fates, FailedIsOver, Opens
<1> QED
  BY <1>1, <1>2, <1>3, <1>4, <1>5 DEF Fates

\* Every step of a run's opening keeps the fates.
LEMMA OpeningFates ==
    ASSUME Typed, Fates, NEW r \in Runs,
           StartBirth(r) \/ StartResume(r) \/ OpeningStep(r)
    PROVE  Fates'
<1>1. /\ rows \in [Runs -> Row] /\ lives \in [Runs -> Nat]
      /\ starting \in [Runs -> Opening \cup {None}]
      /\ live \in [Runs -> Fiber \cup {None}]
  BY DEF Typed, TypeOK
<1>2. /\ starting[r] = None \/ live[r] = None
      /\ lives[r] > 0 => rows[r].born
      /\ lives[r] > 0 =>
           \/ rows[r].ended
           \/ /\ starting[r] # None
              /\ starting[r].at \notin {"reading", "building"}
           \/ live[r] # None /\ live[r].phase = "running"
      /\ starting[r] # None \/ live[r] # None => r \notin busy
      /\ starting[r] # None /\ starting[r].at = "failed"
           => rows[r].ended \/ ~rows[r].born
  <2>1. starting[r] = None \/ live[r] = None
    BY DEF Fates, Exclusive
  <2>2. lives[r] > 0 => rows[r].born
    BY DEF Fates, OpenedIsBorn
  <2>3. lives[r] > 0 =>
          \/ rows[r].ended
          \/ /\ starting[r] # None
             /\ starting[r].at \notin {"reading", "building"}
          \/ live[r] # None /\ live[r].phase = "running"
    BY DEF Fates, Accounted, Running
  <2>4. starting[r] # None \/ live[r] # None => r \notin busy
    BY DEF Fates, FilesExcludeDriver, Held
  <2>5. starting[r] # None /\ starting[r].at = "failed"
          => rows[r].ended \/ ~rows[r].born
    BY DEF Fates, FailedIsOver, Opens
  <2> QED
    BY <2>1, <2>2, <2>3, <2>4, <2>5
<1>3. CASE StartBirth(r) \/ StartResume(r)
  <2> DEFINE o(b) == [at |-> "reading", resume |-> b, stop |-> None,
                      lag |-> 0]
  <2>1. /\ live[r] = None /\ starting[r] = None /\ r \notin busy
        /\ \E b \in BOOLEAN : starting' = [starting EXCEPT ![r] = o(b)]
        /\ UNCHANGED <<rows, lives, live, busy>>
    BY <1>3 DEF StartBirth, StartResume, Admits, Free, Enter
  <2>2. \A b \in BOOLEAN : o(b) \in Opening /\ o(b).at = "reading"
    BY DEF Opening
  <2>3. starting'[r] # None /\ starting'[r].at = "reading"
    BY <1>1, <2>1, <2>2, NoneIsNothing
  <2> QED
    BY <1>1, <1>2, <2>1, <2>3, OneFate
\* A failed opening is let go, or left to record its stop.
<1>4. ASSUME NEW stop \in Reasons \cup {None}, Fail(r, stop),
             starting[r] # None,
             starting[r].at \in {"reading", "building"} \/ stop # None,
             UNCHANGED <<rows, lives, live, busy>>
      PROVE  Fates'
  <2>1. CASE stop = None
    <3>1. starting' = [starting EXCEPT ![r] = None]
      BY <1>4, <2>1 DEF Fail
    <3> QED
      BY <1>1, <1>2, <1>4, <2>1, <3>1, OneFate
  <2>2. CASE stop # None
    <3> DEFINE o == [starting[r] EXCEPT !.stop = stop, !.at = "failing"]
    <3>1. starting' = [starting EXCEPT ![r] = o]
      BY <1>1, <1>4, <2>2 DEF Fail
    <3>2. o \in Opening /\ o.at = "failing"
      BY <1>1, <1>4, <2>2 DEF Opening
    <3>3. starting'[r] # None /\ starting'[r].at = "failing"
      BY <1>1, <3>1, <3>2, NoneIsNothing
    <3>4. \A q \in Runs \ {r} : starting'[q] = starting[q]
      BY <1>1, <3>1
    <3> QED
      BY <1>2, <1>4, <3>3, <3>4, OneFate
  <2> QED
    BY <2>1, <2>2
<1>5. starting[r] # None => starting[r].stop \in Reasons \cup {None}
  BY <1>1 DEF Opening
\* An opening that goes on, its rows at most stopped or ended.
<1>6. ASSUME NEW o \in Opening, starting' = [starting EXCEPT ![r] = o],
             starting[r] # None,
             o.at \notin {"reading", "building"}
               \/ starting[r].at \in {"reading", "building"},
             o.at = "failed" => rows'[r].ended \/ ~rows'[r].born,
             UNCHANGED <<live, busy>>,
             rows'[r].born = rows[r].born, rows[r].ended => rows'[r].ended,
             \A q \in Runs \ {r} : rows'[q] = rows[q],
             UNCHANGED lives
      PROVE  Fates'
  <2>1. /\ starting'[r] = o /\ o # None
        /\ \A q \in Runs \ {r} : starting'[q] = starting[q]
    BY <1>1, <1>6, NoneIsNothing
  <2> QED
    BY <1>2, <1>6, <2>1, OneFate
<1>7. CASE Read(r)
  <2>1. CASE Refused(r)
    BY <1>4, <1>5, <1>7, <2>1 DEF Read, Opens
  <2>2. CASE ~Refused(r)
    <3> DEFINE o == [starting[r] EXCEPT !.at = "building"]
    <3>1. /\ starting[r] # None /\ starting[r].at = "reading"
          /\ starting' = [starting EXCEPT ![r] = o]
      BY <1>1, <1>7, <2>2 DEF Read, Opens, Move, Opening
    <3>2. o \in Opening /\ o.at = "building"
      BY <1>1, <3>1 DEF Opening
    <3> HIDE DEF o
    <3> QED
      BY <1>6, <1>7, <3>1, <3>2 DEF Read
  <2> QED
    BY <2>1, <2>2
<1>8. CASE OpenFails(r)
  BY <1>4, <1>5, <1>8 DEF OpenFails, Opens
<1>9. CASE Cut(r)
  <2>1. CutStop(r) \in Reasons /\ CutStop(r) # None
    BY <1>5, <1>9, NoneIsNothing DEF Cut, CutStop, Reasons
  <2> QED
    BY <1>4, <1>9, <2>1 DEF Cut
<1>10. CASE Open(r)
  <2>1. starting[r] \in Opening /\ live[r] = None /\ r \notin busy
    BY <1>1, <1>2, <1>10 DEF Open, Opens
  <2>2. /\ \A q \in Runs \ {r} : /\ starting'[q] = starting[q]
                                 /\ rows'[q] = rows[q]
                                 /\ lives'[q] = lives[q]
        /\ rows'[r].born
        /\ UNCHANGED <<live, busy>>
    BY <1>1, <1>10 DEF Open
  <2>3. starting'[r].at = "settling" /\ starting'[r] # None
    <3>1. starting' \in [Runs -> Opening \cup {None}]
      BY <1>10, OpeningTypes DEF OpeningStep, Typed, TypeOK
    <3>2. starting'[r] = [starting[r] EXCEPT !.at = "settling",
                                             !.lag = Len(unfolded')]
      BY <1>1, <1>10, <2>1 DEF Open, Opening
    <3>3. starting'[r].at = "settling"
      BY <2>1, <3>2 DEF Opening
    <3>4. starting'[r] # None
      <4>1. unfolded' \in Seq(Runs \X (Runs \cup {None}))
        BY <1>10, OpeningTypes DEF OpeningStep, Typed, TypeOK
      <4>2. Len(unfolded') \in Nat
        BY <4>1
      <4>3. starting'[r] \in Opening
        BY <2>1, <3>2, <4>2 DEF Opening
      <4> QED
        BY <4>3, NoneIsNothing
    <3> QED
      BY <3>3, <3>4
  <2> QED
    BY <2>1, <2>2, <2>3, OneFate
\* The opening answered: the run is driven from now on.
<1>11. ASSUME NEW b \in BOOLEAN, Fork(r, b), starting[r] # None,
              UNCHANGED <<rows, lives, busy>>
       PROVE  Fates'
  <2>1. live'[r] = [phase |-> "running", interrupted |-> b]
        /\ starting'[r] = None
        /\ \A q \in Runs \ {r} : /\ starting'[q] = starting[q]
                                 /\ live'[q] = live[q]
    BY <1>1, <1>11 DEF Fork
  <2>2. live'[r] # None /\ live'[r].phase = "running"
    <3>1. live'[r] \in Fiber
      BY <2>1 DEF Fiber
    <3> QED
      BY <2>1, <3>1, NoneIsNothing
  <2> QED
    BY <1>2, <1>11, <2>1, <2>2, OneFate
<1>12. CASE Answer(r)
  <2>1. CASE StopOf(r) = None
    BY <1>11, <1>12, <2>1 DEF Answer, Opens
  <2>2. CASE StopOf(r) # None
    <3> DEFINE o == [starting[r] EXCEPT !.at = "stopping",
                                        !.stop = StopOf(r)]
    <3>1. starting[r] \in Opening /\ StopOf(r) \in Reasons
      BY <1>1, <1>5, <1>12, <2>2 DEF Answer, Opens, StopOf, Reasons
    <3>2. starting' = [starting EXCEPT ![r] = o]
      BY <1>1, <1>12, <2>2, <3>1 DEF Answer, Opening
    <3>3. o \in Opening /\ o.at = "stopping"
      BY <3>1 DEF Opening
    <3> HIDE DEF o
    <3> QED
      BY <1>6, <1>12, <2>2, <3>2, <3>3 DEF Answer, Opens
  <2> QED
    BY <2>1, <2>2
<1>13. CASE RecordOpeningStop(r)
  <2> DEFINE end == starting[r].at = "failing"
             o == [starting[r] EXCEPT !.lag = LagOf(r, end),
                     !.at = IF end THEN "failed" ELSE "stopped"]
  <2>1. /\ starting[r] \in Opening /\ end \in BOOLEAN
        /\ starting[r].stop \in Reasons \cup {None}
        /\ LagOf(r, end) \in Nat
    BY <1>1, <1>5, <1>13, LagIsNat DEF RecordOpeningStop, Typed
  <2>2. starting' = [starting EXCEPT ![r] = o]
    BY <1>1, <1>13, <2>1 DEF RecordOpeningStop, Opening
  <2>3. o \in Opening /\ o.at = IF end THEN "failed" ELSE "stopped"
    BY <2>1 DEF Opening
  <2>4. rows' = StopRows(r, starting[r].stop, end)
    BY <1>13 DEF RecordOpeningStop
  <2>5. /\ rows'[r].born = rows[r].born
        /\ rows[r].ended => rows'[r].ended
        /\ end /\ rows[r].born => rows'[r].ended
    BY <2>1, <2>4, StopRowsFacts DEF Typed
  <2>6. \A q \in Runs \ {r} : rows'[q] = rows[q]
    BY <1>1, <2>4 DEF StopRows
  <2>7. o.at = "failed" => rows'[r].ended \/ ~rows'[r].born
    BY <2>3, <2>5
  <2> HIDE DEF o, end
  <2> QED
    BY <1>6, <1>13, <2>2, <2>3, <2>5, <2>6, <2>7 DEF RecordOpeningStop
<1>14. CASE ForkStopped(r)
  BY <1>11, <1>14 DEF ForkStopped, Opens
<1>15. CASE LeaveFailed(r)
  <2>1. /\ starting[r] # None /\ starting[r].at = "failed"
        /\ starting' = [starting EXCEPT ![r] = None]
        /\ UNCHANGED <<rows, lives, live, busy>>
    BY <1>15 DEF LeaveFailed, Opens
  <2> QED
    BY <1>1, <1>2, <2>1, OneFate
<1> QED
  BY <1>3, <1>7, <1>8, <1>9, <1>10, <1>12, <1>13, <1>14, <1>15 DEF OpeningStep

\* A run's terminal and exit, and a file operation, keep the fates.
LEMMA FiberFates ==
    ASSUME Typed, Fates, NEW r \in Runs,
           EndRun(r) \/ ExitRun(r) \/ TakeFiles(r) \/ ReleaseFiles(r)
    PROVE  Fates'
<1>1. /\ rows \in [Runs -> Row] /\ lives \in [Runs -> Nat]
      /\ starting \in [Runs -> Opening \cup {None}]
      /\ live \in [Runs -> Fiber \cup {None}]
  BY DEF Typed, TypeOK
<1>2. starting[r] = None \/ live[r] = None
  BY DEF Fates, Exclusive
<1>3. lives[r] > 0 =>
        /\ rows[r].born
        /\ \/ rows[r].ended
           \/ /\ starting[r] # None
              /\ starting[r].at \notin {"reading", "building"}
           \/ live[r] # None /\ live[r].phase = "running"
  BY DEF Fates, OpenedIsBorn, Accounted, Running
<1>4. starting[r] # None \/ live[r] # None => r \notin busy
  BY DEF Fates, FilesExcludeDriver, Held
<1>5. starting[r] # None /\ starting[r].at = "failed"
        => rows[r].ended \/ ~rows[r].born
  BY DEF Fates, FailedIsOver, Opens
<1>6. CASE EndRun(r)
  <2>1. /\ \A q \in Runs \ {r} : live'[q] = live[q] /\ rows'[q] = rows[q]
        /\ rows'[r].born = rows[r].born /\ rows'[r].ended
        /\ live[r] # None
        /\ UNCHANGED <<starting, lives, busy>>
    BY <1>1, <1>6 DEF EndRun, Row
  <2> QED
    BY <1>2, <1>3, <1>4, <2>1, OneFate
<1>7. CASE ExitRun(r)
  <2>1. /\ \A q \in Runs \ {r} : live'[q] = live[q]
        /\ live'[r] = None
        /\ live[r] # None /\ live[r].phase = "ended"
        /\ UNCHANGED <<rows, starting, lives, busy>>
    BY <1>1, <1>7 DEF ExitRun
  <2> QED
    BY <1>2, <1>3, <1>4, <2>1, OneFate
<1>8. CASE TakeFiles(r)
  <2>1. /\ starting[r] = None /\ live[r] = None
        /\ busy' = busy \cup {r}
        /\ UNCHANGED <<rows, starting, lives, live>>
    BY <1>8 DEF TakeFiles, Held
  <2> QED
    BY <1>3, <2>1, OneFate
<1>9. CASE ReleaseFiles(r)
  <2>1. /\ busy' = busy \ {r}
        /\ UNCHANGED <<rows, starting, lives, live>>
    BY <1>9 DEF ReleaseFiles
  <2> QED
    BY <1>2, <1>3, <1>5, <2>1, OneFate
<1> QED
  BY <1>6, <1>7, <1>8, <1>9

-----------------------------------------------------------------------------
(* Theorems. *)

IInv == Typed /\ Fates

\* The invariant holds when a session opens.
LEMMA InitIInv ==
    ASSUME Init
    PROVE  IInv
<1>1. /\ [born |-> FALSE, stop |-> None, ended |-> FALSE] \in Row
      /\ [born |-> TRUE, stop |-> None, ended |-> FALSE] \in Row
      /\ [born |-> TRUE, stop |-> None, ended |-> TRUE] \in Row
      /\ Idle \in Stop
  BY DEF Row, Idle, Stop, Reasons
<1>2. rows \in [Runs -> Row]
  BY <1>1 DEF Init
<1>3. seen \in [Runs -> Runs \cup {None}]
  BY ParentsAreRuns DEF Init
<1>4. stops \in [Stoppers -> Stop] /\ StopsNamed
  BY <1>1 DEF Init, StopsNamed, Idle
<1>5. unfolded \in Seq(Runs \X (Runs \cup {None}))
  BY DEF Init
<1>6. Typed
  BY <1>2, <1>3, <1>4, <1>5 DEF Init, Typed, TypeOK
<1>7. Fates
  BY DEF Init, Fates, Exclusive, FilesExcludeDriver, OpenedIsBorn, Accounted,
         FailedIsOver, Opens, Held
<1> QED
  BY <1>6, <1>7 DEF IInv

\* Every step keeps it.
LEMMA StepIInv ==
    ASSUME IInv, [Next]_vars
    PROVE  IInv'
<1> USE DEF IInv
<1>1. Typed'
  BY TypedStep
<1>2. CASE \E r \in Runs : StartBirth(r) \/ StartResume(r) \/ OpeningStep(r)
  BY <1>1, <1>2, OpeningFates
<1>3. CASE \E r \in Runs :
             EndRun(r) \/ ExitRun(r) \/ TakeFiles(r) \/ ReleaseFiles(r)
  BY <1>1, <1>3, FiberFates
<1>4. CASE \/ \E s \in Stoppers :
                \/ \E r \in Runs : StopAsk(s, r) \/ StopRoot(s, r)
                \/ StopAll(s) \/ StoppedAll(s) \/ Detach(s)
                \/ StopCommit(s) \/ ChildCommit(s) \/ StopSettled(s)
                \/ ChildStopped(s) \/ Detached(s) \/ StopRefused(s)
           \/ \E r \in Runs : LetGo(r)
           \/ Fold
  BY <1>1, <1>4, StopIsQuiet, QuietKeeps
<1>5. CASE UNCHANGED vars
  <2>1. Quiet
    BY <1>5 DEF vars, Quiet, SameOpening, SameFiber
  <2> QED
    BY <1>1, <2>1, QuietKeeps
<1> QED
  BY <1>2, <1>3, <1>4, <1>5 DEF Next, StopStep

\* The invariant of the registry, whatever the tree of runs.
THEOREM RegistryInvariant == Spec => []IInv
<1>1. Init => IInv
  BY InitIInv
<1>2. IInv /\ [Next]_vars => IInv'
  BY StepIInv
<1> QED
  BY <1>1, <1>2, PTL DEF Spec

\* Type correctness of the registry.
THEOREM RegistryTypeOK == Spec => []TypeOK
<1>1. IInv => TypeOK
  BY DEF IInv, Typed
<1> QED
  BY <1>1, RegistryInvariant, PTL

\* A file operation never holds a run that is driven or opening here: start
\* waits for it, and it is refused while the run is held (withInactiveRun).
THEOREM RegistryFilesExcludeDriver == Spec => []FilesExcludeDriver
<1>1. IInv => FilesExcludeDriver
  BY DEF IInv, Fates
<1> QED
  BY <1>1, RegistryInvariant, PTL

\* A run opened here always has its fiber or its end (start, 304-306).
THEOREM RegistryDrivenOrEnded == Spec => []DrivenOrEnded
<1>1. IInv => DrivenOrEnded
  BY DEF IInv, Fates, Accounted, DrivenOrEnded, Held, Running
<1> QED
  BY <1>1, RegistryInvariant, PTL

\* What AskedStopIsApplied asks of one run in one step.
Applied(r) ==
    starting[r] # None /\ starting'[r] = None /\ starting[r].stop # None
    => \/ live'[r] # None /\ live'[r].interrupted
       \/ rows'[r].ended \/ ~rows'[r].born

\* A step of an opening applies the stop asked of it before it is over.
LEMMA OpeningApplies ==
    ASSUME IInv, NEW r \in Runs, OpeningStep(r),
           starting[r] # None, starting'[r] = None, starting[r].stop # None
    PROVE  \/ live'[r] # None /\ live'[r].interrupted
           \/ rows'[r].ended \/ ~rows'[r].born
<1>1. /\ starting \in [Runs -> Opening \cup {None}]
      /\ live \in [Runs -> Fiber \cup {None}]
      /\ starting[r] \in Opening
      /\ starting[r].stop \in Reasons
  BY DEF IInv, Typed, TypeOK, Opening
\* An opening that goes on is not over.
<1>2. ASSUME NEW o \in Opening, starting' = [starting EXCEPT ![r] = o]
      PROVE  FALSE
  BY <1>1, <1>2, NoneIsNothing
<1>3. ASSUME NEW stop \in Reasons, Fail(r, stop)
      PROVE  FALSE
  <2> DEFINE o == [starting[r] EXCEPT !.stop = stop, !.at = "failing"]
  <2>1. o \in Opening
    BY <1>1 DEF Opening
  <2>2. starting' = [starting EXCEPT ![r] = o]
    BY <1>1, <1>3, NoneIsNothing DEF Fail, Opening
  <2> QED
    BY <1>2, <2>1, <2>2
<1>4. CASE Read(r)
  <2>1. CASE Refused(r)
    BY <1>1, <1>3, <1>4, <2>1 DEF Read
  <2>2. CASE ~Refused(r)
    <3>1. starting' = [starting EXCEPT ![r] = [starting[r] EXCEPT
                         !.at = "building"]]
      BY <1>1, <1>4, <2>2 DEF Read, Move, Opening
    <3> QED
      BY <1>1, <1>2, <3>1, OpeningTyped
  <2> QED
    BY <2>1, <2>2
<1>5. CASE OpenFails(r)
  BY <1>1, <1>3, <1>5 DEF OpenFails
<1>6. CASE Cut(r)
  <2>1. CutStop(r) \in Reasons
    BY <1>1 DEF CutStop
  <2> QED
    BY <1>3, <1>6, <2>1 DEF Cut
<1>7. CASE Open(r)
  <2>1. Typed'
    BY <1>7, OpeningTypes DEF OpeningStep, IInv
  <2>2. Len(unfolded') \in Nat
    <3>1. unfolded' \in Seq(Runs \X (Runs \cup {None}))
      BY <2>1 DEF Typed, TypeOK
    <3> QED
      BY <3>1
  <2>3. starting' = [starting EXCEPT ![r] = [starting[r] EXCEPT
                        !.at = "settling", !.lag = Len(unfolded')]]
    BY <1>1, <1>7 DEF Open, Opening
  <2>4. [starting[r] EXCEPT !.at = "settling", !.lag = Len(unfolded')]
          \in Opening
    BY <1>1, <2>2, OpeningTyped
  <2> QED
    BY <1>2, <2>3, <2>4
<1>8. CASE Answer(r)
  <2>1. StopOf(r) = starting[r].stop /\ StopOf(r) # None
    BY <1>1 DEF StopOf
  <2>2. starting' = [starting EXCEPT ![r] = [starting[r] EXCEPT
                        !.at = "stopping", !.stop = StopOf(r)]]
    BY <1>1, <1>8, <2>1 DEF Answer, Opening
  <2>3. [starting[r] EXCEPT !.at = "stopping", !.stop = StopOf(r)] \in Opening
    BY <1>1, <2>1 DEF Opening
  <2> QED
    BY <1>2, <2>2, <2>3
<1>9. CASE RecordOpeningStop(r)
  <2> DEFINE end == starting[r].at = "failing"
             o == [starting[r] EXCEPT !.lag = LagOf(r, end),
                     !.at = IF end THEN "failed" ELSE "stopped"]
  <2>1. LagOf(r, end) \in Nat
    BY LagIsNat DEF IInv, Typed
  <2>2. o \in Opening
    BY <1>1, <2>1 DEF Opening
  <2>3. starting' = [starting EXCEPT ![r] = o]
    BY <1>1, <1>9 DEF RecordOpeningStop, Opening
  <2> QED
    BY <1>2, <2>2, <2>3
<1>10. CASE ForkStopped(r)
  <2>1. live'[r] = [phase |-> "running", interrupted |-> TRUE]
    BY <1>1, <1>10 DEF ForkStopped, Fork
  <2>2. live'[r] \in Fiber
    BY <2>1 DEF Fiber
  <2>3. live'[r] # None
    BY <2>2, NoneIsNothing
  <2>4. live'[r].interrupted
    BY <2>1
  <2> QED
    BY <2>3, <2>4
<1>11. CASE LeaveFailed(r)
  <2>1. Opens(r, "failed") /\ rows' = rows
    BY <1>11 DEF LeaveFailed
  <2>2. FailedIsOver
    BY DEF IInv, Fates
  <2> QED
    BY <2>1, <2>2 DEF FailedIsOver
<1> QED
  BY <1>4, <1>5, <1>6, <1>7, <1>8, <1>9, <1>10, <1>11 DEF OpeningStep

\* No other step ends an opening.
LEMMA StepApplies ==
    ASSUME IInv, [Next]_vars, NEW r \in Runs
    PROVE  Applied(r)
<1>1. starting \in [Runs -> Opening \cup {None}]
  BY DEF IInv, Typed, TypeOK
<1>2. CASE OpeningStep(r)
  BY <1>2, OpeningApplies DEF Applied
<1>3. ASSUME starting'[r] = starting[r]
      PROVE  Applied(r)
  BY <1>3 DEF Applied
<1>4. ASSUME NEW q \in Runs, OpeningStep(q), q # r
      PROVE  starting'[r] = starting[r]
  BY <1>1, <1>4 DEF OpeningStep, Read, OpenFails, Open, Cut, Answer, Fail,
     Move, Fork, RecordOpeningStop, ForkStopped, LeaveFailed
<1>5. ASSUME NEW q \in Runs, StartBirth(q) \/ StartResume(q)
      PROVE  Applied(r)
  BY <1>1, <1>5 DEF StartBirth, StartResume, Admits, Free, Enter, Applied
<1>6. CASE \E q \in Runs :
             EndRun(q) \/ ExitRun(q) \/ TakeFiles(q) \/ ReleaseFiles(q)
  BY <1>3, <1>6 DEF EndRun, ExitRun, TakeFiles, ReleaseFiles
<1>7. CASE \/ \E s \in Stoppers :
                \/ \E q \in Runs : StopAsk(s, q) \/ StopRoot(s, q)
                \/ StopAll(s) \/ StoppedAll(s) \/ Detach(s)
                \/ StopCommit(s) \/ ChildCommit(s) \/ StopSettled(s)
                \/ ChildStopped(s) \/ Detached(s) \/ StopRefused(s)
           \/ \E q \in Runs : LetGo(q)
           \/ Fold
  <2>1. Quiet
    BY <1>7, StopIsQuiet DEF IInv
  <2> QED
    BY <2>1 DEF Quiet, Applied
<1>8. CASE UNCHANGED vars
  BY <1>3, <1>8 DEF vars
<1> QED
  BY <1>2, <1>3, <1>4, <1>5, <1>6, <1>7, <1>8 DEF Next, StopStep

\* A stop asked of an opening is applied when the start is over: the run is
\* forked interrupted, or ended on its rows, or was never born.
THEOREM RegistryAskedStopIsApplied == Spec => AskedStopIsApplied
<1>1. IInv /\ [Next]_vars => \A r \in Runs : Applied(r)
  BY StepApplies
<1>2. IInv /\ [Next]_vars =>
        [\A r \in Runs :
           /\ starting[r] # None /\ starting'[r] = None
           /\ starting[r].stop # None
           => \/ live'[r] # None /\ live'[r].interrupted
              \/ rows'[r].ended \/ ~rows'[r].born]_vars
  BY <1>1 DEF Applied
<1> QED
  BY <1>2, RegistryInvariant, PTL DEF Spec, AskedStopIsApplied
-----------------------------------------------------------------------------
(* No stopped run drives on.  The rows of a stop are committed for the run  *)
(* as the stop captured it: nothing starts the run in between, for it is in *)
(* `stopping`.  A second stop of the same run takes it out of that set when *)
(* it is through; with one stopper beside the close, one of the two is the  *)
(* close's, and the session then refuses every start.                       *)

OneUser == \A s, t \in Stoppers \ {Closer} : s = t

Refuses(r) == r \in stopping \/ closing

\* The close's stops come after stopAll was called.
Begun == \A s \in Stoppers : s = Closer /\ stops[s].at # "idle" => closing

\* A stopper has a child in hand only while it stops it.
ChildInHand ==
    \A s \in Stoppers :
        stops[s].at \notin {"child", "childSettle"} => stops[s].child = None

\* The run whose rows a stop is about to commit is the one it captured: it
\* is not opening, cannot start, and its fiber, if any, is the captured one.
AimedAtRun(s) ==
    stops[s].at = "stop" =>
        /\ Refuses(stops[s].run)
        /\ starting[stops[s].run] = None
        /\ \/ stops[s].fiber = lives[stops[s].run]
           \/ live[stops[s].run] = None

\* So is the child whose row is about to commit.
AimedAtChild(s) ==
    stops[s].at = "child" =>
        /\ Refuses(stops[s].child)
        /\ starting[stops[s].child] = None
        /\ stops[s].childFiber = lives[stops[s].child]

Aimed == \A s \in Stoppers : AimedAtRun(s) /\ AimedAtChild(s)

Clean(r) == rows[r].stop = None /\ ~rows[r].ended

\* An opening that is settling has the rows of its own batch.
FreshRows == \A r \in Runs : Opens(r, "settling") => Clean(r)

\* A run that is stopped on its rows and drives on untouched.
Overlooked(r) == Running(r) /\ ~Interrupted(r) /\ ~Clean(r)

\* The stop s will interrupt the fiber that drives r.
StoppedBy(s, r) ==
    \/ /\ stops[s].run = r /\ stops[s].fiber = lives[r]
       /\ stops[s].at \notin {"idle", "next", "done"}
    \/ stops[s].child = r /\ stops[s].childFiber = lives[r]

NoneOverlooked ==
    spent.refused = 0 =>
        \A r \in Runs : Overlooked(r) => \E s \in Stoppers : StoppedBy(s, r)

Aims == Begun /\ ChildInHand /\ Aimed /\ FreshRows /\ NoneOverlooked

\* What an opening's step leaves of its run: no fiber, an interrupted one,
\* or one on the rows of the opening's own batch.
LEMMA OpeningOutcome ==
    ASSUME IInv, FreshRows, NEW r \in Runs,
           StartBirth(r) \/ StartResume(r) \/ OpeningStep(r)
    PROVE  /\ ~Overlooked(r)'
           /\ Opens(r, "settling")' => Clean(r)'
<1>1. /\ rows \in [Runs -> Row] /\ lives \in [Runs -> Nat]
      /\ starting \in [Runs -> Opening \cup {None}]
      /\ live \in [Runs -> Fiber \cup {None}]
  BY DEF IInv, Typed, TypeOK
<1>2. starting[r] = None \/ live[r] = None
  BY DEF IInv, Fates, Exclusive
<1>3. Opens(r, "settling") => Clean(r)
  BY DEF FreshRows
<1>4. starting[r] # None => /\ starting[r] \in Opening
                            /\ starting[r].stop \in Reasons \cup {None}
  BY <1>1 DEF Opening
\* No fiber, and an opening elsewhere.
<1>5. ASSUME live'[r] = None,
             starting'[r] = None \/ starting'[r].at # "settling"
      PROVE  /\ ~Overlooked(r)'
             /\ Opens(r, "settling")' => Clean(r)'
  BY <1>5 DEF Overlooked, Running, Opens
<1>6. CASE StartBirth(r) \/ StartResume(r)
  <2>1. /\ live[r] = None /\ live' = live
        /\ \E b \in BOOLEAN :
             starting' = [starting EXCEPT ![r] =
                            [at |-> "reading", resume |-> b,
                             stop |-> None, lag |-> 0]]
    BY <1>6 DEF StartBirth, StartResume, Admits, Free, Enter
  <2>2. starting'[r].at = "reading"
    BY <1>1, <2>1
  <2> QED
    BY <1>5, <2>1, <2>2
<1>7. ASSUME NEW stop \in Reasons \cup {None}, Fail(r, stop),
             starting[r] # None, live' = live
      PROVE  /\ ~Overlooked(r)'
             /\ Opens(r, "settling")' => Clean(r)'
  <2>1. starting'[r] = None \/ starting'[r].at = "failing"
    BY <1>1, <1>4, <1>7 DEF Fail, Opening
  <2> QED
    BY <1>2, <1>5, <1>7, <2>1
<1>8. CASE Read(r)
  <2>1. CASE Refused(r)
    BY <1>4, <1>7, <1>8, <2>1 DEF Read, Opens
  <2>2. CASE ~Refused(r)
    <3>1. starting'[r].at = "building"
      BY <1>1, <1>4, <1>8, <2>2 DEF Read, Opens, Move, Opening
    <3> QED
      BY <1>2, <1>5, <1>8, <3>1 DEF Read, Opens
  <2> QED
    BY <2>1, <2>2
<1>9. CASE OpenFails(r)
  BY <1>4, <1>7, <1>9 DEF OpenFails, Opens
<1>10. CASE Cut(r)
  <2>1. CutStop(r) \in Reasons
    BY <1>4, <1>10 DEF Cut, CutStop, Reasons
  <2> QED
    BY <1>7, <1>10, <2>1 DEF Cut
<1>11. CASE Open(r)
  <2>1. live'[r] = None /\ Clean(r)'
    BY <1>1, <1>2, <1>11 DEF Open, Opens, Clean
  <2> QED
    BY <2>1 DEF Overlooked
<1>12. CASE Answer(r)
  <2>1. CASE StopOf(r) = None
    <3>1. starting'[r] = None /\ rows' = rows /\ Clean(r)
      BY <1>1, <1>3, <1>12, <2>1 DEF Answer, Fork
    <3> QED
      BY <3>1 DEF Overlooked, Clean
  <2>2. CASE StopOf(r) # None
    <3>1. starting'[r].at = "stopping"
      BY <1>1, <1>4, <1>12, <2>2 DEF Answer, Opens, Opening
    <3> QED
      BY <1>2, <1>5, <1>12, <2>2, <3>1 DEF Answer, Opens
  <2> QED
    BY <2>1, <2>2
<1>13. CASE RecordOpeningStop(r)
  <2>1. starting'[r].at \in {"failed", "stopped"}
    BY <1>1, <1>4, <1>13 DEF RecordOpeningStop, Opening
  <2> QED
    BY <1>2, <1>5, <1>13, <2>1 DEF RecordOpeningStop
<1>14. CASE ForkStopped(r)
  <2>1. /\ live'[r] = [phase |-> "running", interrupted |-> TRUE]
        /\ starting'[r] = None
    BY <1>1, <1>14 DEF ForkStopped, Fork
  <2>2. live'[r] \in Fiber
    BY <2>1 DEF Fiber
  <2>3. live'[r] # None
    BY <2>2, NoneIsNothing
  <2>4. live'[r].interrupted
    BY <2>1
  <2>5. ~Overlooked(r)'
    BY <2>3, <2>4 DEF Overlooked, Interrupted
  <2>6. ~Opens(r, "settling")'
    BY <2>1 DEF Opens
  <2> QED
    BY <2>5, <2>6
<1>15. CASE LeaveFailed(r)
  <2>1. starting'[r] = None /\ live'[r] = None
    BY <1>1, <1>2, <1>15 DEF LeaveFailed, Opens
  <2> QED
    BY <1>5, <2>1
<1> QED
  BY <1>6, <1>8, <1>9, <1>10, <1>11, <1>12, <1>13, <1>14, <1>15
     DEF OpeningStep

\* A start and an opening's step: no stop is aimed at the run meanwhile.
LEMMA OpeningAims ==
    ASSUME IInv, Aims, NEW r \in Runs,
           StartBirth(r) \/ StartResume(r) \/ OpeningStep(r)
    PROVE  Aims'
<1>1. /\ rows \in [Runs -> Row] /\ lives \in [Runs -> Nat]
      /\ starting \in [Runs -> Opening \cup {None}]
      /\ live \in [Runs -> Fiber \cup {None}]
  BY DEF IInv, Typed, TypeOK
<1>2. UNCHANGED <<stops, stopping, closing, spent>>
  BY DEF StartBirth, StartResume, OpeningStep, Enter, Read, OpenFails, Open,
         Cut, Answer, RecordOpeningStop, ForkStopped, LeaveFailed
<1>3. \A q \in Runs \ {r} : starting'[q] = starting[q] /\ live'[q] = live[q]
  BY <1>1 DEF StartBirth, StartResume, OpeningStep, Enter, Read, OpenFails,
     Open, Cut, Answer, RecordOpeningStop, ForkStopped, LeaveFailed, Fail,
     Move, Fork
<1>4. \A q \in Runs \ {r} : rows'[q] = rows[q] /\ lives'[q] = lives[q]
  BY <1>1 DEF StartBirth, StartResume, OpeningStep, Enter, Read, OpenFails,
     Open, Cut, Answer, RecordOpeningStop, StopRows, ForkStopped, LeaveFailed
<1>5. ~Overlooked(r)' /\ (Opens(r, "settling")' => Clean(r)')
  BY OpeningOutcome DEF Aims
<1>6. starting[r] # None \/ (r \notin stopping /\ ~closing)
  BY DEF StartBirth, StartResume, Admits, Free, OpeningStep, Read, OpenFails,
     Open, Cut, Answer, RecordOpeningStop, ForkStopped, LeaveFailed, Opens
<1>7. Begun' /\ ChildInHand'
  BY <1>2 DEF Aims, Begun, ChildInHand
<1>8. Aimed'
  <2> SUFFICES ASSUME NEW s \in Stoppers
               PROVE  AimedAtRun(s)' /\ AimedAtChild(s)'
    BY DEF Aimed
  <2>1. AimedAtRun(s) /\ AimedAtChild(s)
    BY DEF Aims, Aimed
  <2>2. CASE stops[s].at = "stop"
    <3>1. stops[s].run \in Runs \ {r}
      BY <1>6, <2>1, <2>2 DEF IInv, Typed, StopsNamed, AimedAtRun, Refuses
    <3> QED
      BY <1>2, <1>3, <1>4, <2>1, <2>2, <3>1
         DEF AimedAtRun, AimedAtChild, Refuses
  <2>3. CASE stops[s].at = "child"
    <3>1. stops[s].child \in Runs \ {r}
      BY <1>6, <2>1, <2>3 DEF IInv, Typed, StopsNamed, AimedAtChild, Refuses
    <3> QED
      BY <1>2, <1>3, <1>4, <2>1, <2>3, <3>1
         DEF AimedAtRun, AimedAtChild, Refuses
  <2> QED
    BY <1>2, <2>2, <2>3 DEF AimedAtRun, AimedAtChild
<1>9. FreshRows'
  <2>1. ASSUME NEW q \in Runs \ {r}, Opens(q, "settling")'
        PROVE  Clean(q)'
    BY <1>3, <1>4, <2>1 DEF Aims, FreshRows, Opens, Clean
  <2> QED
    BY <1>5, <2>1 DEF FreshRows
<1>10. NoneOverlooked'
  <2> SUFFICES ASSUME spent'.refused = 0, NEW q \in Runs, Overlooked(q)'
               PROVE  \E s \in Stoppers : StoppedBy(s, q)'
    BY DEF NoneOverlooked
  <2>1. q \in Runs \ {r}
    BY <1>5
  <2>2. Overlooked(q)
    BY <1>3, <1>4, <2>1 DEF Overlooked, Running, Interrupted, Clean
  <2>3. PICK s \in Stoppers : StoppedBy(s, q)
    BY <1>2, <2>2 DEF Aims, NoneOverlooked
  <2>4. StoppedBy(s, q)'
    BY <1>2, <1>4, <2>1, <2>3 DEF StoppedBy
  <2> QED
    BY <2>4
<1> QED
  BY <1>7, <1>8, <1>9, <1>10 DEF Aims

\* A file operation, a run's terminal and exit, an interruption without a
\* stop and the view's fold.
LEMMA FiberAims ==
    ASSUME IInv, Aims,
           \/ \E r \in Runs : \/ EndRun(r) \/ ExitRun(r) \/ LetGo(r)
                             \/ TakeFiles(r) \/ ReleaseFiles(r)
           \/ Fold
           \/ UNCHANGED vars
    PROVE  Aims'
<1>1. /\ rows \in [Runs -> Row] /\ lives \in [Runs -> Nat]
      /\ starting \in [Runs -> Opening \cup {None}]
      /\ live \in [Runs -> Fiber \cup {None}]
      /\ stops \in [Stoppers -> Stop]
  BY DEF IInv, Typed, TypeOK
\* What these steps have in common.
<1>2. ASSUME UNCHANGED <<lives, stopping, closing>>,
             spent'.refused = spent.refused,
             \A s \in Stoppers :
               /\ stops'[s].at = stops[s].at
               /\ stops'[s].run = stops[s].run
               /\ stops'[s].fiber = stops[s].fiber
               /\ stops'[s].child = stops[s].child
               /\ stops'[s].childFiber = stops[s].childFiber,
             \A q \in Runs :
               /\ starting'[q] = None <=> starting[q] = None
               /\ Opens(q, "settling")' => Opens(q, "settling") /\ Clean(q)'
               /\ live[q] = None => live'[q] = None
               /\ Overlooked(q)' => Overlooked(q)
      PROVE  Aims'
  <2>1. Begun' /\ ChildInHand'
    BY <1>2 DEF Aims, Begun, ChildInHand
  <2>2. ASSUME NEW s \in Stoppers
        PROVE  AimedAtRun(s)' /\ AimedAtChild(s)'
    <3>1. AimedAtRun(s) /\ AimedAtChild(s)
      BY DEF Aims, Aimed
    <3>2. /\ stops[s].at = "stop" => stops[s].run \in Runs
          /\ stops[s].at = "child" => stops[s].child \in Runs
      BY DEF IInv, Typed, StopsNamed
    <3>3. AimedAtRun(s)'
      BY <1>2, <3>1, <3>2 DEF AimedAtRun, Refuses
    <3>4. AimedAtChild(s)'
      BY <1>2, <3>1, <3>2 DEF AimedAtChild, Refuses
    <3> QED
      BY <3>3, <3>4
  <2>3. FreshRows'
    BY <1>2 DEF FreshRows
  <2>4. NoneOverlooked'
    <3> SUFFICES ASSUME spent'.refused = 0, NEW q \in Runs, Overlooked(q)'
                 PROVE  \E s \in Stoppers : StoppedBy(s, q)'
      BY DEF NoneOverlooked
    <3>1. PICK s \in Stoppers : StoppedBy(s, q)
      BY <1>2 DEF Aims, NoneOverlooked
    <3>2. StoppedBy(s, q)'
      BY <1>2, <3>1 DEF StoppedBy
    <3> QED
      BY <3>2
  <2> QED
    BY <2>1, <2>2, <2>3, <2>4 DEF Aims, Aimed
\* Fresh rows stay so where neither they nor the openings change.
<1>3. \A q \in Runs : Opens(q, "settling") => Clean(q)
  BY DEF Aims, FreshRows
<1>4. ASSUME NEW r \in Runs, EndRun(r)
      PROVE  Aims'
  <2>1. starting[r] = None /\ live[r] # None
    BY <1>4 DEF EndRun, IInv, Fates, Exclusive
  <2>2. live'[r].phase = "ended"
    BY <1>1, <1>4, <2>1 DEF EndRun, Fiber
  <2>3. \A q \in Runs \ {r} : live'[q] = live[q] /\ rows'[q] = rows[q]
    BY <1>1, <1>4 DEF EndRun
  <2>4. ASSUME NEW q \in Runs
        PROVE  /\ Opens(q, "settling")' => Opens(q, "settling") /\ Clean(q)'
               /\ live[q] = None => live'[q] = None
               /\ Overlooked(q)' => Overlooked(q)
    <3>1. CASE q = r
      BY <1>4, <2>1, <2>2, <3>1 DEF EndRun, Opens, Overlooked, Running
    <3>2. CASE q # r
      BY <1>3, <1>4, <2>3, <3>2
         DEF EndRun, Opens, Clean, Overlooked, Running, Interrupted
    <3> QED
      BY <3>1, <3>2
  <2> QED
    BY <1>2, <1>4, <2>4 DEF EndRun
<1>5. ASSUME NEW r \in Runs, ExitRun(r)
      PROVE  Aims'
  <2>1. live'[r] = None /\ \A q \in Runs \ {r} : live'[q] = live[q]
    BY <1>1, <1>5 DEF ExitRun
  <2>2. ASSUME NEW q \in Runs
        PROVE  /\ Opens(q, "settling")' => Opens(q, "settling") /\ Clean(q)'
               /\ live[q] = None => live'[q] = None
               /\ Overlooked(q)' => Overlooked(q)
    BY <1>3, <1>5, <2>1
       DEF ExitRun, Opens, Clean, Overlooked, Running, Interrupted
  <2> QED
    BY <1>2, <1>5, <2>2 DEF ExitRun
<1>6. ASSUME NEW r \in Runs, LetGo(r)
      PROVE  Aims'
  <2>1. live[r] \in Fiber
    BY <1>1, <1>6 DEF LetGo
  <2>2. live'[r].interrupted /\ \A q \in Runs \ {r} : live'[q] = live[q]
    BY <1>1, <1>6, <2>1 DEF LetGo, Fiber
  <2>3. ASSUME NEW q \in Runs
        PROVE  /\ Opens(q, "settling")' => Opens(q, "settling") /\ Clean(q)'
               /\ live[q] = None => live'[q] = None
               /\ Overlooked(q)' => Overlooked(q)
    <3>1. CASE q = r
      BY <1>3, <1>6, <2>2, <3>1
         DEF LetGo, Opens, Clean, Overlooked, Running, Interrupted
    <3>2. CASE q # r
      BY <1>3, <1>6, <2>2, <3>2
         DEF LetGo, Opens, Clean, Overlooked, Running, Interrupted
    <3> QED
      BY <3>1, <3>2
  <2>4. spent'.refused = spent.refused
    BY <1>6 DEF LetGo, IInv, Typed, TypeOK
  <2> QED
    BY <1>2, <1>6, <2>3, <2>4 DEF LetGo
<1>7. ASSUME NEW r \in Runs, TakeFiles(r) \/ ReleaseFiles(r)
      PROVE  Aims'
  <2>1. ASSUME NEW q \in Runs
        PROVE  /\ Opens(q, "settling")' => Opens(q, "settling") /\ Clean(q)'
               /\ Overlooked(q)' => Overlooked(q)
    BY <1>3, <1>7 DEF TakeFiles, ReleaseFiles, Opens, Clean, Overlooked,
       Running, Interrupted
  <2> QED
    BY <1>2, <1>7, <2>1 DEF TakeFiles, ReleaseFiles
<1>8. CASE Fold
  <2>1. ASSUME NEW q \in Runs
        PROVE  /\ starting'[q] = None <=> starting[q] = None
               /\ Opens(q, "settling")' => Opens(q, "settling")
    <3>1. Quiet
      BY <1>8, StopIsQuiet DEF IInv
    <3> QED
      BY <3>1 DEF Quiet, Opens, SameOpening
  <2>2. ASSUME NEW q \in Runs
        PROVE  /\ Clean(q)' <=> Clean(q)
               /\ Overlooked(q)' => Overlooked(q)
    BY <1>8 DEF Fold, Clean, Overlooked, Running, Interrupted
  <2>3. ASSUME NEW s \in Stoppers
        PROVE  /\ stops'[s].at = stops[s].at
               /\ stops'[s].run = stops[s].run
               /\ stops'[s].fiber = stops[s].fiber
               /\ stops'[s].child = stops[s].child
               /\ stops'[s].childFiber = stops[s].childFiber
    <3>1. stops'[s] = [stops[s] EXCEPT !.lag = Less(@)]
      BY <1>8 DEF Fold
    <3> QED
      BY <1>1, <3>1 DEF Stop
  <2> QED
    BY <1>2, <1>3, <1>8, <2>1, <2>2, <2>3 DEF Fold
<1>9. CASE UNCHANGED vars
  <2>1. ASSUME NEW q \in Runs
        PROVE  /\ Opens(q, "settling")' => Opens(q, "settling") /\ Clean(q)'
               /\ Overlooked(q)' => Overlooked(q)
    BY <1>3, <1>9 DEF vars, Opens, Clean, Overlooked, Running, Interrupted
  <2> QED
    BY <1>2, <1>9, <2>1 DEF vars
<1> QED
  BY <1>4, <1>5, <1>6, <1>7, <1>8, <1>9

\* One stopper's step: what it has to show.  It may take a run out of
\* `stopping` that another stopper is at, for one of them is the close.
LEMMA StopperAims ==
    ASSUME IInv, Aims, OneUser, NEW s \in Stoppers, Quiet,
           \A t \in Stoppers \ {s} : stops'[t] = stops[t],
           stopping \subseteq stopping' \/ stops[s].at # "idle",
           closing => closing',
           s = Closer /\ stops'[s].at # "idle" => closing',
           stops'[s].at \notin {"child", "childSettle"}
             => stops'[s].child = None,
           AimedAtRun(s)', AimedAtChild(s)',
           \A q \in Runs : Opens(q, "settling") => rows'[q] = rows[q],
           spent'.refused = 0 =>
             /\ spent.refused = 0
             /\ \A q \in Runs : Overlooked(q)' =>
                  \/ StoppedBy(s, q)'
                  \/ Overlooked(q) /\ ~StoppedBy(s, q)
    PROVE  Aims'
<1>1. Begun' /\ ChildInHand'
  BY DEF Aims, Begun, ChildInHand
<1>2. ASSUME NEW t \in Stoppers \ {s}
      PROVE  AimedAtRun(t)' /\ AimedAtChild(t)'
  <2>1. AimedAtRun(t) /\ AimedAtChild(t) /\ stops'[t] = stops[t]
    BY DEF Aims, Aimed
  <2>2. /\ stops[t].at = "stop" => stops[t].run \in Runs
        /\ stops[t].at = "child" => stops[t].child \in Runs
    BY DEF IInv, Typed, StopsNamed
  <2>3. ASSUME NEW q, Refuses(q), stops[t].at # "idle"
        PROVE  Refuses(q)'
    <3>1. CASE stopping \subseteq stopping'
      BY <2>3, <3>1 DEF Refuses
    <3>2. CASE stops[s].at # "idle"
      <4>1. s = Closer \/ t = Closer
        BY DEF OneUser
      <4>2. closing
        BY <2>3, <3>2, <4>1 DEF Aims, Begun
      <4> QED
        BY <4>2 DEF Refuses
    <3> QED
      BY <3>1, <3>2
  <2>4. AimedAtRun(t)'
    <3> SUFFICES ASSUME stops[t].at = "stop"
                 PROVE  /\ stops[t].run \in stopping' \/ closing'
                        /\ starting'[stops[t].run] = None
                        /\ \/ stops[t].fiber = lives'[stops[t].run]
                           \/ live'[stops[t].run] = None
      BY <2>1 DEF AimedAtRun, Refuses
    <3> DEFINE q == stops[t].run
    <3>1. q \in stopping' \/ closing'
      <4>1. Refuses(q) /\ stops[t].at # "idle"
        BY <2>1 DEF AimedAtRun
      <4> HIDE DEF q
      <4> QED
        BY <2>3, <4>1 DEF Refuses
    <3> QED
      BY <2>1, <2>2, <3>1 DEF AimedAtRun, Quiet
  <2>5. AimedAtChild(t)'
    <3> SUFFICES ASSUME stops[t].at = "child"
                 PROVE  /\ stops[t].child \in stopping' \/ closing'
                        /\ starting'[stops[t].child] = None
                        /\ stops[t].childFiber = lives'[stops[t].child]
      BY <2>1 DEF AimedAtChild, Refuses
    <3> DEFINE q == stops[t].child
    <3>1. q \in stopping' \/ closing'
      <4>1. Refuses(q) /\ stops[t].at # "idle"
        BY <2>1 DEF AimedAtChild
      <4> HIDE DEF q
      <4> QED
        BY <2>3, <4>1 DEF Refuses
    <3> QED
      BY <2>1, <2>2, <3>1 DEF AimedAtChild, Quiet
  <2> QED
    BY <2>4, <2>5
<1>3. Aimed'
  BY <1>2 DEF Aimed
<1>4. FreshRows'
  <2> SUFFICES ASSUME NEW q \in Runs, Opens(q, "settling")'
               PROVE  Clean(q)'
    BY DEF FreshRows
  <2>1. Opens(q, "settling")
    BY DEF Quiet, Opens, SameOpening
  <2> QED
    BY <2>1 DEF Aims, FreshRows, Clean
<1>5. NoneOverlooked'
  <2> SUFFICES ASSUME spent'.refused = 0, NEW q \in Runs, Overlooked(q)',
                      ~StoppedBy(s, q)'
               PROVE  \E t \in Stoppers : StoppedBy(t, q)'
    BY DEF NoneOverlooked
  <2>1. Overlooked(q) /\ ~StoppedBy(s, q) /\ spent.refused = 0
    OBVIOUS
  <2>2. PICK t \in Stoppers : StoppedBy(t, q)
    BY <2>1 DEF Aims, NoneOverlooked
  <2>3. t # s /\ lives' = lives
    BY <2>1, <2>2 DEF Quiet
  <2>4. StoppedBy(t, q)'
    BY <2>2, <2>3 DEF StoppedBy
  <2> QED
    BY <2>4
<1> QED
  BY <1>1, <1>3, <1>4, <1>5 DEF Aims

\* A stopper between its stops has no part in another run's.
LEMMA RestAims ==
    ASSUME NEW s \in Stoppers, stops'[s].at \in {"idle", "next", "done"}
    PROVE  AimedAtRun(s)' /\ AimedAtChild(s)'
  BY DEF AimedAtRun, AimedAtChild

\* Asking a stop, or a close's next one, captures the run as it is.
LEMMA AskAims ==
    ASSUME IInv, Aims, OneUser, NEW s \in Stoppers,
           \/ \E r \in Runs : StopAsk(s, r) \/ StopRoot(s, r)
           \/ StopAll(s) \/ StoppedAll(s)
    PROVE  Aims'
<1>1. /\ stops \in [Stoppers -> Stop] /\ stops[s] \in Stop
      /\ starting \in [Runs -> Opening \cup {None}]
      /\ live \in [Runs -> Fiber \cup {None}]
  BY DEF IInv, Typed, TypeOK
<1>2. Quiet
  BY StopIsQuiet DEF IInv
<1>3. /\ stops[s].at \in {"idle", "next"} => stops[s].child = None
      /\ s = Closer /\ stops[s].at # "idle" => closing
  BY DEF Aims, ChildInHand, Begun
<1>4. UNCHANGED <<rows, lives, live>>
  BY DEF StopAsk, StopRoot, StopAll, StoppedAll
\* Nothing is overlooked that was not, and the stopper had no run in hand.
<1>5. ASSUME stops[s].at \in {"idle", "next"}
      PROVE  \A q \in Runs : Overlooked(q)' =>
                \/ StoppedBy(s, q)'
                \/ Overlooked(q) /\ ~StoppedBy(s, q)
  <2> SUFFICES ASSUME NEW q \in Runs, Overlooked(q)'
               PROVE  Overlooked(q) /\ ~StoppedBy(s, q)
    OBVIOUS
  <2>1. Overlooked(q)
    BY <1>4 DEF Overlooked, Running, Interrupted, Clean
  <2>2. ~StoppedBy(s, q)
    BY <1>3, <1>5, NoneIsNoRun DEF StoppedBy
  <2> QED
    BY <2>1, <2>2
<1>6. ASSUME NEW r \in Runs, NEW reason, NEW roots,
             Ask(s, r, reason, roots), stops[s].at \in {"idle", "next"},
             closing' = closing, spent'.refused = spent.refused,
             s # Closer \/ stops[s].at = "next"
      PROVE  Aims'
  <2>1. \A t \in Stoppers \ {s} : stops'[t] = stops[t]
    BY <1>1, <1>6 DEF Ask
  <2>2. stopping \subseteq stopping'
    BY <1>6 DEF Ask
  <2>3. s = Closer => closing
    BY <1>3, <1>6
  <2>4. CASE starting[r] # None
    <3>1. stops'[s].at = stops[s].at /\ stops'[s].child = stops[s].child
      BY <1>1, <1>6, <2>4 DEF Ask, Stop
    <3>2. AimedAtRun(s)' /\ AimedAtChild(s)'
      BY <1>6, <3>1, RestAims
    <3> QED
      BY <1>2, <1>3, <1>4, <1>5, <1>6, <2>1, <2>2, <2>3, <3>1, <3>2,
         StopperAims
  <2>5. CASE starting[r] = None
    <3>1. stops'[s] = [Idle EXCEPT !.at = "stop", !.run = r,
                                   !.reason = reason, !.roots = roots,
                                   !.fiber = CapturedFiber(r)]
      BY <1>1, <1>6, <2>5 DEF Ask
    <3>2. /\ stops'[s].at = "stop" /\ stops'[s].run = r
          /\ stops'[s].fiber = CapturedFiber(r) /\ stops'[s].child = None
      BY <3>1 DEF Idle
    <3>3. r \in stopping' /\ starting' = starting
      BY <1>6, <2>5 DEF Ask
    <3>4. AimedAtRun(s)' /\ AimedAtChild(s)'
      BY <1>4, <2>5, <3>2, <3>3
         DEF AimedAtRun, AimedAtChild, Refuses, CapturedFiber
    <3> QED
      BY <1>2, <1>4, <1>5, <1>6, <2>1, <2>2, <2>3, <3>2, <3>4, StopperAims
  <2> QED
    BY <2>4, <2>5
<1>7. ASSUME NEW r \in Runs, StopAsk(s, r)
      PROVE  Aims'
  <2>1. spent'.refused = spent.refused
    BY <1>7 DEF StopAsk, IInv, Typed, TypeOK
  <2> QED
    BY <1>6, <1>7, <2>1 DEF StopAsk
<1>8. ASSUME NEW r \in Runs, StopRoot(s, r)
      PROVE  Aims'
  BY <1>6, <1>8 DEF StopRoot
<1>9. CASE StopAll(s)
  <2>1. /\ stops[s].at = "idle" /\ closing' /\ UNCHANGED <<stopping, spent>>
    BY <1>3, <1>9 DEF StopAll
  <2>2. /\ \A t \in Stoppers \ {s} : stops'[t] = stops[t]
        /\ stops'[s].at = "next" /\ stops'[s].child = None
    BY <1>1, <1>9 DEF StopAll, Idle
  <2>3. AimedAtRun(s)' /\ AimedAtChild(s)'
    BY <2>2, RestAims
  <2> QED
    BY <1>2, <1>4, <1>5, <2>1, <2>2, <2>3, StopperAims
<1>10. CASE StoppedAll(s)
  <2>1. /\ stops[s].at = "next" /\ UNCHANGED <<closing, stopping, spent>>
    BY <1>10 DEF StoppedAll
  <2>2. /\ \A t \in Stoppers \ {s} : stops'[t] = stops[t]
        /\ stops'[s].at = "done" /\ stops'[s].child = None
    BY <1>1, <1>3, <1>10 DEF StoppedAll, Stop
  <2>3. AimedAtRun(s)' /\ AimedAtChild(s)'
    BY <2>2, RestAims
  <2> QED
    BY <1>2, <1>3, <1>4, <1>5, <2>1, <2>2, <2>3, StopperAims
<1> QED
  BY <1>7, <1>8, <1>9, <1>10

\* A stop's rows, the run's or a child's, are of the run it captured: it
\* will interrupt the fiber they leave running, and no opening sees them.
LEMMA CommitAims ==
    ASSUME IInv, Aims, OneUser, NEW s \in Stoppers,
           StopCommit(s) \/ ChildCommit(s)
    PROVE  Aims'
<1>1. /\ stops \in [Stoppers -> Stop] /\ stops[s] \in Stop
      /\ rows \in [Runs -> Row]
  BY DEF IInv, Typed, TypeOK
<1>2. Quiet
  BY StopIsQuiet DEF IInv
<1>3. UNCHANGED <<lives, starting, live, stopping, closing, spent>>
  BY DEF StopCommit, ChildCommit
<1>4. /\ \A t \in Stoppers \ {s} : stops'[t] = stops[t]
      /\ stops'[s].run = stops[s].run
      /\ stops'[s].fiber = stops[s].fiber
      /\ stops'[s].child = stops[s].child
      /\ stops'[s].childFiber = stops[s].childFiber
  <2>1. CASE StopCommit(s)
    <3>1. stops' = [stops EXCEPT ![s] = [stops[s] EXCEPT !.at = "settle",
                      !.lag = LagOf(stops[s].run, stops[s].fiber = 0)]]
      BY <1>1, <2>1 DEF StopCommit, Stop
    <3> QED
      BY <1>1, <3>1 DEF Stop
  <2>2. CASE ChildCommit(s)
    <3>1. stops' = [stops EXCEPT ![s] = [stops[s] EXCEPT !.at = "childSettle",
                      !.lag = LagOf(stops[s].child, FALSE)]]
      BY <1>1, <2>2 DEF ChildCommit, Stop
    <3> QED
      BY <1>1, <3>1 DEF Stop
  <2> QED
    BY <2>1, <2>2
<1>5. /\ s = Closer => closing
      /\ stops[s].at = "stop" => stops[s].child = None
  BY DEF StopCommit, ChildCommit, Aims, Begun, ChildInHand
<1>6. AimedAtRun(s) /\ AimedAtChild(s)
  BY DEF Aims, Aimed
<1>7. ASSUME NEW r \in Runs, starting[r] = None,
             live[r] # None => StoppedBy(s, r)',
             \A q \in Runs \ {r} : rows'[q] = rows[q],
             \A q \in Runs : StoppedBy(s, q) => StoppedBy(s, q)',
             stops'[s].at \in {"settle", "childSettle"},
             stops'[s].at = "settle" => stops'[s].child = None
      PROVE  Aims'
  <2>1. AimedAtRun(s)' /\ AimedAtChild(s)'
    BY <1>7 DEF AimedAtRun, AimedAtChild
  <2>2. \A q \in Runs : Opens(q, "settling") => rows'[q] = rows[q]
    BY <1>7 DEF Opens
  <2>3. ASSUME NEW q \in Runs, Overlooked(q)', ~StoppedBy(s, q)'
        PROVE  Overlooked(q) /\ ~StoppedBy(s, q)
    <3>1. q # r
      BY <1>3, <1>7, <2>3 DEF Overlooked, Running
    <3>2. Overlooked(q)
      BY <1>3, <1>7, <2>3, <3>1 DEF Overlooked, Running, Interrupted, Clean
    <3> QED
      BY <1>7, <2>3, <3>2
  <2> QED
    BY <1>2, <1>3, <1>4, <1>5, <1>7, <2>1, <2>2, <2>3, StopperAims
<1>8. CASE StopCommit(s)
  <2>0. stops[s].run \in Runs /\ stops[s].at = "stop"
    BY <1>8 DEF StopCommit, IInv, Typed, StopsNamed
  <2>1. PICK r \in Runs : r = stops[s].run
    BY <2>0
  <2>2. stops'[s].at = "settle"
    BY <1>1, <1>8 DEF StopCommit, Stop
  <2>3. \A q \in Runs \ {r} : rows'[q] = rows[q]
    BY <1>1, <1>8, <2>1 DEF StopCommit, StopRows
  <2>4. starting[r] = None /\ (live[r] # None => StoppedBy(s, r)')
    BY <1>3, <1>4, <1>6, <2>0, <2>1, <2>2 DEF AimedAtRun, StoppedBy
  <2>5. \A q \in Runs : StoppedBy(s, q) => StoppedBy(s, q)'
    BY <1>3, <1>4, <2>2 DEF StoppedBy
  <2>6. stops'[s].child = None
    BY <1>4, <1>5, <2>0
  <2> QED
    BY <1>7, <2>2, <2>3, <2>4, <2>5, <2>6
<1>9. CASE ChildCommit(s)
  <2>0. stops[s].child \in Runs /\ stops[s].at = "child"
    BY <1>9 DEF ChildCommit, IInv, Typed, StopsNamed
  <2>1. PICK c \in Runs : c = stops[s].child
    BY <2>0
  <2>2. stops'[s].at = "childSettle"
    BY <1>1, <1>9 DEF ChildCommit, Stop
  <2>3. \A q \in Runs \ {c} : rows'[q] = rows[q]
    BY <1>1, <1>9, <2>1 DEF ChildCommit, StopRows
  <2>4. starting[c] = None /\ StoppedBy(s, c)'
    BY <1>3, <1>4, <1>6, <2>0, <2>1 DEF AimedAtChild, StoppedBy
  <2>5. \A q \in Runs : StoppedBy(s, q) => StoppedBy(s, q)'
    BY <1>3, <1>4, <2>2 DEF StoppedBy
  <2> QED
    BY <1>7, <2>2, <2>3, <2>4, <2>5
<1> QED
  BY <1>8, <1>9

\* An interruption marks the captured fiber and unmarks none.
LEMMA InterruptMarks ==
    ASSUME NEW fibers \in [Runs -> Fiber \cup {None}],
           NEW r \in Runs \cup {None}, NEW fiber, NEW q \in Runs,
           InterruptFiber(fibers, r, fiber)[q] # None,
           ~InterruptFiber(fibers, r, fiber)[q].interrupted
    PROVE  /\ fibers[q] # None /\ ~fibers[q].interrupted
           /\ ~(q = r /\ fiber = lives[q])
<1>1. fibers[q] # None
  BY InterruptTyped
<1>2. fibers[q] \in Fiber
  BY <1>1
<1>3. CASE InterruptFiber(fibers, r, fiber)
             = [fibers EXCEPT ![r].interrupted = TRUE]
  <2>1. CASE q = r
    BY <1>2, <1>3, <2>1 DEF Fiber
  <2>2. CASE q # r
    BY <1>1, <1>3, <2>2
  <2> QED
    BY <2>1, <2>2
<1>4. CASE /\ InterruptFiber(fibers, r, fiber) = fibers
           /\ ~(fibers[r] # None /\ fiber = lives[r])
  BY <1>1, <1>4
<1> QED
  BY <1>3, <1>4 DEF InterruptFiber

\* The cascade goes on to the next run driven here, or interrupts its own:
\* what the stop had in hand is interrupted by then.
LEMMA CascadeAims ==
    ASSUME IInv, Aims, OneUser, NEW s \in Stoppers, Quiet,
           NEW todo \in SUBSET Runs,
           NEW fibers \in [Runs -> Fiber \cup {None}], NEW held,
           Cascade(s, todo, fibers, held),
           stops[s].at \in {"settle", "childSettle"},
           stops[s].run \in Runs,
           \A q \in Runs : fibers[q] # None /\ ~fibers[q].interrupted =>
             /\ live[q] # None /\ ~live[q].interrupted
             /\ ~(stops[s].child = q /\ stops[s].childFiber = lives[q]),
           UNCHANGED <<rows, lives, closing, spent>>
    PROVE  Aims'
<1>1. /\ stops \in [Stoppers -> Stop] /\ stops[s] \in Stop
      /\ starting \in [Runs -> Opening \cup {None}]
  BY DEF IInv, Typed, TypeOK
<1>2. s = Closer => closing
  BY DEF Aims, Begun
<1>3. ASSUME NEW q \in Runs, Overlooked(q)',
             fibers[q] # None, ~fibers[q].interrupted
      PROVE  Overlooked(q) /\ ~(stops[s].child = q
                                /\ stops[s].childFiber = lives[q])
  <2>1. live[q] # None /\ ~live[q].interrupted
    BY <1>3
  <2>2. live[q].phase = "running"
    BY <1>3, <2>1 DEF Overlooked, Running, Quiet, SameFiber
  <2>3. ~Clean(q)
    BY <1>3 DEF Overlooked, Clean
  <2> QED
    BY <1>3, <2>1, <2>2, <2>3 DEF Overlooked, Running, Interrupted
<1> DEFINE op == stops[s]
           driven == {c \in todo : starting[c] = None /\ fibers[c] # None}
<1>4. \A c \in driven : c \in Runs /\ starting[c] = None
  OBVIOUS
<1>5. \/ \E c \in driven, passed \in SUBSET (todo \ driven) :
             /\ AskOpenings(passed, op.reason)
             /\ live' = fibers
             /\ stopping' = held \cup {c}
             /\ stops' = [stops EXCEPT
                            ![s].at = "child", ![s].child = c,
                            ![s].childFiber = lives[c],
                            ![s].todo = todo \ (passed \cup {c})]
      \/ /\ live' = InterruptFiber(fibers, op.run, op.fiber)
         /\ stops' = [stops EXCEPT ![s] = Rest(s)]
  BY Zenon DEF Cascade
<1> HIDE DEF driven
<1>6. ASSUME NEW c \in driven, NEW passed,
             live' = fibers, stopping' = held \cup {c},
             stops' = [stops EXCEPT
                         ![s].at = "child", ![s].child = c,
                         ![s].childFiber = lives[c],
                         ![s].todo = todo \ (passed \cup {c})]
      PROVE  Aims'
  <2>1. c \in Runs /\ starting[c] = None /\ c \in stopping'
    BY <1>6, <1>4
  <2>2. stops' = [stops EXCEPT ![s] = [stops[s] EXCEPT
                    !.at = "child", !.child = c, !.childFiber = lives[c],
                    !.todo = todo \ (passed \cup {c})]]
    BY <1>1, <1>6 DEF Stop
  <2>3. /\ \A t \in Stoppers \ {s} : stops'[t] = stops[t]
        /\ stops'[s].at = "child" /\ stops'[s].child = c
        /\ stops'[s].childFiber = lives[c]
        /\ stops'[s].run = stops[s].run /\ stops'[s].fiber = stops[s].fiber
    BY <1>1, <2>2 DEF Stop
  <2>4. starting'[c] = None
    BY <2>1 DEF Quiet
  <2>5. AimedAtRun(s)' /\ AimedAtChild(s)'
    BY <2>1, <2>3, <2>4 DEF AimedAtRun, AimedAtChild, Refuses
  <2>6. ASSUME NEW q \in Runs, Overlooked(q)', ~StoppedBy(s, q)'
        PROVE  Overlooked(q) /\ ~StoppedBy(s, q)
    <3>1. fibers[q] # None /\ ~fibers[q].interrupted
      BY <1>6, <2>6 DEF Overlooked, Running, Interrupted
    <3>2. Overlooked(q) /\ ~(stops[s].child = q
                             /\ stops[s].childFiber = lives[q])
      BY <1>3, <2>6, <3>1
    <3> QED
      BY <2>3, <2>6, <3>2 DEF StoppedBy
  <2> QED
    BY <1>2, <2>3, <2>5, <2>6, StopperAims
<1>7. CASE /\ live' = InterruptFiber(fibers, op.run, op.fiber)
           /\ stops' = [stops EXCEPT ![s] = Rest(s)]
  <2>1. /\ \A t \in Stoppers \ {s} : stops'[t] = stops[t]
        /\ stops'[s].at \in {"idle", "next"} /\ stops'[s].child = None
    BY <1>1, <1>7 DEF Rest, Idle
  <2>2. AimedAtRun(s)' /\ AimedAtChild(s)'
    BY <2>1, RestAims
  <2>3. ASSUME NEW q \in Runs, Overlooked(q)'
        PROVE  Overlooked(q) /\ ~StoppedBy(s, q)
    <3>1. /\ fibers[q] # None /\ ~fibers[q].interrupted
          /\ ~(q = stops[s].run /\ stops[s].fiber = lives[q])
      BY <1>7, <2>3, InterruptMarks DEF Overlooked, Running, Interrupted
    <3>2. Overlooked(q) /\ ~(stops[s].child = q
                             /\ stops[s].childFiber = lives[q])
      BY <1>3, <2>3, <3>1
    <3> QED
      BY <3>1, <3>2 DEF StoppedBy
  <2> QED
    BY <1>2, <2>1, <2>2, <2>3, StopperAims
<1> HIDE DEF op
<1> QED
  BY Zenon, <1>6, <1>7, <1>5

\* What a stop does once its rows are in, and a refusal: a stop that is
\* through has interrupted what it had in hand.
LEMMA SettledAims ==
    ASSUME IInv, Aims, OneUser, NEW s \in Stoppers,
           \/ StopSettled(s) \/ Detach(s) \/ Detached(s) \/ ChildStopped(s)
           \/ StopRefused(s)
    PROVE  Aims'
<1>1. /\ stops \in [Stoppers -> Stop] /\ stops[s] \in Stop
      /\ live \in [Runs -> Fiber \cup {None}]
      /\ stops[s].run \in Runs
      /\ stops[s].child \in Runs \cup {None}
      /\ stops[s].todo \in SUBSET Runs
  BY DEF IInv, Typed, TypeOK, Stop, StopsNamed, StopSettled, Detach,
         Detached, ChildStopped, StopRefused
<1>2. Quiet
  BY StopIsQuiet DEF IInv
<1>3. /\ s = Closer => closing
      /\ stops[s].at \notin {"child", "childSettle"} => stops[s].child = None
  BY DEF StopSettled, Detach, Detached, ChildStopped, StopRefused, Aims,
         Begun, ChildInHand
\* The stop goes on where its rows are in hand.
<1>4. ASSUME stops[s].at \in {"settle", "detach"},
             stops'[s].at \in {"detach", "detached"},
             stops'[s].run = stops[s].run,
             stops'[s].fiber = stops[s].fiber,
             stops'[s].child = stops[s].child,
             \A t \in Stoppers \ {s} : stops'[t] = stops[t],
             UNCHANGED <<rows, lives, starting, live, stopping, closing,
                         spent>>
      PROVE  Aims'
  <2>1. stops'[s].child = None
    BY <1>3, <1>4
  <2>2. AimedAtRun(s)' /\ AimedAtChild(s)'
    BY <1>4 DEF AimedAtRun, AimedAtChild
  <2>3. ASSUME NEW q \in Runs, Overlooked(q)', ~StoppedBy(s, q)'
        PROVE  Overlooked(q) /\ ~StoppedBy(s, q)
    <3>1. Overlooked(q)
      BY <1>4, <2>3 DEF Overlooked, Running, Interrupted, Clean
    <3>2. ~StoppedBy(s, q)
      BY <1>3, <1>4, <2>1, <2>3, NoneIsNoRun DEF StoppedBy
    <3> QED
      BY <3>1, <3>2
  <2> QED
    BY <1>2, <1>3, <1>4, <2>1, <2>2, <2>3, StopperAims
<1>5. CASE StopSettled(s) /\ Detaches(s)
  <2>1. stops' = [stops EXCEPT ![s] = [stops[s] EXCEPT !.at = "detach"]]
    BY <1>1, <1>5 DEF StopSettled, Stop
  <2>2. /\ \A t \in Stoppers \ {s} : stops'[t] = stops[t]
        /\ stops'[s].at = "detach"
        /\ stops'[s].run = stops[s].run
        /\ stops'[s].fiber = stops[s].fiber
        /\ stops'[s].child = stops[s].child
    BY <1>1, <2>1 DEF Stop
  <2>3. /\ stops[s].at = "settle"
        /\ UNCHANGED <<rows, lives, starting, live, stopping, closing, spent>>
    BY <1>5 DEF StopSettled
  <2> QED
    BY <1>4, <2>2, <2>3
<1>6. CASE Detach(s)
  <2>1. PICK lag : stops' = [stops EXCEPT ![s].at = "detached",
                                          ![s].lag = lag]
    BY ZenonT(60), <1>6 DEF Detach
  <2>2. stops' = [stops EXCEPT ![s] = [stops[s] EXCEPT
                    !.at = "detached", !.lag = lag]]
    BY <1>1, <2>1 DEF Stop
  <2>3. /\ \A t \in Stoppers \ {s} : stops'[t] = stops[t]
        /\ stops'[s].at = "detached"
        /\ stops'[s].run = stops[s].run
        /\ stops'[s].fiber = stops[s].fiber
        /\ stops'[s].child = stops[s].child
    BY <1>1, <2>2 DEF Stop
  <2>4. /\ stops[s].at = "detach"
        /\ UNCHANGED <<rows, lives, starting, live, stopping, closing, spent>>
    BY ZenonT(60), <1>6 DEF Detach
  <2> QED
    BY <1>4, <2>3, <2>4
<1>7. CASE StopSettled(s) /\ ~Detaches(s)
  <2>1. HeldUnder(stops[s].run) \in SUBSET Runs
    BY DEF HeldUnder, Held
  <2>2. /\ Cascade(s, HeldUnder(stops[s].run), live, stopping)
        /\ stops[s].at = "settle"
        /\ UNCHANGED <<rows, lives, closing, spent>>
    BY <1>7 DEF StopSettled
  <2>3. \A q \in Runs : ~(stops[s].child = q
                          /\ stops[s].childFiber = lives[q])
    BY <1>3, <2>2, NoneIsNoRun
  <2> QED
    BY <1>1, <1>2, <2>1, <2>2, <2>3, CascadeAims
<1>8. CASE ChildStopped(s)
  <2> DEFINE fibers == InterruptFiber(live, stops[s].child,
                                      stops[s].childFiber)
             held == stopping \ {stops[s].child}
  <2>1. /\ Cascade(s, stops[s].todo, fibers, held)
        /\ stops[s].at = "childSettle"
        /\ UNCHANGED <<rows, lives, closing, spent>>
    BY <1>8 DEF ChildStopped
  <2>2. fibers \in [Runs -> Fiber \cup {None}]
    BY <1>1, InterruptTyped
  <2>3. ASSUME NEW q \in Runs, fibers[q] # None, ~fibers[q].interrupted
        PROVE  /\ live[q] # None /\ ~live[q].interrupted
               /\ ~(stops[s].child = q /\ stops[s].childFiber = lives[q])
    BY <1>1, <2>3, InterruptMarks
  <2> HIDE DEF fibers, held
  <2> QED
    BY <1>1, <1>2, <2>1, <2>2, <2>3, CascadeAims
\* A stop that is over.
<1>9. ASSUME stops' = [stops EXCEPT ![s] = Rest(s)],
             closing' = closing, rows' = rows,
             stops[s].at # "idle",
             spent'.refused = 0 =>
               /\ spent.refused = 0
               /\ \A q \in Runs : Overlooked(q)' =>
                    Overlooked(q) /\ ~StoppedBy(s, q)
      PROVE  Aims'
  <2>1. /\ \A t \in Stoppers \ {s} : stops'[t] = stops[t]
        /\ stops'[s].at \in {"idle", "next"} /\ stops'[s].child = None
    BY <1>1, <1>9 DEF Rest, Idle
  <2>2. AimedAtRun(s)' /\ AimedAtChild(s)'
    BY <2>1, RestAims
  <2> QED
    BY <1>2, <1>3, <1>9, <2>1, <2>2, StopperAims
<1>10. CASE Detached(s)
  <2>1. /\ stops[s].at = "detached" /\ stops[s].child = None
        /\ live' = InterruptFiber(live, stops[s].run, stops[s].fiber)
        /\ stops' = [stops EXCEPT ![s] = Rest(s)]
        /\ UNCHANGED <<rows, closing, spent>>
    BY <1>3, <1>10 DEF Detached
  <2>2. ASSUME NEW q \in Runs, Overlooked(q)'
        PROVE  Overlooked(q) /\ ~StoppedBy(s, q)
    <3>1. /\ live[q] # None /\ ~live[q].interrupted
          /\ ~(q = stops[s].run /\ stops[s].fiber = lives[q])
      BY <1>1, <2>1, <2>2, InterruptMarks
         DEF Overlooked, Running, Interrupted
    <3>2. live[q].phase = "running" /\ ~Clean(q)
      BY <1>2, <2>1, <2>2, <3>1
         DEF Overlooked, Running, Quiet, Clean, SameFiber
    <3> QED
      BY <2>1, <3>1, <3>2, NoneIsNoRun
         DEF StoppedBy, Overlooked, Running, Interrupted
  <2> QED
    BY <1>9, <2>1, <2>2
<1>11. CASE StopRefused(s)
  <2>1. spent'.refused # 0
    BY <1>11 DEF StopRefused, IInv, Typed, TypeOK
  <2> QED
    BY <1>9, <1>11, <2>1 DEF StopRefused
<1> QED
  BY <1>5, <1>6, <1>7, <1>8, <1>10, <1>11

\* At first nothing is aimed at.
LEMMA InitAims ==
    ASSUME Init
    PROVE  Aims
  BY DEF Init, Aims, Begun, ChildInHand, Aimed, AimedAtRun, AimedAtChild,
         FreshRows, Opens, NoneOverlooked, Overlooked, Running, Idle

\* Every step keeps the aims.
LEMMA StepAims ==
    ASSUME IInv, Aims, OneUser, [Next]_vars
    PROVE  Aims'
<1>1. CASE \E r \in Runs : StartBirth(r) \/ StartResume(r) \/ OpeningStep(r)
  BY <1>1, OpeningAims
<1>2. CASE \/ \E r \in Runs : \/ EndRun(r) \/ ExitRun(r) \/ LetGo(r)
                             \/ TakeFiles(r) \/ ReleaseFiles(r)
           \/ Fold
           \/ UNCHANGED vars
  BY <1>2, FiberAims
<1>3. CASE \E s \in Stoppers :
             \/ \E r \in Runs : StopAsk(s, r) \/ StopRoot(s, r)
             \/ StopAll(s) \/ StoppedAll(s)
  BY <1>3, AskAims
<1>4. CASE \E s \in Stoppers : StopCommit(s) \/ ChildCommit(s)
  BY <1>4, CommitAims
<1>5. CASE \E s \in Stoppers :
             \/ StopSettled(s) \/ Detach(s) \/ Detached(s) \/ ChildStopped(s)
             \/ StopRefused(s)
  BY <1>5, SettledAims
<1> QED
  BY <1>1, <1>2, <1>3, <1>4, <1>5 DEF Next, StopStep

\* No fiber drives on, untouched, on a run stopped or ended on its rows,
\* with no stop under way that will interrupt it: whatever the tree of runs,
\* while the store refuses no stop and one stopper acts beside the close.
THEOREM RegistryStoppedIsInterrupted ==
    OneUser => (Spec => []StoppedIsInterrupted)
<1> SUFFICES ASSUME OneUser
             PROVE  Spec => []StoppedIsInterrupted
  OBVIOUS
<1>1. Init => Aims
  BY InitAims
<1>2. IInv /\ Aims /\ [Next]_vars => Aims'
  BY StepAims
<1>3. Aims => StoppedIsInterrupted
  BY DEF Aims, NoneOverlooked, StoppedIsInterrupted, Overlooked, Clean,
         StoppedBy, BeingStopped
<1> QED
  BY <1>1, <1>2, <1>3, RegistryInvariant, PTL DEF Spec

-----------------------------------------------------------------------------
(* The close.  In a session of fresh runs, each launched once, a run is     *)
(* launched by a driven one and opens nothing over what is already driven,  *)
(* so what is driven under a root stays under it, and each fiber is in some *)
(* hand of the close until it is interrupted: under a root still listed,    *)
(* under the root being stopped, or in its cascade.  Nothing is started     *)
(* once the session closes, and what was opening is forked interrupted.     *)

\* No rows of an earlier process and no resume, children stopped with their
\* parent, and no stop the store refuses.
FreshRuns == /\ Inherited = {} /\ MaxLives = 1
             /\ ~KeepAgentsRunning /\ MaxRefused = 0

\* A run with rows was opened here, and so was one that is driven or whose
\* opening's batch is in.
OpenedHere ==
    \A r \in Runs :
        /\ rows[r].born => lives[r] > 0
        /\ live[r] # None => lives[r] > 0
        /\ starting[r] # None /\ starting[r].at \in {"settling", "stopping",
                                                     "stopped"}
             => lives[r] > 0

\* A run is launched once its parent's opening is over.
Launched(r) == lives[r] > 0 /\ starting[r] = None

ParentsFirst ==
    \A r \in Runs :
        (lives[r] > 0 \/ starting[r] # None) /\ ParentOf[r] # None
        => Launched(ParentOf[r])

\* The view holds a run's edge or not yet, and no edge is ever cut.
EdgesStay ==
    /\ \A r \in Runs : seen[r] \in {None, ParentOf[r]}
    /\ \A i \in 1..Len(unfolded) : unfolded[i][2] = ParentOf[unfolded[i][1]]
    /\ \A s \in Stoppers : stops[s].at \notin {"detach", "detached"}

Family == OpenedHere /\ ParentsFirst /\ EdgesStay

\* Where the close has the fiber that drives r in hand.
InHand(r) ==
    LET op == stops[Closer] IN
    \/ /\ op.at # "done"
       /\ \E q \in op.roots : q = r \/ q \in AncestorsOf(r)
    \/ op.at \in {"stop", "settle"} /\ op.run \in AncestorsOf(r)
    \/ /\ op.at \in {"stop", "settle", "child", "childSettle"}
       /\ op.run = r /\ op.fiber = lives[r]
    \/ /\ op.at \in {"child", "childSettle"}
       /\ r \in op.todo \/ (op.child = r /\ op.childFiber = lives[r])

Drives(r) == Running(r) /\ ~Interrupted(r)

AllInHand ==
    Closer # None /\ stops[Closer].at # "idle" =>
        closing /\ \A r \in Runs : Drives(r) => InHand(r)

\* An up-closed set that holds a run's parent holds all its ancestors.
LEMMA AncestorsWithin ==
    ASSUME NEW r \in Runs, NEW S \in SUBSET Runs, UpClosed(S),
           seen[r] # None => seen[r] \in S
    PROVE  AncestorsOf(r) \subseteq S
  BY DEF AncestorsOf

\* A run's ancestors are its parent and its parent's.
LEMMA AncestorsStep ==
    ASSUME TypeOK, NEW r \in Runs
    PROVE  /\ AncestorsOf(r) \subseteq Runs
           /\ UpClosed(AncestorsOf(r))
           /\ seen[r] = None => AncestorsOf(r) = {}
           /\ seen[r] # None
                => AncestorsOf(r) = {seen[r]} \cup AncestorsOf(seen[r])
<1>1. \A q \in Runs : seen[q] # None => seen[q] \in Runs
  BY DEF TypeOK
<1>2. ASSUME NEW p \in Runs
      PROVE  /\ UpClosed(AncestorsOf(p)) /\ AncestorsOf(p) \subseteq Runs
             /\ seen[p] # None => seen[p] \in AncestorsOf(p)
  BY <1>1 DEF AncestorsOf, UpClosed
<1>3. ASSUME seen[r] = None
      PROVE  AncestorsOf(r) = {}
  <2>1. UpClosed({})
    BY DEF UpClosed
  <2>2. AncestorsOf(r) \subseteq {}
    BY <1>3, <2>1, AncestorsWithin
  <2> QED
    BY <2>2
<1>4. ASSUME seen[r] # None
      PROVE  AncestorsOf(r) = {seen[r]} \cup AncestorsOf(seen[r])
  <2> DEFINE p == seen[r]
             W == {p} \cup AncestorsOf(p)
  <2>1. p \in Runs
    BY <1>1, <1>4
  <2>2. W \in SUBSET Runs /\ UpClosed(W)
    BY <1>2, <2>1 DEF UpClosed
  <2>3. AncestorsOf(r) \subseteq W
    BY <2>2, AncestorsWithin
  <2>4. AncestorsOf(p) \subseteq AncestorsOf(r)
    <3>1. seen[p] # None => seen[p] \in AncestorsOf(r)
      BY <1>2, <1>4, <2>1 DEF UpClosed
    <3> QED
      BY <1>2, <2>1, <3>1, AncestorsWithin
  <2> QED
    BY <1>2, <1>4, <2>3, <2>4
<1> QED
  BY <1>2, <1>3, <1>4

\* While no edge is cut, ancestors are only added.
LEMMA AncestorsGrow ==
    ASSUME NEW r \in Runs,
           \A q \in Runs : seen[q] # None => seen'[q] = seen[q]
    PROVE  AncestorsOf(r) \subseteq AncestorsOf(r)'
<1> SUFFICES ASSUME NEW a \in AncestorsOf(r), NEW S \in SUBSET Runs,
                    UpClosed(S)', seen'[r] # None => seen'[r] \in S
             PROVE  a \in S
  BY DEF AncestorsOf
<1>1. UpClosed(S)
  BY DEF UpClosed
<1>2. seen[r] # None => seen[r] \in S
  OBVIOUS
<1> QED
  BY <1>1, <1>2, AncestorsWithin

\* A held run is under a root of the held forest, or is one.
LEMMA RootsCover ==
    ASSUME TypeOK, Family, NEW r \in Held
    PROVE  \E q \in Roots : q = r \/ q \in AncestorsOf(r)
<1> DEFINE up(x) == {x} \cup AncestorsOf(x)
           U == {x \in up(r) : up(x) \cap Held # {}}
<1>1. r \in Runs /\ r \in U
  BY DEF Held
<1>2. U \in SUBSET Runs
  BY <1>1, AncestorsStep
<1>3. PICK x \in U : ParentOf[x] \notin U
  BY <1>1, <1>2, ParentsAreNoCycle
<1>4. x \in Runs /\ (seen[x] = None \/ seen[x] = ParentOf[x])
  BY <1>2 DEF Family, EdgesStay
<1>5. AncestorsOf(x) \cap Held = {}
  <2>1. CASE seen[x] = None
    BY <1>4, <2>1, AncestorsStep
  <2>2. CASE seen[x] # None
    <3>1. seen[x] \in up(r)
      BY <1>1, <1>4, <2>2, AncestorsStep DEF UpClosed
    <3>2. up(seen[x]) \cap Held = {}
      BY <1>3, <1>4, <2>2, <3>1
    <3> QED
      BY <1>4, <2>2, <3>2, AncestorsStep
  <2> QED
    BY <2>1, <2>2
<1>6. x \in Roots
  BY <1>5 DEF Roots
<1> QED
  BY <1>6

\* Every ancestor of a run that is driven was launched.
LEMMA AncestorsLaunched ==
    ASSUME TypeOK, Family, NEW r \in Runs, live[r] # None
    PROVE  \A q \in AncestorsOf(r) : Launched(q)
<1> DEFINE S == {q \in Runs : Launched(q)}
<1>1. seen \in [Runs -> Runs \cup {None}]
  BY DEF TypeOK
<1>2. ASSUME NEW q \in Runs, lives[q] > 0, seen[q] # None
      PROVE  seen[q] \in S
  BY <1>1, <1>2 DEF Family, EdgesStay, ParentsFirst
<1>3. UpClosed(S)
  BY <1>2 DEF UpClosed, Launched
<1>4. lives[r] > 0
  BY DEF Family, OpenedHere
<1> QED
  BY <1>2, <1>3, <1>4, AncestorsWithin

\* No stop detaches children, where the setting is off.
LEMMA NoDetach ==
    ASSUME Typed, EdgesStay, FreshRuns, NEW s \in Stoppers,
           \/ \E r \in Runs : StopAsk(s, r) \/ StopRoot(s, r)
           \/ StopAll(s) \/ StopStep(s)
    PROVE  /\ UNCHANGED <<seen, unfolded>>
           /\ stops' \in [Stoppers -> Stop]
           /\ \A t \in Stoppers \ {s} : stops'[t] = stops[t]
           /\ stops'[s].at \notin {"detach", "detached"}
           /\ ~Detach(s) /\ ~Detached(s) /\ ~StopRefused(s)
<1>1. stops \in [Stoppers -> Stop] /\ stops[s] \in Stop
  BY DEF Typed, TypeOK
<1>2. ~Detaches(s) /\ stops[s].at \notin {"detach", "detached"}
  BY DEF FreshRuns, Detaches, EdgesStay
<1>3. ~Detach(s) /\ ~Detached(s)
  BY <1>2, Zenon DEF Detach, Detached
<1>4. ~StopRefused(s)
  BY DEF StopRefused, FreshRuns, Typed, TypeOK
<1>5. stops' \in [Stoppers -> Stop]
  <2>1. Next
    BY DEF Next, StopStep
  <2> QED
    BY <2>1, TypedStep DEF Typed, TypeOK
<1>6. UNCHANGED <<seen, unfolded>>
  BY <1>2, <1>3, <1>4, Zenon
     DEF StopStep, StopAsk, StopRoot, StopAll, StopCommit, StopSettled,
         ChildCommit, ChildStopped, StoppedAll
<1>7. \E o :
        /\ stops' = [stops EXCEPT ![s] = o]
        /\ o.at \notin {"detach", "detached"}
  <2>1. CASE \E r \in Runs : StopAsk(s, r) \/ StopRoot(s, r)
    <3>0. PICK r \in Runs : \E reason, roots : Ask(s, r, reason, roots)
      BY <2>1 DEF StopAsk, StopRoot
    <3>1. PICK reason, roots : Ask(s, r, reason, roots)
      BY <3>0
    <3>2. \/ stops' = [stops EXCEPT ![s] = [stops[s] EXCEPT !.roots = roots]]
          \/ stops' = [stops EXCEPT ![s] =
                        [Idle EXCEPT !.at = "stop", !.run = r,
                                     !.reason = reason, !.roots = roots,
                                     !.fiber = CapturedFiber(r)]]
      BY <1>1, <3>1 DEF Ask
    <3>3. [stops[s] EXCEPT !.roots = roots].at = stops[s].at
      BY <1>1 DEF Stop
    <3>4. [Idle EXCEPT !.at = "stop", !.run = r, !.reason = reason,
                       !.roots = roots, !.fiber = CapturedFiber(r)].at
            = "stop"
      BY DEF Idle
    <3> QED
      BY <1>2, <3>2, <3>3, <3>4
  <2>2. CASE StopAll(s) \/ StoppedAll(s)
    <3>1. CASE StopAll(s)
      <4>1. [Idle EXCEPT !.at = "next", !.roots = Roots].at = "next"
        BY DEF Idle
      <4> QED
        BY <3>1, <4>1 DEF StopAll
    <3>2. CASE StoppedAll(s)
      <4>1. stops' = [stops EXCEPT ![s] = [stops[s] EXCEPT !.at = "done"]]
        BY <1>1, <3>2 DEF StoppedAll
      <4>2. [stops[s] EXCEPT !.at = "done"].at = "done"
        BY <1>1 DEF Stop
      <4> QED
        BY <4>1, <4>2
    <3> QED
      BY <2>2, <3>1, <3>2
  <2>3. CASE StopCommit(s) \/ ChildCommit(s)
    <3>1. PICK n : \/ stops' = [stops EXCEPT ![s].at = "settle", ![s].lag = n]
                   \/ stops' = [stops EXCEPT ![s].at = "childSettle",
                                             ![s].lag = n]
      BY <2>3 DEF StopCommit, ChildCommit
    <3>2. \/ stops' = [stops EXCEPT ![s] = [stops[s] EXCEPT !.at = "settle",
                                                            !.lag = n]]
          \/ stops' = [stops EXCEPT ![s] =
                         [stops[s] EXCEPT !.at = "childSettle", !.lag = n]]
      BY <1>1, <3>1
    <3>3. /\ [stops[s] EXCEPT !.at = "settle", !.lag = n].at = "settle"
          /\ [stops[s] EXCEPT !.at = "childSettle", !.lag = n].at
               = "childSettle"
      BY <1>1 DEF Stop
    <3> QED
      BY <3>2, <3>3
  <2>4. CASE StopSettled(s) \/ ChildStopped(s)
    <3>1. PICK todo, fibers, held : Cascade(s, todo, fibers, held)
      BY <1>2, <2>4, Zenon DEF StopSettled, ChildStopped
    <3>2. \/ stops' = [stops EXCEPT ![s] = Rest(s)]
          \/ \E c, rest :
               stops' = [stops EXCEPT ![s].at = "child", ![s].child = c,
                                      ![s].childFiber = lives[c],
                                      ![s].todo = rest]
      BY <3>1, Zenon DEF Cascade
    <3>3. CASE stops' = [stops EXCEPT ![s] = Rest(s)]
      <4>1. Rest(s).at \in {"next", "idle"}
        BY DEF Rest, Idle
      <4> QED
        BY <3>3, <4>1
    <3>4. ASSUME NEW c, NEW rest,
                 stops' = [stops EXCEPT ![s].at = "child", ![s].child = c,
                                        ![s].childFiber = lives[c],
                                        ![s].todo = rest]
          PROVE  \E o : /\ stops' = [stops EXCEPT ![s] = o]
                        /\ o.at \notin {"detach", "detached"}
      <4>1. stops' = [stops EXCEPT ![s] =
                        [stops[s] EXCEPT !.at = "child", !.child = c,
                                         !.childFiber = lives[c],
                                         !.todo = rest]]
        BY <1>1, <3>4
      <4>2. [stops[s] EXCEPT !.at = "child", !.child = c,
                             !.childFiber = lives[c], !.todo = rest].at
              = "child"
        BY <1>1 DEF Stop
      <4> QED
        BY <4>1, <4>2
    <3> QED
      BY <3>2, <3>3, <3>4
  <2> QED
    BY <1>3, <1>4, <2>1, <2>2, <2>3, <2>4 DEF StopStep
<1>8. /\ \A t \in Stoppers \ {s} : stops'[t] = stops[t]
      /\ stops'[s].at \notin {"detach", "detached"}
  BY <1>1, <1>7
<1> QED
  BY <1>3, <1>4, <1>5, <1>6, <1>8

\* Every step keeps the edges.
LEMMA StepEdges ==
    ASSUME Typed, EdgesStay, FreshRuns, [Next]_vars
    PROVE  EdgesStay'
<1>1. /\ seen \in [Runs -> Runs \cup {None}]
      /\ unfolded \in Seq(Runs \X (Runs \cup {None}))
      /\ stops \in [Stoppers -> Stop]
  BY DEF Typed, TypeOK
<1>2. CASE UNCHANGED <<seen, unfolded, stops>>
  BY <1>2 DEF EdgesStay
<1>3. CASE \E r \in Runs : Open(r)
  <2>1. PICK r \in Runs : Open(r)
    BY <1>3
  <2>2. /\ UNCHANGED <<seen, stops>>
        /\ unfolded' \in {unfolded, Append(unfolded, <<r, ParentOf[r]>>)}
    BY <2>1 DEF Open
  <2>3. \A i \in 1..Len(unfolded') :
          unfolded'[i][2] = ParentOf[unfolded'[i][1]]
    <3>1. CASE unfolded' = unfolded
      BY <3>1 DEF EdgesStay
    <3>2. CASE unfolded' = Append(unfolded, <<r, ParentOf[r]>>)
      <4>1. Len(unfolded') = Len(unfolded) + 1 /\ Len(unfolded) \in Nat
        BY <1>1, <3>2
      <4>2. unfolded'[Len(unfolded')] = <<r, ParentOf[r]>>
        BY <1>1, <3>2, <4>1
      <4>3. \A i \in 1..Len(unfolded) : unfolded'[i] = unfolded[i]
        BY <1>1, <3>2
      <4> QED
        BY <4>1, <4>2, <4>3 DEF EdgesStay
    <3> QED
      BY <2>2, <3>1, <3>2
  <2> QED
    BY <2>2, <2>3 DEF EdgesStay
<1>4. CASE Fold
  <2>1. unfolded # <<>> /\ Len(unfolded) \in Nat /\ Len(unfolded) > 0
    BY <1>1, <1>4 DEF Fold
  <2>2. unfolded[1] \in Runs \X (Runs \cup {None})
        /\ Head(unfolded) = unfolded[1]
    BY <1>1, <2>1
  <2>3. unfolded[1][2] = ParentOf[unfolded[1][1]] /\ unfolded[1][1] \in Runs
    BY <2>1, <2>2 DEF EdgesStay
  <2>4. \A r \in Runs : seen'[r] \in {None, ParentOf[r]}
    BY <1>1, <1>4, <2>2, <2>3 DEF Fold, EdgesStay
  <2>5. /\ Len(unfolded') = Len(unfolded) - 1
        /\ \A i \in 1..Len(unfolded') : unfolded'[i] = unfolded[i + 1]
    BY <1>1, <1>4, <2>1 DEF Fold
  <2>6. \A i \in 1..Len(unfolded') :
          unfolded'[i][2] = ParentOf[unfolded'[i][1]]
    BY <2>1, <2>5 DEF EdgesStay
  <2>7. \A s \in Stoppers : stops'[s].at = stops[s].at
    <3> SUFFICES ASSUME NEW s \in Stoppers
                 PROVE  stops'[s].at = stops[s].at
      OBVIOUS
    <3>1. stops'[s] = [stops[s] EXCEPT !.lag = Less(@)] /\ stops[s] \in Stop
      BY <1>1, <1>4 DEF Fold
    <3> QED
      BY <3>1 DEF Stop
  <2> QED
    BY <2>4, <2>6, <2>7 DEF EdgesStay
<1>5. CASE \E s \in Stoppers : \/ \E r \in Runs : StopAsk(s, r)
                              \/ StopAll(s) \/ StopStep(s)
  BY <1>5, NoDetach DEF EdgesStay
<1>6. CASE \E r \in Runs :
             \/ StartBirth(r) \/ StartResume(r) \/ OpeningStep(r)
             \/ EndRun(r) \/ ExitRun(r) \/ LetGo(r)
             \/ TakeFiles(r) \/ ReleaseFiles(r)
  BY <1>2, <1>3, <1>6
     DEF StartBirth, StartResume, Enter, OpeningStep, Read, OpenFails, Cut,
         Answer, RecordOpeningStop, ForkStopped, LeaveFailed, EndRun,
         ExitRun, LetGo, TakeFiles, ReleaseFiles
<1>7. CASE UNCHANGED vars
  BY <1>2, <1>7 DEF vars
<1> QED
  BY <1>4, <1>5, <1>6, <1>7 DEF Next

\* A start and an opening's step: a child is launched by a driven run, and
\* no run driven here is opened again.
LEMMA OpeningFamily ==
    ASSUME IInv, Family, FreshRuns, NEW r \in Runs,
           StartBirth(r) \/ StartResume(r) \/ OpeningStep(r)
    PROVE  OpenedHere' /\ ParentsFirst'
<1>1. /\ rows \in [Runs -> Row] /\ lives \in [Runs -> Nat]
      /\ starting \in [Runs -> Opening \cup {None}]
      /\ live \in [Runs -> Fiber \cup {None}]
      /\ starting[r] = None \/ live[r] = None
  BY DEF IInv, Typed, TypeOK, Fates, Exclusive
<1>2. \A q \in Runs \ {r} :
        /\ starting'[q] = starting[q] /\ live'[q] = live[q]
        /\ rows'[q] = rows[q] /\ lives'[q] = lives[q]
  BY <1>1 DEF StartBirth, StartResume, OpeningStep, Enter, Read, OpenFails,
     Open, Cut, Answer, Fail, Move, Fork, RecordOpeningStop, StopRows,
     ForkStopped, LeaveFailed
<1>3. \A q \in Runs : /\ rows[q].born => lives[q] > 0
                      /\ live[q] # None => lives[q] > 0
                      /\ /\ starting[q] # None
                         /\ starting[q].at \in {"settling", "stopping",
                                                "stopped"}
                         => lives[q] > 0
  BY DEF Family, OpenedHere
<1>4. ~StartResume(r)
  <2>1. rows[r].born => lives[r] \in Nat /\ lives[r] > 0
    BY <1>1, <1>3
  <2>2. StartResume(r) => rows[r].born /\ lives[r] < 1
    BY DEF StartResume, FreshRuns
  <2> QED
    BY <2>1, <2>2
\* What the step leaves of the run itself.
<1> DEFINE Kept == /\ rows'[r].born => lives'[r] > 0
                   /\ live'[r] # None => lives'[r] > 0
                   /\ /\ starting'[r] # None
                      /\ starting'[r].at \in {"settling", "stopping",
                                              "stopped"}
                      => lives'[r] > 0
<1>5. CASE StartBirth(r)
  <2>1. /\ live[r] = None /\ UNCHANGED <<rows, lives, live>>
        /\ starting' = [starting EXCEPT ![r] =
                          [at |-> "reading", resume |-> FALSE,
                           stop |-> None, lag |-> 0]]
        /\ lives[r] = 0 /\ ~rows[r].born
    BY <1>1, <1>5 DEF StartBirth, Admits, Free, Enter, FreshRuns
  <2>2. starting'[r].at = "reading"
    BY <1>1, <2>1
  <2>3. Kept
    BY <2>1, <2>2
  <2>4. ParentOf[r] # None => Launched(ParentOf[r])
    BY <1>3, <1>5, ParentsAreRuns
       DEF StartBirth, Launched, IInv, Fates, Exclusive
  <2>5. OpenedHere'
    BY <1>2, <1>3, <2>3 DEF OpenedHere
  <2>6. ASSUME NEW q \in Runs, ParentOf[q] # None,
               lives'[q] > 0 \/ starting'[q] # None
        PROVE  Launched(ParentOf[q])'
    <3>1. ParentOf[q] \in Runs /\ Launched(ParentOf[q])
      BY <1>2, <2>4, <2>6, ParentsAreRuns DEF Family, ParentsFirst
    <3>2. ParentOf[q] # r
      BY <2>1, <3>1 DEF Launched
    <3> QED
      BY <1>2, <3>1, <3>2 DEF Launched
  <2> QED
    BY <2>5, <2>6 DEF ParentsFirst
<1>6. CASE OpeningStep(r)
  <2>1. starting[r] # None /\ starting[r] \in Opening /\ live[r] = None
    BY <1>1, <1>6 DEF OpeningStep, Read, OpenFails, Open, Cut, Answer,
       RecordOpeningStop, ForkStopped, LeaveFailed, Opens
  <2>2. lives'[r] \in Nat /\ lives'[r] >= lives[r]
    <3>1. lives' = lives \/ lives' = [lives EXCEPT ![r] = @ + 1]
      BY <1>6 DEF OpeningStep, Read, OpenFails, Open, Cut, Answer,
         RecordOpeningStop, ForkStopped, LeaveFailed
    <3> QED
      BY <1>1, <3>1
  <2>3. ASSUME NEW stop, Fail(r, stop), UNCHANGED <<rows, lives, live>>
        PROVE  Kept
    <3>1. starting'[r] = None \/ starting'[r].at = "failing"
      BY <1>1, <2>1, <2>3 DEF Fail, Opening
    <3> QED
      BY <1>3, <2>1, <2>3, <3>1
  <2>4. ASSUME Read(r)
        PROVE  Kept
    <3>1. CASE Refused(r)
      BY <2>3, <2>4, <3>1 DEF Read
    <3>2. CASE ~Refused(r)
      <4>1. starting'[r].at = "building"
        BY <1>1, <2>1, <2>4, <3>2 DEF Read, Move, Opening
      <4> QED
        BY <1>3, <2>1, <2>4, <4>1 DEF Read
    <3> QED
      BY <3>1, <3>2
  <2>5. ASSUME OpenFails(r) \/ Cut(r)
        PROVE  Kept
    BY <2>3, <2>5 DEF OpenFails, Cut
  <2>6. ASSUME Open(r)
        PROVE  Kept
    BY <1>1, <2>1, <2>6 DEF Open
  <2>7. ASSUME Answer(r)
        PROVE  Kept
    BY <1>3, <2>1, <2>7 DEF Answer, Opens
  <2>8. ASSUME RecordOpeningStop(r)
        PROVE  Kept
    <3>1. \A q \in Runs : rows'[q].born = rows[q].born
      <4>1. PICK end \in BOOLEAN : rows' = StopRows(r, starting[r].stop, end)
        BY <2>8 DEF RecordOpeningStop
      <4>2. starting[r].stop \in Reasons \cup {None}
        BY <2>1 DEF Opening
      <4> QED
        BY <4>1, <4>2, StopRowsFacts DEF IInv, Typed
    <3>2. \/ starting[r].at = "stopping"
          \/ starting'[r].at = "failed"
      BY <1>1, <2>1, <2>8 DEF RecordOpeningStop, Opening
    <3> QED
      BY <1>3, <2>1, <2>8, <3>1, <3>2 DEF RecordOpeningStop
  <2>9. ASSUME ForkStopped(r)
        PROVE  Kept
    BY <1>3, <2>1, <2>9 DEF ForkStopped, Opens
  <2>10. ASSUME LeaveFailed(r)
        PROVE  Kept
    BY <1>1, <1>3, <2>1, <2>10 DEF LeaveFailed
  <2>11. Kept
    BY <1>6, <2>4, <2>5, <2>6, <2>7, <2>8, <2>9, <2>10 DEF OpeningStep
  <2>12. OpenedHere'
    BY <1>2, <1>3, <2>11 DEF OpenedHere
  <2>13. ASSUME NEW q \in Runs, ParentOf[q] # None,
                lives'[q] > 0 \/ starting'[q] # None
         PROVE  Launched(ParentOf[q])'
    <3>1. lives[q] > 0 \/ starting[q] # None
      BY <1>2, <2>1, <2>13
    <3>2. ParentOf[q] \in Runs /\ Launched(ParentOf[q])
      BY <2>13, <3>1, ParentsAreRuns DEF Family, ParentsFirst
    <3>3. ParentOf[q] # r
      BY <2>1, <3>2 DEF Launched
    <3> QED
      BY <1>2, <3>2, <3>3 DEF Launched
  <2> QED
    BY <2>12, <2>13 DEF ParentsFirst
<1> QED
  BY <1>4, <1>5, <1>6

\* Every step keeps the family.
LEMMA StepFamily ==
    ASSUME IInv, Family, FreshRuns, [Next]_vars
    PROVE  Family'
<1>1. EdgesStay'
  BY StepEdges DEF IInv, Family
<1>2. ASSUME UNCHANGED <<lives, starting>>,
             \A q \in Runs : /\ rows'[q].born = rows[q].born
                             /\ live[q] = None => live'[q] = None
      PROVE  OpenedHere' /\ ParentsFirst'
  BY <1>2 DEF Family, OpenedHere, ParentsFirst, Launched
<1>3. ASSUME Quiet
      PROVE  OpenedHere' /\ ParentsFirst'
  <2>1. OpenedHere'
    BY <1>3 DEF Family, OpenedHere, Quiet, SameOpening
  <2>2. ParentsFirst'
    BY <1>3, ParentsAreRuns DEF Family, ParentsFirst, Launched, Quiet
  <2> QED
    BY <2>1, <2>2
<1>4. ASSUME \E r \in Runs : StartBirth(r) \/ StartResume(r) \/ OpeningStep(r)
      PROVE  OpenedHere' /\ ParentsFirst'
  BY <1>4, OpeningFamily
<1>5. ASSUME \E r \in Runs :
               EndRun(r) \/ ExitRun(r) \/ TakeFiles(r) \/ ReleaseFiles(r)
      PROVE  OpenedHere' /\ ParentsFirst'
  <2>1. PICK r \in Runs :
          EndRun(r) \/ ExitRun(r) \/ TakeFiles(r) \/ ReleaseFiles(r)
    BY <1>5
  <2>2. /\ rows \in [Runs -> Row] /\ live \in [Runs -> Fiber \cup {None}]
    BY DEF IInv, Typed, TypeOK
  <2>3. UNCHANGED <<lives, starting>>
    BY <2>1 DEF EndRun, ExitRun, TakeFiles, ReleaseFiles
  <2>4. ASSUME NEW q \in Runs
        PROVE  /\ rows'[q].born = rows[q].born
               /\ live[q] = None => live'[q] = None
    BY <2>1, <2>2 DEF EndRun, ExitRun, TakeFiles, ReleaseFiles, Row
  <2> QED
    BY <1>2, <2>3, <2>4
<1>6. ASSUME \/ \E s \in Stoppers :
                \/ \E r \in Runs : StopAsk(s, r) \/ StopRoot(s, r)
                \/ StopAll(s) \/ StoppedAll(s) \/ Detach(s)
                \/ StopCommit(s) \/ ChildCommit(s) \/ StopSettled(s)
                \/ ChildStopped(s) \/ Detached(s) \/ StopRefused(s)
           \/ \E r \in Runs : LetGo(r)
           \/ Fold
      PROVE  OpenedHere' /\ ParentsFirst'
  BY <1>3, <1>6, StopIsQuiet DEF IInv
<1>7. ASSUME UNCHANGED vars
      PROVE  OpenedHere' /\ ParentsFirst'
  BY <1>2, <1>7 DEF vars
<1>8. OpenedHere' /\ ParentsFirst'
  <2> DEFINE Goal == OpenedHere' /\ ParentsFirst'
  <2> SUFFICES Goal
    OBVIOUS
  <2> HIDE DEF Goal
  <2>1. CASE UNCHANGED vars
    BY <1>7, <2>1 DEF Goal
  <2>2. CASE \E r \in Runs :
               \/ StartBirth(r) \/ StartResume(r) \/ OpeningStep(r)
               \/ EndRun(r) \/ ExitRun(r) \/ LetGo(r)
               \/ TakeFiles(r) \/ ReleaseFiles(r)
    BY <1>4, <1>5, <1>6, <2>2, Zenon DEF Goal
  <2>3. CASE \/ \E s \in Stoppers : \/ \E r \in Runs : StopAsk(s, r)
                                   \/ StopAll(s) \/ StopStep(s)
             \/ Fold
    <3>1. ASSUME NEW s \in Stoppers,
                 \/ \E r \in Runs : StopAsk(s, r)
                 \/ StopAll(s) \/ StopStep(s)
          PROVE  Goal
      <4>1. \/ \E r \in Runs : StopAsk(s, r) \/ StopRoot(s, r)
            \/ StopAll(s) \/ StoppedAll(s) \/ Detach(s)
            \/ StopCommit(s) \/ ChildCommit(s) \/ StopSettled(s)
            \/ ChildStopped(s) \/ Detached(s) \/ StopRefused(s)
        BY <3>1, Zenon DEF StopStep
      <4> QED
        BY <1>6, <4>1, Zenon DEF Goal
    <3>2. ASSUME Fold
          PROVE  Goal
      BY <1>3, <3>2, StopIsQuiet DEF IInv, Goal
    <3> QED
      BY <2>3, <3>1, <3>2, Zenon
  <2> QED
    BY <2>1, <2>2, <2>3, Zenon DEF Next
<1> QED
  BY <1>1, <1>8 DEF Family

\* A session that closes forks nothing untouched.
LEMMA OpeningDrives ==
    ASSUME IInv, closing, NEW r \in Runs, NEW q \in Runs,
           StartBirth(r) \/ StartResume(r) \/ OpeningStep(r), Drives(q)'
    PROVE  Drives(q) /\ lives'[q] = lives[q]
<1>1. /\ lives \in [Runs -> Nat]
      /\ starting \in [Runs -> Opening \cup {None}]
      /\ live \in [Runs -> Fiber \cup {None}]
      /\ starting[r] = None \/ live[r] = None
  BY DEF IInv, Typed, TypeOK, Fates, Exclusive
<1>2. OpeningStep(r)
  BY DEF StartBirth, StartResume, Admits
<1>3. CASE q # r
  <2>1. live'[q] = live[q] /\ lives'[q] = lives[q]
    BY <1>1, <1>2, <1>3 DEF OpeningStep, Read, OpenFails, Open, Cut, Answer,
       Fork, RecordOpeningStop, ForkStopped, LeaveFailed
  <2> QED
    BY <2>1 DEF Drives, Running, Interrupted
<1>4. CASE q = r
  <2>1. starting[r] # None /\ live[r] = None
    BY <1>1, <1>2 DEF OpeningStep, Read, OpenFails, Open, Cut, Answer,
       RecordOpeningStop, ForkStopped, LeaveFailed, Opens
  <2>2. live'[r] # None /\ ~live'[r].interrupted
    BY <1>4 DEF Drives, Running, Interrupted
  <2>3. ~Answer(r)
    <3>1. StopOf(r) # None
      BY NoneIsNothing DEF StopOf, Reasons
    <3> QED
      BY <2>1, <2>2, <3>1 DEF Answer
  <2>4. ~ForkStopped(r)
    <3>1. ForkStopped(r) => live'[r] = [phase |-> "running",
                                        interrupted |-> TRUE]
      BY <1>1 DEF ForkStopped, Fork
    <3>2. [phase |-> "running", interrupted |-> TRUE].interrupted
      OBVIOUS
    <3> QED
      BY <2>2, <3>1, <3>2
  <2> QED
    BY <1>2, <2>1, <2>2, <2>3, <2>4 DEF OpeningStep, Read, OpenFails, Open,
       Cut, RecordOpeningStop, LeaveFailed
<1> QED
  BY <1>3, <1>4

\* What a cascade leaves driving was, and was not what it interrupts.
LEMMA CascadeDrives ==
    ASSUME Typed, NEW s \in Stoppers, NEW todo \in SUBSET Runs, NEW held,
           NEW fibers \in [Runs -> Fiber \cup {None}], NEW q \in Runs,
           Cascade(s, todo, fibers, held), Drives(q)'
    PROVE  fibers[q] # None /\ ~fibers[q].interrupted
<1>1. stops[s].run \in Runs \cup {None}
  BY DEF Typed, TypeOK, Stop
<1>2. live'[q] # None /\ ~live'[q].interrupted
  BY DEF Drives, Running, Interrupted
<1>3. CASE live' = fibers
  BY <1>2, <1>3
<1>4. CASE live' = InterruptFiber(fibers, stops[s].run, stops[s].fiber)
  <2> DEFINE marked == InterruptFiber(fibers, stops[s].run, stops[s].fiber)
  <2>1. marked[q] # None /\ ~marked[q].interrupted
    BY <1>2, <1>4
  <2> QED
    BY ONLY <1>1, <2>1, InterruptMarks, fibers \in [Runs -> Fiber \cup {None}],
            q \in Runs
<1> QED
  BY <1>3, <1>4, Zenon DEF Cascade

\* What an interruption leaves unmarked was.
LEMMA Unmarked ==
    ASSUME live \in [Runs -> Fiber \cup {None}], NEW q \in Runs,
           NEW child \in Runs \cup {None}, NEW fiber,
           InterruptFiber(live, child, fiber)[q] # None,
           ~InterruptFiber(live, child, fiber)[q].interrupted
    PROVE  /\ live[q] # None /\ ~live[q].interrupted
           /\ ~(q = child /\ fiber = lives[q])
  BY InterruptMarks

\* No stop starts anything or takes an interruption back.
LEMMA StopDrives ==
    ASSUME IInv, EdgesStay, FreshRuns, NEW s \in Stoppers, NEW q \in Runs,
           \/ \E r \in Runs : StopAsk(s, r) \/ StopRoot(s, r)
           \/ StopAll(s) \/ StopStep(s),
           Drives(q)'
    PROVE  Drives(q)
<1>1. live \in [Runs -> Fiber \cup {None}]
  BY DEF IInv, Typed, TypeOK
<1>2. ~Detach(s) /\ ~Detached(s) /\ ~StopRefused(s)
  BY NoDetach DEF IInv
<1>3. Quiet
  BY StopIsQuiet DEF IInv, StopStep
<1>4. ASSUME live[q] # None, ~live[q].interrupted
      PROVE  Drives(q)
  BY <1>3, <1>4 DEF Drives, Running, Interrupted, Quiet, SameFiber
<1>5. CASE live' = live
  BY <1>5 DEF Drives, Running, Interrupted
<1>6. CASE StopSettled(s)
  <2>1. HeldUnder(stops[s].run) \in SUBSET Runs /\ ~Detaches(s)
    BY DEF HeldUnder, Held, FreshRuns, Detaches
  <2>2. Cascade(s, HeldUnder(stops[s].run), live, stopping)
    BY <1>6, <2>1 DEF StopSettled
  <2> QED
    BY <1>1, <1>4, <2>1, <2>2, CascadeDrives DEF IInv
<1>7. CASE ChildStopped(s)
  <2> DEFINE fibers == InterruptFiber(live, stops[s].child,
                                      stops[s].childFiber)
             held == stopping \ {stops[s].child}
  <2>1. stops[s].todo \in SUBSET Runs /\ stops[s].child \in Runs \cup {None}
    BY DEF IInv, Typed, TypeOK, Stop
  <2>2. Cascade(s, stops[s].todo, fibers, held)
    BY <1>7 DEF ChildStopped
  <2>3. fibers \in [Runs -> Fiber \cup {None}]
    BY <1>1, <2>1, InterruptTyped
  <2>4. ASSUME fibers[q] # None, ~fibers[q].interrupted
        PROVE  live[q] # None /\ ~live[q].interrupted
    BY <1>1, <2>1, <2>4, Unmarked
  <2> HIDE DEF fibers, held
  <2> QED
    BY <1>4, <2>1, <2>2, <2>3, <2>4, CascadeDrives DEF IInv
<1> QED
  BY <1>2, <1>5, <1>6, <1>7
     DEF StopStep, StopAsk, StopRoot, StopAll, StopCommit, ChildCommit,
         StoppedAll

\* The close's hold of a run lasts while its stop stands where it is.
LEMMA HoldStays ==
    ASSUME NEW r \in Runs, Closer \in Stoppers, InHand(r),
           \A q \in Runs : seen[q] # None => seen'[q] = seen[q],
           lives'[r] = lives[r],
           stops'[Closer].at = stops[Closer].at,
           stops'[Closer].run = stops[Closer].run,
           stops'[Closer].fiber = stops[Closer].fiber,
           stops'[Closer].child = stops[Closer].child,
           stops'[Closer].childFiber = stops[Closer].childFiber,
           stops'[Closer].todo = stops[Closer].todo,
           stops'[Closer].roots = stops[Closer].roots
    PROVE  InHand(r)'
<1>1. AncestorsOf(r) \subseteq AncestorsOf(r)'
  BY AncestorsGrow
<1> QED
  BY <1>1 DEF InHand

\* The cascade of the close goes on to the next run driven here, or is over:
\* the runs it passes are opening or gone, and what it had is interrupted.
LEMMA CascadeHolds ==
    ASSUME IInv, AllInHand, Closer \in Stoppers, Closer # None, Quiet,
           NEW todo \in SUBSET Runs, NEW held,
           NEW fibers \in [Runs -> Fiber \cup {None}],
           \A q \in Runs : fibers[q] = None <=> live[q] = None,
           Cascade(Closer, todo, fibers, held),
           UNCHANGED <<seen, closing>>,
           \/ /\ stops[Closer].at = "settle" /\ fibers = live
              /\ todo = HeldUnder(stops[Closer].run)
           \/ /\ stops[Closer].at = "childSettle"
              /\ todo = stops[Closer].todo
              /\ fibers = InterruptFiber(live, stops[Closer].child,
                                         stops[Closer].childFiber)
    PROVE  AllInHand'
<1> DEFINE op == stops[Closer]
<1>1. /\ stops \in [Stoppers -> Stop] /\ op \in Stop
      /\ live \in [Runs -> Fiber \cup {None}]
      /\ op.child \in Runs \cup {None} /\ op.run \in Runs \cup {None}
      /\ closing /\ UNCHANGED <<lives, closing>>
  BY DEF IInv, Typed, TypeOK, Stop, AllInHand, Quiet
<1> SUFFICES ASSUME NEW r \in Runs, Drives(r)'
             PROVE  InHand(r)'
  BY <1>1 DEF AllInHand
<1>2. fibers[r] # None /\ ~fibers[r].interrupted
  BY CascadeDrives DEF IInv
<1>3. /\ live[r] # None /\ ~live[r].interrupted
      /\ op.at = "childSettle"
           => ~(r = op.child /\ op.childFiber = lives[r])
  <2>1. CASE op.at = "settle" /\ fibers = live
    BY <1>2, <2>1
  <2>2. CASE fibers = InterruptFiber(live, op.child, op.childFiber)
    <3>1. /\ InterruptFiber(live, op.child, op.childFiber)[r] # None
          /\ ~InterruptFiber(live, op.child, op.childFiber)[r].interrupted
      BY <1>2, <2>2
    <3> HIDE DEF op
    <3> QED
      BY <1>1, <3>1, InterruptMarks
  <2> QED
    BY <2>1, <2>2
<1>4. Drives(r)
  BY <1>3 DEF Drives, Running, Interrupted, Quiet, SameFiber
<1>5. InHand(r) /\ starting[r] = None
  BY <1>3, <1>4 DEF AllInHand, IInv, Fates, Exclusive
<1>6. AncestorsOf(r)' = AncestorsOf(r)
  BY DEF AncestorsOf, UpClosed
\* The hands the close has r in at this place.
<1>7. \/ \E q \in op.roots : q = r \/ q \in AncestorsOf(r)
      \/ r \in todo
      \/ op.run = r /\ op.fiber = lives[r]
  <2>1. r \in Held
    BY <1>3 DEF Held
  <2> QED
    BY <1>3, <1>5, <2>1 DEF InHand, HeldUnder
<1> DEFINE driven == {c \in todo : starting[c] = None /\ fibers[c] # None}
<1>8. r \in todo => r \in driven
  BY <1>2, <1>5
<1>9. \/ \E c \in driven, passed \in SUBSET (todo \ driven) :
             /\ live' = fibers
             /\ stops' = [stops EXCEPT
                            ![Closer].at = "child", ![Closer].child = c,
                            ![Closer].childFiber = lives[c],
                            ![Closer].todo = todo \ (passed \cup {c})]
      \/ /\ driven = {}
         /\ live' = InterruptFiber(fibers, op.run, op.fiber)
         /\ stops' = [stops EXCEPT ![Closer] = Rest(Closer)]
  BY Zenon DEF Cascade
<1> HIDE DEF driven
<1>10. ASSUME NEW c \in driven, NEW passed \in SUBSET (todo \ driven),
              stops' = [stops EXCEPT
                          ![Closer].at = "child", ![Closer].child = c,
                          ![Closer].childFiber = lives[c],
                          ![Closer].todo = todo \ (passed \cup {c})]
       PROVE  InHand(r)'
  <2>1. stops' = [stops EXCEPT ![Closer] = [op EXCEPT
                    !.at = "child", !.child = c, !.childFiber = lives[c],
                    !.todo = todo \ (passed \cup {c})]]
    BY <1>1, <1>10
  <2>2. /\ stops'[Closer].at = "child" /\ stops'[Closer].child = c
        /\ stops'[Closer].childFiber = lives[c]
        /\ stops'[Closer].todo = todo \ (passed \cup {c})
        /\ stops'[Closer].run = op.run /\ stops'[Closer].fiber = op.fiber
        /\ stops'[Closer].roots = op.roots
    BY <1>1, <2>1 DEF Stop
  <2> HIDE DEF op
  <2>3. CASE \E q \in op.roots : q = r \/ q \in AncestorsOf(r)
    BY <1>6, <2>2, <2>3 DEF InHand
  <2>4. CASE r \in todo
    BY <1>1, <1>8, <1>10, <2>2, <2>4 DEF InHand
  <2>5. CASE op.run = r /\ op.fiber = lives[r]
    BY <1>1, <2>2, <2>5 DEF InHand
  <2> QED
    BY <1>7, <2>3, <2>4, <2>5
<1>11. ASSUME driven = {},
              live' = InterruptFiber(fibers, op.run, op.fiber),
              stops' = [stops EXCEPT ![Closer] = Rest(Closer)]
       PROVE  InHand(r)'
  <2>1. stops'[Closer].at = "next" /\ stops'[Closer].roots = op.roots
    BY <1>1, <1>11 DEF Rest, Idle
  <2>2. ~(r = op.run /\ op.fiber = lives[r])
    <3>1. live'[r] # None /\ ~live'[r].interrupted
      BY DEF Drives, Running, Interrupted
    <3> QED
      BY <1>1, <1>11, <3>1, InterruptMarks
  <2> HIDE DEF op
  <2>3. \E q \in op.roots : q = r \/ q \in AncestorsOf(r)
    BY <1>7, <1>8, <1>11, <2>2
  <2> QED
    BY <1>6, <2>1, <2>3 DEF InHand
<1> HIDE DEF op
<1> QED
  BY <1>9, <1>10, <1>11, Zenon

\* The close's own steps that stop nothing by themselves.
LEMMA CloseHolds ==
    ASSUME IInv, Family, AllInHand, FreshRuns,
           Closer \in Stoppers, Closer # None, Quiet,
           \A q \in Runs : Drives(q)' => Drives(q),
           UNCHANGED seen,
           \/ StopAll(Closer) \/ \E r \in Runs : StopRoot(Closer, r)
           \/ StopCommit(Closer) \/ ChildCommit(Closer) \/ StoppedAll(Closer)
    PROVE  AllInHand'
<1> DEFINE op == stops[Closer]
<1>1. /\ stops \in [Stoppers -> Stop] /\ op \in Stop
      /\ live \in [Runs -> Fiber \cup {None}] /\ UNCHANGED lives
  BY DEF IInv, Typed, TypeOK, Quiet
<1>2. op.at # "idle" \/ StopAll(Closer)
  BY DEF StopRoot, StopCommit, ChildCommit, StoppedAll
<1>3. closing'
  BY <1>2 DEF AllInHand, StopAll, StopRoot, StopCommit, ChildCommit,
     StoppedAll
<1> SUFFICES ASSUME NEW r \in Runs, Drives(r)'
             PROVE  InHand(r)'
  BY <1>3 DEF AllInHand
<1>4. /\ Drives(r) /\ live[r] # None /\ starting[r] = None
      /\ op.at # "idle" => InHand(r)
  BY DEF AllInHand, Drives, Running, IInv, Fates, Exclusive
<1>5. AncestorsOf(r)' = AncestorsOf(r)
  BY DEF AncestorsOf, UpClosed
<1>6. CASE StopAll(Closer)
  <2>1. r \in Held
    BY <1>4 DEF Held
  <2>2. \E q \in Roots : q = r \/ q \in AncestorsOf(r)
    BY <2>1, RootsCover DEF IInv, Typed
  <2>3. stops'[Closer].at = "next" /\ stops'[Closer].roots = Roots
    BY <1>1, <1>6 DEF StopAll, Idle
  <2> QED
    BY <1>5, <2>2, <2>3 DEF InHand
<1>7. ASSUME NEW q \in Runs, StopRoot(Closer, q)
      PROVE  InHand(r)'
  <2>1. op.at = "next" /\ Ask(Closer, q, "shutdown", op.roots \ {q})
    BY <1>7 DEF StopRoot
  <2>2. PICK p \in op.roots : p = r \/ p \in AncestorsOf(r)
    BY <1>4, <2>1 DEF InHand
  <2>3. starting[p] = None
    BY <1>4, <2>2, AncestorsLaunched DEF Launched, IInv, Typed
  <2>4. CASE starting[q] # None
    <3>1. stops' = [stops EXCEPT ![Closer] =
                      [op EXCEPT !.roots = op.roots \ {q}]]
      BY <1>1, <2>1, <2>4 DEF Ask
    <3>2. stops'[Closer].at = "next" /\ stops'[Closer].roots = op.roots \ {q}
      BY <1>1, <2>1, <3>1 DEF Stop
    <3> HIDE DEF op
    <3> QED
      BY <1>5, <2>2, <2>3, <2>4, <3>2 DEF InHand
  <2>5. CASE starting[q] = None
    <3>1. stops' = [stops EXCEPT ![Closer] =
                      [Idle EXCEPT !.at = "stop", !.run = q,
                                   !.reason = "shutdown",
                                   !.roots = op.roots \ {q},
                                   !.fiber = CapturedFiber(q)]]
      BY <2>1, <2>5 DEF Ask
    <3>2. /\ stops'[Closer].at = "stop" /\ stops'[Closer].run = q
          /\ stops'[Closer].roots = op.roots \ {q}
          /\ stops'[Closer].fiber = CapturedFiber(q)
      BY <1>1, <3>1 DEF Idle
    <3>3. q = r => CapturedFiber(q) = lives'[r]
      BY <1>1, <1>4 DEF CapturedFiber
    <3> HIDE DEF op
    <3> QED
      BY <1>5, <2>2, <3>2, <3>3 DEF InHand
  <2> QED
    BY <2>4, <2>5
<1>8. CASE StopCommit(Closer) \/ ChildCommit(Closer)
  <2>1. PICK at, n : /\ stops' = [stops EXCEPT ![Closer].at = at,
                                              ![Closer].lag = n]
                     /\ \/ op.at = "stop" /\ at = "settle"
                        \/ op.at = "child" /\ at = "childSettle"
    BY <1>8 DEF StopCommit, ChildCommit
  <2>2. stops' = [stops EXCEPT ![Closer] = [op EXCEPT !.at = at, !.lag = n]]
    BY <1>1, <2>1
  <2>3. /\ stops'[Closer].at = at /\ stops'[Closer].run = op.run
        /\ stops'[Closer].fiber = op.fiber /\ stops'[Closer].todo = op.todo
        /\ stops'[Closer].child = op.child
        /\ stops'[Closer].childFiber = op.childFiber
        /\ stops'[Closer].roots = op.roots
    BY <1>1, <2>2 DEF Stop
  <2>4. InHand(r)
    BY <1>4, <2>1
  <2> QED
    BY <1>1, <1>5, <2>1, <2>3, <2>4 DEF InHand
<1>9. CASE StoppedAll(Closer)
  <2>1. op.at = "next" /\ op.roots = {}
    BY <1>9 DEF StoppedAll
  <2> QED
    BY <1>4, <2>1 DEF InHand
<1> QED
  BY <1>6, <1>7, <1>8, <1>9

\* Every step keeps the fibers in the close's hand.
LEMMA StepInHand ==
    ASSUME IInv, Family, AllInHand, FreshRuns, [Next]_vars
    PROVE  AllInHand'
<1> SUFFICES ASSUME Closer # None
             PROVE  AllInHand'
  BY DEF AllInHand
<1>1. Closer \in Stoppers /\ stops \in [Stoppers -> Stop]
  BY CloserStops DEF IInv, Typed, TypeOK
<1>2. \A q \in Runs : seen[q] # None => seen'[q] = seen[q]
  <2>1. CASE Fold
    <3>1. Family' /\ seen \in [Runs -> Runs \cup {None}]
          /\ unfolded \in Seq(Runs \X (Runs \cup {None}))
      BY StepFamily DEF IInv, Typed, TypeOK
    <3>2. unfolded # <<>> /\ Len(unfolded) \in Nat /\ Len(unfolded) > 0
      BY <2>1, <3>1 DEF Fold
    <3>3. Head(unfolded)[2] = ParentOf[Head(unfolded)[1]]
      BY <3>1, <3>2 DEF Family, EdgesStay
    <3> QED
      BY <2>1, <3>1, <3>3 DEF Fold, Family, EdgesStay
  <2>2. CASE \E s \in Stoppers : \/ \E r \in Runs : StopAsk(s, r)
                                \/ StopAll(s) \/ StopStep(s)
    BY <2>2, NoDetach DEF IInv, Family
  <2>3. CASE UNCHANGED seen
    BY <2>3
  <2> QED
    BY <2>1, <2>2, <2>3
       DEF Next, vars, StartBirth, StartResume, Enter, OpeningStep, Read,
           OpenFails, Open, Cut, Answer, RecordOpeningStop, ForkStopped,
           LeaveFailed, EndRun, ExitRun, LetGo, TakeFiles, ReleaseFiles
\* Where the close itself does nothing.
<1>3. ASSUME stops[Closer].at # "idle"
                => closing' /\ \A q \in Runs :
                     Drives(q)' => Drives(q) /\ lives'[q] = lives[q],
             stops'[Closer].at = stops[Closer].at,
             stops'[Closer].run = stops[Closer].run,
             stops'[Closer].fiber = stops[Closer].fiber,
             stops'[Closer].child = stops[Closer].child,
             stops'[Closer].childFiber = stops[Closer].childFiber,
             stops'[Closer].todo = stops[Closer].todo,
             stops'[Closer].roots = stops[Closer].roots
      PROVE  AllInHand'
  <2> SUFFICES ASSUME stops[Closer].at # "idle", NEW r \in Runs, Drives(r)'
               PROVE  InHand(r)'
    BY <1>3 DEF AllInHand
  <2>1. InHand(r) /\ lives'[r] = lives[r]
    BY <1>3 DEF AllInHand
  <2> QED
    BY <1>1, <1>2, <1>3, <2>1, HoldStays
<1>4. stops[Closer].at # "idle" => closing
  BY DEF AllInHand
<1>5. ASSUME NEW r \in Runs,
             StartBirth(r) \/ StartResume(r) \/ OpeningStep(r)
      PROVE  AllInHand'
  <2>1. UNCHANGED <<stops, closing>>
    BY <1>5 DEF StartBirth, StartResume, OpeningStep, Enter, Read, OpenFails,
       Open, Cut, Answer, RecordOpeningStop, ForkStopped, LeaveFailed
  <2>2. ASSUME closing, NEW q \in Runs, Drives(q)'
        PROVE  Drives(q) /\ lives'[q] = lives[q]
    BY <1>5, <2>2, OpeningDrives
  <2> QED
    BY <1>3, <1>4, <2>1, <2>2
<1>6. ASSUME NEW r \in Runs, \/ EndRun(r) \/ ExitRun(r) \/ LetGo(r)
                             \/ TakeFiles(r) \/ ReleaseFiles(r)
      PROVE  AllInHand'
  <2>1. UNCHANGED <<stops, closing, lives>>
    BY <1>6 DEF EndRun, ExitRun, LetGo, TakeFiles, ReleaseFiles
  <2>2. live \in [Runs -> Fiber \cup {None}]
    BY DEF IInv, Typed, TypeOK
  <2>3. ASSUME NEW q \in Runs, Drives(q)'
        PROVE  Drives(q)
    <3>1. CASE q = r /\ (EndRun(r) \/ ExitRun(r) \/ LetGo(r))
      <4>1. live[r] # None /\ live[r] \in Fiber
        BY <2>2, <3>1 DEF EndRun, ExitRun, LetGo
      <4> QED
        BY <2>2, <2>3, <3>1, <4>1
           DEF EndRun, ExitRun, LetGo, Drives, Running, Interrupted, Fiber
    <3>2. CASE live'[q] = live[q]
      BY <2>3, <3>2 DEF Drives, Running, Interrupted
    <3> QED
      BY <1>6, <2>2, <3>1, <3>2
         DEF EndRun, ExitRun, LetGo, TakeFiles, ReleaseFiles
  <2> QED
    BY <1>3, <1>4, <2>1, <2>3
<1>7. CASE Fold
  <2>1. UNCHANGED <<closing, lives, live>>
    BY <1>7 DEF Fold
  <2>2. \A q \in Runs : Drives(q)' => Drives(q)
    BY <2>1 DEF Drives, Running, Interrupted
  <2>3. stops'[Closer] = [stops[Closer] EXCEPT !.lag = Less(@)]
    BY <1>1, <1>7 DEF Fold
  <2>4. /\ stops'[Closer].at = stops[Closer].at
        /\ stops'[Closer].run = stops[Closer].run
        /\ stops'[Closer].fiber = stops[Closer].fiber
        /\ stops'[Closer].child = stops[Closer].child
        /\ stops'[Closer].childFiber = stops[Closer].childFiber
        /\ stops'[Closer].todo = stops[Closer].todo
        /\ stops'[Closer].roots = stops[Closer].roots
    BY <1>1, <2>3 DEF Stop
  <2> QED
    BY <1>3, <1>4, <2>1, <2>2, <2>4
<1>8. ASSUME NEW s \in Stoppers, \/ \E r \in Runs : StopAsk(s, r)
                                 \/ StopAll(s) \/ StopStep(s)
      PROVE  AllInHand'
  <2>1. /\ UNCHANGED seen
        /\ \A t \in Stoppers \ {s} : stops'[t] = stops[t]
        /\ ~Detach(s) /\ ~Detached(s) /\ ~StopRefused(s)
    BY <1>8, NoDetach DEF IInv, Family
  <2>2. Quiet
    <3>1. \/ \E r \in Runs : StopAsk(s, r) \/ StopRoot(s, r)
          \/ StopAll(s) \/ StoppedAll(s) \/ Detach(s)
          \/ StopCommit(s) \/ ChildCommit(s) \/ StopSettled(s)
          \/ ChildStopped(s) \/ Detached(s) \/ StopRefused(s)
      BY <1>8, Zenon DEF StopStep
    <3> QED
      BY <3>1, StopIsQuiet DEF IInv
  <2>3. \A q \in Runs : Drives(q)' => Drives(q)
    BY <1>8, StopDrives DEF Family
  <2>4. CASE s # Closer
    <3>1. closing' = closing
      BY <1>8, <2>1, <2>4
         DEF StopAsk, StopAll, StopStep, StopCommit, StopSettled,
             ChildCommit, ChildStopped, StopRoot, StoppedAll
    <3>2. UNCHANGED lives /\ stops'[Closer] = stops[Closer]
      BY <1>1, <2>1, <2>2, <2>4 DEF Quiet
    <3> QED
      BY <1>3, <1>4, <2>3, <3>1, <3>2
  <2>5. CASE s = Closer
    <3>1. CASE \/ StopAll(s) \/ \E r \in Runs : StopRoot(s, r)
               \/ StopCommit(s) \/ ChildCommit(s) \/ StoppedAll(s)
      BY <1>1, <2>1, <2>2, <2>3, <2>5, <3>1, CloseHolds
    <3>2. CASE StopSettled(s)
      <4>1. /\ Cascade(s, HeldUnder(stops[s].run), live, stopping)
            /\ stops[s].at = "settle" /\ UNCHANGED closing
        BY <3>2 DEF StopSettled, Detaches, FreshRuns
      <4>2. HeldUnder(stops[s].run) \in SUBSET Runs
        BY DEF HeldUnder, Held
      <4>3. live \in [Runs -> Fiber \cup {None}]
        BY DEF IInv, Typed, TypeOK
      <4> QED
        BY <1>1, <2>1, <2>2, <2>5, <4>1, <4>2, <4>3, CascadeHolds
    <3>3. CASE ChildStopped(s)
      <4> DEFINE fibers == InterruptFiber(live, stops[s].child,
                                          stops[s].childFiber)
                 held == stopping \ {stops[s].child}
      <4>1. /\ Cascade(s, stops[s].todo, fibers, held)
            /\ stops[s].at = "childSettle" /\ UNCHANGED closing
        BY <3>3 DEF ChildStopped
      <4>2. /\ live \in [Runs -> Fiber \cup {None}]
            /\ stops[s].todo \in SUBSET Runs
            /\ stops[s].child \in Runs \cup {None}
        BY DEF IInv, Typed, TypeOK, Stop
      <4>3. /\ fibers \in [Runs -> Fiber \cup {None}]
            /\ \A q \in Runs : fibers[q] = None <=> live[q] = None
        BY <4>2, InterruptTyped
      <4>4. fibers = InterruptFiber(live, stops[s].child,
                                    stops[s].childFiber)
        OBVIOUS
      <4> HIDE DEF fibers, held
      <4> QED
        BY <1>1, <2>1, <2>2, <2>5, <4>1, <4>2, <4>3, <4>4, CascadeHolds
    <3>4. ~\E r \in Runs : StopAsk(s, r)
      BY <2>5 DEF StopAsk
    <3> QED
      BY <1>8, <2>1, <3>1, <3>2, <3>3, <3>4 DEF StopStep
  <2> QED
    BY <2>4, <2>5
<1>9. CASE UNCHANGED vars
  <2>1. UNCHANGED <<stops, closing, lives, live>>
    BY <1>9 DEF vars
  <2>2. \A q \in Runs : Drives(q)' => Drives(q)
    BY <2>1 DEF Drives, Running, Interrupted
  <2> QED
    BY <1>3, <1>4, <2>1, <2>2
<1> QED
  BY <1>5, <1>6, <1>7, <1>8, <1>9 DEF Next

\* Once the session's close has stopped what it listed, every run driven here
\* is interrupted: in a session of fresh runs, whatever their tree, while the
\* store refuses no stop and children are stopped with their parent (stopAll).
THEOREM RegistryClosedIsStopped == FreshRuns => (Spec => []ClosedIsStopped)
<1> SUFFICES ASSUME FreshRuns
             PROVE  Spec => []ClosedIsStopped
  OBVIOUS
<1>1. Init => Family /\ AllInHand
  <2> SUFFICES ASSUME Init
               PROVE  Family /\ AllInHand
    OBVIOUS
  <2>1. \A r \in Runs : ~rows[r].born
    BY DEF Init, FreshRuns
  <2>2. OpenedHere /\ ParentsFirst
    BY <2>1 DEF Init, OpenedHere, ParentsFirst
  <2>3. EdgesStay
    BY <2>1 DEF Init, EdgesStay, Idle
  <2>4. AllInHand
    BY CloserStops DEF Init, AllInHand, Idle
  <2> QED
    BY <2>2, <2>3, <2>4 DEF Family
<1>2. IInv /\ Family /\ AllInHand /\ [Next]_vars => Family' /\ AllInHand'
  BY StepFamily, StepInHand
<1>3. AllInHand => ClosedIsStopped
  BY DEF AllInHand, InHand, ClosedIsStopped, Drives
<1> QED
  BY <1>1, <1>2, <1>3, RegistryInvariant, PTL DEF Spec

-----------------------------------------------------------------------------
(* What becomes of each run: the registry implements RunLives.  The place   *)
(* of a run is read off its file operation, its opening and its fiber, one  *)
(* of which it has at a time; each step then moves it as RunLives may.      *)

\* The place of a run by what holds it.
Spot(files, opening, fiber) ==
    IF files THEN "files"
    ELSE IF opening # None
    THEN IF opening.stop = None THEN "opening" ELSE "doomed"
    ELSE IF fiber = None THEN "free"
    ELSE IF fiber.phase = "ended" THEN "over"
    ELSE IF fiber.interrupted THEN "cut" ELSE "driven"

\* How a run may move, with or without an unended lifecycle.
Moves(from, was, to, is) ==
    \/ to = from /\ (is = was \/ ~is)
    \/ from \in {"opening", "doomed"} /\ to = from /\ ~was /\ is
    \/ /\ \/ from = "free" /\ to \in {"files", "opening"}
          \/ from \in {"files", "opening", "doomed", "over"} /\ to = "free"
       /\ ~was /\ ~is
    \/ /\ \/ from = "opening" /\ to \in {"doomed", "driven"}
          \/ from \in {"doomed", "driven"} /\ to = "cut"
       /\ is = was
    \/ from \in {"driven", "cut"} /\ to = "over" /\ ~is

Lived(r) == Moves(PlaceOf(r), Unended(r), PlaceOf(r)', Unended(r)')

\* No run is held twice.
LEMMA PlaceIsSpot ==
    ASSUME Fates, NEW r \in Runs
    PROVE  PlaceOf(r) = Spot(r \in busy, starting[r], live[r])
BY DEF Fates, Exclusive, FilesExcludeDriver, Held, PlaceOf, Spot

\* Nor after a step.
LEMMA PlaceIsSpotNext ==
    ASSUME Fates', NEW r \in Runs
    PROVE  PlaceOf(r)' = Spot(r \in busy', starting'[r], live'[r])
BY DEF Fates, Exclusive, FilesExcludeDriver, Held, PlaceOf, Spot

\* Such a move is one of RunLives's.
LEMMA LivedMoves ==
    ASSUME NEW r \in Runs, Lived(r)
    PROVE  \/ /\ [q \in Runs |-> PlaceOf(q)]'[r]
                   = [q \in Runs |-> PlaceOf(q)][r]
              /\ Lives!Keeps(r)
           \/ Lives!Move(r)
<1> DEFINE from == PlaceOf(r)  to == PlaceOf(r)'
           was == Unended(r)   is == Unended(r)'
<1>1. /\ [q \in Runs |-> PlaceOf(q)][r] = from
      /\ [q \in Runs |-> PlaceOf(q)]'[r] = to
      /\ [q \in Runs |-> Unended(q)][r] = was
      /\ [q \in Runs |-> Unended(q)]'[r] = is
  OBVIOUS
<1>2. Moves(from, was, to, is) /\ was \in BOOLEAN /\ is \in BOOLEAN
  BY DEF Lived, Unended
<1> HIDE DEF from, to, was, is
<1> QED
  BY <1>1, <1>2 DEF Moves, Lives!Move, Lives!TakeFiles, Lives!ReleaseFiles,
     Lives!Start, Lives!Begin, Lives!Doom, Lives!GiveUp, Lives!Fork,
     Lives!Interrupt, Lives!Finish, Lives!Exit, Lives!End, Lives!Goes,
     Lives!Keeps, Lives!IsOver

\* A run that a step does not touch stays where it is.
LEMMA Untouched ==
    ASSUME Fates, Fates', NEW r \in Runs,
           r \in busy' <=> r \in busy, starting'[r] = starting[r],
           live'[r] = live[r], rows'[r] = rows[r], lives'[r] = lives[r]
    PROVE  Lived(r)
<1>1. PlaceOf(r)' = PlaceOf(r)
  BY PlaceIsSpot, PlaceIsSpotNext DEF Spot
<1>2. Unended(r)' = Unended(r)
  BY DEF Unended
<1> QED
  BY <1>1, <1>2 DEF Lived, Moves

\* A quiet step may doom an opening and interrupt a fiber.
LEMMA QuietLives ==
    ASSUME IInv, IInv', Quiet, NEW r \in Runs
    PROVE  Lived(r)
<1>1. /\ starting[r] \in Opening \cup {None} /\ live[r] \in Fiber \cup {None}
      /\ starting'[r] \in Opening \cup {None} /\ live'[r] \in Fiber \cup {None}
      /\ live[r] = None \/ starting[r] = None
  BY DEF IInv, Typed, TypeOK, Fates, Exclusive
<1>2. /\ PlaceOf(r) = Spot(r \in busy, starting[r], live[r])
      /\ PlaceOf(r)' = Spot(r \in busy', starting'[r], live'[r])
  BY PlaceIsSpot, PlaceIsSpotNext DEF IInv
<1>3. Unended(r)' = Unended(r) \/ ~Unended(r)'
  BY DEF Quiet, Unended
<1>4. /\ r \in busy' <=> r \in busy
      /\ starting'[r] = None <=> starting[r] = None
      /\ starting[r] # None => SameOpening(starting[r], starting'[r])
      /\ live'[r] = None <=> live[r] = None
      /\ live[r] # None => SameFiber(live[r], live'[r])
  BY DEF Quiet
<1>5. \/ PlaceOf(r)' = PlaceOf(r)
      \/ PlaceOf(r) = "opening" /\ PlaceOf(r)' = "doomed"
      \/ PlaceOf(r) = "driven" /\ PlaceOf(r)' = "cut"
  BY <1>1, <1>2, <1>4 DEF Spot, SameOpening, SameFiber
<1>6. PlaceOf(r)' # PlaceOf(r) => Unended(r)' = Unended(r)
  <2>1. CASE UNCHANGED rows
    BY <2>1 DEF Quiet, Unended
  <2>2. CASE UNCHANGED <<starting, live>>
    BY <1>2, <1>4, <2>2
  <2> QED
    BY <2>1, <2>2 DEF Quiet
<1> QED
  BY <1>3, <1>5, <1>6 DEF Lived, Moves

\* An opening that records a stop, or failed with one, was asked to stop.
AskedFirst ==
    \A r \in Runs :
        /\ starting[r] # None
        /\ starting[r].at \in {"stopping", "failing", "stopped", "failed"}
        => starting[r].stop # None

\* An opening that goes on keeps its run, opened, doomed or ended.
LEMMA GoesOn ==
    ASSUME IInv, IInv', NEW r \in Runs, starting[r] \in Opening,
           starting'[r] \in Opening,
           starting[r].stop # None => starting'[r].stop # None,
           \/ UNCHANGED <<rows, lives>>
           \/ /\ starting'[r].stop = starting[r].stop
              /\ \/ Unended(r)' = Unended(r)
                 \/ ~Unended(r)'
                 \/ ~Unended(r) /\ Unended(r)'
    PROVE  Lived(r)
<1>1. starting[r] # None /\ starting'[r] # None
  BY NoneIsNothing
<1>2. r \notin busy /\ r \notin busy'
  BY <1>1 DEF IInv, Fates, FilesExcludeDriver, Held
<1>3. /\ PlaceOf(r) = IF starting[r].stop = None THEN "opening" ELSE "doomed"
      /\ PlaceOf(r)' = IF starting'[r].stop = None THEN "opening" ELSE "doomed"
  BY <1>1, <1>2, PlaceIsSpot, PlaceIsSpotNext DEF IInv, Spot
<1>4. UNCHANGED <<rows, lives>> => Unended(r)' = Unended(r)
  BY DEF Unended
<1>5. Unended(r) \in BOOLEAN /\ Unended(r)' \in BOOLEAN
  BY DEF Unended
<1> QED
  BY <1>3, <1>4, <1>5 DEF Lived, Moves

\* An opening that is over leaves its run free, its lifecycle ended.
LEMMA OverIsEnded ==
    ASSUME IInv, IInv', NEW r \in Runs, starting[r] # None,
           starting'[r] = None, live' = live, UNCHANGED <<rows, lives, busy>>
    PROVE  Lived(r)
<1>1. r \notin busy /\ r \notin busy' /\ live[r] = None
  BY DEF IInv, Fates, FilesExcludeDriver, Exclusive, Held
<1>2. PlaceOf(r) \in {"opening", "doomed"} /\ PlaceOf(r)' = "free"
  BY <1>1, PlaceIsSpot, PlaceIsSpotNext DEF IInv, Spot
<1>3. lives'[r] > 0 => rows'[r].ended
  BY <1>1 DEF IInv, Fates, Accounted, Running
<1>4. ~Unended(r) /\ ~Unended(r)'
  BY <1>3 DEF Unended
<1> QED
  BY <1>2, <1>4 DEF Lived, Moves

\* An opening that forks leaves a fiber, interrupted if it was asked to stop.
LEMMA ForkLives ==
    ASSUME IInv, IInv', NEW r \in Runs, NEW interrupted \in BOOLEAN,
           starting[r] # None, Fork(r, interrupted),
           interrupted <=> starting[r].stop # None,
           UNCHANGED <<rows, lives>>
    PROVE  Lived(r)
<1> DEFINE f == [phase |-> "running", interrupted |-> interrupted]
<1>1. f \in Fiber /\ f # None
  BY NoneIsNothing DEF Fiber
<1>2. starting'[r] = None /\ live'[r] = f
  BY DEF Fork, IInv, Typed, TypeOK
<1>3. r \notin busy /\ r \notin busy'
  BY <1>1, <1>2 DEF IInv, Fates, FilesExcludeDriver, Held
<1>4. PlaceOf(r) = IF interrupted THEN "doomed" ELSE "opening"
  BY <1>3, PlaceIsSpot DEF IInv, Spot
<1>5. PlaceOf(r)' = IF interrupted THEN "cut" ELSE "driven"
  BY <1>1, <1>2, <1>3, PlaceIsSpotNext DEF IInv, Spot
<1>6. Unended(r)' = Unended(r)
  BY DEF Unended
<1> QED
  BY <1>4, <1>5, <1>6 DEF Lived, Moves

\* Every step of a run's opening moves it so, and records no stop nobody
\* asked for.
LEMMA OpeningLives ==
    ASSUME IInv, IInv', AskedFirst, NEW r \in Runs, OpeningStep(r)
    PROVE  /\ Lived(r)
           /\ /\ starting'[r] # None
              /\ starting'[r].at \in {"stopping", "failing", "stopped",
                                      "failed"}
              => starting'[r].stop # None
<1>1. /\ starting \in [Runs -> Opening \cup {None}]
      /\ starting[r] # None /\ starting[r] \in Opening
      /\ starting[r].stop \in Reasons \cup {None}
      /\ starting' \in [Runs -> Opening \cup {None}]
  BY DEF OpeningStep, Read, OpenFails, Open, Cut, Answer, RecordOpeningStop,
         ForkStopped, LeaveFailed, Opens, IInv, Typed, TypeOK, Opening
<1>2. starting[r].at \in {"stopping", "failing", "stopped", "failed"}
        => starting[r].stop # None
  BY <1>1 DEF AskedFirst
<1>3. starting'[r] # None => starting'[r] \in Opening
  BY <1>1
<1>4. ASSUME NEW stop \in Reasons \cup {None}, Fail(r, stop),
             starting[r].stop # None => stop # None,
             UNCHANGED <<rows, lives, live, busy>>
      PROVE  /\ Lived(r)
             /\ starting'[r] # None => starting'[r].stop # None
  <2>1. CASE stop = None
    <3>1. starting'[r] = None
      BY <1>1, <1>4, <2>1 DEF Fail
    <3> QED
      BY <1>1, <1>4, <3>1, OverIsEnded
  <2>2. CASE stop # None
    <3>1. starting'[r] = [starting[r] EXCEPT !.stop = stop, !.at = "failing"]
      BY <1>1, <1>4, <2>2 DEF Fail
    <3>2. starting'[r] \in Opening /\ starting'[r].stop = stop
      BY <1>1, <2>2, <3>1 DEF Opening
    <3> QED
      BY <1>1, <1>4, <2>2, <3>2, GoesOn
  <2> QED
    BY <2>1, <2>2
<1>5. CASE Read(r)
  <2>1. CASE Refused(r)
    BY <1>1, <1>4, <1>5, <2>1 DEF Read
  <2>2. CASE ~Refused(r)
    <3>1. starting'[r] = [starting[r] EXCEPT !.at = "building"]
      BY <1>1, <1>5, <2>2 DEF Read, Move
    <3>2. /\ starting'[r] \in Opening /\ starting'[r].stop = starting[r].stop
          /\ starting'[r].at = "building"
      BY <1>1, <3>1 DEF Opening
    <3> QED
      BY <1>1, <1>5, <3>2, GoesOn DEF Read
  <2> QED
    BY <2>1, <2>2
<1>6. CASE OpenFails(r)
  BY <1>1, <1>4, <1>6 DEF OpenFails
<1>7. CASE Cut(r)
  <2>1. CutStop(r) \in Reasons /\ CutStop(r) # None
    BY <1>1, NoneIsNothing DEF CutStop, Reasons
  <2> QED
    BY <1>4, <1>7, <2>1 DEF Cut
<1>8. CASE Open(r)
  <2>1. starting'[r] = [starting[r] EXCEPT !.at = "settling",
                                           !.lag = Len(unfolded')]
    BY <1>1, <1>8 DEF Open
  <2>2. starting'[r].stop = starting[r].stop /\ starting'[r].at = "settling"
    BY <1>1, <2>1 DEF Opening
  <2>3. starting'[r] \in Opening
    <3> DEFINE n == Len(unfolded')
    <3>1. n \in Nat
      <4>1. unfolded' \in Seq(Runs \X (Runs \cup {None}))
        BY DEF IInv, Typed, TypeOK
      <4> QED
        BY <4>1
    <3>2. starting'[r] = [starting[r] EXCEPT !.at = "settling", !.lag = n]
      BY <2>1
    <3> HIDE DEF n
    <3> QED
      BY <1>1, <3>1, <3>2 DEF Opening
  <2>4. ~Unended(r) /\ Unended(r)'
    <3>1. lives[r] \in Nat /\ lives'[r] = lives[r] + 1
      BY <1>8 DEF Open, IInv, Typed, TypeOK
    <3>2. rows'[r].ended = FALSE
      BY <1>8 DEF Open, IInv, Typed, TypeOK
    <3>3. live[r] = None /\ starting[r].at = "building"
      BY <1>1, <1>8 DEF IInv, Fates, Exclusive, Open, Opens
    <3>4. lives[r] > 0 => rows[r].ended
      BY <3>3 DEF IInv, Fates, Accounted, Running
    <3> QED
      BY <3>1, <3>2, <3>4 DEF Unended
  <2> QED
    BY <1>1, <2>2, <2>3, <2>4, GoesOn
<1>9. CASE Answer(r)
  <2>1. CASE StopOf(r) = None
    <3>1. starting[r].stop = None /\ Fork(r, FALSE)
      BY <1>9, <2>1 DEF StopOf, Answer
    <3>2. starting'[r] = None
      BY <1>1, <3>1 DEF Fork
    <3> QED
      BY <1>1, <1>9, <3>1, <3>2, ForkLives DEF Answer
  <2>2. CASE StopOf(r) # None
    <3>1. starting'[r] = [starting[r] EXCEPT !.at = "stopping",
                                             !.stop = StopOf(r)]
      BY <1>1, <1>9, <2>2 DEF Answer
    <3>2. StopOf(r) \in Reasons
      BY <1>1, <2>2 DEF StopOf, Reasons
    <3>3. starting'[r] \in Opening /\ starting'[r].stop = StopOf(r)
      BY <1>1, <3>1, <3>2 DEF Opening
    <3> QED
      BY <1>1, <1>9, <2>2, <3>3, GoesOn DEF Answer
  <2> QED
    BY <2>1, <2>2
<1>10. CASE RecordOpeningStop(r)
  <2> DEFINE end == starting[r].at = "failing"
  <2>1. LagOf(r, end) \in Nat
    BY LagIsNat DEF IInv, Typed
  <2>2. starting'[r] = [starting[r] EXCEPT !.lag = LagOf(r, end),
                          !.at = IF end THEN "failed" ELSE "stopped"]
    BY <1>1, <1>10 DEF RecordOpeningStop
  <2>3. starting'[r] \in Opening /\ starting'[r].stop = starting[r].stop
    BY <1>1, <2>1, <2>2 DEF Opening
  <2>4. starting[r].stop # None
    BY <1>2, <1>10 DEF RecordOpeningStop
  <2>5. rows' = StopRows(r, starting[r].stop, end) /\ lives' = lives
    BY <1>10 DEF RecordOpeningStop
  <2>6. rows[r].ended => rows'[r].ended
    BY <1>1, <2>5, StopRowsFacts DEF IInv, Typed
  <2>7. Unended(r)' = Unended(r) \/ ~Unended(r)'
    BY <2>5, <2>6 DEF Unended
  <2> QED
    BY <1>1, <2>3, <2>4, <2>7, GoesOn
<1>11. CASE ForkStopped(r)
  <2>1. starting[r].stop # None /\ Fork(r, TRUE)
    BY <1>2, <1>11 DEF ForkStopped, Opens
  <2>2. starting'[r] = None
    BY <1>1, <2>1 DEF Fork
  <2> QED
    BY <1>1, <1>11, <2>1, <2>2, ForkLives DEF ForkStopped
<1>12. CASE LeaveFailed(r)
  <2>1. starting'[r] = None
    BY <1>1, <1>12 DEF LeaveFailed
  <2> QED
    BY <1>1, <1>12, <2>1, OverIsEnded DEF LeaveFailed
<1> QED
  BY <1>5, <1>6, <1>7, <1>8, <1>9, <1>10, <1>11, <1>12 DEF OpeningStep

\* So does a start, a run's terminal and exit, and a file operation.
LEMMA FiberLives ==
    ASSUME IInv, IInv', NEW r \in Runs,
           \/ StartBirth(r) \/ StartResume(r) \/ EndRun(r) \/ ExitRun(r)
           \/ TakeFiles(r) \/ ReleaseFiles(r)
    PROVE  Lived(r)
<1>1. /\ starting[r] = None \/ live[r] = None
      /\ lives \in [Runs -> Nat] /\ rows \in [Runs -> Row]
      /\ live \in [Runs -> Fiber \cup {None}]
      /\ starting \in [Runs -> Opening \cup {None}]
      /\ starting' \in [Runs -> Opening \cup {None}]
  BY DEF IInv, Typed, TypeOK, Fates, Exclusive
<1>2. /\ PlaceOf(r) = Spot(r \in busy, starting[r], live[r])
      /\ PlaceOf(r)' = Spot(r \in busy', starting'[r], live'[r])
  BY PlaceIsSpot, PlaceIsSpotNext DEF IInv
<1>3. starting[r] # None \/ live[r] # None => r \notin busy
  BY DEF IInv, Fates, FilesExcludeDriver, Held
<1>4. starting[r] = None /\ live[r] = None => ~Unended(r)
  BY DEF IInv, Fates, Accounted, Running, Unended
<1>5. CASE StartBirth(r) \/ StartResume(r)
  <2>1. /\ starting[r] = None /\ live[r] = None /\ r \notin busy
        /\ UNCHANGED <<rows, lives, live, busy>>
    BY <1>5 DEF StartBirth, StartResume, Enter, Admits, Free
  <2>2. PICK resume \in BOOLEAN : Enter(r, resume)
    BY <1>5 DEF StartBirth, StartResume
  <2>3. starting'[r] = [at |-> "reading", resume |-> resume, stop |-> None,
                        lag |-> 0]
    BY <1>1, <2>2 DEF Enter
  <2>4. starting'[r] \in Opening
    BY <2>3 DEF Opening
  <2>5. starting'[r] # None /\ starting'[r].stop = None
    BY <2>3, <2>4, NoneIsNothing
  <2>6. PlaceOf(r) = "free" /\ PlaceOf(r)' = "opening"
    BY <1>2, <2>1, <2>5 DEF Spot
  <2>7. ~Unended(r) /\ ~Unended(r)'
    BY <1>4, <2>1 DEF Unended
  <2> QED
    BY <2>6, <2>7 DEF Lived, Moves
<1>6. CASE EndRun(r)
  <2>1. /\ live[r] # None /\ live[r].phase = "running"
        /\ live'[r] = [live[r] EXCEPT !.phase = "ended"]
        /\ rows'[r].ended
        /\ UNCHANGED <<starting, busy>>
    BY <1>1, <1>6 DEF EndRun, Row
  <2>2. live[r] \in Fiber
    BY <1>1, <2>1
  <2>3. live'[r] \in Fiber /\ live'[r].phase = "ended"
    BY <2>1, <2>2 DEF Fiber
  <2>4. live'[r] # None
    BY <2>3, NoneIsNothing
  <2>5. starting[r] = None /\ r \notin busy
    BY <1>1, <1>3, <2>1
  <2>6. PlaceOf(r) \in {"driven", "cut"}
    BY <1>2, <2>1, <2>5 DEF Spot
  <2>7. PlaceOf(r)' = "over"
    BY <1>2, <2>1, <2>3, <2>4, <2>5 DEF Spot
  <2>8. ~Unended(r)'
    BY <2>1 DEF Unended
  <2> QED
    BY <2>6, <2>7, <2>8 DEF Lived, Moves
<1>7. CASE ExitRun(r)
  <2>1. /\ live[r] # None /\ live[r].phase = "ended" /\ live'[r] = None
        /\ UNCHANGED <<rows, lives, starting, busy>>
    BY <1>1, <1>7 DEF ExitRun
  <2>2. starting[r] = None /\ r \notin busy
    BY <1>1, <1>3, <2>1
  <2>3. PlaceOf(r) = "over" /\ PlaceOf(r)' = "free"
    BY <1>2, <2>1, <2>2 DEF Spot
  <2>4. ~Unended(r) /\ ~Unended(r)'
    BY <2>1, <2>2 DEF IInv, Fates, Accounted, Running, Unended
  <2> QED
    BY <2>3, <2>4 DEF Lived, Moves
<1>8. CASE TakeFiles(r)
  <2>1. /\ starting[r] = None /\ live[r] = None
        /\ r \notin busy /\ r \in busy'
        /\ UNCHANGED <<rows, lives, starting, live>>
    BY <1>8 DEF TakeFiles, Held
  <2>2. PlaceOf(r) = "free" /\ PlaceOf(r)' = "files"
    BY <1>2, <2>1 DEF Spot
  <2>3. ~Unended(r) /\ ~Unended(r)'
    BY <1>4, <2>1 DEF Unended
  <2> QED
    BY <2>2, <2>3 DEF Lived, Moves
<1>9. CASE ReleaseFiles(r)
  <2>1. /\ r \in busy /\ r \notin busy'
        /\ UNCHANGED <<rows, lives, starting, live>>
    BY <1>9 DEF ReleaseFiles
  <2>2. starting[r] = None /\ live[r] = None
    BY <1>3, <2>1
  <2>3. PlaceOf(r) = "files" /\ PlaceOf(r)' = "free"
    BY <1>2, <2>1, <2>2 DEF Spot
  <2>4. ~Unended(r) /\ ~Unended(r)'
    BY <1>4, <2>1, <2>2 DEF Unended
  <2> QED
    BY <2>3, <2>4 DEF Lived, Moves
<1> QED
  BY <1>5, <1>6, <1>7, <1>8, <1>9

\* A step of one run leaves every other run as it is.
LEMMA OthersUntouched ==
    ASSUME IInv, NEW r \in Runs, NEW q \in Runs \ {r},
           \/ StartBirth(r) \/ StartResume(r) \/ OpeningStep(r) \/ EndRun(r)
           \/ ExitRun(r) \/ TakeFiles(r) \/ ReleaseFiles(r)
    PROVE  /\ q \in busy' <=> q \in busy
           /\ starting'[q] = starting[q] /\ live'[q] = live[q]
           /\ rows'[q] = rows[q] /\ lives'[q] = lives[q]
<1>1. /\ starting \in [Runs -> Opening \cup {None}]
      /\ live \in [Runs -> Fiber \cup {None}]
      /\ rows \in [Runs -> Row] /\ lives \in [Runs -> Nat]
  BY DEF IInv, Typed, TypeOK
<1>2. CASE StartBirth(r) \/ StartResume(r)
  BY <1>1, <1>2 DEF StartBirth, StartResume, Enter
<1>3. CASE OpeningStep(r)
  BY <1>1, <1>3 DEF OpeningStep, Read, OpenFails, Open, Cut, Answer, Fork,
     RecordOpeningStop, ForkStopped, LeaveFailed, Fail, Move, StopRows
<1>4. CASE EndRun(r) \/ ExitRun(r) \/ TakeFiles(r) \/ ReleaseFiles(r)
  BY <1>1, <1>4 DEF EndRun, ExitRun, TakeFiles, ReleaseFiles
<1> QED
  BY <1>2, <1>3, <1>4

\* Every step keeps the stops asked for, and moves each run as it may.
LEMMA StepLives ==
    ASSUME IInv, IInv', AskedFirst, [Next]_vars
    PROVE  AskedFirst' /\ \A q \in Runs : Lived(q)
<1>1. ASSUME NEW r \in Runs,
             StartBirth(r) \/ StartResume(r) \/ OpeningStep(r)
             \/ EndRun(r) \/ ExitRun(r) \/ TakeFiles(r) \/ ReleaseFiles(r)
      PROVE  AskedFirst' /\ \A q \in Runs : Lived(q)
  <2>1. \A q \in Runs \ {r} :
          /\ q \in busy' <=> q \in busy
          /\ starting'[q] = starting[q] /\ live'[q] = live[q]
          /\ rows'[q] = rows[q] /\ lives'[q] = lives[q]
    BY <1>1, OthersUntouched
  <2>2. \A q \in Runs \ {r} : Lived(q)
    BY <2>1, Untouched DEF IInv
  <2>3. Lived(r)
    BY <1>1, OpeningLives, FiberLives
  <2>4. starting'[r] # None
        /\ starting'[r].at \in {"stopping", "failing", "stopped", "failed"}
          => starting'[r].stop # None
    <3>1. CASE OpeningStep(r)
      BY <3>1, OpeningLives
    <3>2. CASE StartBirth(r) \/ StartResume(r)
      <4>1. starting \in [Runs -> Opening \cup {None}]
        BY DEF IInv, Typed, TypeOK
      <4> QED
        BY <3>2, <4>1 DEF StartBirth, StartResume, Enter
    <3>3. CASE EndRun(r) \/ ExitRun(r) \/ TakeFiles(r) \/ ReleaseFiles(r)
      BY <3>3 DEF EndRun, ExitRun, TakeFiles, ReleaseFiles, AskedFirst
    <3> QED
      BY <1>1, <3>1, <3>2, <3>3
  <2>5. AskedFirst'
    BY <2>1, <2>4 DEF AskedFirst
  <2> QED
    BY <2>2, <2>3, <2>5
<1>2. ASSUME Quiet
      PROVE  AskedFirst' /\ \A q \in Runs : Lived(q)
  BY <1>2, QuietLives DEF AskedFirst, Quiet, SameOpening
<1>3. CASE \/ \E s \in Stoppers :
                \/ \E r \in Runs : StopAsk(s, r) \/ StopRoot(s, r)
                \/ StopAll(s) \/ StoppedAll(s) \/ Detach(s)
                \/ StopCommit(s) \/ ChildCommit(s) \/ StopSettled(s)
                \/ ChildStopped(s) \/ Detached(s) \/ StopRefused(s)
           \/ \E r \in Runs : LetGo(r)
           \/ Fold
  BY <1>2, <1>3, StopIsQuiet DEF IInv
<1>4. CASE UNCHANGED vars
  BY <1>2, <1>4 DEF vars, Quiet, SameOpening, SameFiber
<1> QED
  BY <1>1, <1>3, <1>4 DEF Next, StopStep

\* Each run has one holder at a time, leaves it only with its lifecycle
\* ended, and is never driven uninterrupted from an opening asked to stop:
\* the registry implements RunLives.
THEOREM RegistryImplementsLives == Spec => ImplementsLives
<1>1. Init => Lives!Init /\ AskedFirst
  <2> SUFFICES ASSUME Init
               PROVE  Lives!Init /\ AskedFirst
    OBVIOUS
  <2>1. \A r \in Runs : PlaceOf(r) = "free" /\ Unended(r) = FALSE
    BY DEF Init, PlaceOf, Held, Unended
  <2> QED
    BY <2>1 DEF Init, Lives!Init, AskedFirst
<1>2. /\ IInv /\ IInv' /\ AskedFirst /\ [Next]_vars
      => AskedFirst' /\ [Lives!Next]_<<[r \in Runs |-> PlaceOf(r)],
                                       [r \in Runs |-> Unended(r)]>>
  <2> SUFFICES ASSUME IInv, IInv', AskedFirst, [Next]_vars
               PROVE  AskedFirst' /\ Lives!Next
    OBVIOUS
  <2>1. AskedFirst' /\ \A q \in Runs : Lived(q)
    BY StepLives
  <2>2. \A q \in Runs : PlaceOf(q)' \in Lives!Places
    <3>1. ASSUME NEW q \in Runs
          PROVE  PlaceOf(q)' = Spot(q \in busy', starting'[q], live'[q])
      BY PlaceIsSpotNext DEF IInv
    <3> QED
      BY <3>1 DEF Spot, Lives!Places
  <2>3. [q \in Runs |-> PlaceOf(q)]' \in [Runs -> Lives!Places]
    BY <2>2
  <2>4. [q \in Runs |-> Unended(q)]' \in [Runs -> BOOLEAN]
    BY DEF Unended
  <2>5. \A q \in Runs :
          \/ /\ [p \in Runs |-> PlaceOf(p)]'[q]
                  = [p \in Runs |-> PlaceOf(p)][q]
             /\ Lives!Keeps(q)
          \/ Lives!Move(q)
    BY <2>1, LivedMoves
  <2> QED
    BY <2>1, <2>3, <2>4, <2>5 DEF Lives!Next
<1> QED
  BY <1>1, <1>2, RegistryInvariant, PTL DEF Spec, ImplementsLives, Lives!Spec

-----------------------------------------------------------------------------
(* What lets a run slip.  A marked run is not opening, and one that drives  *)
(* on untouched has a stop that will interrupt it: whoever takes the mark   *)
(* away interrupts what it captured.  So the rows of a stop find the run    *)
(* marked, and then it has such a stop, or the mark was taken by another.   *)

\* A driven run nobody interrupted.
Untended(r) == Running(r) /\ ~Interrupted(r)

Unclean(r) == rows[r].stop # None \/ rows[r].ended

MarkedIsStill == \A r \in stopping : starting[r] = None

MarkedIsStopped ==
    \A r \in stopping : Untended(r) => \E s \in Stoppers : StoppedBy(s, r)

Marks == Begun /\ ChildInHand /\ MarkedIsStill /\ MarkedIsStopped

\* What SlipsHaveCause asks of one run in one step.
HasCause(r) ==
    Slipped(r)' =>
        \/ Slipped(r)
        \/ \E s \in Stoppers :
              /\ stops'[s] # stops[s]
              /\ \/ Overtaken(s, r)
                 \/ /\ r \in {stops[s].run, stops[s].child}
                    /\ spent'.refused # spent.refused

\* A stop under way, in the terms of the proofs.
LEMMA StoppedByIs ==
    ASSUME NEW r \in Runs
    PROVE  /\ BeingStopped(r) <=> \E s \in Stoppers : StoppedBy(s, r)
           /\ BeingStopped(r)' <=> \E s \in Stoppers : StoppedBy(s, r)'
  BY DEF BeingStopped, StoppedBy

\* A step that leaves the stops and the marks alone, and drives no run on
\* that was not, keeps the marks.
LEMMA MarksStay ==
    ASSUME Marks, UNCHANGED <<stops, stopping>>,
           closing => closing',
           \A r \in stopping : /\ starting'[r] = None /\ lives'[r] = lives[r]
                               /\ Untended(r)' => Untended(r)
    PROVE  Marks'
<1>1. Begun' /\ ChildInHand' /\ MarkedIsStill'
  BY DEF Marks, Begun, ChildInHand, MarkedIsStill
<1>2. MarkedIsStopped'
  BY DEF Marks, MarkedIsStopped, StoppedBy
<1> QED
  BY <1>1, <1>2 DEF Marks

\* A run whose opening, fiber, rows and stops stay has no new slip.
LEMMA SlipStays ==
    ASSUME NEW r \in Runs, starting'[r] = starting[r], live'[r] = live[r],
           rows'[r] = rows[r], lives'[r] = lives[r], stops' = stops
    PROVE  HasCause(r)
  BY DEF HasCause, Slipped, Running, Interrupted, BeingStopped, Opens

\* An opening's own steps leave it as clean or as slipped as it was.
LEMMA OpeningCause ==
    ASSUME IInv, NEW r \in Runs,
           StartBirth(r) \/ StartResume(r) \/ OpeningStep(r)
    PROVE  Slipped(r)' => Slipped(r)
<1> SUFFICES ASSUME Slipped(r)'
             PROVE  Slipped(r)
  OBVIOUS
<1>1. /\ rows \in [Runs -> Row] /\ rows' \in [Runs -> Row]
      /\ starting \in [Runs -> Opening \cup {None}]
      /\ live \in [Runs -> Fiber \cup {None}]
      /\ starting[r] = None \/ live[r] = None
  BY TypedStep DEF IInv, Typed, TypeOK, Fates, Exclusive, Next
<1>2. CASE StartBirth(r) \/ StartResume(r)
  <2>1. starting'[r].at = "reading" /\ live' = live /\ live[r] = None
    BY <1>1, <1>2 DEF StartBirth, StartResume, Enter, Admits, Free
  <2> QED
    BY <2>1 DEF Slipped, Running, Opens
<1>3. ASSUME OpeningStep(r)
      PROVE  starting[r] # None /\ starting[r] \in Opening /\ live[r] = None
  BY <1>1, <1>3 DEF OpeningStep, Read, OpenFails, Open, Cut, Answer, Opens,
     RecordOpeningStop, ForkStopped, LeaveFailed
\* Where the opening goes on elsewhere, or is over, nothing slips.
<1>4. ASSUME live' = live, live[r] = None,
             starting'[r] = None \/ starting'[r].at # "settling"
      PROVE  FALSE
  BY <1>4 DEF Slipped, Running, Opens
<1>5. ASSUME NEW stop, Fail(r, stop), live' = live, OpeningStep(r)
      PROVE  FALSE
  <2>1. \/ starting'[r] = None
        \/ starting'[r] = [starting[r] EXCEPT !.stop = stop, !.at = "failing"]
    BY <1>1, <1>5 DEF Fail
  <2>2. starting'[r] = None \/ starting'[r].at = "failing"
    BY <1>3, <1>5, <2>1 DEF Opening
  <2> QED
    BY <1>3, <1>4, <1>5, <2>2
<1>6. CASE Read(r)
  <2>1. CASE Refused(r)
    BY <1>5, <1>6, <2>1 DEF Read, OpeningStep
  <2>2. CASE ~Refused(r)
    <3>1. starting'[r] = [starting[r] EXCEPT !.at = "building"]
      BY <1>1, <1>6, <2>2 DEF Read, Move
    <3>2. starting'[r].at = "building"
      BY <1>3, <1>6, <3>1 DEF Opening, OpeningStep
    <3> QED
      BY <1>3, <1>4, <1>6, <3>2 DEF Read, OpeningStep
  <2> QED
    BY <2>1, <2>2
<1>7. CASE OpenFails(r)
  BY <1>5, <1>7 DEF OpenFails, OpeningStep
<1>8. CASE Cut(r)
  BY <1>5, <1>8 DEF Cut, OpeningStep
<1>9. CASE Open(r)
  <2>1. rows'[r].stop = None /\ ~rows'[r].ended
    BY <1>1, <1>9 DEF Open
  <2> QED
    BY <2>1 DEF Slipped
<1>10. CASE Answer(r)
  <2>1. CASE StopOf(r) = None
    <3>1. starting[r].stop = None /\ Opens(r, "settling") /\ rows' = rows
      BY <1>10, <2>1 DEF Answer, StopOf
    <3> QED
      BY <3>1 DEF Slipped
  <2>2. CASE StopOf(r) # None
    <3>1. /\ starting'[r] = [starting[r] EXCEPT !.at = "stopping",
                                                !.stop = StopOf(r)]
          /\ live' = live
      BY <1>1, <1>10, <2>2 DEF Answer
    <3>2. starting'[r].at = "stopping"
      BY <1>3, <1>10, <3>1 DEF Opening, OpeningStep
    <3> QED
      BY <1>3, <1>4, <1>10, <3>1, <3>2 DEF OpeningStep
  <2> QED
    BY <2>1, <2>2
<1>11. CASE RecordOpeningStop(r)
  <2> DEFINE end == starting[r].at = "failing"
  <2>1. /\ starting'[r] = [starting[r] EXCEPT !.lag = LagOf(r, end),
                             !.at = IF end THEN "failed" ELSE "stopped"]
        /\ live' = live
    BY <1>1, <1>11 DEF RecordOpeningStop
  <2>2. starting'[r].at \in {"failed", "stopped"}
    BY <1>3, <1>11, <2>1 DEF Opening, OpeningStep
  <2> QED
    BY <1>3, <1>4, <1>11, <2>1, <2>2 DEF OpeningStep
<1>12. CASE ForkStopped(r)
  <2>1. /\ starting'[r] = None
        /\ live'[r] = [phase |-> "running", interrupted |-> TRUE]
    BY <1>1, <1>12 DEF ForkStopped, Fork
  <2>2. live'[r] \in Fiber /\ live'[r].interrupted
    BY <2>1 DEF Fiber
  <2> QED
    BY <2>1, <2>2, NoneIsNothing DEF Slipped, Interrupted, Opens
<1>13. CASE LeaveFailed(r)
  <2>1. starting'[r] = None /\ live' = live
    BY <1>1, <1>13 DEF LeaveFailed
  <2> QED
    BY <1>3, <1>4, <1>13, <2>1 DEF OpeningStep
<1> QED
  BY <1>2, <1>6, <1>7, <1>8, <1>9, <1>10, <1>11, <1>12, <1>13 DEF OpeningStep

\* A step of an opening, a fiber or a file operation, and the fold.
LEMMA RunSlips ==
    ASSUME IInv, Marks,
           \/ \E r \in Runs : \/ StartBirth(r) \/ StartResume(r)
                              \/ OpeningStep(r) \/ EndRun(r) \/ ExitRun(r)
                              \/ TakeFiles(r) \/ ReleaseFiles(r)
    PROVE  Marks' /\ \A q \in Runs : HasCause(q)
<1>1. PICK r \in Runs : \/ StartBirth(r) \/ StartResume(r) \/ OpeningStep(r)
                        \/ EndRun(r) \/ ExitRun(r)
                        \/ TakeFiles(r) \/ ReleaseFiles(r)
  OBVIOUS
<1>2. /\ rows \in [Runs -> Row] /\ lives \in [Runs -> Nat]
      /\ starting \in [Runs -> Opening \cup {None}]
      /\ live \in [Runs -> Fiber \cup {None}]
      /\ stopping \subseteq Runs
  BY DEF IInv, Typed, TypeOK
<1>3. UNCHANGED <<stops, stopping, closing>>
  <2>1. CASE StartBirth(r) \/ StartResume(r)
    BY <2>1 DEF StartBirth, StartResume, Enter
  <2>2. CASE OpeningStep(r)
    BY <2>2 DEF OpeningStep, Read, OpenFails, Open, Cut, Answer,
       RecordOpeningStop, ForkStopped, LeaveFailed
  <2>3. CASE EndRun(r) \/ ExitRun(r) \/ TakeFiles(r) \/ ReleaseFiles(r)
    BY <2>3 DEF EndRun, ExitRun, TakeFiles, ReleaseFiles
  <2> QED
    BY <1>1, <2>1, <2>2, <2>3
<1>4. \A q \in Runs \ {r} :
        /\ starting'[q] = starting[q] /\ live'[q] = live[q]
        /\ rows'[q] = rows[q] /\ lives'[q] = lives[q]
  BY <1>1, OthersUntouched
<1>5. \A q \in Runs \ {r} : HasCause(q)
  BY <1>3, <1>4, SlipStays
<1>6. CASE StartBirth(r) \/ StartResume(r) \/ OpeningStep(r)
  <2>1. r \notin stopping
    <3>1. CASE StartBirth(r) \/ StartResume(r)
      BY <3>1 DEF StartBirth, StartResume, Admits, Free
    <3>2. CASE OpeningStep(r)
      <4>1. starting[r] # None
        BY <3>2 DEF OpeningStep, Read, OpenFails, Open, Cut, Answer, Opens,
           RecordOpeningStop, ForkStopped, LeaveFailed
      <4> QED
        BY <4>1 DEF Marks, MarkedIsStill
    <3> QED
      BY <1>6, <3>1, <3>2
  <2>2. \A q \in stopping : /\ starting'[q] = None /\ lives'[q] = lives[q]
                            /\ Untended(q)' => Untended(q)
    BY <1>2, <1>4, <2>1 DEF Marks, MarkedIsStill, Untended, Running,
       Interrupted
  <2>3. Marks'
    BY <1>3, <2>2, MarksStay
  <2>4. HasCause(r)
    BY <1>6, OpeningCause DEF HasCause
  <2> QED
    BY <1>5, <2>3, <2>4
<1>7. CASE EndRun(r) \/ ExitRun(r) \/ TakeFiles(r) \/ ReleaseFiles(r)
  <2>1. UNCHANGED <<starting, lives>>
    BY <1>7 DEF EndRun, ExitRun, TakeFiles, ReleaseFiles
  <2>2. \/ /\ ~Running(r)'
           /\ rows' = rows \/ starting[r] = None
        \/ live' = live /\ rows' = rows
    <3>1. CASE EndRun(r)
      <4>1. live[r] \in Fiber /\ live' = [live EXCEPT ![r].phase = "ended"]
        BY <1>2, <3>1 DEF EndRun
      <4>2. live'[r].phase = "ended"
        BY <1>2, <4>1 DEF Fiber
      <4>3. starting[r] = None
        BY <3>1 DEF EndRun, IInv, Fates, Exclusive
      <4> QED
        BY <4>2, <4>3 DEF Running
    <3>2. CASE ExitRun(r)
      BY <1>2, <3>2 DEF ExitRun, Running
    <3>3. CASE TakeFiles(r) \/ ReleaseFiles(r)
      BY <3>3 DEF TakeFiles, ReleaseFiles
    <3> QED
      BY <1>7, <3>1, <3>2, <3>3
  <2>3. \A q \in stopping : /\ starting'[q] = None /\ lives'[q] = lives[q]
                            /\ Untended(q)' => Untended(q)
    BY <1>2, <1>4, <2>1, <2>2 DEF Marks, MarkedIsStill, Untended, Running,
       Interrupted
  <2>4. Marks'
    BY <1>3, <2>3, MarksStay
  <2>5. HasCause(r)
    <3>1. CASE live' = live /\ rows' = rows
      BY <1>3, <2>1, <3>1, SlipStays
    <3>2. CASE ~Running(r)' /\ rows' = rows
      BY <1>3, <2>1, <3>2 DEF HasCause, Slipped, Opens
    <3>3. CASE ~Running(r)' /\ starting[r] = None
      BY <2>1, <3>3 DEF HasCause, Slipped, Opens
    <3> QED
      BY <2>2, <3>1, <3>2, <3>3
  <2> QED
    BY <1>5, <2>4, <2>5
<1> QED
  BY <1>1, <1>6, <1>7

\* A stopper lets go of a run only with its fiber interrupted, or where the
\* store refuses its stop; and it takes the mark off with it.
LetsGo(s, q) == StoppedBy(s, q) /\ ~StoppedBy(s, q)' /\ Untended(q)'

\* A step of a stopper that commits no rows keeps the marks, and slips none
\* but by a refusal.
LEMMA StopperSlips ==
    ASSUME IInv, Marks, NEW s \in Stoppers, Quiet, UNCHANGED rows,
           \A t \in Stoppers \ {s} : stops'[t] = stops[t],
           stops'[s].at \notin {"child", "childSettle"}
             => stops'[s].child = None,
           s = Closer /\ stops'[s].at # "idle" => closing',
           closing => closing',
           \A q \in stopping' :
             \/ q \in stopping
             \/ /\ q \in Runs /\ starting[q] = None
                /\ live[q] # None => StoppedBy(s, q)',
           \A q \in Runs : LetsGo(s, q) =>
             /\ q \notin stopping'
             /\ stops'[s] # stops[s]
             /\ q \in {stops[s].run, stops[s].child}
             /\ spent'.refused # spent.refused
    PROVE  Marks' /\ \A q \in Runs : HasCause(q)
<1>1. Begun' /\ ChildInHand'
  BY DEF Marks, Begun, ChildInHand
<1>2. stopping \subseteq Runs
  BY DEF IInv, Typed, TypeOK
<1>3. MarkedIsStill'
  BY <1>2 DEF Marks, MarkedIsStill, Quiet
<1>4. \A q \in Runs : Untended(q)' => Untended(q)
  BY DEF Untended, Running, Interrupted, Quiet, SameFiber
<1>5. \A t \in Stoppers \ {s}, q \in Runs : StoppedBy(t, q) => StoppedBy(t, q)'
  BY DEF StoppedBy, Quiet
<1>6. ASSUME NEW q \in stopping', Untended(q)'
      PROVE  \E t \in Stoppers : StoppedBy(t, q)'
  <2>1. CASE q \in stopping
    <3>1. q \in Runs /\ Untended(q)
      BY <1>2, <1>4, <1>6, <2>1
    <3>2. PICK t \in Stoppers : StoppedBy(t, q)
      BY <2>1, <3>1 DEF Marks, MarkedIsStopped
    <3>3. CASE t # s
      BY <1>5, <3>1, <3>2, <3>3
    <3>4. CASE t = s
      BY <1>6, <3>1, <3>2, <3>4 DEF LetsGo
    <3> QED
      BY <3>3, <3>4
  <2>2. CASE q \notin stopping
    <3>1. q \in Runs /\ Untended(q)
      BY <1>4, <1>6, <2>2
    <3>2. StoppedBy(s, q)'
      BY <2>2, <3>1 DEF Untended, Running
    <3> QED
      BY <3>2
  <2> QED
    BY <2>1, <2>2
<1>7. MarkedIsStopped'
  BY <1>6 DEF MarkedIsStopped
<1>8. ASSUME NEW q \in Runs, Slipped(q)', ~Slipped(q)
      PROVE  /\ stops'[s] # stops[s]
             /\ q \in {stops[s].run, stops[s].child}
             /\ spent'.refused # spent.refused
  <2>1. Unclean(q)
    BY <1>8 DEF Slipped, Unclean
  <2>2. ~(Opens(q, "settling")' /\ starting'[q].stop = None)
    BY <1>8, <2>1 DEF Slipped, Unclean, Opens, Quiet, SameOpening
  <2>3. Untended(q)' /\ ~BeingStopped(q)'
    BY <1>8, <2>2 DEF Slipped, Untended
  <2>4. BeingStopped(q)
    BY <1>4, <1>8, <2>1, <2>3 DEF Slipped, Untended, Unclean
  <2>5. PICK t \in Stoppers : StoppedBy(t, q)
    BY <2>4, StoppedByIs
  <2>6. \A u \in Stoppers : ~StoppedBy(u, q)'
    BY <2>3, StoppedByIs
  <2>7. t = s
    BY <1>5, <2>5, <2>6
  <2> QED
    BY <2>3, <2>5, <2>6, <2>7 DEF LetsGo
<1> QED
  BY <1>1, <1>3, <1>7, <1>8 DEF Marks, HasCause

\* The rows of a stop slip a run only when its mark was taken away.
LEMMA CommitSlips ==
    ASSUME IInv, Marks, NEW s \in Stoppers, StopCommit(s) \/ ChildCommit(s)
    PROVE  Marks' /\ \A q \in Runs : HasCause(q)
<1>1. /\ stops \in [Stoppers -> Stop] /\ stops[s] \in Stop
      /\ rows \in [Runs -> Row] /\ stopping \subseteq Runs
  BY DEF IInv, Typed, TypeOK
<1>2. UNCHANGED <<lives, starting, live, stopping, closing, spent>>
  BY DEF StopCommit, ChildCommit
<1>3. /\ \A t \in Stoppers \ {s} : stops'[t] = stops[t]
      /\ stops'[s].run = stops[s].run
      /\ stops'[s].fiber = stops[s].fiber
      /\ stops'[s].child = stops[s].child
      /\ stops'[s].childFiber = stops[s].childFiber
      /\ \/ stops[s].at = "stop" /\ stops'[s].at = "settle"
         \/ stops[s].at = "child" /\ stops'[s].at = "childSettle"
  <2>1. CASE StopCommit(s)
    <3>1. stops' = [stops EXCEPT ![s] = [stops[s] EXCEPT !.at = "settle",
                      !.lag = LagOf(stops[s].run, stops[s].fiber = 0)]]
      BY <1>1, <2>1 DEF StopCommit, Stop
    <3>2. stops[s].at = "stop"
      BY <2>1 DEF StopCommit
    <3> QED
      BY <1>1, <3>1, <3>2 DEF Stop
  <2>2. CASE ChildCommit(s)
    <3>1. stops' = [stops EXCEPT ![s] = [stops[s] EXCEPT !.at = "childSettle",
                      !.lag = LagOf(stops[s].child, FALSE)]]
      BY <1>1, <2>2 DEF ChildCommit, Stop
    <3>2. stops[s].at = "child"
      BY <2>2 DEF ChildCommit
    <3> QED
      BY <1>1, <3>1, <3>2 DEF Stop
  <2> QED
    BY <2>1, <2>2
<1>4. PICK r \in Runs :
        /\ \A q \in Runs \ {r} : rows'[q] = rows[q]
        /\ \/ stops[s].at = "stop" /\ stops[s].run = r
           \/ stops[s].at = "child" /\ stops[s].child = r
  <2>1. CASE StopCommit(s)
    <3>1. stops[s].run \in Runs /\ stops[s].at = "stop"
      BY <2>1 DEF StopCommit, IInv, Typed, StopsNamed
    <3>2. \A q \in Runs \ {stops[s].run} : rows'[q] = rows[q]
      BY <1>1, <2>1 DEF StopCommit, StopRows
    <3> QED
      BY <3>1, <3>2
  <2>2. CASE ChildCommit(s)
    <3>1. stops[s].child \in Runs /\ stops[s].at = "child"
      BY <2>2 DEF ChildCommit, IInv, Typed, StopsNamed
    <3>2. \A q \in Runs \ {stops[s].child} : rows'[q] = rows[q]
      BY <1>1, <2>2 DEF ChildCommit, StopRows
    <3> QED
      BY <3>1, <3>2
  <2> QED
    BY <2>1, <2>2
<1>5. \A t \in Stoppers, q \in Runs : StoppedBy(t, q) => StoppedBy(t, q)'
  BY <1>2, <1>3 DEF StoppedBy
<1>6. Marks'
  <2>1. Begun' /\ ChildInHand'
    BY <1>2, <1>3 DEF Marks, Begun, ChildInHand
  <2>2. MarkedIsStill'
    BY <1>2 DEF Marks, MarkedIsStill
  <2>3. MarkedIsStopped'
    BY <1>1, <1>2, <1>5 DEF Marks, MarkedIsStopped, Untended, Running,
       Interrupted
  <2> QED
    BY <2>1, <2>2, <2>3 DEF Marks
<1>7. ASSUME NEW q \in Runs, Slipped(q)', ~Slipped(q)
      PROVE  /\ stops'[s] # stops[s] /\ Overtaken(s, q)
  <2>1. BeingStopped(q) => BeingStopped(q)'
    BY <1>5, StoppedByIs
  <2>2. q = r
    <3>1. rows'[q] # rows[q]
      BY <1>2, <1>7, <2>1 DEF Slipped, Running, Interrupted, Opens
    <3> QED
      BY <1>4, <3>1
  <2>3. CASE r \in stopping
    <3>1. starting[r] = None
      BY <2>3 DEF Marks, MarkedIsStill
    <3>2. Untended(r) /\ ~BeingStopped(r)'
      BY <1>2, <1>7, <2>2, <3>1 DEF Slipped, Untended, Running, Interrupted,
         Opens
    <3> QED
      BY <2>1, <2>2, <2>3, <3>2, StoppedByIs DEF Marks, MarkedIsStopped
  <2>4. CASE r \notin stopping
    BY <1>3, <1>4, <2>2, <2>4 DEF Overtaken
  <2> QED
    BY <2>3, <2>4
<1> QED
  BY <1>6, <1>7 DEF HasCause

\* Asking a stop, or a close's next one, captures the run as it is.
LEMMA AskSlips ==
    ASSUME IInv, Marks, NEW s \in Stoppers,
           \/ \E r \in Runs : StopAsk(s, r) \/ StopRoot(s, r)
           \/ StopAll(s) \/ StoppedAll(s)
    PROVE  Marks' /\ \A q \in Runs : HasCause(q)
<1>1. /\ stops \in [Stoppers -> Stop] /\ stops[s] \in Stop
  BY DEF IInv, Typed, TypeOK
<1>2. Quiet
  BY StopIsQuiet DEF IInv
<1>3. /\ stops[s].at \in {"idle", "next"} => stops[s].child = None
      /\ s = Closer /\ stops[s].at # "idle" => closing
  BY DEF Marks, ChildInHand, Begun
<1>4. UNCHANGED <<rows, lives, live>>
  BY DEF StopAsk, StopRoot, StopAll, StoppedAll
\* The stopper had no run in hand to let go of.
<1>5. ASSUME stops[s].at \in {"idle", "next"}
      PROVE  \A q \in Runs : ~LetsGo(s, q)
  BY <1>3, <1>5, NoneIsNoRun DEF LetsGo, StoppedBy
<1>6. ASSUME NEW r \in Runs, NEW reason, NEW roots,
             Ask(s, r, reason, roots), stops[s].at \in {"idle", "next"},
             closing' = closing, s # Closer \/ stops[s].at = "next"
      PROVE  Marks' /\ \A q \in Runs : HasCause(q)
  <2>1. \A t \in Stoppers \ {s} : stops'[t] = stops[t]
    BY <1>1, <1>6 DEF Ask
  <2>2. s = Closer => closing
    BY <1>3, <1>6
  <2>3. CASE starting[r] # None
    <3>1. /\ stops'[s].at = stops[s].at /\ stops'[s].child = stops[s].child
          /\ stopping' = stopping
      BY <1>1, <1>6, <2>3 DEF Ask, Stop
    <3> QED
      BY <1>2, <1>3, <1>4, <1>5, <1>6, <2>1, <2>2, <3>1, StopperSlips
  <2>4. CASE starting[r] = None
    <3>1. stops'[s] = [Idle EXCEPT !.at = "stop", !.run = r,
                                   !.reason = reason, !.roots = roots,
                                   !.fiber = CapturedFiber(r)]
      BY <1>1, <1>6, <2>4 DEF Ask
    <3>2. /\ stops'[s].at = "stop" /\ stops'[s].run = r
          /\ stops'[s].fiber = CapturedFiber(r) /\ stops'[s].child = None
      BY <3>1 DEF Idle
    <3>3. stopping' = stopping \cup {r}
      BY <1>6, <2>4 DEF Ask
    <3>4. live[r] # None => StoppedBy(s, r)'
      BY <1>4, <3>2 DEF StoppedBy, CapturedFiber
    <3>5. \A q \in stopping' :
            \/ q \in stopping
            \/ /\ q \in Runs /\ starting[q] = None
               /\ live[q] # None => StoppedBy(s, q)'
      BY <2>4, <3>3, <3>4
    <3> QED
      BY <1>2, <1>4, <1>5, <1>6, <2>1, <2>2, <3>2, <3>5, StopperSlips
  <2> QED
    BY <2>3, <2>4
<1>7. ASSUME NEW r \in Runs, StopAsk(s, r)
      PROVE  Marks' /\ \A q \in Runs : HasCause(q)
  BY <1>6, <1>7 DEF StopAsk
<1>8. ASSUME NEW r \in Runs, StopRoot(s, r)
      PROVE  Marks' /\ \A q \in Runs : HasCause(q)
  BY <1>6, <1>8 DEF StopRoot
<1>9. CASE StopAll(s)
  <2>1. /\ stops[s].at = "idle" /\ closing' /\ UNCHANGED stopping
    BY <1>3, <1>9 DEF StopAll
  <2>2. /\ \A t \in Stoppers \ {s} : stops'[t] = stops[t]
        /\ stops'[s].at = "next" /\ stops'[s].child = None
    BY <1>1, <1>9 DEF StopAll, Idle
  <2> QED
    BY <1>2, <1>4, <1>5, <2>1, <2>2, StopperSlips
<1>10. CASE StoppedAll(s)
  <2>1. /\ stops[s].at = "next" /\ UNCHANGED <<closing, stopping>>
    BY <1>10 DEF StoppedAll
  <2>2. /\ \A t \in Stoppers \ {s} : stops'[t] = stops[t]
        /\ stops'[s].at = "done" /\ stops'[s].child = None
    BY <1>1, <1>3, <1>10 DEF StoppedAll, Stop
  <2> QED
    BY <1>2, <1>3, <1>4, <1>5, <2>1, <2>2, StopperSlips
<1> QED
  BY <1>7, <1>8, <1>9, <1>10

\* The cascade lets go of no run it did not interrupt, and marks the next
\* one it has in hand.
LEMMA CascadeSlips ==
    ASSUME IInv, Marks, NEW s \in Stoppers, Quiet,
           NEW todo \in SUBSET Runs,
           NEW fibers \in [Runs -> Fiber \cup {None}],
           NEW held \in SUBSET stopping,
           Cascade(s, todo, fibers, held),
           stops[s].at \in {"settle", "childSettle"},
           stops[s].run \in Runs,
           \A q \in Runs : fibers[q] # None /\ ~fibers[q].interrupted =>
             ~(stops[s].child = q /\ stops[s].childFiber = lives[q]),
           UNCHANGED <<rows, lives, closing, spent>>
    PROVE  Marks' /\ \A q \in Runs : HasCause(q)
<1>1. /\ stops \in [Stoppers -> Stop] /\ stops[s] \in Stop
      /\ starting \in [Runs -> Opening \cup {None}]
  BY DEF IInv, Typed, TypeOK
<1>2. s = Closer => closing
  BY DEF Marks, Begun
<1> DEFINE op == stops[s]
           driven == {c \in todo : starting[c] = None /\ fibers[c] # None}
<1>3. \A c \in driven : c \in Runs /\ starting[c] = None
  OBVIOUS
<1>4. \/ \E c \in driven, passed \in SUBSET (todo \ driven) :
             /\ AskOpenings(passed, op.reason)
             /\ live' = fibers
             /\ stopping' = held \cup {c}
             /\ stops' = [stops EXCEPT
                            ![s].at = "child", ![s].child = c,
                            ![s].childFiber = lives[c],
                            ![s].todo = todo \ (passed \cup {c})]
      \/ /\ live' = InterruptFiber(fibers, op.run, op.fiber)
         /\ stopping' = held \ {op.run}
         /\ stops' = [stops EXCEPT ![s] = Rest(s)]
  BY Zenon DEF Cascade
<1> HIDE DEF driven
<1>5. ASSUME NEW c \in driven, NEW passed,
             live' = fibers, stopping' = held \cup {c},
             stops' = [stops EXCEPT
                         ![s].at = "child", ![s].child = c,
                         ![s].childFiber = lives[c],
                         ![s].todo = todo \ (passed \cup {c})]
      PROVE  Marks' /\ \A q \in Runs : HasCause(q)
  <2>1. c \in Runs /\ starting[c] = None
    BY <1>3, <1>5
  <2>2. stops' = [stops EXCEPT ![s] = [stops[s] EXCEPT
                    !.at = "child", !.child = c, !.childFiber = lives[c],
                    !.todo = todo \ (passed \cup {c})]]
    BY <1>1, <1>5 DEF Stop
  <2>3. /\ \A t \in Stoppers \ {s} : stops'[t] = stops[t]
        /\ stops'[s].at = "child" /\ stops'[s].child = c
        /\ stops'[s].childFiber = lives[c]
        /\ stops'[s].run = stops[s].run /\ stops'[s].fiber = stops[s].fiber
    BY <1>1, <2>2 DEF Stop
  <2>4. ASSUME NEW q \in stopping'
        PROVE  \/ q \in stopping
               \/ /\ q \in Runs /\ starting[q] = None
                  /\ live[q] # None => StoppedBy(s, q)'
    BY <1>5, <2>1, <2>3 DEF StoppedBy
  <2>5. ASSUME NEW q \in Runs, LetsGo(s, q)
        PROVE  FALSE
    <3>1. fibers[q] # None /\ ~fibers[q].interrupted
      BY <1>5, <2>5 DEF LetsGo, Untended, Running, Interrupted
    <3> QED
      BY <2>3, <2>5, <3>1 DEF LetsGo, StoppedBy
  <2> QED
    BY <1>2, <2>3, <2>4, <2>5, StopperSlips
<1>6. CASE /\ live' = InterruptFiber(fibers, op.run, op.fiber)
           /\ stopping' = held \ {op.run}
           /\ stops' = [stops EXCEPT ![s] = Rest(s)]
  <2>1. /\ \A t \in Stoppers \ {s} : stops'[t] = stops[t]
        /\ stops'[s].at \in {"idle", "next"} /\ stops'[s].child = None
    BY <1>1, <1>6 DEF Rest, Idle
  <2>2. ASSUME NEW q \in Runs, LetsGo(s, q)
        PROVE  FALSE
    <3>1. live'[q] # None /\ ~live'[q].interrupted
      BY <2>2 DEF LetsGo, Untended, Running, Interrupted
    <3>2. /\ fibers[q] # None /\ ~fibers[q].interrupted
          /\ ~(q = stops[s].run /\ stops[s].fiber = lives[q])
      BY <1>6, <3>1, InterruptMarks
    <3> QED
      BY <2>2, <3>2 DEF LetsGo, StoppedBy
  <2>3. stopping' \subseteq stopping
    BY <1>6
  <2> QED
    BY <1>2, <2>1, <2>2, <2>3, StopperSlips
<1> HIDE DEF op
<1> QED
  BY Zenon, <1>4, <1>5, <1>6

\* What a stop does once its rows are in lets go of no run it did not
\* interrupt; a refused one slips what it had in hand.
LEMMA SettledSlips ==
    ASSUME IInv, Marks, NEW s \in Stoppers,
           \/ StopSettled(s) \/ Detach(s) \/ Detached(s) \/ ChildStopped(s)
           \/ StopRefused(s)
    PROVE  Marks' /\ \A q \in Runs : HasCause(q)
<1>1. /\ stops \in [Stoppers -> Stop] /\ stops[s] \in Stop
      /\ live \in [Runs -> Fiber \cup {None}]
      /\ stops[s].run \in Runs
      /\ stops[s].child \in Runs \cup {None}
      /\ stops[s].todo \in SUBSET Runs
  BY DEF IInv, Typed, TypeOK, Stop, StopsNamed, StopSettled, Detach,
         Detached, ChildStopped, StopRefused
<1>2. Quiet
  BY StopIsQuiet DEF IInv
<1>3. /\ s = Closer => closing
      /\ stops[s].at \notin {"child", "childSettle"} => stops[s].child = None
  BY DEF StopSettled, Detach, Detached, ChildStopped, StopRefused, Marks,
         Begun, ChildInHand
\* The stop goes on with the run in hand.
<1>4. ASSUME stops[s].at \in {"settle", "detach"},
             stops'[s].at \in {"detach", "detached"},
             stops'[s].run = stops[s].run,
             stops'[s].fiber = stops[s].fiber,
             stops'[s].child = stops[s].child,
             \A t \in Stoppers \ {s} : stops'[t] = stops[t],
             UNCHANGED <<rows, lives, stopping, closing>>
      PROVE  Marks' /\ \A q \in Runs : HasCause(q)
  <2>1. stops'[s].child = None
    BY <1>3, <1>4
  <2>2. \A q \in Runs : ~LetsGo(s, q)
    BY <1>4, <2>1, NoneIsNoRun DEF LetsGo, StoppedBy
  <2> QED
    BY <1>2, <1>3, <1>4, <2>1, <2>2, StopperSlips
<1>5. CASE StopSettled(s) /\ Detaches(s)
  <2>1. stops' = [stops EXCEPT ![s] = [stops[s] EXCEPT !.at = "detach"]]
    BY <1>1, <1>5 DEF StopSettled, Stop
  <2>2. /\ \A t \in Stoppers \ {s} : stops'[t] = stops[t]
        /\ stops'[s].at = "detach"
        /\ stops'[s].run = stops[s].run
        /\ stops'[s].fiber = stops[s].fiber
        /\ stops'[s].child = stops[s].child
    BY <1>1, <2>1 DEF Stop
  <2>3. /\ stops[s].at = "settle"
        /\ UNCHANGED <<rows, lives, stopping, closing>>
    BY <1>5 DEF StopSettled
  <2> QED
    BY <1>4, <2>2, <2>3
<1>6. CASE Detach(s)
  <2>1. PICK lag : stops' = [stops EXCEPT ![s].at = "detached",
                                          ![s].lag = lag]
    BY ZenonT(60), <1>6 DEF Detach
  <2>2. stops' = [stops EXCEPT ![s] = [stops[s] EXCEPT
                    !.at = "detached", !.lag = lag]]
    BY <1>1, <2>1 DEF Stop
  <2>3. /\ \A t \in Stoppers \ {s} : stops'[t] = stops[t]
        /\ stops'[s].at = "detached"
        /\ stops'[s].run = stops[s].run
        /\ stops'[s].fiber = stops[s].fiber
        /\ stops'[s].child = stops[s].child
    BY <1>1, <2>2 DEF Stop
  <2>4. /\ stops[s].at = "detach"
        /\ UNCHANGED <<rows, lives, stopping, closing>>
    BY ZenonT(60), <1>6 DEF Detach
  <2> QED
    BY <1>4, <2>3, <2>4
<1>7. CASE StopSettled(s) /\ ~Detaches(s)
  <2>1. HeldUnder(stops[s].run) \in SUBSET Runs
    BY DEF HeldUnder, Held
  <2>2. /\ Cascade(s, HeldUnder(stops[s].run), live, stopping)
        /\ stops[s].at = "settle"
        /\ UNCHANGED <<rows, lives, closing, spent>>
    BY <1>7 DEF StopSettled
  <2>3. \A q \in Runs : ~(stops[s].child = q
                          /\ stops[s].childFiber = lives[q])
    BY <1>3, <2>2, NoneIsNoRun
  <2> QED
    BY <1>1, <1>2, <2>1, <2>2, <2>3, CascadeSlips
<1>8. CASE ChildStopped(s)
  <2> DEFINE fibers == InterruptFiber(live, stops[s].child,
                                      stops[s].childFiber)
             held == stopping \ {stops[s].child}
  <2>1. /\ Cascade(s, stops[s].todo, fibers, held)
        /\ stops[s].at = "childSettle"
        /\ UNCHANGED <<rows, lives, closing, spent>>
    BY <1>8 DEF ChildStopped
  <2>2. fibers \in [Runs -> Fiber \cup {None}] /\ held \in SUBSET stopping
    BY <1>1, InterruptTyped
  <2>3. ASSUME NEW q \in Runs, fibers[q] # None, ~fibers[q].interrupted
        PROVE  ~(stops[s].child = q /\ stops[s].childFiber = lives[q])
    BY <1>1, <2>3, InterruptMarks
  <2> HIDE DEF fibers, held
  <2> QED
    BY <1>1, <1>2, <2>1, <2>2, <2>3, CascadeSlips
\* A stop that is over.
<1>9. ASSUME stops' = [stops EXCEPT ![s] = Rest(s)],
             closing' = closing, rows' = rows, stopping' \subseteq stopping,
             \A q \in Runs : LetsGo(s, q) =>
               /\ q \notin stopping'
               /\ q \in {stops[s].run, stops[s].child}
               /\ spent'.refused # spent.refused,
             stops[s].at \notin {"idle", "next"}
      PROVE  Marks' /\ \A q \in Runs : HasCause(q)
  <2>1. /\ \A t \in Stoppers \ {s} : stops'[t] = stops[t]
        /\ stops'[s].at \in {"idle", "next"} /\ stops'[s].child = None
    BY <1>1, <1>9 DEF Rest, Idle
  <2>2. stops'[s] # stops[s]
    BY <1>9, <2>1
  <2> QED
    BY <1>2, <1>3, <1>9, <2>1, <2>2, StopperSlips
<1>10. CASE Detached(s)
  <2>1. /\ stops[s].at = "detached" /\ stops[s].child = None
        /\ live' = InterruptFiber(live, stops[s].run, stops[s].fiber)
        /\ stops' = [stops EXCEPT ![s] = Rest(s)]
        /\ stopping' \subseteq stopping
        /\ UNCHANGED <<rows, closing>>
    BY <1>3, <1>10 DEF Detached
  <2>2. ASSUME NEW q \in Runs, LetsGo(s, q)
        PROVE  FALSE
    <3>1. live'[q] # None /\ ~live'[q].interrupted
      BY <2>2 DEF LetsGo, Untended, Running, Interrupted
    <3>2. ~(q = stops[s].run /\ stops[s].fiber = lives[q])
      BY <1>1, <2>1, <3>1, InterruptMarks
    <3> QED
      BY <2>1, <2>2, <3>2, NoneIsNoRun DEF LetsGo, StoppedBy
  <2> QED
    BY <1>9, <2>1, <2>2
<1>11. CASE StopRefused(s)
  <2>1. spent'.refused # spent.refused
    BY <1>11 DEF StopRefused, IInv, Typed, TypeOK
  <2>2. /\ stopping' = stopping \ {stops[s].run, stops[s].child}
        /\ stops' = [stops EXCEPT ![s] = Rest(s)]
        /\ stops[s].at \in {"stop", "child", "detach"}
        /\ UNCHANGED <<rows, closing>>
    BY <1>11 DEF StopRefused
  <2>3. \A q \in Runs : LetsGo(s, q) => q \in {stops[s].run, stops[s].child}
    BY DEF LetsGo, StoppedBy
  <2> QED
    BY <1>9, <2>1, <2>2, <2>3
<1> QED
  BY <1>5, <1>6, <1>7, <1>8, <1>10, <1>11

\* A caller that lets go of its run, and the view's fold, leave every stop
\* what it has in hand.
LEMMA OtherSlips ==
    ASSUME IInv, Marks, (\E r \in Runs : LetGo(r)) \/ Fold \/ UNCHANGED vars
    PROVE  Marks' /\ \A q \in Runs : HasCause(q)
<1>1. /\ stops \in [Stoppers -> Stop]
      /\ starting \in [Runs -> Opening \cup {None}]
      /\ live \in [Runs -> Fiber \cup {None}]
      /\ stopping \subseteq Runs
  BY DEF IInv, Typed, TypeOK
<1>2. UNCHANGED <<rows, lives, stopping, closing>>
  BY DEF LetGo, Fold, vars
<1>3. ASSUME NEW s \in Stoppers
      PROVE  /\ stops'[s].at = stops[s].at
             /\ stops'[s].run = stops[s].run
             /\ stops'[s].fiber = stops[s].fiber
             /\ stops'[s].child = stops[s].child
             /\ stops'[s].childFiber = stops[s].childFiber
  <2>1. CASE (\E r \in Runs : LetGo(r)) \/ UNCHANGED vars
    BY <2>1 DEF LetGo, vars
  <2>2. CASE Fold
    <3>1. stops'[s] = [stops[s] EXCEPT !.lag = Less(stops[s].lag)]
      BY <2>2 DEF Fold
    <3> QED
      BY <1>1, <3>1 DEF Stop
  <2> QED
    BY <2>1, <2>2
<1>4. ASSUME NEW q \in Runs
      PROVE  /\ starting'[q] = None <=> starting[q] = None
             /\ starting[q] # None => /\ starting'[q].at = starting[q].at
                                      /\ starting'[q].stop = starting[q].stop
  <2>1. CASE (\E r \in Runs : LetGo(r)) \/ UNCHANGED vars
    BY <2>1 DEF LetGo, vars
  <2>2. CASE Fold
    <3>1. CASE starting[q] = None
      BY <2>2, <3>1 DEF Fold
    <3>2. CASE starting[q] # None
      <4>1. starting'[q] = [starting[q] EXCEPT !.lag = Less(starting[q].lag)]
        BY <2>2, <3>2 DEF Fold
      <4>2. starting[q] \in Opening /\ Less(starting[q].lag) \in Nat
        BY <1>1, <3>2 DEF Opening, Less
      <4>3. starting'[q] \in Opening
        BY <4>1, <4>2 DEF Opening
      <4> QED
        BY <3>2, <4>1, <4>2, <4>3, NoneIsNothing DEF Opening
    <3> QED
      BY <3>1, <3>2
  <2> QED
    BY <2>1, <2>2
<1>5. ASSUME NEW q \in Runs, Untended(q)'
      PROVE  Untended(q)
  <2>1. CASE \E r \in Runs : LetGo(r)
    <3>1. Quiet
      BY <2>1, StopIsQuiet DEF IInv
    <3> QED
      BY <1>5, <3>1 DEF Untended, Running, Interrupted, Quiet, SameFiber
  <2>2. CASE Fold \/ UNCHANGED vars
    BY <1>5, <2>2 DEF Fold, vars, Untended, Running, Interrupted
  <2> QED
    BY <2>1, <2>2
<1>6. \A s \in Stoppers, q \in Runs : StoppedBy(s, q) <=> StoppedBy(s, q)'
  BY <1>2, <1>3 DEF StoppedBy
<1>7. Marks'
  <2>1. Begun' /\ ChildInHand'
    BY <1>2, <1>3 DEF Marks, Begun, ChildInHand
  <2>2. MarkedIsStill'
    BY <1>1, <1>2, <1>4 DEF Marks, MarkedIsStill
  <2>3. MarkedIsStopped'
    BY <1>1, <1>2, <1>5, <1>6 DEF Marks, MarkedIsStopped
  <2> QED
    BY <2>1, <2>2, <2>3 DEF Marks
<1>8. ASSUME NEW q \in Runs, Slipped(q)'
      PROVE  Slipped(q)
  <2>1. BeingStopped(q) => BeingStopped(q)'
    BY <1>6, StoppedByIs
  <2> QED
    BY <1>2, <1>4, <1>5, <1>8, <2>1 DEF Slipped, Untended, Opens
<1> QED
  BY <1>7, <1>8 DEF HasCause

\* Every step keeps the marks and has a cause for what it slips.
LEMMA StepSlips ==
    ASSUME IInv, Marks, [Next]_vars
    PROVE  Marks' /\ \A q \in Runs : HasCause(q)
<1>1. CASE \E r \in Runs : \/ StartBirth(r) \/ StartResume(r)
                           \/ OpeningStep(r) \/ EndRun(r) \/ ExitRun(r)
                           \/ TakeFiles(r) \/ ReleaseFiles(r)
  BY <1>1, RunSlips
<1>2. CASE (\E r \in Runs : LetGo(r)) \/ Fold \/ UNCHANGED vars
  BY <1>2, OtherSlips
<1>3. CASE \E s \in Stoppers :
             \/ \E r \in Runs : StopAsk(s, r) \/ StopRoot(s, r)
             \/ StopAll(s) \/ StoppedAll(s)
  BY <1>3, AskSlips
<1>4. CASE \E s \in Stoppers : StopCommit(s) \/ ChildCommit(s)
  BY <1>4, CommitSlips
<1>5. CASE \E s \in Stoppers :
             \/ StopSettled(s) \/ Detach(s) \/ Detached(s) \/ ChildStopped(s)
             \/ StopRefused(s)
  BY <1>5, SettledSlips
<1> QED
  BY <1>1, <1>2, <1>3, <1>4, <1>5 DEF Next, StopStep

\* A run is left driven, or about to be, on rows that stop or end it, with
\* no stop under way that will interrupt it, only by the rows of a stop
\* whose mark another stop of the same run took away, or where the store
\* refused a stop that had it in hand: for any stoppers, any tree of runs
\* and any number of stops, starts and refusals.
THEOREM RegistrySlipsHaveCause == Spec => SlipsHaveCause
<1>1. Init => Marks
  BY DEF Init, Marks, Begun, ChildInHand, MarkedIsStill, MarkedIsStopped,
     Idle
<1>2. IInv /\ Marks /\ [Next]_vars => Marks'
  BY StepSlips
<1>3. IInv /\ Marks /\ [Next]_vars =>
        [\A r \in Runs : Slipped(r)' =>
           \/ Slipped(r)
           \/ \E s \in Stoppers :
                 /\ stops'[s] # stops[s]
                 /\ \/ Overtaken(s, r)
                    \/ /\ r \in {stops[s].run, stops[s].child}
                       /\ spent'.refused # spent.refused]_vars
  BY StepSlips DEF HasCause
<1> QED
  BY <1>1, <1>2, <1>3, RegistryInvariant, PTL DEF Spec, SlipsHaveCause


\* While no stop's mark is taken away by another stop of its run.
NoneOvertaken == \A s \in Stoppers, r \in Runs : ~Overtaken(s, r)

NoneSlipped == spent.refused = 0 => \A r \in Runs : ~Slipped(r)

\* No step takes a refusal back.
LEMMA RefusedCounts ==
    ASSUME Typed, [Next]_vars
    PROVE  spent'.refused >= spent.refused
<1>1. /\ spent \in [stops : Nat, refused : Nat, letGo : Nat]
      /\ spent.refused \in Nat
  BY DEF Typed, TypeOK
<1>2. ASSUME NEW r \in Runs,
             \/ StartBirth(r) \/ StartResume(r) \/ OpeningStep(r)
             \/ EndRun(r) \/ ExitRun(r) \/ TakeFiles(r) \/ ReleaseFiles(r)
      PROVE  spent' = spent
  <2>1. CASE StartBirth(r) \/ StartResume(r)
    BY <2>1 DEF StartBirth, StartResume, Enter
  <2>2. CASE OpeningStep(r)
    BY <2>2 DEF OpeningStep, Read, OpenFails, Open, Cut, Answer,
       RecordOpeningStop, ForkStopped, LeaveFailed
  <2>3. CASE EndRun(r) \/ ExitRun(r) \/ TakeFiles(r) \/ ReleaseFiles(r)
    BY <2>3 DEF EndRun, ExitRun, TakeFiles, ReleaseFiles
  <2> QED
    BY <1>2, <2>1, <2>2, <2>3
<1>3. ASSUME NEW s \in Stoppers,
             \/ \E r \in Runs : StopRoot(s, r)
             \/ StopAll(s) \/ StoppedAll(s)
             \/ StopCommit(s) \/ ChildCommit(s) \/ StopSettled(s)
             \/ Detached(s) \/ ChildStopped(s)
      PROVE  spent' = spent
  BY <1>3 DEF StopRoot, StopAll, StoppedAll, StopCommit, ChildCommit,
     StopSettled, Detached, ChildStopped
<1>4. ASSUME NEW s \in Stoppers, Detach(s)
      PROVE  spent' = spent
  BY ZenonT(60), <1>4 DEF Detach
<1>5. CASE Fold \/ UNCHANGED vars
  <2>1. spent' = spent
    BY <1>5 DEF Fold, vars
  <2> QED
    BY <1>1, <2>1
<1>6. ASSUME NEW r \in Runs, LetGo(r)
      PROVE  spent'.refused = spent.refused
  <2>1. spent' = [spent EXCEPT !.letGo = @ + 1]
    BY <1>6 DEF LetGo
  <2> QED
    BY <1>1, <2>1
<1>7. ASSUME NEW s \in Stoppers, NEW r \in Runs, StopAsk(s, r)
      PROVE  spent'.refused = spent.refused
  <2>1. spent' = [spent EXCEPT !.stops = @ + 1]
    BY <1>7 DEF StopAsk
  <2> QED
    BY <1>1, <2>1
<1>8. ASSUME NEW s \in Stoppers, StopRefused(s)
      PROVE  spent'.refused = spent.refused + 1
  <2>1. spent' = [spent EXCEPT !.refused = @ + 1]
    BY <1>8 DEF StopRefused
  <2> QED
    BY <1>1, <2>1
<1>9. CASE \E r \in Runs : \/ StartBirth(r) \/ StartResume(r)
                           \/ OpeningStep(r) \/ EndRun(r) \/ ExitRun(r)
                           \/ TakeFiles(r) \/ ReleaseFiles(r) \/ LetGo(r)
  BY <1>1, <1>2, <1>6, <1>9
<1>10. CASE \E s \in Stoppers :
              (\E r \in Runs : StopAsk(s, r)) \/ StopAll(s) \/ StopStep(s)
  BY <1>1, <1>3, <1>4, <1>7, <1>8, <1>10 DEF StopStep
<1> QED
  BY <1>5, <1>9, <1>10 DEF Next

\* While no mark is taken away from a stop, and until the store refuses
\* one, no fiber drives on, untouched, on a run stopped or ended on its
\* rows with no stop under way that will interrupt it: however many stops
\* of one run overlap.
THEOREM RegistryUnlessOvertaken ==
    Spec /\ []NoneOvertaken => []StoppedIsInterrupted
<1>1. Init => Marks /\ NoneSlipped
  BY DEF Init, Marks, Begun, ChildInHand, MarkedIsStill, MarkedIsStopped,
     Idle, NoneSlipped, Slipped, Running, Opens
<1>2. IInv /\ Marks /\ [Next]_vars => Marks'
  BY StepSlips
<1>3. ASSUME IInv, Marks, NoneSlipped, NoneOvertaken, [Next]_vars
      PROVE  NoneSlipped'
  <2> SUFFICES ASSUME spent'.refused = 0, NEW r \in Runs, Slipped(r)'
               PROVE  FALSE
    BY DEF NoneSlipped
  <2>1. spent.refused = 0
    BY <1>3, RefusedCounts DEF IInv, Typed, TypeOK
  <2>2. HasCause(r)
    BY <1>3, StepSlips
  <2> QED
    BY <1>3, <2>1, <2>2 DEF HasCause, NoneSlipped, NoneOvertaken
<1>4. NoneSlipped => StoppedIsInterrupted
  BY DEF NoneSlipped, Slipped, StoppedIsInterrupted
<1> QED
  BY <1>1, <1>2, <1>3, <1>4, RegistryInvariant, PTL DEF Spec

=============================================================================
