--------------------------- MODULE Requests_proofs ---------------------------
(***************************************************************************)
(* The safety of requests and approvals for any runs, requests, surfaces,  *)
(* changes and crashes.                                                    *)
(***************************************************************************)
EXTENDS Requests, WellFoundedInduction, TLAPS

USE RunOfAssumption, UnderAssumption, ApartAssumption

Things == Reqs \cup Runs

-----------------------------------------------------------------------------
(* The least and the last of a set of positions. *)

\* Numbers are well founded: a set of them has a least member.
LEMMA Least ==
    ASSUME NEW S \in SUBSET Nat, S # {}
    PROVE  Min(S) \in S /\ \A y \in S : Min(S) <= y
<1>1. IsWellFoundedOn(OpToRel(<, Nat), Nat)
    BY NatLessThanWellFounded
<1>2. PICK x \in S : \A y \in S : ~(<<y, x>> \in OpToRel(<, Nat))
    BY <1>1, WFMin
<1>3. \A y \in S : ~(y < x)
    BY <1>2 DEF OpToRel
<1>4. \A y \in S : x <= y
    BY <1>3
<1> QED
    BY <1>4 DEF Min

\* A bounded set of numbers has a greatest member.
LEMMA Greatest ==
    ASSUME NEW n \in Nat, NEW S \in SUBSET (0..n), S # {}
    PROVE  Max(S) \in S /\ \A y \in S : y <= Max(S)
<1> DEFINE D == {n - x : x \in S}
<1>1. D \in SUBSET Nat
    OBVIOUS
<1>2. D # {}
  <2>1. PICK x \in S : TRUE
      OBVIOUS
  <2>2. n - x \in D
      OBVIOUS
  <2> QED
      BY <2>2
<1>3. Min(D) \in D /\ \A d \in D : Min(D) <= d
    BY <1>1, <1>2, Least
<1> HIDE DEF D
<1>4. PICK x \in S : Min(D) = n - x
    BY <1>3 DEF D
<1>5. \A y \in S : y <= x
  <2> TAKE y \in S
  <2>1. n - y \in D
      BY DEF D
  <2>2. Min(D) <= n - y
      BY <1>3, <2>1
  <2> QED
      BY <1>4, <2>2
<1> QED
    BY <1>5 DEF Max

-----------------------------------------------------------------------------
(* The folds of a log l: `Told` and `Last` of whatever log. *)

ToldIn(l, x, n) == {i \in 1..n : l[i][x] # "-"}

LastIn(l, x, n) ==
    IF ToldIn(l, x, n) = {} THEN "-" ELSE l[Max(ToldIn(l, x, n))][x]

\* The last entry about x up to n, or none.
LEMMA LastCases ==
    ASSUME NEW l \in Seq(Entry), NEW x \in Things, NEW n \in 0..Len(l)
    PROVE  \/ LastIn(l, x, n) = "-" /\ \A i \in 1..n : l[i][x] = "-"
           \/ \E i \in 1..n : /\ l[i][x] # "-" /\ LastIn(l, x, n) = l[i][x]
                              /\ \A j \in (i + 1)..n : l[j][x] = "-"
<1> DEFINE T == ToldIn(l, x, n)
<1>1. CASE T = {}
    BY <1>1 DEF LastIn, ToldIn
<1>2. CASE T # {}
  <2>1. T \in SUBSET (0..n) /\ n \in Nat
      BY DEF ToldIn
  <2>2. Max(T) \in T /\ \A y \in T : y <= Max(T)
      BY <1>2, <2>1, Greatest
  <2>3. Max(T) \in 1..n /\ l[Max(T)][x] # "-" /\ LastIn(l, x, n) = l[Max(T)][x]
      BY <1>2, <2>2 DEF ToldIn, LastIn
  <2>4. \A j \in (Max(T) + 1)..n : l[j][x] = "-"
    <3> SUFFICES ASSUME NEW j \in (Max(T) + 1)..n, l[j][x] # "-"
                 PROVE  FALSE
        OBVIOUS
    <3>1. j \in T
        BY <2>3 DEF ToldIn
    <3> QED
        BY <2>2, <2>3, <3>1
  <2> HIDE DEF T
  <2> QED
      BY <2>3, <2>4
<1> QED
    BY <1>1, <1>2

\* Whatever is told of x, no entry after i about x: the last is i's.
LEMMA LastIs ==
    ASSUME NEW l \in Seq(Entry), NEW x \in Things, NEW n \in 0..Len(l),
           NEW i \in 1..n, l[i][x] # "-", \A j \in (i + 1)..n : l[j][x] = "-"
    PROVE  LastIn(l, x, n) = l[i][x]
<1>1. PICK k \in 1..n : /\ l[k][x] # "-" /\ LastIn(l, x, n) = l[k][x]
                        /\ \A j \in (k + 1)..n : l[j][x] = "-"
    BY LastCases
<1>2. k = i
    BY <1>1
<1> QED
    BY <1>1, <1>2

\* Nothing is told of x: there is no last.
LEMMA LastIsNone ==
    ASSUME NEW l \in Seq(Entry), NEW x \in Things, NEW n \in 0..Len(l),
           \A i \in 1..n : l[i][x] = "-"
    PROVE  LastIn(l, x, n) = "-"
BY LastCases

\* An entry stands for what it tells, and leaves the rest as it was.
LEMMA LastOfAppend ==
    ASSUME NEW l \in Seq(Entry), NEW e \in Entry, NEW x \in Things
    PROVE  /\ Append(l, e) \in Seq(Entry)
           /\ Len(Append(l, e)) = Len(l) + 1
           /\ Append(l, e)[Len(l) + 1] = e
           /\ \A i \in 1..Len(l) : Append(l, e)[i] = l[i]
           /\ \A n \in 0..Len(l) : LastIn(Append(l, e), x, n) = LastIn(l, x, n)
           /\ LastIn(Append(l, e), x, Len(l) + 1)
                = IF e[x] = "-" THEN LastIn(l, x, Len(l)) ELSE e[x]
<1> DEFINE a == Append(l, e)
<1>1. /\ a \in Seq(Entry) /\ Len(a) = Len(l) + 1 /\ a[Len(l) + 1] = e
      /\ \A i \in 1..Len(l) : a[i] = l[i]
    OBVIOUS
<1>2. Len(l) \in Nat
    OBVIOUS
<1> HIDE DEF a
<1>3. ASSUME NEW n \in 0..Len(l)
      PROVE  LastIn(a, x, n) = LastIn(l, x, n)
  <2>1. CASE \A i \in 1..n : l[i][x] = "-"
    <3>1. \A i \in 1..n : a[i][x] = "-"
        BY <1>1, <2>1
    <3> QED
        BY <1>1, <1>2, <2>1, <3>1, LastIsNone
  <2>2. CASE ~ \A i \in 1..n : l[i][x] = "-"
    <3>1. PICK i \in 1..n : /\ l[i][x] # "-" /\ LastIn(l, x, n) = l[i][x]
                            /\ \A j \in (i + 1)..n : l[j][x] = "-"
        BY <2>2, LastCases
    <3>2. \A j \in 1..n : a[j] = l[j]
        BY <1>1, <1>2
    <3>3. a[i][x] # "-" /\ \A j \in (i + 1)..n : a[j][x] = "-"
        BY <1>2, <3>1, <3>2
    <3>4. n \in 0..Len(a)
        BY <1>1, <1>2
    <3>5. LastIn(a, x, n) = a[i][x]
        BY <1>1, <3>3, <3>4, LastIs, SMTT(20)
    <3> QED
        BY <3>1, <3>2, <3>5
  <2> QED
      BY <2>1, <2>2
<1> DEFINE Whole == LastIn(a, x, Len(l) + 1)
<1>4. ASSUME e[x] # "-" PROVE Whole = e[x]
  <2>1. Whole = a[Len(l) + 1][x]
      BY <1>1, <1>2, <1>4, LastIs
  <2> QED
      BY <1>1, <1>4, <2>1
<1>5. ASSUME e[x] = "-" PROVE Whole = LastIn(l, x, Len(l))
  <2>1. CASE \A i \in 1..Len(l) : l[i][x] = "-"
    <3>1. \A i \in 1..(Len(l) + 1) : a[i][x] = "-"
        BY <1>1, <1>2, <1>5, <2>1
    <3>2. Whole = "-"
        BY <1>1, <1>2, <3>1, LastIsNone
    <3>3. LastIn(l, x, Len(l)) = "-"
        BY <1>2, <2>1, LastIsNone
    <3> QED
        BY <1>5, <3>2, <3>3
  <2>2. CASE ~ \A i \in 1..Len(l) : l[i][x] = "-"
    <3>1. PICK i \in 1..Len(l) :
              /\ l[i][x] # "-" /\ LastIn(l, x, Len(l)) = l[i][x]
              /\ \A j \in (i + 1)..Len(l) : l[j][x] = "-"
        BY <1>2, <2>2, LastCases
    <3>2. \A j \in (i + 1)..(Len(l) + 1) : a[j][x] = "-"
      <4> TAKE j \in (i + 1)..(Len(l) + 1)
      <4>1. j \in (i + 1)..Len(l) \/ j = Len(l) + 1
          BY <1>2
      <4> QED
          BY <1>1, <1>2, <1>5, <3>1, <4>1
    <3>3. a[i][x] # "-" /\ i \in 1..(Len(l) + 1)
        BY <1>1, <1>2, <3>1
    <3>4. Whole = a[i][x]
        BY <1>1, <1>2, <3>2, <3>3, LastIs
    <3> QED
        BY <1>1, <1>5, <3>1, <3>4
  <2> QED
      BY <2>1, <2>2
<1>6. Whole = IF e[x] = "-" THEN LastIn(l, x, Len(l)) ELSE e[x]
    BY <1>4, <1>5
<1> QED
    BY <1>1, <1>3, <1>6 DEF a

-----------------------------------------------------------------------------
(* Commits *)

\* The model's fold of its own log.
LEMMA LastIsLast ==
    ASSUME NEW x \in Things, NEW n
    PROVE  Last(x, n) = LastIn(log, x, n)
BY DEF Last, LastIn, Told, ToldIn

\* A set's rows are an entry.
LEMMA RowsAreEntry ==
    ASSUME NEW S, NEW word \in {"-", "open", "on", "off"} \cup Words
    PROVE  /\ Rows(S, word) \in Entry
           /\ \A x \in Things : Rows(S, word)[x] = IF x \in S THEN word ELSE "-"
BY DEF Rows, Entry, Things

\* What a grant writes: its run's word, and an approval of what it reaches.
LEMMA GrantIsEntry ==
    ASSUME NEW r \in Runs, NEW value \in {"on", "off"}
    PROVE  /\ GrantRows(r, value) \in Entry
           /\ \A q \in Reqs : GrantRows(r, value)[q] # "-" =>
                  /\ IsOpen(q) /\ kind[q] = "tool"
                  /\ GrantRows(r, value)[q] = "approve"
           /\ \A a \in Runs : GrantRows(r, value)[a] # "-" =>
                  a = r /\ GrantRows(r, value)[a] = value
<1>1. CASE Last(r, Len(log)) = value
    BY <1>1, RowsAreEntry DEF GrantRows, Things
<1>2. CASE Last(r, Len(log)) # value
  <2> DEFINE G == [x \in Reqs \cup Runs |->
                     IF x = r THEN value
                     ELSE Rows(Approved(r, value), "approve")[x]]
  <2>1. GrantRows(r, value) = G
      BY <1>2 DEF GrantRows
  <2>2. /\ Rows(Approved(r, value), "approve") \in Entry
        /\ \A x \in Things : Rows(Approved(r, value), "approve")[x]
                = IF x \in Approved(r, value) THEN "approve" ELSE "-"
      BY RowsAreEntry DEF Words
  <2>3. G \in Entry
      BY <2>2 DEF Entry, Things
  <2>4. \A q \in Reqs : G[q] # "-" => q \in Approved(r, value) /\ G[q] = "approve"
      BY <2>2 DEF Things
  <2>5. \A a \in Runs : G[a] # "-" => a = r /\ G[a] = value
      BY <2>2 DEF Things, Approved
  <2> QED
      BY <2>1, <2>3, <2>4, <2>5 DEF Approved
<1> QED
    BY <1>1, <1>2

\* What a decision writes, with its grant or alone.
Decision(s) ==
    [(IF surf[s].grant THEN GrantRows(RunOf[surf[s].of], "on")
      ELSE Rows({}, "-"))
     EXCEPT ![surf[s].of] = IF Takes(surf[s].of) THEN surf[s].word ELSE "-"]

\* A transaction is one entry more, or none.
LEMMA Commits ==
    ASSUME log \in Seq(Entry), NEW e \in Entry, Commit(e)
    PROVE  /\ log' \in Seq(Entry)
           /\ Len(log) \in Nat /\ Len(log') \in Nat /\ Len(log) <= Len(log')
           /\ 0..Len(log) \subseteq 0..Len(log')
           /\ \A i \in 1..Len(log) : log'[i] = log[i]
           /\ \A i \in (Len(log) + 1)..Len(log') : log'[i] = e
           /\ \A x \in Things :
                 /\ \A n \in 0..Len(log) : LastIn(log', x, n) = LastIn(log, x, n)
                 /\ LastIn(log', x, Len(log'))
                      = IF e[x] = "-" THEN LastIn(log, x, Len(log)) ELSE e[x]
                 /\ e[x] # "-" => Len(log') = Len(log) + 1
<1>1. CASE e = Rows({}, "-") /\ log' = log
    BY <1>1, RowsAreEntry
<1>2. CASE log' = Append(log, e)
  <2>1. /\ log' \in Seq(Entry) /\ Len(log') = Len(log) + 1
        /\ log'[Len(log) + 1] = e /\ \A i \in 1..Len(log) : log'[i] = log[i]
      BY <1>2, LastOfAppend
  <2>2. \A x \in Things :
          /\ \A n \in 0..Len(log) : LastIn(log', x, n) = LastIn(log, x, n)
          /\ LastIn(log', x, Len(log'))
               = IF e[x] = "-" THEN LastIn(log, x, Len(log)) ELSE e[x]
      BY <1>2, <2>1, LastOfAppend
  <2>3. Len(log) \in Nat
      OBVIOUS
  <2> QED
      BY <2>1, <2>2, <2>3
<1> QED
    BY <1>1, <1>2 DEF Commit

-----------------------------------------------------------------------------
(* What a step commits *)

\* It decides open requests only, and a grant approves all that it reaches.
Deciding(e) ==
    /\ \A q \in Reqs : e[q] # "-" => IsOpen(q) /\ e[q] \in Words
    /\ \A a \in Runs : e[a] # "-" =>
          /\ e[a] \in {"on", "off"}
          /\ e[a] = "on" =>
                \A q \in Reqs : kind[q] = "tool" /\ IsOpen(q) /\ Reaches(a, q)
                                => e[q] \in Words

\* It opens, or answers, one request.
Opening(q) == Open(q) \/ Post(q) \/ Rejoin(q)

\* A set of open requests, one word.
LEMMA RowsDecide ==
    ASSUME NEW S \in SUBSET Reqs, NEW word \in Words, \A q \in S : IsOpen(q)
    PROVE  Rows(S, word) \in Entry /\ Deciding(Rows(S, word))
<1>1. /\ Rows(S, word) \in Entry
      /\ \A x \in Things : Rows(S, word)[x] = IF x \in S THEN word ELSE "-"
    BY RowsAreEntry
<1> QED
    BY <1>1 DEF Deciding, Things, Words

\* No rows at all.
LEMMA NoRowsDecide ==
    Rows({}, "-") \in Entry /\ Deciding(Rows({}, "-"))
    /\ \A x \in Things : Rows({}, "-")[x] = "-"
<1>1. /\ Rows({}, "-") \in Entry
      /\ \A x \in Things : Rows({}, "-")[x] = "-"
    BY RowsAreEntry
<1> QED
    BY <1>1 DEF Deciding, Things

\* A grant's rows.
LEMMA GrantDecides ==
    ASSUME NEW r \in Runs, NEW value \in {"on", "off"}
    PROVE  /\ GrantRows(r, value) \in Entry
           /\ Deciding(GrantRows(r, value))
           /\ \A a \in Runs : GrantRows(r, value)[a] # "-" =>
                  a = r /\ GrantRows(r, value)[a] = value
           /\ GrantRows(r, value)[r] = "-" => Last(r, Len(log)) = value
<1>1. /\ GrantRows(r, value) \in Entry
      /\ \A q \in Reqs : GrantRows(r, value)[q] # "-" =>
             IsOpen(q) /\ GrantRows(r, value)[q] \in Words
      /\ \A a \in Runs : GrantRows(r, value)[a] # "-" =>
             a = r /\ GrantRows(r, value)[a] = value
    BY GrantIsEntry DEF Words
<1>2. ASSUME NEW q \in Reqs, GrantRows(r, value)[r] = "on", kind[q] = "tool",
             IsOpen(q), Reaches(r, q)
      PROVE  GrantRows(r, value)[q] \in Words
  <2>1. Last(r, Len(log)) # value
      BY <1>2, NoRowsDecide DEF GrantRows, Things
  <2>2. value = "on"
      BY <1>1, <1>2
  <2>3. q \in Approved(r, value)
      BY <1>2, <2>2 DEF Approved
  <2>4. GrantRows(r, value)[q] = Rows(Approved(r, value), "approve")[q]
      BY <2>1 DEF GrantRows
  <2> QED
      BY <2>3, <2>4 DEF Rows, Words
<1>3. GrantRows(r, value)[r] = "-" => Last(r, Len(log)) = value
    BY DEF GrantRows
<1> QED
    BY <1>1, <1>2, <1>3 DEF Deciding

\* A surface's rows.
LEMMA DecisionDecides ==
    ASSUME TypeOK, NEW s \in Surfaces, surf[s].of \in Reqs
    PROVE  /\ Decision(s) \in Entry /\ Deciding(Decision(s))
           /\ Decision(s)[surf[s].of] = IF IsOpen(surf[s].of) THEN surf[s].word
                                        ELSE "-"
<1> DEFINE q == surf[s].of
           g == IF surf[s].grant THEN GrantRows(RunOf[q], "on")
                ELSE Rows({}, "-")
           word == IF Takes(q) THEN surf[s].word ELSE "-"
<1>1. q \in Reqs /\ RunOf[q] \in Runs /\ surf[s].word \in Words
    BY DEF TypeOK, Deciders
<1>2. g \in Entry /\ Deciding(g)
    BY <1>1, GrantDecides, NoRowsDecide
<1>3. word \in {"-"} \cup Words /\ (word # "-" => IsOpen(q))
      /\ word = (IF IsOpen(q) THEN surf[s].word ELSE "-")
    BY <1>1 DEF Takes
<1>4. Decision(s) = [g EXCEPT ![q] = word]
    BY DEF Decision
<1> HIDE DEF g, word
<1>5. /\ Decision(s) \in Entry /\ Decision(s)[q] = word
      /\ \A x \in Things \ {q} : Decision(s)[x] = g[x]
    BY <1>1, <1>2, <1>3, <1>4 DEF Entry, Things
<1>6. \A p \in Reqs : Decision(s)[p] # "-" =>
        IsOpen(p) /\ Decision(s)[p] \in Words
    BY <1>2, <1>3, <1>5 DEF Deciding, Things
<1>7. \A a \in Runs : Decision(s)[a] = g[a]
    BY <1>1, <1>5 DEF Things
<1>8. \A p \in Reqs : IsOpen(p) /\ g[p] \in Words => Decision(s)[p] \in Words
    BY <1>1, <1>3, <1>5 DEF Things
<1> QED
    BY <1>2, <1>3, <1>5, <1>6, <1>7, <1>8 DEF Deciding

\* A surface and a change at work have what they are about.
Targeted ==
    /\ \A s \in Surfaces : surf[s].at # "idle" => surf[s].of \in Reqs
    /\ change.at # "idle" => change.run \in Runs

\* Every step opens or answers one request, or decides open ones.
LEMMA Moves ==
    ASSUME TypeOK, Targeted, [Next]_vars
    PROVE  \/ \E e \in Entry : Commit(e) /\ Deciding(e)
           \/ \E q \in Reqs : Opening(q)
<1> DEFINE Goal == \/ \E e \in Entry : Commit(e) /\ Deciding(e)
                   \/ \E q \in Reqs : Opening(q)
<1>0. log' = log => Goal
    BY NoRowsDecide DEF Commit
<1>1. ASSUME NEW q \in Reqs, Retire(q) PROVE Goal
  <2>1. Commit(Rows(IF Takes(q) THEN {q} ELSE {}, "cancel"))
      BY <1>1 DEF Retire
  <2> QED
      BY <2>1, RowsDecide DEF Takes, Words
<1>2. ASSUME WriteChange PROVE Goal
  <2>1. change.run \in Runs /\ change.value \in {"on", "off"}
      BY <1>2 DEF WriteChange, Targeted, TypeOK, Changes
  <2> QED
      BY <1>2, <2>1, GrantDecides DEF WriteChange
<1>3. ASSUME NEW s \in Surfaces, Write(s) PROVE Goal
  <2>1. surf[s].of \in Reqs /\ Commit(Decision(s))
      BY <1>3 DEF Write, Decision, Targeted
  <2> QED
      BY <2>1, DecisionDecides
<1>4. ASSUME NEW r \in Runs, End(r) PROVE Goal
  <2>1. Commit(Rows(OpenOf(r), "cancel"))
      BY <1>4 DEF End
  <2> QED
      BY <2>1, RowsDecide DEF OpenOf, Words
<1>5. ASSUME NEW r \in Runs, Resume(r) PROVE Goal
  <2>1. PICK unbound \in SUBSET {q \in OpenOf(r) : Blocking(q)} :
          Commit(Rows(unbound, "cancel"))
      BY <1>5 DEF Resume
  <2> QED
      BY <2>1, RowsDecide DEF OpenOf, Words
<1>6. ASSUME NEW q \in Reqs, Opening(q) PROVE Goal
    BY <1>6
<1> SUFFICES Goal
    OBVIOUS
<1> HIDE DEF Goal
<1>7. CASE UNCHANGED vars
    BY <1>0, <1>7 DEF vars
<1>8. CASE Next
  <2>1. ASSUME NEW q \in Reqs
        PROVE  /\ \A k \in {"tool", "plan"} : Read(q, k) => Goal
               /\ Opened(q) \/ Hear(q) \/ Reenter(q) \/ StartResume(RunOf[q])
                  => Goal
      BY <1>0 DEF Read, Opened, Hear, Reenter, StartResume
  <2>2. ASSUME NEW r \in Runs, NEW v \in {"on", "off"}, Change(r, v)
        PROVE  Goal
      BY <1>0, <2>2 DEF Change
  <2>3. ChangeReturns \/ Fold \/ Crash => Goal
      BY <1>0 DEF ChangeReturns, Fold, Crash
  <2>4. ASSUME NEW s \in Surfaces
        PROVE  /\ Enter(s) \/ Record(s) \/ Answered(s) => Goal
               /\ \A q \in Reqs, w \in {"approve", "deny"}, g \in BOOLEAN :
                      Issue(s, q, w, g) => Goal
      BY <1>0 DEF Enter, Record, Answered, Issue
  <2> QED
      BY <1>1, <1>2, <1>3, <1>4, <1>5, <1>6, <1>8, <2>1, <2>2, <2>3, <2>4
      DEF Next, AskStep, EndStep, SurfaceStep, Opening
<1> QED
    BY <1>7, <1>8

\* What the opening, or the answering, of one request commits.
LEMMA Opens ==
    ASSUME TypeOK, NEW q \in Reqs, Opening(q)
    PROVE  \E e \in Entry : /\ Commit(e)
                            /\ \A x \in Things \ {q} : e[x] = "-"
                            /\ e[q] \in {"-", "open"} \cup Words
                            /\ Open(q) => e[q] = IF ask[q].word = "none" THEN "open"
                                                 ELSE ask[q].word
                            /\ Post(q) => e[q] = "open"
                            /\ Rejoin(q) => e[q] = IF ask[q].word = "none" THEN "-"
                                                   ELSE ask[q].word
<1> DEFINE Goal(w) == /\ Rows({q}, w) \in Entry
                      /\ \A x \in Things \ {q} : Rows({q}, w)[x] = "-"
                      /\ Rows({q}, w)[q] = w
<1>0. ASSUME NEW w \in {"-", "open"} \cup Words PROVE Goal(w)
  <2>1. /\ Rows({q}, w) \in Entry
        /\ \A x \in Things : Rows({q}, w)[x] = IF x \in {q} THEN w ELSE "-"
      BY RowsAreEntry
  <2> QED
      BY <2>1 DEF Things
<1>1. ask[q].word \in Words \cup {"none"}
    BY DEF TypeOK, Askers
<1>2. CASE Open(q)
  <2>1. Commit(Rows({q}, IF ask[q].word = "none" THEN "open" ELSE ask[q].word))
        /\ ~Post(q) /\ ~Rejoin(q)
      BY <1>2 DEF Open, Post, Rejoin
  <2> QED
      BY <1>0, <1>1, <2>1
<1>3. CASE Post(q)
  <2>1. Commit(Rows({q}, "open")) /\ ~Open(q) /\ ~Rejoin(q)
      BY <1>3 DEF Open, Post, Rejoin
  <2> QED
      BY <1>0, <2>1
<1>4. CASE Rejoin(q) /\ ask[q].word # "none"
  <2>1. Commit(Rows({q}, ask[q].word)) /\ ~Post(q) /\ ~Open(q)
      BY <1>4 DEF Open, Post, Rejoin
  <2> QED
      BY <1>0, <1>1, <1>4, <2>1
<1>5. CASE Rejoin(q) /\ ask[q].word = "none"
  <2>1. log' = log /\ ~Post(q) /\ ~Open(q)
      BY <1>5 DEF Open, Post, Rejoin
  <2>2. Commit(Rows({}, "-"))
      BY <2>1 DEF Commit
  <2> QED
      BY <1>5, <2>1, <2>2, NoRowsDecide DEF Things
<1> QED
    BY <1>2, <1>3, <1>4, <1>5 DEF Opening

\* Whatever the step, the log gains an entry or stays.
LEMMA Grows ==
    ASSUME TypeOK, Targeted, [Next]_vars
    PROVE  \E e \in Entry : Commit(e)
BY Moves, Opens

\* What is held of a log is held of a longer one.
LEMMA Held ==
    ASSUME NEW n \in Nat, NEW m \in Nat, n <= m
    PROVE  /\ 0..n \subseteq 0..m
           /\ Askers(n) \subseteq Askers(m) /\ Deciders(n) \subseteq Deciders(m)
           /\ Changes(n) \subseteq Changes(m)
<1>1. 0..n \subseteq 0..m
    OBVIOUS
<1> QED
    BY <1>1 DEF Askers, Deciders, Changes

Ats == {"none", "read", "opened", "waiting", "standing", "reread",
        "answered", "gone"}

\* An asker that moves, and may hear a word or read on from elsewhere.
LEMMA AskerMoves ==
    ASSUME NEW n, NEW a \in Askers(n), NEW at \in Ats,
           NEW word \in Words \cup {"none"}, NEW i \in 0..n
    PROVE  /\ [a EXCEPT !.at = at] \in Askers(n)
           /\ [a EXCEPT !.at = at, !.word = word, !.seen = i] \in Askers(n)
           /\ [a EXCEPT !.at = at, !.word = word] \in Askers(n)
           /\ [a EXCEPT !.at = at, !.from = i] \in Askers(n)
           /\ [a EXCEPT !.from = i] \in Askers(n)
BY DEF Askers, Ats

\* The types hold of every step's outcome, and a step keeps what a surface
\* and a change are about.
LEMMA TypeStep ==
    ASSUME TypeOK, Targeted, [Next]_vars
    PROVE  TypeOK' /\ Targeted'
<1>1. PICK e \in Entry : Commit(e)
    BY Grows
<1>2. /\ log' \in Seq(Entry) /\ Len(log) \in Nat /\ Len(log') \in Nat
      /\ Len(log) <= Len(log')
    BY <1>1, Commits DEF TypeOK
<1> DEFINE n == Len(log')
<1>3. /\ 0..Len(log) \subseteq 0..n /\ Askers(Len(log)) \subseteq Askers(n)
      /\ Deciders(Len(log)) \subseteq Deciders(n)
      /\ Changes(Len(log)) \subseteq Changes(n)
    BY <1>2, Held
<1>a. ask \in [Reqs -> Askers(n)]
    BY <1>3 DEF TypeOK
<1>s. surf \in [Surfaces -> Deciders(n)]
    BY <1>3 DEF TypeOK
<1>c. change \in Changes(n)
    BY <1>3 DEF TypeOK
<1>v. view \in 0..n /\ Len(log) \in 0..n /\ n \in 0..n /\ 0 \in 0..n
    BY <1>2, <1>3 DEF TypeOK
<1> HIDE DEF n
<1>4. ASSUME kind' = kind, ask' = ask, run' = run, side' = side,
             crashes' = crashes, view' = view,
             surf' \in [Surfaces -> Deciders(n)],
             change' \in Changes(n)
      PROVE  TypeOK'
    BY <1>2, <1>a, <1>v, <1>4 DEF TypeOK, n
<1>5. ASSUME surf' = surf, change' = change
      PROVE  Targeted'
    BY <1>5 DEF Targeted
<1>6. ASSUME surf' = surf, change' = change, side' = side, crashes' = crashes,
             view' = view, kind' \in [Reqs -> {"none", "tool", "plan", "plugin"}],
             ask' \in [Reqs -> Askers(n)],
             run' \in [Runs -> {"up", "down", "opening", "ended"}]
      PROVE  TypeOK' /\ Targeted'
    BY <1>2, <1>v, <1>s, <1>c, <1>5, <1>6 DEF TypeOK, n
<1>8. kind \in [Reqs -> {"none", "tool", "plan", "plugin"}]
      /\ run \in [Runs -> {"up", "down", "opening", "ended"}]
    BY DEF TypeOK
<1> DEFINE Goal == TypeOK' /\ Targeted'
<1> SUFFICES Goal
    OBVIOUS
<1> HIDE DEF Goal

<1>10. ASSUME NEW q \in Reqs, NEW k \in {"tool", "plan"}, Read(q, k)
       PROVE  Goal
  <2>1. PICK word \in Answers(q, k) :
          ask' = [ask EXCEPT ![q] = [@ EXCEPT !.at = "read", !.word = word,
                                              !.seen = view]]
      BY <1>10 DEF Read
  <2>2. word \in Words \cup {"none"}
      BY DEF Answers, Words
  <2>4. [ask[q] EXCEPT !.at = "read", !.word = word, !.seen = view] \in Askers(n)
      BY <1>a, <1>v, <2>2, AskerMoves DEF Ats
  <2>3. ask' \in [Reqs -> Askers(n)]
      BY <1>a, <2>1, <2>4
  <2> QED
      BY <1>6, <1>8, <1>10, <2>3 DEF Read, Goal
<1>11. ASSUME NEW q \in Reqs, Open(q) PROVE Goal
  <2>2. [ask[q] EXCEPT !.at = "opened", !.from = Len(log)] \in Askers(n)
      BY <1>a, <1>v, AskerMoves DEF Ats
  <2>1. ask' \in [Reqs -> Askers(n)]
      BY <1>a, <1>11, <2>2 DEF Open
  <2> QED
      BY <1>6, <1>8, <1>11, <2>1 DEF Open, Goal
<1>12. ASSUME NEW q \in Reqs, Opened(q) PROVE Goal
  <2>2. PICK at \in Ats : ask' = [ask EXCEPT ![q] =
                               [@ EXCEPT !.at = at, !.from = ask[q].from]]
      BY <1>12 DEF Opened, From, Ats
  <2>3. ask[q] \in Askers(n) /\ ask[q].from \in 0..n
      BY <1>a DEF Askers
  <2>4. [ask[q] EXCEPT !.at = at, !.from = ask[q].from] \in Askers(n)
      BY <2>3, AskerMoves
  <2>1. ask' \in [Reqs -> Askers(n)]
      BY <1>a, <2>2, <2>4
  <2> QED
      BY <1>6, <1>8, <1>12, <2>1 DEF Opened, Goal
<1>13. ASSUME NEW q \in Reqs, Post(q) PROVE Goal
  <2>2. [ask[q] EXCEPT !.at = "gone"] \in Askers(n)
      BY <1>a, <1>v, AskerMoves DEF Ats
  <2>1. ask' \in [Reqs -> Askers(n)]
      BY <1>a, <1>13, <2>2 DEF Post
  <2> QED
      BY <1>6, <1>8, <1>13, <2>1 DEF Post, Goal
<1>14. ASSUME NEW q \in Reqs, Hear(q) PROVE Goal
  <2>1. Heard(q) \in SUBSET Nat /\ Heard(q) # {}
      BY <1>14 DEF Hear, Heard, TypeOK, Askers
  <2>2. Min(Heard(q)) \in Heard(q)
      BY <2>1, Least
  <2>3. log[Min(Heard(q))][q] \in Words
      BY <2>2 DEF Heard
  <2>5. [ask[q] EXCEPT !.at = "answered", !.word = log[Min(Heard(q))][q]]
          \in Askers(n)
      BY <1>a, <1>v, <2>3, AskerMoves DEF Ats
  <2>4. ask' \in [Reqs -> Askers(n)]
      BY <1>a, <1>14, <2>5 DEF Hear
  <2> QED
      BY <1>6, <1>8, <1>14, <2>4 DEF Hear, Goal
<1>15. ASSUME NEW q \in Reqs, Reenter(q) PROVE Goal
  <2> DEFINE recorded == Last(q, ask[q].from)
  <2>1. \E at \in Ats, word \in Words \cup {"none"} :
          ask' = [ask EXCEPT ![q] = [@ EXCEPT !.at = at, !.word = word]]
    <3>1. CASE recorded \in Words
        BY <1>15, <3>1 DEF Reenter, Ats
    <3>2. CASE recorded \notin Words
      <4>1. PICK word \in Answers(q, kind[q]) :
              ask' = [ask EXCEPT ![q] = [@ EXCEPT !.at = "reread", !.word = word]]
          BY <1>15, <3>2 DEF Reenter
      <4>2. word \in Words \cup {"none"}
          BY DEF Answers, Words
      <4> QED
          BY <4>1, <4>2 DEF Ats
    <3> QED
        BY <3>1, <3>2
  <2>3. PICK at \in Ats, word \in Words \cup {"none"} :
          ask' = [ask EXCEPT ![q] = [@ EXCEPT !.at = at, !.word = word]]
      BY <2>1
  <2>4. [ask[q] EXCEPT !.at = at, !.word = word] \in Askers(n)
      BY <1>a, <1>v, AskerMoves
  <2>2. ask' \in [Reqs -> Askers(n)]
      BY <1>a, <2>3, <2>4
  <2> QED
      BY <1>6, <1>8, <1>15, <2>2 DEF Reenter, Goal
<1>16. ASSUME NEW q \in Reqs, Rejoin(q) PROVE Goal
  <2>2. ask[q] \in Askers(n) /\ ask[q].from \in 0..n
      BY <1>a DEF Askers
  <2>3. /\ [ask[q] EXCEPT !.at = "waiting", !.from = ask[q].from] \in Askers(n)
        /\ [ask[q] EXCEPT !.at = "answered"] \in Askers(n)
      BY <2>2, AskerMoves DEF Ats
  <2>4. \/ ask' = [ask EXCEPT ![q] = [@ EXCEPT !.at = "waiting",
                                                !.from = ask[q].from]]
        \/ ask' = [ask EXCEPT ![q] = [@ EXCEPT !.at = "answered"]]
      BY <1>16 DEF Rejoin, From
  <2>1. ask' \in [Reqs -> Askers(n)]
      BY <1>a, <2>3, <2>4
  <2> QED
      BY <1>6, <1>8, <1>16, <2>1 DEF Rejoin, Goal
<1>17. ASSUME NEW q \in Reqs, Retire(q) PROVE Goal
  <2>2. [ask[q] EXCEPT !.at = "gone"] \in Askers(n)
      BY <1>a, <1>v, AskerMoves DEF Ats
  <2>1. ask' \in [Reqs -> Askers(n)]
      BY <1>a, <1>17, <2>2 DEF Retire
  <2> QED
      BY <1>6, <1>8, <1>17, <2>1 DEF Retire, Goal

<1>20. ASSUME NEW r \in Runs, NEW value \in {"on", "off"}, Change(r, value)
       PROVE  Goal
  <2> DEFINE S == {change.to} \cup
                  {surf[s].to : s \in {t \in Surfaces : surf[t].at = "told"}}
  <2>1. S \in SUBSET (0..Len(log)) /\ S # {} /\ Len(log) \in Nat
      BY <1>2 DEF TypeOK, Deciders, Changes
  <2>2. Max(S) \in 0..Len(log)
      BY <2>1, Greatest
  <2>3. Returned \in 0..n
      BY <1>3, <2>2 DEF Returned
  <2> DEFINE k == change.count + 1
             at == IF Last(r, view) = value THEN "returned" ELSE "writing"
             x == [change EXCEPT !.at = at, !.run = r, !.value = value,
                                 !.since = Returned, !.count = k]
  <2>6. k \in Nat /\ at \in {"returned", "writing"} /\ change' = x
      BY <1>20 DEF Change, TypeOK, Changes
  <2> HIDE DEF k, at
  <2>4. change' \in Changes(n) /\ change'.run = r
      BY <1>c, <1>v, <2>3, <2>6 DEF Changes
  <2>5. TypeOK'
      BY <1>s, <1>4, <1>20, <2>4 DEF Change
  <2> QED
      BY <1>20, <2>4, <2>5 DEF Change, Targeted, Goal
<1>21. ASSUME WriteChange PROVE Goal
  <2>3. PICK i \in 0..n : change' = [change EXCEPT !.at = "settling", !.to = i]
      BY <1>v, <1>21 DEF WriteChange, n
  <2>1. change' \in Changes(n) /\ change'.run = change.run
      BY <1>c, <2>3 DEF Changes
  <2>2. TypeOK'
      BY <1>s, <1>4, <1>21, <2>1 DEF WriteChange
  <2> QED
      BY <1>21, <2>1, <2>2 DEF WriteChange, Targeted, Goal
<1>22. ASSUME ChangeReturns PROVE Goal
  <2>1. change' \in Changes(n) /\ change'.run = change.run
      BY <1>c, <1>v, <1>22 DEF ChangeReturns, Changes
  <2>2. TypeOK'
      BY <1>s, <1>4, <1>22, <2>1 DEF ChangeReturns
  <2> QED
      BY <1>22, <2>1, <2>2 DEF ChangeReturns, Targeted, Goal

<1>30. ASSUME NEW s \in Surfaces, NEW q \in Reqs, NEW w \in {"approve", "deny"},
              NEW g \in BOOLEAN, Issue(s, q, w, g)
       PROVE  Goal
  <2> DEFINE h == run[RunOf[q]] \in {"up", "opening"}
             x == [surf[s] EXCEPT !.at = "queued", !.of = q, !.word = w,
                                  !.grant = g, !.held = h]
  <2>0. h \in BOOLEAN /\ surf' = [surf EXCEPT ![s] = x]
      BY <1>30 DEF Issue
  <2> HIDE DEF h
  <2>4. x \in Deciders(n)
      BY <1>s, <2>0 DEF Deciders, Words
  <2>1. surf' \in [Surfaces -> Deciders(n)]
      BY <1>s, <1>v, <2>0, <2>4
  <2>2. TypeOK'
      BY <1>c, <1>4, <1>30, <2>1 DEF Issue
  <2> QED
      BY <1>s, <1>30, <2>2 DEF Issue, Targeted, Goal
<1>31. ASSUME NEW s \in Surfaces, Enter(s) \/ Answered(s) PROVE Goal
  <2>1. PICK at \in {"told", "writing", "recording"} :
          surf' = [surf EXCEPT ![s].at = at]
      BY <1>31 DEF Enter, Answered
  <2>2. surf' \in [Surfaces -> Deciders(n)]
      BY <1>s, <1>v, <2>1, SMTT(20) DEF Deciders
  <2>3. TypeOK'
      BY <1>c, <1>4, <1>31, <2>2 DEF Enter, Answered
  <2>4. surf[s].at # "idle" /\ change' = change
      BY <1>31 DEF Enter, Answered
  <2> QED
      BY <1>s, <2>1, <2>3, <2>4 DEF Targeted, Goal
<1>32. ASSUME NEW s \in Surfaces, Record(s) PROVE Goal
  <2>1. surf' \in [Surfaces -> Deciders(n)]
      BY <1>s, <1>v, <1>32 DEF Record, Deciders
  <2>2. side' \in [Reqs -> Words \cup {"none"}]
      BY <1>32 DEF Record, TypeOK, Deciders
  <2>3. TypeOK'
      BY <1>2, <1>a, <1>c, <1>v, <1>32, <2>1, <2>2 DEF Record, TypeOK, n
  <2> QED
      BY <1>s, <1>32, <2>3 DEF Record, Targeted, Goal
<1>33. ASSUME NEW s \in Surfaces, Write(s) PROVE Goal
  <2>1. surf' = [surf EXCEPT ![s] =
                    [@ EXCEPT !.at = "settling",
                              !.to = IF log' = log THEN 0 ELSE Len(log')]]
        /\ surf[s].at = "writing"
      BY <1>33 DEF Write
  <2>2. surf' \in [Surfaces -> Deciders(n)]
    <3>1. PICK i \in 0..n : surf' = [surf EXCEPT ![s] =
                                [@ EXCEPT !.at = "settling", !.to = i]]
        BY <1>v, <2>1 DEF n
    <3>2. [surf[s] EXCEPT !.at = "settling", !.to = i] \in Deciders(n)
        BY <1>s DEF Deciders
    <3> QED
        BY <1>s, <3>1, <3>2
  <2>3. TypeOK'
      BY <1>c, <1>4, <1>33, <2>2 DEF Write
  <2>4. change' = change
      BY <1>33 DEF Write
  <2> QED
      BY <1>s, <2>1, <2>3, <2>4 DEF Targeted, Goal

<1>40. ASSUME Fold PROVE Goal
  <2>1. view' \in 0..Len(log')
      BY <1>v, <1>40 DEF Fold, TypeOK, n
  <2> QED
      BY <1>2, <1>a, <1>s, <1>c, <1>5, <1>40, <2>1 DEF Fold, TypeOK, Goal, n
<1>41. ASSUME NEW r \in Runs, End(r) PROVE Goal
  <2>1. ask' \in [Reqs -> Askers(n)]
      BY <1>a, <1>v, <1>41 DEF End, Left, Askers
  <2> QED
      BY <1>6, <1>8, <1>41, <2>1 DEF End, Goal
<1>42. ASSUME Crash PROVE Goal
  <2>1. ask' \in [Reqs -> Askers(n)]
    <3>1. \A q \in Reqs : \E at \in Ats : ask'[q] = [ask[q] EXCEPT !.at = at]
      <4> TAKE q \in Reqs
      <4>1. ask[q] = [ask[q] EXCEPT !.at = ask[q].at] /\ ask[q].at \in Ats
          BY <1>a DEF Askers, Ats
      <4> QED
          BY <1>42, <4>1 DEF Crash, Ats
    <3>2. \A q \in Reqs : ask'[q] \in Askers(n)
      <4> TAKE q \in Reqs
      <4>1. PICK at \in Ats : ask'[q] = [ask[q] EXCEPT !.at = at]
          BY <3>1
      <4>2. [ask[q] EXCEPT !.at = at] \in Askers(n)
          BY <1>a, <1>v, AskerMoves
      <4> QED
          BY <4>1, <4>2
    <3>3. ask' = [q \in Reqs |-> ask'[q]]
        BY <1>42 DEF Crash
    <3> QED
        BY <3>2, <3>3
  <2>2. surf' \in [Surfaces -> Deciders(n)]
      BY <1>s, <1>v, <1>42 DEF Crash, Quiet, Deciders, Words
  <2>3. change' \in Changes(n) /\ change'.at = "idle"
      BY <1>c, <1>v, <1>42 DEF Crash, Changes
  <2>4. run' \in [Runs -> {"up", "down", "opening", "ended"}]
      BY <1>8, <1>42 DEF Crash
  <2>5. TypeOK'
    <3>1. view' \in 0..Len(log') /\ crashes' \in Nat
        BY <1>v, <1>42 DEF Crash, TypeOK, n
    <3>2. kind' = kind /\ side' = side
        BY <1>42 DEF Crash
    <3> QED
        BY <1>2, <2>1, <2>2, <2>3, <2>4, <3>1, <3>2 DEF TypeOK, n
  <2>6. \A s \in Surfaces : surf'[s].at # "idle" => surf'[s] = surf[s]
      BY <1>42 DEF Crash, Quiet
  <2> QED
      BY <2>3, <2>5, <2>6 DEF Targeted, Goal
<1>43. ASSUME NEW r \in Runs, StartResume(r) PROVE Goal
    BY <1>a, <1>6, <1>8, <1>43 DEF StartResume, Goal
<1>44. ASSUME NEW r \in Runs, Resume(r) PROVE Goal
  <2>1. ask' \in [Reqs -> Askers(n)]
    <3>1. PICK unbound : ask' = [q \in Reqs |->
                      IF q \in unbound THEN [ask[q] EXCEPT !.at = "gone"]
                      ELSE IF RunOf[q] = r /\ ask[q].at = "standing"
                      THEN [ask[q] EXCEPT !.from = n] ELSE ask[q]]
        BY <1>44 DEF Resume, n
    <3>2. \A q \in Reqs : /\ [ask[q] EXCEPT !.at = "gone"] \in Askers(n)
                          /\ [ask[q] EXCEPT !.from = n] \in Askers(n)
                          /\ ask[q] \in Askers(n)
        BY <1>a, <1>v, AskerMoves DEF Ats
    <3> QED
        BY <3>1, <3>2
  <2> QED
      BY <1>6, <1>8, <1>44, <2>1 DEF Resume, Goal
<1>50. CASE UNCHANGED vars
    BY <1>a, <1>6, <1>8, <1>50 DEF vars, Goal
<1> QED
    BY <1>10, <1>11, <1>12, <1>13, <1>14, <1>15, <1>16, <1>17, <1>20, <1>21,
       <1>22, <1>30, <1>31, <1>32, <1>33, <1>40, <1>41, <1>42, <1>43, <1>44,
       <1>50
    DEF Next, AskStep, EndStep, SurfaceStep

-----------------------------------------------------------------------------
(* What an asker knows of its request *)

\* Nothing is told of a request not opened; the log an asker reads holds no
\* decision before where it reads from, and one word after; and an answer is
\* the log's.
Knows(q) ==
    LET st == LastIn(log, q, Len(log))
        before == LastIn(log, q, ask[q].from)
    IN  /\ ask[q].at \in {"none", "read"} => st = "-"
        /\ ask[q].at \in {"opened", "waiting", "reread"} => before \notin Words
        /\ ask[q].at = "opened" /\ ask[q].word # "none" => st = ask[q].word
        /\ ask[q].at = "standing" /\ before \in Words => st = before
        /\ ask[q].at \in {"opened", "waiting", "standing", "reread"} =>
              \A i \in (ask[q].from + 1)..Len(log) :
                  log[i][q] \in Words => log[i][q] = st
        /\ ask[q].at = "answered" => st = ask[q].word

\* An asker that does not move by itself: it stays, its run or its process
\* goes, or a resume reads the log for it.
Stays(q) ==
    /\ ask'[q].word = ask[q].word
    /\ \/ /\ ask'[q].from = ask[q].from
          /\ \/ ask'[q].at \in {ask[q].at, "gone"}
             \/ ask'[q].at = "none" /\ ask[q].at = "read"
             \/ /\ ask'[q].at = "standing"
                /\ ask[q].at \in {"opened", "waiting", "reread"}
       \/ /\ ask[q].at = "standing" /\ ask'[q].at = "standing"
          /\ ask'[q].from = Len(log')

\* A word decided is an open request's, so it stands: what an asker knows is
\* so whatever else is committed.
LEMMA KnowsStays ==
    ASSUME TypeOK, NEW q \in Reqs, Knows(q), Stays(q), NEW e \in Entry, Commit(e),
           e[q] # "-" => LastIn(log, q, Len(log)) = "open" /\ e[q] \in Words
    PROVE  Knows(q)'
<1> DEFINE st == LastIn(log, q, Len(log))
           m == Len(log')
           st1 == LastIn(log', q, m)
           f == ask[q].from
<1>1. /\ Len(log) \in Nat /\ m \in Nat /\ Len(log) <= m
      /\ \A i \in 1..Len(log) : log'[i] = log[i]
      /\ \A i \in (Len(log) + 1)..m : log'[i] = e
      /\ \A j \in 0..Len(log) : LastIn(log', q, j) = LastIn(log, q, j)
      /\ st1 = IF e[q] = "-" THEN st ELSE e[q]
    BY Commits DEF TypeOK, Things
<1>2. f \in 0..Len(log) /\ ask[q] \in Askers(Len(log))
    BY DEF TypeOK, Askers
<1>3. LastIn(log', q, f) = LastIn(log, q, f)
    BY <1>1, <1>2
<1>4. \/ e[q] = "-" /\ st1 = st
      \/ e[q] # "-" /\ e[q] \in Words /\ st = "open" /\ st1 = e[q]
  <2>1. CASE e[q] = "-"
      BY <1>1, <2>1
  <2>2. CASE e[q] # "-"
      BY <1>1, <2>2
  <2> QED
      BY <2>1, <2>2
<1>5. ASSUME ask[q].at \in {"opened", "waiting", "standing", "reread"}
      PROVE  \A i \in (f + 1)..m : log'[i][q] \in Words => log'[i][q] = st1
  <2> SUFFICES ASSUME NEW i \in (f + 1)..m, log'[i][q] \in Words
               PROVE  log'[i][q] = st1
      OBVIOUS
  <2>1. \A j \in (f + 1)..Len(log) : log[j][q] \in Words => log[j][q] = st
      BY <1>5 DEF Knows
  <2>2. CASE i \in (f + 1)..Len(log)
      BY <1>1, <1>2, <1>4, <2>1, <2>2 DEF Words
  <2>3. CASE i \in (Len(log) + 1)..m
      BY <1>1, <1>4, <2>3 DEF Words
  <2> QED
      BY <1>1, <1>2, <2>2, <2>3
<1>6. "-" \notin Words /\ "open" \notin Words /\ "none" \notin Words
    BY DEF Words
<1> HIDE DEF st, m, st1, f
<1>7. CASE ask'[q].from = ask[q].from /\ ask'[q].at = ask[q].at
  <2>1. LastIn(log', q, ask'[q].from) = LastIn(log, q, ask[q].from)
      BY <1>3, <1>7 DEF f
  <2>2. ask'[q].word = ask[q].word
      BY DEF Stays
  <2>3. CASE st1 = st
      BY <1>5, <1>7, <2>1, <2>2, <2>3 DEF Knows, st, m, st1, f
  <2>4. CASE st = "open" /\ st1 \in Words
    <3>1. ask[q].at \notin {"none", "read", "answered"}
        BY <1>2, <1>6, <2>4 DEF Knows, st, Askers
    <3>2. ~ (ask[q].at = "opened" /\ ask[q].word # "none")
        BY <1>2, <1>6, <2>4 DEF Knows, st, Askers
    <3>3. ~ (ask[q].at = "standing" /\ LastIn(log, q, ask[q].from) \in Words)
        BY <1>6, <2>4 DEF Knows, st
    <3> QED
        BY <1>5, <1>7, <2>1, <2>2, <3>1, <3>2, <3>3 DEF Knows, st1, m, f
  <2> QED
      BY <1>4, <2>3, <2>4
<1>8. CASE ask'[q].at = "gone"
    BY <1>8 DEF Knows
<1>9. CASE ask'[q].at = "none" /\ ask[q].at = "read"
    BY <1>4, <1>9 DEF Knows, st, st1, m
<1>10. CASE /\ ask'[q].from = ask[q].from /\ ask'[q].at = "standing"
            /\ ask[q].at \in {"opened", "waiting", "reread"}
  <2>1. LastIn(log', q, ask'[q].from) \notin Words
      BY <1>3, <1>10 DEF Knows, f
  <2> QED
      BY <1>5, <1>10, <2>1 DEF Knows, st1, m, f
<1>11. CASE ask'[q].at = "standing" /\ ask'[q].from = Len(log')
    BY <1>1, <1>11 DEF Knows, st1, m
<1> QED
    BY <1>7, <1>8, <1>9, <1>10, <1>11 DEF Stays

\* An asker's own steps.
Asks(q) ==
    \/ \E k \in {"tool", "plan"} : Read(q, k)
    \/ Open(q) \/ Opened(q) \/ Post(q) \/ Hear(q) \/ Reenter(q) \/ Rejoin(q)

\* Whatever is not an asker's own step leaves it, or ends it.
LEMMA Others ==
    ASSUME TypeOK, NEW q \in Reqs, [Next]_vars
    PROVE  Asks(q) \/ Stays(q)
<1>1. ASSUME ask' = ask PROVE Stays(q)
    BY <1>1 DEF Stays
<1>2. ASSUME NEW p \in Reqs, p # q, NEW a, ask' = [ask EXCEPT ![p] = a]
      PROVE  Stays(q)
  <2>1. ask'[q] = ask[q]
      BY <1>2 DEF TypeOK
  <2> QED
      BY <2>1 DEF Stays
<1>3. ASSUME ask' = [ask EXCEPT ![q].at = "gone"] PROVE Stays(q)
    BY <1>3 DEF Stays, TypeOK, Askers
<1>4. ASSUME NEW p \in Reqs, p # q,
             \/ \E k \in {"tool", "plan"} : Read(p, k)
             \/ Open(p) \/ Opened(p) \/ Post(p) \/ Hear(p) \/ Reenter(p)
             \/ Rejoin(p) \/ Retire(p)
      PROVE  Stays(q)
  <2>1. \E a : ask' = [ask EXCEPT ![p] = a]
      BY <1>4, Zenon DEF Read, Open, Opened, Post, Hear, Reenter, Rejoin, Retire
  <2> QED
      BY <1>2, <1>4, <2>1
<1>5. ASSUME NEW r \in Runs, End(r) PROVE Stays(q)
  <2>1. ask'[q] = ask[q] \/ ask'[q] = [ask[q] EXCEPT !.at = "gone"]
      BY <1>5 DEF End, Left
  <2> QED
      BY <2>1 DEF Stays, TypeOK, Askers
<1>6. ASSUME NEW r \in Runs, Resume(r) PROVE Stays(q)
  <2>1. \/ ask'[q] = ask[q] \/ ask'[q] = [ask[q] EXCEPT !.at = "gone"]
        \/ /\ ask'[q] = [ask[q] EXCEPT !.from = Len(log')]
           /\ ask[q].at = "standing"
      BY <1>6 DEF Resume
  <2> QED
      BY <2>1 DEF Stays, TypeOK, Askers
<1>7. ASSUME Crash PROVE Stays(q)
  <2>1. \/ ask'[q] = ask[q]
        \/ ask'[q] = [ask[q] EXCEPT !.at = "none"] /\ ask[q].at = "read"
        \/ /\ ask'[q] = [ask[q] EXCEPT !.at = "standing"]
           /\ ask[q].at \in {"opened", "waiting", "reread"}
      BY <1>7 DEF Crash
  <2> QED
      BY <2>1 DEF Stays, TypeOK, Askers
<1>8. ASSUME Retire(q) PROVE Stays(q)
    BY <1>3, <1>8 DEF Retire
<1>9. ASSUME \/ WriteChange \/ ChangeReturns \/ Fold
             \/ \E r \in Runs, v \in {"on", "off"} : Change(r, v)
             \/ \E r \in Runs : StartResume(r)
             \/ \E s \in Surfaces : SurfaceStep(s)
             \/ \E s \in Surfaces, p \in Reqs, w \in {"approve", "deny"},
                   g \in BOOLEAN : Issue(s, p, w, g)
      PROVE  Stays(q)
  <2>1. ask' = ask
      BY <1>9 DEF WriteChange, ChangeReturns, Fold, Change, StartResume,
                  SurfaceStep, Enter, Record, Write, Answered, Issue
  <2> QED
      BY <1>1, <2>1
<1>10. CASE UNCHANGED vars
    BY <1>1, <1>10 DEF vars
<1> QED
    BY <1>4, <1>5, <1>6, <1>7, <1>8, <1>9, <1>10
    DEF Next, AskStep, EndStep, Asks

\* An asker's knowledge is kept by its own steps.
LEMMA KnowsAsks ==
    ASSUME TypeOK, NEW q \in Reqs, Knows(q), Asks(q)
    PROVE  Knows(q)'
<1>0. /\ "-" \notin Words /\ "open" \notin Words /\ "none" \notin Words
      /\ ask[q] \in Askers(Len(log)) /\ ask[q].word \in Words \cup {"none"}
      /\ Len(log) \in Nat
    BY DEF Words, TypeOK, Askers
<1>1. ASSUME NEW k \in {"tool", "plan"}, Read(q, k) PROVE Knows(q)'
  <2>1. ask'[q].at = "read" /\ ask[q].at = "none" /\ log' = log
      BY <1>1 DEF Read, TypeOK, Askers
  <2> QED
      BY <2>1 DEF Knows
<1>2. ASSUME Opened(q) PROVE Knows(q)'
  <2>1. /\ ask[q].at = "opened" /\ log' = log /\ ask'[q].from = ask[q].from
        /\ ask'[q].at = IF ask[q].word = "none" THEN "waiting" ELSE "answered"
        /\ ask'[q].word = ask[q].word
      BY <1>2 DEF Opened, From, TypeOK, Askers
  <2> QED
      BY <2>1 DEF Knows
<1>3. ASSUME Post(q) PROVE Knows(q)'
  <2>1. ask'[q].at = "gone"
      BY <1>3 DEF Post, TypeOK, Askers
  <2> QED
      BY <2>1 DEF Knows
<1>4. ASSUME Hear(q) PROVE Knows(q)'
  <2>1. /\ ask[q].at = "waiting" /\ log' = log /\ ask'[q].at = "answered"
        /\ ask'[q].word = log[Min(Heard(q))][q] /\ Heard(q) # {}
      BY <1>4 DEF Hear, TypeOK, Askers
  <2>2. Heard(q) \in SUBSET Nat
      BY DEF Heard, TypeOK, Askers
  <2>3. Min(Heard(q)) \in Heard(q)
      BY <2>1, <2>2, Least
  <2>4. log[Min(Heard(q))][q] = LastIn(log, q, Len(log))
      BY <2>1, <2>3 DEF Knows, Heard
  <2> QED
      BY <2>1, <2>4 DEF Knows
<1>5. ASSUME Reenter(q) PROVE Knows(q)'
  <2> DEFINE recorded == LastIn(log, q, ask[q].from)
  <2>1. Last(q, ask[q].from) = recorded
      BY LastIsLast DEF Things
  <2>2. ask[q].at = "standing" /\ log' = log
      BY <1>5 DEF Reenter
  <2>3. CASE recorded \in Words
    <3>2. ask' = [ask EXCEPT ![q] = [@ EXCEPT !.at = "answered",
                                              !.word = Last(q, ask[q].from)]]
        BY <1>5, <2>1, <2>3 DEF Reenter
    <3>1. ask'[q].at = "answered" /\ ask'[q].word = recorded
        BY <2>1, <3>2 DEF TypeOK, Askers
    <3> QED
        BY <2>2, <2>3, <3>1 DEF Knows
  <2>4. CASE recorded \notin Words
    <3>2. PICK word : ask' = [ask EXCEPT ![q] = [@ EXCEPT !.at = "reread",
                                                          !.word = word]]
        BY <1>5, <2>1, <2>4 DEF Reenter
    <3>1. ask'[q].at = "reread" /\ ask'[q].from = ask[q].from
        BY <3>2 DEF TypeOK, Askers
    <3> QED
        BY <2>2, <2>4, <3>1 DEF Knows
  <2> QED
      BY <2>3, <2>4
<1>6. ASSUME Open(q) PROVE Knows(q)'
  <2>1. PICK e \in Entry :
          Commit(e) /\ e[q] = IF ask[q].word = "none" THEN "open" ELSE ask[q].word
      BY <1>6, Opens DEF Opening
  <2>2. /\ ask[q].at = "read" /\ ask'[q].at = "opened"
        /\ ask'[q].from = Len(log) /\ ask'[q].word = ask[q].word
      BY <1>6 DEF Open, TypeOK, Askers
  <2>3. e[q] # "-"
      BY <1>0, <2>1
  <2>4. /\ \A i \in (Len(log) + 1)..Len(log') : log'[i] = e
        /\ LastIn(log', q, Len(log)) = LastIn(log, q, Len(log))
        /\ LastIn(log', q, Len(log')) = e[q]
      BY <1>0, <2>1, <2>3, Commits DEF TypeOK, Things
  <2>5. LastIn(log, q, Len(log)) = "-"
      BY <2>2 DEF Knows
  <2> QED
      BY <1>0, <2>1, <2>2, <2>4, <2>5 DEF Knows
<1>7. ASSUME Rejoin(q) PROVE Knows(q)'
  <2>1. CASE ask[q].word = "none"
    <3>2. /\ ask[q].at = "reread" /\ log' = log
          /\ ask' = [ask EXCEPT ![q] = [@ EXCEPT !.at = "waiting",
                                                 !.from = ask[q].from]]
        BY <1>7, <2>1 DEF Rejoin, From
    <3>1. ask'[q].at = "waiting" /\ ask'[q].from = ask[q].from
        BY <3>2 DEF TypeOK, Askers
    <3> QED
        BY <3>1, <3>2 DEF Knows
  <2>2. CASE ask[q].word # "none"
    <3>1. PICK e \in Entry : Commit(e) /\ e[q] = ask[q].word
        BY <1>7, <2>2, Opens DEF Opening
    <3>2. ask'[q].at = "answered" /\ ask'[q].word = ask[q].word
        BY <1>7, <2>2 DEF Rejoin, TypeOK, Askers
    <3>3. LastIn(log', q, Len(log')) = e[q]
        BY <1>0, <2>2, <3>1, Commits DEF TypeOK, Things
    <3> QED
        BY <3>1, <3>2, <3>3 DEF Knows
  <2> QED
      BY <2>1, <2>2
<1> QED
    BY <1>1, <1>2, <1>3, <1>4, <1>5, <1>6, <1>7 DEF Asks

\* Every step keeps what every asker knows.
LEMMA KnowsStep ==
    ASSUME TypeOK, Targeted, NEW q \in Reqs, Knows(q), [Next]_vars
    PROVE  Knows(q)'
<1>1. CASE Asks(q)
    BY <1>1, KnowsAsks
<1>2. CASE Stays(q) /\ ~Asks(q)
  <2> DEFINE Kept == \E e \in Entry :
                 /\ Commit(e)
                 /\ e[q] # "-" => LastIn(log, q, Len(log)) = "open"
                                  /\ e[q] \in Words
  <2>1. CASE \E e \in Entry : Commit(e) /\ Deciding(e)
    <3>1. Status(q) = LastIn(log, q, Len(log))
        BY LastIsLast DEF Status, Things
    <3>2. Kept
        BY <2>1, <3>1 DEF Deciding, IsOpen
    <3> QED
        BY <1>2, <3>2, KnowsStays
  <2>2. CASE \E p \in Reqs : Opening(p)
    <3>1. PICK p \in Reqs : Opening(p)
        BY <2>2
    <3>2. p # q
        BY <1>2, <3>1 DEF Opening, Asks
    <3>3. PICK e \in Entry : Commit(e) /\ \A x \in Things \ {p} : e[x] = "-"
        BY <3>1, Opens
    <3>4. Kept
        BY <3>2, <3>3 DEF Things
    <3> QED
        BY <1>2, <3>4, KnowsStays
  <2> QED
      BY <2>1, <2>2, Moves
<1> QED
    BY <1>1, <1>2, Others

-----------------------------------------------------------------------------
(* Decisions, the lane and the plugin's own record *)

\* Once decided, decided in every longer part of the log.
Prefixes(q) ==
    \A n \in 0..Len(log) : \A m \in 0..n :
        LastIn(log, q, m) \in Words => LastIn(log, q, n) \in Words

\* A step opens a request nothing is told of, or decides.
LEMMA PrefixesStep ==
    ASSUME TypeOK, Targeted, NEW q \in Reqs, Knows(q), Prefixes(q), [Next]_vars
    PROVE  Prefixes(q)'
<1> DEFINE st == LastIn(log, q, Len(log))
           Fair(e) == /\ e \in Entry /\ Commit(e)
                      /\ e[q] \in {"-"} \cup Words \/ st = "-"
<1>1. \E e \in Entry : Fair(e)
  <2>1. CASE \E e \in Entry : Commit(e) /\ Deciding(e)
      BY <2>1 DEF Deciding
  <2>2. ASSUME NEW p \in Reqs, Opening(p) PROVE \E e \in Entry : Fair(e)
    <3>1. CASE p # q
        BY <2>2, <3>1, Opens DEF Things
    <3>2. CASE p = q /\ (Open(p) \/ Post(p))
      <4>1. st = "-"
          BY <3>2 DEF Knows, Open, Post
      <4> QED
          BY <2>2, <4>1, Opens
    <3>3. CASE p = q /\ Rejoin(p)
      <4>1. ask[q].word \in Words \cup {"none"}
          BY DEF TypeOK, Askers
      <4> QED
          BY <2>2, <3>3, <4>1, Opens
    <3> QED
        BY <2>2, <3>1, <3>2, <3>3 DEF Opening
  <2> QED
      BY <2>1, <2>2, Moves
<1>2. PICK e \in Entry : Fair(e)
    BY <1>1
<1>3. /\ Len(log) \in Nat /\ Len(log') \in Nat /\ Len(log) <= Len(log')
      /\ \A n \in 0..Len(log) : LastIn(log', q, n) = LastIn(log, q, n)
      /\ LastIn(log', q, Len(log')) = IF e[q] = "-" THEN st ELSE e[q]
      /\ Len(log') <= Len(log) + 1
  <2>1. Len(log') <= Len(log) + 1
      BY <1>2 DEF Commit, TypeOK
  <2> QED
      BY <1>2, <2>1, Commits DEF TypeOK, Things
<1> SUFFICES ASSUME NEW n \in 0..Len(log'), NEW m \in 0..n,
                    LastIn(log', q, m) \in Words
             PROVE  LastIn(log', q, n) \in Words
    BY DEF Prefixes
<1>4. CASE n \in 0..Len(log)
    BY <1>3, <1>4 DEF Prefixes
<1>5. CASE n \notin 0..Len(log) /\ m = n
    BY <1>5
<1>6. CASE n \notin 0..Len(log) /\ m # n
  <2>1. n = Len(log') /\ m \in 0..Len(log)
      BY <1>3, <1>6
  <2>2. st \in Words
      BY <1>3, <2>1 DEF Prefixes
  <2>3. e[q] \in {"-"} \cup Words
      BY <1>2, <2>2 DEF Words
  <2> QED
      BY <1>3, <2>1, <2>2, <2>3
<1> QED
    BY <1>4, <1>5, <1>6

\* A request a plugin posted is decided by a surface, or cancelled by its
\* run's end.
LEMMA PluginMoves ==
    ASSUME TypeOK, Targeted, NEW q \in Reqs, kind[q] = "plugin",
           ask[q].at = "gone", [Next]_vars
    PROVE  \/ \E e \in Entry : /\ Commit(e)
                               /\ e[q] # "-" => IsOpen(q) /\ e[q] = "cancel"
           \/ \E s \in Surfaces : Write(s) /\ surf[s].of = q
<1> DEFINE Goal == \/ \E e \in Entry :
                         Commit(e) /\ (e[q] # "-" => IsOpen(q) /\ e[q] = "cancel")
                   \/ \E s \in Surfaces : Write(s) /\ surf[s].of = q
<1>0. ASSUME log' = log PROVE Goal
    BY <1>0, NoRowsDecide DEF Commit, Things
<1>1. ASSUME NEW p \in Reqs, Retire(p) PROVE Goal
  <2>1. p # q /\ Commit(Rows(IF Takes(p) THEN {p} ELSE {}, "cancel"))
      BY <1>1 DEF Retire
  <2> QED
      BY <2>1, RowsAreEntry DEF Words, Things
<1>2. ASSUME WriteChange PROVE Goal
  <2>1. change.run \in Runs /\ change.value \in {"on", "off"}
      BY <1>2 DEF WriteChange, Targeted, TypeOK, Changes
  <2> QED
      BY <1>2, <2>1, GrantIsEntry DEF WriteChange
<1>3. ASSUME NEW s \in Surfaces, Write(s), surf[s].of # q PROVE Goal
  <2>1. surf[s].of \in Reqs /\ Commit(Decision(s)) /\ Decision(s) \in Entry
      BY <1>3, DecisionDecides DEF Write, Decision, Targeted
  <2>2. surf[s].grant => /\ GrantRows(RunOf[surf[s].of], "on") \in Entry
                         /\ GrantRows(RunOf[surf[s].of], "on")[q] = "-"
      BY <2>1, GrantIsEntry
  <2>3. Rows({}, "-") \in Entry /\ Rows({}, "-")[q] = "-"
      BY NoRowsDecide DEF Things
  <2>4. Decision(s)[q] = "-"
      BY <1>3, <2>1, <2>2, <2>3 DEF Decision, Entry
  <2> QED
      BY <2>1, <2>4
<1>4. ASSUME NEW r \in Runs, End(r) PROVE Goal
  <2>1. Commit(Rows(OpenOf(r), "cancel"))
      BY <1>4 DEF End
  <2>2. /\ Rows(OpenOf(r), "cancel") \in Entry
        /\ Rows(OpenOf(r), "cancel")[q] = IF q \in OpenOf(r) THEN "cancel" ELSE "-"
      BY RowsAreEntry DEF Words, Things
  <2> QED
      BY <2>1, <2>2 DEF OpenOf
<1>5. ASSUME NEW r \in Runs, Resume(r) PROVE Goal
  <2>1. PICK unbound \in SUBSET {p \in OpenOf(r) : Blocking(p)} :
          Commit(Rows(unbound, "cancel"))
      BY <1>5 DEF Resume
  <2>2. q \notin unbound
      BY DEF Blocking
  <2> QED
      BY <2>1, <2>2, RowsAreEntry DEF Words, Things
<1>6. ASSUME NEW p \in Reqs, Opening(p) PROVE Goal
  <2>1. p # q
      BY <1>6 DEF Opening, Open, Post, Rejoin
  <2> QED
      BY <1>6, <2>1, Opens DEF Things
<1>7. ASSUME NEW s \in Surfaces, Write(s), surf[s].of = q PROVE Goal
    BY <1>7
<1> SUFFICES Goal
    OBVIOUS
<1> HIDE DEF Goal
<1>8. ASSUME \/ ChangeReturns \/ Fold \/ Crash
             \/ \E r \in Runs, v \in {"on", "off"} : Change(r, v)
             \/ \E r \in Runs : StartResume(r)
             \/ \E s \in Surfaces : Enter(s) \/ Record(s) \/ Answered(s)
             \/ \E s \in Surfaces, p \in Reqs, w \in {"approve", "deny"},
                   g \in BOOLEAN : Issue(s, p, w, g)
             \/ \E p \in Reqs : \/ Opened(p) \/ Hear(p) \/ Reenter(p)
                                \/ \E k \in {"tool", "plan"} : Read(p, k)
      PROVE  Goal
  <2>1. log' = log
      BY <1>8 DEF ChangeReturns, Fold, Crash, Change, StartResume, Enter,
                  Record, Answered, Issue, Opened, Hear, Reenter, Read
  <2> QED
      BY <1>0, <2>1
<1>9. CASE UNCHANGED vars
    BY <1>0, <1>9 DEF vars
<1> QED
    BY <1>1, <1>2, <1>3, <1>4, <1>5, <1>6, <1>7, <1>8, <1>9
    DEF Next, AskStep, EndStep, SurfaceStep, Opening

\* A plugin's request has no asker, only a decision of its is recorded aside,
\* what a surface decides was opened, and a request's lane holds one surface.
Lanes(q) ==
    /\ kind[q] = "plugin" =>
          ask[q].at = "gone" /\ LastIn(log, q, Len(log)) # "-"
    /\ side[q] # "none" => kind[q] = "plugin"
    /\ \A s \in Surfaces : surf[s].at # "idle" /\ surf[s].of = q =>
          /\ LastIn(log, q, Len(log)) # "-"
          /\ surf[s].at = "recording" => kind[q] = "plugin"
          /\ surf[s].at = "writing" /\ kind[q] = "plugin" =>
                side[q] = surf[s].word
    /\ \A s, t \in Surfaces :
          InLane(s) /\ InLane(t) /\ surf[s].of = q /\ surf[t].of = q => s = t

\* A step leaves a request's kind and what was told of it, but where its call
\* asks first or a plugin posts it.
LEMMA KindStays ==
    ASSUME TypeOK, Targeted, NEW q \in Reqs, Lanes(q), [Next]_vars,
           \A k \in {"tool", "plan"} : ~Read(q, k), ~Post(q)
    PROVE  /\ kind'[q] = kind[q]
           /\ kind[q] = "plugin" => ask'[q].at = "gone"
           /\ LastIn(log, q, Len(log)) # "-" => LastIn(log', q, Len(log')) # "-"
<1>1. kind'[q] = kind[q]
  <2>1. ASSUME NEW p \in Reqs, NEW k \in {"tool", "plan"}, Read(p, k)
        PROVE  kind'[q] = kind[q]
      BY <2>1 DEF Read, TypeOK
  <2>2. ASSUME NEW p \in Reqs, Post(p) PROVE kind'[q] = kind[q]
      BY <2>2 DEF Post, TypeOK
  <2>3. ASSUME \/ ChangeReturns \/ Fold \/ Crash \/ WriteChange
               \/ \E r \in Runs, v \in {"on", "off"} : Change(r, v)
               \/ \E r \in Runs : StartResume(r) \/ End(r) \/ Resume(r)
               \/ \E s \in Surfaces : SurfaceStep(s)
               \/ \E s \in Surfaces, p \in Reqs, w \in {"approve", "deny"},
                     g \in BOOLEAN : Issue(s, p, w, g)
               \/ \E p \in Reqs : Open(p) \/ Opened(p) \/ Hear(p) \/ Reenter(p)
                                  \/ Rejoin(p) \/ Retire(p)
        PROVE  kind'[q] = kind[q]
      BY <2>3 DEF ChangeReturns, Fold, Crash, Change, StartResume, Enter, End,
                  Resume, Record, Write, SurfaceStep, WriteChange, Answered,
                  Issue, Open, Opened, Hear, Reenter, Rejoin, Retire
  <2>4. CASE UNCHANGED vars
      BY <2>4 DEF vars
  <2> QED
      BY <2>1, <2>2, <2>3, <2>4 DEF Next, AskStep, EndStep
<1>2. ASSUME kind[q] = "plugin" PROVE ask'[q].at = "gone"
  <2>1. ask[q].at = "gone"
      BY <1>2 DEF Lanes
  <2>2. ~Asks(q)
      BY <2>1 DEF Asks, Read, Open, Opened, Post, Hear, Reenter, Rejoin
  <2> QED
      BY <2>1, <2>2, Others DEF Stays
<1>3. LastIn(log, q, Len(log)) # "-" => LastIn(log', q, Len(log')) # "-"
  <2>1. PICK e \in Entry : Commit(e)
      BY Grows
  <2> QED
      BY <2>1, Commits DEF TypeOK, Things
<1> QED
    BY <1>1, <1>2, <1>3

\* Every step keeps the lanes.
LEMMA LanesStep ==
    ASSUME TypeOK, Targeted, NEW q \in Reqs, Knows(q), Lanes(q), [Next]_vars
    PROVE  Lanes(q)'
<1> DEFINE st == LastIn(log, q, Len(log))
           Idle == \A s \in Surfaces : surf[s].at = "idle" \/ surf[s].of # q
<1>0. ask[q].at \in {"none", "read"} => st = "-" /\ side[q] = "none" /\ Idle
    BY DEF Knows, Lanes
<1>1. ASSUME NEW k \in {"tool", "plan"}, Read(q, k) PROVE Lanes(q)'
  <2>1. kind'[q] = k /\ side' = side /\ surf' = surf /\ side[q] = "none" /\ Idle
      BY <1>0, <1>1 DEF Read, TypeOK
  <2> QED
      BY <2>1 DEF Lanes, InLane
<1>2. ASSUME Post(q) PROVE Lanes(q)'
  <2>1. /\ kind'[q] = "plugin" /\ side' = side /\ surf' = surf
        /\ side[q] = "none" /\ Idle /\ ask'[q].at = "gone"
      BY <1>0, <1>2 DEF Post, TypeOK, Askers
  <2>2. PICK e \in Entry : Commit(e) /\ e[q] = "open"
      BY <1>2, Opens DEF Opening
  <2>3. LastIn(log', q, Len(log')) # "-"
      BY <2>2, Commits DEF TypeOK, Things
  <2> QED
      BY <2>1, <2>3 DEF Lanes, InLane
<1>3. CASE ~Post(q) /\ \A k \in {"tool", "plan"} : ~Read(q, k)
  <2>0. /\ kind'[q] = kind[q]
        /\ kind[q] = "plugin" => ask'[q].at = "gone"
        /\ st # "-" => LastIn(log', q, Len(log')) # "-"
      BY <1>3, KindStays
  <2>1. /\ kind'[q] = "plugin" =>
              ask'[q].at = "gone" /\ LastIn(log', q, Len(log')) # "-"
        /\ side[q] # "none" => kind'[q] = "plugin"
      BY <2>0 DEF Lanes
  <2>2. ASSUME side' = side,
               \A s \in Surfaces : surf'[s] = surf[s] \/ surf'[s].at = "idle"
                   \/ /\ surf'[s].of = surf[s].of /\ surf[s].at # "idle"
                      /\ surf'[s].word = surf[s].word
                      /\ \/ surf'[s].at = "settling" /\ InLane(s)
                         \/ surf'[s].at = "told"
        PROVE  Lanes(q)'
    <3>1. \A s \in Surfaces : surf'[s].at # "idle" /\ surf'[s].of = q =>
            /\ LastIn(log', q, Len(log')) # "-"
            /\ surf'[s].at = "recording" => kind'[q] = "plugin"
            /\ surf'[s].at = "writing" /\ kind'[q] = "plugin" =>
                  side'[q] = surf'[s].word
        BY <2>0, <2>2 DEF Lanes
    <3>2. \A s \in Surfaces : InLane(s)' => InLane(s) /\ surf'[s].of = surf[s].of
        BY <2>2 DEF InLane
    <3>3. \A s, t \in Surfaces :
            InLane(s)' /\ InLane(t)' /\ surf'[s].of = q /\ surf'[t].of = q => s = t
        BY <3>2 DEF Lanes
    <3> QED
        BY <2>1, <2>2, <3>1, <3>3 DEF Lanes
  <2>3. ASSUME surf' = surf, side' = side PROVE Lanes(q)'
      BY <2>2, <2>3
  <2>4. ASSUME NEW s \in Surfaces, NEW p \in Reqs, NEW w \in {"approve", "deny"},
               NEW g \in BOOLEAN, Issue(s, p, w, g)
        PROVE  Lanes(q)'
    <3>1. /\ \A t \in Surfaces \ {s} : surf'[t] = surf[t]
          /\ surf'[s].at = "queued" /\ surf'[s].of = p
          /\ side' = side /\ Status(p) # "-"
        BY <2>4 DEF Issue, TypeOK, Deciders
    <3>2. p = q => st # "-"
        BY <3>1, LastIsLast DEF Status, Things
    <3>3. \A t \in Surfaces : InLane(t)' => t # s /\ InLane(t)
        BY <3>1 DEF InLane
    <3>4. \A t, u \in Surfaces :
            InLane(t)' /\ InLane(u)' /\ surf'[t].of = q /\ surf'[u].of = q => t = u
        BY <3>1, <3>3 DEF Lanes
    <3> QED
        BY <2>0, <2>1, <3>1, <3>2, <3>4 DEF Lanes
  <2>5. ASSUME NEW s \in Surfaces, Enter(s) PROVE Lanes(q)'
    <3>1. /\ \A t \in Surfaces \ {s} : surf'[t] = surf[t]
          /\ surf'[s].of = surf[s].of /\ surf[s].at = "queued"
          /\ surf'[s].at \in {"told", "writing", "recording"}
          /\ surf'[s].at = "writing" => kind[surf[s].of] # "plugin"
          /\ surf'[s].at = "recording" => kind[surf[s].of] = "plugin"
          /\ \A t \in Surfaces : InLane(t) => surf[t].of # surf[s].of
          /\ side' = side
        BY <2>5 DEF Enter, Blocking, TypeOK, Deciders
    <3>2. \A t \in Surfaces \ {s} : InLane(t)' => InLane(t)
        BY <3>1 DEF InLane
    <3>3. \A t, u \in Surfaces :
            InLane(t)' /\ InLane(u)' /\ surf'[t].of = q /\ surf'[u].of = q => t = u
        BY <3>1, <3>2 DEF Lanes
    <3> QED
        BY <2>0, <2>1, <3>1, <3>3 DEF Lanes
  <2>6. ASSUME NEW s \in Surfaces, Record(s) PROVE Lanes(q)'
    <3>1. /\ \A t \in Surfaces \ {s} : surf'[t] = surf[t]
          /\ surf'[s].of = surf[s].of /\ surf[s].at = "recording"
          /\ surf'[s].at = "writing" /\ surf'[s].word = surf[s].word
        BY <2>6 DEF Record, TypeOK, Deciders
    <3>2. /\ surf[s].of = q => side'[q] = surf[s].word
          /\ surf[s].of # q => side'[q] = side[q]
        BY <2>6 DEF Record, TypeOK
    <3>3. \A t \in Surfaces : InLane(t)' => InLane(t) /\ surf'[t].of = surf[t].of
        BY <3>1 DEF InLane
    <3>4. \A t, u \in Surfaces :
            InLane(t)' /\ InLane(u)' /\ surf'[t].of = q /\ surf'[u].of = q => t = u
        BY <3>3 DEF Lanes
    <3>5. \A t \in Surfaces \ {s} :
            surf[s].of = q /\ surf[t].of = q => surf[t].at # "writing"
        BY <3>1 DEF Lanes, InLane
    <3>6. side'[q] # "none" => kind'[q] = "plugin"
        BY <2>0, <2>1, <3>1, <3>2 DEF Lanes
    <3>7. \A t \in Surfaces : surf'[t].at # "idle" /\ surf'[t].of = q =>
            /\ LastIn(log', q, Len(log')) # "-"
            /\ surf'[t].at = "recording" => kind'[q] = "plugin"
        BY <2>0, <3>1 DEF Lanes
    <3>8. \A t \in Surfaces :
            surf'[t].at = "writing" /\ surf'[t].of = q /\ kind'[q] = "plugin" =>
                side'[q] = surf'[t].word
        BY <2>0, <3>1, <3>2, <3>5 DEF Lanes
    <3> QED
        BY <2>1, <3>4, <3>6, <3>7, <3>8 DEF Lanes
  <2>7. ASSUME NEW s \in Surfaces, Write(s) \/ Answered(s) PROVE Lanes(q)'
    <3>1. /\ \A t \in Surfaces \ {s} : surf'[t] = surf[t]
          /\ surf'[s].of = surf[s].of /\ InLane(s) /\ surf[s].at # "idle"
          /\ surf'[s].at \in {"settling", "told"} /\ surf'[s].word = surf[s].word
          /\ side' = side
      <4>1. CASE Write(s)
        <5>1. /\ surf[s].at = "writing" /\ side' = side
              /\ \E i : surf' = [surf EXCEPT ![s] =
                                   [@ EXCEPT !.at = "settling", !.to = i]]
            BY <4>1, Zenon DEF Write
        <5> QED
            BY <5>1 DEF TypeOK, Deciders, InLane
      <4>2. CASE Answered(s)
        <5>1. /\ surf[s].at = "settling" /\ side' = side
              /\ surf' = [surf EXCEPT ![s].at = "told"]
            BY <4>2 DEF Answered
        <5> QED
            BY <5>1 DEF TypeOK, Deciders, InLane
      <4> QED
          BY <2>7, <4>1, <4>2
    <3> QED
        BY <2>2, <3>1
  <2>8. ASSUME Crash PROVE Lanes(q)'
    <3>1. /\ side' = side
          /\ \A s \in Surfaces : surf'[s] = surf[s] \/ surf'[s].at = "idle"
        BY <2>8 DEF Crash, Quiet
    <3> QED
        BY <2>2, <3>1
  <2>9. ASSUME \/ ChangeReturns \/ Fold \/ WriteChange
               \/ \E r \in Runs, v \in {"on", "off"} : Change(r, v)
               \/ \E r \in Runs : StartResume(r) \/ End(r) \/ Resume(r)
               \/ \E p \in Reqs : Open(p) \/ Opened(p) \/ Hear(p) \/ Reenter(p)
                                  \/ Rejoin(p) \/ Retire(p) \/ Post(p)
                                  \/ \E k \in {"tool", "plan"} : Read(p, k)
        PROVE  Lanes(q)'
    <3>1. surf' = surf /\ side' = side
        BY <2>9 DEF ChangeReturns, Fold, Change, StartResume, End, Resume, Read,
                    WriteChange, Open, Opened, Hear, Reenter, Rejoin, Retire, Post
    <3> QED
        BY <2>3, <3>1
  <2>10. CASE UNCHANGED vars
      BY <2>3, <2>10 DEF vars
  <2> QED
      BY <2>4, <2>5, <2>6, <2>7, <2>8, <2>9, <2>10
      DEF Next, AskStep, EndStep, SurfaceStep
<1> QED
    BY <1>1, <1>2, <1>3

\* What a plugin recorded is on its way to the row, or there; a decision the
\* view has not folded is its lane's, so nobody enters on it.
Agrees(q) ==
    LET st == LastIn(log, q, Len(log)) IN
    /\ kind[q] = "plugin" =>
          \/ st \in {"open", "cancel"}
          \/ LastIn(log, q, view) \in Words
          \/ \E s \in Surfaces : /\ surf[s].at = "settling" /\ surf[s].of = q
                                 /\ LastIn(log, q, surf[s].to) \in Words
    /\ \A s \in Surfaces :
          surf[s].at \in {"recording", "writing"} /\ surf[s].of = q
          /\ kind[q] = "plugin" => st \in {"open", "cancel"}
    /\ side[q] # "none" =>
          \/ \E s \in Surfaces : surf[s].at = "writing" /\ surf[s].of = q
          \/ st \in {side[q], "cancel"}
          \/ st = "open" /\ crashes > 0

\* Every step keeps the plugin's record in agreement.
LEMMA AgreesStep ==
    ASSUME TypeOK, Targeted, TypeOK', NEW q \in Reqs, Knows(q), Prefixes(q),
           Lanes(q), Lanes(q)', Agrees(q), [Next]_vars
    PROVE  Agrees(q)'
<1> DEFINE st == LastIn(log, q, Len(log))
           st1 == LastIn(log', q, Len(log'))
<1>0. /\ "-" \notin Words /\ "open" \notin Words /\ "none" \notin Words
      /\ "cancel" \in Words
    BY DEF Words
<1>1. CASE kind'[q] # "plugin"
  <2>1. side'[q] = "none"
      BY <1>1 DEF Lanes
  <2> QED
      BY <1>1, <2>1 DEF Agrees
<1>2. CASE Post(q)
  <2>1. /\ side' = side /\ surf' = surf /\ ask[q].at = "none" /\ st = "-"
      BY <1>2 DEF Post, Knows
  <2>2. PICK e \in Entry : Commit(e) /\ e[q] = "open"
      BY <1>2, Opens DEF Opening
  <2>3. st1 = "open"
      BY <2>2, Commits DEF TypeOK, Things
  <2>4. side[q] = "none"
      BY <2>1 DEF Lanes
  <2> QED
      BY <2>1, <2>3, <2>4 DEF Agrees
<1>3. CASE kind'[q] = "plugin" /\ ~Post(q)
  <2>1. \A k \in {"tool", "plan"} : ~Read(q, k)
      BY <1>3 DEF Read, TypeOK
  <2>2. kind[q] = "plugin" /\ ask[q].at = "gone" /\ st # "-"
      BY <1>3, <2>1, KindStays DEF Lanes
  <2>3. ASSUME NEW s \in Surfaces, Write(s), surf[s].of = q
        PROVE  Agrees(q)'
    <3>1. /\ surf[s].at = "writing" /\ Commit(Decision(s)) /\ Decision(s) \in Entry
          /\ Decision(s)[q] = IF IsOpen(q) THEN surf[s].word ELSE "-"
        BY <2>3, DecisionDecides DEF Write, Decision
    <3>2. /\ st \in {"open", "cancel"} /\ side[q] = surf[s].word
          /\ surf[s].word \in Words /\ (IsOpen(q) <=> st = "open")
        BY <2>2, <2>3, <3>1, LastIsLast
        DEF Agrees, Lanes, TypeOK, Deciders, IsOpen, Status, Things
    <3>3. /\ \A t \in Surfaces \ {s} : surf'[t] = surf[t]
          /\ surf'[s].at = "settling" /\ surf'[s].of = q
          /\ surf'[s].to = IF log' = log THEN 0 ELSE Len(log')
          /\ side' = side
      <4>1. /\ surf' = [surf EXCEPT ![s] = [@ EXCEPT !.at = "settling",
                            !.to = IF log' = log THEN 0 ELSE Len(log')]]
            /\ side' = side
          BY <2>3 DEF Write
      <4> DEFINE i == IF log' = log THEN 0 ELSE Len(log')
      <4> HIDE DEF i
      <4>2. surf' = [surf EXCEPT ![s] = [@ EXCEPT !.at = "settling", !.to = i]]
          BY <4>1 DEF i
      <4>3. /\ \A t \in Surfaces \ {s} : surf'[t] = surf[t]
            /\ surf'[s].at = "settling" /\ surf'[s].of = q /\ surf'[s].to = i
          BY <2>3, <4>2 DEF TypeOK, Deciders
      <4> QED
          BY <4>1, <4>3 DEF i
    <3>4. \A t \in Surfaces : ~(surf'[t].at \in {"recording", "writing"}
                                /\ surf'[t].of = q)
      <4> SUFFICES ASSUME NEW t \in Surfaces,
                          surf'[t].at \in {"recording", "writing"}, surf'[t].of = q
                   PROVE  FALSE
          OBVIOUS
      <4>1. t # s /\ InLane(t) /\ InLane(s) /\ surf[t].of = q
          BY <3>1, <3>3 DEF InLane
      <4> QED
          BY <2>3, <4>1 DEF Lanes
    <3>5. CASE IsOpen(q)
      <4>1. Decision(s)[q] = surf[s].word /\ Decision(s)[q] # "-"
          BY <1>0, <3>1, <3>2, <3>5
      <4>2. st1 = surf[s].word /\ Len(log') = Len(log) + 1 /\ Len(log) \in Nat
          BY <3>1, <4>1, Commits DEF TypeOK, Things
      <4>3. log' # log
          BY <4>2
      <4>4. surf'[s].to = Len(log')
          BY <3>3, <4>3
      <4>5. LastIn(log', q, surf'[s].to) \in Words
          BY <3>2, <4>2, <4>4
      <4> QED
          BY <3>2, <3>3, <3>4, <4>2, <4>5 DEF Agrees
    <3>6. CASE ~IsOpen(q)
      <4>1. st1 = st /\ st = "cancel"
          BY <3>1, <3>2, <3>6, Commits DEF TypeOK, Things
      <4> QED
          BY <3>3, <3>4, <4>1 DEF Agrees
    <3> QED
        BY <3>5, <3>6
  <2>4. CASE \A s \in Surfaces : ~(Write(s) /\ surf[s].of = q)
    <3>1. PICK e \in Entry : Commit(e) /\ (e[q] # "-" => IsOpen(q) /\ e[q] = "cancel")
        BY <2>2, <2>4, PluginMoves
    <3>2. /\ Len(log) \in Nat /\ Len(log') \in Nat /\ Len(log) <= Len(log')
          /\ \A n \in 0..Len(log) : LastIn(log', q, n) = LastIn(log, q, n)
          /\ st1 = st \/ (st = "open" /\ st1 = "cancel")
      <4>1. IsOpen(q) => st = "open"
          BY LastIsLast DEF IsOpen, Status, Things
      <4>2. /\ Len(log) \in Nat /\ Len(log') \in Nat /\ Len(log) <= Len(log')
            /\ \A n \in 0..Len(log) : LastIn(log', q, n) = LastIn(log, q, n)
            /\ st1 = IF e[q] = "-" THEN st ELSE e[q]
          BY <3>1, Commits DEF TypeOK, Things
      <4>3. st1 = st \/ (st = "open" /\ st1 = "cancel")
          BY <3>1, <4>1, <4>2
      <4> QED
          BY <4>2, <4>3
    <3>3. view \in 0..Len(log) /\ view' \in 0..Len(log')
          /\ \A s \in Surfaces : surf[s].to \in 0..Len(log)
        BY DEF TypeOK, Deciders
    <3> DEFINE Entered == \A s \in Surfaces :
                   surf'[s].at \in {"recording", "writing"} /\ surf'[s].of = q =>
                       st \in {"open", "cancel"}
               Written == \/ \E s \in Surfaces : surf'[s].at = "writing"
                                                 /\ surf'[s].of = q
                          \/ st \in {side'[q], "cancel"}
                          \/ st = "open" /\ crashes' > 0
    <3>4. ASSUME view' \in view..Len(log),
                 \A s \in Surfaces : surf[s].at = "settling" /\ surf[s].of = q =>
                     surf'[s] = surf[s] \/ surf[s].to <= view',
                 Entered, side'[q] # "none" => Written
          PROVE  Agrees(q)'
      <4>1. LastIn(log, q, view) \in Words => LastIn(log', q, view') \in Words
        <5>1. view \in 0..view' /\ view' \in 0..Len(log)
            BY <3>2, <3>3, <3>4
        <5> QED
            BY <3>2, <5>1 DEF Prefixes
      <4>2. ASSUME NEW s \in Surfaces, surf[s].at = "settling", surf[s].of = q,
                   LastIn(log, q, surf[s].to) \in Words
            PROVE  \/ LastIn(log', q, view') \in Words
                   \/ /\ surf'[s].at = "settling" /\ surf'[s].of = q
                      /\ LastIn(log', q, surf'[s].to) \in Words
        <5>1. CASE surf'[s] = surf[s]
            BY <3>2, <3>3, <4>2, <5>1
        <5>2. CASE surf[s].to <= view'
          <6>1. surf[s].to \in 0..view' /\ view' \in 0..Len(log)
              BY <3>2, <3>3, <3>4, <5>2
          <6> QED
              BY <3>2, <4>2, <6>1 DEF Prefixes
        <5> QED
            BY <3>4, <4>2, <5>1, <5>2
      <4>3. \/ st1 \in {"open", "cancel"}
            \/ LastIn(log', q, view') \in Words
            \/ \E s \in Surfaces : /\ surf'[s].at = "settling" /\ surf'[s].of = q
                                   /\ LastIn(log', q, surf'[s].to) \in Words
          BY <2>2, <3>2, <4>1, <4>2 DEF Agrees
      <4>4. \A s \in Surfaces :
              surf'[s].at \in {"recording", "writing"} /\ surf'[s].of = q
              => st1 \in {"open", "cancel"}
          BY <3>2, <3>4
      <4>5. side'[q] # "none" =>
              \/ \E s \in Surfaces : surf'[s].at = "writing" /\ surf'[s].of = q
              \/ st1 \in {side'[q], "cancel"}
              \/ st1 = "open" /\ crashes' > 0
          BY <3>2, <3>4
      <4> QED
          BY <4>3, <4>4, <4>5 DEF Agrees
    <3>5. view \in view..Len(log)
        BY <3>2, <3>3
    <3>6. ASSUME surf' = surf, side' = side, crashes' = crashes,
                 view' \in view..Len(log)
          PROVE  Agrees(q)'
        BY <2>2, <3>4, <3>6 DEF Agrees
    <3> HIDE DEF Entered, Written
    <3>7. ASSUME NEW s \in Surfaces, NEW p \in Reqs, NEW w \in {"approve", "deny"},
                 NEW g \in BOOLEAN, Issue(s, p, w, g)
          PROVE  Agrees(q)'
      <4>1. /\ \A t \in Surfaces \ {s} : surf'[t] = surf[t]
            /\ surf[s].at = "idle" /\ surf'[s].at = "queued"
            /\ side' = side /\ view' = view /\ crashes' = crashes
          BY <3>7 DEF Issue, TypeOK, Deciders
      <4>2. Entered
          BY <2>2, <4>1 DEF Entered, Agrees
      <4>3. side'[q] # "none" => Written
          BY <4>1 DEF Written, Agrees
      <4> QED
          BY <3>4, <3>5, <4>1, <4>2, <4>3
    <3>8. ASSUME NEW s \in Surfaces, Enter(s) PROVE Agrees(q)'
      <4>1. /\ \A t \in Surfaces \ {s} : surf'[t] = surf[t]
            /\ surf[s].at = "queued" /\ surf'[s].of = surf[s].of
            /\ surf'[s].at # "told" => Last(surf[s].of, view) = "open"
            /\ \A t \in Surfaces : InLane(t) => surf[t].of # surf[s].of
            /\ side' = side /\ view' = view /\ crashes' = crashes
          BY <3>8 DEF Enter, TypeOK, Deciders
      <4>2. ASSUME surf[s].of = q, surf'[s].at # "told"
            PROVE  st \in {"open", "cancel"}
        <5>1. LastIn(log, q, view) = "open"
            BY <4>1, <4>2, LastIsLast DEF Things
        <5>2. \A t \in Surfaces : ~(surf[t].at = "settling" /\ surf[t].of = q)
            BY <4>1, <4>2 DEF InLane
        <5> QED
            BY <1>0, <2>2, <5>1, <5>2 DEF Agrees
      <4>3. Entered
          BY <2>2, <4>1, <4>2 DEF Entered, Agrees
      <4>4. side'[q] # "none" => Written
          BY <4>1 DEF Written, Agrees
      <4> QED
          BY <3>4, <3>5, <4>1, <4>3, <4>4
    <3>9. ASSUME NEW s \in Surfaces, Record(s) PROVE Agrees(q)'
      <4>1. /\ \A t \in Surfaces \ {s} : surf'[t] = surf[t]
            /\ surf[s].at = "recording" /\ surf'[s].at = "writing"
            /\ surf'[s].of = surf[s].of
            /\ surf[s].of # q => side'[q] = side[q]
            /\ view' = view /\ crashes' = crashes
          BY <3>9 DEF Record, TypeOK, Deciders
      <4>2. Entered
          BY <2>2, <4>1 DEF Entered, Agrees
      <4>3. side'[q] # "none" => Written
          BY <4>1 DEF Written, Agrees
      <4> QED
          BY <3>4, <3>5, <4>1, <4>2, <4>3
    <3>10. ASSUME NEW s \in Surfaces, Write(s) PROVE Agrees(q)'
      <4>1. /\ surf[s].at = "writing" /\ surf[s].of # q
            /\ side' = side /\ view' = view /\ crashes' = crashes
            /\ \E i : surf' = [surf EXCEPT ![s] =
                                 [@ EXCEPT !.at = "settling", !.to = i]]
          BY <2>4, <3>10, Zenon DEF Write
      <4>2. /\ \A t \in Surfaces \ {s} : surf'[t] = surf[t]
            /\ surf'[s].of # q
          BY <4>1 DEF TypeOK, Deciders
      <4>3. Entered
          BY <2>2, <4>1, <4>2 DEF Entered, Agrees
      <4>4. side'[q] # "none" => Written
          BY <4>1, <4>2 DEF Written, Agrees
      <4> QED
          BY <3>4, <3>5, <4>1, <4>2, <4>3, <4>4
    <3>11. ASSUME NEW s \in Surfaces, Answered(s) PROVE Agrees(q)'
      <4>1. /\ \A t \in Surfaces \ {s} : surf'[t] = surf[t]
            /\ surf[s].at = "settling" /\ surf'[s].at = "told"
            /\ surf[s].to <= view
            /\ side' = side /\ view' = view /\ crashes' = crashes
          BY <3>3, <3>11 DEF Answered, Folded, TypeOK, Deciders
      <4>2. Entered
          BY <2>2, <4>1 DEF Entered, Agrees
      <4>3. side'[q] # "none" => Written
          BY <4>1 DEF Written, Agrees
      <4> QED
          BY <3>4, <3>5, <4>1, <4>2, <4>3
    <3>12. ASSUME Crash PROVE Agrees(q)'
      <4>1. /\ \A s \in Surfaces : \/ surf'[s] = surf[s] /\ surf[s].at = "told"
                                   \/ surf'[s].at = "idle"
            /\ side' = side /\ view' = Len(log) /\ crashes' > 0
          BY <3>12 DEF Crash, Quiet, TypeOK
      <4>2. Entered
          BY <4>1 DEF Entered
      <4>3. side'[q] # "none" => Written
        <5>1. (\E s \in Surfaces : surf[s].at = "writing" /\ surf[s].of = q)
              => st \in {"open", "cancel"}
            BY <2>2 DEF Agrees
        <5> QED
            BY <4>1, <5>1 DEF Written, Agrees
      <4>4. view' \in view..Len(log) /\ \A s \in Surfaces : surf[s].to <= view'
          BY <3>2, <3>3, <4>1
      <4> QED
          BY <3>4, <4>2, <4>3, <4>4
    <3>13. ASSUME Fold PROVE Agrees(q)'
      <4>1. view' \in view..Len(log) /\ surf' = surf /\ side' = side
            /\ crashes' = crashes
          BY <3>3, <3>13 DEF Fold
      <4> QED
          BY <3>6, <4>1
    <3>14. ASSUME \/ ChangeReturns \/ WriteChange
                  \/ \E r \in Runs, v \in {"on", "off"} : Change(r, v)
                  \/ \E r \in Runs : StartResume(r) \/ End(r) \/ Resume(r)
                  \/ \E p \in Reqs : Open(p) \/ Opened(p) \/ Hear(p) \/ Reenter(p)
                                     \/ Rejoin(p) \/ Retire(p) \/ Post(p)
                                     \/ \E k \in {"tool", "plan"} : Read(p, k)
           PROVE  Agrees(q)'
      <4>1. surf' = surf /\ side' = side /\ crashes' = crashes /\ view' = view
          BY <3>14 DEF ChangeReturns, Change, StartResume, End, Resume, Read,
                       WriteChange, Open, Opened, Hear, Reenter, Rejoin, Retire,
                       Post
      <4> QED
          BY <3>5, <3>6, <4>1
    <3>15. CASE UNCHANGED vars
        BY <3>5, <3>6, <3>15 DEF vars
    <3> QED
        BY <3>7, <3>8, <3>9, <3>10, <3>11, <3>12, <3>13, <3>14, <3>15
        DEF Next, AskStep, EndStep, SurfaceStep
  <2> QED
      BY <2>3, <2>4
<1> QED
    BY <1>1, <1>2, <1>3

-----------------------------------------------------------------------------
(* Grants *)

\* Nothing of x in between: the last is the same.
LEMMA LastOfLonger ==
    ASSUME NEW l \in Seq(Entry), NEW x \in Things, NEW m \in 0..Len(l),
           NEW n \in 0..m, \A i \in (n + 1)..m : l[i][x] = "-"
    PROVE  LastIn(l, x, m) = LastIn(l, x, n)
<1>0. Len(l) \in Nat /\ m \in Nat /\ n \in Nat /\ n \in 0..Len(l)
    OBVIOUS
<1>1. CASE \A i \in 1..n : l[i][x] = "-"
  <2>1. \A i \in 1..m : l[i][x] = "-"
      BY <1>0, <1>1
  <2> QED
      BY <1>0, <1>1, <2>1, LastIsNone
<1>2. CASE ~ \A i \in 1..n : l[i][x] = "-"
  <2>1. PICK i \in 1..n : /\ l[i][x] # "-" /\ LastIn(l, x, n) = l[i][x]
                          /\ \A j \in (i + 1)..n : l[j][x] = "-"
      BY <1>0, <1>2, LastCases
  <2>2. i \in 1..m /\ \A j \in (i + 1)..m : l[j][x] = "-"
      BY <1>0, <2>1
  <2>3. LastIn(l, x, m) = l[i][x]
      BY <1>0, <2>1, <2>2, LastIs
  <2> QED
      BY <2>1, <2>3
<1> QED
    BY <1>1, <1>2

\* `Covered` of whatever log.
CoveredIn(l, r, n) ==
    \E a \in {r} \cup Under[r] :
        /\ LastIn(l, a, n) = "on"
        /\ \A b \in {r} \cup Under[r] : a \in Under[b] => LastIn(l, b, n) = "-"

\* A call that found no grant had none where it looked; and a grant over an
\* open request came after its call looked, before it was opened.
Excused(q) ==
    /\ ask[q].at = "read" /\ kind[q] = "tool" /\ ask[q].word = "none" =>
          ~CoveredIn(log, RunOf[q], ask[q].seen)
    /\ kind[q] = "tool" /\ LastIn(log, q, Len(log)) = "open"
       /\ CoveredIn(log, RunOf[q], Len(log)) =>
          \E i \in (ask[q].seen + 1)..Len(log) :
              /\ \A j \in 1..i : log[j][q] = "-"
              /\ \E a \in {RunOf[q]} \cup Under[RunOf[q]] : log[i][a] = "on"

\* Where a call looked is left but by its next look.
LEMMA SeenStays ==
    ASSUME TypeOK, NEW q \in Reqs, [Next]_vars,
           \A k \in {"tool", "plan"} : ~Read(q, k)
    PROVE  ask'[q].seen = ask[q].seen
<1>1. ASSUME NEW p \in Reqs, p # q,
             \/ \E k \in {"tool", "plan"} : Read(p, k)
             \/ Open(p) \/ Opened(p) \/ Post(p) \/ Hear(p) \/ Reenter(p)
             \/ Rejoin(p) \/ Retire(p)
      PROVE  ask'[q].seen = ask[q].seen
  <2>1. \E a : ask' = [ask EXCEPT ![p] = a]
      BY <1>1, Zenon DEF Read, Open, Opened, Post, Hear, Reenter, Rejoin, Retire
  <2> QED
      BY <1>1, <2>1 DEF TypeOK
<1>2. ASSUME Open(q) \/ Opened(q) \/ Post(q) \/ Hear(q) \/ Reenter(q) \/ Rejoin(q)
             \/ Retire(q)
      PROVE  ask'[q].seen = ask[q].seen
  <2>1. \E at, w, f :
          \/ ask' = [ask EXCEPT ![q] = [@ EXCEPT !.at = at, !.from = f]]
          \/ ask' = [ask EXCEPT ![q] = [@ EXCEPT !.at = at, !.word = w]]
          \/ ask' = [ask EXCEPT ![q].at = at]
      BY <1>2, Zenon DEF Open, Opened, Post, Hear, Reenter, Rejoin, Retire
  <2>2. ask \in [Reqs -> Askers(Len(log))]
      BY DEF TypeOK
  <2>3. ask[q] \in Askers(Len(log))
      BY <2>2
  <2>4. PICK at, w, f :
          \/ ask' = [ask EXCEPT ![q] = [@ EXCEPT !.at = at, !.from = f]]
          \/ ask' = [ask EXCEPT ![q] = [@ EXCEPT !.at = at, !.word = w]]
          \/ ask' = [ask EXCEPT ![q].at = at]
      BY <2>1
  <2>5. \/ ask'[q] = [ask[q] EXCEPT !.at = at, !.from = f]
        \/ ask'[q] = [ask[q] EXCEPT !.at = at, !.word = w]
        \/ ask'[q] = [ask[q] EXCEPT !.at = at]
      BY <2>2, <2>4
  <2> QED
      BY <2>3, <2>5 DEF Askers
<1>3. ASSUME NEW r \in Runs, End(r) \/ Resume(r)
      PROVE  ask'[q].seen = ask[q].seen
  <2>1. \/ ask'[q] = ask[q] \/ ask'[q] = [ask[q] EXCEPT !.at = "gone"]
        \/ ask'[q] = [ask[q] EXCEPT !.from = Len(log')]
      BY <1>3 DEF End, Left, Resume
  <2> QED
      BY <2>1 DEF TypeOK, Askers
<1>4. ASSUME Crash PROVE ask'[q].seen = ask[q].seen
  <2>1. \/ ask'[q] = ask[q] \/ ask'[q] = [ask[q] EXCEPT !.at = "none"]
        \/ ask'[q] = [ask[q] EXCEPT !.at = "standing"]
      BY <1>4 DEF Crash
  <2> QED
      BY <2>1 DEF TypeOK, Askers
<1>5. ASSUME \/ WriteChange \/ ChangeReturns \/ Fold
             \/ \E r \in Runs, v \in {"on", "off"} : Change(r, v)
             \/ \E r \in Runs : StartResume(r)
             \/ \E s \in Surfaces : SurfaceStep(s)
             \/ \E s \in Surfaces, p \in Reqs, w \in {"approve", "deny"},
                   g \in BOOLEAN : Issue(s, p, w, g)
      PROVE  ask'[q].seen = ask[q].seen
    BY <1>5 DEF WriteChange, ChangeReturns, Fold, Change, StartResume,
                SurfaceStep, Enter, Record, Write, Answered, Issue
<1>6. CASE UNCHANGED vars
    BY <1>6 DEF vars
<1> QED
    BY <1>1, <1>2, <1>3, <1>4, <1>5, <1>6 DEF Next, AskStep, EndStep

\* Every step keeps the excuse of what a grant covers and nobody answered.
LEMMA ExcusedStep ==
    ASSUME TypeOK, Targeted, NEW q \in Reqs, Knows(q), Lanes(q), Excused(q),
           [Next]_vars
    PROVE  Excused(q)'
<1> DEFINE r == RunOf[q]
           R == {r} \cup Under[r]
           n == Len(log)
           m == Len(log')
           st == LastIn(log, q, n)
<1>0. /\ R \subseteq Runs /\ R \subseteq Things /\ q \in Things /\ q \notin R
      /\ n \in Nat /\ ask[q].seen \in 0..n
    BY DEF Things, TypeOK, Askers
<1>1. ASSUME NEW k \in {"tool", "plan"}, Read(q, k) PROVE Excused(q)'
  <2>1. PICK word \in Answers(q, k) :
          ask' = [ask EXCEPT ![q] = [@ EXCEPT !.at = "read", !.word = word,
                                              !.seen = view]]
      BY <1>1 DEF Read
  <2>2. log' = log /\ kind'[q] = k
      BY <1>1 DEF Read, TypeOK
  <2>6. ask'[q].word = word /\ ask'[q].seen = view
    <3>1. ask \in [Reqs -> Askers(n)]
        BY DEF TypeOK
    <3>2. ask[q] \in Askers(n)
        BY <3>1
    <3>3. ask'[q] = [ask[q] EXCEPT !.at = "read", !.word = word, !.seen = view]
        BY <2>1, <3>1
    <3> QED
        BY <3>2, <3>3 DEF Askers
  <2>3. st = "-"
      BY <1>1 DEF Knows, Read
  <2>4. Covered(r, view) <=> CoveredIn(log, r, view)
      BY <1>0, LastIsLast DEF Covered, CoveredIn
  <2>5. k = "tool" /\ word = "none" => ~CoveredIn(log, r, view)
      BY <2>4 DEF Answers
  <2> QED
      BY <2>2, <2>3, <2>5, <2>6 DEF Excused
<1>2. CASE kind'[q] # "tool"
    BY <1>2 DEF Excused
<1>3. CASE kind'[q] = "tool" /\ \A k \in {"tool", "plan"} : ~Read(q, k)
  <2>1. ~Post(q) /\ kind[q] = "tool" /\ ask'[q].seen = ask[q].seen
    <3>1. ~Post(q)
        BY <1>3 DEF Post, TypeOK
    <3> QED
        BY <1>3, <3>1, KindStays, SeenStays
  <2>2. ASSUME NEW e \in Entry, Commit(e)
        PROVE  /\ m \in Nat /\ n <= m
               /\ \A i \in 1..n : log'[i] = log[i]
               /\ \A i \in (n + 1)..m : log'[i] = e
               /\ \A x \in Things : \A j \in 0..n :
                     LastIn(log', x, j) = LastIn(log, x, j)
               /\ \A x \in Things : LastIn(log', x, m)
                     = IF e[x] = "-" THEN LastIn(log, x, n) ELSE e[x]
      BY <2>2, Commits DEF TypeOK
  <2>3. CoveredIn(log', r, ask[q].seen) => CoveredIn(log, r, ask[q].seen)
    <3>1. PICK e \in Entry : Commit(e)
        BY Grows
    <3>2. \A x \in R : LastIn(log', x, ask[q].seen) = LastIn(log, x, ask[q].seen)
        BY <1>0, <2>2, <3>1
    <3> QED
        BY <3>2 DEF CoveredIn
  <2>4. ask'[q].at = "read" =>
          ask[q].at = "read" /\ ask'[q].word = ask[q].word
    <3>1. CASE Stays(q)
        BY <3>1 DEF Stays
    <3>2. CASE Asks(q)
      <4>1. Open(q) \/ Opened(q) \/ Hear(q) \/ Reenter(q) \/ Rejoin(q)
          BY <1>3, <2>1, <3>2 DEF Asks
      <4>2. ask \in [Reqs -> Askers(n)]
          BY DEF TypeOK
      <4>3. ask[q] \in Askers(n)
          BY <4>2
      <4>4. CASE Open(q)
          BY <4>2, <4>3, <4>4 DEF Open, Askers
      <4>5. CASE Opened(q)
        <5>1. PICK at \in {"waiting", "answered"} :
                ask' = [ask EXCEPT ![q] = [@ EXCEPT !.at = at, !.from = From(q)]]
            BY <4>5 DEF Opened
        <5>2. ask'[q] = [ask[q] EXCEPT !.at = at, !.from = From(q)]
            BY <4>2, <5>1
        <5> QED
            BY <4>3, <5>2 DEF Askers
      <4>6. CASE Hear(q)
        <5>1. PICK w : ask' = [ask EXCEPT ![q] =
                                [@ EXCEPT !.at = "answered", !.word = w]]
            BY <4>6, Zenon DEF Hear
        <5>2. ask'[q] = [ask[q] EXCEPT !.at = "answered", !.word = w]
            BY <4>2, <5>1
        <5> QED
            BY <4>3, <5>2 DEF Askers
      <4>7. CASE Reenter(q)
        <5>1. \E w : \/ ask' = [ask EXCEPT ![q] =
                                 [@ EXCEPT !.at = "answered", !.word = w]]
                     \/ ask' = [ask EXCEPT ![q] =
                                 [@ EXCEPT !.at = "reread", !.word = w]]
            BY <4>7, Zenon DEF Reenter
        <5>2. PICK w : \/ ask'[q] = [ask[q] EXCEPT !.at = "answered", !.word = w]
                       \/ ask'[q] = [ask[q] EXCEPT !.at = "reread", !.word = w]
            BY <4>2, <5>1
        <5> QED
            BY <4>3, <5>2 DEF Askers
      <4>8. CASE Rejoin(q)
        <5>1. \/ ask' = [ask EXCEPT ![q] =
                           [@ EXCEPT !.at = "waiting", !.from = From(q)]]
              \/ ask' = [ask EXCEPT ![q].at = "answered"]
            BY <4>8 DEF Rejoin
        <5>2. \/ ask'[q] = [ask[q] EXCEPT !.at = "waiting", !.from = From(q)]
              \/ ask'[q] = [ask[q] EXCEPT !.at = "answered"]
            BY <4>2, <5>1
        <5> QED
            BY <4>3, <5>2 DEF Askers
      <4> QED
          BY <4>1, <4>4, <4>5, <4>6, <4>7, <4>8
    <3> QED
        BY <3>1, <3>2, Others
  <2>5. ask'[q].at = "read" /\ ask'[q].word = "none" =>
          ~CoveredIn(log', r, ask'[q].seen)
      BY <2>1, <2>3, <2>4 DEF Excused
  <2> DEFINE Granted(l, k) == \E i \in (ask[q].seen + 1)..k :
                              /\ \A j \in 1..i : l[j][q] = "-"
                              /\ \E a \in R : l[i][a] = "on"
  <2>6. ASSUME Granted(log, n) PROVE Granted(log', m)
    <3>1. PICK e \in Entry : Commit(e)
        BY Grows
    <3>2. PICK i \in (ask[q].seen + 1)..n : /\ \A j \in 1..i : log[j][q] = "-"
                                            /\ \E a \in R : log[i][a] = "on"
        BY <2>6
    <3>3. m \in Nat /\ n <= m /\ \A j \in 1..n : log'[j] = log[j]
        BY <2>2, <3>1
    <3>4. i \in (ask[q].seen + 1)..m /\ \A j \in 1..i : j \in 1..n
        BY <1>0, <3>3
    <3>5. log'[i] = log[i] /\ \A j \in 1..i : log'[j] = log[j]
        BY <1>0, <3>3, <3>4
    <3> QED
        BY <3>2, <3>4, <3>5
  <2> SUFFICES ASSUME LastIn(log', q, m) = "open", CoveredIn(log', r, m)
               PROVE  Granted(log', m)
      BY <2>1, <2>5 DEF Excused
  <2> HIDE DEF Granted
  <2>7. PICK a \in R : /\ LastIn(log', a, m) = "on"
                       /\ \A b \in R : a \in Under[b] => LastIn(log', b, m) = "-"
      BY DEF CoveredIn
  <2>8. CASE Open(q)
    <3>1. PICK e \in Entry :
            /\ Commit(e) /\ \A x \in Things \ {q} : e[x] = "-"
            /\ e[q] = IF ask[q].word = "none" THEN "open" ELSE ask[q].word
        BY <2>8, Opens DEF Opening
    <3>2. /\ ask[q].word = "none" /\ ask[q].at = "read" /\ st = "-"
      <4>1. ask[q].at = "read" /\ ask[q].word \in Words \cup {"none"}
          BY <2>8 DEF Open, TypeOK, Askers
      <4>2. e[q] # "-" /\ LastIn(log', q, m) = e[q]
          BY <1>0, <2>2, <3>1, <4>1 DEF Words
      <4> QED
          BY <3>1, <4>1, <4>2 DEF Knows, Words
    <3>3. \A x \in R : e[x] = "-" /\ LastIn(log', x, m) = LastIn(log, x, n)
        BY <1>0, <2>2, <3>1
    <3>4. PICK i \in 1..n : /\ log[i][a] # "-" /\ LastIn(log, a, n) = log[i][a]
                            /\ \A j \in (i + 1)..n : log[j][a] = "-"
      <4>1. LastIn(log, a, n) = "on" /\ a \in Things /\ n \in 0..Len(log)
          BY <1>0, <2>7, <3>3
      <4> QED
          BY <4>1, LastCases DEF TypeOK
    <3>5. log[i][a] = "on"
        BY <2>7, <3>3, <3>4
    <3>6. ask[q].seen < i
      <4> SUFFICES ASSUME i <= ask[q].seen PROVE FALSE
          BY <1>0
      <4>1. i \in 1..ask[q].seen /\ \A j \in (i + 1)..ask[q].seen : log[j][a] = "-"
          BY <1>0, <3>4
      <4>2. LastIn(log, a, ask[q].seen) = "on"
        <5>1. log \in Seq(Entry) /\ a \in Things /\ ask[q].seen \in 0..Len(log)
            BY <1>0 DEF TypeOK
        <5>2. log[i][a] # "-"
            BY <3>5
        <5> HIDE DEF n
        <5> QED
            BY <3>5, <4>1, <5>1, <5>2, LastIs
      <4>3. \A b \in R : a \in Under[b] => LastIn(log, b, ask[q].seen) = "-"
        <5> SUFFICES ASSUME NEW b \in R, a \in Under[b]
                     PROVE  LastIn(log, b, ask[q].seen) = "-"
            OBVIOUS
        <5>1. LastIn(log, b, n) = "-" /\ b \in Things /\ n \in 0..Len(log)
            BY <1>0, <2>7, <3>3
        <5>2. \A j \in 1..n : log[j][b] = "-"
          <6>1. log \in Seq(Entry)
              BY DEF TypeOK
          <6> HIDE DEF n
          <6>2. \/ \A j \in 1..n : log[j][b] = "-"
                \/ \E j \in 1..n : log[j][b] # "-" /\ LastIn(log, b, n) = log[j][b]
              BY <5>1, <6>1, LastCases
          <6> QED
              BY <5>1, <6>2
        <5>3. \A j \in 1..ask[q].seen : log[j][b] = "-"
            BY <1>0, <5>2
        <5> QED
            BY <1>0, <5>1, <5>3, LastIsNone DEF TypeOK
      <4>4. CoveredIn(log, r, ask[q].seen)
          BY <4>2, <4>3 DEF CoveredIn
      <4> QED
          BY <2>1, <3>2, <4>4 DEF Excused
    <3>7. \A j \in 1..n : log[j][q] = "-"
      <4>1. n \in 0..Len(log)
          BY <1>0
      <4> QED
          BY <1>0, <3>2, <4>1, LastCases DEF TypeOK
    <3>8. \A j \in 1..i : log[j][q] = "-"
        BY <1>0, <3>7
    <3>9. Granted(log, n)
        BY <1>0, <3>5, <3>6, <3>8 DEF Granted
    <3> QED
        BY <2>6, <3>9
  <2>9. CASE ~Open(q)
    <3>1. PICK e \in Entry :
            /\ Commit(e) /\ e[q] \in {"-"} \cup Words
            /\ Deciding(e) \/ \A x \in R : e[x] = "-"
      <4> DEFINE Fine(e) == /\ Commit(e) /\ e[q] \in {"-"} \cup Words
                            /\ Deciding(e) \/ \A x \in R : e[x] = "-"
      <4>1. CASE \E e \in Entry : Commit(e) /\ Deciding(e)
          BY <4>1 DEF Deciding
      <4>2. ASSUME NEW p \in Reqs, Opening(p) PROVE \E e \in Entry : Fine(e)
        <5>1. PICK e \in Entry :
                /\ Commit(e) /\ \A x \in Things \ {p} : e[x] = "-"
                /\ Rejoin(p) => e[p] = IF ask[p].word = "none" THEN "-"
                                      ELSE ask[p].word
            BY <4>2, Opens
        <5>2. \A x \in R : e[x] = "-"
            BY <1>0, <5>1 DEF Things
        <5>3. e[q] \in {"-"} \cup Words
          <6>1. CASE p # q
              BY <1>0, <5>1, <6>1
          <6>2. CASE p = q
            <7>1. Rejoin(q) /\ ask[q].word \in Words \cup {"none"}
                BY <2>1, <2>9, <4>2, <6>2 DEF Opening, TypeOK, Askers
            <7> QED
                BY <5>1, <6>2, <7>1
          <6> QED
              BY <6>1, <6>2
        <5> QED
            BY <5>1, <5>2, <5>3
      <4> QED
          BY <4>1, <4>2, Moves
    <3>2. e[q] = "-" /\ st = "open"
        BY <1>0, <2>2, <3>1 DEF Words
    <3>3. CASE e[a] = "-"
      <4>1. LastIn(log, a, n) = "on"
          BY <1>0, <2>2, <2>7, <3>1, <3>3
      <4>2. \A b \in R : a \in Under[b] => LastIn(log, b, n) = "-"
          BY <1>0, <2>2, <2>7, <3>1
      <4>3. CoveredIn(log, r, n)
          BY <4>1, <4>2 DEF CoveredIn
      <4>4. Granted(log, n)
          BY <2>1, <3>2, <4>3 DEF Excused, Granted
      <4> QED
          BY <2>6, <4>4
    <3>4. CASE e[a] # "-"
      <4>1. Deciding(e) /\ e[a] = "on"
          BY <1>0, <2>2, <2>7, <3>1, <3>4
      <4>2. \A b \in R : a \in Under[b] => LastIn(log, b, n) = "-"
          BY <1>0, <2>2, <2>7, <3>1
      <4>3. \A b \in R : Last(b, n) = LastIn(log, b, n)
          BY <1>0, LastIsLast
      <4>4. Reaches(a, q)
          BY <4>2, <4>3 DEF Reaches
      <4>5. IsOpen(q)
          BY <1>0, <3>2, LastIsLast DEF IsOpen, Status
      <4>6. e[q] \in Words
          BY <1>0, <2>1, <4>1, <4>4, <4>5 DEF Deciding
      <4> QED
          BY <3>2, <4>6 DEF Words
    <3> QED
        BY <3>3, <3>4
  <2> QED
      BY <2>8, <2>9
<1> QED
    BY <1>1, <1>2, <1>3

-----------------------------------------------------------------------------
(* Changes that were told of *)

\* What a caller was told of, the view has folded; and what a change wrote,
\* or found, stands where no other change came after those it knew.
Timed ==
    /\ change.at \in {"idle", "returned"} => change.to <= view
    /\ \A s \in Surfaces :
          surf[s].at \in {"idle", "queued", "told"} => surf[s].to <= view
    /\ change.at \in {"settling", "returned"} =>
          \/ LastIn(log, change.run, Len(log)) = change.value
          \/ \E i \in (change.since + 1)..Len(log) : log[i][change.run] # "-"

\* Whoever has an answer, the view has folded what the answer stands on.
LEMMA ReturnedIsFolded ==
    ASSUME TypeOK, Timed, change.at \in {"idle", "returned"}
    PROVE  Returned \in 0..view
<1> DEFINE T == {change.to} \cup
                {surf[s].to : s \in {t \in Surfaces : surf[t].at = "told"}}
<1>1. view \in Nat /\ change.to \in Nat
    BY DEF TypeOK, Changes
<1>2. \A s \in Surfaces : surf[s].to \in Nat
    BY DEF TypeOK, Deciders
<1>3. T \in SUBSET (0..view)
    BY <1>1, <1>2 DEF Timed
<1>4. Max(T) \in T
    BY <1>1, <1>3, Greatest
<1> QED
    BY <1>3, <1>4 DEF Returned

\* A step leaves the view or advances it, within the log.
LEMMA ViewGrows ==
    ASSUME TypeOK, [Next]_vars
    PROVE  view <= view'
<1>1. view' = view \/ Fold \/ Crash
    BY DEF vars, Next, Read, Post, AskStep, Open, Opened, Hear, Rejoin, Reenter,
           Retire, EndStep, End, StartResume, Resume, Change, WriteChange,
           ChangeReturns, SurfaceStep, Enter, Record, Write, Answered, Issue
<1>2. view \in 0..Len(log)
    BY DEF TypeOK
<1>3. Fold => view <= view'
    BY <1>2 DEF Fold
<1>4. Crash => view <= view'
    BY <1>2 DEF Crash
<1> QED
    BY <1>1, <1>2, <1>3, <1>4

\* A step of a surface is told of what it wrote once the view has it.
LEMMA ToldStep ==
    ASSUME TypeOK, TypeOK', Timed, [Next]_vars, NEW s \in Surfaces,
           surf'[s].at \in {"idle", "queued", "told"}
    PROVE  surf'[s].to <= view'
<1>0. /\ view \in Nat /\ view' \in Nat /\ view <= view'
      /\ surf[s].to \in Nat /\ surf'[s].to \in Nat
    BY ViewGrows DEF TypeOK, Deciders
<1>1. \/ surf'[s] = surf[s] \/ Enter(s) \/ Record(s) \/ Write(s) \/ Answered(s)
      \/ Crash
      \/ \E q \in Reqs, w \in {"approve", "deny"}, g \in BOOLEAN :
            Issue(s, q, w, g)
  <2>1. ASSUME NEW t \in Surfaces, t # s,
               \/ SurfaceStep(t)
               \/ \E q \in Reqs, w \in {"approve", "deny"}, g \in BOOLEAN :
                      Issue(t, q, w, g)
        PROVE  surf'[s] = surf[s]
    <3>1. \E a : surf' = [surf EXCEPT ![t] = a]
        BY <2>1, Zenon DEF SurfaceStep, Enter, Record, Write, Answered, Issue
    <3> QED
        BY <2>1, <3>1 DEF TypeOK
  <2>2. ASSUME NEW q \in Reqs,
               \/ \E k \in {"tool", "plan"} : Read(q, k)
               \/ Post(q) \/ AskStep(q) \/ Reenter(q) \/ Retire(q)
               \/ EndStep(RunOf[q])
        PROVE  surf' = surf
      BY <2>2 DEF Read, Post, AskStep, Open, Opened, Hear, Rejoin, Reenter,
                  Retire, EndStep, End, StartResume, Resume
  <2>3. ASSUME \/ \E r \in Runs, v \in {"on", "off"} : Change(r, v)
               \/ WriteChange \/ ChangeReturns \/ Fold \/ UNCHANGED vars
        PROVE  surf' = surf
      BY <2>3 DEF Change, WriteChange, ChangeReturns, Fold, vars
  <2> QED
      BY <2>1, <2>2, <2>3 DEF Next, SurfaceStep
<1>2. surf \in [Surfaces -> Deciders(Len(log))]
    BY DEF TypeOK
<1>3. surf[s] \in Deciders(Len(log))
    BY <1>2
<1>4. CASE surf'[s] = surf[s]
    BY <1>0, <1>4 DEF Timed
<1>5. CASE Enter(s)
  <2>1. PICK at \in {"told", "writing", "recording"} :
          surf' = [surf EXCEPT ![s].at = at]
      BY <1>5 DEF Enter
  <2>2. surf'[s] = [surf[s] EXCEPT !.at = at]
      BY <1>2, <2>1
  <2>3. surf'[s].to = surf[s].to
      BY <1>3, <2>2 DEF Deciders
  <2>4. surf[s].at = "queued"
      BY <1>5 DEF Enter
  <2> QED
      BY <1>0, <2>3, <2>4 DEF Timed
<1>6. CASE Record(s) \/ Write(s)
  <2>1. \E n : \/ surf' = [surf EXCEPT ![s].at = "writing"]
               \/ surf' = [surf EXCEPT ![s] =
                             [@ EXCEPT !.at = "settling", !.to = n]]
      BY <1>6, Zenon DEF Record, Write
  <2>2. PICK n : \/ surf'[s] = [surf[s] EXCEPT !.at = "writing"]
                 \/ surf'[s] = [surf[s] EXCEPT !.at = "settling", !.to = n]
      BY <1>2, <2>1
  <2> QED
      BY <1>3, <2>2 DEF Deciders
<1>7. CASE Answered(s)
  <2>1. surf' = [surf EXCEPT ![s].at = "told"] /\ view' = view
        /\ surf[s].to <= view
      BY <1>0, <1>7 DEF Answered, Folded
  <2>2. surf'[s] = [surf[s] EXCEPT !.at = "told"]
      BY <1>2, <2>1
  <2> QED
      BY <1>3, <2>1, <2>2 DEF Deciders
<1>8. CASE Crash
  <2>1. surf'[s] = IF surf[s].at = "told" THEN surf[s] ELSE Quiet
      BY <1>8 DEF Crash
  <2> QED
      BY <1>0, <2>1 DEF Timed, Quiet
<1>9. ASSUME NEW q \in Reqs, NEW w \in {"approve", "deny"}, NEW g \in BOOLEAN,
             Issue(s, q, w, g)
      PROVE  surf'[s].to <= view'
  <2>1. PICK held : surf' = [surf EXCEPT ![s] =
                               [@ EXCEPT !.at = "queued", !.of = q, !.word = w,
                                         !.grant = g, !.held = held]]
      BY <1>9 DEF Issue
  <2>2. surf'[s] = [surf[s] EXCEPT !.at = "queued", !.of = q, !.word = w,
                                   !.grant = g, !.held = held]
      BY <1>2, <2>1
  <2>3. surf'[s].to = surf[s].to
      BY <1>3, <2>2 DEF Deciders
  <2>4. surf[s].at = "idle"
      BY <1>9 DEF Issue
  <2> QED
      BY <1>0, <2>3, <2>4 DEF Timed
<1> QED
    BY <1>1, <1>4, <1>5, <1>6, <1>7, <1>8, <1>9

\* Every step keeps a change that was told of in force.
LEMMA TimedStep ==
    ASSUME TypeOK, Targeted, TypeOK', Timed, [Next]_vars
    PROVE  Timed'
<1> DEFINE n == Len(log)
           m == Len(log')
           Stands(l, k, r, v, i) ==
               LastIn(l, r, k) = v \/ \E j \in (i + 1)..k : l[j][r] # "-"
<1>0. /\ log \in Seq(Entry) /\ change \in Changes(n) /\ n \in Nat /\ m \in Nat
      /\ view \in 0..n /\ view' \in 0..m /\ view <= view'
    BY ViewGrows DEF TypeOK
<1>1. /\ change.to \in Nat /\ change.since \in 0..n
      /\ change.value \in {"on", "off"}
      /\ change.at # "idle" => change.run \in Runs /\ change.run \in Things
    BY <1>0 DEF Changes, Targeted, Things
<1>2. ASSUME NEW e \in Entry, Commit(e)
      PROVE  /\ n <= m /\ \A i \in 1..n : log'[i] = log[i]
             /\ \A i \in (n + 1)..m : log'[i] = e
             /\ \A x \in Things :
                   /\ LastIn(log', x, m)
                        = IF e[x] = "-" THEN LastIn(log, x, n) ELSE e[x]
                   /\ e[x] # "-" => m = n + 1
    BY <1>0, <1>2, Commits
<1>3. ASSUME NEW x \in Things, NEW v, NEW i \in 0..n, Stands(log, n, x, v, i)
      PROVE  Stands(log', m, x, v, i)
  <2>1. PICK e \in Entry : Commit(e)
      BY Grows
  <2>2. CASE LastIn(log, x, n) = v
    <3>1. CASE e[x] = "-"
        BY <1>2, <2>1, <2>2, <3>1
    <3>2. CASE e[x] # "-"
      <4>1. m = n + 1 /\ log'[m] = e
          BY <1>0, <1>2, <2>1, <3>2
      <4> QED
          BY <1>0, <3>2, <4>1
    <3> QED
        BY <3>1, <3>2
  <2>3. ASSUME NEW j \in (i + 1)..n, log[j][x] # "-"
        PROVE  Stands(log', m, x, v, i)
      BY <1>0, <1>2, <2>1, <2>3
  <2> QED
      BY <1>3, <2>2, <2>3
<1>4. CASE change' = change
  <2>1. change.at \in {"settling", "returned"} =>
          Stands(log', m, change.run, change.value, change.since)
      BY <1>1, <1>3 DEF Timed
  <2>2. change.at \in {"idle", "returned"} => change.to <= view'
      BY <1>0, <1>1 DEF Timed
  <2> QED
      BY <1>4, <2>1, <2>2, ToldStep DEF Timed
<1>5. ASSUME NEW r \in Runs, NEW v \in {"on", "off"}, Change(r, v)
      PROVE  Timed'
  <2>1. PICK at \in {"returned", "writing"} :
          /\ change' = [change EXCEPT !.at = at, !.run = r, !.value = v,
                                      !.since = Returned, !.count = @ + 1]
          /\ at = "returned" => Last(r, view) = v
      BY <1>5 DEF Change
  <2>2. /\ change'.at = at /\ change'.run = r /\ change'.value = v
        /\ change'.since = Returned /\ change'.to = change.to
      BY <1>0, <2>1 DEF Changes
  <2>3. change.at \in {"idle", "returned"} /\ log' = log /\ r \in Things
      BY <1>5 DEF Change, Things
  <2>4. Returned \in 0..view
      BY <2>3, ReturnedIsFolded
  <2>5. at = "returned" => Stands(log, n, r, v, Returned)
    <3> SUFFICES ASSUME at = "returned", ~ \E j \in (Returned + 1)..n : log[j][r] # "-"
                 PROVE  LastIn(log, r, n) = v
        OBVIOUS
    <3>1. \A j \in (view + 1)..n : log[j][r] = "-"
        BY <1>0, <2>4
    <3>2. LastIn(log, r, n) = LastIn(log, r, view)
        BY <1>0, <2>3, <3>1, LastOfLonger
    <3> QED
        BY <2>1, <2>3, <3>2, LastIsLast
  <2>6. change'.at \in {"idle", "returned"} => change'.to <= view'
      BY <1>0, <1>1, <2>2, <2>3 DEF Timed
  <2>7. change'.at \in {"settling", "returned"} =>
          Stands(log', m, change'.run, change'.value, change'.since)
      BY <2>2, <2>3, <2>5
  <2> QED
      BY <2>6, <2>7, ToldStep DEF Timed
<1>6. CASE WriteChange
  <2>1. PICK k : change' = [change EXCEPT !.at = "settling", !.to = k]
      BY <1>6 DEF WriteChange
  <2>2. /\ change'.at = "settling" /\ change'.run = change.run
        /\ change'.value = change.value /\ change'.since = change.since
      BY <1>0, <2>1 DEF Changes
  <2>3. change.run \in Runs /\ change.run \in Things
      BY <1>1, <1>6 DEF WriteChange
  <2> DEFINE g == GrantRows(change.run, change.value)
  <2>4. /\ g \in Entry /\ Commit(g)
        /\ g[change.run] = "-" => Last(change.run, n) = change.value
        /\ g[change.run] # "-" => g[change.run] = change.value
      BY <1>1, <1>6, <2>3, GrantDecides DEF WriteChange
  <2>5. LastIn(log', change.run, m) = change.value
      BY <1>2, <2>3, <2>4, LastIsLast
  <2> QED
      BY <2>2, <2>5, ToldStep DEF Timed
<1>7. CASE ChangeReturns
  <2>1. /\ change' = [change EXCEPT !.at = "returned"] /\ log' = log
        /\ change.at = "settling" /\ change.to <= view /\ view' = view
      BY <1>0, <1>1, <1>7 DEF ChangeReturns, Folded
  <2>2. /\ change'.at = "returned" /\ change'.run = change.run
        /\ change'.value = change.value /\ change'.since = change.since
        /\ change'.to = change.to
      BY <1>0, <2>1 DEF Changes
  <2> QED
      BY <2>1, <2>2, ToldStep DEF Timed
<1>8. CASE Crash
  <2>1. change' = [change EXCEPT !.at = "idle"] /\ log' = log /\ view' = n
      BY <1>8 DEF Crash
  <2>2. change'.at = "idle" /\ change'.to = change.to /\ change.to \in 0..n
      BY <1>0, <2>1 DEF Changes
  <2> QED
      BY <1>0, <2>1, <2>2, ToldStep DEF Timed
<1> QED
  <2>1. ASSUME NEW q \in Reqs,
               \/ \E k \in {"tool", "plan"} : Read(q, k)
               \/ Post(q) \/ AskStep(q) \/ Reenter(q) \/ Retire(q)
               \/ EndStep(RunOf[q])
        PROVE  change' = change
      BY <2>1 DEF Read, Post, AskStep, Open, Opened, Hear, Rejoin, Reenter,
                  Retire, EndStep, End, StartResume, Resume
  <2>2. ASSUME NEW s \in Surfaces,
               \/ SurfaceStep(s)
               \/ \E q \in Reqs, w \in {"approve", "deny"}, g \in BOOLEAN :
                      Issue(s, q, w, g)
        PROVE  change' = change
      BY <2>2 DEF SurfaceStep, Enter, Record, Write, Answered, Issue
  <2>3. ASSUME Fold \/ UNCHANGED vars PROVE change' = change
      BY <2>3 DEF Fold, vars
  <2> QED
      BY <1>4, <1>5, <1>6, <1>7, <1>8, <2>1, <2>2, <2>3 DEF Next

-----------------------------------------------------------------------------
(* The invariant, and what follows of it *)

IInv ==
    /\ TypeOK /\ Targeted /\ Timed
    /\ \A q \in Reqs : Knows(q) /\ Prefixes(q) /\ Lanes(q) /\ Agrees(q)
                        /\ Excused(q)

\* Nothing asked, nothing told.
LEMMA IInvInit == Init => IInv
<1> SUFFICES ASSUME Init PROVE IInv
    OBVIOUS
<1>1. log = <<>> /\ Len(log) = 0 /\ view = 0
    BY DEF Init
<1>2. ask = [q \in Reqs |-> [at |-> "none", word |-> "none", from |-> 0, seen |-> 0]]
    BY DEF Init
<1>3. surf = [s \in Surfaces |-> Quiet] /\ Quiet \in Deciders(0)
    BY DEF Init, Quiet, Deciders, Words
<1>4. change = [at |-> "idle", run |-> None, value |-> "off", since |-> 0,
                to |-> 0, count |-> 0]
    BY DEF Init
<1>5. TypeOK
  <2>1. ask \in [Reqs -> Askers(0)]
      BY <1>2 DEF Askers
  <2>2. change \in Changes(0)
      BY <1>4 DEF Changes
  <2>3. log \in Seq(Entry) /\ view \in 0..Len(log)
      BY <1>1
  <2> QED
      BY <1>1, <1>3, <2>1, <2>2, <2>3 DEF Init, TypeOK
<1>6. \A s \in Surfaces : surf[s].at = "idle" /\ surf[s].to = 0
    BY <1>3 DEF Quiet
<1>7. change.at = "idle" /\ change.to = 0
    BY <1>4
<1>8. Targeted /\ Timed
    BY <1>1, <1>6, <1>7 DEF Targeted, Timed
<1>9. ASSUME NEW q \in Reqs
      PROVE  Knows(q) /\ Prefixes(q) /\ Lanes(q) /\ Agrees(q) /\ Excused(q)
  <2>1. /\ ask[q].at = "none" /\ kind[q] = "none" /\ side[q] = "none"
      BY <1>2 DEF Init
  <2>2. \A n \in 0..0 : LastIn(log, q, n) = "-"
    <3> SUFFICES ASSUME NEW n \in 0..0 PROVE LastIn(log, q, n) = "-"
        OBVIOUS
    <3>1. log \in Seq(Entry) /\ q \in Things /\ n \in 0..Len(log)
        BY <1>1, <1>5 DEF TypeOK, Things
    <3>2. \A i \in 1..n : log[i][q] = "-"
        OBVIOUS
    <3> QED
        BY <3>1, <3>2, LastIsNone
  <2>3. LastIn(log, q, 0) = "-"
      BY <2>2
  <2>4. "-" \notin Words
      BY DEF Words
  <2>5. Knows(q) /\ Lanes(q) /\ Agrees(q) /\ Excused(q)
      BY <1>1, <1>6, <2>1, <2>3, <2>4
      DEF Knows, Lanes, Agrees, Excused, InLane
  <2>6. Prefixes(q)
      BY <1>1, <2>2, <2>4 DEF Prefixes
  <2> QED
      BY <2>5, <2>6
<1> QED
    BY <1>5, <1>8, <1>9 DEF IInv

\* Every step keeps it.
LEMMA IInvStep == IInv /\ [Next]_vars => IInv'
<1> SUFFICES ASSUME IInv, [Next]_vars PROVE IInv'
    OBVIOUS
<1>1. TypeOK /\ Targeted /\ Timed
    BY DEF IInv
<1>2. TypeOK' /\ Targeted'
    BY <1>1, TypeStep
<1>3. Timed'
    BY <1>1, <1>2, TimedStep
<1>4. ASSUME NEW q \in Reqs
      PROVE  Knows(q)' /\ Prefixes(q)' /\ Lanes(q)' /\ Agrees(q)' /\ Excused(q)'
  <2>1. Knows(q) /\ Prefixes(q) /\ Lanes(q) /\ Agrees(q) /\ Excused(q)
      BY DEF IInv
  <2>2. Knows(q)'
      BY <1>1, <2>1, KnowsStep
  <2>3. Prefixes(q)'
      BY <1>1, <1>2, <2>1, PrefixesStep
  <2>4. Lanes(q)'
      BY <1>1, <1>2, <2>1, LanesStep
  <2>5. Agrees(q)'
      BY <1>1, <1>2, <2>1, <2>4, AgreesStep
  <2>6. Excused(q)'
      BY <1>1, <2>1, ExcusedStep
  <2> QED
      BY <2>2, <2>3, <2>4, <2>5, <2>6
<1> QED
    BY <1>2, <1>3, <1>4 DEF IInv

\* In every reachable state.
LEMMA Inductive == Spec => []IInv
BY IInvInit, IInvStep, PTL DEF Spec

\* Every variable keeps its type, and what an asker, a surface and a change
\* remember of the log lies within it.
THEOREM TypeCorrect == Spec => []TypeOK
<1>1. IInv => TypeOK
    BY DEF IInv
<1> QED
    BY <1>1, Inductive, PTL

\* A call goes on with the decision its rows record (requests.ts
\* openRequest and decisionOf): whether its policy answered, a surface did, a
\* grant or a run's end, and also over a crash and a resume.
THEOREM AnswersAreRecorded == Spec => []AnswerIsRecord
<1>1. IInv => AnswerIsRecord
  <2> SUFFICES ASSUME IInv, NEW q \in Reqs, ask[q].at = "answered"
               PROVE  Status(q) = ask[q].word
      BY DEF AnswerIsRecord
  <2>1. LastIn(log, q, Len(log)) = ask[q].word
      BY DEF IInv, Knows
  <2> QED
      BY <2>1, LastIsLast DEF Status, Things
<1> QED
    BY <1>1, Inductive, PTL

\* A decision that lands between a call's batch and its first look at the log
\* is in what it looks at (requests.ts openRequest): no call waits for a
\* decision already made.
THEOREM NoDecisionIsLost == Spec => []NoLostDecision
<1>1. IInv => NoLostDecision
  <2> SUFFICES ASSUME IInv, NEW q \in Reqs, ask[q].at = "waiting", Decided(q)
               PROVE  Heard(q) # {}
      BY DEF NoLostDecision
  <2>1. /\ log \in Seq(Entry) /\ ask[q].from \in 0..Len(log)
        /\ Len(log) \in 0..Len(log) /\ q \in Things
      BY DEF IInv, TypeOK, Askers, Things
  <2>2. LastIn(log, q, Len(log)) \in Words /\ LastIn(log, q, ask[q].from) \notin Words
      BY <2>1, LastIsLast DEF IInv, Knows, Decided, Status
  <2>3. PICK i \in 1..Len(log) :
          /\ log[i][q] # "-" /\ LastIn(log, q, Len(log)) = log[i][q]
          /\ \A j \in (i + 1)..Len(log) : log[j][q] = "-"
      BY <2>1, <2>2, LastCases DEF Words
  <2>4. ~(i <= ask[q].from)
    <3> SUFFICES ASSUME i <= ask[q].from PROVE FALSE
        OBVIOUS
    <3>1. i \in 1..ask[q].from /\ \A j \in (i + 1)..ask[q].from : log[j][q] = "-"
        BY <2>1, <2>3
    <3>2. LastIn(log, q, ask[q].from) = log[i][q]
        BY <2>1, <2>3, <3>1, LastIs
    <3> QED
        BY <2>2, <2>3, <3>2
  <2>5. i \in Heard(q)
      BY <2>1, <2>2, <2>3, <2>4 DEF Heard
  <2> QED
      BY <2>5
<1> QED
    BY <1>1, Inductive, PTL

\* A plugin's own record of a decision is its request's row
\* (SessionRequests.ts): the lane of the request keeps two surfaces apart,
\* and only the run's end or a crash comes between the two writes.
THEOREM PluginsAgree == Spec => []PluginAgrees
<1>1. IInv => PluginAgrees
  <2> SUFFICES ASSUME IInv, NEW q \in Reqs, side[q] # "none",
                      \A s \in Surfaces : surf[s].of = q => surf[s].at # "writing"
               PROVE  \/ Status(q) \in {side[q], "cancel"}
                      \/ IsOpen(q) /\ crashes > 0
      BY DEF PluginAgrees
  <2>1. Status(q) = LastIn(log, q, Len(log))
      BY LastIsLast DEF Status, Things
  <2>2. Agrees(q)
      BY DEF IInv
  <2> QED
      BY <2>1, <2>2 DEF Agrees, IsOpen
<1> QED
    BY <1>1, Inductive, PTL

\* No request a grant covers waits for a person (requests.ts
\* approvalsUnder), but one whose call read the view before the grant and
\* opened it after.
THEOREM CoveredAreDecided == Spec => []CoveredIsDecided
<1>1. IInv => CoveredIsDecided
  <2> SUFFICES ASSUME IInv, NEW q \in Reqs, kind[q] = "tool", IsOpen(q),
                      Covered(RunOf[q], Len(log))
               PROVE  \E i \in (ask[q].seen + 1)..(OpenedAt(q) - 1) :
                        \E a \in {RunOf[q]} \cup Under[RunOf[q]] :
                            log[i][a] = "on"
      BY DEF CoveredIsDecided
  <2>1. /\ log \in Seq(Entry) /\ Len(log) \in 0..Len(log) /\ q \in Things
        /\ ask[q].seen \in Nat /\ {RunOf[q]} \cup Under[RunOf[q]] \subseteq Things
      BY DEF IInv, TypeOK, Askers, Things
  <2>2. LastIn(log, q, Len(log)) = "open"
      BY <2>1, LastIsLast DEF IsOpen, Status
  <2>3. CoveredIn(log, RunOf[q], Len(log))
      BY <2>1, LastIsLast DEF Covered, CoveredIn
  <2>4. PICK i \in (ask[q].seen + 1)..Len(log) :
          /\ \A j \in 1..i : log[j][q] = "-"
          /\ \E a \in {RunOf[q]} \cup Under[RunOf[q]] : log[i][a] = "on"
      BY <2>2, <2>3 DEF IInv, Excused
  <2>5. Told(q, Len(log)) \in SUBSET Nat /\ Told(q, Len(log)) # {}
    <3>1. Last(q, Len(log)) # "-"
        BY DEF IsOpen, Status
    <3> QED
        BY <2>1, <3>1 DEF Told, Last
  <2>6. OpenedAt(q) \in Told(q, Len(log))
      BY <2>5, Least DEF OpenedAt
  <2>7. OpenedAt(q) \in 1..Len(log) /\ log[OpenedAt(q)][q] # "-"
      BY <2>6 DEF Told
  <2>8. i < OpenedAt(q)
      BY <2>1, <2>4, <2>7
  <2>9. i \in (ask[q].seen + 1)..(OpenedAt(q) - 1)
      BY <2>1, <2>4, <2>7, <2>8
  <2> QED
      BY <2>4, <2>9
<1> QED
    BY <1>1, Inductive, PTL

\* A change of a grant that was told of stands (runApprovalQueue.ts), also
\* where the view showed the value already and nothing was written, unless
\* another change came after those that had returned when it was asked.
THEOREM ChangesStand == Spec => []ChangeStands
<1>1. IInv => ChangeStands
  <2> SUFFICES ASSUME IInv, change.at = "returned"
               PROVE  \/ Last(change.run, Len(log)) = change.value
                      \/ \E i \in (change.since + 1)..Len(log) :
                             log[i][change.run] # "-"
      BY DEF ChangeStands
  <2>1. change.run \in Things
      BY DEF IInv, Targeted, Things
  <2> QED
      BY <2>1, LastIsLast DEF IInv, Timed
<1> QED
    BY <1>1, Inductive, PTL

\* A decision stands (requests.ts decideRequest): nobody writes over it, but a
\* resumed call whose policy answers where the resume read no decision.
THEOREM DecisionsAreFinal == Spec => DecisionsStand
<1>1. ASSUME IInv, [Next]_vars, NEW q \in Reqs, Decided(q), Status(q)' # Status(q)
      PROVE  ask[q].at = "reread"
  <2>1. TypeOK /\ Targeted /\ Knows(q) /\ q \in Things
      BY <1>1 DEF IInv, Things
  <2>2. Status(q) = LastIn(log, q, Len(log))
      BY <2>1, LastIsLast DEF Status
  <2>3. Status(q)' = LastIn(log', q, Len(log'))
      BY DEF Status, Last, Told, LastIn, ToldIn
  <2>4. LastIn(log, q, Len(log)) \in Words
      BY <1>1, <2>2 DEF Decided
  <2>5. ASSUME NEW e \in Entry, Commit(e) PROVE e[q] # "-"
      BY <1>1, <2>1, <2>2, <2>3, <2>5, Commits DEF TypeOK
  <2>6. ~ \E e \in Entry : Commit(e) /\ Deciding(e)
      BY <1>1, <2>4, <2>5, <2>2 DEF Deciding, IsOpen, Words
  <2>7. PICK p \in Reqs : Opening(p)
      BY <1>1, <2>1, <2>6, Moves
  <2>8. p = q
      BY <2>1, <2>5, <2>7, Opens
  <2>9. ~Open(q) /\ ~Post(q)
      BY <2>1, <2>4 DEF Knows, Open, Post, Words
  <2> QED
      BY <2>7, <2>8, <2>9 DEF Opening, Rejoin
<1>2. IInv /\ [Next]_vars =>
        [\A q \in Reqs : Decided(q) /\ Status(q)' # Status(q)
                         => ask[q].at = "reread"]_vars
    BY <1>1
<1> QED
    BY <1>2, Inductive, PTL DEF Spec, DecisionsStand

-----------------------------------------------------------------------------
(* Each request is a register decided once *)

\* A call that has a request finds it in the log.
Posed(q) ==
    ask[q].at \in {"opened", "waiting", "standing", "reread"} =>
        LastIn(log, q, Len(log)) # "-"

\* What the log told of a request, it goes on telling.
LEMMA ToldStays ==
    ASSUME TypeOK, Targeted, [Next]_vars, NEW q \in Reqs,
           LastIn(log, q, Len(log)) # "-"
    PROVE  LastIn(log', q, Len(log')) # "-"
<1>1. PICK e \in Entry : Commit(e)
    BY Grows
<1> QED
    BY <1>1, Commits DEF TypeOK, Things

\* A request is in the log from its call's batch on.
LEMMA PosedStep ==
    ASSUME TypeOK, Targeted, NEW q \in Reqs, Posed(q), [Next]_vars
    PROVE  Posed(q)'
<1> DEFINE Has == {"opened", "waiting", "standing", "reread"}
<1>1. ASSUME ask[q].at \in Has PROVE Posed(q)'
    BY <1>1, ToldStays DEF Posed
<1>2. CASE Stays(q)
    BY <1>1, <1>2 DEF Stays, Posed
<1>3. CASE Open(q)
  <2>1. PICK e \in Entry :
          Commit(e) /\ e[q] = IF ask[q].word = "none" THEN "open" ELSE ask[q].word
      BY <1>3, Opens DEF Opening
  <2>2. e[q] # "-"
      BY <2>1 DEF TypeOK, Askers, Words
  <2> QED
      BY <2>1, <2>2, Commits DEF TypeOK, Things, Posed
<1>4. CASE \E k \in {"tool", "plan"} : Read(q, k)
    BY <1>4 DEF Read, Posed, TypeOK, Askers
<1>5. CASE Opened(q) \/ Hear(q) \/ Reenter(q) \/ Rejoin(q)
    BY <1>1, <1>5 DEF Opened, Hear, Reenter, Rejoin
<1>6. CASE Post(q)
    BY <1>6 DEF Post, Posed, TypeOK, Askers
<1> QED
    BY <1>2, <1>3, <1>4, <1>5, <1>6, Others DEF Asks

\* So it is in every reachable state.
LEMMA AllPosed == Spec => [](\A q \in Reqs : Posed(q))
<1>1. Init => \A q \in Reqs : Posed(q)
    BY DEF Init, Posed
<1>2. IInv /\ (\A q \in Reqs : Posed(q)) /\ [Next]_vars => (\A q \in Reqs : Posed(q))'
    BY PosedStep DEF IInv
<1> QED
    BY <1>1, <1>2, Inductive, PTL DEF Spec

\* An answer heard is not taken back: the end of a run and a resume let go of
\* the calls that have none.
LEMMA AnswersStay ==
    ASSUME IInv, [Next]_vars, NEW q \in Reqs, ask[q].at = "answered", ~Asks(q)
    PROVE  ask'[q].at = "answered" /\ ask'[q].word = ask[q].word
<1> DEFINE Kept == ask'[q].at = "answered" /\ ask'[q].word = ask[q].word
<1>0. TypeOK /\ Knows(q) /\ Status(q) = ask[q].word
    BY LastIsLast DEF IInv, Knows, Status, Things
<1>1. ~IsOpen(q)
    BY <1>0 DEF IsOpen, TypeOK, Askers, Words
<1>2. ASSUME NEW r \in Runs, End(r) PROVE Kept
    BY <1>0, <1>2 DEF End, Left, TypeOK
<1>3. ASSUME NEW r \in Runs, Resume(r) PROVE Kept
    BY <1>0, <1>1, <1>3 DEF Resume, OpenOf, TypeOK
<1>4. ASSUME Crash PROVE Kept
    BY <1>0, <1>4 DEF Crash, TypeOK
<1>5. ASSUME NEW p \in Reqs,
             \/ \E k \in {"tool", "plan"} : Read(p, k)
             \/ Open(p) \/ Opened(p) \/ Post(p) \/ Hear(p) \/ Reenter(p)
             \/ Rejoin(p) \/ Retire(p)
      PROVE  Kept
  <2>1. \E a : ask' = [ask EXCEPT ![p] = a]
      BY <1>5, Zenon DEF Read, Open, Opened, Post, Hear, Reenter, Rejoin, Retire
  <2>2. p # q
      BY <1>0, <1>5 DEF Asks, Retire
  <2> QED
      BY <1>0, <2>1, <2>2 DEF TypeOK
<1>6. ASSUME \/ WriteChange \/ ChangeReturns \/ Fold
             \/ \E r \in Runs, v \in {"on", "off"} : Change(r, v)
             \/ \E r \in Runs : StartResume(r)
             \/ \E s \in Surfaces : SurfaceStep(s)
             \/ \E s \in Surfaces, p \in Reqs, w \in {"approve", "deny"},
                   g \in BOOLEAN : Issue(s, p, w, g)
      PROVE  Kept
  <2>1. ask' = ask
      BY <1>6 DEF WriteChange, ChangeReturns, Fold, Change, StartResume,
                  SurfaceStep, Enter, Record, Write, Answered, Issue
  <2> QED
      BY <1>0, <2>1
<1>7. ASSUME UNCHANGED vars PROVE Kept
    BY <1>0, <1>7 DEF vars
<1> HIDE DEF Kept
<1>8. Kept
    BY <1>2, <1>3, <1>4, <1>5, <1>6, <1>7, RunOfAssumption
    DEF Next, AskStep, EndStep
<1> QED
    BY <1>8 DEF Kept

\* The state of the register a request's rows and asker make up.
Verdict == [q \in Reqs |-> Status(q)]
Asker == [q \in Reqs |-> AskerOf(q)]

\* What the register's verdict is, in the terms of the proofs.
LEMMA StatusIs ==
    \A q \in Reqs : /\ Status(q) = LastIn(log, q, Len(log))
                    /\ Status(q)' = LastIn(log', q, Len(log'))
<1>1. \A q \in Reqs : Status(q) = LastIn(log, q, Len(log))
    BY LastIsLast DEF Status, Things
<1>2. \A q \in Reqs : Status(q)' = LastIn(log', q, Len(log'))
    BY DEF Status, Last, Told, LastIn, ToldIn
<1> QED
    BY <1>1, <1>2

\* A step that is no asker's own decides open requests, and may end calls.
LEMMA OthersSettle ==
    ASSUME IInv, [Next]_vars, \A q \in Reqs : ~Asks(q)
    PROVE  Register!Settle
<1>1. \A q \in Reqs : ~Opening(q)
    BY DEF Opening, Asks
<1>2. PICK e \in Entry : Commit(e) /\ Deciding(e)
    BY <1>1, Moves DEF IInv
<1>3. \A q \in Reqs : \/ Status(q)' = Status(q)
                      \/ IsOpen(q) /\ Status(q)' \in Words
    BY <1>2, Commits, StatusIs DEF IInv, TypeOK, Things, Deciding
<1>4. \A q \in Reqs : \/ AskerOf(q)' = AskerOf(q)
                      \/ AskerOf(q) = "again" /\ AskerOf(q)' = "asking"
  <2> SUFFICES ASSUME NEW q \in Reqs
               PROVE  \/ AskerOf(q)' = AskerOf(q)
                      \/ AskerOf(q) = "again" /\ AskerOf(q)' = "asking"
      OBVIOUS
  <2>1. Stays(q)
      BY Others DEF IInv
  <2>2. CASE ask[q].at = "answered"
      BY <2>2, AnswersStay DEF AskerOf
  <2>3. CASE ask[q].at # "answered"
      BY <2>1, <2>3 DEF Stays, AskerOf
  <2> QED
      BY <2>2, <2>3
<1>5. Verdict' = [q \in Reqs |-> IF Verdict[q] = "open" THEN Verdict'[q]
                                 ELSE Verdict[q]]
    BY <1>3 DEF IsOpen, Verdict
<1>6. \A q \in Reqs : Verdict[q] = "open" => Verdict'[q] \in {"open"} \cup Words
    BY <1>3 DEF IsOpen, Verdict
<1>7. Asker' = [q \in Reqs |-> IF Asker[q] = "again" /\ Asker'[q] = "asking"
                               THEN "asking" ELSE Asker[q]]
    BY <1>4 DEF Asker
<1> QED
    BY <1>5, <1>6, <1>7 DEF Register!Settle, Register!Words, Words, Verdict, Asker

\* An asker's own step raises its request, hears, asks again or overrules.
LEMMA AskersMove ==
    ASSUME IInv, IInv', \A q \in Reqs : Posed(q), NEW p \in Reqs, Asks(p)
    PROVE  Register!Next \/ UNCHANGED <<Verdict, Asker>>
<1>0. /\ TypeOK /\ TypeOK' /\ Knows(p) /\ Knows(p)' /\ Posed(p)
      /\ ask[p] \in Askers(Len(log)) /\ p \in Things
    BY DEF IInv, TypeOK, Things
<1>1. \A q \in Reqs \ {p} : AskerOf(q)' = AskerOf(q)
  <2>1. \E a : ask' = [ask EXCEPT ![p] = a]
      BY Zenon DEF Asks, Read, Open, Opened, Post, Hear, Reenter, Rejoin
  <2>2. \A q \in Reqs \ {p} : ask'[q] = ask[q]
      BY <1>0, <2>1 DEF TypeOK
  <2> QED
      BY <2>2 DEF AskerOf
<1>2. \A q \in Reqs \ {p} : Status(q)' = Status(q)
  <2>1. CASE Opening(p)
    <3>1. PICK e \in Entry : Commit(e) /\ \A x \in Things \ {p} : e[x] = "-"
        BY <1>0, <2>1, Opens
    <3> QED
        BY <1>0, <3>1, Commits, StatusIs DEF TypeOK, Things
  <2>2. CASE ~Opening(p)
    <3>1. log' = log
        BY <2>2 DEF Opening, Asks, Read, Opened, Hear, Reenter
    <3> QED
        BY <3>1, StatusIs
  <2> QED
      BY <2>1, <2>2
<1>3. ASSUME Status(p)' = Status(p), AskerOf(p)' = AskerOf(p)
      PROVE  UNCHANGED <<Verdict, Asker>>
    BY <1>1, <1>2, <1>3 DEF Verdict, Asker
<1>4. ASSUME Status(p) = "-", Status(p)' \in {"open"} \cup Words,
             AskerOf(p)' = AskerOf(p)
      PROVE  Register!Raise(p)
  <2>1. Verdict' = [Verdict EXCEPT ![p] = Status(p)'] /\ Verdict[p] = "-"
      BY <1>2, <1>4 DEF Verdict
  <2>2. Asker' = Asker
      BY <1>1, <1>4 DEF Asker
  <2> QED
      BY <1>4, <2>1, <2>2 DEF Register!Raise, Register!Words, Words, Verdict, Asker
<1>5. ASSUME AskerOf(p) = "asking", AskerOf(p)' = Status(p), Status(p) \in Words,
             Status(p)' = Status(p)
      PROVE  Register!Hear(p)
  <2>1. Asker' = [Asker EXCEPT ![p] = Verdict[p]] /\ Asker[p] = "asking"
      BY <1>1, <1>5 DEF Asker, Verdict
  <2>2. Verdict' = Verdict /\ Verdict[p] \in Words
      BY <1>2, <1>5 DEF Verdict
  <2> QED
      BY <2>1, <2>2 DEF Register!Hear, Register!Words, Words, Verdict, Asker
<1>6. ASSUME AskerOf(p) = "asking", AskerOf(p)' = "again", Status(p) # "-",
             Status(p)' = Status(p)
      PROVE  Register!Again(p)
  <2>1. Asker' = [Asker EXCEPT ![p] = "again"] /\ Asker[p] = "asking"
      BY <1>1, <1>6 DEF Asker
  <2>2. Verdict' = Verdict /\ Verdict[p] # "-"
      BY <1>2, <1>6 DEF Verdict
  <2> QED
      BY <2>1, <2>2 DEF Register!Again, Verdict, Asker
<1>7. ASSUME AskerOf(p) = "again", AskerOf(p)' = Status(p)', Status(p)' \in Words
      PROVE  Register!Overrule(p)
  <2>1. Asker' = [Asker EXCEPT ![p] = Status(p)'] /\ Asker[p] = "again"
      BY <1>1, <1>7 DEF Asker
  <2>2. Verdict' = [Verdict EXCEPT ![p] = Status(p)']
      BY <1>2, <1>7 DEF Verdict
  <2> QED
      BY <1>7, <2>1, <2>2 DEF Register!Overrule, Register!Words, Words, Verdict, Asker
<1>8. ASSUME AskerOf(p) = "again", AskerOf(p)' = "asking", Status(p)' = Status(p)
      PROVE  Register!Settle
  <2>1. Asker' = [q \in Reqs |-> IF Asker[q] = "again" /\ Asker'[q] = "asking"
                                 THEN "asking" ELSE Asker[q]]
      BY <1>1, <1>8 DEF Asker
  <2>2. Verdict' = Verdict
      BY <1>2, <1>8 DEF Verdict
  <2>3. /\ Verdict' = [q \in Reqs |-> IF Verdict[q] = "open" THEN Verdict'[q]
                                      ELSE Verdict[q]]
        /\ \A q \in Reqs : Verdict[q] = "open"
                             => Verdict'[q] \in {"open"} \cup Words
      BY <2>2 DEF Verdict
  <2> QED
      BY <2>1, <2>3 DEF Register!Settle, Register!Words, Words, Verdict, Asker
<1> DEFINE Goal == Register!Next \/ UNCHANGED <<Verdict, Asker>>
<1>9. /\ Register!Raise(p) \/ Register!Hear(p) \/ Register!Again(p)
         \/ Register!Overrule(p) \/ Register!Settle => Goal
      /\ UNCHANGED <<Verdict, Asker>> => Goal
    BY DEF Register!Next
<1> SUFFICES Goal
    OBVIOUS
<1> HIDE DEF Goal
<1>a. "none" \notin Words /\ "-" \notin Words /\ ask[p].word \in Words \cup {"none"}
    BY <1>0 DEF Words, Askers
<1>s. /\ Status(p) = LastIn(log, p, Len(log))
      /\ Status(p)' = LastIn(log', p, Len(log'))
      /\ log' = log => Status(p)' = Status(p)
    BY StatusIs
<1>10. CASE \E k \in {"tool", "plan"} : Read(p, k)
  <2>1. log' = log /\ ask[p].at = "none" /\ ask'[p].at = "read"
      BY <1>0, <1>10 DEF Read, TypeOK
  <2> QED
      BY <1>3, <1>9, <1>s, <2>1 DEF AskerOf
<1>11. CASE Open(p)
  <2>1. ask[p].at = "read" /\ ask'[p].at = "opened"
      BY <1>0, <1>11 DEF Open, TypeOK
  <2>2. PICK e \in Entry :
          Commit(e) /\ e[p] = IF ask[p].word = "none" THEN "open" ELSE ask[p].word
      BY <1>0, <1>11, Opens DEF Opening
  <2>3. e[p] \in {"open"} \cup Words
      BY <1>a, <2>2
  <2>4. Status(p)' = e[p]
      BY <1>0, <1>s, <2>2, <2>3, Commits DEF TypeOK, Words
  <2>5. Status(p) = "-"
      BY <1>0, <1>s, <2>1 DEF Knows
  <2> QED
      BY <1>4, <1>9, <2>1, <2>3, <2>4, <2>5 DEF AskerOf
<1>12. CASE Opened(p)
  <2>1. /\ ask[p].at = "opened" /\ log' = log /\ ask'[p].word = ask[p].word
        /\ ask'[p].at = IF ask[p].word = "none" THEN "waiting" ELSE "answered"
      BY <1>0, <1>12 DEF Opened, TypeOK, Askers
  <2>2. CASE ask[p].word = "none"
      BY <1>3, <1>9, <1>s, <2>1, <2>2 DEF AskerOf
  <2>3. CASE ask[p].word # "none"
    <3>1. Status(p) = ask[p].word
        BY <1>0, <1>s, <2>1, <2>3 DEF Knows
    <3> QED
        BY <1>5, <1>9, <1>a, <1>s, <2>1, <2>3, <3>1 DEF AskerOf
  <2> QED
      BY <2>2, <2>3
<1>13. CASE Post(p)
  <2>1. ask[p].at = "none" /\ ask'[p].at = "gone"
      BY <1>0, <1>13 DEF Post, TypeOK
  <2>2. PICK e \in Entry : Commit(e) /\ e[p] = "open"
      BY <1>0, <1>13, Opens DEF Opening
  <2>3. Status(p)' = "open"
      BY <1>0, <1>s, <2>2, Commits DEF TypeOK
  <2>4. Status(p) = "-"
      BY <1>0, <1>s, <2>1 DEF Knows
  <2> QED
      BY <1>4, <1>9, <2>1, <2>3, <2>4 DEF AskerOf
<1>14. CASE Hear(p)
  <2>1. /\ ask[p].at = "waiting" /\ log' = log /\ ask'[p].at = "answered"
        /\ ask'[p].word = log[Min(Heard(p))][p] /\ Heard(p) # {}
      BY <1>0, <1>14 DEF Hear, TypeOK, Askers
  <2>2. Heard(p) \in SUBSET Nat
      BY <1>0 DEF Heard, TypeOK, Askers
  <2>3. Min(Heard(p)) \in Heard(p)
      BY <2>1, <2>2, Least
  <2>4. ask'[p].word \in Words
      BY <2>1, <2>3 DEF Heard
  <2>5. Status(p)' = ask'[p].word
      BY <1>0, <1>s, <2>1 DEF Knows
  <2> QED
      BY <1>5, <1>9, <1>s, <2>1, <2>4, <2>5 DEF AskerOf
<1>15. CASE Reenter(p)
  <2> DEFINE recorded == Last(p, ask[p].from)
  <2>1. ask[p].at = "standing" /\ log' = log
      BY <1>15 DEF Reenter
  <2>2. CASE recorded \in Words
    <3>1. ask'[p].at = "answered" /\ ask'[p].word = recorded
      <4>1. ask' = [ask EXCEPT ![p] = [@ EXCEPT !.at = "answered",
                                               !.word = recorded]]
          BY <1>15, <2>2 DEF Reenter
      <4> QED
          BY <1>0, <4>1 DEF TypeOK, Askers
    <3>2. Status(p)' = ask'[p].word
        BY <1>0, <1>s, <3>1 DEF Knows
    <3> QED
        BY <1>5, <1>9, <1>s, <2>1, <2>2, <3>1, <3>2 DEF AskerOf
  <2>3. CASE recorded \notin Words
    <3>1. ask'[p].at = "reread"
      <4>1. PICK word : ask' = [ask EXCEPT ![p] = [@ EXCEPT !.at = "reread",
                                                            !.word = word]]
          BY <1>15, <2>3 DEF Reenter
      <4> QED
          BY <1>0, <4>1 DEF TypeOK, Askers
    <3> QED
        BY <1>0, <1>6, <1>9, <1>s, <2>1, <3>1 DEF AskerOf, Posed
  <2> QED
      BY <2>2, <2>3
<1>16. CASE Rejoin(p)
  <2>1. ask[p].at = "reread"
      BY <1>16 DEF Rejoin
  <2>2. CASE ask[p].word = "none"
    <3>2. /\ log' = log
          /\ ask' = [ask EXCEPT ![p] = [@ EXCEPT !.at = "waiting",
                                                 !.from = From(p)]]
        BY <1>16, <2>2 DEF Rejoin
    <3>1. log' = log /\ ask'[p].at = "waiting"
        BY <1>0, <3>2 DEF TypeOK, Askers
    <3> QED
        BY <1>8, <1>9, <1>s, <2>1, <3>1 DEF AskerOf
  <2>3. CASE ask[p].word # "none"
    <3>1. ask'[p].at = "answered" /\ ask'[p].word = ask[p].word
        BY <1>0, <1>16, <2>3 DEF Rejoin, TypeOK, Askers
    <3>2. Status(p)' = ask'[p].word
        BY <1>0, <1>s, <3>1 DEF Knows
    <3> QED
        BY <1>7, <1>9, <1>a, <2>1, <2>3, <3>1, <3>2 DEF AskerOf
  <2> QED
      BY <2>2, <2>3
<1> QED
    BY <1>10, <1>11, <1>12, <1>13, <1>14, <1>15, <1>16 DEF Asks

\* Each request is a register decided once (requests.ts): whoever decides it
\* decides it while it is open, its asker goes on with what is recorded, and
\* from then on that never changes; only a resumed call's policy answers over
\* a decision its asker did not hear.
THEOREM RequestsAreRegisters == Spec => ImplementsRegister
<1>1. Init => Register!Init
  <2> SUFFICES ASSUME Init PROVE Register!Init
      OBVIOUS
  <2>1. \A q \in Reqs : AskerOf(q) = "asking"
      BY DEF Init, AskerOf
  <2>2. \A q \in Reqs : Status(q) = "-"
      BY IInvInit, StatusIs DEF IInv, Knows, Init
  <2> QED
      BY <2>1, <2>2 DEF Register!Init
<1>2. IInv /\ IInv' /\ (\A q \in Reqs : Posed(q)) /\ [Next]_vars
      => [Register!Next]_(Register!vars)
  <2> SUFFICES ASSUME IInv, IInv', \A q \in Reqs : Posed(q), [Next]_vars
               PROVE  Register!Next \/ UNCHANGED <<Verdict, Asker>>
      BY DEF Register!vars, Verdict, Asker
  <2>1. CASE \E p \in Reqs : Asks(p)
      BY <2>1, AskersMove
  <2>2. CASE \A p \in Reqs : ~Asks(p)
      BY <2>2, OthersSettle DEF Register!Next
  <2> QED
      BY <2>1, <2>2
<1> QED
    BY <1>1, <1>2, Inductive, AllPosed, PTL DEF Spec, ImplementsRegister, Register!Spec

=============================================================================
