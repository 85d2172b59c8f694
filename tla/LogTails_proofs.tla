-------------------------- MODULE LogTails_proofs --------------------------
(***************************************************************************)
(* The tails of the log are exact for any tails, commits and bounds:       *)
(* wherever a tail subscribes, it is handed each row past its start once,  *)
(* in order, and none is missing but those the store dropped.              *)
(***************************************************************************)
EXTENDS LogTails, TLAPS

\* What the assumptions say of the bounds.
USE MaxLogAssumption, MaxGoneAssumption

Share(n) == [rows : SUBSET (1..n), through : 0..n]

\* Through where the first n deliveries published reach.
Through(n) == IF n = 0 THEN 0 ELSE fanout[n].through

\* Rows that are those of (a, b], but for the dropped ones.
Covers(rows, a, b) ==
    /\ a <= b
    /\ rows \subseteq (a + 1)..b
    /\ \A c \in (a + 1)..b : c \in gone \/ c \in rows

\* What is published goes on where the drain was, and the share in hand goes
\* on from there.
Drains ==
    /\ at = published
    /\ Through(Len(fanout)) <= published
    /\ reading \notin {"publishing", "over"} => Through(Len(fanout)) = published
    /\ reading = "publishing" =>
          /\ share.through = published
          /\ Covers(share.rows, Through(Len(fanout)), published)
    /\ \A k \in 1..Len(fanout) : Covers(fanout[k].rows, Through(k - 1), Through(k))

\* What a tail skipped of the deliveries, it has or reads itself.
Follows(t) ==
    /\ taken[t] \in 0..Len(fanout) /\ from[t] <= mark[t]
    /\ tail[t] \in {"off", "subscribed", "behind"} => got[t] = <<>> /\ mark[t] = from[t]
    /\ tail[t] = "subscribed" => Through(taken[t]) <= published
    /\ tail[t] = "behind" => from[t] < behind[t] /\ Through(taken[t]) <= behind[t]
    /\ tail[t] = "live" => Through(taken[t]) <= mark[t]

\* TailExact of one tail.
Exact(t) ==
    /\ \A i \in 1..Len(got[t]) : got[t][i] \subseteq (from[t] + 1)..mark[t]
    /\ \A k \in 1..Len(got[t]) : \A i \in 1..(k - 1) :
           \A c \in got[t][i], d \in got[t][k] : c < d
    /\ \A c \in (from[t] + 1)..mark[t] :
           c \in gone \/ \E i \in 1..Len(got[t]) : c \in got[t][i]

IInv == TypeOK /\ Drains /\ \A t \in Tails : Follows(t) /\ Exact(t)

\* At first nothing is committed, published or handed on.
LEMMA IInvInit == Init => IInv
<1> SUFFICES ASSUME Init PROVE IInv
    OBVIOUS
<1>1. Len(fanout) = 0 /\ Through(0) = 0
    BY DEF Init, Through
<1>2. TypeOK
    BY DEF Init, TypeOK, NoShare
<1>3. Drains
    BY <1>1 DEF Init, Drains
<1>4. ASSUME NEW t \in Tails PROVE Follows(t) /\ Exact(t)
  <2>1. /\ got[t] = <<>> /\ Len(got[t]) = 0 /\ tail[t] = "off" /\ taken[t] = 0
        /\ from[t] = 0 /\ mark[t] = 0
      BY DEF Init
  <2> QED
      BY <1>1, <2>1 DEF Follows, Exact
<1> QED
    BY <1>2, <1>3, <1>4 DEF IInv

-----------------------------------------------------------------------------
(* The store's steps *)

\* A longer log, and more that it dropped, leave all as it was.
LEMMA StoreKeeps ==
    ASSUME IInv, (\E n \in 1..MaxLog : Grow(n))
                 \/ \E c \in 1..MaxLog : Collect(c)
    PROVE  IInv'
<1>0. TypeOK /\ Drains
    BY DEF IInv
<1>1. /\ size \in Nat /\ size' \in Nat /\ size <= size' /\ size' <= MaxLog
      /\ gone' \subseteq 1..size' /\ gone \subseteq gone' /\ wake' \in BOOLEAN
      /\ UNCHANGED <<drainVars, tailVars>>
  <2>1. size \in 0..MaxLog /\ gone \subseteq 1..size /\ wake \in BOOLEAN
      BY <1>0 DEF TypeOK
  <2>2. CASE \E n \in 1..MaxLog : Grow(n)
    <3>1. PICK n \in 1..MaxLog : Grow(n)
        BY <2>2
    <3>2. /\ size' = size + n /\ size + n <= MaxLog /\ gone' = gone /\ wake' = TRUE
          /\ drainVars' = drainVars /\ tailVars' = tailVars
        BY <3>1 DEF Grow
    <3> QED
        BY <2>1, <3>2
  <2>3. CASE \E c \in 1..MaxLog : Collect(c)
    <3>1. PICK c \in 1..MaxLog : Collect(c)
        BY <2>3
    <3>2. /\ c \in 1..size /\ gone' = gone \cup {c} /\ size' = size /\ wake' = wake
          /\ drainVars' = drainVars /\ tailVars' = tailVars
        BY <3>1 DEF Collect
    <3> QED
        BY <2>1, <3>2
  <2> QED
      BY <2>2, <2>3
<1>2. /\ UNCHANGED <<reading, at, upTo, share, published, fanout>>
      /\ UNCHANGED <<tail, from, taken, behind, mark, got>>
    BY <1>1 DEF drainVars, tailVars
<1>3. 0..size \subseteq 0..size' /\ SUBSET (1..size) \subseteq SUBSET (1..size')
    BY <1>1
<1>4. Share(size) \subseteq Share(size')
    BY <1>3 DEF Share
<1>5. TypeOK'
  <2>1. fanout' \in Seq(Share(size')) /\ share' \in Share(size')
    <3>1. fanout \in Seq(Share(size)) /\ share \in Share(size)
        BY <1>0 DEF TypeOK, Share
    <3> QED
        BY <1>2, <1>4, <3>1
  <2>2. got' \in [Tails -> Seq(SUBSET (1..size'))]
      BY <1>0, <1>2, <1>3 DEF TypeOK
  <2>3. /\ from' \in [Tails -> 0..size'] /\ behind' \in [Tails -> 0..size']
        /\ mark' \in [Tails -> 0..size']
      BY <1>0, <1>2, <1>3 DEF TypeOK
  <2>4. at' \in 0..size' /\ upTo' \in 0..size' /\ published' \in 0..size'
      BY <1>0, <1>2, <1>3 DEF TypeOK
  <2> QED
      BY <1>0, <1>1, <1>2, <2>1, <2>2, <2>3, <2>4 DEF TypeOK, Share
<1>6. Drains'
    BY <1>0, <1>1, <1>2 DEF Drains, Covers, Through
<1>7. ASSUME NEW t \in Tails PROVE Follows(t)' /\ Exact(t)'
    BY <1>1, <1>2, <1>7 DEF IInv, Follows, Exact, Through
<1> QED
    BY <1>5, <1>6, <1>7 DEF IInv

-----------------------------------------------------------------------------
(* The drain's steps *)

\* A step of the drain that publishes nothing leaves the tails alone.
LEMMA DrainKeeps ==
    ASSUME IInv, WakeUp \/ Capture \/ (\E c \in 1..MaxLog : Page(c)) \/ Covered \/ End
    PROVE  IInv'
<1>0. TypeOK /\ Drains /\ size \in Nat
    BY DEF IInv, TypeOK
<1>1. /\ UNCHANGED <<size, gone, fanout>>
      /\ UNCHANGED <<tail, from, taken, behind, mark, got>>
    BY DEF WakeUp, Capture, Page, Covered, InHand, End, tailVars
<1>2. CASE WakeUp \/ Capture \/ End
  <2>1. /\ UNCHANGED <<at, share, published>> /\ upTo' \in {upTo, size}
        /\ wake' \in {wake, FALSE}
        /\ \/ /\ reading \in {"idle", "woken"} /\ reading' \in {"woken", "reading"}
           \/ reading' = "over"
      BY <1>2 DEF WakeUp, Capture, End, Upper
  <2>2. TypeOK'
    <3>1. wake' \in BOOLEAN
        BY <1>0, <2>1 DEF TypeOK
    <3>2. upTo' \in 0..size
        BY <1>0, <2>1 DEF TypeOK
    <3>3. reading' \in {"idle", "woken", "reading", "publishing", "over"}
        BY <2>1
    <3> QED
        BY <1>0, <1>1, <2>1, <3>1, <3>2, <3>3 DEF TypeOK
  <2>3. Drains'
      BY <1>0, <1>1, <2>1 DEF Drains, Covers, Through
  <2>4. ASSUME NEW t \in Tails PROVE Follows(t)' /\ Exact(t)'
      BY <1>1, <2>1, <2>4 DEF IInv, Follows, Exact, Through
  <2> QED
      BY <2>2, <2>3, <2>4 DEF IInv
<1>3. CASE Covered \/ \E c \in 1..MaxLog : Page(c)
  <2>1. PICK b \in Nat : /\ at <= b /\ b <= size /\ reading = "reading"
                         /\ InHand(Held(at, b), b)
    <3>1. CASE \E c \in 1..MaxLog : Page(c)
        BY <1>0, <3>1 DEF Page, TypeOK
    <3>2. CASE Covered
      <4> DEFINE b == IF at > upTo THEN at ELSE upTo
      <4>1. at \in 0..size /\ upTo \in 0..size
          BY <1>0 DEF TypeOK
      <4>2. Held(at, b) = {}
          BY <3>2, <4>1 DEF Covered, Held
      <4>3. InHand(Held(at, b), b) /\ reading = "reading"
          BY <3>2, <4>2 DEF Covered
      <4> QED
          BY <1>0, <4>1, <4>3
    <3> QED
        BY <1>3, <3>1, <3>2
  <2>2. /\ share' = [rows |-> Held(at, b), through |-> b]
        /\ at' = b /\ published' = b /\ reading' = "publishing"
        /\ UNCHANGED <<wake, upTo>>
      BY <2>1 DEF InHand
  <2>3. Held(at, b) \subseteq 1..size
      BY <1>0, <2>1 DEF Held, TypeOK
  <2>4. TypeOK'
      BY <1>0, <1>1, <2>1, <2>2, <2>3 DEF TypeOK
  <2>5. at = published /\ Through(Len(fanout)) = published
      BY <1>0, <2>1 DEF Drains
  <2>6. Drains'
      BY <1>0, <1>1, <2>1, <2>2, <2>5 DEF Drains, Covers, Held, Through
  <2>7. ASSUME NEW t \in Tails PROVE Follows(t)' /\ Exact(t)'
    <3>1. Follows(t) /\ Exact(t) /\ published <= published'
        BY <2>1, <2>2, <2>5, <2>7 DEF IInv
    <3>2. Through(taken[t]) \in Nat /\ published \in Nat /\ published' \in Nat
      <4>1. taken[t] \in 0..Len(fanout) /\ fanout \in Seq(Share(size))
          BY <1>0, <3>1 DEF Follows, TypeOK, Share
      <4>2. taken[t] = 0 \/ fanout[taken[t]] \in Share(size)
          BY <4>1
      <4> QED
          BY <1>0, <2>1, <2>2, <4>2 DEF Through, Share, TypeOK
    <3>3. Through(taken[t])' = Through(taken[t])
        BY <1>1 DEF Through
    <3> QED
        BY <1>1, <3>1, <3>2, <3>3 DEF Follows, Exact
  <2> QED
      BY <2>4, <2>6, <2>7 DEF IInv
<1> QED
    BY <1>2, <1>3

\* A published share is one delivery more.
LEMMA PublishKeeps ==
    ASSUME IInv, Publish
    PROVE  IInv'
<1>0. TypeOK /\ Drains /\ size \in Nat
    BY DEF IInv, TypeOK
<1>1. /\ fanout' = Append(fanout, share) /\ reading = "publishing"
      /\ reading' \in {"idle", "reading"}
      /\ UNCHANGED <<size, gone, wake, at, upTo, share, published>>
      /\ UNCHANGED <<tail, from, taken, behind, mark, got>>
    BY DEF Publish, AfterShare, tailVars
<1>2. fanout \in Seq(Share(size)) /\ share \in Share(size)
    BY <1>0 DEF TypeOK, Share
<1>3. /\ Len(fanout) \in Nat /\ Len(fanout') = Len(fanout) + 1
      /\ fanout'[Len(fanout) + 1] = share /\ fanout' \in Seq(Share(size))
      /\ \A k \in 1..Len(fanout) : fanout'[k] = fanout[k]
    BY <1>1, <1>2
<1>4. /\ \A k \in 0..Len(fanout) : Through(k)' = Through(k)
      /\ Through(Len(fanout))' = share.through
  <2>1. \A k \in 0..Len(fanout) : Through(k)' = Through(k)
      BY <1>3 DEF Through
  <2>2. Through(Len(fanout))' = fanout'[Len(fanout')].through
      BY <1>3 DEF Through
  <2> QED
      BY <1>3, <2>1, <2>2
<1>5. TypeOK'
    BY <1>0, <1>1, <1>3 DEF TypeOK, Share
<1>6. Drains'
  <2>1. share.through = published
        /\ Covers(share.rows, Through(Len(fanout)), published)
      BY <1>0, <1>1 DEF Drains
  <2>2. ASSUME NEW k \in 1..Len(fanout')
        PROVE  Covers(fanout[k].rows, Through(k - 1), Through(k))'
    <3>1. CASE k \in 1..Len(fanout)
      <4>1. Covers(fanout[k].rows, Through(k - 1), Through(k)) /\ k - 1 \in 0..Len(fanout)
          BY <1>0, <1>3, <3>1 DEF Drains
      <4> QED
          BY <1>1, <1>3, <1>4, <3>1, <4>1 DEF Covers
    <3>2. CASE k = Len(fanout) + 1
      <4>1. Through(k - 1)' = Through(Len(fanout))
          BY <1>3, <1>4, <3>2
      <4>2. Through(k)' = share.through /\ fanout'[k] = share
          BY <1>3, <1>4, <3>2
      <4> QED
          BY <1>1, <2>1, <4>1, <4>2 DEF Covers
    <3> QED
        BY <1>3, <3>1, <3>2
  <2>3. Through(Len(fanout))' = published'
      BY <1>1, <1>3, <1>4, <2>1
  <2>4. at' = published' /\ published' \in Nat
      BY <1>0, <1>1 DEF Drains, TypeOK
  <2> QED
      BY <1>1, <2>2, <2>3, <2>4 DEF Drains
<1>7. ASSUME NEW t \in Tails PROVE Follows(t)' /\ Exact(t)'
  <2>1. Follows(t) /\ Exact(t) /\ taken[t] \in 0..Len(fanout)
      BY <1>7 DEF IInv, Follows
  <2>2. Through(taken[t])' = Through(taken[t]) /\ taken'[t] \in 0..Len(fanout')
      BY <1>1, <1>3, <1>4, <2>1
  <2> QED
      BY <1>1, <2>1, <2>2 DEF Follows, Exact
<1> QED
    BY <1>5, <1>6, <1>7 DEF IInv

-----------------------------------------------------------------------------
(* A tail's steps *)

\* What a tail hands on of a delivery is every row between its place and
\* the delivery's end.
LEMMA FreshCovers ==
    ASSUME TypeOK, NEW t \in Tails, NEW rows, NEW a \in Nat, NEW b \in 0..size,
           Covers(rows, a, b), a <= mark[t]
    PROVE  LET m == IF b > mark[t] THEN b ELSE mark[t]
           IN  /\ Fresh(t, rows) \subseteq (mark[t] + 1)..m
               /\ Fresh(t, rows) \subseteq 1..size
               /\ \A c \in (mark[t] + 1)..m : c \in gone \/ c \in Fresh(t, rows)
<1> DEFINE F == Fresh(t, rows)
           m == IF b > mark[t] THEN b ELSE mark[t]
<1>1. mark[t] \in 0..size /\ size \in Nat /\ F = {c \in rows : c > mark[t]}
    BY DEF TypeOK, Fresh
<1>2. /\ rows \subseteq (a + 1)..b
      /\ \A c \in (a + 1)..b : c \in gone \/ c \in rows
    BY DEF Covers
<1> HIDE DEF F
<1>3. ASSUME NEW c \in F PROVE c \in (mark[t] + 1)..m /\ c \in 1..size
  <2>1. c \in (a + 1)..b /\ c > mark[t]
      BY <1>1, <1>2, <1>3
  <2> QED
      BY <1>1, <2>1
<1>4. ASSUME NEW c \in (mark[t] + 1)..m PROVE c \in gone \/ c \in F
  <2>1. c \in (a + 1)..b /\ c > mark[t]
      BY <1>1, <1>4
  <2> QED
      BY <1>1, <1>2, <2>1
<1> QED
    BY <1>3, <1>4 DEF F

\* Rows that go on from what a tail has, or overlap it, leave it exact.
LEMMA HandKeeps ==
    ASSUME TypeOK, NEW t \in Tails, Exact(t), from[t] <= mark[t],
           NEW rows, NEW a \in Nat, NEW b \in 0..size, Covers(rows, a, b),
           a <= mark[t], Hand(t, rows, b), gone' = gone, from' = from
    PROVE  /\ Exact(t)' /\ mark[t] <= mark'[t] /\ b <= mark'[t]
           /\ got' \in [Tails -> Seq(SUBSET (1..size))] /\ mark' \in [Tails -> 0..size]
           /\ \A u \in Tails \ {t} : got'[u] = got[u] /\ mark'[u] = mark[u]
<1> DEFINE F == Fresh(t, rows)
           m == IF b > mark[t] THEN b ELSE mark[t]
           g == IF F = {} THEN got[t] ELSE Append(got[t], F)
           n == Len(got[t])
<1>0. /\ got \in [Tails -> Seq(SUBSET (1..size))] /\ mark \in [Tails -> 0..size]
      /\ size \in Nat /\ from[t] \in 0..size
    BY DEF TypeOK
<1>1. /\ mark' = [mark EXCEPT ![t] = m] /\ got' = [got EXCEPT ![t] = g]
    BY DEF Hand
<1>2. /\ F \subseteq (mark[t] + 1)..m /\ F \subseteq 1..size
      /\ \A c \in (mark[t] + 1)..m : c \in gone \/ c \in F
    BY FreshCovers
<1>3. m \in 0..size /\ mark[t] <= m /\ b <= m
    BY <1>0
<1>4. got[t] \in Seq(SUBSET (1..size)) /\ n \in Nat
    BY <1>0
<1> HIDE DEF F, m
<1>5. /\ g \in Seq(SUBSET (1..size)) /\ n <= Len(g)
      /\ \A i \in 1..n : g[i] = got[t][i]
      /\ \A i \in (n + 1)..Len(g) : i = n + 1 /\ g[i] = F
      /\ F # {} => Len(g) = n + 1 /\ g[n + 1] = F
  <2>1. CASE F = {}
      BY <1>4, <2>1
  <2>2. CASE F # {}
    <3>1. g = Append(got[t], F)
        BY <2>2
    <3> QED
        BY <1>2, <1>4, <2>2, <3>1, SMTT(20)
  <2> QED
      BY <2>1, <2>2
<1> HIDE DEF g
<1>6. got'[t] = g /\ mark'[t] = m
    BY <1>0, <1>1
<1>7. \A i \in 1..Len(g) : g[i] \subseteq (from[t] + 1)..m
  <2> TAKE i \in 1..Len(g)
  <2>1. CASE i \in 1..n
      BY <1>0, <1>3, <1>5, <2>1 DEF Exact
  <2>2. CASE i \notin 1..n
    <3>1. g[i] = F
        BY <1>4, <1>5, <2>2
    <3> QED
        BY <1>0, <1>2, <1>3, <3>1
  <2> QED
      BY <2>1, <2>2
<1>8. ASSUME NEW k \in 1..Len(g), NEW i \in 1..(k - 1), NEW c \in g[i], NEW d \in g[k]
      PROVE  c < d
  <2>1. CASE k \in 1..n
    <3>1. i \in 1..n
        BY <1>4, <2>1
    <3> QED
        BY <1>5, <1>8, <2>1, <3>1 DEF Exact
  <2>2. CASE k \notin 1..n
    <3>1. k = n + 1 /\ g[k] = F /\ i \in 1..n
        BY <1>4, <1>5, <2>2
    <3>2. c \in (from[t] + 1)..mark[t] /\ d \in (mark[t] + 1)..m
        BY <1>2, <1>5, <1>8, <3>1 DEF Exact
    <3> QED
        BY <1>0, <3>2
  <2> QED
      BY <2>1, <2>2
<1>9. ASSUME NEW c \in (from[t] + 1)..m, c \notin gone
      PROVE  \E i \in 1..Len(g) : c \in g[i]
  <2>1. CASE c \in (from[t] + 1)..mark[t]
    <3>1. PICK i \in 1..n : c \in got[t][i]
        BY <1>9, <2>1 DEF Exact
    <3> QED
        BY <1>4, <1>5, <3>1
  <2>2. CASE c \in (mark[t] + 1)..m
    <3>1. c \in F
        BY <1>2, <1>9, <2>2
    <3> QED
        BY <1>4, <1>5, <3>1
  <2> QED
      BY <1>0, <1>3, <2>1, <2>2, SMTT(20)
<1>10. Exact(t)'
    BY <1>6, <1>7, <1>8, <1>9 DEF Exact
<1> QED
    BY <1>0, <1>1, <1>3, <1>5, <1>6, <1>10

\* A tail that stays as it is, stays exact.
LEMMA OthersStay ==
    ASSUME IInv, NEW t \in Tails, gone' = gone, fanout' = fanout, published' = published,
           tail'[t] = tail[t], from'[t] = from[t], taken'[t] = taken[t],
           behind'[t] = behind[t], mark'[t] = mark[t], got'[t] = got[t]
    PROVE  Follows(t)' /\ Exact(t)'
BY DEF IInv, Follows, Exact, Through

\* A step of a tail keeps it, and leaves the others alone.
LEMMA TailKeeps ==
    ASSUME IInv, NEW t \in Tails,
           TailStep(t) \/ \E f \in 0..MaxLog : Subscribe(t, f)
    PROVE  IInv'
<1>0. /\ TypeOK /\ Drains /\ Follows(t) /\ Exact(t) /\ size \in Nat
      /\ fanout \in Seq(Share(size)) /\ Len(fanout) \in Nat
    BY DEF IInv, TypeOK, Share
<1>1. /\ UNCHANGED <<size, gone, wake>>
      /\ UNCHANGED <<reading, at, upTo, share, published, fanout>>
    BY DEF TailStep, Start, CatchUp, ReadFails, Receive, TailEnds, Subscribe,
           drainVars
<1>2. Drains'
    BY <1>0, <1>1 DEF Drains, Covers, Through
<1>3. \A n \in Nat : Through(n)' = Through(n)
    BY <1>1 DEF Through
<1>4. ASSUME NEW n \in 0..Len(fanout) PROVE Through(n) \in 0..size
  <2>1. n = 0 \/ fanout[n] \in Share(size)
      BY <1>0
  <2> QED
      BY <1>0, <2>1 DEF Through, Share
<1>5. ASSUME NEW f \in 0..MaxLog, Subscribe(t, f)
      PROVE  IInv'
  <2>1. /\ f \in 0..size /\ tail[t] = "off"
        /\ tail' = [tail EXCEPT ![t] = "subscribed"]
        /\ from' = [from EXCEPT ![t] = f] /\ mark' = [mark EXCEPT ![t] = f]
        /\ taken' = [taken EXCEPT ![t] = Len(fanout)]
        /\ behind' = behind /\ got' = got
      BY <1>5 DEF Subscribe
  <2>2. TypeOK'
      BY <1>0, <1>1, <2>1 DEF TypeOK
  <2>3. got[t] = <<>> /\ Len(got[t]) = 0
      BY <1>0, <2>1 DEF Follows
  <2>4. /\ tail'[t] = "subscribed" /\ from'[t] = f /\ mark'[t] = f
        /\ taken'[t] = Len(fanout) /\ got'[t] = <<>> /\ Len(got'[t]) = 0
      BY <1>0, <2>1, <2>3 DEF TypeOK
  <2>5. Exact(t)'
      BY <2>1, <2>4 DEF Exact
  <2>6. Follows(t)'
      BY <1>0, <1>1, <1>3, <2>1, <2>4 DEF Follows, Drains
  <2>7. ASSUME NEW u \in Tails, u # t PROVE Follows(u)' /\ Exact(u)'
    <3>1. /\ tail'[u] = tail[u] /\ from'[u] = from[u] /\ taken'[u] = taken[u]
          /\ behind'[u] = behind[u] /\ mark'[u] = mark[u] /\ got'[u] = got[u]
        BY <1>0, <2>1, <2>7 DEF TypeOK
    <3> QED
        BY <1>1, <3>1, OthersStay
  <2> QED
      BY <1>2, <2>2, <2>5, <2>6, <2>7 DEF IInv
<1>6. CASE Start(t)
  <2>1. /\ tail[t] = "subscribed" /\ behind' = [behind EXCEPT ![t] = published]
        /\ tail' = [tail EXCEPT ![t] = IF from[t] < published THEN "behind" ELSE "live"]
        /\ UNCHANGED <<from, taken, mark, got>>
      BY <1>6 DEF Start
  <2>2. TypeOK'
      BY <1>0, <1>1, <2>1 DEF TypeOK
  <2>3. /\ behind'[t] = published
        /\ tail'[t] = IF from[t] < published THEN "behind" ELSE "live"
      BY <1>0, <2>1 DEF TypeOK
  <2>4. /\ from[t] \in 0..size /\ published \in 0..size /\ mark[t] = from[t]
        /\ taken[t] \in 0..Len(fanout) /\ Through(taken[t]) <= published
        /\ Through(taken[t]) \in 0..size /\ got[t] = <<>>
      BY <1>0, <1>4, <2>1 DEF TypeOK, Follows
  <2>5. Follows(t)' /\ Exact(t)'
      BY <1>0, <1>1, <1>3, <2>1, <2>3, <2>4 DEF Follows, Exact
  <2>6. ASSUME NEW u \in Tails, u # t PROVE Follows(u)' /\ Exact(u)'
    <3>1. tail'[u] = tail[u] /\ behind'[u] = behind[u]
        BY <1>0, <2>1, <2>6 DEF TypeOK
    <3> QED
        BY <1>1, <2>1, <3>1, OthersStay
  <2> QED
      BY <1>2, <2>2, <2>5, <2>6 DEF IInv
<1>7. CASE CatchUp(t)
  <2>1. /\ tail[t] = "behind" /\ Hand(t, Held(from[t], behind[t]), behind[t])
        /\ tail' = [tail EXCEPT ![t] = "live"] /\ UNCHANGED <<from, taken, behind>>
      BY <1>7 DEF CatchUp
  <2>2. /\ from[t] \in Nat /\ behind[t] \in 0..size /\ mark[t] = from[t]
        /\ from[t] < behind[t] /\ Through(taken[t]) <= behind[t]
        /\ taken[t] \in 0..Len(fanout) /\ Through(taken[t]) \in 0..size
        /\ from[t] <= mark[t] /\ mark[t] \in 0..size
      BY <1>0, <1>4, <2>1 DEF TypeOK, Follows
  <2>3. Covers(Held(from[t], behind[t]), from[t], behind[t])
      BY <2>2 DEF Covers, Held
  <2>4. /\ Exact(t)' /\ mark[t] <= mark'[t] /\ behind[t] <= mark'[t]
        /\ got' \in [Tails -> Seq(SUBSET (1..size))] /\ mark' \in [Tails -> 0..size]
        /\ \A u \in Tails \ {t} : got'[u] = got[u] /\ mark'[u] = mark[u]
      BY <1>0, <1>1, <2>1, <2>2, <2>3, HandKeeps
  <2>5. TypeOK'
      BY <1>0, <1>1, <2>1, <2>4 DEF TypeOK
  <2>6. tail'[t] = "live" /\ mark'[t] \in Nat
    <3>1. tail'[t] = "live"
        BY <1>0, <2>1 DEF TypeOK
    <3>2. mark'[t] \in Nat
        BY <1>0, <2>4
    <3> QED
        BY <3>1, <3>2
  <2>7. Follows(t)'
      BY <1>1, <1>3, <2>1, <2>2, <2>4, <2>6 DEF Follows
  <2>8. ASSUME NEW u \in Tails, u # t PROVE Follows(u)' /\ Exact(u)'
    <3>1. tail'[u] = tail[u] /\ got'[u] = got[u] /\ mark'[u] = mark[u]
        BY <1>0, <2>1, <2>4, <2>8 DEF TypeOK
    <3> QED
        BY <1>1, <2>1, <3>1, OthersStay
  <2> QED
      BY <1>2, <2>4, <2>5, <2>7, <2>8 DEF IInv
<1>8. CASE Receive(t)
  <2> DEFINE k == taken[t] + 1
  <2>1. /\ tail[t] = "live" /\ taken[t] < Len(fanout)
        /\ Hand(t, fanout[k].rows, fanout[k].through)
        /\ taken' = [taken EXCEPT ![t] = k]
        /\ UNCHANGED <<tail, from, behind>>
      BY <1>8 DEF Receive
  <2>2. /\ taken[t] \in 0..Len(fanout) /\ k \in 1..Len(fanout)
        /\ Through(taken[t]) <= mark[t] /\ Through(taken[t]) \in 0..size
        /\ from[t] <= mark[t] /\ mark[t] \in 0..size
      BY <1>0, <1>4, <2>1 DEF Follows, TypeOK
  <2>3. /\ Through(k) = fanout[k].through /\ Through(k) \in 0..size
        /\ Covers(fanout[k].rows, Through(taken[t]), Through(k))
    <3>1. k - 1 = taken[t] /\ k # 0
        BY <2>2
    <3>2. Covers(fanout[k].rows, Through(k - 1), Through(k))
        BY <1>0, <2>2 DEF Drains
    <3>3. Through(k) = fanout[k].through
        BY <3>1 DEF Through
    <3>4. Through(k) \in 0..size
        BY <1>0, <1>4, <2>2
    <3> QED
        BY <3>1, <3>2, <3>3, <3>4
  <2>4. /\ Exact(t)' /\ mark[t] <= mark'[t] /\ Through(k) <= mark'[t]
        /\ got' \in [Tails -> Seq(SUBSET (1..size))] /\ mark' \in [Tails -> 0..size]
        /\ \A u \in Tails \ {t} : got'[u] = got[u] /\ mark'[u] = mark[u]
    <3>1. Hand(t, fanout[k].rows, Through(k)) /\ Through(taken[t]) \in Nat
        BY <2>1, <2>2, <2>3
    <3> HIDE DEF k
    <3> QED
        BY <1>0, <1>1, <2>1, <2>2, <2>3, <3>1, HandKeeps
  <2>9. taken \in [Tails -> Nat]
      BY <1>0 DEF TypeOK
  <2>5. TypeOK'
    <3>1. taken' \in [Tails -> Nat]
        BY <1>0, <2>1, <2>2, <2>9
    <3> QED
        BY <1>0, <1>1, <2>1, <2>4, <3>1 DEF TypeOK
  <2>6. taken'[t] = k /\ mark'[t] \in Nat
    <3>1. taken'[t] = k
        BY <2>1, <2>9
    <3>2. mark'[t] \in Nat
        BY <1>0, <2>4
    <3> QED
        BY <3>1, <3>2
  <2>7. Follows(t)'
      BY <1>0, <1>1, <1>3, <2>1, <2>2, <2>4, <2>6 DEF Follows, TypeOK
  <2>8. ASSUME NEW u \in Tails, u # t PROVE Follows(u)' /\ Exact(u)'
    <3>1. taken'[u] = taken[u] /\ got'[u] = got[u] /\ mark'[u] = mark[u]
        BY <1>0, <2>1, <2>4, <2>8 DEF TypeOK
    <3> QED
        BY <1>1, <2>1, <3>1, OthersStay
  <2> QED
      BY <1>2, <2>4, <2>5, <2>7, <2>8 DEF IInv
<1>9. CASE ReadFails(t) \/ TailEnds(t)
  <2>1. /\ tail' = [tail EXCEPT ![t] = "over"]
        /\ UNCHANGED <<from, taken, behind, mark, got>>
      BY <1>9 DEF ReadFails, TailEnds
  <2>2. TypeOK'
      BY <1>0, <1>1, <2>1 DEF TypeOK
  <2>3. Follows(t)' /\ Exact(t)'
      BY <1>0, <1>1, <2>1 DEF Follows, Exact, TypeOK
  <2>4. ASSUME NEW u \in Tails, u # t PROVE Follows(u)' /\ Exact(u)'
    <3>1. tail'[u] = tail[u]
        BY <1>0, <2>1, <2>4 DEF TypeOK
    <3> QED
        BY <1>1, <2>1, <3>1, OthersStay
  <2> QED
      BY <1>2, <2>2, <2>3, <2>4 DEF IInv
<1> QED
    BY <1>5, <1>6, <1>7, <1>8, <1>9 DEF TailStep

\* Every step keeps the invariant.
LEMMA IInvStep == IInv /\ [Next]_vars => IInv'
<1> SUFFICES ASSUME IInv, [Next]_vars PROVE IInv'
    OBVIOUS
<1>1. CASE UNCHANGED vars
    BY <1>1, SMTT(20) DEF vars, drainVars, tailVars, IInv, TypeOK, Drains, Covers,
                          Through, Follows, Exact
<1>2. CASE Next
    BY <1>2, StoreKeeps, DrainKeeps, PublishKeeps, TailKeeps DEF Next, DrainStep
<1> QED
    BY <1>1, <1>2

-----------------------------------------------------------------------------
\* What the drain and the tails hold is of its type, and within the log.
THEOREM TypeCorrect == Spec => []TypeOK
<1>1. IInv => TypeOK
    BY DEF IInv
<1> QED
    BY <1>1, IInvInit, IInvStep, PTL DEF Spec

\* A tail (logTails, released) is handed each row past its start once and in
\* order, and misses none but those the store dropped: wherever in the
\* drain's reads it subscribed, between the move of `published` and the
\* publish too.
THEOREM TailsAreExact == Spec => []TailExact
<1>1. IInv => TailExact
    BY DEF IInv, Exact, TailExact
<1> QED
    BY <1>1, IInvInit, IInvStep, PTL DEF Spec

-----------------------------------------------------------------------------
(* Each tail is a reader of its own (LogReaders): what the drain does in    *)
(* between is no step of any reader's.                                      *)

\* How a tail that is open goes on: over all of the rows past its place.
LEMMA HandMoves ==
    ASSUME TypeOK, NEW t \in Tails, NEW rows, NEW a \in Nat, NEW b \in 0..size,
           Covers(rows, a, b), a <= mark[t], Hand(t, rows, b),
           StateOf(t) = "on", \A u \in Tails : StateOf(u)' = StateOf(u),
           UNCHANGED <<size, gone>>
    PROVE  Log!Next
<1> DEFINE F == Fresh(t, rows)
           m == IF b > mark[t] THEN b ELSE mark[t]
           state == [u \in Tails |-> StateOf(u)]
<1>1. /\ got \in [Tails -> Seq(SUBSET (1..size))] /\ mark \in [Tails -> 0..size]
      /\ size \in Nat
    BY DEF TypeOK
<1>2. /\ mark' = [mark EXCEPT ![t] = m]
      /\ got' = [got EXCEPT ![t] = IF F = {} THEN @ ELSE Append(@, F)]
    BY DEF Hand
<1>3. /\ F \subseteq (mark[t] + 1)..m
      /\ \A c \in (mark[t] + 1)..m : c \in gone \/ c \in F
    BY FreshCovers
<1>4. m \in mark[t]..size
    BY <1>1
<1> HIDE DEF F, m
<1>5. /\ mark'[t] = m /\ mark' = [mark EXCEPT ![t] = mark'[t]]
    BY <1>1, <1>2
<1>6. Log!AllOf(F, mark[t], mark'[t])
    BY <1>3, <1>5 DEF Log!AllOf
<1>7. got' = IF F = {} THEN got ELSE [got EXCEPT ![t] = Append(@, F)]
    BY <1>1, <1>2
<1>8. state' = state /\ state[t] = "on"
    OBVIOUS
<1>9. Log!Move(t, F)
    BY <1>4, <1>5, <1>6, <1>7, <1>8 DEF Log!Move
<1>10. F \in SUBSET ((mark[t] + 1)..size)
    BY <1>1, <1>3, <1>4
<1> QED
    BY <1>9, <1>10 DEF Log!Next

\* The store's and the drain's steps move no reader.
LEMMA OtherReads ==
    ASSUME IInv,
           \/ \E n \in 1..MaxLog : Grow(n)
           \/ \E c \in 1..MaxLog : Collect(c)
           \/ DrainStep \/ End \/ UNCHANGED vars
    PROVE  [Log!Next]_(Log!vars)
<1> DEFINE state == [u \in Tails |-> StateOf(u)]
<1>1. TypeOK
    BY DEF IInv
<1>2. CASE \E n \in 1..MaxLog : Grow(n)
  <2>1. Log!Grow
      BY <1>1, <1>2 DEF Grow, tailVars, drainVars, Log!Grow, StateOf, TypeOK
  <2> QED
      BY <2>1 DEF Log!Next
<1>3. CASE \E c \in 1..MaxLog : Collect(c)
  <2>1. Log!Drop
      BY <1>1, <1>3 DEF Collect, tailVars, drainVars, Log!Drop, StateOf, TypeOK
  <2> QED
      BY <2>1 DEF Log!Next
<1>4. CASE DrainStep \/ End \/ UNCHANGED vars
  <2>1. UNCHANGED <<size, gone, tail, mark, got>>
      BY <1>4 DEF DrainStep, End, WakeUp, Capture, Page, Covered, InHand, Publish,
                  vars, tailVars
  <2> QED
      BY <2>1 DEF Log!vars, StateOf
<1> QED
    BY <1>2, <1>3, <1>4

\* A tail's step is its reader's, or nobody's.
LEMMA TailReads ==
    ASSUME IInv, NEW t \in Tails,
           TailStep(t) \/ \E f \in 0..MaxLog : Subscribe(t, f)
    PROVE  [Log!Next]_(Log!vars)
<1> DEFINE state == [u \in Tails |-> StateOf(u)]
<1>1. /\ TypeOK /\ Drains /\ Follows(t) /\ size \in Nat
      /\ tail \in [Tails -> {"off", "subscribed", "behind", "live", "over"}]
      /\ mark \in [Tails -> 0..size] /\ from \in [Tails -> 0..size]
      /\ fanout \in Seq(Share(size)) /\ Len(fanout) \in Nat
    BY DEF IInv, TypeOK, Share
<1>2. UNCHANGED <<size, gone>>
    BY DEF TailStep, Start, CatchUp, ReadFails, Receive, TailEnds, Subscribe
\* A tail whose place and state stay moves no reader.
<1>3. ASSUME UNCHANGED <<mark, got>>, \A u \in Tails : StateOf(u)' = StateOf(u)
      PROVE  UNCHANGED Log!vars
    BY <1>2, <1>3 DEF Log!vars
<1>4. ASSUME NEW f \in 0..MaxLog, Subscribe(t, f)
      PROVE  Log!Next
  <2>1. /\ f \in 0..size /\ tail[t] = "off" /\ got' = got
        /\ tail' = [tail EXCEPT ![t] = "subscribed"]
        /\ mark' = [mark EXCEPT ![t] = f]
      BY <1>4 DEF Subscribe
  <2>2. state' = [state EXCEPT ![t] = "on"] /\ state[t] = "off"
      BY <1>1, <2>1 DEF StateOf
  <2>3. mark'[t] = f /\ mark' = [mark EXCEPT ![t] = mark'[t]]
      BY <1>1, <2>1
  <2>4. Log!Open(t)
      BY <1>2, <2>1, <2>2, <2>3 DEF Log!Open
  <2> QED
      BY <2>4 DEF Log!Next
<1>5. CASE Start(t)
  <2>1. /\ tail[t] = "subscribed" /\ UNCHANGED <<mark, got>>
        /\ tail' = [tail EXCEPT ![t] = IF from[t] < published
                                       THEN "behind" ELSE "live"]
      BY <1>5 DEF Start
  <2>2. \A u \in Tails : StateOf(u)' = StateOf(u)
      BY <1>1, <2>1 DEF StateOf
  <2> QED
      BY <1>3, <2>1, <2>2
<1>6. CASE CatchUp(t)
  <2>1. /\ tail[t] = "behind" /\ Hand(t, Held(from[t], behind[t]), behind[t])
        /\ tail' = [tail EXCEPT ![t] = "live"]
      BY <1>6 DEF CatchUp
  <2>2. /\ from[t] \in Nat /\ behind[t] \in 0..size /\ mark[t] = from[t]
        /\ from[t] < behind[t]
      BY <1>1, <2>1 DEF TypeOK, Follows
  <2>3. Covers(Held(from[t], behind[t]), from[t], behind[t])
      BY <2>2 DEF Covers, Held
  <2>4. StateOf(t) = "on" /\ \A u \in Tails : StateOf(u)' = StateOf(u)
      BY <1>1, <2>1 DEF StateOf
  <2> QED
      BY <1>1, <1>2, <2>1, <2>2, <2>3, <2>4, HandMoves
<1>7. CASE Receive(t)
  <2> DEFINE k == taken[t] + 1
  <2>1. /\ tail[t] = "live" /\ taken[t] < Len(fanout) /\ tail' = tail
        /\ Hand(t, fanout[k].rows, fanout[k].through)
      BY <1>7 DEF Receive
  <2>2. /\ taken[t] \in 0..Len(fanout) /\ k \in 1..Len(fanout)
        /\ Through(taken[t]) <= mark[t]
      BY <1>1, <2>1 DEF Follows
  <2>3. k - 1 = taken[t] /\ k # 0
      BY <2>2
  <2>4. /\ Covers(fanout[k].rows, Through(taken[t]), Through(k))
        /\ Through(k) = fanout[k].through
      BY <1>1, <2>2, <2>3 DEF Drains, Through
  <2>5. \A n \in 0..Len(fanout) : Through(n) \in 0..size
    <3> TAKE n \in 0..Len(fanout)
    <3>1. n = 0 \/ fanout[n] \in Share(size)
        BY <1>1
    <3> QED
        BY <1>1, <3>1 DEF Through, Share
  <2>6. Through(taken[t]) \in Nat /\ Through(k) \in 0..size
      BY <2>2, <2>5
  <2>7. StateOf(t) = "on" /\ \A u \in Tails : StateOf(u)' = StateOf(u)
      BY <1>1, <2>1 DEF StateOf
  <2>8. Hand(t, fanout[k].rows, Through(k))
      BY <2>1, <2>4
  <2> HIDE DEF k
  <2> QED
      BY <1>1, <1>2, <2>2, <2>4, <2>6, <2>7, <2>8, HandMoves
<1>8. CASE ReadFails(t) \/ TailEnds(t)
  <2>1. /\ tail[t] \in {"behind", "live"} /\ UNCHANGED <<mark, got>>
        /\ tail' = [tail EXCEPT ![t] = "over"]
      BY <1>8 DEF ReadFails, TailEnds
  <2>2. state' = [state EXCEPT ![t] = "over"] /\ state[t] = "on"
      BY <1>1, <2>1 DEF StateOf
  <2>3. Log!Close(t)
      BY <1>2, <2>1, <2>2 DEF Log!Close
  <2> QED
      BY <2>3 DEF Log!Next
<1> QED
    BY <1>4, <1>5, <1>6, <1>7, <1>8 DEF TailStep

\* The tails are readers of their own (logTails, forwardReads, released):
\* wherever each subscribed, and however the raises, pages and dropped rows
\* fall, it only moves on, and is handed every row between.
THEOREM TailsAreReaders == Spec => ImplementsReaders
<1>1. Init => Log!Init
    BY DEF Init, Log!Init, StateOf
<1>2. IInv /\ [Next]_vars => [Log!Next]_(Log!vars)
  <2> SUFFICES ASSUME IInv, [Next]_vars
               PROVE  [Log!Next]_(Log!vars)
      OBVIOUS
  <2> QED
      BY OtherReads, TailReads DEF Next
<1> QED
    BY <1>1, <1>2, IInvInit, IInvStep, PTL DEF Spec, ImplementsReaders, Log!Spec

-----------------------------------------------------------------------------
(* No raise of the level is lost *)

\* What is committed past the drain's bound has a raise nobody took: the raise
\* comes after the commit, and the bound is read after the raise is given up.
Wakes ==
    /\ reading = "idle" /\ ~wake => at = size
    /\ reading \in {"reading", "publishing"} /\ ~wake => upTo = size
    /\ reading = "publishing" /\ share.rows = {} => upTo <= at

\* The drain's own steps keep the raises.
LEMMA DrainWakes ==
    ASSUME IInv, Wakes, DrainStep
    PROVE  Wakes'
<1>1. TypeOK
    BY DEF IInv
<1>2. CASE WakeUp
    BY <1>2 DEF WakeUp, Wakes
<1>3. CASE Capture
    BY <1>3 DEF Capture, Upper, Wakes
<1>4. ASSUME NEW c \in 1..MaxLog, Page(c) PROVE Wakes'
  <2>1. c \in Held(at, c)
      BY <1>1, <1>4 DEF Page, Held, TypeOK
  <2>2. share'.rows # {} /\ reading' = "publishing"
      BY <1>4, <2>1 DEF Page, InHand
  <2> QED
      BY <1>4, <2>2 DEF Page, InHand, Wakes
<1>5. CASE Covered
  <2>1. at' >= upTo /\ reading' = "publishing" /\ UNCHANGED <<wake, upTo, size>>
      BY <1>1, <1>5 DEF Covered, InHand, TypeOK
  <2> QED
      BY <1>5, <2>1 DEF Covered, Wakes
<1>6. CASE Publish
    BY <1>1, <1>6 DEF Publish, AfterShare, Wakes, TypeOK
<1> QED
    BY <1>2, <1>3, <1>4, <1>5, <1>6 DEF DrainStep

\* So does every other step.
LEMMA WakesStep == IInv /\ Wakes /\ [Next]_vars => Wakes'
<1> SUFFICES ASSUME IInv, Wakes, [Next]_vars PROVE Wakes'
    OBVIOUS
<1>1. ASSUME NEW n \in 1..MaxLog, Grow(n) PROVE Wakes'
    BY <1>1 DEF Grow, drainVars, Wakes
<1>2. ASSUME NEW c \in 1..MaxLog, Collect(c) PROVE Wakes'
    BY <1>2 DEF Collect, drainVars, Wakes
<1>3. CASE DrainStep
    BY <1>3, DrainWakes
<1>4. CASE End
    BY <1>4 DEF End, Wakes
<1>5. ASSUME NEW t \in Tails, TailStep(t) PROVE Wakes'
    BY <1>5 DEF TailStep, Start, CatchUp, ReadFails, Receive, TailEnds,
                drainVars, Wakes
<1>6. ASSUME NEW t \in Tails, NEW f \in 0..MaxLog, Subscribe(t, f) PROVE Wakes'
    BY <1>6 DEF Subscribe, drainVars, Wakes
<1>7. CASE UNCHANGED vars
    BY <1>7 DEF vars, Wakes
<1> QED
    BY <1>1, <1>2, <1>3, <1>4, <1>5, <1>6, <1>7 DEF Next

\* A tail that has nothing to do, beside a drain that has nothing to do, has
\* nothing left to be handed.
THEOREM QuietTailsAreCaughtUp == Spec => []QuietIsCaughtUp
<1>1. Init => Wakes
    BY DEF Init, Wakes
<1>2. IInv /\ Wakes => QuietIsCaughtUp
  <2> SUFFICES ASSUME IInv, Wakes, reading = "idle", ~wake, NEW t \in Tails,
                      tail[t] = "live", taken[t] = Len(fanout)
               PROVE  mark[t] = size
      BY DEF QuietIsCaughtUp
  <2>1. Through(Len(fanout)) = size
      BY DEF IInv, Drains, Wakes
  <2>2. Through(Len(fanout)) <= mark[t]
      BY DEF IInv, Follows
  <2> QED
      BY <2>1, <2>2 DEF IInv, TypeOK
<1> QED
    BY <1>1, <1>2, IInvInit, IInvStep, WakesStep, PTL DEF Spec
=============================================================================
