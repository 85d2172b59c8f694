-------------------------- MODULE PerKeyLane_proofs --------------------------
(***************************************************************************)
(* Proofs about withPerKeyLane: the Deferred chain is exclusive, first     *)
(* come first served, and its lane is kept exactly while it is claimed,    *)
(* for any number of claims and keys.                                      *)
(*                                                                         *)
(* The argument is about the order of the claims (place).  A waiter's      *)
(* Deferred is that of an earlier claim with everything in between over    *)
(* (Waits); a Deferred is completed for good only once every earlier claim *)
(* is over (HandsOff); and a claim's predecessor is the one right before   *)
(* it (Chain), so following a forwarded wait skips nobody.                 *)
(***************************************************************************)
EXTENDS PerKeyLane, FiniteSetTheorems, TLAPS

Claimed(c) == key[c] # None

Over(c) == \A d \in Claims : Earlier(d, c) => pc[d] = "left"

\* A claim has a key from its first step, and a Deferred it completes on
\* the way out only.
Began ==
    /\ \A c \in Claims : pc[c] = "new" <=> key[c] = None
    /\ \A c \in Claims : mine[c] # "pending" => pc[c] = "left"

\* Claims are numbered in the order they were made.
Placed ==
    /\ \A c \in Claims : Claimed(c) => place[c] < clock
    /\ \A c, d \in Claims :
          Claimed(c) /\ Claimed(d) /\ place[c] = place[d] => c = d

\* The tail of a lane is the last claim made of its key.
TailIsLast ==
    \A k \in Keys : lanes[k] # None =>
        /\ key[lanes[k].tail] = k
        /\ \A d \in Claims : key[d] = k => place[d] <= place[lanes[k].tail]

\* previous is the claim right before; none, and all before are over.
Chain ==
    \A c \in Claims : Claimed(c) =>
        IF previous[c] = None THEN Over(c)
        ELSE /\ Earlier(previous[c], c)
             /\ \A d \in Claims :
                   Earlier(d, c) => place[d] <= place[previous[c]]

\* Everything between a waiter and the claim it waits for is over.
Waits ==
    \A c \in Claims : pc[c] = "waiting" =>
        /\ previous[c] # None /\ awaits[c] # None
        /\ Earlier(awaits[c], c)
        /\ \A d \in Claims :
              Earlier(d, c) /\ place[awaits[c]] < place[d] => pc[d] = "left"

\* A Deferred is done once everything before its claim is over, and
\* forwards only to a predecessor.
HandsOff ==
    \A c \in Claims : /\ mine[c] = "done" => Over(c)
                      /\ mine[c] = "forwards" => previous[c] # None

IInv == /\ TypeOK /\ Began /\ Placed /\ TailIsLast /\ Chain /\ Waits
        /\ HandsOff /\ InsideIsFirst /\ LaneLastsWhileClaimed

-----------------------------------------------------------------------------
\* The fibers of a key are a finite set.
LEMMA ActiveFinite ==
    ASSUME NEW k
    PROVE  IsFiniteSet(Active(k)) /\ Cardinality(Active(k)) \in Nat
<1>1. Active(k) \subseteq Claims  BY DEF Active
<1>. QED  BY <1>1, ClaimsFinite, FS_Subset, FS_CardinalityType

\* Nothing is claimed at the start.
LEMMA LaneInit == Init => IInv
<1>. SUFFICES ASSUME Init PROVE IInv  OBVIOUS
<1>1. TypeOK  BY DEF Init, TypeOK, MaybeClaim
<1>2. Began /\ Placed /\ TailIsLast
  BY DEF Init, Began, Placed, TailIsLast, Claimed
<1>3. Chain /\ Waits /\ HandsOff /\ InsideIsFirst
  BY DEF Init, Chain, Waits, HandsOff, InsideIsFirst, Claimed
<1>4. \A k \in Keys : Active(k) = {}  BY DEF Init, Active
<1>5. LaneLastsWhileClaimed
  BY <1>4, FS_EmptySet DEF Init, LaneLastsWhileClaimed, FibersOf
<1>. QED  BY <1>1, <1>2, <1>3, <1>5 DEF IInv

\* A claim goes to the end of its key's order: no earlier claim sees it.
LEMMA ClaimStep ==
    ASSUME NEW c \in Claims, NEW k \in Keys, IInv, Claim(c, k)
    PROVE  IInv'
<1>. USE NoneIsNone DEF IInv
<1>1. TypeOK'
  BY DEF TypeOK, Claim, Lane, MaybeClaim, TailOf, FibersOf
<1>2. Began'  BY DEF TypeOK, Began, Claim
<1>3. Placed'  BY DEF TypeOK, Began, Placed, Claim, Claimed
<1>4. TailIsLast'
  BY DEF TypeOK, Began, Placed, TailIsLast, Claim, Claimed, Lane
<1>5. /\ key'[c] = k /\ place'[c] = clock
      /\ \A d \in Claims : d # c => key'[d] = key[d] /\ place'[d] = place[d]
      /\ \A d \in Claims : d # c => pc'[d] = pc[d]
  BY DEF TypeOK, Claim
<1>6. \A d, e \in Claims : e # c /\ Claimed(e) =>
          (Earlier(d, e)' <=> d # c /\ Earlier(d, e))
  BY <1>5 DEF TypeOK, Began, Placed, Claim, Earlier, Claimed
<1>7. \A d \in Claims : Earlier(d, c)' <=> d # c /\ key[d] = k
  BY <1>5 DEF TypeOK, Began, Placed, Claim, Earlier, Claimed
<1>8. key[c] = None /\ mine[c] = "pending" /\ pc[c] = "new"
  BY DEF TypeOK, Began, Claim
<1>9. TailOf(k) = None => \A d \in Claims : key[d] = k => pc[d] = "left"
  <2>. SUFFICES ASSUME TailOf(k) = None, NEW d \in Claims, key[d] = k
                PROVE  pc[d] = "left"
    OBVIOUS
  <2>1. lanes[k] = None  BY DEF TailOf, TypeOK, Lane
  <2>2. d \notin Active(k)  BY <2>1 DEF LaneLastsWhileClaimed
  <2>. QED  BY <2>2 DEF Active, Began, TypeOK
<1>10. TailOf(k) # None =>
          /\ TailOf(k) \in Claims /\ TailOf(k) # c /\ key[TailOf(k)] = k
          /\ \A d \in Claims : key[d] = k => place[d] <= place[TailOf(k)]
  BY <1>8 DEF TypeOK, TailIsLast, TailOf, Lane
<1>11. /\ previous'[c] = TailOf(k) /\ awaits'[c] = TailOf(k)
       /\ pc'[c] = (IF TailOf(k) = None THEN "inside" ELSE "waiting")
       /\ \A d \in Claims : d # c => /\ previous'[d] = previous[d]
                                     /\ awaits'[d] = awaits[d]
       /\ mine' = mine
  BY DEF TypeOK, Claim
<1>12. Chain'
  <2>. SUFFICES ASSUME NEW e \in Claims, Claimed(e)'
                PROVE  IF previous'[e] = None THEN Over(e)'
                       ELSE /\ Earlier(previous[e], e)'
                            /\ \A d \in Claims :
                                  Earlier(d, e)' =>
                                  place'[d] <= place'[previous'[e]]
    BY DEF Chain
  <2>1. CASE e = c
    <3>1. CASE TailOf(k) = None
      BY <2>1, <3>1, <1>5, <1>7, <1>9, <1>11 DEF Over
    <3>2. CASE TailOf(k) # None
      <4>1. /\ previous'[c] = TailOf(k)
            /\ key'[TailOf(k)] = key'[c] /\ place'[TailOf(k)] < place'[c]
        BY <3>2, <1>5, <1>7, <1>10, <1>11 DEF Earlier
      <4>2. \A d \in Claims :
              Earlier(d, c)' => place'[d] <= place'[TailOf(k)]
        BY <3>2, <1>5, <1>7, <1>10
      <4>. QED  BY <2>1, <3>2, <4>1, <4>2 DEF Earlier
    <3>. QED  BY <3>1, <3>2
  <2>2. CASE e # c
    <3>1. Claimed(e) /\ previous'[e] = previous[e]
      BY <2>2, <1>5, <1>11 DEF Claimed
    <3>2. CASE previous[e] = None
      BY <2>2, <3>1, <3>2, <1>5, <1>6 DEF Chain, Over
    <3>3. CASE previous[e] # None
      <4>1. previous[e] \in Claims  BY <3>3 DEF TypeOK, MaybeClaim
      <4>2. /\ Earlier(previous[e], e)
            /\ \A d \in Claims : Earlier(d, e) =>
                  place[d] <= place[previous[e]]
        BY <3>1, <3>3 DEF Chain
      <4>3. previous[e] # c
        BY <4>2, <3>1, <1>8 DEF Earlier, Claimed
      <4>4. Earlier(previous[e], e)'
        BY <2>2, <3>1, <4>1, <4>2, <4>3, <1>5 DEF Earlier
      <4>. QED
        BY <2>2, <3>1, <3>3, <4>1, <4>2, <4>3, <4>4, <1>5, <1>6
    <3>. QED  BY <3>2, <3>3
  <2>. QED  BY <2>1, <2>2
<1>13. Waits'
  <2>. SUFFICES ASSUME NEW e \in Claims, pc'[e] = "waiting"
                PROVE  /\ previous'[e] # None /\ awaits'[e] # None
                       /\ Earlier(awaits[e], e)'
                       /\ \A d \in Claims :
                             /\ Earlier(d, e)'
                             /\ place'[awaits'[e]] < place'[d]
                             => pc'[d] = "left"
    BY DEF Waits
  <2>1. CASE e = c
    <3>1. TailOf(k) # None  BY <2>1, <1>11
    <3>2. key'[TailOf(k)] = key'[c] /\ place'[TailOf(k)] < place'[c]
      BY <3>1, <1>5, <1>7, <1>10 DEF Earlier
    <3>3. \A d \in Claims : Earlier(d, c)' =>
            ~ (place'[TailOf(k)] < place'[d])
      BY <3>1, <1>5, <1>7, <1>10 DEF TypeOK
    <3>. QED  BY <2>1, <3>1, <3>2, <3>3, <1>11 DEF Earlier
  <2>2. CASE e # c
    <3>1. /\ pc[e] = "waiting" /\ Claimed(e)
          /\ previous'[e] = previous[e] /\ awaits'[e] = awaits[e]
      BY <2>2, <1>5, <1>11 DEF Began, Claimed
    <3>2. /\ previous[e] # None /\ awaits[e] # None
          /\ Earlier(awaits[e], e)
          /\ \A d \in Claims :
                Earlier(d, e) /\ place[awaits[e]] < place[d]
                => pc[d] = "left"
      BY <3>1 DEF Waits
    <3>3. awaits[e] \in Claims /\ awaits[e] # c
      BY <3>1, <3>2, <1>8 DEF TypeOK, MaybeClaim, Earlier, Claimed
    <3>4. Earlier(awaits[e], e)'
      BY <2>2, <3>1, <3>2, <3>3, <1>5 DEF Earlier
    <3>. QED  BY <2>2, <3>1, <3>2, <3>3, <3>4, <1>5, <1>6
  <2>. QED  BY <2>1, <2>2
<1>14. HandsOff'
  <2>. SUFFICES ASSUME NEW e \in Claims, e # c, mine[e] # "pending"
                PROVE  /\ mine[e] = "done" => Over(e)'
                       /\ mine[e] = "forwards" => previous'[e] # None
    BY <1>8, <1>11 DEF HandsOff
  <2>1. Claimed(e)  BY DEF Began, Claimed
  <2>. QED  BY <2>1, <1>5, <1>6, <1>11 DEF HandsOff, Over
<1>15. InsideIsFirst'
  <2>. SUFFICES ASSUME NEW e \in Claims, pc'[e] = "inside",
                       NEW d \in Claims, Earlier(d, e)'
                PROVE  pc'[d] = "left"
    BY DEF InsideIsFirst
  <2>1. CASE e = c  BY <2>1, <1>5, <1>7, <1>9, <1>11
  <2>2. CASE e # c
    <3>1. pc[e] = "inside" /\ Claimed(e)
      BY <2>2, <1>5 DEF Began, Claimed
    <3>. QED  BY <2>2, <3>1, <1>5, <1>6 DEF InsideIsFirst
  <2>. QED  BY <2>1, <2>2
<1>16. LaneLastsWhileClaimed'
  <2>. SUFFICES ASSUME NEW j \in Keys
                PROVE  /\ FibersOf(j)' = Cardinality(Active(j)')
                       /\ lanes'[j] = None <=> Active(j)' = {}
    BY DEF LaneLastsWhileClaimed
  <2>1. CASE j = k
    <3>1. Active(k)' = Active(k) \cup {c} /\ c \notin Active(k)
      BY <1>5, <1>8, <1>11 DEF Active, TypeOK
    <3>2. Cardinality(Active(k)') = Cardinality(Active(k)) + 1
      BY <3>1, ActiveFinite, FS_AddElement
    <3>3. lanes'[k] = [tail |-> c, fibers |-> FibersOf(k) + 1]
      BY DEF Claim, TypeOK
    <3>4. lanes'[k] # None
      <4>1. FibersOf(k) \in Nat  BY DEF TypeOK, FibersOf, Lane
      <4>. QED  BY <3>3, <4>1 DEF Lane
    <3>. QED
      BY <2>1, <3>1, <3>2, <3>3, <3>4 DEF FibersOf, LaneLastsWhileClaimed
  <2>2. CASE j # k
    <3>1. Active(j)' = Active(j)
      BY <2>2, <1>5, <1>8, <1>11 DEF Active, TypeOK
    <3>2. lanes'[j] = lanes[j]  BY <2>2 DEF Claim, TypeOK
    <3>. QED  BY <3>1, <3>2 DEF FibersOf, LaneLastsWhileClaimed
  <2>. QED  BY <2>1, <2>2
<1>. QED
  BY <1>1, <1>2, <1>3, <1>4, <1>12, <1>13, <1>14, <1>15, <1>16 DEF IInv

\* A waiter whose Deferred is done comes after nobody still there.
LEMMA EnterStep ==
    ASSUME NEW c \in Claims, IInv, Enter(c)
    PROVE  IInv'
<1>. USE NoneIsNone DEF IInv
<1>1. TypeOK'  BY DEF TypeOK, Enter
<1>2. Began' /\ Placed' /\ TailIsLast'
  BY DEF TypeOK, Began, Placed, TailIsLast, Enter, Claimed
<1>3. /\ \A d, e \in Claims : Earlier(d, e)' <=> Earlier(d, e)
      /\ \A d \in Claims : pc[d] = "left" => pc'[d] = "left"
      /\ \A d \in Claims : d # c => pc'[d] = pc[d]
      /\ pc[c] = "waiting" /\ pc'[c] = "inside"
  BY DEF Enter, Earlier, TypeOK
<1>4. Over(c)
  <2>1. /\ awaits[c] \in Claims /\ Earlier(awaits[c], c)
        /\ \A d \in Claims : Earlier(d, c) /\ place[awaits[c]] < place[d]
                             => pc[d] = "left"
    BY <1>3 DEF Waits, TypeOK, MaybeClaim
  <2>2. Over(awaits[c]) /\ pc[awaits[c]] = "left"
    BY <2>1 DEF Enter, HandsOff, Began
  <2>. SUFFICES ASSUME NEW d \in Claims, Earlier(d, c)
                PROVE  pc[d] = "left"
    BY DEF Over
  <2>3. CASE place[d] < place[awaits[c]]
    BY <2>1, <2>2, <2>3 DEF Over, Earlier
  <2>4. CASE place[d] = place[awaits[c]]
    <3>1. Claimed(d) /\ Claimed(awaits[c])
      BY <1>3, <2>1 DEF Earlier, Claimed, Began
    <3>. QED  BY <2>1, <2>2, <2>4, <3>1 DEF Placed
  <2>5. CASE place[awaits[c]] < place[d]  BY <2>1, <2>5
  <2>. QED  BY <2>1, <2>3, <2>4, <2>5 DEF TypeOK
<1>5. InsideIsFirst'  BY <1>3, <1>4 DEF InsideIsFirst, Over
<1>6. Chain'
  <2>1. /\ previous' = previous /\ key' = key /\ place' = place
    BY DEF Enter
  <2>. QED  BY <1>3, <2>1 DEF Chain, Over, Claimed, Earlier
<1>7. Waits'
  <2>1. /\ previous' = previous /\ awaits' = awaits /\ place' = place
        /\ key' = key
    BY DEF Enter
  <2>. QED  BY <1>3, <2>1 DEF Waits, Earlier
<1>8. HandsOff'  BY <1>3 DEF HandsOff, Over, Enter
<1>9. LaneLastsWhileClaimed'
  <2>1. \A j \in Keys : Active(j)' = Active(j)
    BY <1>3 DEF Active, Enter
  <2>2. \A j \in Keys : FibersOf(j)' = FibersOf(j)
    BY DEF FibersOf, Enter
  <2>. QED  BY <2>1, <2>2 DEF LaneLastsWhileClaimed, Enter
<1>. QED  BY <1>1, <1>2, <1>5, <1>6, <1>7, <1>8, <1>9 DEF IInv

\* Following a forwarded wait skips only a claim that is over.
LEMMA ForwardStep ==
    ASSUME NEW c \in Claims, IInv, Forward(c)
    PROVE  IInv'
<1>. USE NoneIsNone DEF IInv
<1>0. PICK a \in Claims : a = awaits[c]
  BY DEF Forward, Waits, TypeOK, MaybeClaim
<1>1. PICK p \in MaybeClaim : p = previous[a]
  BY DEF TypeOK
<1>2. /\ pc[c] = "waiting" /\ mine[a] = "forwards"
      /\ awaits' = [awaits EXCEPT ![c] = p]
      /\ UNCHANGED <<lanes, pc, key, previous, mine, place, clock>>
  BY <1>0, <1>1 DEF Forward
<1>3. p \in Claims /\ p # None
  BY <1>1, <1>2 DEF HandsOff, MaybeClaim
<1>4. TypeOK'  BY <1>2, <1>3 DEF TypeOK, MaybeClaim
<1>5. Began' /\ Placed' /\ TailIsLast' /\ Chain' /\ HandsOff'
      /\ InsideIsFirst'
  BY <1>2 DEF Began, Placed, TailIsLast, Chain, HandsOff, InsideIsFirst,
              Claimed, Over, Earlier
<1>6. /\ Earlier(a, c) /\ previous[c] # None
      /\ \A d \in Claims : Earlier(d, c) /\ place[a] < place[d]
                           => pc[d] = "left"
  BY <1>0, <1>2 DEF Waits
<1>7. Claimed(a) /\ pc[a] = "left"
  BY <1>2, <1>6 DEF Began, Earlier, Claimed
<1>8. /\ Earlier(p, a)
      /\ \A d \in Claims : Earlier(d, a) => place[d] <= place[p]
  BY <1>1, <1>3, <1>7 DEF Chain
<1>9. Earlier(p, c)  BY <1>3, <1>6, <1>8 DEF Earlier, TypeOK
<1>10. ASSUME NEW d \in Claims, Earlier(d, c), place[p] < place[d]
       PROVE  pc[d] = "left"
  <2>1. CASE place[d] < place[a]
    <3>1. Earlier(d, a)  BY <1>6, <1>10, <2>1 DEF Earlier
    <3>. QED  BY <3>1, <1>3, <1>8, <1>10 DEF TypeOK
  <2>2. CASE place[d] = place[a]
    <3>1. Claimed(d)  BY <1>6, <1>7, <1>10 DEF Earlier, Claimed
    <3>. QED  BY <2>2, <3>1, <1>7 DEF Placed
  <2>3. CASE place[a] < place[d]  BY <2>3, <1>6, <1>10
  <2>. QED  BY <2>1, <2>2, <2>3 DEF TypeOK
<1>11. Waits'
  <2>. SUFFICES ASSUME NEW e \in Claims, pc'[e] = "waiting"
                PROVE  /\ previous'[e] # None /\ awaits'[e] # None
                       /\ Earlier(awaits[e], e)'
                       /\ \A d \in Claims :
                             /\ Earlier(d, e)'
                             /\ place'[awaits'[e]] < place'[d]
                             => pc'[d] = "left"
    BY DEF Waits
  <2>1. CASE e = c
    <3>1. awaits'[c] = p  BY <1>2 DEF TypeOK
    <3>. QED  BY <2>1, <3>1, <1>2, <1>3, <1>6, <1>9, <1>10 DEF Earlier
  <2>2. CASE e # c
    <3>1. awaits'[e] = awaits[e]  BY <2>2, <1>2 DEF TypeOK
    <3>. QED  BY <3>1, <1>2 DEF Waits, Earlier
  <2>. QED  BY <2>1, <2>2
<1>12. LaneLastsWhileClaimed'
  BY <1>2 DEF LaneLastsWhileClaimed, FibersOf, Active
<1>. QED  BY <1>4, <1>5, <1>11, <1>12 DEF IInv

\* Leaving only makes claims over, and hands on what the claim knew.
LEMMA LeaveStep ==
    ASSUME NEW c \in Claims, IInv, Leave(c)
    PROVE  IInv'
<1>. USE NoneIsNone DEF IInv
<1>1. PICK k \in Keys : k = key[c]
  BY DEF Leave, Began, TypeOK
<1>2. /\ pc[c] \in {"waiting", "inside"}
      /\ mine' = [mine EXCEPT ![c] = HandOff(c)]
      /\ lanes' = [lanes EXCEPT ![k] = OneLess(k)]
      /\ pc' = [pc EXCEPT ![c] = "left"]
      /\ UNCHANGED <<key, previous, awaits, place, clock>>
  BY <1>1 DEF Leave
<1>3. c \in Active(k)  BY <1>1, <1>2 DEF Active
<1>4. /\ lanes[k] # None /\ lanes[k] \in Lane
      /\ FibersOf(k) = Cardinality(Active(k))
      /\ lanes[k].fibers = Cardinality(Active(k))
  BY <1>3 DEF LaneLastsWhileClaimed, FibersOf, TypeOK
<1>5. /\ Active(k)' = Active(k) \ {c}
      /\ \A j \in Keys : j # k => Active(j)' = Active(j)
  BY <1>1, <1>2 DEF Active, TypeOK
<1>6. Cardinality(Active(k)') = Cardinality(Active(k)) - 1
  BY <1>3, <1>5, ActiveFinite, FS_RemoveElement
<1>7. Cardinality(Active(k)) \in Nat /\ Cardinality(Active(k)') \in Nat
  <2>1. IsFiniteSet(Active(k)')
    BY <1>5, ActiveFinite, FS_RemoveElement
  <2>. QED  BY <2>1, ActiveFinite, FS_CardinalityType
<1>8. Active(k)' = {} <=> Cardinality(Active(k)) = 1
  <2>1. IsFiniteSet(Active(k)')
    BY <1>5, ActiveFinite, FS_RemoveElement
  <2>2. Cardinality(Active(k)') = 0 <=> Active(k)' = {}
    BY <2>1, FS_EmptySet
  <2>. QED  BY <2>2, <1>6, <1>7
<1>9. IF Cardinality(Active(k)) = 1 THEN OneLess(k) = None
      ELSE /\ OneLess(k) \in Lane
           /\ OneLess(k).fibers = Cardinality(Active(k)) - 1
           /\ OneLess(k).tail = lanes[k].tail
  BY <1>4, <1>6, <1>7 DEF OneLess, Lane
<1>10. TypeOK'
  BY <1>2, <1>9 DEF TypeOK, HandOff
<1>11. Began' /\ Placed'
  BY <1>1, <1>2 DEF Began, Placed, Claimed, TypeOK
<1>12. TailIsLast'
  <2>. SUFFICES ASSUME NEW j \in Keys, lanes'[j] # None
                PROVE  /\ key'[lanes'[j].tail] = j
                       /\ \A d \in Claims : key'[d] = j =>
                             place'[d] <= place'[lanes'[j].tail]
    BY DEF TailIsLast
  <2>1. lanes[j] # None /\ lanes'[j].tail = lanes[j].tail
    BY <1>2, <1>4, <1>9 DEF TypeOK
  <2>. QED  BY <2>1, <1>2 DEF TailIsLast
<1>13. /\ \A d, e \in Claims : Earlier(d, e)' <=> Earlier(d, e)
       /\ \A d \in Claims : pc[d] = "left" => pc'[d] = "left"
       /\ \A d \in Claims : d # c => pc'[d] = pc[d] /\ mine'[d] = mine[d]
       /\ pc'[c] = "left" /\ mine'[c] = HandOff(c)
  BY <1>2 DEF Earlier, TypeOK
<1>14. Chain'
  BY <1>2, <1>13 DEF Chain, Over, Claimed, Earlier
<1>15. Waits'
  BY <1>2, <1>13 DEF Waits, Earlier
<1>16. HandsOff'
  <2>1. HandOff(c) = "done" => Over(c)
    BY <1>1, <1>2 DEF HandOff, Entered, Chain, InsideIsFirst, Over, Claimed
  <2>2. HandOff(c) = "forwards" => previous[c] # None
    BY DEF HandOff, Entered
  <2>. QED  BY <2>1, <2>2, <1>2, <1>13 DEF HandsOff, Over
<1>17. InsideIsFirst'
  <2>1. \A e \in Claims : pc'[e] = "inside" => pc[e] = "inside"
    BY <1>13
  <2>. QED  BY <2>1, <1>13 DEF InsideIsFirst
<1>18. LaneLastsWhileClaimed'
  <2>. SUFFICES ASSUME NEW j \in Keys
                PROVE  /\ FibersOf(j)' = Cardinality(Active(j)')
                       /\ lanes'[j] = None <=> Active(j)' = {}
    BY DEF LaneLastsWhileClaimed
  <2>1. CASE j = k
    <3>1. lanes'[k] = OneLess(k)  BY <1>2 DEF TypeOK
    <3>2. CASE Cardinality(Active(k)) = 1
      BY <2>1, <3>1, <3>2, <1>6, <1>8, <1>9 DEF FibersOf
    <3>3. CASE Cardinality(Active(k)) # 1
      <4>1. OneLess(k) # None
        BY <3>3, <1>9
      <4>. QED
        BY <2>1, <3>1, <3>3, <4>1, <1>6, <1>8, <1>9 DEF FibersOf
    <3>. QED  BY <3>2, <3>3
  <2>2. CASE j # k
    <3>1. lanes'[j] = lanes[j]  BY <2>2, <1>2 DEF TypeOK
    <3>. QED
      BY <2>2, <3>1, <1>5 DEF FibersOf, LaneLastsWhileClaimed
  <2>. QED  BY <2>1, <2>2
<1>. QED
  BY <1>10, <1>11, <1>12, <1>14, <1>15, <1>16, <1>17, <1>18 DEF IInv

\* The conjuncts read only vars.
LEMMA LaneStutter == IInv /\ UNCHANGED vars => IInv'
<1>. SUFFICES ASSUME IInv, UNCHANGED vars PROVE IInv'  OBVIOUS
<1>. USE DEF IInv, vars
<1>1. TypeOK' /\ Began' /\ Placed' /\ TailIsLast'
  BY DEF TypeOK, Began, Placed, TailIsLast, Claimed
<1>2. Chain' /\ Waits' /\ HandsOff' /\ InsideIsFirst'
  BY DEF Chain, Waits, HandsOff, InsideIsFirst, Claimed, Over, Earlier
<1>3. LaneLastsWhileClaimed'
  BY DEF LaneLastsWhileClaimed, FibersOf, Active
<1>. QED  BY <1>1, <1>2, <1>3

\* The inductive invariant of the chain.
THEOREM LaneInvariant == Spec => []IInv
<1>1. IInv /\ [Next]_vars => IInv'
  <2>. SUFFICES ASSUME IInv, [Next]_vars PROVE IInv'  OBVIOUS
  <2>1. CASE Next
    <3>1. PICK c \in Claims : \/ \E k \in Keys : Claim(c, k)
                             \/ Enter(c) \/ Forward(c) \/ Leave(c)
      BY <2>1 DEF Next
    <3>2. CASE \E k \in Keys : Claim(c, k)  BY <3>2, ClaimStep
    <3>3. CASE Enter(c)  BY <3>3, EnterStep
    <3>4. CASE Forward(c)  BY <3>4, ForwardStep
    <3>5. CASE Leave(c)  BY <3>5, LeaveStep
    <3>. QED  BY <3>1, <3>2, <3>3, <3>4, <3>5
  <2>2. CASE UNCHANGED vars  BY <2>2, LaneStutter
  <2>. QED  BY <2>1, <2>2
<1>. QED  BY LaneInit, <1>1, PTL DEF Spec

\* The lanes, the claims and their Deferreds keep their types.
THEOREM LaneTypeOK == Spec => []TypeOK
<1>1. IInv => TypeOK  BY DEF IInv
<1>. QED  BY LaneInvariant, <1>1, PTL

\* The claim running on a lane is the oldest one still there, whichever
\* waiters were interrupted: one holder per key, in the order of claims.
THEOREM LaneInsideIsFirst == Spec => []InsideIsFirst
<1>1. IInv => InsideIsFirst  BY DEF IInv
<1>. QED  BY LaneInvariant, <1>1, PTL

\* A lane is in the map exactly while a fiber holds or waits on it, so the
\* claim that finds none has nobody to wait for.
THEOREM LaneLasts == Spec => []LaneLastsWhileClaimed
<1>1. IInv => LaneLastsWhileClaimed  BY DEF IInv
<1>. QED  BY LaneInvariant, <1>1, PTL

\* Nobody waits on a lane that nobody runs on or can take: the oldest waiter
\* of a lane, once all before it are over, has its Deferred completed, so it
\* enters or moves down the chain.
FirstIsFree ==
    \A c \in Claims : pc[c] = "waiting" /\ Over(c) =>
        \/ mine[awaits[c]] = "done"
        \/ mine[awaits[c]] = "forwards"

\* A claim that is over has completed its Deferred.
Completed == \A c \in Claims : pc[c] = "left" => mine[c] # "pending"

\* No lane stalls, whichever of its waiters were interrupted.
THEOREM LaneNeverStalls == Spec => []FirstIsFree
<1>1. Init => Completed  BY DEF Init, Completed
<1>2. IInv /\ Completed /\ [Next]_vars => Completed'
  BY DEF IInv, TypeOK, Completed, Next, vars, Claim, Enter, Forward, Leave,
         HandOff
<1>3. IInv /\ Completed => FirstIsFree
  BY DEF IInv, TypeOK, MaybeClaim, Waits, Over, Completed, FirstIsFree
<1>. QED  BY LaneInit, LaneInvariant, <1>1, <1>2, <1>3, PTL DEF Spec

\* Every step of the chain is a step of the first-come lock or a stutter:
\* only Forward, which moves a wait down the chain, is invisible to it.
THEOREM LaneImplementsFifo == Spec => ImplementsFifo
<1>1. Init => Fifo!Init  BY DEF Init, Fifo!Init
<1>2. IInv /\ IInv' /\ [Next]_vars => [Fifo!Next]_(Fifo!vars)
  <2>. SUFFICES ASSUME IInv, IInv', Next
                PROVE  Fifo!Next \/ UNCHANGED Fifo!vars
    BY DEF vars, Fifo!vars
  <2>1. PICK c \in Claims : \/ \E k \in Keys : Claim(c, k)
                           \/ Enter(c) \/ Forward(c) \/ Leave(c)
    BY DEF Next
  <2>2. CASE \E k \in Keys : Claim(c, k)
    <3>1. PICK k \in Keys : Claim(c, k)  BY <2>2
    <3>2. TailOf(k) = None <=>
            \A d \in Claims : key[d] = k => pc[d] = "left"
      <4>1. TailOf(k) = None <=> lanes[k] = None
        BY NoneIsNone DEF IInv, TypeOK, TailOf, Lane
      <4>2. TailOf(k) = None <=> Active(k) = {}
        BY <4>1 DEF IInv, LaneLastsWhileClaimed
      <4>3. \A d \in Claims : key[d] = k => pc[d] # "new"
        BY NoneIsNone DEF IInv, Began
      <4>. QED  BY <4>2, <4>3 DEF IInv, TypeOK, Active
    <3>3. Fifo!Claim(c, k)  BY <3>1, <3>2 DEF Claim, Fifo!Claim
    <3>. QED  BY <3>3 DEF Fifo!Next
  <2>3. CASE Enter(c)
    <3>1. Fifo!First(c)
      BY <2>3 DEF Enter, IInv, TypeOK, InsideIsFirst, Earlier, Fifo!First,
                  Fifo!Earlier
    <3>2. Fifo!Enter(c)  BY <2>3, <3>1 DEF Enter, Fifo!Enter
    <3>. QED  BY <3>2 DEF Fifo!Next
  <2>4. CASE Forward(c)  BY <2>4 DEF Forward, Fifo!vars
  <2>5. CASE Leave(c)
    <3>1. Fifo!Leave(c)  BY <2>5 DEF Leave, Fifo!Leave
    <3>. QED  BY <3>1 DEF Fifo!Next
  <2>. QED  BY <2>1, <2>2, <2>3, <2>4, <2>5
<1>. QED  BY LaneInvariant, <1>1, <1>2, PTL DEF Spec, ImplementsFifo, Fifo!Spec
=============================================================================
