------------------------ MODULE ModelRetryGate_proofs ------------------------
(***************************************************************************)
(* Safety of the retry gate for every set of calls and routes, every way   *)
(* of binding calls to routes, and any number of coolings.                 *)
(*                                                                         *)
(* A cooling route stays quiet because of two facts about numbers and      *)
(* permits that no single step shows: a pass never carries a number larger *)
(* than the route's own count, and a route a call probes is cooling for as *)
(* long as the call holds its permit.  IInv adds them to the invariants.   *)
(***************************************************************************)
EXTENDS ModelRetryGate, WellFoundedInduction, TLAPS

(* How many routes a call is inside of. *)
Depth(c) == IF pc[c] = "settle" THEN at[c] ELSE at[c] - 1

(* Where a call stands agrees with the frames it is in. *)
Standing(c) ==
    /\ at[c] <= Len(Path[c]) + 1
    /\ pc[c] \in {"queue", "opened", "sleep", "settle"} => at[c] <= Len(Path[c])
    /\ pc[c] = "attempt" => at[c] = Len(Path[c]) + 1
    /\ pc[c] = "out" => at[c] = 1
    /\ pc[c] = "out" => cohort[c] = {} /\ probing[c] = {}
    /\ \A i \in 1..Len(Path[c]) :
         Path[c][i] \in cohort[c] \union probing[c] <=> i <= Depth(c)
    /\ cohort[c] \union probing[c] \subseteq RoutesOf(c)
    /\ cohort[c] \intersect probing[c] = {}

(* A pass is not from the future. *)
PassIsPast == \A c \in Calls, r \in Routes : admitted[c][r] <= cooled[r]

(* A route is cooling while a call sleeps or goes through as its probe;    *)
(* the cooling is the one the call sleeps out, and its backoff stays over  *)
(* until the probe's end is recorded.                                      *)
ProbedIsCooling ==
    /\ \A c \in Calls : pc[c] = "sleep" =>
         ~healthy[Here(c)] /\ slept[c] = cooled[Here(c)]
    /\ \A c \in Calls : \A r \in probing[c] : ~healthy[r] /\ due[r]

IInv ==
    /\ TypeOK
    /\ \A c \in Calls : Standing(c)
    /\ PassIsPast
    /\ PermitIsHeldInScope
    /\ ProbedIsCooling
    /\ CoolingAdmitsOnlyItsProbe
-------------------------------------------------------------------------------
(* A call's routes are routes, and no route is on its path twice. *)
LEMMA PathFacts ==
    ASSUME NEW c \in Calls
    PROVE  /\ Len(Path[c]) \in Nat \ {0}
           /\ \A i \in 1..Len(Path[c]) : Path[c][i] \in Routes
           /\ \A i, j \in 1..Len(Path[c]) : Path[c][i] = Path[c][j] => i = j
BY PathAssumption

(* Every route starts healthy and every call outside. *)
LEMMA InitIInv == Init => IInv
<1> SUFFICES ASSUME Init PROVE IInv
  OBVIOUS
<1> USE DEF Init
<1>1. TypeOK
  BY CleanAssumption DEF TypeOK, PCs
<1>2. ASSUME NEW c \in Calls PROVE Standing(c)
  <2>1. pc[c] = "out" /\ at[c] = 1 /\ cohort[c] = {} /\ probing[c] = {}
    OBVIOUS
  <2>2. QED
    BY ONLY <2>1, PathFacts, c \in Calls DEF Standing, Depth, RoutesOf
<1>3. PassIsPast
  BY DEF PassIsPast
<1>4. PermitIsHeldInScope
  BY NoCallAssumption DEF PermitIsHeldInScope
<1>5. ProbedIsCooling
  BY DEF ProbedIsCooling
<1>6. CoolingAdmitsOnlyItsProbe
  BY DEF CoolingAdmitsOnlyItsProbe, InFlight
<1>7. QED
  BY <1>1, <1>2, <1>3, <1>4, <1>5, <1>6 DEF IInv

(* Leaving a route frees its permit if the call held it as the probe, and  *)
(* takes the route, and no other, out of the call's frames.                *)
LEMMA LeaveFacts ==
    ASSUME TypeOK, NEW c \in Calls, Standing(c), pc[c] = "settle", Leave(c)
    PROVE  /\ holder' \in [Routes -> Calls \union {NoCall}]
           /\ pc' \in [Calls -> PCs]
           /\ at' \in [Calls -> Nat \ {0}]
           /\ cohort' \in [Calls -> SUBSET Routes]
           /\ admitted' \in [Calls -> [Routes -> Nat]]
           /\ probing' \in [Calls -> SUBSET Routes]
           /\ slept' \in [Calls -> Nat]
           /\ exit' \in [Calls -> Routes \union {Clean}]
           /\ Here(c) \in Routes
           /\ Standing(c)'
           /\ pc'[c] \in {"out", "settle"}
           /\ cohort'[c] = cohort[c] \ {Here(c)}
           /\ probing'[c] = probing[c] \ {Here(c)}
           /\ admitted'[c] = [admitted[c] EXCEPT ![Here(c)] = 0]
           /\ \A d \in Calls \ {c} :
                /\ pc'[d] = pc[d] /\ at'[d] = at[d] /\ cohort'[d] = cohort[d]
                /\ probing'[d] = probing[d] /\ admitted'[d] = admitted[d]
                /\ slept'[d] = slept[d]
<1> USE DEF Leave, Outermost, TypeOK, Standing
<1>1. Here(c) \in Routes /\ at[c] \in 1..Len(Path[c])
  BY PathFacts DEF Here
<1>2. /\ holder' \in [Routes -> Calls \union {NoCall}]
      /\ cohort' \in [Calls -> SUBSET Routes]
      /\ admitted' \in [Calls -> [Routes -> Nat]]
      /\ probing' \in [Calls -> SUBSET Routes]
      /\ slept' \in [Calls -> Nat]
      /\ cohort'[c] = cohort[c] \ {Here(c)}
      /\ probing'[c] = probing[c] \ {Here(c)}
      /\ admitted'[c] = [admitted[c] EXCEPT ![Here(c)] = 0]
  BY <1>1
<1>3. CASE at[c] = 1
  <2>1. /\ pc' = [pc EXCEPT ![c] = "out"]
        /\ exit' = [exit EXCEPT ![c] = Clean]
        /\ at' = at
    BY <1>3
  <2>2. /\ pc' \in [Calls -> PCs] /\ exit' \in [Calls -> Routes \union {Clean}]
        /\ at' \in [Calls -> Nat \ {0}] /\ pc'[c] = "out"
    BY <2>1, CleanAssumption DEF PCs
  <2>3. cohort'[c] = {} /\ probing'[c] = {}
    <3>1. ASSUME NEW r \in cohort[c] \union probing[c] PROVE r = Here(c)
      <4>1. PICK i \in 1..Len(Path[c]) : r = Path[c][i]
        BY DEF RoutesOf
      <4>2. i = 1
        BY <1>3, <4>1, PathFacts DEF Depth
      <4>3. QED
        BY <1>3, <4>1, <4>2 DEF Here
    <3>2. QED
      BY <1>2, <3>1
  <2>4. Standing(c)'
    BY <1>1, <1>2, <1>3, <2>1, <2>2, <2>3, PathFacts DEF Depth, RoutesOf
  <2>5. QED
    BY <1>1, <1>2, <2>1, <2>2, <2>4
<1>4. CASE at[c] # 1
  <2>1. pc' = pc /\ exit' = exit /\ at' = [at EXCEPT ![c] = @ - 1]
    BY <1>4
  <2>2. at' \in [Calls -> Nat \ {0}] /\ at'[c] = at[c] - 1
    BY <1>1, <1>4, <2>1
  <2>3. Depth(c) = at[c] /\ Depth(c)' = at[c] - 1
    BY <1>1, <1>2, <2>1, <2>2 DEF Depth
  <2>4. \A i \in 1..Len(Path[c]) : Path[c][i] = Here(c) <=> i = at[c]
    BY <1>1, PathFacts DEF Here
  <2>5. \A i \in 1..Len(Path[c]) :
          Path[c][i] \in cohort'[c] \union probing'[c] <=> i <= Depth(c)'
    BY <1>1, <1>2, <2>2, <2>3, <2>4
  <2>6. Standing(c)'
    BY <1>1, <1>2, <1>4, <2>1, <2>2, <2>5, PathFacts DEF RoutesOf
  <2>7. QED
    BY <1>1, <1>2, <2>1, <2>2, <2>6
<1>5. QED
  BY <1>3, <1>4

(* Sending a call keeps IInv: it is inside no route. *)
LEMMA StepSend ==
    ASSUME IInv, NEW c \in Calls, Send(c)
    PROVE  IInv'
<1> USE DEF Send, routeVars
<1>1. /\ TypeOK /\ Standing(c) /\ \A d \in Calls : Standing(d)
      /\ PassIsPast /\ PermitIsHeldInScope /\ ProbedIsCooling
      /\ CoolingAdmitsOnlyItsProbe
  BY DEF IInv
<1>2. at[c] <= Len(Path[c]) => Here(c) \in Routes
  BY <1>1, PathFacts DEF TypeOK, Here
<1>3. TypeOK'
  BY <1>1, <1>2, PathFacts, CleanAssumption DEF TypeOK, PCs, Standing, RoutesOf
<1>4. ASSUME NEW d \in Calls PROVE Standing(d)'
  <2>1. CASE d = c
    BY <1>1, <1>2, <2>1, PathFacts DEF TypeOK, Standing, Depth, Here, RoutesOf
  <2>2. CASE d # c
    BY <1>1, <2>2 DEF TypeOK, Standing, Depth, RoutesOf
  <2>3. QED
    BY <2>1, <2>2
<1>5. PassIsPast'
  BY <1>1, <1>2 DEF TypeOK, PassIsPast, Standing
<1>6. PermitIsHeldInScope'
  BY <1>1, <1>2, NoCallAssumption, PathFacts DEF TypeOK, PermitIsHeldInScope, Standing, Here
<1>7. ProbedIsCooling'
  BY <1>1, <1>2, PathFacts DEF TypeOK, PermitIsHeldInScope, ProbedIsCooling, Standing, Here
<1>8. CoolingAdmitsOnlyItsProbe'
  BY <1>1, <1>2, PathFacts, NoCallAssumption DEF TypeOK, CoolingAdmitsOnlyItsProbe, PassIsPast, PermitIsHeldInScope, Standing, InFlight, Current, Here
<1>9. QED
  BY <1>3, <1>4, <1>5, <1>6, <1>7, <1>8 DEF IInv

(* A call that joins a cohort is one route deeper. *)
LEMMA JoinKeepsStanding ==
    ASSUME TypeOK, NEW c \in Calls, Standing(c), at[c] <= Len(Path[c]),
           pc[c] \in {"enter", "opened"}, JoinCohort(c)
    PROVE  Standing(c)'
<1>1. /\ pc'[c] = "enter" /\ at'[c] = at[c] + 1
      /\ cohort'[c] = cohort[c] \union {Here(c)} /\ probing'[c] = probing[c]
  BY DEF JoinCohort, TypeOK
<1>2. at[c] \in 1..Len(Path[c]) /\ Here(c) = Path[c][at[c]]
  BY DEF TypeOK, Here
<1>3. ASSUME NEW i \in 1..Len(Path[c])
      PROVE  Path[c][i] \in cohort[c] \union probing[c] <=> i <= at[c] - 1
  BY DEF Standing, Depth
<1>4. Here(c) \notin probing[c]
  BY <1>2, <1>3
<1>5. ASSUME NEW i \in 1..Len(Path[c])
      PROVE  Path[c][i] \in cohort'[c] \union probing'[c] <=> i <= at'[c] - 1
  <2>1. Path[c][i] = Here(c) <=> i = at[c]
    BY <1>2, PathFacts
  <2>2. QED
    BY <1>1, <1>2, <1>3, <2>1
<1>6. cohort'[c] \union probing'[c] \subseteq RoutesOf(c)
  BY <1>1, <1>2 DEF Standing, RoutesOf
<1>7. at'[c] <= Len(Path[c]) + 1
  BY <1>1, <1>2, PathFacts
<1>8. cohort'[c] \intersect probing'[c] = {}
  BY <1>1, <1>4 DEF Standing
<1>9. QED
  BY <1>1, <1>5, <1>6, <1>7, <1>8 DEF Standing, Depth, RoutesOf

(* Joining a healthy route's cohort keeps IInv. *)
LEMMA StepAdmit ==
    ASSUME IInv, NEW c \in Calls, Admit(c)
    PROVE  IInv'
<1> USE DEF Admit, JoinCohort, routeVars
<1>1. /\ TypeOK /\ Standing(c) /\ \A d \in Calls : Standing(d)
      /\ PassIsPast /\ PermitIsHeldInScope /\ ProbedIsCooling
      /\ CoolingAdmitsOnlyItsProbe
  BY DEF IInv
<1>2. at[c] <= Len(Path[c]) => Here(c) \in Routes
  BY <1>1, PathFacts DEF TypeOK, Here
<1>3. TypeOK'
  BY <1>1, <1>2, PathFacts, CleanAssumption DEF TypeOK, PCs, Standing, RoutesOf
<1>4. ASSUME NEW d \in Calls PROVE Standing(d)'
  <2>1. CASE d = c
    BY <1>1, <2>1, JoinKeepsStanding
<2>2. CASE d # c
    BY <1>1, <2>2 DEF TypeOK, Standing, Depth, RoutesOf
  <2>3. QED
    BY <2>1, <2>2
<1>5. PassIsPast'
  BY <1>1, <1>2 DEF TypeOK, PassIsPast, Standing
<1>6. PermitIsHeldInScope'
  BY <1>1, <1>2, NoCallAssumption, PathFacts DEF TypeOK, PermitIsHeldInScope, Standing, Here
<1>7. ProbedIsCooling'
  BY <1>1, <1>2, PathFacts DEF TypeOK, PermitIsHeldInScope, ProbedIsCooling, Standing, Here
<1>8. CoolingAdmitsOnlyItsProbe'
  BY <1>1, <1>2, PathFacts, NoCallAssumption DEF TypeOK, CoolingAdmitsOnlyItsProbe, PassIsPast, PermitIsHeldInScope, Standing, InFlight, Current, Here
<1>9. QED
  BY <1>3, <1>4, <1>5, <1>6, <1>7, <1>8 DEF IInv

(* Joining the cohort after the queue keeps IInv, cooling or not. *)
LEMMA StepAdmitOpened ==
    ASSUME IInv, NEW c \in Calls, AdmitOpened(c)
    PROVE  IInv'
<1> USE DEF AdmitOpened, JoinCohort, routeVars
<1>1. /\ TypeOK /\ Standing(c) /\ \A d \in Calls : Standing(d)
      /\ PassIsPast /\ PermitIsHeldInScope /\ ProbedIsCooling
      /\ CoolingAdmitsOnlyItsProbe
  BY DEF IInv
<1>2. at[c] <= Len(Path[c]) => Here(c) \in Routes
  BY <1>1, PathFacts DEF TypeOK, Here
<1>3. TypeOK'
  BY <1>1, <1>2, PathFacts, CleanAssumption DEF TypeOK, PCs, Standing, RoutesOf
<1>4. ASSUME NEW d \in Calls PROVE Standing(d)'
  <2>1. CASE d = c
    BY <1>1, <2>1, JoinKeepsStanding DEF Standing
<2>2. CASE d # c
    BY <1>1, <2>2 DEF TypeOK, Standing, Depth, RoutesOf
  <2>3. QED
    BY <2>1, <2>2
<1>5. PassIsPast'
  BY <1>1, <1>2 DEF TypeOK, PassIsPast, Standing
<1>6. PermitIsHeldInScope'
  BY <1>1, <1>2, NoCallAssumption, PathFacts DEF TypeOK, PermitIsHeldInScope, Standing, Here
<1>7. ProbedIsCooling'
  BY <1>1, <1>2, PathFacts DEF TypeOK, PermitIsHeldInScope, ProbedIsCooling, Standing, Here
<1>8. CoolingAdmitsOnlyItsProbe'
  BY <1>1, <1>2, PathFacts, NoCallAssumption DEF TypeOK, CoolingAdmitsOnlyItsProbe, PassIsPast, PermitIsHeldInScope, Standing, InFlight, Current, Here
<1>9. QED
  BY <1>3, <1>4, <1>5, <1>6, <1>7, <1>8 DEF IInv

(* Queueing for a probe permit keeps IInv. *)
LEMMA StepQueue ==
    ASSUME IInv, NEW c \in Calls, Queue(c)
    PROVE  IInv'
<1> USE DEF Queue, routeVars
<1>1. /\ TypeOK /\ Standing(c) /\ \A d \in Calls : Standing(d)
      /\ PassIsPast /\ PermitIsHeldInScope /\ ProbedIsCooling
      /\ CoolingAdmitsOnlyItsProbe
  BY DEF IInv
<1>2. at[c] <= Len(Path[c]) => Here(c) \in Routes
  BY <1>1, PathFacts DEF TypeOK, Here
<1>3. TypeOK'
  BY <1>1, <1>2, PathFacts, CleanAssumption DEF TypeOK, PCs, Standing, RoutesOf
<1>4. ASSUME NEW d \in Calls PROVE Standing(d)'
  <2>1. CASE d = c
    BY <1>1, <1>2, <2>1, PathFacts DEF TypeOK, Standing, Depth, Here, RoutesOf
  <2>2. CASE d # c
    BY <1>1, <2>2 DEF TypeOK, Standing, Depth, RoutesOf
  <2>3. QED
    BY <2>1, <2>2
<1>5. PassIsPast'
  BY <1>1, <1>2 DEF TypeOK, PassIsPast, Standing
<1>6. PermitIsHeldInScope'
  BY <1>1, <1>2, NoCallAssumption, PathFacts DEF TypeOK, PermitIsHeldInScope, Standing, Here
<1>7. ProbedIsCooling'
  BY <1>1, <1>2, PathFacts DEF TypeOK, PermitIsHeldInScope, ProbedIsCooling, Standing, Here
<1>8. CoolingAdmitsOnlyItsProbe'
  BY <1>1, <1>2, PathFacts, NoCallAssumption DEF TypeOK, CoolingAdmitsOnlyItsProbe, PassIsPast, PermitIsHeldInScope, Standing, InFlight, Current, Here
<1>9. QED
  BY <1>3, <1>4, <1>5, <1>6, <1>7, <1>8 DEF IInv

(* Finding the route open keeps IInv: the permit is free again. *)
LEMMA StepFindOpened ==
    ASSUME IInv, NEW c \in Calls, FindOpened(c)
    PROVE  IInv'
<1> USE DEF FindOpened, routeVars
<1>1. /\ TypeOK /\ Standing(c) /\ \A d \in Calls : Standing(d)
      /\ PassIsPast /\ PermitIsHeldInScope /\ ProbedIsCooling
      /\ CoolingAdmitsOnlyItsProbe
  BY DEF IInv
<1>2. at[c] <= Len(Path[c]) => Here(c) \in Routes
  BY <1>1, PathFacts DEF TypeOK, Here
<1>3. TypeOK'
  BY <1>1, <1>2, PathFacts, CleanAssumption DEF TypeOK, PCs, Standing, RoutesOf
<1>4. ASSUME NEW d \in Calls PROVE Standing(d)'
  <2>1. CASE d = c
    BY <1>1, <1>2, <2>1, PathFacts DEF TypeOK, Standing, Depth, Here, RoutesOf
  <2>2. CASE d # c
    BY <1>1, <2>2 DEF TypeOK, Standing, Depth, RoutesOf
  <2>3. QED
    BY <2>1, <2>2
<1>5. PassIsPast'
  BY <1>1, <1>2 DEF TypeOK, PassIsPast, Standing
<1>6. PermitIsHeldInScope'
  BY <1>1, <1>2, NoCallAssumption, PathFacts DEF TypeOK, PermitIsHeldInScope, Standing, Here
<1>7. ProbedIsCooling'
  BY <1>1, <1>2, PathFacts DEF TypeOK, PermitIsHeldInScope, ProbedIsCooling, Standing, Here
<1>8. CoolingAdmitsOnlyItsProbe'
  BY <1>1, <1>2, PathFacts, NoCallAssumption DEF TypeOK, CoolingAdmitsOnlyItsProbe, PassIsPast, PermitIsHeldInScope, Standing, InFlight, Current, Here
<1>9. QED
  BY <1>3, <1>4, <1>5, <1>6, <1>7, <1>8 DEF IInv

(* Taking the probe permit keeps IInv: the call sleeps out this cooling. *)
LEMMA StepTakeProbe ==
    ASSUME IInv, NEW c \in Calls, TakeProbe(c)
    PROVE  IInv'
<1> USE DEF TakeProbe, routeVars
<1>1. /\ TypeOK /\ Standing(c) /\ \A d \in Calls : Standing(d)
      /\ PassIsPast /\ PermitIsHeldInScope /\ ProbedIsCooling
      /\ CoolingAdmitsOnlyItsProbe
  BY DEF IInv
<1>2. at[c] <= Len(Path[c]) => Here(c) \in Routes
  BY <1>1, PathFacts DEF TypeOK, Here
<1>3. TypeOK'
  BY <1>1, <1>2, PathFacts, CleanAssumption DEF TypeOK, PCs, Standing, RoutesOf
<1>4. ASSUME NEW d \in Calls PROVE Standing(d)'
  <2>1. CASE d = c
    BY <1>1, <1>2, <2>1, PathFacts DEF TypeOK, Standing, Depth, Here, RoutesOf
  <2>2. CASE d # c
    BY <1>1, <2>2 DEF TypeOK, Standing, Depth, RoutesOf
  <2>3. QED
    BY <2>1, <2>2
<1>5. PassIsPast'
  BY <1>1, <1>2 DEF TypeOK, PassIsPast, Standing
<1>6. PermitIsHeldInScope'
  <2>1. ASSUME NEW r \in Routes, NEW d \in Calls
        PROVE  (holder[r] = d <=> \/ pc[d] = "sleep" /\ Here(d) = r
                                  \/ r \in probing[d])'
    <3>1. /\ Here(d)' = Here(d) /\ probing' = probing
          /\ pc[c] = "queue" /\ pc'[c] = "sleep" /\ Here(c) \in Routes
          /\ d # c => pc'[d] = pc[d]
      BY <1>1, <1>2 DEF TypeOK, Standing, Here
    <3>2. holder'[r] = IF r = Here(c) THEN c ELSE holder[r]
      BY <1>1, <3>1 DEF TypeOK
    <3>3. holder[Here(c)] = NoCall
      OBVIOUS
    <3>4. QED
      BY <1>1, <3>1, <3>2, <3>3, NoCallAssumption DEF PermitIsHeldInScope
  <2>2. QED
    BY <2>1 DEF PermitIsHeldInScope
<1>7. ProbedIsCooling'
  <2>1. /\ Here(c) \in Routes /\ ~healthy[Here(c)]
        /\ slept'[c] = cooled[Here(c)] /\ Here(c)' = Here(c)
        /\ UNCHANGED <<healthy, due, cooled, probing>>
    BY <1>1, <1>2 DEF TypeOK, Standing, Here
  <2>2. ASSUME NEW d \in Calls, d # c
        PROVE  pc'[d] = pc[d] /\ slept'[d] = slept[d] /\ Here(d)' = Here(d)
    BY <1>1, <2>2 DEF TypeOK, Here
  <2>3. QED
    BY <1>1, <2>1, <2>2 DEF ProbedIsCooling
<1>8. CoolingAdmitsOnlyItsProbe'
  <2>1. Here(c) \in Routes /\ holder[Here(c)] = NoCall
    BY <1>1, <1>2 DEF Standing
  <2>2. ASSUME NEW r \in Routes, NEW d \in Calls
        PROVE  /\ InFlight(d, r)' => InFlight(d, r)
               /\ Current(d, r)' <=> Current(d, r)
               /\ holder[r] = d => holder'[r] = d
    BY <1>1, <2>1, NoCallAssumption DEF TypeOK, InFlight, Current
  <2>3. QED
    BY <1>1, <2>2 DEF CoolingAdmitsOnlyItsProbe
<1>9. QED
  BY <1>3, <1>4, <1>5, <1>6, <1>7, <1>8 DEF IInv

(* Waking as the probe keeps IInv: the backoff slept out is over. *)
LEMMA StepGoAsProbe ==
    ASSUME IInv, NEW c \in Calls, GoAsProbe(c)
    PROVE  IInv'
<1> USE DEF GoAsProbe, routeVars
<1>1. /\ TypeOK /\ Standing(c) /\ \A d \in Calls : Standing(d)
      /\ PassIsPast /\ PermitIsHeldInScope /\ ProbedIsCooling
      /\ CoolingAdmitsOnlyItsProbe
  BY DEF IInv
<1>2. at[c] <= Len(Path[c]) => Here(c) \in Routes
  BY <1>1, PathFacts DEF TypeOK, Here
<1>3. TypeOK'
  BY <1>1, <1>2, PathFacts, CleanAssumption DEF TypeOK, PCs, Standing, RoutesOf
<1>4. ASSUME NEW d \in Calls PROVE Standing(d)'
  <2>1. CASE d = c
    <3>1. /\ pc[c] = "sleep" /\ pc'[c] = "enter" /\ at'[c] = at[c] + 1
          /\ cohort'[c] = cohort[c] /\ probing'[c] = probing[c] \union {Here(c)}
      BY <1>1 DEF TypeOK
    <3>2. at[c] \in 1..Len(Path[c]) /\ Here(c) \in RoutesOf(c)
      BY <1>1, <3>1, PathFacts DEF TypeOK, Standing, Here, RoutesOf
    <3>3. Depth(c) = at[c] - 1 /\ Depth(c)' = at[c]
      BY <1>1, <3>1 DEF TypeOK, Depth
    <3>4. \A i \in 1..Len(Path[c]) : Path[c][i] = Here(c) <=> i = at[c]
      BY <3>2, PathFacts DEF Here
    <3>5. Here(c) \notin cohort[c]
      BY <1>1, <3>2, <3>3 DEF Standing, Here
    <3>6. \A i \in 1..Len(Path[c]) :
            Path[c][i] \in cohort'[c] \union probing'[c] <=> i <= Depth(c)'
      BY <1>1, <3>1, <3>2, <3>3, <3>4 DEF Standing
    <3>7. QED
      BY <1>1, <2>1, <3>1, <3>2, <3>5, <3>6 DEF Standing, RoutesOf
  <2>2. CASE d # c
    BY <1>1, <2>2 DEF TypeOK, Standing, Depth, RoutesOf
  <2>3. QED
    BY <2>1, <2>2
<1>5. PassIsPast'
  BY <1>1, <1>2 DEF TypeOK, PassIsPast, Standing
<1>6. PermitIsHeldInScope'
  BY <1>1, <1>2, NoCallAssumption, PathFacts DEF TypeOK, PermitIsHeldInScope, Standing, Here
<1>7. ProbedIsCooling'
  <2>1. Here(c) \in Routes
    BY <1>1, <1>2 DEF Standing
  <2>2. ~healthy[Here(c)] /\ due[Here(c)]
    BY <1>1 DEF ProbedIsCooling
  <2>3. /\ UNCHANGED <<healthy, due, cooled>> /\ pc'[c] = "enter"
        /\ probing'[c] = probing[c] \union {Here(c)}
    BY <1>1 DEF TypeOK
  <2>4. ASSUME NEW d \in Calls, d # c
        PROVE  /\ pc'[d] = pc[d] /\ probing'[d] = probing[d]
               /\ slept'[d] = slept[d] /\ Here(d)' = Here(d)
    BY <1>1, <2>4 DEF TypeOK, Here
  <2>5. QED
    BY <1>1, <2>2, <2>3, <2>4 DEF ProbedIsCooling
<1>8. CoolingAdmitsOnlyItsProbe'
  BY <1>1, <1>2, PathFacts, NoCallAssumption DEF TypeOK, CoolingAdmitsOnlyItsProbe, PassIsPast, PermitIsHeldInScope, Standing, InFlight, Current, Here
<1>9. QED
  BY <1>3, <1>4, <1>5, <1>6, <1>7, <1>8 DEF IInv

(* Starting the attempt keeps IInv: what it passed healthy is healthy. *)
LEMMA StepStart ==
    ASSUME IInv, NEW c \in Calls, Start(c)
    PROVE  IInv'
<1> USE DEF Start, StillOpen, routeVars
<1>1. /\ TypeOK /\ Standing(c) /\ \A d \in Calls : Standing(d)
      /\ PassIsPast /\ PermitIsHeldInScope /\ ProbedIsCooling
      /\ CoolingAdmitsOnlyItsProbe
  BY DEF IInv
<1>2. at[c] <= Len(Path[c]) => Here(c) \in Routes
  BY <1>1, PathFacts DEF TypeOK, Here
<1>3. TypeOK'
  BY <1>1, <1>2, PathFacts, CleanAssumption DEF TypeOK, PCs, Standing, RoutesOf
<1>4. ASSUME NEW d \in Calls PROVE Standing(d)'
  <2>1. CASE d = c
    BY <1>1, <1>2, <2>1, PathFacts DEF TypeOK, Standing, Depth, Here, RoutesOf
  <2>2. CASE d # c
    BY <1>1, <2>2 DEF TypeOK, Standing, Depth, RoutesOf
  <2>3. QED
    BY <2>1, <2>2
<1>5. PassIsPast'
  BY <1>1, <1>2 DEF TypeOK, PassIsPast, Standing
<1>6. PermitIsHeldInScope'
  BY <1>1, <1>2, NoCallAssumption, PathFacts DEF TypeOK, PermitIsHeldInScope, Standing, Here
<1>7. ProbedIsCooling'
  BY <1>1, <1>2, PathFacts DEF TypeOK, PermitIsHeldInScope, ProbedIsCooling, Standing, Here
<1>8. CoolingAdmitsOnlyItsProbe'
  BY <1>1, <1>2, PathFacts, NoCallAssumption DEF TypeOK, CoolingAdmitsOnlyItsProbe, PassIsPast, PermitIsHeldInScope, Standing, InFlight, Current, Here
<1>9. QED
  BY <1>3, <1>4, <1>5, <1>6, <1>7, <1>8 DEF IInv

(* Unwinding with COOLED keeps IInv: every permit is released. *)
LEMMA StepWaitAgain ==
    ASSUME IInv, NEW c \in Calls, WaitAgain(c)
    PROVE  IInv'
<1> USE DEF WaitAgain, StillOpen, Unwind, Released, routeVars
<1>1. /\ TypeOK /\ Standing(c) /\ \A d \in Calls : Standing(d)
      /\ PassIsPast /\ PermitIsHeldInScope /\ ProbedIsCooling
      /\ CoolingAdmitsOnlyItsProbe
  BY DEF IInv
<1>2. at[c] <= Len(Path[c]) => Here(c) \in Routes
  BY <1>1, PathFacts DEF TypeOK, Here
<1>3. TypeOK'
  BY <1>1, <1>2, PathFacts, CleanAssumption DEF TypeOK, PCs, Standing, RoutesOf
<1>4. ASSUME NEW d \in Calls PROVE Standing(d)'
  <2>1. CASE d = c
    BY <1>1, <1>2, <2>1, PathFacts DEF TypeOK, Standing, Depth, Here, RoutesOf
  <2>2. CASE d # c
    BY <1>1, <2>2 DEF TypeOK, Standing, Depth, RoutesOf
  <2>3. QED
    BY <2>1, <2>2
<1>5. PassIsPast'
  BY <1>1, <1>2 DEF TypeOK, PassIsPast, Standing
<1>6. PermitIsHeldInScope'
  <2>1. ASSUME NEW r \in Routes, NEW d \in Calls
        PROVE  (holder[r] = d <=> \/ pc[d] = "sleep" /\ Here(d) = r
                                  \/ r \in probing[d])'
    <3>1. /\ pc' = pc /\ pc[c] = "enter" /\ probing'[c] = {}
          /\ d # c => probing'[d] = probing[d] /\ Here(d)' = Here(d)
      BY <1>1 DEF TypeOK, Here
    <3>2. holder'[r] = IF holder[r] = c THEN NoCall ELSE holder[r]
      BY <1>1 DEF TypeOK
    <3>3. QED
      BY <1>1, <3>1, <3>2, NoCallAssumption DEF PermitIsHeldInScope
  <2>2. QED
    BY <2>1 DEF PermitIsHeldInScope
<1>7. ProbedIsCooling'
  BY <1>1, <1>2, PathFacts DEF TypeOK, PermitIsHeldInScope, ProbedIsCooling, Standing, Here
<1>8. CoolingAdmitsOnlyItsProbe'
  BY <1>1, <1>2, PathFacts, NoCallAssumption DEF TypeOK, CoolingAdmitsOnlyItsProbe, PassIsPast, PermitIsHeldInScope, Standing, InFlight, Current, Here
<1>9. QED
  BY <1>3, <1>4, <1>5, <1>6, <1>7, <1>8 DEF IInv

(* The end of the attempt keeps IInv. *)
LEMMA StepFinish ==
    ASSUME IInv, NEW c \in Calls, Finish(c)
    PROVE  IInv'
<1> USE DEF Finish, routeVars
<1>1. /\ TypeOK /\ Standing(c) /\ \A d \in Calls : Standing(d)
      /\ PassIsPast /\ PermitIsHeldInScope /\ ProbedIsCooling
      /\ CoolingAdmitsOnlyItsProbe
  BY DEF IInv
<1>2. at[c] <= Len(Path[c]) => Here(c) \in Routes
  BY <1>1, PathFacts DEF TypeOK, Here
<1>3. TypeOK'
  BY <1>1, <1>2, PathFacts, CleanAssumption DEF TypeOK, PCs, Standing, RoutesOf
<1>4. ASSUME NEW d \in Calls PROVE Standing(d)'
  <2>1. CASE d = c
    BY <1>1, <1>2, <2>1, PathFacts DEF TypeOK, Standing, Depth, Here, RoutesOf
  <2>2. CASE d # c
    BY <1>1, <2>2 DEF TypeOK, Standing, Depth, RoutesOf
  <2>3. QED
    BY <2>1, <2>2
<1>5. PassIsPast'
  BY <1>1, <1>2 DEF TypeOK, PassIsPast, Standing
<1>6. PermitIsHeldInScope'
  BY <1>1, <1>2, NoCallAssumption, PathFacts DEF TypeOK, PermitIsHeldInScope, Standing, Here
<1>7. ProbedIsCooling'
  BY <1>1, <1>2, PathFacts DEF TypeOK, PermitIsHeldInScope, ProbedIsCooling, Standing, Here
<1>8. CoolingAdmitsOnlyItsProbe'
  BY <1>1, <1>2, PathFacts, NoCallAssumption DEF TypeOK, CoolingAdmitsOnlyItsProbe, PassIsPast, PermitIsHeldInScope, Standing, InFlight, Current, Here
<1>9. QED
  BY <1>3, <1>4, <1>5, <1>6, <1>7, <1>8 DEF IInv

(* Recording an exit on a route keeps IInv when it leaves the other routes *)
(* alone, and moves this one only for a call that counts: by one more      *)
(* cooling, or by opening it after the probe.                              *)
LEMMA RecordingKeepsIInv ==
    ASSUME IInv, NEW c \in Calls, pc[c] = "settle", Leave(c),
           healthy' \in [Routes -> BOOLEAN], cooled' \in [Routes -> Nat],
           failures' \in [Routes -> Nat], due' \in [Routes -> BOOLEAN],
           \A r \in Routes \ {Here(c)} :
              healthy'[r] = healthy[r] /\ cooled'[r] = cooled[r] /\ due'[r] = due[r],
           \/ /\ healthy'[Here(c)] = healthy[Here(c)]
              /\ cooled'[Here(c)] = cooled[Here(c)]
              /\ due'[Here(c)] = due[Here(c)]
           \/ Current(c, Here(c)) /\ cooled'[Here(c)] = cooled[Here(c)] + 1
           \/ /\ Current(c, Here(c)) /\ healthy'[Here(c)]
              /\ cooled'[Here(c)] = cooled[Here(c)]
    PROVE  IInv'
<1>1. /\ TypeOK /\ Standing(c) /\ \A d \in Calls : Standing(d)
      /\ PassIsPast /\ PermitIsHeldInScope /\ ProbedIsCooling
      /\ CoolingAdmitsOnlyItsProbe
  BY DEF IInv
<1> DEFINE h == Here(c)
<1>2. /\ h \in Routes /\ h \in cohort[c] \union probing[c]
      /\ at[c] \in 1..Len(Path[c])
  BY <1>1, PathFacts DEF TypeOK, Here, Standing, Depth
<1>3. /\ Standing(c)'
      /\ pc'[c] \in {"out", "settle"}
      /\ cohort'[c] = cohort[c] \ {h}
      /\ probing'[c] = probing[c] \ {h}
      /\ admitted'[c] = [admitted[c] EXCEPT ![h] = 0]
      /\ \A d \in Calls \ {c} :
            /\ pc'[d] = pc[d] /\ at'[d] = at[d] /\ cohort'[d] = cohort[d]
            /\ probing'[d] = probing[d] /\ admitted'[d] = admitted[d]
            /\ slept'[d] = slept[d]
  BY <1>1, LeaveFacts
<1>4. TypeOK'
  BY <1>1, LeaveFacts DEF TypeOK
<1>5. ASSUME NEW d \in Calls PROVE Standing(d)'
  <2>1. CASE d # c
    <3>1. /\ pc'[d] = pc[d] /\ at'[d] = at[d]
          /\ cohort'[d] = cohort[d] /\ probing'[d] = probing[d]
      BY <1>3, <2>1
    <3>2. Standing(d)
      BY <1>1
    <3>3. QED
      BY ONLY <3>1, <3>2 DEF Standing, Depth, RoutesOf
  <2>2. QED
    BY <1>3, <2>1
<1>6. PassIsPast'
  <2>1. \A r \in Routes : cooled[r] <= cooled'[r]
    <3>1. ASSUME NEW r \in Routes, r # h PROVE cooled[r] <= cooled'[r]
      BY <1>1, <3>1 DEF TypeOK
    <3>2. cooled[h] <= cooled'[h]
      BY <1>1, <1>2 DEF TypeOK
    <3>3. QED
      BY <3>1, <3>2
  <2>2. ASSUME NEW d \in Calls, NEW r \in Routes PROVE admitted'[d][r] <= admitted[d][r]
    <3>1. CASE d # c
      BY <1>1, <1>3, <3>1 DEF TypeOK
    <3>2. CASE d = c
      <4>1. admitted[c] \in [Routes -> Nat]
        BY <1>1 DEF TypeOK
      <4>2. admitted'[c][r] = IF r = h THEN 0 ELSE admitted[c][r]
        BY <1>3, <4>1
      <4>3. QED
        BY <3>2, <4>1, <4>2
    <3>3. QED
      BY <3>1, <3>2
  <2>3. ASSUME NEW d \in Calls, NEW r \in Routes
        PROVE /\ admitted[d][r] \in Nat /\ admitted'[d][r] \in Nat
              /\ cooled[r] \in Nat /\ cooled'[r] \in Nat
    BY <1>1, <1>4 DEF TypeOK
  <2>4. QED
    BY <1>1, <2>1, <2>2, <2>3 DEF PassIsPast
<1>7. PermitIsHeldInScope'
  <2>1. \A r \in Routes : holder'[r] = IF r = h /\ holder[h] = c THEN NoCall ELSE holder[r]
    BY <1>1, <1>2 DEF TypeOK, Leave
  <2>2. ASSUME NEW r \in Routes, NEW d \in Calls \ {c}
        PROVE holder'[r] = d <=> \/ pc'[d] = "sleep" /\ Here(d)' = r
                                \/ r \in probing'[d]
    <3>1. Here(d)' = Here(d) /\ (holder'[r] = d <=> holder[r] = d)
      BY <1>3, <2>1, NoCallAssumption DEF Here
    <3>2. QED
      BY <1>1, <1>3, <3>1 DEF PermitIsHeldInScope
  <2>3. ASSUME NEW r \in Routes
        PROVE holder'[r] = c <=> r \in probing'[c]
    BY <1>1, <1>3, <2>1, NoCallAssumption DEF PermitIsHeldInScope
  <2>4. QED
    BY <1>3, <2>2, <2>3 DEF PermitIsHeldInScope
<1>8. ProbedIsCooling'
  <2>1. ASSUME NEW d \in Calls \ {c}, NEW r \in Routes,
               (pc[d] = "sleep" /\ Here(d) = r) \/ r \in probing[d]
        PROVE healthy'[r] = healthy[r] /\ cooled'[r] = cooled[r] /\ due'[r] = due[r]
    <3>1. holder[r] = d
      BY <1>1, <2>1 DEF PermitIsHeldInScope
    <3>2. ~healthy[r]
      BY <1>1, <2>1 DEF ProbedIsCooling
    <3>3. h = r => ~Current(c, h)
      BY <1>1, <1>2, <3>1, <3>2 DEF CoolingAdmitsOnlyItsProbe, InFlight
    <3>4. h = r => h \notin probing[c]
      BY <1>1, <1>2, <3>1 DEF PermitIsHeldInScope
    <3>5. QED
      BY <3>3, <3>4
  <2>2. ASSUME NEW d \in Calls \ {c}, pc'[d] = "sleep"
        PROVE ~healthy'[Here(d)'] /\ slept'[d] = cooled'[Here(d)']
    <3>1. pc[d] = "sleep" /\ Here(d)' = Here(d) /\ slept'[d] = slept[d]
      BY <1>3, <2>2 DEF Here
    <3>2. Here(d) \in Routes
      BY <1>1, <3>1, PathFacts DEF Standing, Here, TypeOK
    <3>3. QED
      BY <1>1, <2>1, <3>1, <3>2 DEF ProbedIsCooling
  <2>3. ASSUME NEW d \in Calls \ {c}, NEW r \in probing'[d]
        PROVE ~healthy'[r] /\ due'[r]
    <3>1. r \in probing[d] /\ r \in Routes
      BY <1>1, <1>3 DEF TypeOK
    <3>2. QED
      BY <1>1, <2>1, <3>1 DEF ProbedIsCooling
  <2>4. ASSUME NEW r \in probing'[c]
        PROVE ~healthy'[r] /\ due'[r]
    BY <1>1, <1>2, <1>3 DEF ProbedIsCooling, TypeOK
  <2>5. QED
    BY <1>3, <2>2, <2>3, <2>4 DEF ProbedIsCooling
<1>9. CoolingAdmitsOnlyItsProbe'
  <2>1. ASSUME NEW r \in Routes, NEW d \in Calls,
               InFlight(d, r)', Current(d, r)', ~healthy'[r]
        PROVE holder'[r] = d
    <3>1. CASE d = c
      <4>1. r # h /\ InFlight(c, r)
        BY <1>1, <1>2, <1>3, <2>1, <3>1 DEF InFlight
      <4>2. Current(c, r) /\ ~healthy[r]
        BY <1>1, <1>2, <1>3, <2>1, <3>1, <4>1 DEF TypeOK, Current
      <4>3. holder[r] = c
        BY <1>1, <4>1, <4>2 DEF CoolingAdmitsOnlyItsProbe
      <4>4. QED
        BY <1>1, <1>2, <3>1, <4>1, <4>3 DEF TypeOK, Leave
    <3>2. CASE d # c
      <4>1. InFlight(d, r)
        BY <1>3, <2>1, <3>2 DEF InFlight
      <4>2. Current(d, r) /\ ~healthy[r]
        BY <1>1, <1>2, <1>3, <2>1, <3>2, <4>1
        DEF TypeOK, Current, PassIsPast, InFlight, PermitIsHeldInScope, ProbedIsCooling
      <4>3. holder[r] = d
        BY <1>1, <4>1, <4>2 DEF CoolingAdmitsOnlyItsProbe
      <4>4. QED
        BY <1>1, <1>2, <3>2, <4>3 DEF TypeOK, Leave
    <3>3. QED
      BY <3>1, <3>2
  <2>2. QED
    BY <2>1 DEF CoolingAdmitsOnlyItsProbe
<1>10. QED
  BY <1>4, <1>5, <1>6, <1>7, <1>8, <1>9 DEF IInv

(* A stale exit moves nothing, so recording it keeps IInv. *)
LEMMA StepSettleStale ==
    ASSUME IInv, NEW c \in Calls, SettleStale(c)
    PROVE  IInv'
<1>1. Here(c) \in Routes /\ TypeOK
  BY PathFacts DEF IInv, TypeOK, Standing, Here, SettleStale
<1>2. /\ healthy' \in [Routes -> BOOLEAN] /\ cooled' \in [Routes -> Nat]
      /\ failures' \in [Routes -> Nat] /\ due' \in [Routes -> BOOLEAN]
  BY <1>1 DEF SettleStale, TypeOK
<1>3. QED
  BY <1>1, <1>2, RecordingKeepsIInv DEF SettleStale, TypeOK, Current

(* Cooling the route keeps IInv. *)
LEMMA StepSettleCool ==
    ASSUME IInv, NEW c \in Calls, SettleCool(c)
    PROVE  IInv'
<1>1. Here(c) \in Routes /\ TypeOK
  BY PathFacts DEF IInv, TypeOK, Standing, Here, SettleCool
<1>2. /\ healthy' \in [Routes -> BOOLEAN] /\ cooled' \in [Routes -> Nat]
      /\ failures' \in [Routes -> Nat] /\ due' \in [Routes -> BOOLEAN]
  BY <1>1 DEF SettleCool, TypeOK
<1>3. QED
  BY <1>1, <1>2, RecordingKeepsIInv DEF SettleCool, TypeOK, Current

(* Opening the route keeps IInv. *)
LEMMA StepSettleOpen ==
    ASSUME IInv, NEW c \in Calls, SettleOpen(c)
    PROVE  IInv'
<1>1. Here(c) \in Routes /\ TypeOK
  BY PathFacts DEF IInv, TypeOK, Standing, Here, SettleOpen
<1>2. /\ healthy' \in [Routes -> BOOLEAN] /\ cooled' \in [Routes -> Nat]
      /\ failures' \in [Routes -> Nat] /\ due' \in [Routes -> BOOLEAN]
  BY <1>1 DEF SettleOpen, TypeOK
<1>3. QED
  BY <1>1, <1>2, RecordingKeepsIInv DEF SettleOpen, TypeOK, Current

(* Ending the streak keeps IInv. *)
LEMMA StepSettleClean ==
    ASSUME IInv, NEW c \in Calls, SettleClean(c)
    PROVE  IInv'
<1>1. Here(c) \in Routes /\ TypeOK
  BY PathFacts DEF IInv, TypeOK, Standing, Here, SettleClean
<1>2. /\ healthy' \in [Routes -> BOOLEAN] /\ cooled' \in [Routes -> Nat]
      /\ failures' \in [Routes -> Nat] /\ due' \in [Routes -> BOOLEAN]
  BY <1>1 DEF SettleClean, TypeOK
<1>3. QED
  BY <1>1, <1>2, RecordingKeepsIInv DEF SettleClean, TypeOK, Current

(* An interruption keeps IInv: every permit is released. *)
LEMMA StepInterrupt ==
    ASSUME IInv, NEW c \in Calls, Interrupt(c)
    PROVE  IInv'
<1> USE DEF Interrupt, Unwind, Released, routeVars
<1>1. /\ TypeOK /\ Standing(c) /\ \A d \in Calls : Standing(d)
      /\ PassIsPast /\ PermitIsHeldInScope /\ ProbedIsCooling
      /\ CoolingAdmitsOnlyItsProbe
  BY DEF IInv
<1>2. at[c] <= Len(Path[c]) => Here(c) \in Routes
  BY <1>1, PathFacts DEF TypeOK, Here
<1>3. TypeOK'
  BY <1>1, <1>2, PathFacts, CleanAssumption DEF TypeOK, PCs, Standing, RoutesOf
<1>4. ASSUME NEW d \in Calls PROVE Standing(d)'
  <2>1. CASE d = c
    BY <1>1, <1>2, <2>1, PathFacts DEF TypeOK, Standing, Depth, Here, RoutesOf
  <2>2. CASE d # c
    BY <1>1, <2>2 DEF TypeOK, Standing, Depth, RoutesOf
  <2>3. QED
    BY <2>1, <2>2
<1>5. PassIsPast'
  BY <1>1, <1>2 DEF TypeOK, PassIsPast, Standing
<1>6. PermitIsHeldInScope'
  BY <1>1, <1>2, NoCallAssumption, PathFacts DEF TypeOK, PermitIsHeldInScope, Standing, Here
<1>7. ProbedIsCooling'
  BY <1>1, <1>2, PathFacts DEF TypeOK, PermitIsHeldInScope, ProbedIsCooling, Standing, Here
<1>8. CoolingAdmitsOnlyItsProbe'
  BY <1>1, <1>2, PathFacts, NoCallAssumption DEF TypeOK, CoolingAdmitsOnlyItsProbe, PassIsPast, PermitIsHeldInScope, Standing, InFlight, Current, Here
<1>9. QED
  BY <1>3, <1>4, <1>5, <1>6, <1>7, <1>8 DEF IInv
(* The passing of retryAt keeps IInv. *)
LEMMA StepElapse ==
    ASSUME IInv, NEW e \in Routes, Elapse(e)
    PROVE  IInv'
<1> USE DEF Elapse, callVars
<1>1. TypeOK'
  BY DEF IInv, TypeOK
<1>2. ASSUME NEW d \in Calls PROVE Standing(d)'
  BY DEF IInv, Standing, Depth, RoutesOf
<1>3. PassIsPast' /\ PermitIsHeldInScope'
  BY DEF IInv, PassIsPast, PermitIsHeldInScope, Here
<1>4. ProbedIsCooling'
  BY DEF IInv, TypeOK, ProbedIsCooling, Here
<1>5. CoolingAdmitsOnlyItsProbe'
  BY DEF IInv, CoolingAdmitsOnlyItsProbe, InFlight, Current
<1>6. QED
  BY <1>1, <1>2, <1>3, <1>4, <1>5 DEF IInv

(* A step outside the gate keeps IInv. *)
LEMMA StepStutter ==
    ASSUME IInv, UNCHANGED vars
    PROVE  IInv'
BY DEF IInv, vars, TypeOK, Standing, Depth, PassIsPast, PermitIsHeldInScope,
       ProbedIsCooling, CoolingAdmitsOnlyItsProbe, InFlight, Current, Here, RoutesOf

(* IInv is inductive. *)
LEMMA StepIInv == IInv /\ [Next]_vars => IInv'
<1> SUFFICES ASSUME IInv, [Next]_vars PROVE IInv'
  OBVIOUS
<1>1. ASSUME NEW c \in Calls, Send(c) \/ Through(c) \/ Acquire(c) \/ Interrupt(c)
      PROVE IInv'
  BY <1>1, StepSend, StepAdmit, StepAdmitOpened, StepQueue, StepFindOpened,
     StepTakeProbe, StepGoAsProbe, StepStart, StepWaitAgain, StepFinish,
     StepSettleStale, StepSettleCool, StepSettleOpen, StepSettleClean,
     StepInterrupt DEF Through, Acquire
<1>2. ASSUME NEW r \in Routes, Elapse(r) PROVE IInv'
  BY <1>2, StepElapse
<1>3. QED
  BY <1>1, <1>2, StepStutter DEF Next

(* The inductive invariant holds throughout. *)
THEOREM GateInvariant == Spec => []IInv
BY InitIInv, StepIInv, PTL DEF Spec

-------------------------------------------------------------------------------
(* The invariants the runs check, for every value of the constants.        *)

(* Every variable of the gate keeps its type. *)
THEOREM GateTypeOK == Spec => []TypeOK
<1>1. IInv => TypeOK
  BY DEF IInv
<1>2. QED
  BY <1>1, GateInvariant, PTL

(* While a route cools, the only call in flight that still counts on it is *)
(* the one that holds its probe permit.                                    *)
THEOREM GateCooling == Spec => []CoolingAdmitsOnlyItsProbe
<1>1. IInv => CoolingAdmitsOnlyItsProbe
  BY DEF IInv
<1>2. QED
  BY <1>1, GateInvariant, PTL

(* No interruption, unwinding or settlement leaks a probe permit. *)
THEOREM GatePermits == Spec => []PermitIsHeldInScope
<1>1. IInv => PermitIsHeldInScope
  BY DEF IInv
<1>2. QED
  BY <1>1, GateInvariant, PTL

-------------------------------------------------------------------------------
(* Nobody waits in a circle.  A call that queues while it holds a permit   *)
(* went through the permit's route, so it queues for a later one of its    *)
(* path; bindings that agree on which route is the wider one therefore     *)
(* never make two calls wait for each other.                               *)

(* Which routes come after which on some call's path. *)
Later ==
    {p \in Routes \X Routes : \E c \in Calls : \E i, j \in 1..Len(Path[c]) :
        i < j /\ Path[c][i] = p[2] /\ Path[c][j] = p[1]}

(* Who queues while another call waits for a permit of its own queues for  *)
(* a route later than that permit's.                                       *)
LEMMA QueuesForLater ==
    ASSUME IInv, NEW c \in Calls, NEW d \in Calls, WaitsFor(c, d),
           pc[d] = "queue"
    PROVE  <<Here(d), Here(c)>> \in Later
<1>1. /\ at[c] \in 1..Len(Path[c]) /\ at[d] \in 1..Len(Path[d])
      /\ Here(c) \in Routes /\ Here(d) \in Routes
  BY PathFacts DEF IInv, TypeOK, Standing, WaitsFor, Here
<1>2. Here(c) \in probing[d]
  BY <1>1 DEF IInv, PermitIsHeldInScope, WaitsFor
<1>3. PICK i \in 1..Len(Path[d]) : Path[d][i] = Here(c)
  BY <1>2 DEF IInv, Standing, RoutesOf
<1>4. i < at[d]
  BY <1>1, <1>2, <1>3 DEF IInv, Standing, Depth
<1>5. QED
  BY <1>1, <1>3, <1>4 DEF Later, Here

(* Calls never wait for each other's permits in a circle, if no chain of   *)
(* later and later routes goes on for ever.                                *)
THEOREM GateNoCircularWait ==
    ASSUME IsWellFoundedOn(Later, Routes)
    PROVE  Spec => []NoCircularWait
<1>1. IInv => NoCircularWait
  <2> SUFFICES ASSUME IInv, NEW S \in SUBSET Calls, S # {},
                      \A c \in S : \E d \in S : WaitsFor(c, d)
               PROVE  FALSE
    BY DEF NoCircularWait
  <2> DEFINE T == {Here(c) : c \in S}
  <2>1. \A c \in S : pc[c] = "queue"
    BY DEF WaitsFor
  <2>2. T \subseteq Routes /\ T # {}
    <3>1. ASSUME NEW c \in S PROVE Here(c) \in Routes
      <4>1. c \in Calls /\ pc[c] = "queue" /\ Standing(c) /\ TypeOK
        BY <2>1 DEF IInv
      <4>2. at[c] \in 1..Len(Path[c])
        BY <4>1, PathFacts DEF TypeOK, Standing
      <4>3. QED
        BY <4>1, <4>2, PathFacts DEF Here
    <3>2. QED
      BY <3>1
  <2> HIDE DEF T
  <2>3. PICK r \in T : \A s \in T : <<s, r>> \notin Later
    BY <2>2, WFMin
  <2>4. PICK c \in S : r = Here(c)
    BY <2>3 DEF T
  <2>5. PICK d \in S : WaitsFor(c, d)
    BY <2>4
  <2>6. <<Here(d), r>> \in Later
    BY <2>1, <2>4, <2>5, QueuesForLater
  <2>7. QED
    BY <2>3, <2>6 DEF T
<1>2. QED
  BY <1>1, GateInvariant, PTL

(* In particular for the bindings the code builds, whose two routes are a  *)
(* model's and its wire's: no wire route is a model's on another binding.  *)
THEOREM GateModelThenWire ==
    ASSUME NEW Wires \in SUBSET Routes,
           \A c \in Calls : /\ Len(Path[c]) = 2
                            /\ Path[c][1] \notin Wires
                            /\ Path[c][2] \in Wires
    PROVE  Spec => []NoCircularWait
<1>1. \A p \in Later : p[1] \in Wires /\ p[2] \notin Wires
  BY DEF Later
<1>2. IsWellFoundedOn(Later, Routes)
  <2> SUFFICES ASSUME NEW f \in [Nat -> Routes],
                      \A n \in Nat : <<f[n + 1], f[n]>> \in Later
               PROVE  FALSE
    BY DEF IsWellFoundedOn
  <2>1. <<f[1], f[0]>> \in Later /\ <<f[2], f[1]>> \in Later
    <3>1. <<f[0 + 1], f[0]>> \in Later /\ <<f[1 + 1], f[1]>> \in Later
      OBVIOUS
    <3>2. QED
      BY <3>1
  <2>2. QED
    BY <1>1, <2>1
<1>3. QED
  BY <1>2, GateNoCircularWait

-------------------------------------------------------------------------------
(* The action properties. *)

(* A call that counts on a cooling route and records its exit there is its *)
(* probe.                                                                  *)
LEMMA RecordedCallHoldsProbe ==
    ASSUME IInv, NEW c \in Calls, pc[c] = "settle",
           Current(c, Here(c)), ~healthy[Here(c)]
    PROVE  Here(c) \in Routes /\ Here(c) \in probing[c]
<1>1. Here(c) \in Routes /\ Here(c) \in cohort[c] \union probing[c]
  BY PathFacts DEF IInv, TypeOK, Here, Standing, Depth
<1>2. holder[Here(c)] = c
  BY <1>1 DEF IInv, CoolingAdmitsOnlyItsProbe, InFlight
<1>3. QED
  BY <1>1, <1>2 DEF IInv, PermitIsHeldInScope

(* A route already cooling cools again only by the failure of its probe. *)
THEOREM GateOneCooling == Spec => OneCoolingPerCohort
<1> DEFINE Once == \A r \in Routes :
         cooled'[r] # cooled[r] /\ ~healthy[r] =>
            \E c \in Calls : pc[c] = "settle" /\ r \in probing[c]
<1>1. IInv /\ [Next]_vars => [Once]_vars
  <2> SUFFICES ASSUME IInv, Next, NEW r \in Routes,
                      cooled'[r] # cooled[r], ~healthy[r]
               PROVE  \E c \in Calls : pc[c] = "settle" /\ r \in probing[c]
    OBVIOUS
  <2>1. PICK c \in Calls : SettleCool(c)
    BY DEF Next, Through, Acquire, Send, Admit, AdmitOpened, JoinCohort, Queue,
           FindOpened, TakeProbe, GoAsProbe, Start, WaitAgain, Unwind, Finish,
           SettleStale, SettleOpen, SettleClean, Interrupt, Elapse, routeVars
  <2>2. r = Here(c)
    BY <2>1 DEF SettleCool, IInv, TypeOK
  <2>3. QED
    BY <2>1, <2>2, RecordedCallHoldsProbe DEF SettleCool
<1>2. QED
  BY <1>1, GateInvariant, PTL DEF Spec, OneCoolingPerCohort

(* An attempt starts on a cooling route only as its probe, after the       *)
(* backoff.                                                                *)
THEOREM GateBackoff == Spec => AttemptWaitsOutEveryRoute
<1> DEFINE Waits == \A c \in Calls : pc[c] # "attempt" /\ pc'[c] = "attempt" =>
         \A r \in RoutesOf(c) : healthy[r] \/ (holder[r] = c /\ due[r])
<1>1. IInv /\ [Next]_vars => [Waits]_vars
  <2> SUFFICES ASSUME IInv, Next, NEW c \in Calls,
                      pc[c] # "attempt", pc'[c] = "attempt",
                      NEW r \in RoutesOf(c)
               PROVE  healthy[r] \/ (holder[r] = c /\ due[r])
    OBVIOUS
  <2>1. Start(c)
    BY DEF Next, Through, Acquire, Send, Admit, AdmitOpened, JoinCohort, Queue,
           FindOpened, TakeProbe, GoAsProbe, Start, WaitAgain, Finish,
           SettleStale, SettleCool, SettleOpen, SettleClean, Leave, Interrupt,
           Elapse, callVars, IInv, TypeOK
  <2>2. r \in Routes /\ r \in cohort[c] \union probing[c]
    <3>1. PICK i \in 1..Len(Path[c]) : r = Path[c][i]
      BY DEF RoutesOf
    <3>2. Standing(c) /\ pc[c] = "enter" /\ at[c] \in Nat /\ at[c] > Len(Path[c])
      BY <2>1 DEF Start, IInv, TypeOK
    <3>3. i <= Depth(c)
      BY <3>2, PathFacts DEF Depth
    <3>4. QED
      BY <3>1, <3>2, <3>3, PathFacts DEF Standing
  <2>3. QED
    BY <2>1, <2>2 DEF Start, StillOpen, IInv, ProbedIsCooling, PermitIsHeldInScope
<1>2. QED
  BY <1>1, GateInvariant, PTL DEF Spec, AttemptWaitsOutEveryRoute

-------------------------------------------------------------------------------
(* The gate implements the circuit breaker. *)

(* The recovery probe of r is in flight. *)
Probed(r) == \E c \in Calls : pc[c] \in {"attempt", "settle"} /\ r \in probing[c]

(* A step of the gate moves a route's breaker by one of its moves, or not  *)
(* at all.                                                                 *)
LEMMA ModeStep ==
    ASSUME IInv, IInv', [Next]_vars, NEW r \in Routes
    PROVE  \/ Mode(r)' = Mode(r)
           \/ Mode(r) = "healthy" /\ Mode(r)' = "cooling"
           \/ Mode(r) = "cooling" /\ Mode(r)' = "due"
           \/ Mode(r) = "due" /\ Mode(r)' = "probing"
           \/ Mode(r) = "probing" /\ Mode(r)' \in {"healthy", "cooling", "due"}
<1>1. /\ Mode(r) = IF healthy[r] THEN "healthy" ELSE IF Probed(r) THEN "probing"
                   ELSE IF due[r] THEN "due" ELSE "cooling"
      /\ Mode(r)' = IF healthy'[r] THEN "healthy" ELSE IF Probed(r)' THEN "probing"
                    ELSE IF due'[r] THEN "due" ELSE "cooling"
  BY DEF Mode, Probed
<1>2. \A c, d \in Calls : r \in probing[c] /\ r \in probing[d] => c = d
  BY DEF IInv, PermitIsHeldInScope
<1>3. Probed(r) => ~healthy[r] /\ due[r]
  BY DEF Probed, IInv, ProbedIsCooling
<1>4. CASE UNCHANGED vars
  BY <1>1, <1>4 DEF vars, Probed
<1>5. ASSUME NEW c \in Calls,
             \/ Send(c) \/ Admit(c) \/ AdmitOpened(c) \/ Queue(c)
             \/ FindOpened(c) \/ TakeProbe(c) \/ GoAsProbe(c) \/ WaitAgain(c)
             \/ Finish(c)
      PROVE  Mode(r)' = Mode(r)
  <2>1. healthy' = healthy /\ due' = due
    BY <1>5 DEF Send, Admit, AdmitOpened, JoinCohort, Queue, FindOpened, TakeProbe,
                GoAsProbe, WaitAgain, Unwind, Finish, routeVars
  <2>2. Probed(r)' <=> Probed(r)
    <3>1. TypeOK
      BY DEF IInv
    <3>2. CASE Send(c) \/ Queue(c) \/ FindOpened(c) \/ TakeProbe(c)
      BY <3>1, <3>2 DEF Send, Queue, FindOpened, TakeProbe, Probed, TypeOK
    <3>3. CASE Admit(c) \/ AdmitOpened(c)
      BY <3>1, <3>3 DEF Admit, AdmitOpened, JoinCohort, Probed, TypeOK
    <3>4. CASE GoAsProbe(c)
      <4>1. /\ pc[c] = "sleep" /\ pc'[c] = "enter"
            /\ \A d \in Calls \ {c} : pc'[d] = pc[d] /\ probing'[d] = probing[d]
        BY <3>1, <3>4 DEF GoAsProbe, TypeOK
      <4>2. QED
        BY <4>1 DEF Probed
    <3>5. CASE WaitAgain(c)
      <4>1. /\ pc[c] = "enter" /\ pc'[c] = "enter"
            /\ \A d \in Calls \ {c} : pc'[d] = pc[d] /\ probing'[d] = probing[d]
        BY <3>1, <3>5 DEF WaitAgain, Unwind, TypeOK
      <4>2. QED
        BY <4>1 DEF Probed
    <3>6. CASE Finish(c)
      <4>1. /\ pc[c] = "attempt" /\ pc'[c] = "settle" /\ probing' = probing
            /\ \A d \in Calls \ {c} : pc'[d] = pc[d]
        BY <3>1, <3>6 DEF Finish, TypeOK
      <4>2. QED
        BY <4>1 DEF Probed
    <3>7. QED
      BY <1>5, <3>2, <3>3, <3>4, <3>5, <3>6
  <2>3. QED
    BY <1>1, <2>1, <2>2
<1>6. ASSUME NEW c \in Calls, Start(c)
      PROVE  Mode(r)' = Mode(r) \/ (Mode(r) = "due" /\ Mode(r)' = "probing")
  <2>1. Probed(r)' <=> Probed(r) \/ r \in probing[c]
    BY <1>6 DEF Start, Probed, IInv, TypeOK
  <2>2. r \in probing[c] => ~healthy[r] /\ due[r]
    BY DEF IInv, ProbedIsCooling
  <2>3. QED
    BY <1>1, <1>6, <2>1, <2>2 DEF Start, routeVars
<1>7. ASSUME NEW c \in Calls, Interrupt(c)
      PROVE  Mode(r)' = Mode(r) \/ (Mode(r) = "probing" /\ Mode(r)' = "due")
  <2>1. healthy' = healthy /\ due' = due /\ (Probed(r)' => Probed(r))
    BY <1>7 DEF Interrupt, Unwind, Probed, IInv, TypeOK
  <2>2. QED
    BY <1>1, <1>3, <2>1
<1>8. ASSUME NEW e \in Routes, Elapse(e)
      PROVE  Mode(r)' = Mode(r) \/ (Mode(r) = "cooling" /\ Mode(r)' = "due")
  <2>1. healthy' = healthy /\ (Probed(r)' <=> Probed(r)) /\ (due[r] => due'[r])
    BY <1>8 DEF Elapse, callVars, Probed, IInv, TypeOK
  <2>2. due'[r] \in BOOLEAN /\ due[r] \in BOOLEAN
    BY DEF IInv, TypeOK
  <2>3. QED
    BY <1>1, <1>3, <2>1, <2>2
<1>9. ASSUME NEW c \in Calls,
             SettleStale(c) \/ SettleCool(c) \/ SettleOpen(c) \/ SettleClean(c)
      PROVE  \/ Mode(r)' = Mode(r)
             \/ Mode(r) = "healthy" /\ Mode(r)' = "cooling"
             \/ Mode(r) = "probing" /\ Mode(r)' \in {"healthy", "cooling", "due"}
  <2>1. /\ pc[c] = "settle" /\ Leave(c) /\ TypeOK /\ Standing(c) /\ Standing(c)'
        /\ probing'[c] = probing[c] \ {Here(c)}
        /\ pc'[c] \in {"out", "settle"}
        /\ \A d \in Calls \ {c} : pc'[d] = pc[d] /\ probing'[d] = probing[d]
    BY <1>9, LeaveFacts DEF IInv, SettleStale, SettleCool, SettleOpen, SettleClean
  <2>2. Probed(r)' <=> \/ r \in probing[c] \ {Here(c)}
                       \/ \E d \in Calls \ {c} :
                             pc[d] \in {"attempt", "settle"} /\ r \in probing[d]
    BY <2>1 DEF Probed, Standing
  <2>3. CASE r # Here(c)
    <3>1. Probed(r)' <=> Probed(r)
      BY <2>1, <2>2, <2>3 DEF Probed
    <3>2. healthy'[r] = healthy[r] /\ due'[r] = due[r]
      BY <1>9, <2>1, <2>3 DEF SettleStale, SettleCool, SettleOpen, SettleClean, TypeOK
    <3>3. QED
      BY <1>1, <3>1, <3>2
  <2>4. CASE r = Here(c)
    <3>1. CASE r \in probing[c]
      <4>1. Probed(r) /\ ~Probed(r)'
        BY <1>2, <2>1, <2>2, <2>4, <3>1 DEF Probed
      <4>2. Mode(r) = "probing" /\ Mode(r)' \in {"healthy", "cooling", "due"}
        BY <1>1, <1>3, <4>1
      <4>3. QED
        BY <4>2
    <3>2. CASE r \notin probing[c]
      <4>1. Probed(r)' <=> Probed(r)
        BY <2>1, <2>2, <2>4, <3>2 DEF Probed
      <4>2. CASE SettleStale(c) \/ SettleClean(c)
        BY <1>1, <4>1, <4>2 DEF SettleStale, SettleClean
      <4>3. CASE SettleCool(c)
        <5>1. healthy[r]
          BY <2>1, <2>4, <3>2, <4>3, RecordedCallHoldsProbe DEF SettleCool
        <5>2. ~healthy'[r] /\ ~due'[r] /\ ~Probed(r)'
          BY <1>3, <2>1, <2>4, <4>1, <4>3, <5>1 DEF SettleCool, TypeOK
        <5>3. QED
          BY <1>1, <5>1, <5>2
      <4>4. QED
        BY <1>9, <2>4, <3>2, <4>2, <4>3 DEF SettleOpen
    <3>3. QED
      BY <3>1, <3>2
  <2>5. QED
    BY <2>3, <2>4
<1>10. QED
  BY <1>4, <1>5, <1>6, <1>7, <1>8, <1>9 DEF Next, Through, Acquire

(* Each route of the gate is a circuit breaker. *)
THEOREM GateImplementsBreaker == Spec => ImplementsBreaker
<1>1. Init => Breaker!Init
  BY DEF Init, Breaker!Init, Mode
<1>2. IInv /\ IInv' /\ [Next]_vars => [Breaker!Next]_([r \in Routes |-> Mode(r)])
  <2> SUFFICES ASSUME IInv, IInv', [Next]_vars
               PROVE  Breaker!Next
    OBVIOUS
  <2>1. \A r \in Routes : Mode(r)' \in Breaker!Modes
    BY DEF Mode, Breaker!Modes
  <2>2. \A r \in Routes : \/ Mode(r)' = Mode(r)
                          \/ Mode(r) = "healthy" /\ Mode(r)' = "cooling"
                          \/ Mode(r) = "cooling" /\ Mode(r)' = "due"
                          \/ Mode(r) = "due" /\ Mode(r)' = "probing"
                          \/ Mode(r) = "probing" /\ Mode(r)' \in {"healthy", "cooling", "due"}
    BY ModeStep
  <2>3. QED
    BY <2>1, <2>2 DEF Breaker!Next, Breaker!Move, Breaker!Cool, Breaker!Elapse,
       Breaker!Probe, Breaker!Open, Breaker!Recool, Breaker!Lose
<1>3. QED
  BY <1>1, <1>2, GateInvariant, PTL DEF Spec, ImplementsBreaker, Breaker!Spec
===============================================================================
