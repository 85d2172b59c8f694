---------------------------- MODULE ModelRetryGate ----------------------------
(***************************************************************************)
(* The process-wide model retry gate (agent/runtime/ModelRetryGate.ts).    *)
(* Every model call of every run goes through its binding's routes, the    *)
(* narrowest first.  A failure scoped to a route cools it for every call;  *)
(* the calls queue on the route's one probe permit, the first sleeps out   *)
(* the backoff and goes as the probe, and its success lets the rest in.    *)
(*                                                                         *)
(* A step here is at most what the code runs between two points at which   *)
(* its fiber may be suspended or interrupted; `settle` of one route is one *)
(* step.  Time is abstract: `due[r]` says whether `retryAt` has passed.    *)
(***************************************************************************)
EXTENDS Naturals, Sequences

CONSTANTS
    Calls,    \* gated model calls
    Routes,   \* route keys
    Path,     \* the routes of each call's binding, narrowest first
    MaxCool,  \* bound of the exploration: how often one route may cool
    NoCall    \* nobody: the value of a free probe permit

ASSUME PathAssumption ==
    /\ Path \in [Calls -> Seq(Routes) \ {<<>>}]
    /\ \A c \in Calls : \A i, j \in 1..Len(Path[c]) :
          Path[c][i] = Path[c][j] => i = j

ASSUME NoCallAssumption == NoCall \notin Calls

ASSUME MaxCoolAssumption == MaxCool \in Nat

Clean == "clean"  \* a success, or a failure no route of the call is blamed for

ASSUME CleanAssumption == Clean \notin Routes

VARIABLES
    healthy,   \* [Routes -> BOOLEAN]: the route admits every call at once
    holder,    \* [Routes -> Calls or NoCall]: who holds the probe permit
    cooled,    \* [Routes -> Nat]: how many times the route has cooled
    failures,  \* [Routes -> Nat]: the failure streak, the backoff's exponent
    due,       \* [Routes -> BOOLEAN]: retryAt has passed
    pc,        \* [Calls -> where the call is]
    at,        \* [Calls -> index of the route it is at]
    cohort,    \* [Calls -> SUBSET Routes]: `passed`, the routes passed healthy
    admitted,  \* [Calls -> [Routes -> Nat]]: `pass.healthy`
    probing,   \* [Calls -> SUBSET Routes]: the routes it goes through as probe
    slept,     \* [Calls -> Nat]: the cooling whose backoff the call sleeps out
    exit       \* [Calls -> the blamed route, or Clean]

routeVars == <<healthy, holder, cooled, failures, due>>
callVars == <<pc, at, cohort, admitted, probing, slept, exit>>
vars == <<healthy, holder, cooled, failures, due,
          pc, at, cohort, admitted, probing, slept, exit>>

PCs == {"out",      \* not in the gate
        "enter",    \* at routes[at], about to look at it
        "queue",    \* waiting for the probe permit of routes[at]
        "opened",   \* the route opened while the call queued
        "sleep",    \* holds the permit, sleeping out the backoff
        "attempt",  \* the provider call is in flight
        "settle"}   \* recording the exit on routes[at], innermost first

RoutesOf(c) == {Path[c][i] : i \in 1..Len(Path[c])}

Here(c) == Path[c][at[c]]

Init ==
    /\ healthy = [r \in Routes |-> TRUE]
    /\ holder = [r \in Routes |-> NoCall]
    /\ cooled = [r \in Routes |-> 0]
    /\ failures = [r \in Routes |-> 0]
    /\ due = [r \in Routes |-> TRUE]
    /\ pc = [c \in Calls |-> "out"]
    /\ at = [c \in Calls |-> 1]
    /\ cohort = [c \in Calls |-> {}]
    /\ admitted = [c \in Calls |-> [r \in Routes |-> 0]]
    /\ probing = [c \in Calls |-> {}]
    /\ slept = [c \in Calls |-> 0]
    /\ exit = [c \in Calls |-> Clean]

-------------------------------------------------------------------------------
(* Going in. *)

(* A loop sends a call: `withRoutes(routes)(attempt)` starts at the first  *)
(* route.                                                                  *)
Send(c) ==
    /\ pc[c] = "out"
    /\ pc' = [pc EXCEPT ![c] = "enter"]
    /\ UNCHANGED <<routeVars, at, cohort, admitted, probing, slept, exit>>

(* The call joins the healthy cohort of its route, admitted after the      *)
(* route's `cooled`-th cooling.  A call whose route opened while it queued *)
(* joins without looking at `healthy` again.                               *)
JoinCohort(c) ==
    /\ cohort' = [cohort EXCEPT ![c] = @ \union {Here(c)}]
    /\ admitted' = [admitted EXCEPT ![c][Here(c)] = cooled[Here(c)]]
    /\ at' = [at EXCEPT ![c] = @ + 1]
    /\ pc' = [pc EXCEPT ![c] = "enter"]
    /\ UNCHANGED <<routeVars, probing, slept, exit>>

Admit(c) ==
    /\ pc[c] = "enter"
    /\ at[c] <= Len(Path[c])
    /\ healthy[Here(c)]
    /\ JoinCohort(c)

AdmitOpened(c) ==
    /\ pc[c] = "opened"
    /\ JoinCohort(c)

(* A cooling route's call queues on its probe permit. *)
Queue(c) ==
    /\ pc[c] = "enter"
    /\ at[c] <= Len(Path[c])
    /\ ~healthy[Here(c)]
    /\ pc' = [pc EXCEPT ![c] = "queue"]
    /\ UNCHANGED <<routeVars, at, cohort, admitted, probing, slept, exit>>

(* The permit comes to a call of a route that opened meanwhile: the call   *)
(* gives it back at once.                                                  *)
FindOpened(c) ==
    /\ pc[c] = "queue"
    /\ holder[Here(c)] = NoCall
    /\ healthy[Here(c)]
    /\ pc' = [pc EXCEPT ![c] = "opened"]
    /\ UNCHANGED <<routeVars, at, cohort, admitted, probing, slept, exit>>

(* The permit comes to a call of a route still cooling: it reads `retryAt` *)
(* once and sleeps until then, holding the permit.                         *)
TakeProbe(c) ==
    /\ pc[c] = "queue"
    /\ holder[Here(c)] = NoCall
    /\ ~healthy[Here(c)]
    /\ holder' = [holder EXCEPT ![Here(c)] = c]
    /\ slept' = [slept EXCEPT ![c] = cooled[Here(c)]]
    /\ pc' = [pc EXCEPT ![c] = "sleep"]
    /\ UNCHANGED <<healthy, cooled, failures, due, at, cohort, admitted,
                   probing, exit>>

(* The sleep ends when the `retryAt` the call read has passed, whatever    *)
(* `retryAt` says by now; the call goes on to the next route as the probe. *)
GoAsProbe(c) ==
    /\ pc[c] = "sleep"
    /\ due[Here(c)] \/ cooled[Here(c)] # slept[c]
    /\ probing' = [probing EXCEPT ![c] = @ \union {Here(c)}]
    /\ at' = [at EXCEPT ![c] = @ + 1]
    /\ slept' = [slept EXCEPT ![c] = 0]
    /\ pc' = [pc EXCEPT ![c] = "enter"]
    /\ UNCHANGED <<routeVars, cohort, admitted, exit>>

(* Every route the call passed healthy is healthy still. *)
BugNoRecheck(c) == TRUE

StillOpen(c) == \A r \in cohort[c] : healthy[r]

(* Past the last route, with every route it passed healthy still healthy:  *)
(* the attempt starts.                                                     *)
Start(c) ==
    /\ pc[c] = "enter"
    /\ at[c] > Len(Path[c])
    /\ StillOpen(c)
    /\ pc' = [pc EXCEPT ![c] = "attempt"]
    /\ UNCHANGED <<routeVars, at, cohort, admitted, probing, slept, exit>>

(* The permits once the call has left every probe's scope. *)
BugKeepPermit(c) == holder

Released(c) == [r \in Routes |-> IF holder[r] = c THEN NoCall ELSE holder[r]]

(* The call leaves every route it is in: its frames go, its permits are    *)
(* released.                                                               *)
Unwind(c) ==
    /\ holder' = Released(c)
    /\ cohort' = [cohort EXCEPT ![c] = {}]
    /\ admitted' = [admitted EXCEPT ![c] = [r \in Routes |-> 0]]
    /\ probing' = [probing EXCEPT ![c] = {}]
    /\ slept' = [slept EXCEPT ![c] = 0]
    /\ exit' = [exit EXCEPT ![c] = Clean]
    /\ at' = [at EXCEPT ![c] = 1]
    /\ UNCHANGED <<healthy, cooled, failures, due>>

(* A route passed healthy cooled while a later one was waited on: the call *)
(* unwinds with COOLED, recording nothing, and waits again from the start. *)
WaitAgain(c) ==
    /\ pc[c] = "enter"
    /\ at[c] > Len(Path[c])
    /\ ~StillOpen(c)
    /\ Unwind(c)
    /\ UNCHANGED pc

-------------------------------------------------------------------------------
(* Coming back. *)

(* The attempt exits: cleanly, or with a ModelError whose scope blames one *)
(* of the call's routes.  The exit is then recorded route by route.        *)
Finish(c) ==
    /\ pc[c] = "attempt"
    /\ \E e \in RoutesOf(c) \union {Clean} :
          /\ e # Clean => cooled[e] < MaxCool
          /\ exit' = [exit EXCEPT ![c] = e]
    /\ pc' = [pc EXCEPT ![c] = "settle"]
    /\ at' = [at EXCEPT ![c] = Len(Path[c])]
    /\ UNCHANGED <<routeVars, cohort, admitted, probing, slept>>

(* The call says something about the route: it is its probe, or was        *)
(* admitted healthy since the last cooling.                                *)
BugStaleCounts(c, r) == TRUE

Current(c, r) == r \in probing[c] \/ admitted[c][r] = cooled[r]

(* The route is the call's first: what wraps it is the caller. *)
Outermost(c) == at[c] = 1

(* Leave the route: drop what the call kept for it and its permit, and go  *)
(* on to the wider route's frame, out to the caller.                       *)
Leave(c) ==
    /\ cohort' = [cohort EXCEPT ![c] = @ \ {Here(c)}]
    /\ admitted' = [admitted EXCEPT ![c][Here(c)] = 0]
    /\ probing' = [probing EXCEPT ![c] = @ \ {Here(c)}]
    /\ holder' = IF holder[Here(c)] = c
                   THEN [holder EXCEPT ![Here(c)] = NoCall] ELSE holder
    /\ IF Outermost(c)
         THEN /\ pc' = [pc EXCEPT ![c] = "out"]
              /\ exit' = [exit EXCEPT ![c] = Clean]
              /\ UNCHANGED at
         ELSE at' = [at EXCEPT ![c] = @ - 1] /\ UNCHANGED <<pc, exit>>
    /\ UNCHANGED slept

(* A call admitted healthy before the route last cooled proves nothing. *)
SettleStale(c) ==
    /\ pc[c] = "settle"
    /\ ~Current(c, Here(c))
    /\ Leave(c)
    /\ UNCHANGED <<healthy, cooled, failures, due>>

(* A failure scoped to the route cools it. *)
SettleCool(c) ==
    /\ pc[c] = "settle"
    /\ Current(c, Here(c))
    /\ exit[c] = Here(c)
    /\ cooled' = [cooled EXCEPT ![Here(c)] = @ + 1]
    /\ failures' = [failures EXCEPT ![Here(c)] = @ + 1]
    /\ due' = [due EXCEPT ![Here(c)] = FALSE]
    /\ healthy' = [healthy EXCEPT ![Here(c)] = FALSE]
    /\ Leave(c)

(* Any other end of the probe opens the route; the streak goes on. *)
SettleOpen(c) ==
    /\ pc[c] = "settle"
    /\ Here(c) \in probing[c]
    /\ exit[c] # Here(c)
    /\ healthy' = [healthy EXCEPT ![Here(c)] = TRUE]
    /\ Leave(c)
    /\ UNCHANGED <<cooled, failures, due>>

(* A clean round trip of the healthy cohort ends the streak. *)
SettleClean(c) ==
    /\ pc[c] = "settle"
    /\ Here(c) \notin probing[c]
    /\ Current(c, Here(c))
    /\ exit[c] # Here(c)
    /\ failures' = [failures EXCEPT ![Here(c)] = 0]
    /\ Leave(c)
    /\ UNCHANGED <<healthy, cooled, due>>

(* The run stops: the call is interrupted wherever it is, records nothing  *)
(* on the routes it has not settled, and gives its permits back.           *)
Interrupt(c) ==
    /\ pc[c] # "out"
    /\ pc' = [pc EXCEPT ![c] = "out"]
    /\ Unwind(c)

(* Time passes a cooling route's `retryAt`. *)
Elapse(r) ==
    /\ ~due[r]
    /\ due' = [due EXCEPT ![r] = TRUE]
    /\ UNCHANGED <<healthy, holder, cooled, failures, callVars>>

Through(c) ==
    \/ Admit(c) \/ AdmitOpened(c) \/ Queue(c) \/ GoAsProbe(c)
    \/ Start(c) \/ WaitAgain(c) \/ Finish(c)
    \/ SettleStale(c) \/ SettleCool(c) \/ SettleOpen(c) \/ SettleClean(c)

Acquire(c) == FindOpened(c) \/ TakeProbe(c)

Next ==
    \/ \E c \in Calls : Send(c) \/ Through(c) \/ Acquire(c) \/ Interrupt(c)
    \/ \E r \in Routes : Elapse(r)

Spec == Init /\ [][Next]_vars

(***************************************************************************)
(* A fiber that can run runs, a timer fires, the provider answers or the   *)
(* transport times out, and the semaphore serves its waiters in order, so  *)
(* none waits while the permit is freed again and again.  Nothing obliges  *)
(* a call to be sent or interrupted.                                       *)
(***************************************************************************)
Fairness ==
    /\ \A c \in Calls : WF_vars(Through(c)) /\ SF_vars(Acquire(c))
    /\ \A r \in Routes : WF_vars(Elapse(r))

FairSpec == Spec /\ Fairness

-------------------------------------------------------------------------------
(* Properties. *)

TypeOK ==
    /\ healthy \in [Routes -> BOOLEAN]
    /\ holder \in [Routes -> Calls \union {NoCall}]
    /\ cooled \in [Routes -> Nat]
    /\ failures \in [Routes -> Nat]
    /\ due \in [Routes -> BOOLEAN]
    /\ pc \in [Calls -> PCs]
    /\ at \in [Calls -> Nat \ {0}]
    /\ cohort \in [Calls -> SUBSET Routes]
    /\ admitted \in [Calls -> [Routes -> Nat]]
    /\ probing \in [Calls -> SUBSET Routes]
    /\ slept \in [Calls -> Nat]
    /\ exit \in [Calls -> Routes \union {Clean}]

(* The call's attempt has started and its end is not recorded on r yet. *)
InFlight(c, r) ==
    /\ pc[c] \in {"attempt", "settle"}
    /\ r \in cohort[c] \union probing[c]

(* A cooling route has its recovery probe in flight and nothing else that  *)
(* could still cool it or end its streak: a call admitted healthy counts   *)
(* only while the route is healthy, whatever cooled and opened since.      *)
CoolingAdmitsOnlyItsProbe ==
    \A r \in Routes, c \in Calls :
       InFlight(c, r) /\ Current(c, r) /\ ~healthy[r] => holder[r] = c

(* A probe permit is held exactly by a call inside the probe's scope:      *)
(* no interruption, COOLED unwinding or settlement leaves it behind, which *)
(* would close the route to every run for good.                            *)
PermitIsHeldInScope ==
    \A r \in Routes, c \in Calls :
       holder[r] = c <=> \/ pc[c] = "sleep" /\ Here(c) = r
                         \/ r \in probing[c]

(* Call c queues for a permit that call d holds. *)
WaitsFor(c, d) == pc[c] = "queue" /\ holder[Here(c)] = d

(* A probe keeps its permit while it queues for its next route's: no calls *)
(* wait for each other's permits, however runs are stopped around them.    *)
NoCircularWait ==
    \A S \in SUBSET Calls : S # {} =>
       \E c \in S : \A d \in S : ~WaitsFor(c, d)

(* A herd that fails together cools its route once: a route already        *)
(* cooling cools again only by the failure of its probe, so the backoff    *)
(* doubles per probe and not per caller.                                   *)
OneCoolingPerCohort ==
    [][\A r \in Routes :
         cooled'[r] # cooled[r] /\ ~healthy[r] =>
            \E c \in Calls : pc[c] = "settle" /\ r \in probing[c]]_vars

(* An attempt starts on a cooling route only as its one probe, after the   *)
(* whole backoff, even when it then waited for its next route.             *)
AttemptWaitsOutEveryRoute ==
    [][\A c \in Calls : pc[c] # "attempt" /\ pc'[c] = "attempt" =>
         \A r \in RoutesOf(c) : healthy[r] \/ (holder[r] = c /\ due[r])]_vars

(* Where the circuit breaker of route r is: the refinement mapping. *)
Mode(r) ==
    IF healthy[r] THEN "healthy"
    ELSE IF \E c \in Calls : pc[c] \in {"attempt", "settle"} /\ r \in probing[c]
    THEN "probing"
    ELSE IF due[r] THEN "due" ELSE "cooling"

Breaker == INSTANCE RouteBreaker WITH mode <- [r \in Routes |-> Mode(r)]

(* Each route is a circuit breaker, whatever the calls of all the runs do. *)
ImplementsBreaker == Breaker!Spec

(* Every call sent into the gate comes out of it, while routes cool and    *)
(* calls are interrupted around it.                                        *)
EveryCallEnds == \A c \in Calls : pc[c] = "enter" ~> pc[c] = "out"

===============================================================================
