----------------------------- MODULE RouteBreaker -----------------------------
(***************************************************************************)
(* What the retry gate promises of its routes, whoever calls and however   *)
(* many routes a call goes through: each route is a circuit breaker.  It   *)
(* cools only from health or by the failure of its own probe; a probe      *)
(* starts only once the backoff has elapsed; and only a probe that came    *)
(* back opens it.  ModelRetryGate.tla is shown to implement it.            *)
(***************************************************************************)
CONSTANT Routes

VARIABLE mode  \* [Routes -> Modes]

Modes == {"healthy", "cooling", "due", "probing"}

Init == mode = [r \in Routes |-> "healthy"]

(* A call of the healthy cohort failed with the route's scope. *)
Cool(r) == mode[r] = "healthy" /\ mode'[r] = "cooling"

(* The shared backoff elapsed. *)
Elapse(r) == mode[r] = "cooling" /\ mode'[r] = "due"

(* The recovery probe's attempt starts. *)
Probe(r) == mode[r] = "due" /\ mode'[r] = "probing"

(* The probe came back: it opens the route, or cools it again, or was      *)
(* interrupted and leaves the route to the next probe.                     *)
Open(r) == mode[r] = "probing" /\ mode'[r] = "healthy"

Recool(r) == mode[r] = "probing" /\ mode'[r] = "cooling"

Lose(r) == mode[r] = "probing" /\ mode'[r] = "due"

Move(r) == Cool(r) \/ Elapse(r) \/ Probe(r) \/ Open(r) \/ Recool(r) \/ Lose(r)

(* One step of one call may move several routes, each by its own rules. *)
Next == 
    /\ mode' \in [Routes -> Modes]
    /\ \A r \in Routes : mode'[r] = mode[r] \/ Move(r)

Spec == Init /\ [][Next]_mode
===============================================================================
