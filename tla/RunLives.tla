------------------------------ MODULE RunLives ------------------------------
(***************************************************************************)
(* What the registry promises of each run of a session, whoever launches,  *)
(* stops, closes or edits it: one holder at a time, a file operation, an   *)
(* opening or the fiber that drives it; an opening that was asked to stop  *)
(* never becomes an uninterrupted fiber; and the run is given up only once *)
(* the lifecycle opened for it here has its end.  RunRegistry.tla is shown *)
(* to implement it.                                                        *)
(***************************************************************************)
CONSTANT Runs

VARIABLES at,   \* [Runs -> Places]: who holds the run
          open  \* [Runs -> BOOLEAN]: a lifecycle opened here has no end yet

(* "doomed" is an opening asked to stop, "cut" an interrupted fiber, and   *)
(* "over" the fiber of a run whose terminal ran.                           *)
Places == {"free", "files", "opening", "doomed", "driven", "cut", "over"}

Init == at = [r \in Runs |-> "free"] /\ open = [r \in Runs |-> FALSE]

Goes(r, from, to) == at[r] = from /\ at'[r] = to
Keeps(r) == open'[r] = open[r]
IsOver(r) == ~open[r] /\ Keeps(r)

(* A file operation or a deletion of a run nobody drives. *)
TakeFiles(r) == Goes(r, "free", "files") /\ IsOver(r)
ReleaseFiles(r) == Goes(r, "files", "free") /\ IsOver(r)

(* A launch or a resume, the batch that opens its lifecycle, and the stop  *)
(* asked of it.                                                            *)
Start(r) == Goes(r, "free", "opening") /\ IsOver(r)
Begin(r) == /\ Goes(r, "opening", "opening") \/ Goes(r, "doomed", "doomed")
            /\ ~open[r] /\ open'[r]
Doom(r) == Goes(r, "opening", "doomed") /\ Keeps(r)

(* The opening failed: what it opened has its end. *)
GiveUp(r) == /\ Goes(r, "opening", "free") \/ Goes(r, "doomed", "free")
             /\ IsOver(r)

(* The fork: the fiber of a doomed opening is interrupted from the start. *)
Fork(r) == /\ Goes(r, "opening", "driven") \/ Goes(r, "doomed", "cut")
           /\ Keeps(r)

Interrupt(r) == Goes(r, "driven", "cut") /\ Keeps(r)

(* The terminal of a driven run, and the exit of its fiber. *)
Finish(r) == /\ Goes(r, "driven", "over") \/ Goes(r, "cut", "over")
             /\ ~open'[r]
Exit(r) == Goes(r, "over", "free") /\ IsOver(r)

(* The rows of a stop may end a lifecycle wherever the run is. *)
End(r) == Goes(r, at[r], at[r]) /\ ~open'[r]

Move(r) == \/ TakeFiles(r) \/ ReleaseFiles(r) \/ Start(r) \/ Begin(r)
           \/ Doom(r) \/ GiveUp(r) \/ Fork(r) \/ Interrupt(r) \/ Finish(r)
           \/ Exit(r) \/ End(r)

(* One step of a cascade may move several runs, each by its own rules. *)
Next ==
    /\ at' \in [Runs -> Places] /\ open' \in [Runs -> BOOLEAN]
    /\ \A r \in Runs : (at'[r] = at[r] /\ Keeps(r)) \/ Move(r)

Spec == Init /\ [][Next]_<<at, open>>
=============================================================================
