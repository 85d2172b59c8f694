------------------------------ MODULE Mailbox ------------------------------
(***************************************************************************)
(* What a run's inbox promises its senders: an admitted message waits, and *)
(* is read once, in one batch, or dropped with a root's end; nothing is    *)
(* left behind in a box that shuts, and none that waits is lost with the   *)
(* process.  A follower is read only in a batch that a leader is in.       *)
(***************************************************************************)
CONSTANTS Msgs, Leaders, Followers

VARIABLES
    place,      \* [Msgs -> {"new", "queued", "read", "dropped"}]
    shut,       \* nothing is admitted
    keeps       \* a child's box: its end drops nothing

vars == <<place, shut, keeps>>

Queued == {m \in Msgs : place[m] = "queued"}

Init == /\ place = [m \in Msgs |-> "new"]
        /\ shut = FALSE
        /\ keeps \in BOOLEAN

Admit(m) ==
    /\ place[m] = "new" /\ ~shut
    /\ place' = [place EXCEPT ![m] = "queued"]
    /\ UNCHANGED <<shut, keeps>>

\* A batch became part of the run's turn.
Read(batch) ==
    /\ batch \cap Followers # {} => batch \cap Leaders # {}
    /\ place' = [m \in Msgs |-> IF m \in batch THEN "read" ELSE place[m]]
    /\ UNCHANGED <<shut, keeps>>

\* A root ended: what it did not read goes with it.
Drop ==
    /\ ~keeps
    /\ place' = [m \in Msgs |-> IF m \in Queued THEN "dropped" ELSE place[m]]
    /\ UNCHANGED <<shut, keeps>>

Shut ==
    /\ Queued = {} /\ shut' = TRUE
    /\ UNCHANGED <<place, keeps>>

Reopen ==
    /\ shut' = FALSE
    /\ UNCHANGED <<place, keeps>>

Next ==
    \/ \E batch \in SUBSET Queued : Read(batch)
    \/ \E m \in Msgs : Admit(m)
    \/ Drop \/ Shut \/ Reopen

Spec == Init /\ [][Next]_vars
=============================================================================
