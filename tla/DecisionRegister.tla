-------------------------- MODULE DecisionRegister --------------------------
(***************************************************************************)
(* What the requests promise those who ask: a request is a register that   *)
(* is decided once.  Whoever decides, a surface, a grant, the run's end or *)
(* a resume, decides only what is open; the one who asks goes on with the  *)
(* decision that is recorded, once, and from then on it never changes.     *)
(* Only a call that asks again, after its process died, may put its        *)
(* policy's answer in the place of a decision it did not hear.             *)
(***************************************************************************)
CONSTANT Reqs

VARIABLES
    verdict,    \* [Reqs -> {"-", "open"} \cup Words]: what is recorded
    asker       \* what the one who asks knows: nothing, or the decision

vars == <<verdict, asker>>

Words == {"approve", "deny", "cancel"}

Init == /\ verdict = [q \in Reqs |-> "-"]
        /\ asker = [q \in Reqs |-> "asking"]

\* A request is opened, or recorded with the policy's answer to it.
Raise(q) ==
    /\ verdict[q] = "-"
    /\ \E word \in {"open"} \cup Words :
         verdict' = [verdict EXCEPT ![q] = word]
    /\ UNCHANGED asker

\* One transaction decides any of the open requests, and may end the calls
\* that ask again.
Settle ==
    /\ verdict' = [q \in Reqs |-> IF verdict[q] = "open" THEN verdict'[q]
                                  ELSE verdict[q]]
    /\ \A q \in Reqs :
         verdict[q] = "open" => verdict'[q] \in {"open"} \cup Words
    /\ asker' = [q \in Reqs |-> IF asker[q] = "again" /\ asker'[q] = "asking"
                                THEN "asking" ELSE asker[q]]

Hear(q) ==
    /\ asker[q] = "asking" /\ verdict[q] \in Words
    /\ asker' = [asker EXCEPT ![q] = verdict[q]]
    /\ UNCHANGED verdict

\* A resumed call asks again.
Again(q) ==
    /\ asker[q] = "asking" /\ verdict[q] # "-"
    /\ asker' = [asker EXCEPT ![q] = "again"]
    /\ UNCHANGED verdict

\* Its policy's answer, whatever was recorded meanwhile.
Overrule(q) ==
    /\ asker[q] = "again"
    /\ \E word \in Words : /\ verdict' = [verdict EXCEPT ![q] = word]
                           /\ asker' = [asker EXCEPT ![q] = word]

Next ==
    \/ Settle
    \/ \E q \in Reqs : Raise(q) \/ Hear(q) \/ Again(q) \/ Overrule(q)

Spec == Init /\ [][Next]_vars
=============================================================================
