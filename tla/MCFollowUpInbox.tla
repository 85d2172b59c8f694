--------------------------- MODULE MCFollowUpInbox ---------------------------
(***************************************************************************)
(* Messages of every sender and hold for the follow-up inbox.              *)
(***************************************************************************)
EXTENDS FollowUpInbox

CONSTANTS user, typed, report, peer, notice, exit

\* Who sends each message.
FromOf == [m \in Msgs |-> CASE m \in {user, typed} -> "user"
                            [] m = report -> "child"
                            [] m = peer -> "peer"
                            [] OTHER -> "notification"]

\* A user's message that waits for the turn's end, a stopped script's notice
\* that waits for an instruction.
HoldOf == [m \in Msgs |-> CASE m = typed -> "turn"
                            [] m = notice -> "instruction"
                            [] OTHER -> "none"]
=============================================================================
