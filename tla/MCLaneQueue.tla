----------------------------- MODULE MCLaneQueue -----------------------------
(* Small lanes: a few messages of chosen kinds. *)
EXTENDS LaneQueue

CONSTANTS s1, s2, f1, n1, n2, c1, c2

\* Which delivery each message of the instance asks for.
MCKindOf == [m \in Msg |-> CASE m \in {s1, s2} -> "steer"
                             [] m = f1 -> "followUp"
                             [] m \in {n1, n2} -> "nextRun"
                             [] OTHER -> "context"]
==============================================================================
