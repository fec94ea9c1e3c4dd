------------------------------ MODULE CallPromise ------------------------------
(***************************************************************************)
(* What a lane promises about the tool calls of its transcript, whatever   *)
(* happens to the process: a call runs only when the transcript holds the  *)
(* message that made it and an intent was recorded, a call that must not   *)
(* be repeated runs once, and a call is answered once, in the order of its *)
(* message, by something true.                                             *)
(***************************************************************************)
EXTENDS Naturals

CONSTANTS Turn, CallNo, Safe

VARIABLES
    told,       \* calls of the transcript
    intended,   \* calls with a recorded intent
    entered,    \* how often the tool was entered for a call
    answer      \* what the transcript says of a call

vars == <<told, intended, entered, answer>>

ToolCall == Turn \X CallNo

Init == /\ told = {}
        /\ intended = {}
        /\ entered = [c \in ToolCall |-> 0]
        /\ answer = [c \in ToolCall |-> "none"]

Tell(C) == /\ C \cap told = {}
           /\ told' = told \cup C
           /\ UNCHANGED <<intended, entered, answer>>

Intend(c) == /\ c \in told
             /\ answer[c] = "none"
             /\ intended' = intended \cup {c}
             /\ UNCHANGED <<told, entered, answer>>

Enter(c) == /\ c \in intended
            /\ answer[c] = "none"
            /\ c[2] \in Safe \/ entered[c] = 0
            /\ entered' = [entered EXCEPT ![c] = @ + 1]
            /\ UNCHANGED <<told, intended, answer>>

\* "ran" and "skipped" are claims, "unknown" is none.
True(c, a) == /\ a = "ran" => entered[c] > 0
              /\ a = "skipped" => entered[c] = 0

Answer(c, a) == /\ c \in told
                /\ answer[c] = "none"
                /\ \A d \in told : d[1] = c[1] /\ d[2] < c[2] => answer[d] # "none"
                /\ True(c, a)
                /\ answer' = [answer EXCEPT ![c] = a]
                /\ UNCHANGED <<told, intended, entered>>

Next == \/ \E C \in SUBSET ToolCall : Tell(C)
        \/ \E c \in ToolCall : \/ Intend(c) \/ Enter(c)
                               \/ \E a \in {"ran", "skipped", "unknown"} : Answer(c, a)

Spec == Init /\ [][Next]_vars
=============================================================================
