-------------------------------- MODULE MeshAsk --------------------------------
(***************************************************************************)
(* Questions between the nodes of one engine: a session and the agents it  *)
(* started.  An ask blocks the asking tool call until the other node       *)
(* replies, that node's run ends, or the call is given up; a foreground    *)
(* agent call blocks the session until the agent reports.  Both are edges  *)
(* of a wait-for graph (LocalRouter::waits), and an ask that would close a *)
(* cycle of it is refused.                                                 *)
(*                                                                         *)
(* What is abstracted: the texts; mail that asks nothing; count_mail's     *)
(* limit, which may refuse a question at any time; an agent that is gone,  *)
(* closed or over the limit of running agents, which may refuse at any     *)
(* time; a timeout and a cancelled call, which are one step.  Looking at   *)
(* job.running and setting it is one step (a few instructions apart).      *)
(***************************************************************************)
EXTENDS Naturals, FiniteSets

CONSTANTS
    Session,    \* the session's node
    Agent,      \* its agents; siblings may ask each other
    Call,       \* tool calls that wait for another node
    By          \* bound: the node whose run makes each

ASSUME SessionAssumption == Session \notin Agent

Node == Agent \cup {Session}

ASSUME CallAssumption == By \in [Call -> Node]

VARIABLES
    pc,         \* how far a call is
    to,         \* the node a call waits on
    active,     \* nodes with a run: has_active_run, job.running
    closing,    \* nodes with a run that settled and has yet to call run_ended
    wake,       \* the session has mail and no run
    waits,      \* LocalRouter::waits, by the call that holds the guard
    open,       \* ASKS
    answer,     \* what the oneshot of a question holds
    raced       \* calls that another wait was added between check and add of

node == <<active, closing, wake>>
askVars == <<pc, to, node, waits, open, answer, raced>>

Steps == {"free", "checked", "pushed", "asked", "foreground", "reported", "over"}

\* A wait is in the graph exactly while its call holds the guard.
TypeOK == /\ pc \in [Call -> Steps]
          /\ to \in [Call -> Node]
          /\ active \subseteq Node
          /\ closing \subseteq Node
          /\ wake \in BOOLEAN
          /\ waits = {c \in Call : pc[c] \in {"pushed", "asked", "foreground", "reported"}}
          /\ open \subseteq Call
          /\ answer \in [Call -> {"none", "reply", "final"}]
          /\ raced \subseteq Call

AskInit == /\ pc = [c \in Call |-> "free"]
           /\ to = By
           /\ active = {Session}
           /\ closing = {}
           /\ wake = FALSE
           /\ waits = {}
           /\ open = {}
           /\ answer = [c \in Call |-> "none"]
           /\ raced = {}

(***************************** The wait graph *****************************)

Targets(N) == {to[c] : c \in {d \in waits : By[d] \in N}}

\* Fault: only the waits of the node itself are looked at.
OneStep(n) == Targets({n})

\* What the search of would_deadlock grows `seen` to: n, and with a node all
\* that its calls wait on.
Seen(n) == {m \in Node : \A R \in SUBSET Node :
                            n \in R /\ Targets(R) \subseteq R => m \in R}

WaitsOn(n) == Targets(Seen(n))

WouldDeadlock(m, n) == m = n \/ m \in WaitsOn(n)

\* add_wait: every call between its check and its add has now been overtaken.
AddWait(c) == /\ waits' = waits \cup {c}
              /\ raced' = raced \cup {d \in Call \ {c} : pc[d] = "checked"}

\* Fault: a call that ends leaves its wait behind.
ReturnLeaking(C) == /\ pc' = [c \in Call |-> IF c \in C THEN "over" ELSE pc[c]]
                    /\ waits' = waits
                    /\ raced' = raced \ C

\* The calls return: their guards drop (WaitGuard::drop), the rest is forgotten.
Return(C) == /\ pc' = [c \in Call |-> IF c \in C THEN "over" ELSE pc[c]]
             /\ waits' = waits \ C
             /\ raced' = raced \ C

ForgetCalls(C) == /\ to' = [c \in Call |-> IF c \in C THEN By[c] ELSE to[c]]
                  /\ open' = open \ C
                  /\ answer' = [c \in Call |-> IF c \in C THEN "none" ELSE answer[c]]

(********************************* ask ************************************)

\* try_wait looks, and then adds: the lock is released in between.
Check(c, n) == /\ pc[c] = "free"
               /\ By[c] \in active
               /\ n # By[c]
               /\ ~WouldDeadlock(By[c], n)
               /\ to' = [to EXCEPT ![c] = n]
               /\ pc' = [pc EXCEPT ![c] = "checked"]
               /\ UNCHANGED <<node, waits, open, answer, raced>>

Refuse(c, n) == /\ pc[c] = "free"
                /\ By[c] \in active
                /\ n # By[c]
                /\ WouldDeadlock(By[c], n)
                /\ Return({c})
                /\ UNCHANGED <<to, node, open, answer>>

\* The wait, the mail counted, and the question.
Add(c) == /\ pc[c] = "checked"
          /\ pc' = [pc EXCEPT ![c] = "pushed"]
          /\ AddWait(c)
          /\ open' = open \cup {c}
          /\ UNCHANGED <<to, node, answer>>

\* count_mail refuses: the wait that was added ends with the call.
Forbid(c) == /\ pc[c] = "checked"
             /\ Return({c})
             /\ ForgetCalls({c})
             /\ UNCHANGED node

\* Fault: the question is put in front of an idle agent as mail for its next run.
QueueOnly(c) == /\ pc[c] = "pushed"
                /\ wake' = (wake \/ (to[c] = Session /\ to[c] \notin active))
                /\ pc' = [pc EXCEPT ![c] = "asked"]
                /\ UNCHANGED <<to, active, closing, waits, open, answer, raced>>

\* deliver: a running node is steered, an idle agent is continued to answer,
\* an idle session has the question queued and a wake asked for.
Deliver(c) == /\ pc[c] = "pushed"
              /\ active' = active \cup ({to[c]} \cap Agent)
              /\ wake' = (wake \/ (to[c] = Session /\ to[c] \notin active))
              /\ pc' = [pc EXCEPT ![c] = "asked"]
              /\ UNCHANGED <<to, closing, waits, open, answer, raced>>

\* It cannot be delivered.
Undeliverable(c) == /\ pc[c] = "pushed"
                    /\ Return({c})
                    /\ ForgetCalls({c})
                    /\ UNCHANGED node

\* The answer came.
AnswerCame(c) == /\ pc[c] = "asked"
                 /\ answer[c] # "none"
                 /\ Return({c})
                 /\ ForgetCalls({c})
                 /\ UNCHANGED node

\* The timeout, or the call's signal: also with the answer already there.
GiveUp(c) == /\ pc[c] = "asked"
             /\ Return({c})
             /\ ForgetCalls({c})
             /\ UNCHANGED node

\* A cancelled agent's run is dropped when it does not end in time, and its
\* calls with it: the guard goes, the question stays.
Abandon(c) == /\ pc[c] \in {"pushed", "asked"}
              /\ By[c] \in Agent
              /\ Return({c})
              /\ UNCHANGED <<to, node, open, answer>>

\* reply: an open question, and only its addressee.
Reply(c, n) == /\ c \in open
               /\ n \in active
               /\ n = to[c]
               /\ open' = open \ {c}
               /\ answer' = [answer EXCEPT ![c] = "reply"]
               /\ UNCHANGED <<pc, to, node, waits, raced>>

(************************* Foreground agent calls *************************)

\* agent, message_agent: an idle agent runs, and the session waits on it.
StartForeground(c, n) ==
    /\ pc[c] = "free"
    /\ By[c] = Session
    /\ Session \in active
    /\ n \notin active
    /\ pc' = [pc EXCEPT ![c] = "foreground"]
    /\ to' = [to EXCEPT ![c] = n]
    /\ active' = active \cup {n}
    /\ AddWait(c)
    /\ UNCHANGED <<closing, wake, open, answer>>

\* A steering message lets go of the call; the agent runs on.
Release(c) == /\ pc[c] = "foreground"
              /\ Return({c})
              /\ ForgetCalls({c})
              /\ UNCHANGED node

(********************************* Runs ***********************************)

\* The session's next run: a person's prompt, or the host answering a wake.
\* Its slot is free once the last run has told everyone.
StartSession == /\ Session \notin active \cup closing
                /\ active' = active \cup {Session}
                /\ wake' = FALSE
                /\ UNCHANGED <<pc, to, closing, waits, open, answer, raced>>

StartBackground(n) == /\ Session \in active
                      /\ n \notin active
                      /\ active' = active \cup {n}
                      /\ UNCHANGED <<pc, to, closing, wake, waits, open, answer, raced>>

\* A turn ends when its tool calls have: the run settles.
Calling(n) == \E c \in Call : By[c] = n /\ pc[c] \notin {"free", "over"}

SettleRun(n) == /\ n \in active
                /\ ~Calling(n)
                /\ active' = active \ {n}
                /\ closing' = closing \cup {n}
                /\ pc' = [c \in Call |-> IF pc[c] = "foreground" /\ to[c] = n THEN "reported"
                                         ELSE pc[c]]
                /\ UNCHANGED <<to, wake, waits, open, answer, raced>>

\* run_ended: every open question to n gets the run's text.
AnswerAll(n) == {c \in open : to[c] = n}

\* The foreground call that waited returns after it.
RunEnded(n) == /\ n \in closing
               /\ closing' = closing \ {n}
               /\ open' = open \ AnswerAll(n)
               /\ answer' = [c \in Call |-> IF c \in AnswerAll(n) THEN "final" ELSE answer[c]]
               /\ LET done == {c \in Call : pc[c] = "reported" /\ to[c] = n}
                  IN  Return(done)
               /\ UNCHANGED <<to, active, wake>>

Tool(c) == \/ \E n \in Node : Check(c, n) \/ Refuse(c, n)
           \/ Add(c) \/ Forbid(c) \/ Deliver(c) \/ Undeliverable(c)
           \/ AnswerCame(c) \/ GiveUp(c) \/ Abandon(c)
           \/ \E n \in Node : Reply(c, n)
           \/ \E n \in Agent : StartForeground(c, n)
           \/ Release(c)

Run(n) == SettleRun(n) \/ RunEnded(n)

AskNext == \/ \E c \in Call : Tool(c)
           \/ \E n \in Node : Run(n)
           \/ \E n \in Agent : StartBackground(n)
           \/ StartSession

AskSpec == AskInit /\ [][AskNext]_askVars

\* A call's own steps and a settling run go on; a run whose calls are over
\* ends; a wake starts the session.  Nobody has to reply, nothing times out.
FairAskSpec == /\ AskSpec
               /\ \A c \in Call : WF_askVars(Add(c) \/ Deliver(c) \/ AnswerCame(c))
               /\ \A n \in Node : WF_askVars(SettleRun(n)) /\ WF_askVars(RunEnded(n))
               /\ WF_askVars(wake /\ StartSession)

(******************************* Properties *******************************)

\* Calls each of which waits on a node of another: a ring, and what waits on it.
Ring(C) == /\ C # {}
           /\ \A c \in C : \E d \in C : By[d] = to[c]

Cycle == \E C \in SUBSET waits : Ring(C)

\* A cycle of waits needs two asks that overtook each other between try_wait's
\* check and its add: the search is complete, a foreground call, which is not
\* checked, closes none, and a guard outlives none of its calls.
CycleNeedsARace == \A C \in SUBSET waits : Ring(C) => C \cap raced # {}

\* An ask that would close a cycle is refused: there is no cycle.
NoCycle == ~Cycle

\* A delivered question is answered or given up without the help of its
\* timeout, whatever its addressee does: replies, ends its run without having
\* seen it, is about to end, or is idle.  Only a cycle may keep it waiting.
QuestionEnds == \A c \in Call : (pc[c] = "asked") ~> (pc[c] # "asked" \/ Cycle)
=============================================================================
