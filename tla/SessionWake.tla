------------------------------ MODULE SessionWake ------------------------------
(***************************************************************************)
(* How a message reaches a session's model and who starts the run that     *)
(* reads it.  A finished background agent, a node of the mesh or the hub   *)
(* puts a message in one of the session's queues, and lists its sender on  *)
(* the session node (meta.wake) when nothing runs that would read it.  The *)
(* RPC task that starts a run clears the list.  The window sees session    *)
(* nodes and run events, late and on two streams, and starts an automated  *)
(* prompt for the senders it finds listed on an idle node.                 *)
(*                                                                         *)
(* What is abstracted: a message is an id, its text, title and reason are  *)
(* dropped; reserving a message and committing it to the transcript is one *)
(* step, "read" (LaneQueue has the steps between); mail the hub sends      *)
(* twice; the second of silence the window waits is any time at all.       *)
(***************************************************************************)
EXTENDS Naturals

CONSTANTS
    Mail,           \* messages to the session
    Paths,          \* the code each may come from: "report", "tool", "hub", "hubQueue"
    Agent,          \* a background agent of the session
    Other,          \* another session, whose mail comes through the hub
    Kinds,          \* the commands that take the run slot
    MaxAutoWakes,   \* MAX_AUTO_WAKES
    MaxAsked        \* bound: commands from people and other clients

ASSUME BoundAssumption == MaxAutoWakes \in Nat /\ MaxAsked \in Nat

VARIABLES
    \* The senders.
    stage,      \* how far the delivery of a message is
    path,       \* the code that sends it
    via,        \* the queue its sender chose
    \* The engine.
    where,      \* the queue a message is in, or what became of it
    kind,       \* the command in the run slot
    phase,      \* how far its task is
    cut,        \* the run was aborted, failed or stopped early
    resumable,  \* has_pending_resume
    wake,       \* meta.wake of the session node
    node,       \* the state of the session node
    request,    \* the command on its way to the engine, or "none"
    stdout,     \* the last of the run events on their way to the window
    news,       \* a node event is on its way to the window
    ran,        \* one of them says "running"
    \* The window.
    view,       \* the session node as last seen
    busy,       \* transcript.busy
    armed,      \* the wake timer is set
    handled,    \* handledWakes
    inRow,      \* autoWakes
    failed,     \* the last turn shown is a prompt that was not accepted
    asked,      \* commands not of the window's own making
    \* What the properties remember.
    backlog,    \* queued when the current run cleared the wake list
    calm        \* sent to an idle session since the last run was announced

sending == <<stage, path, via>>
slot == <<kind, phase, cut, resumable>>
outward == <<wake, node, news, ran>>
window == <<view, armed, handled, inRow, failed>>
vars == <<sending, where, slot, outward, request, stdout, window, busy, asked, backlog, calm>>

Queues == {"steer", "followUp", "nextRun"}
Sender == {Agent, Other}

\* tell_parent and send_message are an agent's; the hub passes on mail that
\* wakes and mail that is queued for whenever the session runs.
ByHub(m) == path[m] \in {"hub", "hubQueue"}
From(m) == IF ByHub(m) THEN Other ELSE Agent

In(q) == {m \in Mail : where[m] = q}
Queued == {m \in Mail : where[m] \in Queues}

\* agent_start, agent_end or agent_settled, and a prompt's failed response.
Quiet == [last |-> "none", ends |-> FALSE]
Emit(event) == [last |-> event, ends |-> stdout.ends \/ event = "end"]

\* has_active_run: a compaction is a run too.
Active == phase \in {"admitted", "running", "stopping", "drained"}

TypeOK == /\ stage \in [Mail -> {"unsent", "decided", "queued", "done"}]
          /\ path \in [Mail -> {"none", "report", "tool", "hub", "hubQueue"}]
          /\ via \in [Mail -> Queues \cup {"none"}]
          /\ where \in [Mail -> Queues \cup {"none", "read", "returned"}]
          /\ kind \in {"none", "prompt", "resume", "compact"}
          /\ phase \in {"free", "accepted", "announced", "admitted", "running",
                        "stopping", "drained", "over"}
          /\ {cut, resumable, news, ran, busy, armed, failed} \subseteq BOOLEAN
          /\ wake \cup handled \cup view.wake \subseteq Sender
          /\ {node, view.node} \subseteq {"idle", "running"}
          /\ request \in {"none", "prompt", "resume", "compact"}
          /\ stdout \in [last : {"none", "start", "end", "fail"}, ends : BOOLEAN]
          /\ inRow \in 0..MaxAutoWakes
          /\ asked \in 0..MaxAsked
          /\ backlog \cup calm \subseteq Mail

Init == /\ stage = [m \in Mail |-> "unsent"]
        /\ path = [m \in Mail |-> "none"]
        /\ via = [m \in Mail |-> "none"]
        /\ where = [m \in Mail |-> "none"]
        /\ kind = "none"
        /\ phase = "free"
        /\ cut = FALSE
        /\ resumable \in BOOLEAN
        /\ wake = {}
        /\ node = "idle"
        /\ request = "none"
        /\ stdout = Quiet
        /\ news = FALSE
        /\ ran = FALSE
        /\ view = [node |-> "idle", wake |-> {}]
        /\ busy = FALSE
        /\ armed = FALSE
        /\ handled = {}
        /\ inRow = 0
        /\ failed = FALSE
        /\ asked = 0
        /\ backlog = {}
        /\ calm = {}

(******************************* Senders **********************************)

\* The engine's reader takes the hub's mail itself, and no command meanwhile.
ReaderFree == \A m \in Mail : ByHub(m) => stage[m] \notin {"decided", "queued"}

\* Look whether the session runs, and choose the queue by it.
Decide(m, p) ==
             /\ p \in Paths[m]
             /\ stage[m] = "unsent"
             /\ p \in {"hub", "hubQueue"} => ReaderFree
             /\ path' = [path EXCEPT ![m] = p]
             /\ stage' = [stage EXCEPT ![m] = "decided"]
             /\ via' = [via EXCEPT ![m] = IF ~Active THEN "nextRun"
                                          ELSE IF p = "hubQueue" THEN "followUp" ELSE "steer"]
             /\ calm' = IF phase = "free" THEN calm \cup {m} ELSE calm
             /\ UNCHANGED <<where, slot, outward, request, stdout, window, busy, asked, backlog>>

Put(m) == /\ stage[m] = "decided"
          /\ where' = [where EXCEPT ![m] = via[m]]
          /\ stage' = [stage EXCEPT ![m] = "queued"]
          /\ UNCHANGED <<path, via, slot, outward, request, stdout, window, busy, asked, backlog, calm>>

\* A report and a waking mail look again whether the session runs; a tool's
\* message does not.
NeedsWake(m) == \/ path[m] \in {"report", "hub"} /\ ~Active
                \/ path[m] = "tool" /\ via[m] = "nextRun"

\* Fault: the list holds the last sender only.
ListLast(m) == /\ wake' = {From(m)}
               /\ news' = TRUE

\* request_wake: the list names a sender once.
List(m) == /\ wake' = wake \cup {From(m)}
           /\ news' = (news \/ From(m) \notin wake)

Finish(m) == /\ stage[m] = "queued"
             /\ stage' = [stage EXCEPT ![m] = "done"]
             /\ via' = [via EXCEPT ![m] = "none"]
             /\ IF NeedsWake(m) THEN List(m) ELSE UNCHANGED <<wake, news>>
             /\ UNCHANGED <<path, where, slot, node, ran, request, stdout, window, busy, asked,
                            backlog, calm>>

(***************************** The run slot *******************************)

\* run_active.swap: one command at a time.  A resume needs something to resume.
Accept == /\ request # "none"
          /\ ReaderFree
          /\ phase = "free"
          /\ request = "resume" => resumable
          /\ kind' = request
          /\ phase' = "accepted"
          /\ request' = "none"
          /\ UNCHANGED <<sending, where, cut, resumable, outward, stdout, window, busy, asked, backlog,
                         calm>>

Refuse == /\ request # "none"
          /\ ReaderFree
          /\ phase # "free" \/ (request = "resume" /\ ~resumable)
          /\ stdout' = IF request = "prompt" THEN Emit("fail") ELSE stdout
          /\ request' = "none"
          /\ UNCHANGED <<sending, where, slot, outward, window, busy, asked, backlog, calm>>

\* The prompt is not valid, or a hook blocks it.
Block == /\ phase = "accepted"
         /\ kind = "prompt"
         /\ phase' = "free"
         /\ kind' = "none"
         /\ stdout' = Emit("fail")
         /\ UNCHANGED <<sending, where, cut, resumable, outward, request, window, busy, asked,
                        backlog, calm>>

\* session_run(true): whatever the command, the list is cleared.
Announce == /\ phase = "accepted"
            /\ phase' = "announced"
            /\ wake' = {}
            /\ node' = "running"
            /\ news' = TRUE
            /\ ran' = TRUE
            /\ backlog' = Queued
            /\ calm' = {}
            /\ UNCHANGED <<sending, where, kind, cut, resumable, request, stdout, window, busy, asked>>

\* acquire_run.
Admit == /\ phase = "announced"
         /\ phase' = IF kind = "prompt" THEN "admitted" ELSE "running"
         /\ resumable' = (resumable /\ kind = "compact")
         /\ stdout' = IF kind = "compact" THEN stdout ELSE Emit("start")
         /\ UNCHANGED <<sending, where, kind, cut, outward, request, window, busy, asked, backlog,
                        calm>>

ReadAll(q) == where' = [m \in Mail |-> IF where[m] = q THEN "read" ELSE where[m]]

\* A prompt reads what waits for the next run.  A resume and a compaction
\* take nothing from that queue.
Reserve == /\ phase = "admitted"
           /\ ReadAll("nextRun")
           /\ phase' = "running"
           /\ UNCHANGED <<sending, kind, cut, resumable, outward, request, stdout, window, busy,
                          asked, backlog, calm>>

\* The loop reads the steering queue before every model call.
Drain == /\ phase = "running"
         /\ kind # "compact"
         /\ In("steer") # {}
         /\ ReadAll("steer")
         /\ UNCHANGED <<sending, slot, outward, request, stdout, window, busy, asked, backlog, calm>>

Stop == /\ phase = "running"
        /\ kind # "compact"
        /\ In("steer") = {}
        /\ phase' = "stopping"
        /\ UNCHANGED <<sending, where, kind, cut, resumable, outward, request, stdout, window, busy,
                       asked, backlog, calm>>

FollowUp == /\ phase = "stopping"
            /\ In("followUp") # {}
            /\ ReadAll("followUp")
            /\ phase' = "running"
            /\ UNCHANGED <<sending, kind, cut, resumable, outward, request, stdout, window, busy,
                           asked, backlog, calm>>

\* Fault: the loop does not look at the follow-ups.
EndEarly == /\ phase = "stopping" \/ (phase = "running" /\ kind = "compact")
            /\ phase' = "drained"
            /\ stdout' = IF kind = "compact" THEN stdout ELSE Emit("end")
            /\ UNCHANGED <<sending, where, kind, cut, resumable, outward, request, window, busy,
                           asked, backlog, calm>>

\* The last drain found nothing: the run settles what it has.
End == /\ \/ phase = "stopping" /\ In("followUp") = {}
          \/ phase = "running" /\ kind = "compact"
       /\ phase' = "drained"
       /\ stdout' = IF kind = "compact" THEN stdout ELSE Emit("end")
       /\ UNCHANGED <<sending, where, kind, cut, resumable, outward, request, window, busy, asked,
                      backlog, calm>>

\* The model call fails, or the round is stopped at the boundary of a turn
\* (StopRound): the loop is left early.
Fail == /\ phase \in {"running", "stopping"}
        /\ phase' = "drained"
        /\ cut' = TRUE
        /\ stdout' = IF kind = "compact" THEN stdout ELSE Emit("end")
        /\ UNCHANGED <<sending, where, kind, resumable, outward, request, window, busy, asked,
                       backlog, calm>>

\* abort hands the steering and follow-up queues back to the client.
Abort == /\ phase \in {"running", "stopping"}
         /\ phase' = "drained"
         /\ cut' = TRUE
         /\ where' = [m \in Mail |-> IF where[m] \in {"steer", "followUp"} THEN "returned"
                                     ELSE where[m]]
         /\ resumable' \in {resumable, kind # "compact"}
         /\ stdout' = IF kind = "compact" THEN stdout ELSE Emit("end")
         /\ UNCHANGED <<sending, kind, outward, request, window, busy, asked, backlog, calm>>

\* release_run.
Release == /\ phase = "drained"
           /\ phase' = "over"
           /\ UNCHANGED <<sending, where, kind, cut, resumable, outward, request, stdout, window,
                          busy, asked, backlog, calm>>

\* session_run(false), agent_settled, and the slot is free.
Settle == /\ phase = "over"
          /\ phase' = "free"
          /\ kind' = "none"
          /\ node' = "idle"
          /\ news' = TRUE
          /\ stdout' = Emit("end")
          /\ cut' = FALSE
          /\ backlog' = {}
          /\ UNCHANGED <<sending, where, resumable, wake, ran, request, window, busy, asked, calm>>

(******************************* The window *******************************)

\* onMesh: a session node was published.  Seeing several events at once
\* leaves what seeing them one by one leaves.
SeeNode == /\ news
           /\ view' = [node |-> node, wake |-> wake]
           /\ handled' = IF ran THEN {} ELSE handled
           /\ armed' = TRUE
           /\ news' = FALSE
           /\ ran' = FALSE
           /\ UNCHANGED <<sending, where, slot, wake, node, request, stdout, inRow, failed, busy,
                          asked, backlog, calm>>

\* Fault: only a node event sets the timer.
SeeEventUnarmed == /\ stdout # Quiet
                   /\ busy' = (stdout.last = "start")
                   /\ failed' = (stdout.last = "fail" \/ (failed /\ stdout.last # "start"))
                   /\ stdout' = Quiet
                   /\ UNCHANGED <<sending, where, slot, outward, request, view, armed, handled,
                                  inRow, asked, backlog, calm>>

\* onMessage: a run event or a prompt's failure.
SeeEvent == /\ stdout # Quiet
            /\ busy' = (stdout.last = "start")
            /\ armed' = (armed \/ stdout.ends)
            /\ failed' = (stdout.last = "fail" \/ (failed /\ stdout.last # "start"))
            /\ stdout' = Quiet
            /\ UNCHANGED <<sending, where, slot, outward, request, view, handled, inRow, asked,
                           backlog, calm>>

Unhandled == IF busy \/ view.node # "idle" THEN {} ELSE view.wake \ handled

\* At most MAX_AUTO_WAKES in a row without a person's prompt.
CountWake == IF inRow < MaxAutoWakes
                THEN /\ inRow' = inRow + 1
                     /\ busy' = TRUE
                     /\ failed' = FALSE
                     /\ request' = "prompt"
                ELSE UNCHANGED <<inRow, busy, failed, request>>

\* checkWake with someone to wake for: every listed sender counts as handled,
\* past the limit too.
Wake == /\ armed
        /\ Unhandled # {}
        /\ request = "none"
        /\ armed' = FALSE
        /\ handled' = handled \cup Unhandled
        /\ CountWake
        /\ UNCHANGED <<sending, where, slot, outward, stdout, view, asked, backlog, calm>>

\* checkWake with nobody to wake for.
NoWake == /\ armed
          /\ Unhandled = {}
          /\ armed' = FALSE
          /\ UNCHANGED <<sending, where, slot, outward, request, stdout, view, handled, inRow, failed,
                         busy, asked, backlog, calm>>

\* A person's prompt starts the count of automated wakes again; a compaction
\* or another client's resume leaves the transcript alone.
Ask(k) == /\ k \in Kinds
          /\ asked < MaxAsked
          /\ request = "none"
          /\ asked' = asked + 1
          /\ request' = k
          /\ IF k = "prompt" THEN ~busy /\ busy' = TRUE /\ failed' = FALSE /\ inRow' = 0
             ELSE UNCHANGED <<busy, failed, inRow>>
          /\ UNCHANGED <<sending, where, slot, outward, stdout, view, armed, handled, backlog, calm>>

Deliver(m) == \/ \E p \in {"report", "tool", "hub", "hubQueue"} : Decide(m, p)
              \/ Put(m)
              \/ Finish(m)
Run == Announce \/ Admit \/ Reserve \/ Drain \/ Stop \/ FollowUp \/ End \/ Release \/ Settle
Engine == Accept \/ Refuse \/ Block \/ Run \/ Fail \/ Abort
Window == SeeNode \/ SeeEvent \/ Wake \/ NoWake

Next == \/ \E m \in Mail : Deliver(m)
        \/ Engine
        \/ Window
        \/ \E k \in {"prompt", "resume", "compact"} : Ask(k)

Spec == Init /\ [][Next]_vars

\* A delivery that began is a task that goes on, a run makes progress, the
\* reader answers commands, and the window handles events and its timer.
FairSpec == /\ Spec
            /\ \A m \in Mail : WF_vars(Put(m)) /\ WF_vars(Finish(m))
            /\ WF_vars(Run)
            /\ WF_vars(Accept \/ Refuse)
            /\ WF_vars(SeeNode)
            /\ WF_vars(SeeEvent)
            /\ WF_vars(Wake \/ NoWake)

(******************************* Properties *******************************)

\* A message sent to an idle session is listed until the next run is
\* announced, whatever else its sender or the others do: the second look of
\* tell_parent and take_mail, request_wake naming a sender once, and
\* session_run agree on who is still waiting.
IdleArrivalListed ==
    \A m \in calm : stage[m] = "done" /\ path[m] # "hubQueue" => From(m) \in wake

\* A prompt whose loop comes to its natural end has read every message that
\* was queued when it cleared the wake list: no queue is passed over by
\* nextRun's reservation, the steering drains and the last look at the
\* follow-ups.
PromptReadsBacklog ==
    (phase = "over" /\ kind = "prompt" /\ ~cut) => \A m \in backlog : where[m] = "read"

\* The same for every command: a run that clears the wake list has read what
\* the list was about, so nothing is left behind that nobody is told about.
RunReadsBacklog ==
    (phase = "over" /\ ~cut) =>
        \A m \in backlog : stage[m] = "done" /\ From(m) \notin wake
                              => where[m] \in {"read", "returned"}

\* A finished background agent's report does not stay in a queue of an idle
\* session that nobody will be told about.
NoReportStranded ==
    (phase = "free" /\ request = "none") =>
        \A m \in Mail : stage[m] = "done" /\ path[m] = "report" /\ m \in Queued
                            => From(m) \in wake

\* The window acts on every sender listed, though node events and run events
\* reach it late and out of step and a check made too early is dropped.
\* One exception shows in the transcript: after a prompt that was not accepted
\* nothing sets the timer again.
WakeIsHandled == \A s \in Sender : (s \in wake) ~> (s \notin wake \/ s \in handled \/ failed)
=============================================================================
