------------------------------ MODULE RpcLoop ------------------------------
(***************************************************************************)
(* The engine's command loop (rpc_with_io): the reader of the client's     *)
(* commands, the task of the one foreground run, the harness future that   *)
(* task polls, the pump that forwards the run's events, and the way out.   *)
(*                                                                         *)
(* Three of them take the harness's message_writes gate, a fair lock: the  *)
(* harness future around each durable write, the reader and the run task   *)
(* to abort.  The run task polls the harness future only in its select and *)
(* after its own abort; while it waits for the gate to abort, the future   *)
(* keeps what it holds and does not move.                                  *)
(***************************************************************************)
EXTENDS Naturals, Sequences

CONSTANTS
  MaxRuns,      \* prompts that take the run slot
  MaxAborts,    \* abort commands
  MaxCommits,   \* messages a run commits before its end
  MaxRequests,  \* external tool calls
  MaxOthers,    \* queue writes of background agents
  MayFail       \* the client's pipe may break

ASSUME BoundAssumption ==
  /\ MaxRuns \in Nat /\ MaxAborts \in Nat /\ MaxCommits \in Nat
  /\ MaxRequests \in Nat /\ MaxOthers \in Nat /\ MayFail \in BOOLEAN

Runs == 1..MaxRuns

VARIABLES
  reader,    \* where the command loop is
  cancelOnExit, failed,
  run,       \* the latest run
  active,    \* run_active, the run slot
  cancel,    \* run_cancel of the latest run
  task,      \* where its task is
  harness,   \* where its harness future is
  why,       \* what that future wants the gate for
  admitted,  \* the harness's active_run
  signal,    \* and its cancellation
  gate,      \* message_writes: its holder, then those who wait
  bus,       \* agent events the pump has not forwarded
  log,       \* the lines about runs, in the order they are queued
  request,   \* the client has an open external_tool_request
  stopped,   \* the external tools are shut down
  aborts, commits, requests, others  \* bounds

loop == <<reader, cancelOnExit>>
slot == <<run, active, cancel>>
lane == <<harness, why, admitted, signal>>
bounds == <<aborts, commits, requests, others>>
vars == <<loop, failed, slot, task, lane, gate, bus, log, request, stopped, bounds>>

Line(type, r) == [type |-> type, run |-> r]

Init ==
  /\ reader = "read" /\ cancelOnExit = FALSE /\ failed = FALSE
  /\ run = 0 /\ active = FALSE /\ cancel = FALSE /\ task = "none"
  /\ harness = "none" /\ why = "none" /\ admitted = FALSE /\ signal = FALSE
  /\ gate = <<>> /\ bus = <<>> /\ log = <<>>
  /\ request = FALSE /\ stopped = FALSE
  /\ aborts = 0 /\ commits = 0 /\ requests = 0 /\ others = 0

(* A line is queued unless the transport failed. *)
Write(lines) == log' = IF failed THEN log ELSE log \o lines

Join(who) == gate' = Append(gate, who)
Holds(who) == gate # <<>> /\ Head(gate) = who
Release == gate' = Tail(gate)

(* The harness future goes for the gate.  A gate that is free it takes in  *)
(* the same poll.                                                          *)
Want(reason) ==
  /\ harness' = IF gate = <<>> THEN "take" ELSE "want"
  /\ why' = reason /\ Join("prompt")

(* abort_reclaiming_locked: the signal of the active run, if there is one. *)
AbortLane == signal' = (signal \/ admitted)

(* Mutant: the gate stays taken. *)
AbortAndKeep == AbortLane /\ UNCHANGED gate

AbortAndLeave == AbortLane /\ Release

(* Mutant: a prompt that fails leaves the slot taken. *)
KeepSlot == task' = "done" /\ UNCHANGED active

GiveSlot == task' = "done" /\ active' = FALSE

----------------------------------------------------------------------------
(* The command loop. *)

ReadPrompt ==
  /\ reader = "read" /\ ~ active /\ run < MaxRuns
  /\ run' = run + 1 /\ active' = TRUE /\ cancel' = FALSE /\ task' = "validate"
  /\ commits' = 0
  /\ UNCHANGED <<loop, failed, lane, gate, bus, log, request, stopped, aborts, requests,
                 others>>

(* Abort cancels the run's token, then waits for the gate.  While it waits *)
(* no other command is read.                                               *)
ReadAbort ==
  /\ reader = "read" /\ aborts < MaxAborts
  /\ aborts' = aborts + 1
  /\ reader' = "abort" /\ cancel' = (cancel \/ active) /\ Join("reader")
  /\ UNCHANGED <<cancelOnExit, failed, run, active, task, lane, bus, log, request, stopped,
                 commits, requests, others>>

AnswerAbort ==
  /\ reader = "abort" /\ Holds("reader")
  /\ reader' = "read" /\ AbortAndLeave
  /\ UNCHANGED <<cancelOnExit, failed, slot, task, harness, why, admitted, bus, log, request,
                 stopped, bounds>>

(* "stop", and input that is no frame, which also fails the transport. *)
ReadStop ==
  /\ reader = "read"
  /\ reader' = "stop" /\ cancelOnExit' = TRUE /\ cancel' = TRUE /\ Join("reader")
  /\ UNCHANGED <<failed, run, active, task, lane, bus, log, request, stopped, bounds>>

AnswerStop ==
  /\ reader = "stop" /\ Holds("reader")
  /\ reader' = "exit" /\ AbortAndLeave /\ stopped' = TRUE
  /\ failed' \in {failed, MayFail}
  /\ UNCHANGED <<cancelOnExit, slot, task, harness, why, admitted, bus, log, request, bounds>>

ReadEof ==
  /\ reader = "read"
  /\ reader' = "exit"
  /\ UNCHANGED <<cancelOnExit, failed, slot, task, lane, gate, bus, log, request, stopped,
                 bounds>>

NoticeFailure ==
  /\ reader = "read" /\ failed
  /\ reader' = "exit" /\ cancelOnExit' = TRUE
  /\ UNCHANGED <<failed, slot, task, lane, gate, bus, log, request, stopped, bounds>>

(* The way out: cancel if asked to, shut the tools down, join the run ...  *)
Leave ==
  /\ reader = "exit"
  /\ IF cancelOnExit
       THEN reader' = "cancel" /\ cancel' = TRUE /\ Join("reader") /\ UNCHANGED stopped
       ELSE reader' = "join" /\ stopped' = TRUE /\ UNCHANGED <<cancel, gate>>
  /\ UNCHANGED <<cancelOnExit, failed, run, active, task, lane, bus, log, request, bounds>>

LeaveAborted ==
  /\ reader \in {"cancel", "cancelJoin"} /\ Holds("reader")
  /\ reader' = IF reader = "cancel" THEN "join" ELSE "joinLast"
  /\ AbortAndLeave /\ stopped' = TRUE
  /\ UNCHANGED <<cancelOnExit, failed, slot, task, harness, why, admitted, bus, log, request,
                 bounds>>

(* Mutant: an engine that was sent no prompt waits for a run. *)
RunOverOnly == task = "done"

RunOver == task \in {"none", "done"}

(* ... which a transport that breaks meanwhile still cancels ...           *)
JoinFails ==
  /\ reader = "join" /\ failed /\ ~ RunOver
  /\ reader' = "cancelJoin" /\ cancel' = TRUE /\ Join("reader")
  /\ UNCHANGED <<cancelOnExit, failed, run, active, task, lane, bus, log, request, stopped,
                 bounds>>

Joined ==
  /\ reader \in {"join", "joinLast"} /\ RunOver
  /\ reader' = "pump"
  /\ UNCHANGED <<cancelOnExit, failed, slot, task, lane, gate, bus, log, request, stopped,
                 bounds>>

(* ... and let the pump forward what is left. *)
Exit ==
  /\ reader = "pump"
  /\ reader' = "exited"
  /\ Write(bus) /\ bus' = <<>>
  /\ UNCHANGED <<cancelOnExit, failed, slot, task, lane, gate, request, stopped, bounds>>

BreakPipe ==
  /\ MayFail /\ ~ failed /\ reader # "exited"
  /\ failed' = TRUE
  /\ UNCHANGED <<loop, slot, task, lane, gate, bus, log, request, stopped, bounds>>

----------------------------------------------------------------------------
(* The run's task. *)

(* Validation or a hook fails the prompt: one response, no run. *)
Reject ==
  /\ task = "validate"
  /\ GiveSlot
  /\ UNCHANGED <<loop, failed, run, cancel, lane, gate, bus, log, request, stopped, bounds>>

Accept ==
  /\ task = "validate"
  /\ task' = "accepted" /\ Write(<<Line("accepted", run)>>)
  /\ UNCHANGED <<loop, failed, slot, lane, gate, bus, request, stopped, bounds>>

(* rpc_prompt_cancellable: cancelled already, or it polls the harness,     *)
(* which first waits for admission.                                        *)
Begin ==
  /\ task = "accepted"
  /\ IF cancel
       THEN task' = "flush" /\ UNCHANGED <<harness, why, gate>>
       ELSE task' = "run" /\ Want("admit")
  /\ UNCHANGED <<loop, failed, slot, admitted, signal, bus, log, request, stopped, bounds>>

(* The select finds its token cancelled: it aborts the lane itself, and    *)
(* the harness future is not polled until it has.                          *)
Notice ==
  /\ task = "run" /\ cancel /\ harness # "take"
  /\ task' = "abort" /\ Join("task")
  /\ UNCHANGED <<loop, failed, slot, lane, bus, log, request, stopped, bounds>>

(* Mutant: a run is not awaited after its abort. *)
AbortAndDrop ==
  AbortAndLeave /\ task' = "flush" /\ harness' = "none" /\ UNCHANGED <<admitted, request>>

(* A future that is dropped gives the run back and closes its request. *)
DropFuture ==
  /\ task' = "flush" /\ harness' = "none"
  /\ admitted' = FALSE /\ signal' = FALSE /\ request' = FALSE

(* An admitted run is awaited.  Its future is dropped if none is, or if    *)
(* the log refused to clear the queue, which comes after the signal.  The  *)
(* future is not in the gate's queue then: it joined before its task did.  *)
AbortAndAwait ==
  \/ /\ admitted /\ AbortAndLeave
     /\ task' = "await" /\ UNCHANGED <<harness, admitted, request>>
  \/ Release /\ DropFuture

TaskAborts ==
  /\ task = "abort" /\ Holds("task")
  /\ AbortAndAwait
  /\ UNCHANGED <<loop, failed, slot, why, bus, log, stopped, bounds>>

Polled == task \in {"run", "await"}

Return ==
  /\ Polled /\ harness = "ended"
  /\ task' = "flush" /\ harness' = "none"
  /\ UNCHANGED <<loop, failed, slot, why, admitted, signal, gate, bus, log, request, stopped,
                 bounds>>

(* Mutant: the pump forwards the events when it gets to it. *)
NoFlush == task' = "settle" /\ UNCHANGED <<bus, log>>

(* The pump forwards every event of the run before the settlement is       *)
(* queued.                                                                 *)
Drain == task' = "settle" /\ Write(bus) /\ bus' = <<>>

Flush ==
  /\ task = "flush"
  /\ Drain
  /\ UNCHANGED <<loop, failed, slot, lane, gate, request, stopped, bounds>>

Settle ==
  /\ task = "settle"
  /\ task' = "free" /\ Write(<<Line("settled", run)>>)
  /\ UNCHANGED <<loop, failed, slot, lane, gate, bus, request, stopped, bounds>>

FreeSlot ==
  /\ task = "free"
  /\ GiveSlot
  /\ UNCHANGED <<loop, failed, run, cancel, lane, gate, bus, log, request, stopped, bounds>>

PumpForwards ==
  /\ bus # <<>>
  /\ Write(<<Head(bus)>>) /\ bus' = Tail(bus)
  /\ UNCHANGED <<loop, failed, slot, task, lane, gate, request, stopped, bounds>>

----------------------------------------------------------------------------
(* The harness future.  It moves when the task polls it. *)

Reached == harness \in {"want", "take"} /\ Holds("prompt")

(* acquire_run takes the gate, installs active_run and lets the gate go. *)
Admit ==
  /\ Polled /\ Reached /\ why = "admit"
  /\ harness' = "work" /\ admitted' = TRUE /\ signal' = FALSE /\ Release
  /\ UNCHANGED <<loop, failed, slot, task, why, bus, log, request, stopped, bounds>>

(* A durable write takes the gate and suspends until it is on disk: a      *)
(* message, or the record that closes the operation.                       *)
TakeGate ==
  /\ Polled /\ Reached /\ why \in {"commit", "finish"}
  /\ harness' = "hold"
  /\ UNCHANGED <<loop, failed, slot, task, why, admitted, signal, gate, bus, log, request,
                 stopped, bounds>>

Written ==
  /\ Polled /\ harness = "hold"
  /\ Release
  /\ IF why = "commit"
       THEN harness' = "work" /\ UNCHANGED <<admitted, signal>>
       ELSE harness' = "ended" /\ admitted' = FALSE /\ signal' = FALSE
  /\ UNCHANGED <<loop, failed, slot, task, why, bus, log, request, stopped, bounds>>

CommitMessage ==
  /\ Polled /\ harness = "work" /\ commits < MaxCommits
  /\ commits' = commits + 1 /\ Want("commit")
  /\ UNCHANGED <<loop, failed, slot, task, admitted, signal, bus, log, request, stopped,
                 aborts, requests, others>>

(* ExternalTools::execute; a request that cannot be written aborts the     *)
(* root run.                                                               *)
OpenRequest ==
  /\ Polled /\ harness = "work" /\ ~ signal /\ ~ stopped /\ requests < MaxRequests
  /\ requests' = requests + 1
  /\ IF failed
       THEN Want("abort") /\ UNCHANGED request
       ELSE harness' = "tool" /\ request' = TRUE /\ UNCHANGED <<why, gate>>
  /\ UNCHANGED <<loop, failed, slot, task, admitted, signal, bus, log, stopped, aborts,
                 commits, others>>

(* The transport failed first: the root run is aborted ... *)
LoseRequest ==
  /\ Polled /\ harness = "tool" /\ failed /\ ~ signal /\ ~ stopped
  /\ Want("abort")
  /\ UNCHANGED <<loop, failed, slot, task, admitted, signal, bus, log, request, stopped,
                 bounds>>

(* ... or the reply, the signal, the shutdown or the timeout ends the      *)
(* wait.  The request is closed, which may itself overflow stdout; a       *)
(* failed transport then aborts the root run, again if it did.             *)
CloseRequest ==
  /\ Polled
  /\ harness = "close" \/ (harness = "tool" /\ (~ failed \/ signal \/ stopped))
  /\ request' = FALSE
  /\ failed' \in {failed, MayFail}
  /\ IF failed'
       THEN Want("again")
       ELSE harness' = "work" /\ UNCHANGED <<why, gate>>
  /\ UNCHANGED <<loop, slot, task, admitted, signal, bus, log, stopped, bounds>>

AbortRoot ==
  /\ Polled /\ Reached /\ why \in {"abort", "again"}
  /\ harness' = IF why = "abort" THEN "close" ELSE "work"
  /\ AbortAndLeave
  /\ UNCHANGED <<loop, failed, slot, task, why, admitted, bus, log, request, stopped, bounds>>

(* agent_end, then the operation is closed. *)
Finish ==
  /\ Polled /\ harness = "work"
  /\ bus' = Append(bus, Line("event", run))
  /\ Want("finish")
  /\ UNCHANGED <<loop, failed, slot, task, admitted, signal, log, request, stopped, bounds>>

(* A report or a note is queued by its own task. *)
OtherQueues ==
  /\ others < MaxOthers
  /\ others' = others + 1 /\ Join("other")
  /\ UNCHANGED <<loop, failed, slot, task, lane, bus, log, request, stopped, aborts, commits,
                 requests>>

OtherWritten ==
  /\ Holds("other") /\ Release
  /\ UNCHANGED <<loop, failed, slot, task, lane, bus, log, request, stopped, bounds>>

----------------------------------------------------------------------------
ReaderStep ==
  \/ AnswerAbort \/ AnswerStop \/ NoticeFailure
  \/ Leave \/ LeaveAborted \/ JoinFails \/ Joined \/ Exit
TaskStep ==
  \/ Reject \/ Accept \/ Begin \/ Notice \/ TaskAborts \/ Return \/ Flush \/ Settle \/ FreeSlot
HarnessStep ==
  \/ Admit \/ TakeGate \/ Written \/ CommitMessage \/ OpenRequest \/ LoseRequest
  \/ CloseRequest \/ AbortRoot \/ Finish

Next ==
  \/ ReadPrompt \/ ReadAbort \/ ReadStop \/ ReadEof \/ BreakPipe
  \/ ReaderStep \/ TaskStep \/ HarnessStep
  \/ PumpForwards \/ OtherQueues \/ OtherWritten

Spec == Init /\ [][Next]_vars

(* Every task is polled.  A model call, a tool and a write end: their      *)
(* timeouts see to it.  The client and the background agents do as they    *)
(* please.                                                                 *)
FairSpec ==
  Spec /\ WF_vars(ReaderStep) /\ WF_vars(TaskStep) /\ WF_vars(HarnessStep)
       /\ WF_vars(PumpForwards) /\ WF_vars(OtherWritten)

----------------------------------------------------------------------------
Parties == {"reader", "task", "prompt", "other"}

AtGate(who) ==
  \/ who = "reader" /\ reader \in {"abort", "stop", "cancel", "cancelJoin"}
  \/ who = "task" /\ task = "abort"
  \/ who = "prompt" /\ harness \in {"want", "take", "hold"}
  \/ who = "other"

(* Whoever waits for the gate, or has it, is in its queue, once; the       *)
(* future is there before its task, and first while it writes.             *)
GateInUse ==
  /\ \A who \in Parties, i \in DOMAIN gate : gate[i] = who => AtGate(who)
  /\ \A i \in DOMAIN gate, j \in DOMAIN gate : gate[i] = gate[j] => i = j \/ gate[i] = "other"
  /\ \A who \in Parties \ {"other"} : AtGate(who) => \E i \in DOMAIN gate : gate[i] = who
  /\ \A i \in DOMAIN gate, j \in DOMAIN gate : gate[i] = "prompt" /\ gate[j] = "task" => i < j
  /\ harness = "hold" => Holds("prompt")

FlagsOK ==
  /\ cancelOnExit \in BOOLEAN /\ failed \in BOOLEAN /\ active \in BOOLEAN /\ cancel \in BOOLEAN
  /\ admitted \in BOOLEAN /\ signal \in BOOLEAN /\ request \in BOOLEAN /\ stopped \in BOOLEAN

TypeOK ==
  /\ reader \in {"read", "abort", "stop", "exit", "cancel", "join", "cancelJoin",
                 "joinLast", "pump", "exited"}
  /\ task \in {"none", "validate", "accepted", "run", "abort", "await", "flush", "settle",
               "free", "done"}
  /\ harness \in {"none", "want", "take", "hold", "work", "tool", "close", "ended"}
  /\ why \in {"none", "admit", "commit", "finish", "abort", "again"}
  /\ FlagsOK
  /\ gate \in Seq(Parties)
  /\ GateInUse

(* modes.rs, event_flush: "A completion response is queued only after its  *)
(* final events, so a subsequent prompt cannot overtake the previous run's *)
(* agent_end": the lines of a run are its acceptance, its events and its   *)
(* one settlement, and none of another run is among them.                  *)
Rank == [accepted |-> 1, event |-> 2, settled |-> 3]

RunsInOrder ==
  \A i \in DOMAIN log, j \in DOMAIN log :
    i < j => \/ log[i].run < log[j].run
             \/ log[i].run = log[j].run /\ Rank[log[i].type] < Rank[log[j].type]

(* The harness runs nothing, and the client has no open tool request, once *)
(* the task that owns the run slot has its result: a run is never left     *)
(* behind by an abort that raced its admission or its end.                 *)
NothingLeftBehind ==
  admitted \/ request => task \in {"run", "abort", "await"}

(* The run task aborts the lane while the future it does not poll is next  *)
(* at the gate.                                                            *)
Stuck == task = "abort" /\ Holds("prompt")

(* Every prompt that took the slot gives it back ... *)
RunsEnd == active ~> ~ active \/ Stuck

(* ... and an engine that was told to leave does. *)
EngineExits == reader = "exit" ~> reader = "exited" \/ Stuck

(* rpc_prompt_cancellable: "Once active, await its normal aborted outcome  *)
(* and cleanup": an abort is answered.                                     *)
AbortIsAnswered == reader = "abort" ~> reader = "read"
=============================================================================
