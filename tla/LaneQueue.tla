------------------------------- MODULE LaneQueue -------------------------------
(***************************************************************************)
(* The message queues of one harness lane (AgentHarness in crates/         *)
(* evo-harness): messages sent while the agent works are made durable,     *)
(* published to an in-memory queue, reserved and drained by the agent loop,*)
(* and committed as transcript entries.  Clients may cancel or reclaim them*)
(* at any moment, a run may be abandoned half-way, and the process may die *)
(* between any two durable writes and rebuild its queues from the log.     *)
(*                                                                         *)
(* What is abstracted:                                                     *)
(*  - a message is an id of Msg; its text, skills and images are dropped;  *)
(*  - the log is the sequence number each record or entry was stamped with;*)
(*    a VecDeque is the ticket each message in it was pushed with, since   *)
(*    push_back and retain never change the relative order;                *)
(*  - an assistant turn is its outcome; assistant entries, tool results and*)
(*    the repair of an interrupted run are steps of the run without data;  *)
(*  - a refused append changes nothing durable and ends what attempted it. *)
(* One lane, one session: active_run is shared by every lane of a harness, *)
(* so no second lane ever runs beside this one.                            *)
(***************************************************************************)
EXTENDS Naturals

CONSTANTS
    Msg,            \* queue entry ids
    KindOf,         \* QueueKind of the record that enqueues each
    OneAtATime      \* the queues in QueueMode::OneAtATime; the others are All

Kind == {"steer", "followUp", "nextRun", "context"}

ASSUME KindAssumption == KindOf \in [Msg -> Kind]
ASSUME ModeAssumption == OneAtATime \subseteq {"steer", "followUp"}

VARIABLES
    \* The session log, on disk.
    seq,        \* last sequence number stamped
    enq,        \* seq of the queue_enqueued record of a message, 0 if none
    entry,      \* seq of the transcript entry of a message, 0 if none
    cancelled,  \* the messages with a queue_cancelled record
    op,         \* the operation without an operation_finished record:
                \*   "none", "mine" (the active run's), "stale" (a dead run's)
    \* The harness, in memory.
    mem,        \* ticket of a message in its MessageQueue, 0 if not there
    tail,       \* last ticket used
    reserved,   \* MessageQueue::reserved, over the three queues
    gate,       \* message_writes: what its holder still has to do
    ctxFlag,    \* pending_context_lanes holds this lane
    resumable,  \* pending_resume is set
    \* The active run.
    phase,      \* where run_admitted_inner and the agent loop are
    turn,       \* what the last turn was: "start", "final", "tools", "terminated"
    signal,     \* the run's cancellation token fired
    broken,     \* context_write_error is set
    held,       \* reserved by this run and not yet committed
    \* What the clients saw.
    returned    \* handed back by a cancel, a clear or an abort

log == <<seq, enq, entry, cancelled, op>>
queue == <<mem, tail, reserved>>
run == <<phase, turn, signal, broken, held>>
vars == <<log, queue, gate, ctxFlag, resumable, run, returned>>

(***************************************************************************)
(* message_writes is free, or held.  A holder that has written durably and *)
(* still has to publish carries the messages of its write; those three run *)
(* as spawned tasks and survive the caller.  The last three are futures.   *)
(***************************************************************************)
Free == [op |-> "free", msgs |-> {}]
Holder(what, S) == [op |-> what, msgs |-> S]
Owned == {"enqueue", "commit", "cancel"}
Futures == {"flush", "append", "create"}

Phases == {"down", "idle", "admitted", "recovering", "flushing", "starting",
           "prompting", "turnEnd", "drained", "injecting", "closingInject",
           "calling", "streaming", "boundary", "followUp", "failed",
           "settling", "closing", "ended"}

Up == phase # "down"
Active == phase \notin {"down", "idle"}

Oldest(S, rank) == {m \in S : \A n \in S : rank[m] <= rank[n]}

\* find_records with pending_queue_only.
LogPending(m) == /\ enq[m] > 0
                 /\ entry[m] = 0
                 /\ m \notin cancelled

PendingContext == {m \in Msg : KindOf[m] = "context" /\ LogPending(m)}

\* In the queue of kind k and not reserved: what a drain or a client may take.
Ready(k) == {m \in Msg : KindOf[m] = k /\ mem[m] > 0 /\ m \notin reserved}

\* Fault: the reservation takes the back of the queue.
TakeNewest(k) == IF k \in OneAtATime THEN {m \in Ready(k) : \A n \in Ready(k) : mem[m] >= mem[n]}
                 ELSE {m \in Ready(k) : mem[m] = tail}

\* QueueReservation::reserve: the whole queue, or its head.
Take(k) == IF k \in OneAtATime THEN Oldest(Ready(k), mem) ELSE Ready(k)

Init == /\ seq = 0
        /\ enq = [m \in Msg |-> 0]
        /\ entry = [m \in Msg |-> 0]
        /\ cancelled = {}
        /\ op = "none"
        /\ mem = [m \in Msg |-> 0]
        /\ tail = 0
        /\ reserved = {}
        /\ gate = Free
        /\ ctxFlag = FALSE
        /\ resumable = FALSE
        /\ phase = "idle"
        /\ turn = "start"
        /\ signal = FALSE
        /\ broken = FALSE
        /\ held = {}
        /\ returned = {}

\* Append the entry of m.
WriteEntry(m) == /\ seq' = seq + 1
                 /\ entry' = [entry EXCEPT ![m] = seq + 1]

WriteEnqueued(m) == /\ seq' = seq + 1
                    /\ enq' = [enq EXCEPT ![m] = seq + 1]

(******************************* Clients **********************************)

\* steer, follow_up, next_run: the record is durable before anything else.
Enqueue(m) == /\ Up
              /\ gate = Free
              /\ KindOf[m] # "context"
              /\ enq[m] = 0
              /\ WriteEnqueued(m)
              /\ gate' = Holder("enqueue", {m})
              /\ UNCHANGED <<entry, cancelled, op, queue, ctxFlag, resumable, run, returned>>

PublishEnqueue == /\ gate.op = "enqueue"
                  /\ tail' = tail + 1
                  /\ mem' = [m \in Msg |-> IF m \in gate.msgs THEN tail + 1 ELSE mem[m]]
                  /\ gate' = Free
                  /\ UNCHANGED <<log, reserved, ctxFlag, resumable, run, returned>>

\* append_message during an operation.  The write outlives a caller that is
\* dropped, the pending_context_lanes insert after it does not.
EnqueueContext(m) == /\ Up
                     /\ gate = Free
                     /\ KindOf[m] = "context"
                     /\ enq[m] = 0
                     /\ entry[m] = 0
                     /\ Active \/ op # "none"
                     /\ WriteEnqueued(m)
                     /\ ctxFlag' \in {TRUE, ctxFlag}
                     /\ UNCHANGED <<entry, cancelled, op, queue, gate, resumable, run, returned>>

\* Fault: an admitted run is not yet an operation, so the append goes ahead.
BeginAppendAdmitted(m) == /\ Up
                          /\ gate = Free
                          /\ op = "none"
                          /\ KindOf[m] = "context"
                          /\ enq[m] = 0
                          /\ entry[m] = 0
                          /\ gate' = Holder("append", {m})
                          /\ UNCHANGED <<log, queue, ctxFlag, resumable, run, returned>>

\* append_message on an idle lane: what waits is flushed first, then m is
\* appended without a queue record.
BeginAppend(m) == /\ phase = "idle"
                  /\ gate = Free
                  /\ op = "none"
                  /\ KindOf[m] = "context"
                  /\ enq[m] = 0
                  /\ entry[m] = 0
                  /\ gate' = Holder("append", {m})
                  /\ UNCHANGED <<log, queue, ctxFlag, resumable, run, returned>>

EndAppend == /\ gate.op = "append"
             /\ PendingContext = {}
             /\ \E m \in gate.msgs : WriteEntry(m)
             /\ ctxFlag' = FALSE
             /\ gate' = Free
             /\ UNCHANGED <<enq, cancelled, op, queue, resumable, run, returned>>

\* A refused append, or its caller dropped.
FailAppend == /\ gate.op = "append"
              /\ gate' = Free
              /\ UNCHANGED <<log, queue, ctxFlag, resumable, run, returned>>

\* The cancellations are one atomic batch; each needs its pending enqueue.
WriteCancellations(S) == /\ \A m \in S : LogPending(m)
                         /\ cancelled' = cancelled \cup S
                         /\ gate' = Holder("cancel", S)
                         /\ UNCHANGED <<seq, enq, entry, op>>

\* Fault: a message that a drain has reserved is still cancelled.
CancelReserved(m) == /\ Up
                     /\ gate = Free
                     /\ mem[m] > 0
                     /\ WriteCancellations({m})
                     /\ UNCHANGED <<queue, ctxFlag, resumable, run, returned>>

CancelQueued(m) == /\ Up
                   /\ gate = Free
                   /\ mem[m] > 0
                   /\ m \notin reserved
                   /\ WriteCancellations({m})
                   /\ UNCHANGED <<queue, ctxFlag, resumable, run, returned>>

\* Fault: a clear takes what is queued, reserved or not.
ClearableReserved == {m \in Msg : KindOf[m] \in {"steer", "followUp"} /\ mem[m] > 0}

Clearable == Ready("steer") \cup Ready("followUp")

\* clear_queue, and abort_reclaiming on an idle lane that tolerates idleness.
ClearQueue == /\ Up
              /\ gate = Free
              /\ Clearable # {}
              /\ WriteCancellations(Clearable)
              /\ UNCHANGED <<queue, ctxFlag, resumable, run, returned>>

\* abort: cancel and reclaim under one hold of the gate.  The token has fired
\* even when the reclaim is refused or finds nothing.
Abort == /\ Active
         /\ gate = Free
         /\ signal' = TRUE
         /\ \/ Clearable # {} /\ WriteCancellations(Clearable)
            \/ UNCHANGED <<log, gate>>
         /\ UNCHANGED <<queue, ctxFlag, resumable, phase, turn, broken, held, returned>>

PublishCancel == /\ gate.op = "cancel"
                 /\ mem' = [m \in Msg |-> IF m \in gate.msgs THEN 0 ELSE mem[m]]
                 /\ returned' = returned \cup gate.msgs
                 /\ gate' = Free
                 /\ UNCHANGED <<log, tail, reserved, ctxFlag, resumable, run>>

(************************** Admission of a run ****************************)

Admit(where) == /\ phase = "idle"
                /\ gate = Free
                /\ phase' = where
                /\ turn' = "start"
                /\ signal' = FALSE
                /\ broken' = FALSE
                /\ held' = {}
                /\ UNCHANGED <<log, queue, gate, ctxFlag, returned>>

\* acquire_run for a prompt.
StartRun == /\ Admit("admitted")
            /\ UNCHANGED resumable

\* resume_pending: no prompt, so the next-run queue is left alone.
ResumeRun == /\ resumable
             /\ Admit("recovering")
             /\ resumable' = FALSE

Reserve(S) == /\ held' = S
              /\ reserved' = reserved \cup S
              /\ UNCHANGED <<mem, tail>>

\* Fault: only a run without a prompt of its own drains the next-run queue.
LeaveNextRun == /\ phase = "admitted"
                /\ phase' = "recovering"
                /\ gate = Free
                /\ UNCHANGED <<log, queue, gate, ctxFlag, resumable, turn, signal, broken,
                               held, returned>>

ReserveNextRun == /\ phase = "admitted"
                  /\ gate = Free
                  /\ Reserve(Ready("nextRun"))
                  /\ phase' = "recovering"
                  /\ UNCHANGED <<log, gate, ctxFlag, resumable, turn, signal, broken, returned>>

\* finish_interrupted_operation: repair, then close what a dead run left open.
FinishInterrupted == /\ phase = "recovering"
                     /\ ~signal
                     /\ op' = "none"
                     /\ phase' = "flushing"
                     /\ UNCHANGED <<seq, enq, entry, cancelled, queue, gate, ctxFlag,
                                    resumable, turn, signal, broken, held, returned>>

(***************************************************************************)
(* operation_started and the first prompt are one durable append, under the*)
(* id that was reserved for it when the prompt comes from the queue.       *)
(***************************************************************************)
StartOperation == /\ phase = "starting"
                  /\ gate = Free
                  /\ op = "none"
                  /\ op' = "mine"
                  /\ phase' = "prompting"
                  /\ \/ /\ held = {}
                        /\ UNCHANGED <<seq, entry, gate>>
                     \/ \E m \in Oldest(held, mem) : /\ WriteEntry(m)
                                                     /\ gate' = Holder("commit", {m})
                  /\ UNCHANGED <<enq, cancelled, queue, ctxFlag, resumable,
                                 turn, signal, broken, held, returned>>

\* commit_reserved_prompt, for the remaining prompts and for what the loop
\* injects: the entry first, the queue after it.
CommitHeld == /\ phase \in {"prompting", "injecting", "closingInject"}
              /\ gate = Free
              /\ \E m \in Oldest(held, mem) : /\ WriteEntry(m)
                                              /\ gate' = Holder("commit", {m})
              /\ UNCHANGED <<enq, cancelled, op, queue, ctxFlag, resumable, run, returned>>

\* Fault: the reservation is released, the queue keeps the message.
ConfirmWithoutRemoving == /\ gate.op = "commit"
                          /\ reserved' = reserved \ gate.msgs
                          /\ held' = held \ gate.msgs
                          /\ gate' = Free
                          /\ UNCHANGED <<log, mem, tail, ctxFlag, resumable, phase, turn,
                                         signal, broken, returned>>

\* confirm_queue_entry.
ConfirmQueueEntry == /\ gate.op = "commit"
                     /\ mem' = [m \in Msg |-> IF m \in gate.msgs THEN 0 ELSE mem[m]]
                     /\ reserved' = reserved \ gate.msgs
                     /\ held' = held \ gate.msgs
                     /\ gate' = Free
                     /\ UNCHANGED <<log, tail, ctxFlag, resumable, phase, turn,
                                    signal, broken, returned>>

Goto(from, to) == /\ phase = from
                  /\ phase' = to

PromptsDone == /\ Goto("prompting", "turnEnd")
               /\ held = {}
               /\ UNCHANGED <<log, queue, gate, ctxFlag, resumable, turn, signal,
                              broken, held, returned>>

(***************************** The agent loop *****************************)

\* The steering drain, at the start of an attempt and after every turn.
DrainSteering == /\ Goto("turnEnd", "drained")
                 /\ gate = Free
                 /\ Reserve(Take("steer"))
                 /\ UNCHANGED <<log, gate, ctxFlag, resumable, turn, signal, broken, returned>>

\* should_stop_after_turn: the turn budget, or a StopRound request.  A
\* cancelled tool turn goes on, to end with an aborted assistant.
StopAfterTurn == /\ Goto("turnEnd", "settling")
                 /\ turn # "start"
                 /\ ~(signal /\ turn # "final")
                 /\ UNCHANGED <<log, queue, gate, ctxFlag, resumable, turn, signal,
                                broken, held, returned>>

AfterDrain == /\ phase = "drained"
              /\ phase' = IF signal /\ turn \in {"tools", "terminated"} THEN "closingInject"
                          ELSE IF held # {} \/ turn \in {"start", "tools"} THEN "injecting"
                          ELSE "followUp"
              /\ UNCHANGED <<log, queue, gate, ctxFlag, resumable, turn, signal,
                             broken, held, returned>>

InjectDone == /\ held = {}
              /\ Goto("injecting", "calling") \/ Goto("closingInject", "settling")
              /\ UNCHANGED <<log, queue, gate, ctxFlag, resumable, turn, signal,
                             broken, held, returned>>

\* The provider observes a token that fired before the request.
CallProvider == /\ phase = "calling"
                /\ phase' = IF signal THEN "failed" ELSE "streaming"
                /\ UNCHANGED <<log, queue, gate, ctxFlag, resumable, turn, signal,
                               broken, held, returned>>

\* An answer with no call, with a tool batch, or with one that terminates.
ProviderAnswers == /\ Goto("streaming", "boundary")
                   /\ turn' \in {"final", "tools", "terminated"}
                   /\ UNCHANGED <<log, queue, gate, ctxFlag, resumable, signal,
                                  broken, held, returned>>

ProviderFails == /\ Goto("streaming", "failed")
                 /\ UNCHANGED <<log, queue, gate, ctxFlag, resumable, turn, signal,
                                broken, held, returned>>

\* Fault: the wait for another attempt does not watch the token.
RetryCancelled == /\ Goto("failed", "turnEnd")
                  /\ turn' = "start"
                  /\ UNCHANGED <<log, queue, gate, ctxFlag, resumable, signal, broken, held, returned>>

\* Another attempt, after its wait; it drains the steering queue first.
Retry == /\ Goto("failed", "turnEnd")
         /\ ~signal
         /\ turn' = "start"
         /\ UNCHANGED <<log, queue, gate, ctxFlag, resumable, signal, broken, held, returned>>

\* Fault: an error returns before the operation is closed.
GiveUpEarly == /\ Goto("failed", "ended")
               /\ UNCHANGED <<log, queue, gate, ctxFlag, resumable, turn, signal,
                              broken, held, returned>>

GiveUp == /\ Goto("failed", "settling")
          /\ UNCHANGED <<log, queue, gate, ctxFlag, resumable, turn, signal,
                         broken, held, returned>>

\* A boundary with nothing to flush.
PassBoundary == /\ Goto("boundary", "turnEnd")
                /\ gate.op # "flush"
                /\ ~ctxFlag \/ PendingContext = {} \/ broken
                /\ UNCHANGED <<log, queue, gate, ctxFlag, resumable, turn, signal,
                               broken, held, returned>>

DrainFollowUp == /\ phase = "followUp"
                 /\ gate = Free
                 /\ Reserve(Take("followUp"))
                 /\ phase' = IF Take("followUp") = {} THEN "settling" ELSE "injecting"
                 /\ UNCHANGED <<log, gate, ctxFlag, resumable, turn, signal, broken, returned>>

(***************************** Context flush ******************************)

\* Where the run flushes: before it starts its operation, at a turn boundary,
\* and as it finishes, again for as long as its listeners append.
FlushDue == \/ phase = "flushing"
            \/ phase = "boundary" /\ ~broken /\ PendingContext # {}
            \/ phase = "settling" /\ ~broken /\ PendingContext # {}
            \/ phase \in {"closing", "ended"} /\ ctxFlag /\ PendingContext # {}

BeginFlush == /\ FlushDue
              /\ gate = Free
              /\ gate' = Holder("flush", {})
              /\ UNCHANGED <<log, queue, ctxFlag, resumable, run, returned>>

\* commit_context_entries, one reserved entry at a time.
FlushOne == /\ gate.op \in Futures
            /\ gate.op = "create" => op = "none"
            /\ \E m \in Oldest(PendingContext, enq) : WriteEntry(m)
            /\ UNCHANGED <<enq, cancelled, op, queue, gate, ctxFlag, resumable, run, returned>>

\* A boundary has two hooks, around its TurnEnd event: it may flush again.
AfterFlush == CASE phase = "flushing" -> "starting"
                [] phase = "settling" -> "closing"
                [] OTHER -> phase

EndFlush == /\ gate.op = "flush"
            /\ PendingContext = {}
            /\ gate' = Free
            /\ ctxFlag' = FALSE
            /\ phase' = AfterFlush
            /\ UNCHANGED <<log, queue, resumable, turn, signal, broken, held, returned>>

\* A boundary write was refused: cancel, and fail once the loop has wound up.
BoundaryFails == /\ gate.op = "flush"
                 /\ Goto("boundary", "turnEnd")
                 /\ gate' = Free
                 /\ signal' = TRUE
                 /\ broken' = TRUE
                 /\ UNCHANGED <<log, queue, ctxFlag, resumable, turn, held, returned>>

(*************************** The end of a run *****************************)

NothingToFlush == IF phase = "settling" THEN PendingContext = {}
                  ELSE ~ctxFlag \/ PendingContext = {}

\* operation_finished, while the run still owns admission.
CloseOperation == /\ phase \in {"settling", "closing"}
                  /\ gate = Free
                  /\ ~broken
                  /\ NothingToFlush
                  /\ op' = "none"
                  /\ phase' = "ended"
                  /\ ctxFlag' = FALSE
                  /\ UNCHANGED <<seq, enq, entry, cancelled, queue, gate, resumable,
                                 turn, signal, broken, held, returned>>

\* release_run, under the gate, once the RunEnd listeners' context is in.
ReleaseRun == /\ Goto("ended", "idle")
              /\ gate = Free
              /\ NothingToFlush
              /\ signal' = FALSE
              /\ UNCHANGED <<log, queue, gate, ctxFlag, resumable, turn, broken, held, returned>>

\* Fault: a dropped run keeps its reservations.
LoseReservations == /\ phase' = "idle"
                    /\ signal' = FALSE
                    /\ broken' = FALSE
                    /\ held' = {}
                    /\ gate' = IF gate.op = "flush" THEN Free ELSE gate
                    /\ op' = IF op = "mine" THEN "stale" ELSE op
                    /\ UNCHANGED <<seq, enq, entry, cancelled, mem, tail, reserved, ctxFlag,
                                   resumable, turn, returned>>

(***************************************************************************)
(* The run ends without closing its operation.  Dropping its future        *)
(* releases its reservations, its hold of the gate and its admission; a    *)
(* spawned write goes on.                                                  *)
(***************************************************************************)
LoseRun == /\ phase' = "idle"
           /\ signal' = FALSE
           /\ broken' = FALSE
           /\ held' = {}
           /\ reserved' = reserved \ held
           /\ gate' = IF gate.op = "flush" THEN Free ELSE gate
           /\ op' = IF op = "mine" THEN "stale" ELSE op
           /\ UNCHANGED <<seq, enq, entry, cancelled, mem, tail, ctxFlag,
                          resumable, turn, returned>>

\* Recovery was cancelled, or a boundary write had failed.
RunErrs == /\ \/ phase = "recovering" /\ signal
              \/ phase = "settling" /\ broken
           /\ LoseRun

\* At any point: an append it needs is refused, it suspends on a deferred
\* answer, or the caller that drives it goes away.
AbandonRun == Active /\ LoseRun

(*************************** Crash and restart ****************************)

Crash == /\ Up
         /\ phase' = "down"
         /\ op' = IF op = "mine" THEN "stale" ELSE op
         /\ mem' = [m \in Msg |-> 0]
         /\ tail' = 0
         /\ reserved' = {}
         /\ gate' = Free
         /\ ctxFlag' = FALSE
         /\ resumable' = FALSE
         /\ turn' = "start"
         /\ signal' = FALSE
         /\ broken' = FALSE
         /\ held' = {}
         /\ UNCHANGED <<seq, enq, entry, cancelled, returned>>

\* Faults: the rebuild forgets the cancellations; it reads the newest first.
RebuildFrom(S, ticket) ==
    /\ phase = "down"
    /\ phase' = "idle"
    /\ mem' = [m \in Msg |-> IF KindOf[m] # "context" /\ m \in S THEN ticket[m] ELSE 0]
    /\ tail' = seq
    /\ gate' = Holder("create", {})
    /\ UNCHANGED <<log, reserved, ctxFlag, resumable, turn, signal, broken, held, returned>>

RestartWithCancelled == RebuildFrom({m \in Msg : enq[m] > 0 /\ entry[m] = 0}, enq)

RestartNewestFirst == RebuildFrom({m \in Msg : LogPending(m)},
                                  [m \in Msg |-> seq + 1 - enq[m]])

\* create: rebuild_queues comes first, pushed in recorded order.
Restart == /\ phase = "down"
           /\ phase' = "idle"
           /\ mem' = [m \in Msg |-> IF KindOf[m] # "context" /\ LogPending(m)
                                    THEN enq[m] ELSE 0]
           /\ tail' = seq
           /\ gate' = Holder("create", {})
           /\ UNCHANGED <<log, reserved, ctxFlag, resumable, turn, signal, broken, held, returned>>

\* create, then: close the interrupted operation and decide whether its
\* transcript is one a run can continue from.
RecoverInterrupted == /\ gate.op = "create"
                      /\ op = "stale"
                      /\ op' = "none"
                      /\ resumable' \in BOOLEAN
                      /\ UNCHANGED <<seq, enq, entry, cancelled, queue, gate, ctxFlag, run, returned>>

\* create, last: the context that waited is in, and the harness is shared.
EndCreate == /\ gate.op = "create"
             /\ op = "none"
             /\ PendingContext = {}
             /\ gate' = Free
             /\ UNCHANGED <<log, queue, ctxFlag, resumable, run, returned>>

ClientStep == \/ \E m \in Msg : \/ Enqueue(m)
                                \/ EnqueueContext(m)
                                \/ BeginAppend(m)
                                \/ CancelQueued(m)
              \/ ClearQueue
              \/ Abort
              \/ StartRun
              \/ ResumeRun

\* What the harness does on its own once a client has acted.
HarnessStep == \/ PublishEnqueue \/ PublishCancel \/ ConfirmQueueEntry
               \/ EndAppend \/ FlushOne \/ EndFlush
               \/ RecoverInterrupted \/ EndCreate
               \/ ReserveNextRun \/ FinishInterrupted \/ StartOperation
               \/ CommitHeld \/ PromptsDone
               \/ DrainSteering \/ AfterDrain \/ InjectDone \/ CallProvider
               \/ PassBoundary \/ DrainFollowUp \/ BeginFlush
               \/ CloseOperation \/ ReleaseRun \/ RunErrs

\* What is decided outside the harness: the answers and the turn limits.
OutcomeStep == \/ ProviderAnswers \/ ProviderFails \/ Retry \/ GiveUp
               \/ StopAfterTurn

FailureStep == FailAppend \/ BoundaryFails \/ AbandonRun \/ Crash \/ Restart

Next == ClientStep \/ HarnessStep \/ OutcomeStep \/ FailureStep

Spec == Init /\ [][Next]_vars

(***************************************************************************)
(* tokio's mutex is fair and the spawned tasks run to completion; providers*)
(* answer or time out; a retry waits for a bounded time.  Nothing makes    *)
(* clients act, runs survive or the process restart.                       *)
(***************************************************************************)
Fairness == /\ WF_vars(HarnessStep)
            /\ WF_vars(ProviderAnswers \/ ProviderFails)
            /\ WF_vars(Retry \/ GiveUp)

FairSpec == Spec /\ Fairness

(******************************* Properties *******************************)

InFlight(what) == IF gate.op = what THEN gate.msgs ELSE {}

FlagsOK == /\ ctxFlag \in BOOLEAN /\ resumable \in BOOLEAN
           /\ signal \in BOOLEAN /\ broken \in BOOLEAN

TypeOK == /\ seq \in Nat /\ tail \in Nat
          /\ enq \in [Msg -> Nat] /\ entry \in [Msg -> Nat] /\ mem \in [Msg -> Nat]
          /\ cancelled \subseteq Msg /\ reserved \subseteq Msg
          /\ held \subseteq Msg /\ returned \subseteq Msg
          /\ op \in {"none", "mine", "stale"}
          /\ gate \in [op : {"free"} \cup Owned \cup Futures, msgs : SUBSET Msg]
          /\ FlagsOK
          /\ phase \in Phases
          /\ turn \in {"start", "final", "tools", "terminated"}

\* The in-memory queues are what a restart would rebuild from the log, in the
\* same order, but for the one write its gate holder has yet to publish: no
\* interleaving of clients, runs and crashes loses or resurrects a message.
QueueMatchesLog ==
    Up => /\ \A m \in Msg : KindOf[m] # "context" =>
                (mem[m] > 0 <=> \/ LogPending(m) /\ m \notin InFlight("enqueue")
                                \/ m \in InFlight("commit") \cup InFlight("cancel"))
          /\ \A m, n \in Msg : mem[m] > 0 /\ mem[n] > 0 =>
                (mem[m] < mem[n] <=> enq[m] < enq[n])

\* A message handed back to a client to be edited and sent again is never also
\* in the transcript, whenever the abort, the drain or the crash came.
NeverBoth == \A m \in Msg : entry[m] > 0 => m \notin cancelled \cup returned

\* A reservation belongs to the active run, which still has to commit it: one
\* that outlived its run would hide the message from every later drain.
ReservedByRun == /\ reserved = held
                 /\ held # {} => Active
                 /\ \A m \in held : LogPending(m) \/ m \in InFlight("commit")

\* Admission and the operation agree: no run is admitted, and none released,
\* with an operation of a live run open.
RunOwnsOperation ==
    op = "mine" <=> phase \in {"prompting", "turnEnd", "drained", "injecting",
                               "closingInject", "calling", "streaming", "boundary",
                               "followUp", "failed", "settling", "closing"}

(***************************************************************************)
(* The inductive invariant.  The four facts above are not inductive: they  *)
(* need what the gate's holder has written, which messages each phase of a *)
(* run may hold, and that the held ones are the head of their queue.       *)
(***************************************************************************)
LogOK == /\ \A m \in Msg : enq[m] <= seq /\ entry[m] <= seq
         /\ \A m, n \in Msg : enq[m] > 0 /\ enq[m] = enq[n] => m = n
         /\ \A m \in Msg : entry[m] > 0 /\ KindOf[m] # "context" => enq[m] > 0
         /\ \A m \in cancelled : enq[m] > 0 /\ entry[m] = 0
         /\ returned \subseteq cancelled

TicketsOK == /\ \A m \in Msg : mem[m] <= tail
             /\ \A m \in Msg : mem[m] > 0 => KindOf[m] # "context" /\ enq[m] > 0
             /\ ~Up => gate = Free

GateOK == /\ gate.op \in {"free"} \cup {"flush", "create"} => gate.msgs = {}
          /\ gate.op = "enqueue" => \A m \in gate.msgs :
                /\ KindOf[m] # "context" /\ LogPending(m) /\ mem[m] = 0
                /\ \A n \in Msg : mem[n] > 0 => enq[n] < enq[m]
                /\ gate.msgs = {m}
          /\ gate.op = "commit" => \A m \in gate.msgs :
                KindOf[m] # "context" /\ entry[m] > 0 /\ enq[m] > 0 /\ mem[m] > 0
          /\ gate.op = "cancel" => gate.msgs \subseteq cancelled \ reserved
                                  /\ \A m \in gate.msgs : mem[m] > 0
          /\ gate.op = "append" => /\ phase = "idle" /\ op = "none"
                                  /\ \A m \in gate.msgs :
                                        KindOf[m] = "context" /\ enq[m] = 0 /\ entry[m] = 0
          /\ gate.op = "create" => phase = "idle"
          /\ gate.op = "flush" => phase \in {"flushing", "boundary", "settling",
                                             "closing", "ended"}

\* A run holds messages only between reserving and committing them, and they
\* are the oldest of their queue.
HeldOK == /\ held # {} => phase \in {"recovering", "flushing", "starting", "prompting",
                                     "drained", "injecting", "closingInject"}
          /\ \A m \in held, n \in Msg \ held :
                KindOf[n] = KindOf[m] /\ mem[n] > 0 => mem[m] < mem[n]
          /\ \A m \in held : mem[m] > 0
          /\ phase \in {"flushing", "starting"} => op = "none"

IInv == /\ TypeOK
        /\ QueueMatchesLog
        /\ NeverBoth
        /\ ReservedByRun
        /\ RunOwnsOperation
        /\ LogOK
        /\ TicketsOK
        /\ GateOK
        /\ HeldOK

\* A queued message becomes an entry only inside the operation of a live run;
\* context, never between a request and its answer or ahead of the prompt.
EntriesLandInPlace ==
    [][\A m \in Msg : entry'[m] # entry[m] =>
          IF KindOf[m] = "context"
          THEN phase \in {"idle", "flushing", "boundary", "settling", "closing", "ended"}
          ELSE op' = "mine"]_vars

\* The lane implements the promise made to senders.
Delivery == INSTANCE MessageDelivery WITH
                now <- seq, accepted <- enq, delivered <- entry, withdrawn <- cancelled

ImplementsDelivery == Delivery!Spec

\* An aborted run ends, whatever it was doing and whatever clients still send.
AbortEndsRun == (Active /\ signal) ~> ~Active

\* The run ends other than by release_run at its end.
RunDies == Active /\ phase # "ended" /\ phase' \in {"idle", "down"}

\* While runs are started and none dies, a steering or next-run message does
\* not stay queued for ever: whatever reserves it also commits it, and a stop
\* or an abort leaves it to the next run.
QueuedIsConsumed ==
    ([]<><<StartRun>>_vars /\ <>[][~RunDies]_vars) =>
        \A m \in Msg : (LogPending(m) /\ KindOf[m] \in {"steer", "nextRun"}) ~> ~LogPending(m)
================================================================================
