--------------------------- MODULE LaneQueueProofs ---------------------------
(***************************************************************************)
(* The safety properties of LaneQueue, for every set of messages, every    *)
(* choice of their kinds and every queue mode: the inductive invariant IInv*)
(* is preserved by each action, the properties follow from it, and so does *)
(* the implementation of MessageDelivery.                                  *)
(***************************************************************************)
EXTENDS LaneQueue, TLAPS

LEMMA InitiallyIInv == Init => IInv
<1> SUFFICES ASSUME Init PROVE IInv
  OBVIOUS
<1>1. FlagsOK
  BY Zenon DEF Init, FlagsOK
<1> QED
  BY <1>1, SMT
  DEF Init, IInv, TypeOK, QueueMatchesLog, NeverBoth, ReservedByRun,
      RunOwnsOperation, LogOK, TicketsOK, GateOK, HeldOK, Free, Owned, Futures,
      Phases, Up, Active, LogPending, InFlight

\* Enqueues, appends, cancellations, clears and aborts.
LEMMA ClientsPreserve ==
  ASSUME IInv,
         \/ \E m \in Msg : Enqueue(m) \/ EnqueueContext(m) \/ BeginAppend(m) \/ CancelQueued(m)
         \/ ClearQueue \/ Abort \/ PublishEnqueue \/ PublishCancel \/ EndAppend \/ FailAppend
  PROVE  IInv'
<1> USE KindAssumption, ModeAssumption
        DEF log, queue, run, Free, Holder, Owned, Futures, Phases, Kind, Up, Active,
               LogPending, InFlight,
            WriteEntry, WriteEnqueued, WriteCancellations, Clearable, Ready,
            PendingContext
<1>1. ASSUME NEW m \in Msg, Enqueue(m) PROVE IInv'
  <2>1. FlagsOK'
    BY <1>1, Zenon DEF Enqueue, FlagsOK, TypeOK, IInv
  <2>2. /\ mem[m] = 0 /\ m \notin cancelled /\ entry[m] = 0
        /\ \A n \in Msg : enq[n] <= seq
    BY <1>1 DEF Enqueue, IInv, TypeOK, QueueMatchesLog, NeverBoth, ReservedByRun, RunOwnsOperation,
               LogOK, TicketsOK, GateOK, HeldOK
  <2>3. GateOK'
    <3>1. gate' = [op |-> "enqueue", msgs |-> {m}] /\ mem' = mem
      BY <1>1 DEF Enqueue
    <3>2. /\ enq'[m] = seq + 1
          /\ \A n \in Msg : n # m => enq'[n] = enq[n]
          /\ entry' = entry /\ cancelled' = cancelled
      BY <1>1 DEF Enqueue, IInv, TypeOK
    <3>3. LogPending(m)' /\ KindOf[m] # "context"
      BY <1>1, <2>2, <3>2 DEF Enqueue, IInv, TypeOK
    <3>4. \A n \in Msg : mem'[n] > 0 => enq'[n] < enq'[m]
      BY <2>2, <3>1, <3>2 DEF IInv, TypeOK
    <3> QED
      BY <2>2, <3>1, <3>3, <3>4 DEF GateOK
  <2>4. /\ TypeOK' /\ QueueMatchesLog' /\ NeverBoth' /\ ReservedByRun'
        /\ RunOwnsOperation' /\ LogOK' /\ TicketsOK' /\ HeldOK'
    BY <1>1, <2>1, SMTT(30) DEF Enqueue, IInv, TypeOK, QueueMatchesLog, NeverBoth, ReservedByRun, RunOwnsOperation,
               LogOK, TicketsOK, GateOK, HeldOK
  <2> QED
    BY <2>3, <2>4 DEF IInv
<1>2. ASSUME NEW m \in Msg, EnqueueContext(m) PROVE IInv'
  <2>1. FlagsOK'
    BY <1>2, Zenon DEF EnqueueContext, FlagsOK, TypeOK, IInv
  <2> QED
    BY <1>2, <2>1, SMTT(30) DEF EnqueueContext, IInv, TypeOK, QueueMatchesLog, NeverBoth, ReservedByRun, RunOwnsOperation,
               LogOK, TicketsOK, GateOK, HeldOK
<1>3. ASSUME NEW m \in Msg, BeginAppend(m) PROVE IInv'
  BY <1>3, SMTT(30) DEF BeginAppend, FlagsOK, IInv, TypeOK, QueueMatchesLog, NeverBoth, ReservedByRun, RunOwnsOperation,
               LogOK, TicketsOK, GateOK, HeldOK
<1>4. ASSUME NEW m \in Msg, CancelQueued(m) PROVE IInv'
  BY <1>4, SMTT(30) DEF CancelQueued, FlagsOK, IInv, TypeOK, QueueMatchesLog, NeverBoth, ReservedByRun, RunOwnsOperation,
               LogOK, TicketsOK, GateOK, HeldOK
<1>5. CASE ClearQueue
  BY <1>5, SMTT(30) DEF ClearQueue, FlagsOK, IInv, TypeOK, QueueMatchesLog, NeverBoth, ReservedByRun, RunOwnsOperation,
               LogOK, TicketsOK, GateOK, HeldOK
<1>6. CASE Abort
  BY <1>6, SMTT(30) DEF Abort, FlagsOK, IInv, TypeOK, QueueMatchesLog, NeverBoth, ReservedByRun, RunOwnsOperation,
               LogOK, TicketsOK, GateOK, HeldOK
<1>7. CASE PublishEnqueue
  BY <1>7, SMTT(30) DEF PublishEnqueue, FlagsOK, IInv, TypeOK, QueueMatchesLog, NeverBoth, ReservedByRun, RunOwnsOperation,
               LogOK, TicketsOK, GateOK, HeldOK
<1>8. CASE PublishCancel
  BY <1>8, SMTT(30) DEF PublishCancel, FlagsOK, IInv, TypeOK, QueueMatchesLog, NeverBoth, ReservedByRun, RunOwnsOperation,
               LogOK, TicketsOK, GateOK, HeldOK
<1>9. CASE EndAppend
  <2>1. FlagsOK'
    BY <1>9, Zenon DEF EndAppend, FlagsOK, TypeOK, IInv
  <2> QED
    BY <1>9, <2>1, SMTT(30) DEF EndAppend, IInv, TypeOK, QueueMatchesLog, NeverBoth, ReservedByRun, RunOwnsOperation,
               LogOK, TicketsOK, GateOK, HeldOK
<1>10. CASE FailAppend
  BY <1>10, SMTT(30) DEF FailAppend, FlagsOK, IInv, TypeOK, QueueMatchesLog, NeverBoth, ReservedByRun, RunOwnsOperation,
               LogOK, TicketsOK, GateOK, HeldOK
<1> QED
  BY <1>1, <1>2, <1>3, <1>4, <1>5, <1>6, <1>7, <1>8, <1>9, <1>10

\* Admission, the prompts, and the steps that reserve and commit messages.
LEMMA AdmissionPreserves ==
  ASSUME IInv,
         \/ StartRun \/ ResumeRun \/ ReserveNextRun \/ FinishInterrupted
         \/ StartOperation \/ CommitHeld \/ ConfirmQueueEntry
         \/ DrainSteering \/ DrainFollowUp
  PROVE  IInv'
<1> USE KindAssumption, ModeAssumption
        DEF log, queue, run, Free, Holder, Owned, Futures, Phases, Kind, Up, Active,
               LogPending, InFlight,
            Admit, Reserve, Goto, Oldest, Ready, Take, WriteEntry
<1>1. CASE StartRun
  <2>1. FlagsOK'
    BY <1>1, Zenon DEF StartRun, FlagsOK, TypeOK, IInv
  <2> QED
    BY <1>1, <2>1, SMTT(30) DEF StartRun, IInv, TypeOK, QueueMatchesLog, NeverBoth, ReservedByRun, RunOwnsOperation,
               LogOK, TicketsOK, GateOK, HeldOK
<1>2. CASE ResumeRun
  <2>1. FlagsOK'
    BY <1>2, Zenon DEF ResumeRun, FlagsOK, TypeOK, IInv
  <2> QED
    BY <1>2, <2>1, SMTT(30) DEF ResumeRun, IInv, TypeOK, QueueMatchesLog, NeverBoth, ReservedByRun, RunOwnsOperation,
               LogOK, TicketsOK, GateOK, HeldOK
<1>3. CASE ReserveNextRun
  BY <1>3, SMTT(30) DEF ReserveNextRun, FlagsOK, IInv, TypeOK, QueueMatchesLog, NeverBoth, ReservedByRun, RunOwnsOperation,
               LogOK, TicketsOK, GateOK, HeldOK
<1>4. CASE FinishInterrupted
  BY <1>4, SMTT(30) DEF FinishInterrupted, FlagsOK, IInv, TypeOK, QueueMatchesLog, NeverBoth, ReservedByRun, RunOwnsOperation,
               LogOK, TicketsOK, GateOK, HeldOK
<1>5. CASE StartOperation
  BY <1>5, SMTT(30) DEF StartOperation, FlagsOK, IInv, TypeOK, QueueMatchesLog, NeverBoth, ReservedByRun, RunOwnsOperation,
               LogOK, TicketsOK, GateOK, HeldOK
<1>6. CASE CommitHeld
  BY <1>6, SMTT(30) DEF CommitHeld, FlagsOK, IInv, TypeOK, QueueMatchesLog, NeverBoth, ReservedByRun, RunOwnsOperation,
               LogOK, TicketsOK, GateOK, HeldOK
<1>7. CASE ConfirmQueueEntry
  BY <1>7, SMTT(30) DEF ConfirmQueueEntry, FlagsOK, IInv, TypeOK, QueueMatchesLog, NeverBoth, ReservedByRun, RunOwnsOperation,
               LogOK, TicketsOK, GateOK, HeldOK
<1>8. CASE DrainSteering
  BY <1>8, SMTT(30) DEF DrainSteering, FlagsOK, IInv, TypeOK, QueueMatchesLog, NeverBoth, ReservedByRun, RunOwnsOperation,
               LogOK, TicketsOK, GateOK, HeldOK
<1>9. CASE DrainFollowUp
  BY <1>9, SMTT(30) DEF DrainFollowUp, FlagsOK, IInv, TypeOK, QueueMatchesLog, NeverBoth, ReservedByRun, RunOwnsOperation,
               LogOK, TicketsOK, GateOK, HeldOK
<1> QED
  BY <1>1, <1>2, <1>3, <1>4, <1>5, <1>6, <1>7, <1>8, <1>9

\* The steps of the agent loop that only move the run on.
LEMMA LoopPreserves ==
  ASSUME IInv,
         \/ PromptsDone \/ StopAfterTurn \/ AfterDrain \/ InjectDone
         \/ CallProvider \/ ProviderAnswers \/ ProviderFails
         \/ Retry \/ GiveUp \/ PassBoundary
  PROVE  IInv'
<1> USE KindAssumption, ModeAssumption
        DEF log, queue, run, Free, Holder, Owned, Futures, Phases, Kind, Up, Active,
               LogPending, InFlight, Goto
<1>1. CASE PromptsDone
  BY <1>1, SMTT(30) DEF PromptsDone, FlagsOK, IInv, TypeOK, QueueMatchesLog, NeverBoth, ReservedByRun, RunOwnsOperation,
               LogOK, TicketsOK, GateOK, HeldOK
<1>2. CASE StopAfterTurn
  BY <1>2, SMTT(30) DEF StopAfterTurn, FlagsOK, IInv, TypeOK, QueueMatchesLog, NeverBoth, ReservedByRun, RunOwnsOperation,
               LogOK, TicketsOK, GateOK, HeldOK
<1>3. CASE AfterDrain
  BY <1>3, SMTT(30) DEF AfterDrain, FlagsOK, IInv, TypeOK, QueueMatchesLog, NeverBoth, ReservedByRun, RunOwnsOperation,
               LogOK, TicketsOK, GateOK, HeldOK
<1>4. CASE InjectDone
  BY <1>4, SMTT(30) DEF InjectDone, FlagsOK, IInv, TypeOK, QueueMatchesLog, NeverBoth, ReservedByRun, RunOwnsOperation,
               LogOK, TicketsOK, GateOK, HeldOK
<1>5. CASE CallProvider
  BY <1>5, SMTT(30) DEF CallProvider, FlagsOK, IInv, TypeOK, QueueMatchesLog, NeverBoth, ReservedByRun, RunOwnsOperation,
               LogOK, TicketsOK, GateOK, HeldOK
<1>6. CASE ProviderAnswers
  BY <1>6, SMTT(30) DEF ProviderAnswers, FlagsOK, IInv, TypeOK, QueueMatchesLog, NeverBoth, ReservedByRun, RunOwnsOperation,
               LogOK, TicketsOK, GateOK, HeldOK
<1>7. CASE ProviderFails
  BY <1>7, SMTT(30) DEF ProviderFails, FlagsOK, IInv, TypeOK, QueueMatchesLog, NeverBoth, ReservedByRun, RunOwnsOperation,
               LogOK, TicketsOK, GateOK, HeldOK
<1>8. CASE Retry
  BY <1>8, SMTT(30) DEF Retry, FlagsOK, IInv, TypeOK, QueueMatchesLog, NeverBoth, ReservedByRun, RunOwnsOperation,
               LogOK, TicketsOK, GateOK, HeldOK
<1>9. CASE GiveUp
  BY <1>9, SMTT(30) DEF GiveUp, FlagsOK, IInv, TypeOK, QueueMatchesLog, NeverBoth, ReservedByRun, RunOwnsOperation,
               LogOK, TicketsOK, GateOK, HeldOK
<1>10. CASE PassBoundary
  BY <1>10, SMTT(30) DEF PassBoundary, FlagsOK, IInv, TypeOK, QueueMatchesLog, NeverBoth, ReservedByRun, RunOwnsOperation,
               LogOK, TicketsOK, GateOK, HeldOK
<1> QED
  BY <1>1, <1>2, <1>3, <1>4, <1>5, <1>6, <1>7, <1>8, <1>9, <1>10

\* Context flushes and the orderly end of a run.
LEMMA FlushPreserves ==
  ASSUME IInv,
         \/ BeginFlush \/ FlushOne \/ EndFlush \/ BoundaryFails
         \/ CloseOperation \/ ReleaseRun
  PROVE  IInv'
<1> USE KindAssumption, ModeAssumption
        DEF log, queue, run, Free, Holder, Owned, Futures, Phases, Kind, Up, Active,
               LogPending, InFlight,
            FlushDue, AfterFlush, NothingToFlush, Goto, Oldest, PendingContext, WriteEntry
<1>1. CASE BeginFlush
  BY <1>1, SMTT(30) DEF BeginFlush, FlagsOK, IInv, TypeOK, QueueMatchesLog, NeverBoth, ReservedByRun, RunOwnsOperation,
               LogOK, TicketsOK, GateOK, HeldOK
<1>2. CASE FlushOne
  BY <1>2, SMTT(30) DEF FlushOne, FlagsOK, IInv, TypeOK, QueueMatchesLog, NeverBoth, ReservedByRun, RunOwnsOperation,
               LogOK, TicketsOK, GateOK, HeldOK
<1>3. CASE EndFlush
  <2>1. FlagsOK'
    BY <1>3, Zenon DEF EndFlush, FlagsOK, TypeOK, IInv
  <2> QED
    BY <1>3, <2>1, SMTT(30) DEF EndFlush, IInv, TypeOK, QueueMatchesLog, NeverBoth, ReservedByRun, RunOwnsOperation,
               LogOK, TicketsOK, GateOK, HeldOK
<1>4. CASE BoundaryFails
  <2>1. FlagsOK'
    BY <1>4, Zenon DEF BoundaryFails, FlagsOK, TypeOK, IInv
  <2> QED
    BY <1>4, <2>1, SMTT(30) DEF BoundaryFails, IInv, TypeOK, QueueMatchesLog, NeverBoth, ReservedByRun, RunOwnsOperation,
               LogOK, TicketsOK, GateOK, HeldOK
<1>5. CASE CloseOperation
  <2>1. FlagsOK'
    BY <1>5, Zenon DEF CloseOperation, FlagsOK, TypeOK, IInv
  <2> QED
    BY <1>5, <2>1, SMTT(30) DEF CloseOperation, IInv, TypeOK, QueueMatchesLog, NeverBoth, ReservedByRun, RunOwnsOperation,
               LogOK, TicketsOK, GateOK, HeldOK
<1>6. CASE ReleaseRun
  <2>1. FlagsOK'
    BY <1>6, Zenon DEF ReleaseRun, FlagsOK, TypeOK, IInv
  <2> QED
    BY <1>6, <2>1, SMTT(30) DEF ReleaseRun, IInv, TypeOK, QueueMatchesLog, NeverBoth, ReservedByRun, RunOwnsOperation,
               LogOK, TicketsOK, GateOK, HeldOK
<1> QED
  BY <1>1, <1>2, <1>3, <1>4, <1>5, <1>6

\* Losing a run, by an error or by dropping it: its reservations are released,
\* a spawned write of it goes on.
LEMMA LosingPreserves ==
  ASSUME IInv, Active, LoseRun
  PROVE  IInv'
<1> USE DEF LoseRun, log, queue, run, Free, Owned, Futures, Phases, Up, Active,
            LogPending, InFlight
<1>1. FlagsOK'
  BY Zenon DEF FlagsOK, TypeOK, IInv
<1> QED
  BY <1>1, SMTT(30) DEF IInv, TypeOK, QueueMatchesLog, NeverBoth, ReservedByRun, RunOwnsOperation,
            LogOK, TicketsOK, GateOK, HeldOK

\* A crash, and the stages of the restart after it.
LEMMA CrashPreserves ==
  ASSUME IInv, Crash \/ Restart \/ RecoverInterrupted \/ EndCreate
  PROVE  IInv'
<1> USE KindAssumption, ModeAssumption
        DEF log, queue, run, Free, Holder, Owned, Futures, Phases, Kind, Up, Active,
               LogPending, InFlight, PendingContext
<1>1. CASE Crash
  <2>1. FlagsOK'
    BY <1>1, Zenon DEF Crash, FlagsOK, TypeOK, IInv
  <2> QED
    BY <1>1, <2>1, SMTT(30) DEF Crash, IInv, TypeOK, QueueMatchesLog, NeverBoth, ReservedByRun, RunOwnsOperation,
               LogOK, TicketsOK, GateOK, HeldOK
<1>2. CASE Restart
  <2>1. FlagsOK'
    BY <1>2, Zenon DEF Restart, FlagsOK, TypeOK, IInv
  <2> QED
    BY <1>2, <2>1, SMTT(30) DEF Restart, IInv, TypeOK, QueueMatchesLog, NeverBoth, ReservedByRun, RunOwnsOperation,
               LogOK, TicketsOK, GateOK, HeldOK
<1>3. CASE RecoverInterrupted
  <2>1. FlagsOK'
    BY <1>3, Zenon DEF RecoverInterrupted, FlagsOK, TypeOK, IInv
  <2> QED
    BY <1>3, <2>1, SMTT(30) DEF RecoverInterrupted, IInv, TypeOK, QueueMatchesLog, NeverBoth, ReservedByRun, RunOwnsOperation,
               LogOK, TicketsOK, GateOK, HeldOK
<1>4. CASE EndCreate
  BY <1>4, SMTT(30) DEF EndCreate, FlagsOK, IInv, TypeOK, QueueMatchesLog, NeverBoth, ReservedByRun, RunOwnsOperation,
               LogOK, TicketsOK, GateOK, HeldOK
<1> QED
  BY <1>1, <1>2, <1>3, <1>4

LEMMA NextPreservesIInv == IInv /\ [Next]_vars => IInv'
<1> SUFFICES ASSUME IInv, [Next]_vars PROVE IInv'
  OBVIOUS
<1>1. CASE RunErrs
  BY <1>1, LosingPreserves DEF RunErrs, Active
<1>2. CASE AbandonRun
  BY <1>2, LosingPreserves DEF AbandonRun
<1>3. CASE UNCHANGED vars
  BY <1>3 DEF vars, log, queue, run, IInv, TypeOK, FlagsOK, QueueMatchesLog, NeverBoth,
              ReservedByRun, RunOwnsOperation, LogOK, TicketsOK, GateOK, HeldOK,
              Up, Active, LogPending, InFlight
<1> QED
  BY <1>1, <1>2, <1>3, ClientsPreserve, AdmissionPreserves, LoopPreserves,
     FlushPreserves, CrashPreserves
  DEF Next, ClientStep, HarnessStep, OutcomeStep, FailureStep

\* The inductive invariant holds in every reachable state of every lane.
THEOREM Invariance == Spec => []IInv
  BY InitiallyIInv, NextPreservesIInv, PTL DEF Spec

\* Every variable keeps its type (TypeOK).
THEOREM TypeCorrect == Spec => []TypeOK
<1>1. IInv => TypeOK
  BY DEF IInv
<1> QED
  BY <1>1, Invariance, PTL

\* The queues in memory are the ones a restart would rebuild from the log, so
\* no interleaving loses a queued message or brings a consumed one back.
THEOREM QueuesMatchTheLog == Spec => []QueueMatchesLog
<1>1. IInv => QueueMatchesLog
  BY DEF IInv
<1> QED
  BY <1>1, Invariance, PTL

\* No message is both handed back to its sender and in the transcript.
THEOREM HandedBackOrDelivered == Spec => []NeverBoth
<1>1. IInv => NeverBoth
  BY DEF IInv
<1> QED
  BY <1>1, Invariance, PTL

\* No reservation outlives its run, and none hides a message already gone.
THEOREM ReservationsEndWithTheRun == Spec => []ReservedByRun
<1>1. IInv => ReservedByRun
  BY DEF IInv
<1> QED
  BY <1>1, Invariance, PTL

\* An operation of a live run is open exactly while that run is between its
\* durable start and its durable end.
THEOREM OperationsHaveARun == Spec => []RunOwnsOperation
<1>1. IInv => RunOwnsOperation
  BY DEF IInv
<1> QED
  BY <1>1, Invariance, PTL

(***************************************************************************)
(* The steps that write to the log; every other step leaves it alone.      *)
(***************************************************************************)
Writes == \/ EndAppend \/ FlushOne \/ StartOperation \/ CommitHeld
          \/ \E m \in Msg : Enqueue(m) \/ EnqueueContext(m) \/ CancelQueued(m)
          \/ ClearQueue \/ Abort

LEMMA OthersKeepTheLog == [Next]_vars => Writes \/ UNCHANGED <<seq, enq, entry, cancelled>>
<1> SUFFICES ASSUME [Next]_vars PROVE Writes \/ UNCHANGED <<seq, enq, entry, cancelled>>
  OBVIOUS
<1>1. CASE ClientStep
  BY <1>1 DEF ClientStep, Writes, BeginAppend, StartRun, ResumeRun, Admit, log
<1>2. CASE HarnessStep
  BY <1>2 DEF HarnessStep, Writes, log, PublishEnqueue, PublishCancel,
      ConfirmQueueEntry, EndFlush, RecoverInterrupted, EndCreate, ReserveNextRun,
      FinishInterrupted, PromptsDone, DrainSteering, AfterDrain, InjectDone,
      CallProvider, PassBoundary, DrainFollowUp, BeginFlush, CloseOperation,
      ReleaseRun, RunErrs, LoseRun
<1>3. CASE OutcomeStep
  BY <1>3 DEF OutcomeStep, log, ProviderAnswers, ProviderFails, Retry, GiveUp,
              StopAfterTurn
<1>4. CASE FailureStep
  BY <1>4 DEF FailureStep, log, FailAppend, BoundaryFails, AbandonRun, LoseRun, Crash,
              Restart
<1>5. CASE UNCHANGED vars
  BY <1>5 DEF vars, log
<1> QED
  BY <1>1, <1>2, <1>3, <1>4, <1>5 DEF Next

(***************************************************************************)
(* What a step may do to the transcript.                                   *)
(***************************************************************************)

\* A queued message becomes an entry only inside the operation of a live run,
\* and context only where no request or tool batch is under way.
THEOREM EntriesInPlace == Spec => EntriesLandInPlace
<1> DEFINE InPlace == \A m \in Msg : entry'[m] # entry[m] =>
          IF KindOf[m] = "context"
          THEN phase \in {"idle", "flushing", "boundary", "settling", "closing", "ended"}
          ELSE op' = "mine"
<1>1. IInv /\ [Next]_vars => InPlace
  <2> SUFFICES ASSUME IInv, [Next]_vars PROVE InPlace
    OBVIOUS
  <2>1. CASE EndAppend
    BY <2>1 DEF EndAppend, WriteEntry, IInv, TypeOK, GateOK
  <2>2. CASE FlushOne
    <3>1. phase \in {"idle", "flushing", "boundary", "settling", "closing", "ended"}
      BY <2>2 DEF FlushOne, Futures, IInv, GateOK
    <3>2. PICK m \in Oldest(PendingContext, enq) : WriteEntry(m)
      BY <2>2 DEF FlushOne
    <3>3. m \in Msg /\ KindOf[m] = "context"
      BY DEF Oldest, PendingContext
    <3> QED
      BY <3>1, <3>2, <3>3 DEF WriteEntry, IInv, TypeOK
  <2>3. CASE StartOperation
    BY <2>3 DEF StartOperation, IInv, TypeOK, GateOK, ReservedByRun, HeldOK, TicketsOK,
                Oldest, WriteEntry
  <2>4. CASE CommitHeld
    <3>1. op = "mine" /\ op' = op
      BY <2>4 DEF CommitHeld, IInv, RunOwnsOperation
    <3>2. PICK m \in Oldest(held, mem) : WriteEntry(m)
      BY <2>4 DEF CommitHeld
    <3>3. m \in Msg /\ KindOf[m] # "context"
      BY DEF Oldest, IInv, TypeOK, HeldOK, TicketsOK
    <3> QED
      BY <3>1, <3>2, <3>3 DEF WriteEntry, IInv, TypeOK
  <2>5. CASE UNCHANGED entry
    BY <2>5
  <2> QED
    BY <2>1, <2>2, <2>3, <2>4, <2>5, OthersKeepTheLog
    DEF Writes, Enqueue, EnqueueContext, WriteEnqueued, CancelQueued, ClearQueue, Abort,
        WriteCancellations, log
<1>2. [][InPlace]_vars => EntriesLandInPlace
  BY PTL DEF EntriesLandInPlace
<1> QED
  BY <1>1, <1>2, Invariance, PTL DEF Spec

(***************************************************************************)
(* The promise of MessageDelivery.                                         *)
(***************************************************************************)

\* A held message that is still to be committed heads its queue: everything
\* of its kind that waits was accepted after it.
LEMMA HeldComesFirst ==
  ASSUME IInv, gate = Free, Active, NEW m \in Oldest(held, mem)
  PROVE  /\ m \in Msg /\ LogPending(m)
         /\ \A n \in Msg : KindOf[n] = KindOf[m] /\ LogPending(n) => enq[m] <= enq[n]
<1>1. /\ m \in held /\ m \in Msg /\ mem[m] > 0 /\ KindOf[m] # "context"
      /\ LogPending(m)
  BY DEF Oldest, IInv, TypeOK, HeldOK, TicketsOK, ReservedByRun, InFlight, Free
<1>2. ASSUME NEW n \in Msg, KindOf[n] = KindOf[m], LogPending(n)
      PROVE  enq[m] <= enq[n]
  <2>1. mem[n] > 0
    BY <1>1, <1>2 DEF IInv, QueueMatchesLog, Up, Active, InFlight, Free
  <2>2. mem[m] <= mem[n]
    BY <1>1, <1>2, <2>1 DEF IInv, TypeOK, HeldOK, Oldest
  <2> QED
    BY <1>1, <2>1, <2>2 DEF IInv, TypeOK, QueueMatchesLog, Up, Active
<1> QED
  BY <1>1, <1>2

LEMMA CommitDelivers ==
  ASSUME IInv, gate = Free, Active, NEW m \in Oldest(held, mem),
         WriteEntry(m), UNCHANGED <<enq, cancelled>>
  PROVE  Delivery!Next
<1>1. /\ m \in Msg /\ LogPending(m)
      /\ \A n \in Msg : KindOf[n] = KindOf[m] /\ LogPending(n) => enq[m] <= enq[n]
  BY HeldComesFirst
<1>2. Delivery!Deliver(m)
  BY <1>1 DEF Delivery!Deliver, Delivery!Waiting, Delivery!Ahead, LogPending,
              WriteEntry, IInv, TypeOK
<1> QED
  BY <1>1, <1>2 DEF Delivery!Next

LEMMA FlushDelivers == IInv /\ FlushOne => Delivery!Next
<1> SUFFICES ASSUME IInv, FlushOne PROVE Delivery!Next
  OBVIOUS
<1>1. PICK m \in Oldest(PendingContext, enq) : WriteEntry(m)
  BY DEF FlushOne
<1>2. /\ m \in Msg /\ KindOf[m] = "context" /\ LogPending(m)
      /\ \A n \in Msg : KindOf[n] = "context" /\ LogPending(n) => enq[m] <= enq[n]
  BY DEF Oldest, PendingContext
<1>3. Delivery!Waiting(m)
  BY <1>2 DEF LogPending, Delivery!Waiting
<1>4. Delivery!Ahead(m) = {}
  BY <1>2 DEF LogPending, Delivery!Waiting, Delivery!Ahead, IInv, TypeOK
<1>5. Delivery!Deliver(m)
  BY <1>1, <1>3, <1>4 DEF FlushOne, WriteEntry, Delivery!Deliver
<1> QED
  BY <1>2, <1>5 DEF Delivery!Next

LEMMA AppendDelivers == IInv /\ EndAppend => Delivery!Next
<1> SUFFICES ASSUME IInv, EndAppend PROVE Delivery!Next
  OBVIOUS
<1>1. PICK m \in gate.msgs : WriteEntry(m)
  BY DEF EndAppend
<1>2. m \in Msg /\ KindOf[m] = "context" /\ enq[m] = 0 /\ entry[m] = 0
  BY DEF EndAppend, IInv, TypeOK, GateOK
<1>3. Delivery!DeliverAtOnce(m)
  BY <1>1, <1>2 DEF EndAppend, WriteEntry, PendingContext, LogPending,
                    Delivery!DeliverAtOnce, Delivery!Waiting
<1> QED
  BY <1>2, <1>3 DEF Delivery!Next

\* Cancelling a set of messages that wait in memory withdraws them.
LEMMA CancelWithdraws ==
  ASSUME IInv, gate = Free, NEW S \in SUBSET Msg, S # {},
         \A m \in S : mem[m] > 0, WriteCancellations(S)
  PROVE  Delivery!Next
<1>1. Delivery!Withdraw(S)
  BY DEF WriteCancellations, LogPending, IInv, TicketsOK,
         Delivery!Withdraw, Delivery!Waiting
<1> QED
  BY <1>1 DEF Delivery!Next

LEMMA StepImplements == IInv /\ [Next]_vars => [Delivery!Next]_(Delivery!vars)
<1> SUFFICES ASSUME IInv, [Next]_vars PROVE [Delivery!Next]_(Delivery!vars)
  OBVIOUS
<1>1. ASSUME NEW m \in Msg, Enqueue(m) PROVE Delivery!Next
  <2>1. entry[m] = 0
    BY <1>1 DEF Enqueue, IInv, TypeOK, LogOK
  <2>2. Delivery!Accept(m)
    BY <1>1, <2>1 DEF Enqueue, WriteEnqueued, Delivery!Accept
  <2> QED
    BY <2>2 DEF Delivery!Next
<1>2. ASSUME NEW m \in Msg, EnqueueContext(m) PROVE Delivery!Next
  <2>1. Delivery!Accept(m)
    BY <1>2 DEF EnqueueContext, WriteEnqueued, Delivery!Accept
  <2> QED
    BY <2>1 DEF Delivery!Next
<1>3. ASSUME NEW m \in Msg, CancelQueued(m) PROVE Delivery!Next
  BY <1>3, CancelWithdraws DEF CancelQueued
<1>4. Clearable \subseteq {m \in Msg : mem[m] > 0}
  BY DEF Clearable, Ready
<1>5. CASE ClearQueue
  BY <1>4, <1>5, CancelWithdraws DEF ClearQueue
<1>6. CASE Abort
  <2>1. CASE UNCHANGED <<log, gate>>
    BY <2>1 DEF log, Delivery!vars
  <2>2. CASE Clearable # {} /\ WriteCancellations(Clearable)
    BY <1>4, <1>6, <2>2, CancelWithdraws DEF Abort
  <2> QED
    BY <1>6, <2>1, <2>2 DEF Abort
<1>7. CASE StartOperation
  <2>1. CASE held = {} /\ UNCHANGED <<seq, entry, gate>>
    BY <1>7, <2>1 DEF StartOperation, Delivery!vars
  <2>2. CASE \E m \in Oldest(held, mem) : WriteEntry(m)
    BY <1>7, <2>2, CommitDelivers DEF StartOperation, Active
  <2> QED
    BY <1>7, <2>1, <2>2 DEF StartOperation
<1>8. CASE CommitHeld
  BY <1>8, CommitDelivers DEF CommitHeld, Active
<1>9. CASE UNCHANGED <<seq, enq, entry, cancelled>>
  BY <1>9 DEF Delivery!vars
<1> QED
  BY <1>1, <1>2, <1>3, <1>5, <1>6, <1>7, <1>8, <1>9, FlushDelivers, AppendDelivers,
     OthersKeepTheLog
  DEF Writes

\* The lane keeps MessageDelivery's promise: each accepted message is delivered
\* at most once and in order among its kind, or withdrawn, across every
\* interleaving, lost run and crash.
THEOREM Implementation == Spec => ImplementsDelivery
<1>1. Init => Delivery!Init
  BY DEF Init, Delivery!Init
<1> QED
  BY <1>1, StepImplements, Invariance, PTL DEF Spec, ImplementsDelivery, Delivery!Spec
==============================================================================
