--------------------------- MODULE RpcLoopProofs ---------------------------
(***************************************************************************)
(* The safety properties of RpcLoop for every number of runs, aborts,      *)
(* commits and requests.  Three inductive invariants, each with its own    *)
(* use: Attended (a future, an admitted run and an open request belong to  *)
(* a task that waits for them), Staged (how far the current run is in the  *)
(* log and on the event bus) and the types with the gate's queue.          *)
(***************************************************************************)
EXTENDS RpcLoop, TLAPS

Waiting == {"run", "abort", "await"}

(* Whatever the harness holds, a task that has not returned waits for it.  *)
Attended ==
  /\ ~ active => task \in {"none", "done"}
  /\ harness # "none" => task \in Waiting
  /\ harness \in {"work", "tool", "close", "hold"} => admitted
  /\ harness \in {"want", "take"} /\ why # "admit" => admitted
  /\ admitted => harness \notin {"none", "ended"}
  /\ request => \/ harness \in {"tool", "close"}
                \/ harness \in {"want", "take"} /\ why = "abort"

LEMMA InitiallyAttended == Init => Attended
  BY DEF Init, Attended, Waiting

LEMMA ReaderAttended == ASSUME Attended, ReadPrompt \/ ReadAbort \/ ReadStop \/ ReadEof \/ BreakPipe \/ ReaderStep
  PROVE Attended'
<1> USE DEF Attended, Waiting, loop, slot, lane, bounds
<1>1. CASE ReadPrompt
  BY <1>1 DEF ReadPrompt
<1>2. CASE ReadAbort \/ ReadStop \/ ReadEof \/ BreakPipe
  BY <1>2 DEF ReadAbort, ReadStop, ReadEof, BreakPipe
<1>3. CASE AnswerAbort \/ AnswerStop \/ NoticeFailure \/ Leave
  BY <1>3 DEF AnswerAbort, AnswerStop, NoticeFailure, Leave
<1>4. CASE LeaveAborted \/ JoinFails \/ Joined \/ Exit
  BY <1>4 DEF LeaveAborted, JoinFails, Joined, Exit
<1> QED
  BY <1>1, <1>2, <1>3, <1>4 DEF ReaderStep

LEMMA TaskAttended == ASSUME Attended, TaskStep PROVE Attended'
<1> USE DEF Attended, Waiting, loop, slot, lane, bounds
<1>1. CASE Reject \/ FreeSlot
  BY <1>1 DEF Reject, FreeSlot, GiveSlot
<1>2. CASE Accept \/ Notice
  BY <1>2 DEF Accept, Notice
<1>3. CASE Begin
  BY <1>3 DEF Begin, Want
<1>4. CASE TaskAborts
  BY <1>4 DEF TaskAborts, AbortAndAwait, DropFuture
<1>5. CASE Return
  BY <1>5 DEF Return, Polled
<1>6. CASE Flush \/ Settle
  BY <1>6 DEF Flush, Settle, Drain
<1> QED
  BY <1>1, <1>2, <1>3, <1>4, <1>5, <1>6 DEF TaskStep

LEMMA HarnessAttended == ASSUME Attended, HarnessStep PROVE Attended'
<1> USE DEF Attended, Waiting, loop, slot, lane, bounds, Polled, Reached
<1>1. CASE Admit
  BY <1>1 DEF Admit
<1>2. CASE TakeGate
  BY <1>2 DEF TakeGate
<1>3. CASE Written
  BY <1>3 DEF Written
<1>4. CASE CommitMessage
  BY <1>4 DEF CommitMessage, Want
<1>5. CASE OpenRequest
  BY <1>5 DEF OpenRequest, Want
<1>6. CASE LoseRequest \/ CloseRequest
  BY <1>6 DEF LoseRequest, CloseRequest, Want
<1>7. CASE AbortRoot
  BY <1>7 DEF AbortRoot
<1>8. CASE Finish
  BY <1>8 DEF Finish, Want
<1> QED
  BY <1>1, <1>2, <1>3, <1>4, <1>5, <1>6, <1>7, <1>8 DEF HarnessStep

LEMMA StepAttended == ASSUME Attended, [Next]_vars PROVE Attended'
<1>1. CASE PumpForwards \/ OtherQueues \/ OtherWritten
  BY <1>1 DEF Attended, PumpForwards, OtherQueues, OtherWritten, loop, slot, lane, bounds
<1>2. CASE UNCHANGED vars
  BY <1>2 DEF Attended, vars, loop, slot, lane, bounds
<1> QED
  BY <1>1, <1>2, ReaderAttended, TaskAttended, HarnessAttended DEF Next

(* NothingLeftBehind, for every bound: whatever an abort raced, the        *)
(* harness runs nothing once the task that owns the slot has its result.   *)
THEOREM NothingIsLeftBehind == Spec => []NothingLeftBehind
<1>1. Attended => NothingLeftBehind
  BY DEF Attended, NothingLeftBehind, Waiting
<1> QED
  BY <1>1, InitiallyAttended, StepAttended, PTL DEF Spec

----------------------------------------------------------------------------
(* How far the current run has got in the log. *)
Closing == why = "finish" /\ task \in Waiting

Stage ==
  IF task \in {"none", "validate"} THEN 0
  ELSE IF task = "accepted" THEN 1
  ELSE IF task \in Waiting THEN IF why = "finish" /\ bus = <<>> THEN 2 ELSE 1
  ELSE IF task = "flush" THEN IF bus = <<>> THEN 2 ELSE 1
  ELSE IF task = "settle" THEN 2 ELSE 3

Tasks == {"none", "validate", "accepted", "run", "abort", "await", "flush", "settle",
          "free", "done"}

LineType == [type : {"accepted", "event", "settled"}, run : Nat]

(* The log is in order and has nothing of a later stage; the one event on  *)
(* the bus is the current run's last.                                      *)
Staged ==
  /\ task \in Tasks /\ run \in Nat
  /\ log \in Seq(LineType)
  /\ \/ bus = <<>>
     \/ bus = <<Line("event", run)>> /\ (Closing \/ task = "flush")
  /\ harness \in {"work", "tool", "close"} => why # "finish"
  /\ reader \in {"pump", "exited"} => task \in {"none", "done"}
  /\ \A i \in DOMAIN log :
       \/ log[i].run < run
       \/ log[i].run = run /\ Rank[log[i].type] <= Stage
  /\ RunsInOrder

LEMMA LogLines ==
  ASSUME Staged
  PROVE  \A i \in DOMAIN log : /\ log[i] \in LineType /\ log[i].run \in Nat
                               /\ log[i].type \in {"accepted", "event", "settled"}
                               /\ Rank[log[i].type] \in Nat
<1>1. log \in Seq(LineType)
  BY DEF Staged
<1>2. \A i \in DOMAIN log : log[i] \in LineType
  BY <1>1
<1> QED
  BY <1>2 DEF LineType, Rank

(* A line of the current run that is of a later stage keeps the order.     *)
LEMMA NextLine ==
  ASSUME Staged, NEW type \in {"accepted", "event", "settled"}, Stage < Rank[type],
         Write(<<Line(type, run)>>)
  PROVE  /\ log' \in Seq(LineType)
         /\ RunsInOrder'
         /\ \A i \in DOMAIN log' :
              \/ log'[i].run < run
              \/ log'[i].run = run /\ Rank[log'[i].type] <= Rank[type]
<1> DEFINE line == [type |-> type, run |-> run]
<1>1. /\ log \in Seq(LineType) /\ run \in Nat /\ line \in LineType
      /\ line.run = run /\ line.type = type
  BY DEF Staged, LineType
<1>2. \A t \in {"accepted", "event", "settled"} : Rank[t] \in Nat
  BY DEF Rank
<1>3. Stage \in Nat
  BY DEF Stage
<1>4. \A i \in DOMAIN log :
        /\ log[i] \in LineType
        /\ \/ log[i].run < run
           \/ log[i].run = run /\ Rank[log[i].type] < Rank[type]
  BY <1>2, <1>3, LogLines DEF Staged
<1>5. CASE log' = log
  BY <1>1, <1>2, <1>4, <1>5, SMTT(30) DEF Staged, RunsInOrder, LineType
<1>6. CASE log' = log \o <<line>>
  <2>1. /\ log' \in Seq(LineType) /\ Len(log') = Len(log) + 1
        /\ log'[Len(log) + 1] = line
        /\ \A i \in 1..Len(log) : log'[i] = log[i]
    BY <1>1, <1>6
  <2>2. DOMAIN log = 1..Len(log) /\ DOMAIN log' = 1..(Len(log) + 1) /\ Len(log) \in Nat
    BY <1>1, <2>1
  <2>3. RunsInOrder'
    <3> SUFFICES ASSUME NEW i \in 1..(Len(log) + 1), NEW j \in 1..(Len(log) + 1), i < j
                 PROVE  \/ log'[i].run < log'[j].run
                        \/ /\ log'[i].run = log'[j].run
                           /\ Rank[log'[i].type] < Rank[log'[j].type]
      BY <2>2 DEF RunsInOrder
    <3>1. CASE j = Len(log) + 1
      <4>1. i \in DOMAIN log /\ log'[i] = log[i] /\ log'[j] = line
        BY <2>1, <2>2, <3>1
      <4> QED
        BY <1>1, <1>4, <4>1
    <3>2. CASE j \in 1..Len(log)
      <4>1. /\ i \in DOMAIN log /\ j \in DOMAIN log
            /\ log'[i] = log[i] /\ log'[j] = log[j]
        BY <2>1, <2>2, <3>2
      <4>2. RunsInOrder
        BY DEF Staged
      <4> QED
        BY <4>1, <4>2 DEF RunsInOrder
    <3> QED
      BY <2>2, <3>1, <3>2
  <2>4. \A i \in DOMAIN log' :
          \/ log'[i].run < run
          \/ log'[i].run = run /\ Rank[log'[i].type] <= Rank[type]
    <3> SUFFICES ASSUME NEW i \in 1..(Len(log) + 1)
                 PROVE  \/ log'[i].run < run
                        \/ log'[i].run = run /\ Rank[log'[i].type] <= Rank[type]
      BY <2>2
    <3>1. CASE i = Len(log) + 1
      BY <1>1, <1>2, <2>1, <3>1
    <3>2. CASE i \in DOMAIN log
      <4>1. log'[i] = log[i] /\ log[i].type \in {"accepted", "event", "settled"}
        BY <1>4, <2>1, <2>2, <3>2 DEF LineType
      <4> QED
        BY <1>2, <1>4, <3>2, <4>1
    <3> QED
      BY <2>2, <3>1, <3>2
  <2> QED
    BY <2>1, <2>3, <2>4
<1>7. \A i \in DOMAIN log : Rank[log[i].type] <= Rank[type] \/ log[i].run < run
  BY <1>2, <1>4 DEF LineType
<1>8. log' = log \/ log' = log \o <<line>>
  BY DEF Write, Line
<1> HIDE DEF line
<1>9. CASE log' = log
  BY <1>1, <1>4, <1>5, <1>7, <1>9
<1> QED
  BY <1>6, <1>8, <1>9

(* A step that writes nothing, of the same run, and is not set back.       *)
LEMMA NoLine ==
  ASSUME Staged, log' = log, run' = run, task' \in Tasks, Stage <= Stage',
         \/ bus' = <<>>
         \/ bus' = <<Line("event", run)>> /\ (Closing' \/ task' = "flush"),
         harness' \in {"work", "tool", "close"} => why' # "finish",
         reader' \in {"pump", "exited"} => task' \in {"none", "done"}
  PROVE  Staged'
<1>1. Stage \in Nat /\ Stage' \in Nat
  BY DEF Stage
<1> QED
  BY <1>1, LogLines DEF Staged, RunsInOrder, Line

LEMMA InitiallyStaged == Init => Staged
  BY DEF Init, Staged, Tasks, Stage, Closing, RunsInOrder, Waiting

LEMMA ReaderStaged ==
  ASSUME Staged, Attended,
         ReadPrompt \/ ReadAbort \/ ReadStop \/ ReadEof \/ BreakPipe \/ ReaderStep
  PROVE  Staged'
<1> USE DEF loop, slot, lane, bounds
<1>1. CASE ReadPrompt
  <2>1. /\ task \in {"none", "done"} /\ bus = <<>> /\ harness = "none" /\ reader' = "read"
        /\ log' = log /\ run' = run + 1 /\ bus' = bus /\ harness' = harness
        /\ task' = "validate" /\ run \in Nat
    BY <1>1 DEF ReadPrompt, Staged, Attended, Closing, Waiting
  <2>2. \A i \in DOMAIN log : log[i].run \in Nat /\ log[i].run <= run
    BY <2>1, LogLines DEF Staged
  <2>3. RunsInOrder'
    BY <2>1 DEF Staged, RunsInOrder
  <2>4. run' \in Nat /\ \A i \in DOMAIN log' : log'[i].run < run'
    BY <2>1, <2>2
  <2> QED
    BY <2>1, <2>2, <2>3, <2>4 DEF Staged, Tasks, Closing
<1>2. CASE ReadAbort \/ ReadStop \/ ReadEof \/ BreakPipe \/ AnswerAbort \/ AnswerStop
           \/ NoticeFailure \/ Leave \/ LeaveAborted \/ JoinFails \/ Joined
  <2>1. /\ UNCHANGED <<log, run, task, bus, harness, why>>
        /\ reader' \in {"pump", "exited"} =>
             reader \in {"pump", "exited"} \/ task \in {"none", "done"}
    BY <1>2 DEF RunOver, ReadAbort, ReadStop, ReadEof, BreakPipe, AnswerAbort, AnswerStop, NoticeFailure,
                Leave, LeaveAborted, JoinFails, Joined
  <2>2. Stage \in Nat /\ Stage' = Stage /\ Closing' = Closing
    BY <2>1 DEF Stage, Closing
  <2> QED
    BY <2>1, <2>2, NoLine DEF Staged
<1>3. CASE Exit
  <2>1. /\ UNCHANGED <<run, task, harness, why>> /\ bus' = <<>>
        /\ task \in {"none", "done"} /\ bus = <<>>
        /\ log' = log \/ log' = log \o <<>>
    BY <1>3 DEF Exit, Write, Staged, Closing, Waiting
  <2>2. log' = log
    BY <2>1 DEF Staged
  <2>3. Stage \in Nat /\ Stage' = Stage
    BY <2>1 DEF Stage
  <2> QED
    BY <2>1, <2>2, <2>3, NoLine DEF Staged
<1> QED
  BY <1>1, <1>2, <1>3 DEF ReaderStep

LEMMA TaskStaged == ASSUME Staged, Attended, TaskStep PROVE Staged'
<1> USE DEF loop, slot, lane, bounds
<1>0. /\ bus # <<>> => task \in Waiting \cup {"flush"}
      /\ Stage \in Nat /\ Stage' \in Nat
      /\ reader \in {"pump", "exited"} => task \in {"none", "done"}
  BY DEF Staged, Closing, Stage
<1>1. CASE Reject \/ Begin \/ Notice \/ TaskAborts \/ Return \/ FreeSlot
  <2>1. UNCHANGED <<log, run, bus, reader>>
    BY <1>1 DEF Reject, Begin, Notice, TaskAborts, Return, FreeSlot
  <2>2. /\ task' \in Tasks /\ task \notin {"none", "done"}
        /\ Stage <= Stage'
    BY <1>0, <1>1, <2>1 DEF Reject, FreeSlot, GiveSlot, Begin, Want, Notice, TaskAborts, AbortAndAwait,
                 DropFuture, Return, Polled, Stage, Waiting, Tasks
  <2>3. bus # <<>> => Closing' \/ task' = "flush"
    BY <1>0, <1>1, <2>1 DEF Reject, FreeSlot, GiveSlot, Begin, Notice, TaskAborts, AbortAndAwait,
                      DropFuture, Return, Polled, Closing, Waiting, Staged
  <2>4. harness' \in {"work", "tool", "close"} => why' # "finish"
    BY <1>1 DEF Reject, FreeSlot, Begin, Want, Notice, TaskAborts, AbortAndAwait,
                DropFuture, Return, Staged
  <2> QED
    BY <1>0, <2>1, <2>2, <2>3, <2>4, NoLine DEF Staged
<1>2. CASE Accept
  <2>1. /\ task = "validate" /\ task' = "accepted" /\ Write(<<Line("accepted", run)>>)
        /\ UNCHANGED <<run, bus, reader, harness, why>>
    BY <1>2 DEF Accept
  <2>2. Stage < Rank["accepted"] /\ Stage' = Rank["accepted"] /\ bus = <<>>
    BY <1>0, <2>1 DEF Stage, Rank, Waiting
  <2> QED
    BY <1>0, <2>1, <2>2, NextLine DEF Staged, Tasks
<1>3. CASE Flush
  <2>1. /\ task = "flush" /\ task' = "settle" /\ Write(bus) /\ bus' = <<>>
        /\ UNCHANGED <<run, reader, harness, why>>
    BY <1>3 DEF Flush, Drain
  <2>2. CASE bus = <<>>
    <3>1. log' = log
      BY <2>1, <2>2 DEF Write, Staged
    <3>2. Stage <= Stage'
      BY <2>1, <2>2 DEF Stage, Waiting
    <3> QED
      BY <1>0, <2>1, <3>1, <3>2, NoLine DEF Staged, Tasks
  <2>3. CASE bus = <<Line("event", run)>>
    <3>1. Stage < Rank["event"] /\ Stage' = Rank["event"]
      BY <2>1, <2>3 DEF Stage, Rank, Waiting
    <3> QED
      BY <1>0, <2>1, <2>3, <3>1, NextLine DEF Staged, Tasks
  <2> QED
    BY <2>2, <2>3 DEF Staged
<1>4. CASE Settle
  <2>1. /\ task = "settle" /\ task' = "free" /\ Write(<<Line("settled", run)>>)
        /\ UNCHANGED <<run, bus, reader, harness, why>>
    BY <1>4 DEF Settle
  <2>2. Stage < Rank["settled"] /\ Stage' = Rank["settled"] /\ bus = <<>>
    BY <1>0, <2>1 DEF Stage, Rank, Waiting
  <2> QED
    BY <1>0, <2>1, <2>2, NextLine DEF Staged, Tasks
<1> QED
  BY <1>1, <1>2, <1>3, <1>4 DEF TaskStep

LEMMA HarnessStaged == ASSUME Staged, HarnessStep PROVE Staged'
<1> USE DEF loop, slot, lane, bounds
<1>0. /\ Stage \in Nat /\ Stage' \in Nat
      /\ reader \in {"pump", "exited"} => task \in {"none", "done"}
  BY DEF Staged, Stage
<1>1. /\ UNCHANGED <<log, run, task, reader>>
      /\ task \in {"run", "await"}
  BY DEF HarnessStep, Polled, Admit, TakeGate, Written, CommitMessage, OpenRequest, LoseRequest,
         CloseRequest, AbortRoot, Finish
<1>2. CASE Admit \/ TakeGate \/ Written \/ CommitMessage \/ OpenRequest \/ LoseRequest
           \/ CloseRequest \/ AbortRoot
  <2>1. /\ UNCHANGED bus
        /\ why = "finish" => why' = "finish"
        /\ harness' \in {"work", "tool", "close"} => why' # "finish"
    BY <1>2 DEF Admit, TakeGate, Written, CommitMessage, OpenRequest, LoseRequest, CloseRequest,
                AbortRoot, Want, Staged
  <2>2. Stage <= Stage' /\ (Closing => Closing')
    BY <1>1, <2>1 DEF Stage, Closing
  <2> QED
    BY <1>0, <1>1, <2>1, <2>2, NoLine DEF Staged
<1>3. CASE Finish
  <2>1. /\ bus' = Append(bus, Line("event", run)) /\ why' = "finish"
        /\ harness = "work" /\ harness' \in {"want", "take"}
    BY <1>3 DEF Finish, Want
  <2>2. bus = <<>> /\ why # "finish"
    BY <1>1, <2>1 DEF Staged, Closing
  <2>3. bus' = <<Line("event", run)>>
    BY <2>1, <2>2
  <2>4. Stage <= Stage' /\ Closing'
    BY <1>1, <2>1, <2>2, <2>3 DEF Stage, Closing, Waiting
  <2> QED
    BY <1>0, <1>1, <2>1, <2>3, <2>4, NoLine DEF Staged
<1> QED
  BY <1>2, <1>3 DEF HarnessStep

LEMMA StepStaged == ASSUME Staged, Attended, [Next]_vars PROVE Staged'
<1> USE DEF loop, slot, lane, bounds
<1>0. Stage \in Nat /\ Stage' \in Nat
  BY DEF Stage
<1>1. CASE PumpForwards
  <2>1. bus = <<Line("event", run)>> /\ (Closing \/ task = "flush")
    BY <1>1 DEF PumpForwards, Staged
  <2>2. /\ Write(<<Line("event", run)>>) /\ bus' = <<>>
        /\ UNCHANGED <<run, task, reader, harness, why>>
    BY <1>1, <2>1 DEF PumpForwards
  <2>3. Stage < Rank["event"] /\ Stage' = Rank["event"]
    BY <2>1, <2>2 DEF Stage, Rank, Closing, Waiting
  <2> QED
    BY <1>0, <2>1, <2>2, <2>3, NextLine DEF Staged, Tasks
<1>2. CASE OtherQueues \/ OtherWritten \/ UNCHANGED vars
  <2>1. UNCHANGED <<log, run, task, bus, reader, harness, why>>
    BY <1>2 DEF OtherQueues, OtherWritten, vars
  <2>2. Stage' = Stage /\ Closing' = Closing
    BY <2>1 DEF Stage, Closing
  <2> QED
    BY <1>0, <2>1, <2>2, NoLine DEF Staged
<1> QED
  BY <1>1, <1>2, ReaderStaged, TaskStaged, HarnessStaged DEF Next

(* RunsInOrder, for every bound: the pump, the run task and the reader     *)
(* never put a line of one run among or behind those of the next.          *)
THEOREM RunsAreInOrder == Spec => []RunsInOrder
<1>1. Staged => RunsInOrder
  BY DEF Staged
<1>2. Init => Staged /\ Attended
  BY InitiallyStaged, InitiallyAttended
<1>3. Staged /\ Attended /\ [Next]_vars => (Staged /\ Attended)'
  BY StepStaged, StepAttended
<1> QED
  BY <1>1, <1>2, <1>3, PTL DEF Spec

----------------------------------------------------------------------------
(* The gate's queue. *)

LEMMA JoinKeepsGate ==
  ASSUME gate \in Seq(Parties), GateInUse, NEW who \in Parties, Join(who),
         who = "other" \/ ~ AtGate(who),
         who = "prompt" => ~ AtGate("task"),
         harness' = "hold" => harness = "hold",
         \A w \in Parties : AtGate(w)' <=> AtGate(w) \/ w = who
  PROVE  gate' \in Seq(Parties) /\ GateInUse'
<1>1. /\ gate' \in Seq(Parties) /\ Len(gate') = Len(gate) + 1 /\ Len(gate) \in Nat
      /\ gate'[Len(gate) + 1] = who
      /\ \A i \in 1..Len(gate) : gate'[i] = gate[i]
      /\ DOMAIN gate = 1..Len(gate) /\ DOMAIN gate' = 1..(Len(gate) + 1)
  BY DEF Join
<1>2. \A i \in 1..Len(gate) : gate[i] \in Parties
  BY <1>1
<1>3. \A w \in Parties, i \in DOMAIN gate' : gate'[i] = w => AtGate(w)'
  BY <1>1 DEF GateInUse
<1>4. \A i \in 1..Len(gate) : gate[i] = who => who = "other"
  BY <1>1 DEF GateInUse
<1>5. \A i \in DOMAIN gate', j \in DOMAIN gate' :
        gate'[i] = gate'[j] => i = j \/ gate'[i] = "other"
  <2> SUFFICES ASSUME NEW i \in DOMAIN gate', NEW j \in DOMAIN gate', gate'[i] = gate'[j]
               PROVE  i = j \/ gate'[i] = "other"
    OBVIOUS
  <2>1. CASE i \in 1..Len(gate) /\ j \in 1..Len(gate)
    BY <1>1, <2>1 DEF GateInUse
  <2>2. CASE i = Len(gate) + 1 \/ j = Len(gate) + 1
    BY <1>1, <1>4, <2>2
  <2> QED
    BY <1>1, <2>1, <2>2
<1>6. \A w \in Parties \ {"other"} : AtGate(w)' => \E i \in DOMAIN gate' : gate'[i] = w
  <2> SUFFICES ASSUME NEW w \in Parties \ {"other"}, AtGate(w)'
               PROVE  \E i \in DOMAIN gate' : gate'[i] = w
    OBVIOUS
  <2>1. CASE w = who
    BY <1>1, <2>1
  <2>2. CASE w # who
    <3>1. PICK i \in DOMAIN gate : gate[i] = w
      BY <2>2 DEF GateInUse
    <3> QED
      BY <1>1, <3>1
  <2> QED
    BY <2>1, <2>2
<1>7. \A i \in DOMAIN gate', j \in DOMAIN gate' :
        gate'[i] = "prompt" /\ gate'[j] = "task" => i < j
  <2> SUFFICES ASSUME NEW i \in DOMAIN gate', NEW j \in DOMAIN gate',
                      gate'[i] = "prompt", gate'[j] = "task"
               PROVE  i < j
    OBVIOUS
  <2>1. CASE i \in 1..Len(gate) /\ j \in 1..Len(gate)
    BY <1>1, <2>1 DEF GateInUse
  <2>2. CASE i \in 1..Len(gate) /\ j = Len(gate) + 1
    BY <1>1, <2>2
  <2>3. CASE i = Len(gate) + 1
    <3>1. ~ AtGate("task")
      BY <1>1, <2>3
    <3>2. j \notin 1..Len(gate)
      BY <1>1, <3>1 DEF GateInUse, Parties
    <3> QED
      BY <1>1, <2>3, <3>2
  <2> QED
    BY <1>1, <2>1, <2>2, <2>3
<1>8. harness' = "hold" => Holds("prompt")'
  BY <1>1 DEF GateInUse, Holds
<1> QED
  BY <1>1, <1>3, <1>5, <1>6, <1>7, <1>8 DEF GateInUse

LEMMA ReleaseKeepsGate ==
  ASSUME gate \in Seq(Parties), GateInUse, NEW who \in Parties, Holds(who), Release,
         \A w \in Parties : AtGate(w)' <=> AtGate(w) /\ (w = who => w = "other"),
         harness' = "hold" => harness = "hold" /\ who # "prompt"
  PROVE  /\ gate' \in Seq(Parties) /\ GateInUse'
         /\ who = "task" => ~ AtGate("prompt")
<1>1. /\ gate' \in Seq(Parties) /\ Len(gate') = Len(gate) - 1 /\ Len(gate) \in Nat
      /\ Len(gate) > 0 /\ gate[1] = who
      /\ \A i \in 1..Len(gate') : gate'[i] = gate[i + 1]
      /\ DOMAIN gate = 1..Len(gate) /\ DOMAIN gate' = 1..Len(gate')
  BY DEF Holds, Release
<1>2. \A i \in DOMAIN gate' : /\ i + 1 \in DOMAIN gate /\ i + 1 # 1
                              /\ gate'[i] = gate[i + 1]
  BY <1>1
<1>3. \A w \in Parties, i \in DOMAIN gate' : gate'[i] = w => AtGate(w)'
  <2> SUFFICES ASSUME NEW i \in DOMAIN gate', NEW w \in Parties, gate'[i] = w PROVE AtGate(w)'
    OBVIOUS
  <2>1. AtGate(w) /\ gate[i + 1] = w
    BY <1>2 DEF GateInUse
  <2>2. w = who => w = "other"
    BY <1>1, <1>2, <2>1 DEF GateInUse
  <2> QED
    BY <2>1, <2>2
<1>4. \A i \in DOMAIN gate', j \in DOMAIN gate' :
        gate'[i] = gate'[j] => i = j \/ gate'[i] = "other"
  BY <1>1, <1>2 DEF GateInUse
<1>5. \A w \in Parties \ {"other"} : AtGate(w)' => \E i \in DOMAIN gate' : gate'[i] = w
  <2> SUFFICES ASSUME NEW w \in Parties \ {"other"}, AtGate(w)'
               PROVE  \E i \in DOMAIN gate' : gate'[i] = w
    OBVIOUS
  <2>1. PICK i \in DOMAIN gate : gate[i] = w
    BY DEF GateInUse
  <2>2. i # 1
    BY <1>1, <2>1
  <2>3. i - 1 \in DOMAIN gate' /\ gate'[i - 1] = gate[(i - 1) + 1] /\ (i - 1) + 1 = i
    BY <1>1, <2>2
  <2> QED
    BY <2>1, <2>3
<1>6. \A i \in DOMAIN gate', j \in DOMAIN gate' :
        gate'[i] = "prompt" /\ gate'[j] = "task" => i < j
  BY <1>1, <1>2 DEF GateInUse
<1>7. who = "task" => ~ AtGate("prompt")
  <2> SUFFICES ASSUME who = "task", AtGate("prompt") PROVE FALSE
    OBVIOUS
  <2>1. PICK i \in DOMAIN gate : gate[i] = "prompt"
    BY DEF GateInUse, Parties
  <2>2. i < 1
    BY <1>1, <2>1 DEF GateInUse
  <2> QED
    BY <1>1, <2>1, <2>2
<1>8. harness' # "hold"
  BY <1>1 DEF GateInUse, Holds
<1> QED
  BY <1>1, <1>3, <1>4, <1>5, <1>6, <1>7, <1>8 DEF GateInUse

LEMMA SameGate ==
  ASSUME gate \in Seq(Parties), GateInUse, gate' = gate, harness' = "hold" => Holds("prompt"),
         \A w \in Parties : AtGate(w)' <=> AtGate(w)
  PROVE  gate' \in Seq(Parties) /\ GateInUse'
  BY DEF GateInUse, Holds

LEMMA InitiallyTyped == Init => TypeOK
<1> SUFFICES ASSUME Init PROVE TypeOK
  OBVIOUS
<1>1. FlagsOK
  BY Zenon DEF Init, FlagsOK
<1>2. gate \in Seq(Parties) /\ GateInUse
  BY DEF Init, GateInUse, AtGate, Parties
<1> QED
  BY <1>1, <1>2 DEF Init, TypeOK

(* The flags, and where everybody is. *)
Places ==
  /\ reader \in {"read", "abort", "stop", "exit", "cancel", "join", "cancelJoin",
                 "joinLast", "pump", "exited"}
  /\ task \in Tasks
  /\ harness \in {"none", "want", "take", "hold", "work", "tool", "close", "ended"}
  /\ why \in {"none", "admit", "commit", "finish", "abort", "again"}

LEMMA StepFlags == ASSUME FlagsOK, [Next]_vars PROVE FlagsOK'
<1> USE DEF loop, slot, lane, bounds, FlagsOK
<1>1. CASE ReadPrompt \/ ReadAbort \/ ReadStop \/ ReadEof \/ BreakPipe
  BY <1>1, Zenon DEF ReadPrompt, ReadAbort, ReadStop, ReadEof, BreakPipe
<1>2. CASE ReaderStep
  BY <1>2, BoundAssumption, ZenonT(30) DEF ReaderStep, AnswerAbort, AnswerStop, NoticeFailure, Leave, LeaveAborted,
     JoinFails, Joined, Exit, AbortAndLeave, AbortLane
<1>3. CASE TaskStep
  BY <1>3, ZenonT(30) DEF TaskStep, Reject, Accept, Begin, Notice, TaskAborts, Return, Flush, Settle, FreeSlot,
     GiveSlot, AbortAndAwait, DropFuture, AbortAndLeave, AbortLane
<1>4. CASE HarnessStep
  BY <1>4, BoundAssumption, ZenonT(30)
  DEF HarnessStep, Admit, TakeGate, Written, CommitMessage, OpenRequest, LoseRequest, CloseRequest,
     AbortRoot, Finish, AbortAndLeave, AbortLane
<1>5. CASE PumpForwards \/ OtherQueues \/ OtherWritten \/ UNCHANGED vars
  BY <1>5, Zenon DEF PumpForwards, OtherQueues, OtherWritten, vars
<1> QED
  BY <1>1, <1>2, <1>3, <1>4, <1>5, Zenon DEF Next

LEMMA StepPlaces == ASSUME Places, [Next]_vars PROVE Places'
<1> USE DEF loop, slot, lane, bounds, Places, Tasks
<1>1. CASE ReadPrompt \/ ReadAbort \/ ReadStop \/ ReadEof \/ BreakPipe
  BY <1>1 DEF ReadPrompt, ReadAbort, ReadStop, ReadEof, BreakPipe
<1>2. CASE ReaderStep
  BY <1>2 DEF ReaderStep, AnswerAbort, AnswerStop, NoticeFailure, Leave, LeaveAborted,
     JoinFails, Joined, Exit
<1>3. CASE TaskStep
  BY <1>3 DEF TaskStep, Reject, Accept, Begin, Notice, TaskAborts, Return, Flush, Settle, FreeSlot,
     GiveSlot, AbortAndAwait, DropFuture, Drain, Want
<1>4. CASE HarnessStep
  BY <1>4 DEF HarnessStep, Admit, TakeGate, Written, CommitMessage, OpenRequest, LoseRequest,
     CloseRequest, AbortRoot, Finish, Want
<1>5. CASE PumpForwards \/ OtherQueues \/ OtherWritten \/ UNCHANGED vars
  BY <1>5 DEF PumpForwards, OtherQueues, OtherWritten, vars
<1> QED
  BY <1>1, <1>2, <1>3, <1>4, <1>5 DEF Next

LEMMA StepGate ==
  ASSUME gate \in Seq(Parties), GateInUse, Attended, [Next]_vars
  PROVE  gate' \in Seq(Parties) /\ GateInUse'
<1> USE DEF loop, slot, lane, bounds
<1>1. CASE ReadAbort \/ ReadStop \/ (Leave /\ cancelOnExit) \/ JoinFails
  <2>1. /\ Join("reader") /\ ~ AtGate("reader")
        /\ \A w \in Parties : AtGate(w)' <=> AtGate(w) \/ w = "reader"
        /\ harness' = harness
    BY <1>1 DEF ReadAbort, ReadStop, Leave, JoinFails, AtGate, Parties
  <2> QED
    BY <2>1, JoinKeepsGate DEF Parties
<1>2. CASE AnswerAbort \/ AnswerStop \/ LeaveAborted
  <2>1. /\ Holds("reader") /\ Release
        /\ \A w \in Parties : AtGate(w)' <=> AtGate(w) /\ (w = "reader" => w = "other")
        /\ harness' = harness
    BY <1>2 DEF AnswerAbort, AnswerStop, LeaveAborted, AbortAndLeave, AtGate, Parties
  <2> QED
    BY <2>1, ReleaseKeepsGate DEF Parties
<1>3. CASE ReadPrompt \/ ReadEof \/ BreakPipe \/ NoticeFailure \/ (Leave /\ ~ cancelOnExit)
           \/ Joined \/ Exit \/ PumpForwards \/ UNCHANGED vars
  <2>1. /\ gate' = gate /\ harness' = harness
        /\ \A w \in Parties : AtGate(w)' <=> AtGate(w)
    BY <1>3 DEF ReadPrompt, ReadEof, BreakPipe, NoticeFailure, Leave, Joined, Exit, PumpForwards,
                vars, AtGate, Attended
  <2> QED
    BY <2>1, SameGate DEF GateInUse
<1>4. CASE Reject \/ Accept \/ (Begin /\ cancel) \/ Return \/ Flush \/ Settle \/ FreeSlot
  <2>1. /\ gate' = gate /\ (harness' = harness \/ harness' = "none")
        /\ \A w \in Parties : AtGate(w)' <=> AtGate(w)
    BY <1>4 DEF Reject, Accept, Begin, Return, Flush, Drain, Settle, FreeSlot, GiveSlot, AtGate, Polled
  <2> QED
    BY <2>1, SameGate DEF GateInUse
<1>5. CASE Begin /\ ~ cancel
  <2>1. /\ Join("prompt") /\ ~ AtGate("prompt") /\ ~ AtGate("task")
        /\ \A w \in Parties : AtGate(w)' <=> AtGate(w) \/ w = "prompt"
        /\ harness' # "hold"
    BY <1>5 DEF Begin, Want, AtGate, Attended, Waiting
  <2> QED
    BY <2>1, JoinKeepsGate DEF Parties
<1>6. CASE Notice
  <2>1. /\ Join("task") /\ ~ AtGate("task")
        /\ \A w \in Parties : AtGate(w)' <=> AtGate(w) \/ w = "task"
        /\ harness' = harness
    BY <1>6 DEF Notice, AtGate
  <2> QED
    BY <2>1, JoinKeepsGate DEF Parties
<1>7. CASE TaskAborts
  <2>1. Holds("task") /\ Release
    BY <1>7 DEF TaskAborts, AbortAndAwait, AbortAndLeave
  <2>2. ~ AtGate("prompt")
    <3>1. PICK i \in DOMAIN gate : i = 1 /\ gate[i] = "task"
      BY <2>1 DEF Holds
    <3>2. SUFFICES ASSUME AtGate("prompt") PROVE FALSE
      OBVIOUS
    <3>3. PICK j \in DOMAIN gate : gate[j] = "prompt"
      BY <3>2 DEF GateInUse, Parties
    <3>4. j < i
      BY <3>1, <3>3 DEF GateInUse
    <3> QED
      BY <3>1, <3>4
  <2>3. /\ \A w \in Parties : AtGate(w)' <=> AtGate(w) /\ (w = "task" => w = "other")
        /\ harness' = harness \/ harness' = "none"
    BY <1>7, <2>2 DEF TaskAborts, AbortAndAwait, DropFuture, AtGate, Parties
  <2> QED
    BY <2>1, <2>3, ReleaseKeepsGate DEF Parties
<1>8. CASE Admit \/ Written \/ AbortRoot
  <2>1. /\ Release /\ harness' # "hold" /\ Holds("prompt")
        /\ \A w \in Parties : AtGate(w)' <=> AtGate(w) /\ (w = "prompt" => w = "other")
    BY <1>8 DEF Admit, Written, AbortRoot, Reached, AbortAndLeave, AtGate, Parties,
                GateInUse
  <2> QED
    BY <2>1, ReleaseKeepsGate DEF Parties
<1>9. CASE TakeGate
  <2>1. /\ gate' = gate /\ Holds("prompt")
        /\ \A w \in Parties : AtGate(w)' <=> AtGate(w)
    BY <1>9 DEF TakeGate, Reached, AtGate
  <2> QED
    BY <2>1, SameGate DEF GateInUse
<1>10. CASE CommitMessage \/ OpenRequest \/ LoseRequest \/ CloseRequest \/ Finish
  <2>1. /\ ~ AtGate("prompt") /\ ~ AtGate("task") /\ harness' # "hold"
        /\ \/ Join("prompt") /\ \A w \in Parties : AtGate(w)' <=> AtGate(w) \/ w = "prompt"
           \/ gate' = gate /\ \A w \in Parties : AtGate(w)' <=> AtGate(w)
    BY <1>10 DEF CommitMessage, OpenRequest, LoseRequest, CloseRequest, Finish, Want, Polled,
                 AtGate
  <2> QED
    BY <2>1, SameGate, JoinKeepsGate DEF Parties
<1>11. CASE OtherQueues
  <2>1. /\ Join("other") /\ harness' = harness
        /\ \A w \in Parties : AtGate(w)' <=> AtGate(w) \/ w = "other"
    BY <1>11 DEF OtherQueues, AtGate
  <2> QED
    BY <2>1, JoinKeepsGate DEF Parties
<1>12. CASE OtherWritten
  <2>1. /\ Holds("other") /\ Release
        /\ \A w \in Parties : AtGate(w)' <=> AtGate(w) /\ (w = "other" => w = "other")
        /\ harness' = harness
    BY <1>12 DEF OtherWritten, AtGate
  <2> QED
    BY <2>1, ReleaseKeepsGate DEF Parties
<1> QED
  BY <1>1, <1>2, <1>3, <1>4, <1>5, <1>6, <1>7, <1>8, <1>9, <1>10, <1>11, <1>12
  DEF Next, ReaderStep, TaskStep, HarnessStep

(* TypeOK, with the gate's queue, for every bound.                         *)
THEOREM TypesAreKept == Spec => []TypeOK
<1>1. TypeOK <=> Places /\ FlagsOK /\ gate \in Seq(Parties) /\ GateInUse
  BY DEF TypeOK, Places, Tasks
<1>2. Init => TypeOK /\ Attended
  BY InitiallyTyped, InitiallyAttended
<1>3. TypeOK /\ Attended /\ [Next]_vars => (TypeOK /\ Attended)'
  <2> SUFFICES ASSUME TypeOK, Attended, [Next]_vars PROVE TypeOK' /\ Attended'
    OBVIOUS
  <2>1. Places' /\ FlagsOK' /\ gate' \in Seq(Parties) /\ GateInUse'
    BY <1>1, StepPlaces, StepFlags, StepGate
  <2>2. TypeOK'
    BY <2>1 DEF TypeOK, Places, Tasks
  <2> QED
    BY <2>2, StepAttended
<1> QED
  BY <1>2, <1>3, PTL DEF Spec
=============================================================================
