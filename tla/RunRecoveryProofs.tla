--------------------------- MODULE RunRecoveryProofs ---------------------------
(***************************************************************************)
(* The safety properties of RunRecovery for any number of calls, turns,    *)
(* retries, resumes, prompts and faults, and the promise it implements.    *)
(***************************************************************************)
EXTENDS RunRecovery, FiniteSetTheorems, SequenceTheorems, WellFoundedInduction, TLAPS

Stages == {"todo", "ready", "started", "running", "ran", "blocked", "skipped"}

Flags ==
  /\ op \in [open : BOOLEAN, attempt : 0..MaxResumes]
  /\ {aborted, failed, late, terminated} \subseteq BOOLEAN

Shape ==
  /\ log \in Seq(Entry)
  /\ frames \in [Turns -> -1..Calls]
  /\ \E t \in 0..MaxTurns : bound = 1..t
  /\ cleared \subseteq bound
  /\ dropped \subseteq bound
  /\ retry \in 0..This + 1
  /\ started \subseteq ToolCall
  /\ k \in -1..Calls
  /\ st \in [CallNo -> Stages]
  /\ tries \in Nat
  /\ faults \in 0..MaxFaults
  /\ ran \in [ToolCall -> Nat]

Control ==
  /\ pc \in {"off", "ready"} \cup Recovering \cup Running
  /\ goal \in {"none", "open", "prompt", "resume", "fail"}
  /\ hurt \in {"none", "cut", "retry"}
  /\ stop \in {"none", "done", "tools", "retry", "error", "aborted"}
  /\ pc \in Recovering <=> goal # "none"
  /\ pc \in Running /\ pc # "turn" => bound # {} /\ k >= 0

(* What is left of the budget, wherever the count is on its way.           *)
Budget ==
  /\ offer \in -1..MaxResumes
  /\ attempt \in 0..MaxResumes
  /\ resumes \in 0..op.attempt
  /\ offer >= 0 => resumes <= offer
  /\ goal = "resume" => resumes < attempt /\ offer = -1
  /\ goal = "prompt" => attempt = 0

(* A stream whose message is in the log or was set aside; a stream with no *)
(* frame needs neither.                                                    *)
Kept(t) == Landed(t) \/ t \in dropped
Settled(t) == frames[t] >= 0 => Kept(t)

Streaming == pc \in {"stream", "ended"}

Failing == pc = "waiting" \/ (pc = "committed" /\ stop = "retry")

Once ==
  /\ \A i, j \in DOMAIN log : log[i].is = "assistant" /\ log[j].is = "assistant"
                                 /\ log[i].turn = log[j].turn => i = j
  /\ \A i \in DOMAIN log : log[i].is = "assistant" => log[i].turn \in bound

(* A stream that is not settled can still be found by a recovery, and an   *)
(* awaited retry is recorded behind settled streams only.                  *)
Settlement ==
  /\ \A t \in cleared : Settled(t)
  /\ Streaming => /\ This \in cleared => This \in dropped
                  /\ retry \in bound \cup {0} \/ This \in dropped
  /\ Failing => This \in dropped
  /\ Streaming \/ Failing => ~ Landed(This)
  /\ pc \in Running /\ ~ Streaming /\ k >= 0 => Kept(This)
  /\ pc \in Running => \A t \in bound : Settled(t) \/ (t = This /\ Streaming)
  /\ hurt = "retry" => pc \in Recovering
  /\ pc \notin Running /\ goal # "fail" => k = -1
  /\ \/ ~ op.open
     \/ hurt = "retry"
     \/ pc = "retired"
     \/ retry \notin bound \cup {0}
     => \A t \in bound : Settled(t)

(* The batch the log ends with, and the call it has yet to answer.         *)
InBatch == pc \in {"tools", "results"} \/ (pc = "committed" /\ stop = "tools")

Ending ==
  /\ ResultsInPlace
  /\ InBatch => Batch.is = "assistant" /\ Batch.turn = This /\ Batch.call = k /\ k > 0
  /\ pc = "ended" /\ stop = "tools" => k > 0
  /\ pc = "results" => Tip("result")
  /\ goal = "resume" /\ ~ late => ~ op.open /\ ~ Tip("assistant")
  /\ pc = "turn" \/ Streaming \/ Failing => ~ Tip("assistant") \/ late

Heard(c) == \E i \in DOMAIN log : log[i].is = "result" /\ log[i].turn = c[1] /\ log[i].call = c[2]

Untouched == st = [c \in CallNo |-> "todo"]

Batching ==
  /\ \A i \in DOMAIN log : log[i].is = "result" => log[i].says \in {"ran", "skipped", "unknown"}
  /\ started \subseteq Told
  /\ \A c \in ToolCall : ran[c] > 0 => c \in started
  /\ pc \in {"off", "ready", "retired", "stream"} => Untouched
  /\ pc \in {"ended", "committed"} /\ stop = "tools" => Untouched
  /\ pc = "committed" /\ stop = "tools" => \A c \in CallNo : <<This, c>> \notin started
  /\ InBatch /\ pc # "results" => Answered(This) = {}
  /\ pc = "results" => BatchOver
  /\ pc \in {"tools", "results"} =>
       /\ \A c \in Reached, d \in Batched : d < c => d \in Reached
       /\ \A c \in CallNo :
            /\ st[c] # "todo" => c \in Batched
            /\ st[c] \in {"started", "running", "ran"} => <<This, c>> \in started
            /\ st[c] \in {"todo", "ready", "skipped"} => <<This, c>> \notin started
            /\ ran[<<This, c>>] > 0 <=> st[c] \in {"running", "ran"}
  /\ pc = "recover" => \A c \in CallNo :
       \/ st[c] = "todo"
       \/ st[c] = "ran" /\ op.open /\ c \in Missing /\ ran[<<Batch.turn, c>>] > 0

(* A started call that nothing answers is one the repair will look at.     *)
Pending(c) ==
  /\ op.open
  /\ pc \in {"off", "ready", "recover", "tools", "results"}
  /\ Batch.is = "assistant"
  /\ Batch.turn = c[1]

Accounts == \A c \in started : Heard(c) \/ Hidden(c[1]) \/ Pending(c)

(* A call is entered again only after a fault.                             *)
Current(c) ==
  \/ pc \in {"tools", "results"} /\ c[1] = This
  \/ /\ pc = "recover" /\ op.open /\ ~ aborted
     /\ Batch.is = "assistant" /\ Batch.turn = c[1]
     /\ st[c[2]] = "ran"

Entries ==
  \A c \in ToolCall : /\ ran[c] <= faults + 1
                      /\ ran[c] > faults => Heard(c) \/ Current(c)

Held == Shape /\ Control /\ Flags /\ (pc \in Running => op.open)

-----------------------------------------------------------------------------

(* The sequences and sets the definitions pick from.                       *)
LEMMA Appended ==
  ASSUME log \in Seq(Entry), NEW e \in Entry, log' = Append(log, e)
  PROVE  /\ log' \in Seq(Entry)
         /\ Len(log) \in Nat
         /\ Len(log') = Len(log) + 1
         /\ DOMAIN log = 1..Len(log)
         /\ DOMAIN log' = 1..(Len(log) + 1)
         /\ \A i \in 1..Len(log) : log'[i] = log[i]
         /\ log'[Len(log) + 1] = e
  BY AppendProperties, LenProperties

LEMMA BoundCounts == ASSUME NEW t \in 0..MaxTurns, bound = 1..t PROVE This = t
  BY FS_Interval, BoundsAssumption DEF This

LEMMA BoundCountsNext == ASSUME NEW t \in 0..MaxTurns, bound' = 1..t PROVE This' = t
  BY FS_Interval, BoundsAssumption DEF This

(* Binding the next stream keeps the turns an interval.                    *)
LEMMA Binding ==
  ASSUME Shape, This < MaxTurns, bound' = bound \cup {This + 1}
  PROVE  /\ This \in Nat
         /\ This + 1 \in Turns
         /\ This + 1 \notin bound
         /\ This' = This + 1
         /\ \E t \in 0..MaxTurns : bound' = 1..t
         /\ \A t \in bound : t # This'
<1>1. PICK t \in 0..MaxTurns : bound = 1..t
  BY DEF Shape
<1>2. This = t
  BY <1>1, BoundCounts
<1>3. t + 1 \in 0..MaxTurns /\ bound' = 1..(t + 1)
  BY <1>1, <1>2, BoundsAssumption
<1>4. This' = t + 1
  BY <1>3, BoundCountsNext
<1> QED
  BY <1>1, <1>2, <1>3, <1>4, BoundsAssumption DEF Turns

LEMMA TurnNow ==
  ASSUME Shape
  PROVE  /\ This \in 0..MaxTurns
         /\ bound = 1..This
         /\ bound # {} => This \in bound /\ This \in Turns
         /\ bound \subseteq Turns
  BY BoundCounts, BoundsAssumption DEF Shape, Turns

LEMMA Least ==
  ASSUME NEW S \in SUBSET Nat, S # {}
  PROVE  First(S) \in S /\ \A x \in S : First(S) <= x
<1>1. PICK x \in S : \A y \in S : <<y, x>> \notin OpToRel(<, Nat)
  BY NatLessThanWellFounded, WFMin, Zenon
<1>2. \A y \in S : ~ (y < x)
  BY <1>1, Zenon DEF OpToRel
<1>3. \A y \in S : x <= y
  BY <1>2
<1> QED
  BY <1>3, Zenon DEF First

LEMMA Greatest ==
  ASSUME NEW n \in Nat, NEW S \in SUBSET (1..n), S # {}
  PROVE  \E x \in S : \A y \in S : y <= x
<1> DEFINE T == {m \in 0..n : n - m \in S}
<1>1. PICK x0 \in S : TRUE
  OBVIOUS
<1>2. n - x0 \in T
  BY <1>1
<1>3. T \in SUBSET Nat /\ T # {}
  <2>1. T \in SUBSET Nat
    OBVIOUS
  <2> QED
    BY <1>2, <2>1, Zenon
<1>4. PICK m \in T : \A y \in T : m <= y
  <2> HIDE DEF T
  <2> QED
    BY <1>3, Least
<1>5. ASSUME NEW y \in S PROVE y <= n - m
  <2>1. n - y \in T
    OBVIOUS
  <2> QED
    BY <1>4, <2>1
<1> QED
  BY <1>4, <1>5

(* The last message before the results that end a log, and where it is.    *)
Places(s) == {i \in DOMAIN s : s[i].is # "result"}

BatchOf(s) == IF Places(s) = {} THEN User
              ELSE s[CHOOSE i \in Places(s) : \A j \in Places(s) : j <= i]

LEMMA BatchIs == Batch = BatchOf(log) /\ Batch' = BatchOf(log')
  BY DEF Batch, BatchOf, Places

LEMMA BatchAt ==
  ASSUME NEW s \in Seq(Entry), NEW i \in Places(s), \A j \in Places(s) : j <= i
  PROVE  BatchOf(s) = s[i]
<1> DEFINE J == CHOOSE l \in Places(s) : \A j \in Places(s) : j <= l
<1>1. Places(s) \subseteq Nat
  BY LenProperties DEF Places
<1>2. J \in Places(s) /\ \A j \in Places(s) : j <= J
  OBVIOUS
<1>3. J = i
  BY <1>1, <1>2
<1> QED
  BY <1>3 DEF BatchOf

LEMMA BatchPlace ==
  ASSUME NEW s \in Seq(Entry)
  PROVE  \/ Places(s) = {} /\ BatchOf(s) = User
         \/ \E i \in Places(s) : BatchOf(s) = s[i] /\ \A j \in Places(s) : j <= i
<1>1. Places(s) \in SUBSET (1..Len(s)) /\ Len(s) \in Nat
  BY LenProperties DEF Places
<1>2. CASE Places(s) # {}
  <2>1. PICK i \in Places(s) : \A j \in Places(s) : j <= i
    BY <1>1, <1>2, Greatest
  <2> QED
    BY <2>1, BatchAt
<1> QED
  BY <1>2 DEF BatchOf

(* A message becomes the batch, a result leaves it.                        *)
LEMMA BatchAppended ==
  ASSUME log \in Seq(Entry), NEW e \in Entry, log' = Append(log, e)
  PROVE  /\ e.is # "result" => Batch' = e
         /\ e.is = "result" => Batch' = Batch
<1> USE Appended
<1>1. ASSUME e.is # "result" PROVE Batch' = e
  <2>1. Len(log) + 1 \in Places(log') /\ \A j \in Places(log') : j <= Len(log) + 1
    BY <1>1 DEF Places
  <2> QED
    BY <2>1, BatchAt, BatchIs
<1>2. ASSUME e.is = "result" PROVE Batch' = Batch
  <2>1. Places(log') = Places(log) /\ \A i \in Places(log) : log'[i] = log[i]
    BY <1>2 DEF Places
  <2>2. CASE Places(log) = {}
    BY <2>1, <2>2, BatchIs DEF BatchOf
  <2>3. CASE Places(log) # {}
    <3>1. PICK i \in Places(log) : BatchOf(log) = log[i] /\ \A j \in Places(log) : j <= i
      BY <2>3, BatchPlace
    <3>2. BatchOf(log') = log'[i]
      BY <2>1, <3>1, BatchAt
    <3> QED
      BY <2>1, <3>1, <3>2, BatchIs
  <2> QED
    BY <2>2, <2>3
<1> QED
  BY <1>1, <1>2

LEMMA BatchIsEntry == ASSUME log \in Seq(Entry) PROVE Batch \in Entry
<1>1. User \in Entry
  BY BoundsAssumption DEF Entry, User, Message
<1>2. \A i \in Places(log) : log[i] \in Entry
  BY LenProperties, ElementOfSeq DEF Places
<1> QED
  BY <1>1, <1>2, BatchPlace, BatchIs

-----------------------------------------------------------------------------

LEMMA MessageIsEntry ==
  ASSUME NEW is \in {"user", "notice", "assistant", "result"},
         NEW t \in 0..MaxTurns, NEW c \in 0..Calls,
         NEW s \in Outcome \cup {"none", "ran", "skipped", "unknown"}
  PROVE  /\ Message(is, t, c, s) \in Entry
         /\ Message(is, t, c, s).is = is
         /\ Message(is, t, c, s).turn = t
         /\ Message(is, t, c, s).call = c
         /\ Message(is, t, c, s).says = s
  BY DEF Message, Entry

LEMMA UserAndNotice ==
  /\ User \in Entry /\ User.is = "user" /\ User.turn = 0 /\ User.call = 0
  /\ Notice \in Entry /\ Notice.is = "notice" /\ Notice.turn = 0 /\ Notice.call = 0
  BY MessageIsEntry, BoundsAssumption DEF User, Notice

(* The call a recovery turns to, and the stream it salvages.               *)
LEMMA MissingCalls ==
  ASSUME Shape, Missing # {}
  PROVE  /\ First(Missing) \in Missing
         /\ \A c \in Missing : First(Missing) <= c
         /\ First(Missing) \in 1..Batch.call
         /\ First(Missing) \in CallNo
         /\ Batch.is = "assistant"
         /\ Batch.turn \in 0..MaxTurns
<1>1. Batch \in Entry
  BY BatchIsEntry DEF Shape
<1>2. Batch.call \in 0..Calls /\ Batch.turn \in 0..MaxTurns
  BY <1>1 DEF Entry
<1>3. Missing \in SUBSET (1..Batch.call) /\ Batch.is = "assistant"
  BY DEF Missing
<1>4. Missing \in SUBSET Nat
  BY <1>2, <1>3
<1>5. First(Missing) \in Missing /\ \A c \in Missing : First(Missing) <= c
  BY <1>4, Least
<1>6. First(Missing) \in 1..Batch.call
  BY <1>3, <1>5
<1>7. 1..Batch.call \subseteq CallNo
  BY <1>2, BoundsAssumption DEF CallNo
<1> QED
  BY <1>2, <1>3, <1>5, <1>6, <1>7

LEMMA UnsettledStreams ==
  ASSUME Shape, Unsettled # {}
  PROVE  /\ First(Unsettled) \in Unsettled
         /\ First(Unsettled) \in bound
         /\ First(Unsettled) \in Turns
         /\ frames[First(Unsettled)] \in 0..Calls
<1>1. Unsettled \in SUBSET bound /\ bound \subseteq Turns
  BY TurnNow DEF Unsettled
<1>2. First(Unsettled) \in Unsettled
  BY <1>1, Least DEF Turns
<1> QED
  BY <1>1, <1>2, BoundsAssumption DEF Unsettled, Shape

LEMMA UnansweredCalls ==
  ASSUME Reached \ Answered(This) # {}
  PROVE  /\ First(Reached \ Answered(This)) \in Reached \ Answered(This)
         /\ First(Reached \ Answered(This)) \in CallNo
         /\ \A c \in Reached \ Answered(This) : First(Reached \ Answered(This)) <= c
<1>1. Reached \ Answered(This) \in SUBSET CallNo
  BY DEF Reached, Batched
<1> QED
  BY <1>1, Least, BoundsAssumption DEF CallNo

(* What every step that adds to the log adds.                              *)
Adds(e) == e \in Entry /\ log' = Append(log, e)

LEMMA AnnounceAdds == ASSUME Announce PROVE UNCHANGED log \/ Adds(Notice)
  BY UserAndNotice DEF Announce, Adds

LEMMA RepairAdds ==
  ASSUME Held, RepairCall
  PROVE  \E e : /\ Adds(e) /\ e.is = "result" /\ e.turn = Batch.turn
                /\ e.call = First(Missing)
                /\ e.says = (IF Replays(First(Missing)) THEN "ran" ELSE "unknown")
<1> DEFINE s == IF Replays(First(Missing)) THEN "ran" ELSE "unknown"
           e == Message("result", Batch.turn, First(Missing), s)
<1>1. Missing # {} /\ log' = Append(log, e)
  BY DEF RepairCall
<1>2. s \in {"ran", "unknown"} /\ First(Missing) \in 0..Calls /\ Batch.turn \in 0..MaxTurns
  BY <1>1, MissingCalls, BoundsAssumption DEF Held, CallNo
<1>3. /\ e \in Entry /\ e.is = "result" /\ e.turn = Batch.turn
      /\ e.call = First(Missing) /\ e.says = s
  <2> HIDE DEF s
  <2> QED
    BY <1>2, MessageIsEntry
<1> QED
  BY <1>1, <1>3 DEF Adds

LEMMA SalvageAdds ==
  ASSUME Held, Salvage
  PROVE  \E e : /\ Adds(e) /\ e.is = "assistant"
                /\ e.turn = First(Unsettled) /\ e.call = frames[First(Unsettled)]
<1> DEFINE e == Message("assistant", First(Unsettled), frames[First(Unsettled)], "interrupted")
<1>1. Unsettled # {} /\ log' = Append(log, e)
  BY DEF Salvage
<1>2. First(Unsettled) \in 0..MaxTurns /\ frames[First(Unsettled)] \in 0..Calls
  BY <1>1, UnsettledStreams DEF Held, Turns
<1>3. /\ e \in Entry /\ e.is = "assistant"
      /\ e.turn = First(Unsettled) /\ e.call = frames[First(Unsettled)]
  BY <1>2, MessageIsEntry DEF Outcome
<1> QED
  BY <1>1, <1>3 DEF Adds

LEMMA CommitAdds ==
  ASSUME Held, Commit
  PROVE  \E e : /\ Adds(e) /\ e.is = "assistant" /\ e.turn = This
                /\ e.call = k
<1> DEFINE e == Message("assistant", This, k, stop)
<1>1. pc = "ended" /\ stop # "retry" /\ log' = Append(log, e)
  BY DEF Commit
<1>2. This \in 0..MaxTurns /\ k \in 0..Calls
  <2>1. k >= 0
    BY <1>1 DEF Held, Control, Running
  <2> QED
    BY <2>1, TurnNow, BoundsAssumption DEF Held, Shape
<1>3. stop \in Outcome \cup {"none"}
  BY <1>1 DEF Held, Control, Outcome
<1>4. e \in Entry /\ e.is = "assistant" /\ e.turn = This /\ e.call = k
  BY <1>2, <1>3, MessageIsEntry
<1> QED
  BY <1>1, <1>4 DEF Adds

LEMMA ResultAdds ==
  ASSUME Held, AppendResult
  PROVE  \E e : /\ Adds(e) /\ e.is = "result" /\ e.turn = This
                /\ e.call = First(Reached \ Answered(This))
                /\ e.says = (IF st[First(Reached \ Answered(This))] = "ran"
                               THEN "ran" ELSE "skipped")
<1> DEFINE c == First(Reached \ Answered(This))
           s == IF st[c] = "ran" THEN "ran" ELSE "skipped"
           e == Message("result", This, c, s)
<1>1. Reached \ Answered(This) # {} /\ log' = Append(log, e)
  BY DEF AppendResult
<1>2. This \in 0..MaxTurns /\ c \in 0..Calls /\ s \in {"ran", "skipped"}
  BY <1>1, UnansweredCalls, TurnNow DEF Held, CallNo
<1>3. e \in Entry /\ e.is = "result" /\ e.turn = This /\ e.call = c /\ e.says = s
  <2> HIDE DEF c, s
  <2> QED
    BY <1>2, MessageIsEntry
<1> QED
  BY <1>1, <1>3 DEF Adds

-----------------------------------------------------------------------------

(* Types and control.                                                      *)
LEMMA BeginAdds == ASSUME Begin PROVE UNCHANGED log \/ Adds(User)
  BY UserAndNotice DEF Begin, Adds

(* Which steps touch what.                                                 *)
Framed ==
  /\ \/ UNCHANGED log
     \/ Resume \/ Decline \/ RepairCall \/ Salvage \/ Begin \/ Commit \/ AppendResult
  /\ \/ UNCHANGED frames
     \/ StoreFrame \/ BreakStream \/ Commit \/ ClearStream \/ ClearRun
  /\ \/ UNCHANGED <<bound, cleared, dropped, retry>>
     \/ Retire \/ Begin \/ Request \/ EndAborted \/ ScheduleRetry \/ ClearStream \/ ClearRun
  /\ UNCHANGED op \/ Begin \/ Close \/ Finish
  /\ UNCHANGED started \/ \E c \in CallNo : Checkpoint(c)
  /\ UNCHANGED ran \/ RunAgain \/ \E c \in CallNo : EnterTool(c)
  /\ UNCHANGED faults \/ (faults < MaxFaults /\ faults' = faults + 1)

LEMMA Framing == ASSUME Next PROVE Framed
<1> USE DEF durable, run, process, history, Framed
<1>1. CASE Crash \/ Open \/ Prompt \/ Resume \/ Decline \/ Abort \/ Refused
  BY <1>1 DEF Crash, Open, Prompt, Resume, Decline, Abort, Refused, Announce
<1>2. CASE Recover
  BY <1>2 DEF Recover, RunAgain, RepairCall, Salvage, Retire, Close, Opened, Failed, Cancelled
<1>3. CASE \E c \in CallNo : Tool(c)
  BY <1>3 DEF Tool, Prepare, Checkpoint, RefuseCheckpoint, Skip, EnterTool, FinishTool
<1>4. CASE \/ StoreFrame \/ BreakStream \/ Commit \/ ClearStream \/ ClearRun
           \/ Begin \/ Request \/ StreamCall \/ ScheduleRetry
  BY <1>4 DEF StoreFrame, BreakStream, Commit, ClearStream, ClearRun, RetireOrWarn,
     Begin, Request, StreamCall, ScheduleRetry
<1>5. CASE \/ Wait \/ AppendResult \/ NextTurn \/ Terminate \/ EndAborted \/ Finish \/ Leave
           \/ \E s \in {"done", "tools", "retry", "error", "aborted"} : EndMessage(s)
  BY <1>5 DEF Wait, AppendResult, NextTurn, Terminate, EndAborted, Finish, Leave, EndMessage
<1> QED
  BY <1>1, <1>2, <1>3, <1>4, <1>5 DEF Next, Live

LEMMA StepLog == ASSUME Held, Next PROVE UNCHANGED log \/ \E e : Adds(e)
  BY Framing, AnnounceAdds, RepairAdds, SalvageAdds, BeginAdds, CommitAdds, ResultAdds
     DEF Framed, Resume, Decline

LEMMA StepLogType == ASSUME Held, Next PROVE log' \in Seq(Entry)
<1>1. log \in Seq(Entry)
  BY DEF Held, Shape
<1>2. CASE \E e : Adds(e)
  BY <1>1, <1>2, AppendProperties DEF Adds
<1> QED
  BY <1>1, <1>2, StepLog

(* The steps that bind no stream, and what they may do to the durable      *)
(* record of the streams.                                                  *)
LEMMA FlushKeeps ==
  ASSUME Shape, Flush, bound # {}
  PROVE  /\ frames' \in [Turns -> -1..Calls]
         /\ \A t \in Turns : t # This => frames'[t] = frames[t]
         /\ frames'[This] = k
<1>1. This \in Turns /\ k \in -1..Calls /\ frames \in [Turns -> -1..Calls]
  BY TurnNow DEF Shape
<1> QED
  BY <1>1 DEF Flush

LEMMA StepFrames ==
  ASSUME Held, Next
  PROVE  frames' \in [Turns -> -1..Calls]
<1>0. frames \in [Turns -> -1..Calls]
  BY DEF Held, Shape
<1>4. CASE StoreFrame
  <2>1. This \in Turns
    BY <1>4, TurnNow DEF StoreFrame, Held, Control, Running
  <2>2. frames[This] < k /\ k \in -1..Calls /\ frames[This] \in -1..Calls
    BY <1>0, <1>4, <2>1 DEF StoreFrame, Held, Shape
  <2>3. frames[This] + 1 \in -1..Calls
    BY <2>2, BoundsAssumption
  <2> QED
    BY <1>0, <1>4, <2>1, <2>3 DEF StoreFrame
<1>5. CASE BreakStream \/ Commit \/ ClearStream \/ ClearRun
  <2>1. Flush \/ UNCHANGED frames
    BY <1>5 DEF BreakStream, Commit, ClearStream, ClearRun, RetireOrWarn
  <2>2. bound # {}
    BY <1>5 DEF BreakStream, Commit, ClearStream, ClearRun, Held, Control, Running
  <2> QED
    BY <1>0, <2>1, <2>2, FlushKeeps DEF Held
<1> QED
  BY <1>0, <1>4, <1>5, Framing DEF Framed

LEMMA StepStreams ==
  ASSUME Held, Next
  PROVE  /\ \E t \in 0..MaxTurns : bound' = 1..t
         /\ cleared' \subseteq bound'
         /\ dropped' \subseteq bound'
         /\ retry' \in 0..This' + 1
<1> USE TurnNow DEF Held, Shape
<1>1. CASE UNCHANGED <<bound, cleared, dropped, retry>>
  BY <1>1 DEF This
<1>2. CASE Retire
  BY <1>2 DEF Retire, history, This
<1>3. CASE Begin
  BY <1>3 DEF Begin, This
<1>4. CASE Request \/ EndAborted
  <2>1. /\ This < MaxTurns /\ bound' = bound \cup {This + 1}
        /\ UNCHANGED <<cleared, dropped, retry>>
    BY <1>4 DEF Request, EndAborted, history
  <2>2. Shape
    OBVIOUS
  <2> HIDE DEF Shape, Held
  <2>3. This \in Nat /\ This' = This + 1 /\ \E t \in 0..MaxTurns : bound' = 1..t
    BY <2>1, <2>2, Binding
  <2>4. cleared \subseteq bound /\ dropped \subseteq bound /\ retry \in 0..This + 1
    BY <2>2 DEF Shape
  <2> QED
    BY <2>1, <2>3, <2>4
<1>5. CASE ScheduleRetry
  <2>1. /\ UNCHANGED <<bound, cleared>> /\ dropped' = dropped \cup {This}
        /\ retry' \in {retry, This + 1} /\ bound # {}
    BY <1>5 DEF ScheduleRetry, Control, Running
  <2>2. This \in bound /\ This \in Nat /\ This' = This
    BY <2>1 DEF This
  <2>3. retry' \in 0..This + 1
    BY <2>1, <2>2
  <2> QED
    BY <2>1, <2>2, <2>3
<1>6. CASE ClearStream
  <2>1. /\ UNCHANGED <<bound, dropped, retry>> /\ cleared' \subseteq cleared \cup {This} /\ bound # {}
    BY <1>6 DEF ClearStream, RetireOrWarn, Control, Running
  <2> QED
    BY <2>1 DEF This
<1>7. CASE ClearRun
  <2>1. UNCHANGED <<bound, dropped, retry>> /\ cleared' \subseteq cleared \cup bound
    BY <1>7 DEF ClearRun, RetireOrWarn
  <2> QED
    BY <2>1 DEF This
<1> QED
  BY <1>1, <1>2, <1>3, <1>4, <1>5, <1>6, <1>7, Framing DEF Framed

LEMMA StepTools ==
  ASSUME Held, Next
  PROVE  /\ started' \subseteq ToolCall
         /\ ran' \in [ToolCall -> Nat]
         /\ faults' \in 0..MaxFaults
<1>1. started \subseteq ToolCall /\ ran \in [ToolCall -> Nat] /\ faults \in 0..MaxFaults
  BY DEF Held, Shape
<1>2. ASSUME NEW c \in CallNo, pc = "tools" PROVE <<This, c>> \in ToolCall
  BY <1>2, TurnNow DEF Held, Control, Running, ToolCall
<1>3. started' \subseteq ToolCall
  BY <1>1, <1>2, Framing DEF Framed, Checkpoint, SetCall
<1>4. ran' \in [ToolCall -> Nat]
  <2>1. CASE RunAgain
    BY <1>1, <2>1 DEF RunAgain, Replays
  <2>2. CASE \E c \in CallNo : EnterTool(c)
    BY <1>1, <1>2, <2>2 DEF EnterTool, SetCall
  <2> QED
    BY <1>1, <2>1, <2>2, Framing DEF Framed
<1>5. faults' \in 0..MaxFaults
  BY <1>1, Framing, BoundsAssumption DEF Framed
<1> QED
  BY <1>3, <1>4, <1>5

LEMMA StepRun ==
  ASSUME Held, Next
  PROVE  k' \in -1..Calls /\ st' \in [CallNo -> Stages] /\ tries' \in Nat
<1>0. k \in -1..Calls /\ st \in [CallNo -> Stages] /\ tries \in Nat
  BY DEF Held, Shape
<1> USE BoundsAssumption DEF durable, run, process, history, Stages
<1>1. CASE Crash \/ Refused \/ Opened \/ Failed \/ Cancelled \/ Finish \/ Leave
  BY <1>1 DEF Crash, Refused, Opened, Failed, Cancelled, Finish, Leave, Over, Fresh
<1>2. CASE Open \/ Prompt \/ Resume \/ Decline \/ Abort \/ Salvage \/ Retire \/ Close
  BY <1>0, <1>2 DEF Open, Prompt, Resume, Decline, Abort, Salvage, Retire, Close
<1>3. CASE RunAgain \/ RepairCall
  BY <1>0, <1>3, MissingCalls DEF RunAgain, RepairCall, Held
<1>4. CASE \E c \in CallNo : Tool(c)
  BY <1>0, <1>4 DEF Tool, Prepare, Checkpoint, RefuseCheckpoint, Skip, EnterTool, FinishTool, SetCall
<1>5. CASE \/ StoreFrame \/ BreakStream \/ Commit \/ ClearStream \/ ClearRun
           \/ Begin \/ Request \/ StreamCall \/ ScheduleRetry
  BY <1>0, <1>5 DEF StoreFrame, BreakStream, Commit, ClearStream, ClearRun,
     Begin, Request, StreamCall, ScheduleRetry
<1>6. CASE \/ Wait \/ AppendResult \/ NextTurn \/ Terminate \/ EndAborted
           \/ \E s \in {"done", "tools", "retry", "error", "aborted"} : EndMessage(s)
  BY <1>0, <1>6 DEF Wait, AppendResult, NextTurn, Terminate, EndAborted, EndMessage
<1> QED
  BY <1>1, <1>2, <1>3, <1>4, <1>5, <1>6 DEF Next, Live, Recover

LEMMA StepShape == ASSUME Held, Next PROVE Shape'
  BY StepLogType, StepFrames, StepStreams, StepTools, StepRun DEF Shape

LEMMA StepControl == ASSUME Held, Next PROVE Control'
<1>0. Control /\ k \in -1..Calls /\ Calls \in Nat
  BY BoundsAssumption DEF Held, Shape
<1> USE DEF Control, Running, Recovering, durable, run, process, history
<1>1. CASE Crash \/ Refused \/ Opened \/ Failed \/ Cancelled \/ Finish \/ Leave
  BY <1>0, <1>1 DEF Crash, Refused, Opened, Failed, Cancelled, Finish, Leave, Over, Fresh
<1>2. CASE Open \/ Prompt \/ Resume \/ Decline \/ Abort \/ Salvage \/ Retire
  BY <1>0, <1>2 DEF Open, Prompt, Resume, Decline, Abort, Salvage, Retire, Busy
<1>3. CASE RunAgain \/ RepairCall \/ Close
  BY <1>0, <1>3 DEF RunAgain, RepairCall, Close, Busy
<1>7. CASE \E c \in CallNo : Tool(c)
  <2>1. /\ UNCHANGED <<pc, goal, hurt, stop, bound, k>>
    BY <1>7 DEF Tool, Prepare, Checkpoint, RefuseCheckpoint, Skip, EnterTool, FinishTool
  <2> QED
    BY <1>0, <2>1
<1>4. CASE StoreFrame \/ BreakStream \/ Commit \/ ClearStream \/ ClearRun \/ ScheduleRetry
  BY <1>0, <1>4 DEF StoreFrame, BreakStream, Commit, ClearStream, ClearRun, ScheduleRetry
<1>5. CASE Begin \/ StreamCall
  BY <1>0, <1>5 DEF Begin, StreamCall
<1>8. CASE Request \/ EndAborted
  <2>1. /\ UNCHANGED <<goal, hurt>> /\ bound' # {} /\ k' = 0
        /\ pc' \in {"stream", "ended"} /\ stop' \in {"none", "aborted"}
        /\ pc \in Running
    BY <1>8 DEF Request, EndAborted, ResultsOver
  <2> QED
    BY <1>0, <2>1
<1>6. CASE \/ Wait \/ AppendResult \/ NextTurn \/ Terminate
           \/ \E s \in {"done", "tools", "retry", "error", "aborted"} : EndMessage(s)
  BY <1>0, <1>6 DEF Wait, AppendResult, NextTurn, Terminate, EndMessage, ResultsOver
<1> QED
  BY <1>1, <1>2, <1>3, <1>4, <1>5, <1>6, <1>7, <1>8 DEF Next, Live, Recover

(* The operation: opened by Begin, closed by its run or by a recovery.     *)
LEMMA Opens == ASSUME Begin PROVE op'.open = TRUE /\ op'.attempt = attempt
  BY Zenon DEF Begin

LEMMA Closes ==
  ASSUME Held, Close \/ Finish
  PROVE  /\ op' \in [open : BOOLEAN, attempt : 0..MaxResumes]
         /\ op'.open = FALSE
         /\ op'.attempt = op.attempt
<1>1. op \in [open : BOOLEAN, attempt : 0..MaxResumes] /\ op' = [op EXCEPT !.open = FALSE]
  BY DEF Held, Flags, Close, Finish
<1> QED
  BY <1>1

LEMMA StaysRunning == ASSUME Held, Next, UNCHANGED op, pc' \in Running PROVE pc \in Running
<1> USE DEF Running, durable, run, process, history
<1>1. CASE \/ Crash \/ Refused \/ Opened \/ Failed \/ Cancelled \/ Finish \/ Leave
           \/ Open \/ Prompt \/ Resume \/ Retire \/ Close
  BY <1>1 DEF Crash, Refused, Opened, Failed, Cancelled, Finish, Leave, Over,
     Open, Prompt, Resume, Retire, Close
<1>2. CASE Decline \/ Abort \/ Salvage \/ RunAgain \/ RepairCall \/ \E c \in CallNo : Tool(c)
  BY <1>2 DEF Decline, Abort, Salvage, RunAgain, RepairCall,
     Tool, Prepare, Checkpoint, RefuseCheckpoint, Skip, EnterTool, FinishTool
<1>3. CASE Begin
  BY <1>3, Opens DEF Begin
<1>4. CASE \/ StoreFrame \/ BreakStream \/ Commit \/ ClearStream \/ ClearRun
           \/ Request \/ StreamCall \/ ScheduleRetry
  BY <1>4 DEF StoreFrame, BreakStream, Commit, ClearStream, ClearRun, Request, StreamCall,
     ScheduleRetry
<1>5. CASE \/ Wait \/ AppendResult \/ NextTurn \/ Terminate \/ EndAborted
           \/ \E s \in {"done", "tools", "retry", "error", "aborted"} : EndMessage(s)
  BY <1>5 DEF Wait, AppendResult, NextTurn, Terminate, EndAborted, ResultsOver, EndMessage
<1> QED
  BY <1>1, <1>2, <1>3, <1>4, <1>5 DEF Next, Live, Recover

LEMMA StepOpen == ASSUME Held, Next PROVE pc' \in Running => op'.open
<1>1. CASE Close \/ Finish
  BY <1>1 DEF Close, Finish, Over, Running
<1>2. CASE Begin
  BY <1>2, Opens
<1>3. CASE UNCHANGED op
  BY <1>3, StaysRunning DEF Held
<1> QED
  BY <1>1, <1>2, <1>3, Framing DEF Framed

LEMMA StepFlags == ASSUME Held, attempt \in 0..MaxResumes, Next PROVE Flags'
<1>0. Flags /\ MaxResumes \in Nat
  BY BoundsAssumption DEF Held
<1>1. op' \in [open : BOOLEAN, attempt : 0..MaxResumes]
  <2>1. CASE Begin
    BY <2>1, Zenon DEF Begin
  <2>2. CASE Close \/ Finish
    BY <2>2, Closes
  <2> QED
    BY <1>0, <2>1, <2>2, Framing DEF Framed, Flags
<1>2. {aborted', failed', late', terminated'} \subseteq BOOLEAN
  <2> USE DEF Flags, durable, run, process, history
  <2>1. CASE Crash \/ Refused \/ Opened \/ Failed \/ Cancelled \/ Finish \/ Leave
    BY <1>0, <2>1, Zenon DEF Crash, Refused, Opened, Failed, Cancelled, Finish, Leave, Over, Fresh
  <2>2. CASE Open \/ Prompt \/ Resume \/ Decline \/ Abort \/ Salvage \/ Retire
    BY <1>0, <2>2, Zenon DEF Open, Prompt, Resume, Decline, Abort, Salvage, Retire
  <2>3. CASE RunAgain \/ RepairCall \/ Close \/ \E c \in CallNo : Tool(c)
    BY <1>0, <2>3, Zenon DEF RunAgain, RepairCall, Close,
       Tool, Prepare, Checkpoint, RefuseCheckpoint, Skip, EnterTool, FinishTool
  <2>4. CASE StoreFrame \/ BreakStream \/ Commit \/ ClearStream \/ ClearRun \/ ScheduleRetry
    BY <1>0, <2>4, Zenon DEF StoreFrame, BreakStream, Commit, ClearStream, ClearRun, ScheduleRetry
  <2>5. CASE Begin \/ Request \/ StreamCall \/ EndAborted
    BY <1>0, <2>5, Zenon DEF Begin, Request, StreamCall, EndAborted
  <2>6. CASE \/ Wait \/ AppendResult \/ NextTurn \/ Terminate
             \/ \E s \in {"done", "tools", "retry", "error", "aborted"} : EndMessage(s)
    BY <1>0, <2>6, Zenon DEF Wait, AppendResult, NextTurn, Terminate, EndMessage
  <2> QED
    BY <2>1, <2>2, <2>3, <2>4, <2>5, <2>6 DEF Next, Live, Recover
<1> QED
  BY <1>1, <1>2, Zenon DEF Flags

LEMMA StepBudget == ASSUME Held, Budget, Next PROVE Budget'
<1>0. /\ op.attempt \in 0..MaxResumes /\ MaxResumes \in Nat
      /\ pc \in Running => goal = "none"
      /\ pc \in {"off", "ready"} => goal = "none"
  BY BoundsAssumption DEF Held, Flags, Control, Running, Recovering
<1> USE DEF Budget, durable, run, process, history
<1>1. CASE Crash \/ Refused \/ Failed \/ Cancelled \/ Leave
  BY <1>0, <1>1 DEF Crash, Refused, Failed, Cancelled, Leave, Over, Fresh
<1>2. CASE Opened
  BY <1>0, <1>2 DEF Opened, Over
<1>3. CASE Finish \/ Close
  <2>1. op'.attempt = op.attempt
    BY <1>3, Closes
  <2>2. UNCHANGED <<offer, resumes>> /\ (UNCHANGED <<goal, attempt>> \/ (goal' = "none" /\ attempt' = 0))
    BY <1>3 DEF Finish, Close, Over
  <2> QED
    BY <1>0, <2>1, <2>2
<1>4. CASE Open \/ Prompt \/ Resume \/ Decline \/ Abort
  BY <1>0, <1>4 DEF Open, Prompt, Resume, Decline, Abort
<1>5. CASE Begin
  BY <1>0, <1>5, Opens DEF Begin
<1>6. CASE Salvage \/ RunAgain \/ RepairCall \/ Retire \/ \E c \in CallNo : Tool(c)
  BY <1>0, <1>6 DEF Salvage, RunAgain, RepairCall, Retire,
     Tool, Prepare, Checkpoint, RefuseCheckpoint, Skip, EnterTool, FinishTool
<1>7. CASE \/ StoreFrame \/ BreakStream \/ Commit \/ ClearStream \/ ClearRun
           \/ Request \/ StreamCall \/ ScheduleRetry
  BY <1>0, <1>7 DEF StoreFrame, BreakStream, Commit, ClearStream, ClearRun, Request, StreamCall,
     ScheduleRetry
<1>8. CASE \/ Wait \/ AppendResult \/ NextTurn \/ Terminate \/ EndAborted
           \/ \E s \in {"done", "tools", "retry", "error", "aborted"} : EndMessage(s)
  BY <1>0, <1>8 DEF Wait, AppendResult, NextTurn, Terminate, EndAborted, EndMessage
<1> QED
  BY <1>1, <1>2, <1>3, <1>4, <1>5, <1>6, <1>7, <1>8 DEF Next, Live, Recover

-----------------------------------------------------------------------------

LEMMA Initially == Init => Held /\ Budget
<1> SUFFICES ASSUME Init PROVE Held /\ Budget
  OBVIOUS
<1>1. bound = 1..0 /\ This = 0 /\ Turns # {} /\ CallNo # {}
  <2>1. 1..0 = {} /\ 0 \in 0..MaxTurns /\ 1 \in Turns /\ 1 \in CallNo
    BY BoundsAssumption DEF Turns, CallNo
  <2> QED
    BY <2>1, BoundCounts DEF Init
<1>2. Shape
  BY <1>1, EmptySeq, BoundsAssumption DEF Init, NoRun, Shape, Stages
<1>3. Control
  BY DEF Init, NoRun, Control, Running, Recovering
<1>4. Flags
  <2>1. 0 \in 0..MaxResumes
    BY BoundsAssumption
  <2> QED
    BY <2>1, Zenon DEF Init, NoRun, Flags
<1>5. Budget
  BY BoundsAssumption DEF Init, Budget
<1> QED
  BY <1>2, <1>3, <1>4, <1>5 DEF Held, Init, Running

LEMMA Stuttering ==
  ASSUME Held, Budget, UNCHANGED vars
  PROVE  Held' /\ Budget'
  BY DEF Held, Shape, Control, Flags, Budget, This, Running, Recovering,
         vars, durable, process, run, history

-----------------------------------------------------------------------------

(* Streams: what lands, and what stays settled.                            *)
LEMMA LandedNext ==
  ASSUME Held, NEW e, Adds(e)
  PROVE  \A t : Landed(t)' <=> Landed(t) \/ (e.is = "assistant" /\ e.turn = t)
<1>1. log \in Seq(Entry) /\ e \in Entry /\ log' = Append(log, e)
  BY DEF Held, Shape, Adds
<1>2. /\ Len(log) \in Nat /\ DOMAIN log = 1..Len(log) /\ DOMAIN log' = 1..(Len(log) + 1)
      /\ \A i \in 1..Len(log) : log'[i] = log[i]
      /\ log'[Len(log) + 1] = e
  BY <1>1, Appended
<1> QED
  BY <1>2 DEF Landed

LEMMA LandedStays == ASSUME Held, Next PROVE \A t : Landed(t) => Landed(t)'
<1>1. CASE UNCHANGED log
  BY <1>1 DEF Landed
<1> QED
  BY <1>1, StepLog, LandedNext

LEMMA KeptStays == ASSUME Held, Next PROVE \A t : Kept(t) => Kept(t)'
<1>1. dropped \subseteq dropped'
  BY Framing DEF Framed, Retire, Begin, Request, EndAborted, ScheduleRetry, ClearStream,
     ClearRun, history
<1> QED
  BY <1>1, LandedStays DEF Kept

(* Only the stream at hand gets frames.                                    *)
LEMMA FramesOf ==
  ASSUME Held, Next
  PROVE  \A t \in Turns : \/ frames'[t] = frames[t]
                          \/ t = This /\ Streaming
                          \/ t = This /\ pc \in Running /\ k >= 0
<1>1. CASE StoreFrame
  BY <1>1, TurnNow DEF StoreFrame, Held, Shape, Streaming
<1>2. CASE BreakStream \/ Commit \/ ClearStream \/ ClearRun
  <2>1. bound # {} /\ k >= 0 /\ pc \in Running /\ (Flush \/ UNCHANGED frames)
    BY <1>2 DEF BreakStream, Commit, ClearStream, ClearRun, RetireOrWarn, Held, Control, Running
  <2> QED
    BY <2>1, FlushKeeps DEF Held
<1> QED
  BY <1>1, <1>2, Framing DEF Framed

LEMMA SettledStays ==
  ASSUME Held, Settlement, Next,
         NEW t \in bound, Settled(t), t = This /\ Streaming => t \in dropped
  PROVE  Settled(t)'
<1>1. t \in Turns
  BY TurnNow DEF Held
<1>2. CASE frames'[t] = frames[t]
  BY <1>2, KeptStays DEF Settled
<1>3. CASE t = This /\ Streaming
  BY <1>3, KeptStays DEF Settled, Kept
<1>4. CASE t = This /\ pc \in Running /\ k >= 0 /\ ~ Streaming
  BY <1>4, KeptStays DEF Settled, Settlement
<1> QED
  BY <1>1, <1>2, <1>3, <1>4, FramesOf

(* How an attempt goes on.                                                 *)
LEMMA AttemptNext ==
  ASSUME Held, Next
  PROVE  /\ (Streaming \/ Failing)' =>
              \/ Request \/ EndAborted
              \/ (Streaming \/ Failing) /\ UNCHANGED <<log, bound>>
         /\ Failing' => ScheduleRetry \/ (Failing /\ UNCHANGED <<bound, dropped>>)
         /\ (pc \in Running /\ ~ Streaming)' =>
              \/ Begin \/ Commit \/ ScheduleRetry
              \/ pc \in Running /\ ~ Streaming /\ UNCHANGED <<k, bound>>
<1>0. pc \in Running => pc \notin Recovering
  BY DEF Running, Recovering
<1> USE DEF Running, Streaming, Failing, durable, run, process, history
<1>1. CASE \/ Crash \/ Refused \/ Opened \/ Failed \/ Cancelled \/ Finish \/ Leave
           \/ Open \/ Prompt \/ Resume \/ Retire \/ Close
  BY <1>1 DEF Crash, Refused, Opened, Failed, Cancelled, Finish, Leave, Over,
     Open, Prompt, Resume, Retire, Close
<1>2. CASE Decline \/ Abort \/ Salvage \/ RunAgain \/ RepairCall
  BY <1>0, <1>2 DEF Decline, Abort, Salvage, RunAgain, RepairCall, Busy
<1>3. CASE \E c \in CallNo : Tool(c)
  BY <1>3 DEF Tool, Prepare, Checkpoint, RefuseCheckpoint, Skip, EnterTool, FinishTool
<1>4. CASE \/ StoreFrame \/ BreakStream \/ Commit \/ ClearStream \/ ClearRun
           \/ StreamCall \/ ScheduleRetry
  BY <1>4 DEF StoreFrame, BreakStream, Commit, ClearStream, ClearRun, StreamCall,
     ScheduleRetry
<1>6. CASE Begin \/ Request \/ EndAborted
  BY <1>6 DEF Begin, Request, EndAborted
<1>5. CASE \/ Wait \/ AppendResult \/ NextTurn \/ Terminate
           \/ \E s \in {"done", "tools", "retry", "error", "aborted"} : EndMessage(s)
  BY <1>5 DEF Wait, AppendResult, NextTurn, Terminate, ResultsOver, EndMessage
<1> QED
  BY <1>1, <1>2, <1>3, <1>4, <1>5, <1>6 DEF Next, Live, Recover

LEMMA StepOnce == ASSUME Held, Once, Settlement, Next PROVE Once'
<1>1. log \in Seq(Entry) /\ bound \subseteq bound'
  BY Framing, Binding DEF Held, Shape, Framed, Retire, Begin, Request, EndAborted,
     ScheduleRetry, ClearStream, ClearRun, history
<1>2. CASE UNCHANGED log
  BY <1>1, <1>2 DEF Once
<1>3. CASE \E e : Adds(e) /\ (e.is = "assistant" => e.turn \in bound /\ ~ Landed(e.turn))
  <2>1. PICK e : Adds(e) /\ (e.is = "assistant" => e.turn \in bound /\ ~ Landed(e.turn))
    BY <1>3
  <2>2. /\ Len(log) \in Nat /\ DOMAIN log = 1..Len(log) /\ DOMAIN log' = 1..(Len(log) + 1)
        /\ \A i \in 1..Len(log) : log'[i] = log[i]
        /\ log'[Len(log) + 1] = e
    BY <1>1, <2>1, Appended DEF Adds
  <2> QED
    BY <1>1, <2>1, <2>2 DEF Once, Landed
<1>4. CASE Commit
  <2>1. This \in bound /\ ~ Landed(This)
    BY <1>4, TurnNow DEF Commit, Held, Control, Running, Settlement, Streaming
  <2> QED
    BY <1>3, <1>4, <2>1, CommitAdds
<1>5. CASE Salvage
  <2>1. First(Unsettled) \in bound /\ ~ Landed(First(Unsettled))
    BY <1>5, UnsettledStreams DEF Salvage, Held, Unsettled
  <2> QED
    BY <1>3, <1>5, <2>1, SalvageAdds
<1>6. CASE RepairCall \/ AppendResult \/ Begin \/ Resume \/ Decline
  BY <1>2, <1>3, <1>6, RepairAdds, ResultAdds, BeginAdds, AnnounceAdds, UserAndNotice
     DEF Resume, Decline
<1> QED
  BY <1>2, <1>4, <1>5, <1>6, Framing DEF Framed

LEMMA StepLanded == ASSUME Held, Once, Settlement, Next, (Streaming \/ Failing)' PROVE ~ Landed(This)'
<1>1. CASE Request \/ EndAborted
  <2>1. UNCHANGED log /\ This < MaxTurns /\ bound' = bound \cup {This + 1}
    BY <1>1 DEF Request, EndAborted
  <2>2. This' \notin bound
    BY <2>1, Binding DEF Held
  <2> QED
    BY <2>1, <2>2 DEF Once, Landed
<1>2. CASE (Streaming \/ Failing) /\ UNCHANGED <<log, bound>>
  BY <1>2 DEF Settlement, Landed, This
<1> QED
  BY <1>1, <1>2, AttemptNext
(* Streams that are settled stay so, one conjunct of Settlement at a time. *)
LEMMA SettledAll ==
  ASSUME Held, Settlement, Next,
         \A t \in bound : Settled(t) /\ (t = This /\ Streaming => t \in dropped)
  PROVE  \A t \in bound : Settled(t)'
  BY SettledStays

LEMMA RunningSettled ==
  ASSUME Held, Settlement, pc \in Running, ~ Streaming
  PROVE  \A t \in bound : Settled(t) /\ (t = This /\ Streaming => t \in dropped)
  BY DEF Settlement

LEMMA StepCleared == ASSUME Held, Settlement, Next PROVE (\A t \in cleared : Settled(t))'
<1>1. ASSUME NEW t \in cleared PROVE Settled(t)'
  <2>1. Settled(t) /\ (t = This /\ Streaming => t \in dropped)
    BY DEF Settlement
  <2> QED
    BY <2>1, SettledStays DEF Held, Shape
<1>2. CASE cleared' = cleared
  BY <1>1, <1>2
<1>3. CASE Retire
  <2>1. \A t \in bound : Settled(t) /\ ~ Streaming
    BY <1>3 DEF Retire, Busy, Settlement, Unsettled, Settled, Kept, Streaming
  <2>2. \A t \in bound : Settled(t)'
    BY <2>1, SettledStays
  <2> QED
    BY <1>3, <2>2 DEF Retire
<1>4. CASE ClearStream \/ ClearRun
  <2>1. cleared' \subseteq bound /\ pc \in Running /\ ~ Streaming
    BY <1>4, TurnNow DEF ClearStream, ClearRun, RetireOrWarn, Held, Shape, Control, Running, Streaming
  <2> QED
    BY <2>1, RunningSettled, SettledAll
<1> QED
  BY <1>2, <1>3, <1>4, Framing DEF Framed, Begin, Request, EndAborted, ScheduleRetry, history

LEMMA StepStreaming ==
  ASSUME Held, Settlement, Next, Streaming'
  PROVE  /\ This' \in cleared' => This' \in dropped'
         /\ retry' \in bound' \cup {0} \/ This' \in dropped'
<1>1. CASE Request \/ EndAborted
  <2>1. /\ UNCHANGED <<cleared, retry>> /\ This < MaxTurns /\ bound' = bound \cup {This + 1}
    BY <1>1 DEF Request, EndAborted
  <2>2. This' \notin bound /\ This' = This + 1 /\ bound = 1..This /\ This \in Nat
    BY <2>1, Binding, TurnNow DEF Held
  <2> QED
    BY <2>1, <2>2 DEF Held, Shape
<1>2. CASE (Streaming \/ Failing) /\ ~ Request /\ ~ EndAborted
  <2>1. UNCHANGED <<bound, cleared, dropped, retry>>
    BY <1>2, Framing DEF Framed, Retire, Busy, Begin, ScheduleRetry, ClearStream, ClearRun,
       Streaming, Failing
  <2> QED
    BY <1>2, <2>1 DEF Settlement, This
<1> QED
  BY <1>1, <1>2, AttemptNext

LEMMA StepFailing == ASSUME Held, Settlement, Next, Failing' PROVE This' \in dropped'
<1>1. CASE ScheduleRetry
  BY <1>1 DEF ScheduleRetry, This
<1>2. CASE Failing /\ UNCHANGED <<bound, dropped>>
  BY <1>2 DEF Settlement, This
<1> QED
  BY <1>1, <1>2, AttemptNext

LEMMA StepRunningKept ==
  ASSUME Held, Settlement, Next, (pc \in Running /\ ~ Streaming)', k' >= 0
  PROVE  Kept(This)'
<1>1. CASE Begin
  <2>1. k' = k /\ k = -1
    BY <1>1 DEF Begin, run, Settlement, Running
  <2> QED
    BY <2>1
<1>2. CASE Commit
  BY <1>2, CommitAdds, LandedNext DEF Commit, Kept, This, Landed
<1>3. CASE ScheduleRetry
  BY <1>3 DEF ScheduleRetry, Kept, This
<1>4. CASE pc \in Running /\ ~ Streaming /\ UNCHANGED <<k, bound>>
  <2>1. Kept(This) /\ This' = This
    BY <1>4 DEF Settlement, This
  <2> QED
    BY <2>1, KeptStays DEF Kept, Landed
<1> QED
  BY <1>1, <1>2, <1>3, <1>4, AttemptNext

LEMMA StepRunningSettled ==
  ASSUME Held, Settlement, Next, pc' \in Running
  PROVE  (\A t \in bound : Settled(t) \/ (t = This /\ Streaming))'
<1>1. CASE Begin
  <2>1. \A t \in bound : Settled(t) /\ (t = This /\ Streaming => t \in dropped)
    BY <1>1 DEF Begin, Settlement, Streaming
  <2> QED
    BY <1>1, <2>1, SettledAll DEF Begin
<1>2. CASE pc \in Running /\ ~ Streaming /\ UNCHANGED bound
  BY <1>2, RunningSettled, SettledAll
<1>3. CASE Request \/ EndAborted
  <2>1. /\ pc \in Running /\ ~ Streaming /\ Streaming'
        /\ This < MaxTurns /\ bound' = bound \cup {This + 1}
    BY <1>3 DEF Request, EndAborted, ResultsOver, Running, Streaming
  <2>2. This' = This + 1
    BY <2>1, Binding DEF Held
  <2>3. \A t \in bound : Settled(t)'
    BY <2>1, RunningSettled, SettledAll
  <2> QED
    BY <2>1, <2>2, <2>3
<1>4. CASE Streaming /\ UNCHANGED bound /\ (Commit \/ ScheduleRetry \/ Streaming')
  <2>1. ASSUME NEW t \in bound, t # This PROVE Settled(t)'
    <3>1. Settled(t)
      BY <1>4, <2>1 DEF Settlement, Streaming, Running
    <3> QED
      BY <2>1, <3>1, SettledStays
  <2>2. CASE Streaming'
    BY <1>4, <2>1, <2>2 DEF This
  <2>3. CASE Commit \/ ScheduleRetry
    <3>1. Kept(This)'
      BY <1>4, <2>3, CommitAdds, LandedNext DEF ScheduleRetry, Kept, This, Landed
    <3> QED
      BY <1>4, <2>1, <3>1 DEF Settled, This
  <2> QED
    BY <1>4, <2>2, <2>3
<1>5. Commit \/ ScheduleRetry => Streaming /\ UNCHANGED bound
  BY DEF Commit, ScheduleRetry, Streaming
<1>6. Failing => pc \in Running /\ ~ Streaming
  BY DEF Failing, Running, Streaming
<1> QED
  BY <1>1, <1>2, <1>3, <1>4, <1>5, <1>6, AttemptNext

LEMMA StepClosed == ASSUME Held, Settlement, Next, ~ op'.open PROVE (\A t \in bound : Settled(t))'
<1>1. ASSUME pc = "retired" \/ ~ op.open PROVE \A t \in bound : Settled(t)'
  <2>1. \A t \in bound : Settled(t) /\ (t = This /\ Streaming => t \in dropped)
    BY <1>1 DEF Settlement, Held, Streaming, Running
  <2> QED
    BY <2>1, SettledAll
<1>2. CASE Close
  BY <1>1, <1>2 DEF Close
<1>3. CASE Finish
  <2>1. pc \in Running /\ ~ Streaming /\ bound' = bound
    BY <1>3 DEF Finish, Running, Streaming
  <2> QED
    BY <2>1, RunningSettled, SettledAll
<1>4. CASE UNCHANGED op
  <2>1. ~ op.open /\ pc \notin Running
    BY <1>4 DEF Held
  <2>2. bound' = bound
    BY <2>1, Framing DEF Framed, Retire, Busy, Begin, Request, EndAborted, ResultsOver, ScheduleRetry,
       ClearStream, ClearRun, Running
  <2> QED
    BY <1>1, <2>1, <2>2
<1>5. ~ Begin
  BY Opens
<1> QED
  BY <1>2, <1>3, <1>4, <1>5, Framing DEF Framed

LEMMA StepAwaited ==
  ASSUME Held, Settlement, Next, retry' \notin bound' \cup {0}
  PROVE  (\A t \in bound : Settled(t))'
<1>1. CASE Request \/ EndAborted
  <2>1. /\ UNCHANGED retry /\ This < MaxTurns /\ bound' = bound \cup {This + 1}
    BY <1>1 DEF Request, EndAborted
  <2> QED
    BY <1>1, <2>1, TurnNow DEF Held, Shape
<1>2. CASE ScheduleRetry
  <2>1. pc' \in Running /\ ~ Streaming'
    BY <1>2 DEF ScheduleRetry, Running, Streaming
  <2> QED
    BY <2>1, StepRunningSettled
<1>3. CASE UNCHANGED <<bound, retry>>
  <2>1. \A t \in bound : Settled(t) /\ (t = This /\ Streaming => t \in dropped)
    BY <1>3 DEF Settlement
  <2> QED
    BY <1>3, <2>1, SettledAll
<1> QED
  BY <1>1, <1>2, <1>3, Framing DEF Framed, Retire, Begin, ClearStream, ClearRun, history

LEMMA RecoveryNext ==
  ASSUME Held, Next
  PROVE  /\ hurt' = "retry" => hurt = "retry" \/ (Open /\ op.open /\ Died)
         /\ pc' = "retired" => pc = "retired" \/ Retire
<1> USE DEF durable, run, process, history
<1>1. CASE \/ Crash \/ Refused \/ Opened \/ Failed \/ Cancelled \/ Finish \/ Leave
           \/ Open \/ Prompt \/ Resume \/ Retire \/ Close
  BY <1>1 DEF Crash, Refused, Opened, Failed, Cancelled, Finish, Leave, Over,
     Open, Prompt, Resume, Retire, Close
<1>2. CASE Decline \/ Abort \/ Salvage \/ RunAgain \/ RepairCall
  BY <1>2 DEF Decline, Abort, Salvage, RunAgain, RepairCall
<1>3. CASE \E c \in CallNo : Tool(c)
  BY <1>3 DEF Tool, Prepare, Checkpoint, RefuseCheckpoint, Skip, EnterTool, FinishTool
<1>4. CASE \/ StoreFrame \/ BreakStream \/ Commit \/ ClearStream \/ ClearRun
           \/ Begin \/ Request \/ StreamCall \/ ScheduleRetry
  BY <1>4 DEF StoreFrame, BreakStream, Commit, ClearStream, ClearRun, Begin, Request, StreamCall,
     ScheduleRetry
<1>5. CASE \/ Wait \/ AppendResult \/ NextTurn \/ Terminate \/ EndAborted
           \/ \E s \in {"done", "tools", "retry", "error", "aborted"} : EndMessage(s)
  BY <1>5 DEF Wait, AppendResult, NextTurn, Terminate, EndAborted, EndMessage
<1> QED
  BY <1>1, <1>2, <1>3, <1>4, <1>5 DEF Next, Live, Recover

LEMMA StepRecovered ==
  ASSUME Held, Settlement, Next, hurt' = "retry" \/ pc' = "retired"
  PROVE  (\A t \in bound : Settled(t))'
<1>1. ASSUME \A t \in bound : Settled(t), pc \notin Running PROVE \A t \in bound' : Settled(t)'
  <2>1. ~ Streaming
    BY <1>1 DEF Streaming, Running
  <2>2. bound' = bound
    BY <1>1, Framing DEF Framed, Retire, Begin, Request, EndAborted, ResultsOver, ScheduleRetry,
       ClearStream, ClearRun, Running, history
  <2> QED
    BY <1>1, <2>1, <2>2, SettledAll
<1>2. CASE Open /\ op.open /\ Died
  BY <1>1, <1>2 DEF Open, Died, Settlement, Running
<1>3. CASE Retire
  <2>1. \A t \in bound : Settled(t)
    BY <1>3 DEF Retire, Settlement, Unsettled, Settled, Kept
  <2> QED
    BY <1>1, <1>3, <2>1 DEF Retire, Busy, Running
<1>4. CASE hurt = "retry" \/ pc = "retired"
  BY <1>1, <1>4 DEF Settlement, Running, Recovering
<1> QED
  BY <1>2, <1>3, <1>4, RecoveryNext

LEMMA StepFresh ==
  ASSUME Held, Settlement, Next
  PROVE  /\ hurt' = "retry" => pc' \in Recovering
         /\ pc' \notin Running /\ goal' # "fail" => k' = -1
<1>0. /\ hurt = "retry" => pc \in Recovering
      /\ pc \notin Running /\ goal # "fail" => k = -1
      /\ pc \in Running => pc \notin Recovering
      /\ pc \in {"off", "ready"} => goal = "none"
  BY DEF Settlement, Running, Recovering, Held, Control
<1> USE DEF Running, Recovering, durable, run, process, history
<1>1. CASE \/ Crash \/ Refused \/ Opened \/ Failed \/ Cancelled \/ Finish \/ Leave
           \/ Open \/ Prompt \/ Resume \/ Retire \/ Close
  BY <1>0, <1>1 DEF Crash, Refused, Opened, Failed, Cancelled, Finish, Leave, Over, Fresh,
     Open, Prompt, Resume, Retire, Busy, Close
<1>2. CASE Decline \/ Abort \/ Salvage \/ RunAgain \/ RepairCall
  BY <1>0, <1>2 DEF Decline, Abort, Salvage, RunAgain, RepairCall
<1>3. CASE \E c \in CallNo : Tool(c)
  BY <1>0, <1>3 DEF Tool, Prepare, Checkpoint, RefuseCheckpoint, Skip, EnterTool, FinishTool
<1>4. CASE \/ StoreFrame \/ BreakStream \/ Commit \/ ClearStream \/ ClearRun
           \/ Begin \/ Request \/ StreamCall \/ ScheduleRetry
  BY <1>0, <1>4 DEF StoreFrame, BreakStream, Commit, ClearStream, ClearRun, Begin, Request, StreamCall,
     ScheduleRetry
<1>5. CASE \/ Wait \/ AppendResult \/ NextTurn \/ Terminate \/ EndAborted
           \/ \E s \in {"done", "tools", "retry", "error", "aborted"} : EndMessage(s)
  BY <1>0, <1>5 DEF Wait, AppendResult, NextTurn, Terminate, EndAborted, ResultsOver, EndMessage
<1> QED
  BY <1>1, <1>2, <1>3, <1>4, <1>5 DEF Next, Live, Recover

LEMMA StepSettlement == ASSUME Held, Once, Settlement, Next PROVE Settlement'
  BY StepCleared, StepStreaming, StepFailing, StepLanded, StepRunningKept, StepRunningSettled,
     StepClosed, StepAwaited, StepRecovered, StepFresh
     DEF Settlement

-----------------------------------------------------------------------------

(* The end of the log.                                                     *)
LEMMA AddedNext ==
  ASSUME Held, NEW e, Adds(e)
  PROVE  /\ \A is : Tip(is)' <=> e.is = is
         /\ e.is # "result" => Batch' = e
         /\ e.is = "result" => Batch' = Batch
<1>1. log \in Seq(Entry) /\ e \in Entry /\ log' = Append(log, e)
  BY DEF Held, Shape, Adds
<1>2. Len(log) \in Nat /\ Len(log') = Len(log) + 1 /\ log'[Len(log) + 1] = e /\ log' # <<>>
  BY <1>1, Appended, AppendProperties
<1> QED
  BY <1>1, <1>2, BatchAppended DEF Tip

LEMMA StepInPlace ==
  ASSUME Held, ResultsInPlace, NEW e, Adds(e),
         e.is = "result" => Batch.is = "assistant" /\ Batch.turn = e.turn
  PROVE  ResultsInPlace'
<1>0. log \in Seq(Entry) /\ e \in Entry /\ log' = Append(log, e)
  BY DEF Held, Shape, Adds
<1>1. /\ Len(log) \in Nat /\ DOMAIN log = 1..Len(log) /\ DOMAIN log' = 1..(Len(log) + 1)
      /\ \A i \in 1..Len(log) : log'[i] = log[i]
      /\ log'[Len(log) + 1] = e
  BY <1>0, Appended
<1> DEFINE Follows(i) == \E j \in 1..(i - 1) : /\ log'[j].is = "assistant"
                                              /\ log'[j].turn = log'[i].turn
                                              /\ \A l \in (j + 1)..i : log'[l].is = "result"
<1>2. ASSUME NEW i \in 1..Len(log), log[i].is = "result" PROVE Follows(i)
  <2>1. PICK j \in 1..(i - 1) : /\ log[j].is = "assistant"
                                /\ log[j].turn = log[i].turn
                                /\ \A l \in (j + 1)..i : log[l].is = "result"
    BY <1>1, <1>2 DEF ResultsInPlace
  <2> QED
    BY <1>1, <2>1
<1>3. ASSUME e.is = "result" PROVE Follows(Len(log) + 1)
  <2>1. Batch.is = "assistant" /\ Batch.turn = e.turn
    BY <1>3
  <2>2. User.is # "assistant"
    BY UserAndNotice
  <2>3. PICK j \in Places(log) : Batch = log[j] /\ \A i \in Places(log) : i <= j
    BY <1>0, <2>1, <2>2, BatchPlace, BatchIs
  <2>4. j \in 1..Len(log) /\ \A l \in (j + 1)..Len(log) : log[l].is = "result"
    BY <1>1, <2>3 DEF Places
  <2> QED
    BY <1>1, <1>3, <2>1, <2>3, <2>4
<1>4. \A i \in DOMAIN log' : log'[i].is = "result" => Follows(i)
  BY <1>1, <1>2, <1>3
<1> QED
  BY <1>4 DEF ResultsInPlace

Asking == pc = "turn" \/ Streaming \/ Failing

LEMMA EndingNext ==
  ASSUME Held, Next
  PROVE  /\ Asking' => \/ Begin
                       \/ (NextTurn \/ EndAborted) /\ UNCHANGED <<log, late>>
                       \/ Asking /\ UNCHANGED <<log, late>>
         /\ pc' = "results" => AppendResult \/ (pc = "results" /\ UNCHANGED log)
         /\ pc' = "ended" /\ stop' = "tools" =>
              \/ k > 0 /\ k' = k
              \/ pc = "ended" /\ stop = "tools" /\ k' = k
         /\ InBatch' => \/ Commit /\ stop = "tools"
                        \/ AppendResult
                        \/ InBatch /\ UNCHANGED log /\ (pc = "results" => pc' = "results")
         /\ InBatch' => UNCHANGED <<k, bound>>
         /\ goal' = "resume" /\ ~ late' =>
              \/ Resume
              \/ goal = "resume" /\ ~ late
<1>0. pc \in Running => pc \notin Recovering
  BY DEF Running, Recovering
<1> USE DEF Asking, Streaming, Failing, InBatch, durable, run, process, history
<1>1. CASE \/ Crash \/ Refused \/ Opened \/ Failed \/ Cancelled \/ Finish \/ Leave
           \/ Open \/ Prompt \/ Resume \/ Retire \/ Close
  BY <1>1 DEF Crash, Refused, Opened, Failed, Cancelled, Finish, Leave, Over,
     Open, Prompt, Resume, Retire, Close
<1>2. CASE Decline \/ Abort \/ Salvage \/ RunAgain \/ RepairCall
  BY <1>0, <1>2 DEF Decline, Abort, Salvage, RunAgain, RepairCall, Busy
<1>3. CASE \E c \in CallNo : Tool(c)
  BY <1>3 DEF Tool, Prepare, Checkpoint, RefuseCheckpoint, Skip, EnterTool, FinishTool
<1>4. CASE \/ StoreFrame \/ BreakStream \/ Commit \/ ClearStream \/ ClearRun
           \/ StreamCall \/ ScheduleRetry
  BY <1>4 DEF StoreFrame, BreakStream, Commit, ClearStream, ClearRun, StreamCall, ScheduleRetry
<1>5. CASE Begin \/ Request \/ EndAborted
  BY <1>5 DEF Begin, Request, EndAborted
<1>6. CASE \/ Wait \/ AppendResult \/ NextTurn \/ Terminate
           \/ \E s \in {"done", "tools", "retry", "error", "aborted"} : EndMessage(s)
  BY <1>6 DEF Wait, AppendResult, NextTurn, Terminate, ResultsOver, EndMessage, Stops
<1> QED
  BY <1>1, <1>2, <1>3, <1>4, <1>5, <1>6 DEF Next, Live, Recover

LEMMA StepEnding == ASSUME Held, Ending, Next PROVE Ending'
<1>1. ResultsInPlace'
  <2>1. CASE UNCHANGED log
    BY <2>1 DEF Ending, ResultsInPlace
  <2>2. CASE Resume \/ Decline \/ Begin
    BY <2>1, <2>2, AnnounceAdds, BeginAdds, UserAndNotice, StepInPlace DEF Ending, Resume, Decline
  <2>3. CASE Salvage \/ Commit
    BY <2>3, SalvageAdds, CommitAdds, StepInPlace DEF Ending
  <2>4. CASE RepairCall
    <3>1. Batch.is = "assistant"
      BY <2>4, MissingCalls DEF RepairCall, Held
    <3> QED
      BY <2>4, <3>1, RepairAdds, StepInPlace DEF Ending
  <2>5. CASE AppendResult
    <3>1. Batch.is = "assistant" /\ Batch.turn = This
      BY <2>5 DEF AppendResult, Ending, InBatch
    <3> QED
      BY <2>5, <3>1, ResultAdds, StepInPlace DEF Ending
  <2> QED
    BY <2>1, <2>2, <2>3, <2>4, <2>5, Framing DEF Framed
<1>2. ASSUME InBatch' PROVE (Batch.is = "assistant" /\ Batch.turn = This /\ Batch.call = k /\ k > 0)'
  <2>0. This' = This /\ k' = k /\ k \in -1..Calls
    BY <1>2, EndingNext DEF This, Held, Shape
  <2>1. CASE Commit /\ stop = "tools"
    <3>1. k > 0
      BY <2>1 DEF Ending, Commit
    <3>2. PICK e : Adds(e) /\ e.is = "assistant" /\ e.turn = This /\ e.call = k
      BY <2>1, CommitAdds
    <3>3. Batch' = e
      BY <3>2, AddedNext
    <3> QED
      BY <2>0, <3>1, <3>2, <3>3
  <2>2. CASE AppendResult
    <3>1. Batch.is = "assistant" /\ Batch.turn = This /\ Batch.call = k /\ k > 0
      BY <2>2 DEF AppendResult, Ending, InBatch
    <3>2. Batch' = Batch
      BY <2>2, ResultAdds, AddedNext
    <3> QED
      BY <2>0, <3>1, <3>2
  <2>3. CASE InBatch /\ UNCHANGED log
    <3>1. Batch' = Batch
      BY <2>3 DEF Batch
    <3> QED
      BY <2>0, <2>3, <3>1 DEF Ending
  <2> QED
    BY <1>2, <2>1, <2>2, <2>3, EndingNext
<1>3. pc' = "ended" /\ stop' = "tools" => k' > 0
  BY EndingNext DEF Ending
<1>4. pc' = "results" => Tip("result")'
  BY EndingNext, ResultAdds, AddedNext DEF Ending, Tip
<1>5. goal' = "resume" /\ ~ late' => ~ op'.open /\ ~ Tip("assistant")'
  <2>1. CASE Resume
    <3>1. UNCHANGED log \/ Adds(Notice)
      BY <2>1, AnnounceAdds DEF Resume
    <3>2. ~ Tip("assistant")'
      BY <2>1, <3>1, AddedNext, UserAndNotice DEF Resume, Tip
    <3>3. ~ late' => ~ op'.open
      BY <2>1 DEF Resume
    <3> QED
      BY <3>2, <3>3
  <2>2. CASE goal = "resume" /\ ~ late
    <3>1. ~ op.open /\ ~ Tip("assistant") /\ pc \notin Running /\ pc # "ready"
      BY <2>2 DEF Ending, Held, Control, Recovering
    <3>2. UNCHANGED log \/ Begin
      BY <3>1, Framing DEF Framed, Resume, Decline, RepairCall, Salvage, Busy, Commit, AppendResult, Running
    <3>3. ~ Begin \/ goal' # "resume"
      BY DEF Begin
    <3>4. ~ Begin => ~ op'.open
      BY <3>1, Closes, Framing DEF Framed
    <3> QED
      BY <3>1, <3>2, <3>3, <3>4 DEF Tip
  <2> QED
    BY <2>1, <2>2, EndingNext
<1>6. Asking' => ~ Tip("assistant")' \/ late'
  <2>1. CASE Begin
    <3>1. CASE goal = "prompt"
      <4>1. Adds(User)
        BY <2>1, <3>1, UserAndNotice DEF Begin, Adds
      <4> QED
        BY <4>1, AddedNext, UserAndNotice
    <3>2. CASE goal = "resume" /\ late
      BY <2>1, <3>2 DEF Begin
    <3>3. CASE goal = "resume" /\ ~ late
      BY <2>1, <3>3 DEF Begin, Ending, Tip
    <3> QED
      BY <2>1, <3>1, <3>2, <3>3 DEF Begin
  <2>2. CASE (NextTurn \/ EndAborted) /\ UNCHANGED <<log, late>>
    BY <2>2 DEF NextTurn, EndAborted, ResultsOver, Ending, Tip
  <2>3. CASE Asking /\ UNCHANGED <<log, late>>
    BY <2>3 DEF Ending, Asking, Tip
  <2> QED
    BY <2>1, <2>2, <2>3, EndingNext
<1> QED
  BY <1>1, <1>2, <1>3, <1>4, <1>5, <1>6 DEF Ending, Asking

-----------------------------------------------------------------------------

(* The transcript's calls and their results.                               *)
LEMMA ToldIs ==
  /\ \A t, n : <<t, n>> \in Told <=> \E i \in DOMAIN log : /\ log[i].is = "assistant"
                                                          /\ log[i].turn = t
                                                          /\ n \in 1..log[i].call
  /\ (\A t, n : <<t, n>> \in Told <=> \E i \in DOMAIN log : /\ log[i].is = "assistant"
                                                           /\ log[i].turn = t
                                                           /\ n \in 1..log[i].call)'
  BY DEF Told

LEMMA ToldNext ==
  ASSUME Held, NEW e, Adds(e)
  PROVE  /\ Told \subseteq Told'
         /\ e.is # "assistant" => Told' = Told
         /\ e.is = "assistant" => Told' = Told \cup {<<e.turn, n>> : n \in 1..e.call}
<1>1. log \in Seq(Entry) /\ e \in Entry /\ log' = Append(log, e)
  BY DEF Held, Shape, Adds
<1>2. /\ Len(log) \in Nat /\ DOMAIN log = 1..Len(log) /\ DOMAIN log' = 1..(Len(log) + 1)
      /\ \A i \in 1..Len(log) : log'[i] = log[i]
      /\ log'[Len(log) + 1] = e
  BY <1>1, Appended
<1> QED
  BY <1>2 DEF Told

LEMMA HeardNext ==
  ASSUME Held, NEW e, Adds(e)
  PROVE  /\ \A t, n : Heard(<<t, n>>)' <=> Heard(<<t, n>>) \/ (e.is = "result" /\ e.turn = t /\ e.call = n)
         /\ \A t : Answered(t)' = Answered(t) \cup (IF e.is = "result" /\ e.turn = t THEN {e.call} ELSE {})
<1>1. log \in Seq(Entry) /\ e \in Entry /\ log' = Append(log, e)
  BY DEF Held, Shape, Adds
<1>2. /\ Len(log) \in Nat /\ DOMAIN log = 1..Len(log) /\ DOMAIN log' = 1..(Len(log) + 1)
      /\ \A i \in 1..Len(log) : log'[i] = log[i]
      /\ log'[Len(log) + 1] = e
  BY <1>1, Appended
<1>3. \A t, n : Heard(<<t, n>>)' <=> Heard(<<t, n>>) \/ (e.is = "result" /\ e.turn = t /\ e.call = n)
  BY <1>2 DEF Heard
<1>4. \A t : Answered(t)' = Answered(t) \cup (IF e.is = "result" /\ e.turn = t THEN {e.call} ELSE {})
  BY <1>2 DEF Answered
<1> QED
  BY <1>3, <1>4

LEMMA HeardAnswered == \A t, n : Heard(<<t, n>>) <=> n \in Answered(t)
  BY DEF Heard, Answered

(* A result's message is in the log.                                       *)
LEMMA AnsweredLanded == ASSUME Held, ResultsInPlace, NEW t, Answered(t) # {} PROVE Landed(t)
<1>1. PICK i \in DOMAIN log : log[i].is = "result" /\ log[i].turn = t
  BY DEF Answered
<1>2. PICK j \in 1..(i - 1) : log[j].is = "assistant" /\ log[j].turn = log[i].turn
  BY <1>1 DEF ResultsInPlace
<1>3. j \in DOMAIN log
  BY LenProperties DEF Held, Shape
<1> QED
  BY <1>1, <1>2, <1>3 DEF Landed

LEMMA TurnLanded == ASSUME NEW t, NEW n, <<t, n>> \in Told PROVE Landed(t)
  BY ToldIs DEF Landed

(* The repaired call is no longer missing.                                 *)
LEMMA MissingNext ==
  ASSUME Held, NEW e, Adds(e), e.is = "result", Batch.is = "assistant", e.turn = Batch.turn
  PROVE  Missing' = Missing \ {e.call}
<1>1. Batch' = Batch /\ Answered(Batch.turn)' = Answered(Batch.turn) \cup {e.call}
  BY AddedNext, HeardNext DEF Answered
<1> QED
  BY <1>1 DEF Missing

(* Who is in a batch, and who in a recovery.                               *)
LEMMA StagesNext ==
  ASSUME Held, Next
  PROVE  /\ pc' \in {"tools", "results"} =>
              \/ ClearStream /\ stop = "tools"
              \/ \E c \in CallNo : Tool(c)
              \/ pc \in {"tools", "results"} /\ UNCHANGED <<st, started, ran, k, bound>>
         /\ pc' = "results" =>
              \/ AppendResult
              \/ pc = "results" /\ UNCHANGED <<st, k>> /\ (aborted => aborted')
         /\ pc' = "recover" =>
              \/ RunAgain \/ RepairCall \/ Salvage
              \/ Open \/ Prompt \/ Resume \/ Close \/ BreakStream
              \/ pc = "recover" /\ UNCHANGED <<log, op, st, ran>>
         /\ pc' \in {"off", "ready", "stream"} =>
              \/ st' = [c \in CallNo |-> "todo"]
              \/ pc \in {"off", "ready", "stream"} /\ st' = st
         /\ pc' = "retired" => Retire \/ (pc = "retired" /\ st' = st)
         /\ pc' \in {"ended", "committed"} /\ stop' = "tools" =>
              \/ pc = "stream" /\ st' = st /\ pc' = "ended"
              \/ Commit
              \/ pc \in {"ended", "committed"} /\ stop = "tools" /\ pc' = pc
                   /\ UNCHANGED <<st, started, bound, log>>
<1>0. pc \in Running => pc \notin Recovering
  BY DEF Running, Recovering
<1> USE DEF durable, run, process, history
<1>1. CASE \/ Crash \/ Refused \/ Opened \/ Failed \/ Cancelled \/ Finish \/ Leave
           \/ Open \/ Prompt \/ Resume \/ Retire \/ Close
  BY <1>1 DEF Crash, Refused, Opened, Failed, Cancelled, Finish, Leave, Over, Fresh,
     Open, Prompt, Resume, Retire, Close
<1>2. CASE Decline \/ Abort \/ Salvage \/ RunAgain \/ RepairCall
  BY <1>0, <1>2 DEF Decline, Abort, Salvage, RunAgain, RepairCall, Busy
<1>3. CASE \E c \in CallNo : Tool(c)
  BY <1>3 DEF Tool, Prepare, Checkpoint, RefuseCheckpoint, Skip, EnterTool, FinishTool, SetCall
<1>4. CASE \/ StoreFrame \/ BreakStream \/ Commit \/ ClearStream \/ ClearRun
           \/ StreamCall \/ ScheduleRetry
  BY <1>4 DEF StoreFrame, BreakStream, Commit, ClearStream, ClearRun, StreamCall, ScheduleRetry
<1>5. CASE Begin \/ Request \/ EndAborted
  BY <1>5 DEF Begin, Request, EndAborted
<1>6. CASE \/ Wait \/ AppendResult \/ NextTurn \/ Terminate
           \/ \E s \in {"done", "tools", "retry", "error", "aborted"} : EndMessage(s)
  BY <1>6 DEF Wait, AppendResult, NextTurn, Terminate, ResultsOver, EndMessage
<1> QED
  BY <1>1, <1>2, <1>3, <1>4, <1>5, <1>6 DEF Next, Live, Recover

LEMMA StepSays ==
  ASSUME Held, Batching, Next
  PROVE  (\A i \in DOMAIN log : log[i].is = "result" => log[i].says \in {"ran", "skipped", "unknown"})'
<1>1. ASSUME NEW e, Adds(e), e.is = "result" => e.says \in {"ran", "skipped", "unknown"}
      PROVE  (\A i \in DOMAIN log : log[i].is = "result" => log[i].says \in {"ran", "skipped", "unknown"})'
  <2>1. log \in Seq(Entry) /\ e \in Entry /\ log' = Append(log, e)
    BY <1>1 DEF Held, Shape, Adds
  <2>2. /\ Len(log) \in Nat /\ DOMAIN log = 1..Len(log) /\ DOMAIN log' = 1..(Len(log) + 1)
        /\ \A i \in 1..Len(log) : log'[i] = log[i]
        /\ log'[Len(log) + 1] = e
    BY <2>1, Appended
  <2> QED
    BY <1>1, <2>2 DEF Batching
<1>2. CASE UNCHANGED log
  BY <1>2 DEF Batching
<1>3. CASE RepairCall \/ AppendResult
  BY <1>1, <1>3, RepairAdds, ResultAdds
<1>4. CASE Resume \/ Decline \/ Begin \/ Commit \/ Salvage
  BY <1>1, <1>2, <1>4, AnnounceAdds, BeginAdds, CommitAdds, SalvageAdds, UserAndNotice DEF Resume, Decline
<1> QED
  BY <1>2, <1>3, <1>4, Framing DEF Framed

LEMMA ToldStays == ASSUME Held, Next PROVE Told \subseteq Told'
<1>1. CASE UNCHANGED log
  BY <1>1 DEF Told
<1> QED
  BY <1>1, StepLog, ToldNext

(* A call of the batch at hand is in the transcript.                       *)
LEMMA BatchTold ==
  ASSUME Held, Batch.is = "assistant", NEW c \in 1..Batch.call
  PROVE  <<Batch.turn, c>> \in Told
<1>1. \E i \in DOMAIN log : Batch = log[i]
  BY BatchPlace, BatchIs, UserAndNotice DEF Places, Held, Shape
<1> QED
  BY <1>1, ToldIs

LEMMA StepStarted == ASSUME Held, Ending, Batching, Next PROVE started' \subseteq Told'
<1>1. CASE UNCHANGED started
  BY <1>1, ToldStays DEF Batching
<1>2. ASSUME NEW c \in CallNo, Checkpoint(c) PROVE started' \subseteq Told'
  <2>1. pc = "tools" /\ st[c] = "ready" /\ started' = started \cup {<<This, c>>}
    BY <1>2 DEF Checkpoint, SetCall
  <2>2. c \in CallNo /\ c <= k /\ Batch.is = "assistant" /\ Batch.turn = This /\ Batch.call = k
    BY <2>1 DEF Batching, Batched, Ending, InBatch
  <2>3. c \in 1..Batch.call
    BY <2>2, BoundsAssumption DEF CallNo, Held, Shape
  <2>4. <<This, c>> \in Told
    BY <2>2, <2>3, BatchTold
  <2> QED
    BY <2>1, <2>4, ToldStays DEF Batching
<1> QED
  BY <1>1, <1>2, Framing DEF Framed

LEMMA StepEntered ==
  ASSUME Held, Batching, Next
  PROVE  \A c \in ToolCall : ran'[c] > 0 => c \in started'
<1>0. ran \in [ToolCall -> Nat] /\ started \subseteq started'
  BY Framing DEF Held, Shape, Framed, Checkpoint
<1>1. CASE RunAgain
  BY <1>0, <1>1 DEF RunAgain, Replays, Batching
<1>2. ASSUME NEW c \in CallNo, EnterTool(c) PROVE \A d \in ToolCall : ran'[d] > 0 => d \in started'
  <2>1. <<This, c>> \in started
    BY <1>2 DEF EnterTool, SetCall, Batching
  <2> QED
    BY <1>0, <1>2, <2>1 DEF EnterTool, Batching
<1> QED
  BY <1>0, <1>1, <1>2, Framing DEF Framed, Batching

LEMMA StepUntouched ==
  ASSUME Held, Batching, Next
  PROVE  /\ pc' \in {"off", "ready", "retired", "stream"} => Untouched'
         /\ pc' \in {"ended", "committed"} /\ stop' = "tools" => Untouched'
<1>1. ASSUME Retire PROVE Untouched'
  <2>1. \A c \in CallNo : st[c] = "todo"
    BY <1>1 DEF Retire, Busy, Batching
  <2> QED
    BY <1>1, <2>1 DEF Retire, run, Untouched, Held, Shape
<1>2. Commit /\ stop' = "tools" => Untouched'
  BY DEF Commit, run, Batching, Untouched
<1> QED
  BY <1>1, <1>2, StagesNext DEF Batching, Untouched

LEMMA StepUnstarted ==
  ASSUME Held, Once, Settlement, Ending, Batching, Next
  PROVE  /\ pc' = "committed" /\ stop' = "tools" => \A c \in CallNo : <<This', c>> \notin started'
         /\ InBatch' /\ pc' # "results" => Answered(This)' = {}
<1>1. ASSUME Commit
      PROVE  (\A c \in CallNo : <<This', c>> \notin started') /\ Answered(This)' = {}
  <2>1. ~ Landed(This) /\ This' = This /\ started' = started
    BY <1>1 DEF Commit, Settlement, Streaming, This, history
  <2>2. \A c \in CallNo : <<This, c>> \notin started
    BY <2>1, TurnLanded DEF Batching
  <2>3. Answered(This) = {}
    BY <2>1, AnsweredLanded DEF Ending
  <2>4. Answered(This)' = {}
    BY <1>1, <2>1, <2>3, CommitAdds, HeardNext DEF Answered
  <2> QED
    BY <2>1, <2>2, <2>4
<1>2. CASE ~ Commit
  <2>1. pc' = "committed" /\ stop' = "tools" => \A c \in CallNo : <<This', c>> \notin started'
    BY <1>2, StagesNext DEF Batching, This
  <2>2. InBatch' /\ pc' # "results" => Answered(This)' = {}
    BY <1>2, EndingNext DEF Batching, InBatch, AppendResult, This, Answered
  <2> QED
    BY <2>1, <2>2
<1> QED
  BY <1>1, <1>2

LEMMA StepBatchOver == ASSUME Held, Batching, Next, pc' = "results" PROVE BatchOver'
<1>1. CASE AppendResult
  BY <1>1 DEF AppendResult, BatchOver, Reached, Batched, run
<1>2. CASE pc = "results" /\ UNCHANGED <<st, k>> /\ (aborted => aborted')
  BY <1>2 DEF Batching, BatchOver, Reached, Batched
<1> QED
  BY <1>1, <1>2, StagesNext

(* The batch at hand, call by call.                                        *)
Handled(c) ==
  /\ st[c] # "todo" => c \in Batched
  /\ st[c] \in {"started", "running", "ran"} => <<This, c>> \in started
  /\ st[c] \in {"todo", "ready", "skipped"} => <<This, c>> \notin started
  /\ ran[<<This, c>>] > 0 <=> st[c] \in {"running", "ran"}

LEMMA ToolHandled ==
  ASSUME Held, Batching, NEW d \in CallNo, Tool(d), NEW c \in CallNo
  PROVE  Handled(c)'
<1>0. /\ This \in Turns /\ <<This, c>> \in ToolCall /\ <<This, d>> \in ToolCall
      /\ pc = "tools"
  <2>1. pc = "tools"
    BY DEF Tool, Prepare, Checkpoint, RefuseCheckpoint, Skip, EnterTool, FinishTool, SetCall
  <2> QED
    BY <2>1, TurnNow DEF Held, Control, Running, ToolCall
<1>1. Handled(c) /\ Handled(d)
  BY <1>0 DEF Batching, Handled
<1>2. /\ ran \in [ToolCall -> Nat] /\ st \in [CallNo -> Stages]
      /\ This' = This /\ k' = k
  BY DEF Held, Shape, This, Tool, Prepare, Checkpoint, RefuseCheckpoint, Skip, EnterTool, FinishTool, durable
<1>3. CASE Prepare(d)
  BY <1>1, <1>2, <1>3 DEF Prepare, SetCall, Handled, Batched, durable, history
<1>4. CASE Checkpoint(d)
  BY <1>1, <1>2, <1>4 DEF Checkpoint, SetCall, Handled, Batched, history
<1>5. CASE RefuseCheckpoint(d)
  BY <1>1, <1>2, <1>5 DEF RefuseCheckpoint, SetCall, Handled, Batched, durable
<1>6. CASE Skip(d)
  BY <1>1, <1>2, <1>6 DEF Skip, SetCall, Handled, Batched, durable, history
<1>7. CASE EnterTool(d)
  BY <1>0, <1>1, <1>2, <1>7 DEF EnterTool, SetCall, Handled, Batched, durable
<1>8. CASE FinishTool(d)
  BY <1>1, <1>2, <1>8 DEF FinishTool, SetCall, Handled, Batched, durable, history
<1> QED
  BY <1>3, <1>4, <1>5, <1>6, <1>7, <1>8 DEF Tool

LEMMA ToolOrder ==
  ASSUME Held, Batching, NEW d \in CallNo, Tool(d)
  PROVE  (\A c \in Reached, b \in Batched : b < c => b \in Reached)'
<1>0. /\ st \in [CallNo -> Stages] /\ k' = k /\ pc = "tools"
      /\ \A c \in Reached, b \in Batched : b < c => b \in Reached
  <2>1. pc = "tools" /\ k' = k
    BY DEF Tool, Prepare, Checkpoint, RefuseCheckpoint, Skip, EnterTool, FinishTool, SetCall
  <2> QED
    BY <2>1 DEF Held, Shape, Batching
<1>1. CASE Prepare(d)
  BY <1>0, <1>1 DEF Prepare, SetCall, Reached, Batched
<1>2. CASE ~ Prepare(d)
  <2>1. Reached' = Reached /\ Batched' = Batched
    BY <1>0, <1>2 DEF Tool, Checkpoint, RefuseCheckpoint, Skip, EnterTool, FinishTool, SetCall, Reached, Batched
  <2> QED
    BY <1>0, <2>1
<1> QED
  BY <1>1, <1>2

LEMMA StepHandled ==
  ASSUME Held, Batching, Next, pc' \in {"tools", "results"}
  PROVE  /\ (\A c \in Reached, d \in Batched : d < c => d \in Reached)'
         /\ (\A c \in CallNo : Handled(c))'
<1>1. CASE ClearStream /\ stop = "tools"
  <2>1. /\ pc = "committed" /\ UNCHANGED <<st, started, ran, k, bound>>
        /\ st = [c \in CallNo |-> "todo"]
        /\ \A c \in CallNo : <<This, c>> \notin started
        /\ This \in Turns
    BY <1>1, TurnNow DEF ClearStream, run, Batching, Untouched, Held, Control, Running
  <2>2. Reached' = {}
    BY <2>1 DEF Reached, Batched
  <2>3. ASSUME NEW c \in CallNo PROVE Handled(c)'
    <3>1. <<This, c>> \in ToolCall /\ <<This, c>> \notin started /\ This' = This
      BY <2>1 DEF ToolCall, This
    <3>2. ~ (ran[<<This, c>>] > 0)
      BY <3>1 DEF Batching
    <3> QED
      BY <2>1, <3>1, <3>2 DEF Handled
  <2> QED
    BY <2>2, <2>3
<1>2. CASE \E d \in CallNo : Tool(d)
  BY <1>2, ToolHandled, ToolOrder
<1>3. CASE pc \in {"tools", "results"} /\ UNCHANGED <<st, started, ran, k, bound>>
  BY <1>3 DEF Batching, Handled, Reached, Batched, This
<1> QED
  BY <1>1, <1>2, <1>3, StagesNext

LEMMA StepMissing ==
  ASSUME Held, Batching, Next, pc' = "recover", NEW d \in CallNo
  PROVE  (st[d] = "todo" \/ (st[d] = "ran" /\ op.open /\ d \in Missing /\ ran[<<Batch.turn, d>>] > 0))'
<1>0. /\ ran \in [ToolCall -> Nat] /\ st \in [CallNo -> Stages] /\ started \subseteq ToolCall
      /\ pc = "recover" => (st[d] = "todo"
                             \/ (st[d] = "ran" /\ op.open /\ d \in Missing /\ ran[<<Batch.turn, d>>] > 0))
  BY DEF Held, Shape, Batching
<1>1. CASE RunAgain
  <2>1. /\ Batch' = Batch /\ Missing' = Missing /\ op' = op /\ op.open /\ pc = "recover"
    <3>1. log' = log /\ op' = op /\ op.open /\ pc = "recover"
      BY <1>1 DEF RunAgain, Busy, durable
    <3>2. Batch' = Batch
      BY <3>1 DEF Batch
    <3> QED
      BY <3>1, <3>2 DEF Missing, Answered
  <2>2. /\ First(Missing) \in Missing /\ First(Missing) \in CallNo
        /\ <<Batch.turn, First(Missing)>> \in ToolCall
        /\ st' = [st EXCEPT ![First(Missing)] = "ran"]
        /\ ran' = [ran EXCEPT ![<<Batch.turn, First(Missing)>>] = @ + 1]
    BY <1>0, <1>1, MissingCalls DEF RunAgain, Replays, Held
  <2> QED
    BY <1>0, <2>1, <2>2
<1>2. CASE RepairCall
  <2>1. /\ First(Missing) \in CallNo /\ Batch.is = "assistant" /\ pc = "recover"
        /\ st' = [st EXCEPT ![First(Missing)] = "todo"] /\ UNCHANGED <<op, ran>>
    BY <1>2, MissingCalls DEF RepairCall, Busy, Held, history
  <2>2. PICK e : Adds(e) /\ e.is = "result" /\ e.turn = Batch.turn /\ e.call = First(Missing)
    BY <1>2, RepairAdds
  <2>3. Batch' = Batch /\ Missing' = Missing \ {First(Missing)}
    BY <2>1, <2>2, MissingNext, AddedNext
  <2> QED
    BY <1>0, <2>1, <2>3
<1>3. CASE Salvage
  BY <1>0, <1>3 DEF Salvage, Busy, process, run
<1>4. CASE Open \/ Prompt \/ Resume \/ Close \/ BreakStream
  <2>1. pc \in {"off", "ready", "retired", "stream"} /\ st' = st
    BY <1>4 DEF Open, Prompt, Resume, Close, BreakStream, run
  <2> QED
    BY <2>1 DEF Batching, Untouched
<1>5. CASE pc = "recover" /\ UNCHANGED <<log, op, st, ran>>
  <2>1. Batch' = Batch
    BY <1>5 DEF Batch
  <2>2. Missing' = Missing
    BY <1>5, <2>1 DEF Missing, Answered
  <2> QED
    BY <1>0, <1>5, <2>1, <2>2
<1> QED
  BY <1>1, <1>2, <1>3, <1>4, <1>5, StagesNext

LEMMA StepBatching ==
  ASSUME Held, Once, Settlement, Ending, Batching, Next
  PROVE  Batching'
  BY StepSays, StepStarted, StepEntered, StepUntouched, StepUnstarted, StepBatchOver,
     StepHandled, StepMissing
     DEF Batching, Handled

-----------------------------------------------------------------------------

(* What a notice hides stays hidden, and what was heard stays heard.       *)
LEMMA HiddenNext ==
  ASSUME Held, NEW e, Adds(e)
  PROVE  /\ \A t : Hidden(t) => Hidden(t)'
         /\ e = Notice => \A t : (/\ log # <<>>
                                 /\ log[Len(log)].is \in {"assistant", "result"}
                                 /\ log[Len(log)].turn = t) => Hidden(t)'
<1>1. log \in Seq(Entry) /\ e \in Entry /\ log' = Append(log, e)
  BY DEF Held, Shape, Adds
<1>2. /\ Len(log) \in Nat /\ Len(log') = Len(log) + 1
      /\ \A i \in 1..Len(log) : log'[i] = log[i]
      /\ log'[Len(log) + 1] = e
      /\ Notice' = Notice
      /\ log # <<>> => Len(log) > 0
  BY <1>1, Appended, EmptySeq, LenProperties DEF Notice, Message
<1>3. \A t : Hidden(t) => Hidden(t)'
  BY <1>2 DEF Hidden
<1>4. ASSUME e = Notice, NEW t, log # <<>>, log[Len(log)].is \in {"assistant", "result"},
             log[Len(log)].turn = t
      PROVE  Hidden(t)'
  <2>1. Len(log) \in 1..(Len(log') - 1) /\ log'[Len(log)] = log[Len(log)]
    BY <1>2, <1>4
  <2> QED
    BY <1>2, <1>4, <2>1 DEF Hidden
<1> QED
  BY <1>3, <1>4

(* The results at the end of the log are those of its last batch.          *)
LEMMA TipOfBatch ==
  ASSUME Held, ResultsInPlace, Batch.is = "assistant"
  PROVE  /\ log # <<>>
         /\ log[Len(log)].is \in {"assistant", "result"}
         /\ log[Len(log)].turn = Batch.turn
<1>0. log \in Seq(Entry) /\ Len(log) \in Nat /\ DOMAIN log = 1..Len(log)
  BY LenProperties DEF Held, Shape
<1>1. PICK j \in Places(log) : Batch = log[j] /\ \A i \in Places(log) : i <= j
  BY <1>0, BatchPlace, BatchIs, UserAndNotice
<1>2. j \in 1..Len(log) /\ \A l \in (j + 1)..Len(log) : log[l].is = "result"
  BY <1>0, <1>1 DEF Places
<1>3. CASE j = Len(log)
  BY <1>0, <1>1, <1>2, <1>3, EmptySeq
<1>4. CASE j < Len(log)
  <2>1. log[Len(log)].is = "result" /\ Len(log) \in DOMAIN log
    BY <1>0, <1>2, <1>4
  <2>2. PICK i \in 1..(Len(log) - 1) : /\ log[i].is = "assistant"
                                       /\ log[i].turn = log[Len(log)].turn
                                       /\ \A l \in (i + 1)..Len(log) : log[l].is = "result"
    BY <2>1 DEF ResultsInPlace
  <2>3. i \in Places(log) /\ i <= j
    BY <1>0, <1>1, <2>2 DEF Places
  <2>4. ~ (i < j)
    <3>1. log[j].is # "result"
      BY <1>1 DEF Places
    <3> QED
      BY <1>0, <1>2, <2>2, <3>1
  <2>5. i = j
    BY <1>0, <1>2, <2>2, <2>3, <2>4
  <2> QED
    BY <1>1, <1>0, <2>1, <2>2, <2>5, EmptySeq
<1>5. j = Len(log) \/ j < Len(log)
  <2>1. j \in 1..Len(log) /\ Len(log) \in Nat
    BY <1>0, <1>2
  <2> QED
    BY <2>1
<1> QED
  BY <1>3, <1>4, <1>5

(* A started call of the last batch is one of its calls, so when none is   *)
(* missing it was heard.                                                   *)
LEMMA CallOfBatch ==
  ASSUME Held, Once, Batching, NEW t, NEW n, <<t, n>> \in Told,
         Batch.is = "assistant", Batch.turn = t
  PROVE  n \in 1..Batch.call
<1>1. PICK i \in DOMAIN log : log[i].is = "assistant" /\ log[i].turn = t /\ n \in 1..log[i].call
  BY ToldIs
<1>2. PICK j \in DOMAIN log : Batch = log[j]
  BY BatchPlace, BatchIs, UserAndNotice DEF Places, Held, Shape
<1> QED
  BY <1>1, <1>2 DEF Once

LEMMA NoneMissing ==
  ASSUME Held, Once, Batching, NEW t, NEW n, <<t, n>> \in started,
         Batch.is = "assistant", Batch.turn = t, Missing = {}
  PROVE  Heard(<<t, n>>)
<1>1. <<t, n>> \in Told
  BY DEF Batching
<1>2. n \in 1..Batch.call
  BY <1>1, CallOfBatch
<1> QED
  BY <1>2, HeardAnswered DEF Missing

LEMMA ResultsHeard ==
  ASSUME Held, Batching, ResultsOver, NEW n, <<This, n>> \in started
  PROVE  Heard(<<This, n>>)
<1>1. n \in CallNo
  BY DEF Held, Shape, ToolCall
<1>2. n \in Reached
  BY <1>1 DEF Batching, ResultsOver, Reached
<1> QED
  BY <1>2, HeardAnswered DEF ResultsOver

LEMMA PendingNext ==
  ASSUME Held, Next, op.open, pc \in {"off", "ready", "recover", "tools", "results"}
  PROVE  \/ pc' \in {"off", "ready", "recover", "tools", "results"}
         \/ Retire
         \/ NextTurn \/ Terminate \/ EndAborted
<1> USE DEF durable, run, process, history
<1>1. CASE \/ Crash \/ Refused \/ Opened \/ Failed \/ Cancelled \/ Finish \/ Leave
           \/ Open \/ Prompt \/ Resume \/ Close
  BY <1>1 DEF Crash, Refused, Opened, Failed, Cancelled, Finish, Leave, Over,
     Open, Prompt, Resume, Close
<1>2. CASE Decline \/ Abort \/ Salvage \/ RunAgain \/ RepairCall \/ Begin
  BY <1>2 DEF Decline, Abort, Salvage, RunAgain, RepairCall, Begin
<1>3. CASE \E c \in CallNo : Tool(c)
  BY <1>3 DEF Tool, Prepare, Checkpoint, RefuseCheckpoint, Skip, EnterTool, FinishTool
<1>4. CASE \/ StoreFrame \/ BreakStream \/ Commit \/ ClearStream \/ ClearRun
           \/ StreamCall \/ ScheduleRetry \/ Request \/ Wait \/ AppendResult
           \/ \E s \in {"done", "tools", "retry", "error", "aborted"} : EndMessage(s)
  BY <1>4 DEF StoreFrame, BreakStream, Commit, ClearStream, ClearRun, StreamCall, ScheduleRetry,
     Request, Wait, AppendResult, EndMessage
<1> QED
  BY <1>1, <1>2, <1>3, <1>4 DEF Next, Live, Recover

LEMMA StepAccounted ==
  ASSUME Held, Once, Ending, Batching, Next, NEW t, NEW n, <<t, n>> \in started,
         Heard(<<t, n>>) \/ Hidden(t) \/ Pending(<<t, n>>)
  PROVE  Heard(<<t, n>>)' \/ Hidden(t)' \/ Pending(<<t, n>>)'
<1>1. CASE Heard(<<t, n>>) \/ Hidden(t)
  <2>1. CASE UNCHANGED log
    BY <1>1, <2>1 DEF Heard, Hidden
  <2> QED
    BY <1>1, <2>1, StepLog, HeardNext, HiddenNext
<1>2. CASE Pending(<<t, n>>) /\ ~ Heard(<<t, n>>)
  <2>0. /\ op.open /\ pc \in {"off", "ready", "recover", "tools", "results"}
        /\ Batch.is = "assistant" /\ Batch.turn = t
    BY <1>2 DEF Pending
  <2>1. UNCHANGED op
    BY <2>0, Framing DEF Framed, Begin, Close, Finish
  <2>2. Missing # {}
    BY <1>2, <2>0, NoneMissing
  <2>3. ~ Retire /\ ~ Salvage
    BY <2>2 DEF Retire, Salvage
  <2>4. ~ NextTurn /\ ~ Terminate /\ ~ EndAborted
    <3>1. ResultsOver => Batch.turn = This
      BY DEF ResultsOver, Ending, InBatch
    <3> QED
      BY <1>2, <2>0, <3>1, ResultsHeard DEF NextTurn, Terminate, EndAborted
  <2>5. pc' \in {"off", "ready", "recover", "tools", "results"}
    BY <2>0, <2>3, <2>4, PendingNext
  <2>6. CASE UNCHANGED log
    <3>1. Batch' = Batch
      BY <2>6 DEF Batch
    <3> QED
      BY <2>0, <2>1, <2>5, <3>1 DEF Pending
  <2>7. CASE RepairCall \/ AppendResult
    <3>1. Batch' = Batch
      BY <2>7, RepairAdds, ResultAdds, AddedNext
    <3> QED
      BY <2>0, <2>1, <2>5, <3>1 DEF Pending
  <2>8. CASE Resume \/ Decline
    <3>1. UNCHANGED log \/ Adds(Notice)
      BY <2>8, AnnounceAdds DEF Resume, Decline
    <3> QED
      BY <2>0, <2>6, <3>1, HiddenNext, TipOfBatch DEF Ending
  <2> QED
    BY <2>0, <2>3, <2>6, <2>7, <2>8, Framing DEF Framed, Begin, Commit
<1> QED
  BY <1>1, <1>2

LEMMA StepAccounts == ASSUME Held, Once, Ending, Batching, Accounts, Next PROVE Accounts'
<1>1. ASSUME NEW c \in started PROVE Heard(c)' \/ Hidden(c[1])' \/ Pending(c)'
  <2>1. PICK t \in Turns, n \in CallNo : c = <<t, n>>
    BY DEF Held, Shape, ToolCall
  <2> QED
    BY <2>1, StepAccounted DEF Accounts
<1>2. ASSUME NEW c \in CallNo, Checkpoint(c), NEW t, t = This PROVE Pending(<<t, c>>)'
  <2>1. /\ pc = "tools" /\ pc' = pc /\ UNCHANGED <<log, op>>
    BY <1>2 DEF Checkpoint, SetCall
  <2>2. op.open /\ Batch.is = "assistant" /\ Batch.turn = This
    BY <2>1 DEF Held, Running, Ending, InBatch
  <2>3. Batch' = Batch
    BY <2>1 DEF Batch
  <2> QED
    BY <1>2, <2>1, <2>2, <2>3 DEF Pending
<1>3. \A c \in started' : \/ c \in started
                         \/ \E d \in CallNo, t \in {This} : Checkpoint(d) /\ c = <<t, d>>
  BY Framing DEF Framed, Checkpoint
<1>4. ASSUME NEW c \in started' PROVE Heard(c)' \/ Hidden(c[1])' \/ Pending(c)'
  <2>1. CASE c \in started
    BY <1>1, <2>1
  <2>2. ASSUME NEW d \in CallNo, NEW t, t = This, Checkpoint(d), c = <<t, d>>
        PROVE  Pending(c)'
    BY <1>2, <2>2
  <2> QED
    BY <1>3, <2>1, <2>2
<1> QED
  BY <1>4 DEF Accounts

(* Who leaves the batch or the recovery that a call was entered for.       *)
LEMMA CurrentNext ==
  ASSUME Held, Next, faults' = faults, pc \in {"tools", "results", "recover"}
  PROVE  /\ pc \in {"tools", "results"} =>
              ResultsOver \/ (pc' \in {"tools", "results"} /\ UNCHANGED bound)
         /\ pc = "recover" =>
              \/ RunAgain \/ RepairCall \/ Salvage \/ Retire
              \/ ~ op.open \/ aborted
<1>0. faults \in Nat
  BY BoundsAssumption DEF Held, Shape
<1> USE DEF durable, run, process, history
<1>1. CASE Crash \/ Refused \/ Abort
  BY <1>0, <1>1 DEF Crash, Refused, Abort
<1>2. CASE \/ Opened \/ Failed \/ Cancelled \/ Finish \/ Leave
           \/ Open \/ Prompt \/ Resume \/ Retire \/ Close
  BY <1>2 DEF Opened, Failed, Cancelled, Finish, Leave, Open, Prompt, Resume, Retire, Close, Busy,
     Recovering
<1>3. CASE Decline \/ Salvage \/ RunAgain \/ RepairCall \/ Begin
  BY <1>3 DEF Decline, Salvage, RunAgain, RepairCall, Begin, Busy
<1>4. CASE \E c \in CallNo : Tool(c)
  BY <1>4 DEF Tool, Prepare, Checkpoint, RefuseCheckpoint, Skip, EnterTool, FinishTool, SetCall
<1>5. CASE \/ StoreFrame \/ BreakStream \/ Commit \/ ClearStream \/ ClearRun
           \/ StreamCall \/ ScheduleRetry \/ Request
  BY <1>5 DEF StoreFrame, BreakStream, Commit, ClearStream, ClearRun, StreamCall, ScheduleRetry,
     Request
<1>6. CASE \/ Wait \/ AppendResult \/ NextTurn \/ Terminate \/ EndAborted
           \/ \E s \in {"done", "tools", "retry", "error", "aborted"} : EndMessage(s)
  BY <1>6 DEF Wait, AppendResult, NextTurn, Terminate, EndAborted, EndMessage, ResultsOver
<1> QED
  BY <1>1, <1>2, <1>3, <1>4, <1>5, <1>6 DEF Next, Live, Recover

LEMMA EntriesOf ==
  ASSUME Entries, NEW t \in Turns, NEW n \in CallNo
  PROVE  /\ ran[<<t, n>>] <= faults + 1
         /\ ran[<<t, n>>] > faults => Heard(<<t, n>>) \/ Current(<<t, n>>)
<1>1. <<t, n>> \in ToolCall
  BY DEF ToolCall
<1> QED
  BY <1>1 DEF Entries

LEMMA HeardStays == ASSUME Held, Next PROVE \A t, n : Heard(<<t, n>>) => Heard(<<t, n>>)'
<1>1. CASE UNCHANGED log
  BY <1>1 DEF Heard
<1> QED
  BY <1>1, StepLog, HeardNext

(* Without a fault, what was entered stays at hand until it is answered.   *)
LEMMA CurrentStays ==
  ASSUME Held, Batching, Ending, Next, faults' = faults,
         NEW t \in Turns, NEW n \in CallNo, <<t, n>> \in started, Current(<<t, n>>)
  PROVE  Heard(<<t, n>>)' \/ Current(<<t, n>>)'
<1>1. CASE pc \in {"tools", "results"} /\ t = This
  <2>1. CASE ResultsOver
    BY <1>1, <2>1, ResultsHeard, HeardStays
  <2>2. CASE pc' \in {"tools", "results"} /\ UNCHANGED bound
    BY <1>1, <2>2 DEF Current, This
  <2> QED
    BY <1>1, <2>1, <2>2, CurrentNext
<1>2. CASE /\ pc = "recover" /\ op.open /\ ~ aborted
           /\ Batch.is = "assistant" /\ Batch.turn = t
           /\ st[n] = "ran"
  <2>1. n \in Missing /\ Missing # {}
    BY <1>2 DEF Batching
  <2>2. ~ Salvage /\ ~ Retire
    BY <2>1 DEF Salvage, Retire
  <2>3. CASE RunAgain
    <3>1. UNCHANGED <<log, op, pc, aborted>> /\ st'[n] = "ran"
      BY <1>2, <2>3 DEF RunAgain, durable, Held, Shape
    <3>2. Batch' = Batch
      BY <3>1 DEF Batch
    <3> QED
      BY <1>2, <3>1, <3>2 DEF Current
  <2>4. CASE RepairCall
    <3>1. PICK e : Adds(e) /\ e.is = "result" /\ e.turn = Batch.turn /\ e.call = First(Missing)
      BY <2>4, RepairAdds
    <3>2. CASE n = First(Missing)
      BY <1>2, <3>1, <3>2, HeardNext
    <3>3. CASE n # First(Missing)
      <4>1. UNCHANGED <<op, pc, aborted>> /\ st'[n] = "ran"
        BY <1>2, <2>4, <3>3 DEF RepairCall, Held, Shape
      <4>2. Batch' = Batch
        BY <3>1, AddedNext
      <4> QED
        BY <1>2, <4>1, <4>2 DEF Current
    <3> QED
      BY <3>2, <3>3
  <2> QED
    BY <1>2, <2>2, <2>3, <2>4, CurrentNext
<1> QED
  BY <1>1, <1>2 DEF Current

(* A call is entered for the first time since the last fault.              *)
LEMMA EnteredAgain ==
  ASSUME Held, Batching, Entries, NEW t \in Turns, NEW n \in CallNo,
         \/ RunAgain /\ t = Batch.turn /\ n = First(Missing)
         \/ EnterTool(n) /\ t = This
  PROVE  /\ ran'[<<t, n>>] = ran[<<t, n>>] + 1
         /\ ran[<<t, n>>] <= faults
         /\ faults' = faults
         /\ Current(<<t, n>>)'
<1>0. /\ ran \in [ToolCall -> Nat] /\ st \in [CallNo -> Stages] /\ <<t, n>> \in ToolCall
      /\ faults \in Nat
  BY BoundsAssumption DEF Held, Shape, ToolCall
<1>1. CASE RunAgain /\ t = Batch.turn /\ n = First(Missing)
  <2>1. /\ pc = "recover" /\ op.open /\ ~ aborted /\ Missing # {} /\ st[n] # "ran"
        /\ UNCHANGED <<log, op, pc, aborted, faults>>
        /\ st' = [st EXCEPT ![n] = "ran"]
        /\ ran' = [ran EXCEPT ![<<t, n>>] = @ + 1]
    BY <1>1 DEF RunAgain, Busy, durable
  <2>2. n \in Missing /\ Batch.is = "assistant"
    BY <1>1, <2>1, MissingCalls DEF Held
  <2>3. ~ Heard(<<t, n>>)
    BY <1>1, <2>2, HeardAnswered DEF Missing
  <2>4. ~ Current(<<t, n>>)
    BY <2>1 DEF Current
  <2>5. ~ (ran[<<t, n>>] > faults)
    BY <1>0, <2>3, <2>4, EntriesOf
  <2>6. Batch' = Batch
    BY <2>1 DEF Batch
  <2>7. st'[n] = "ran"
    BY <1>0, <2>1
  <2>8. Current(<<t, n>>)'
    BY <1>1, <2>1, <2>2, <2>6, <2>7 DEF Current
  <2> QED
    BY <1>0, <2>1, <2>5, <2>8
<1>2. CASE EnterTool(n) /\ t = This
  <2>1. /\ pc = "tools" /\ st[n] = "started" /\ UNCHANGED <<pc, bound, faults>>
        /\ ran' = [ran EXCEPT ![<<t, n>>] = @ + 1]
    BY <1>2 DEF EnterTool, SetCall, durable
  <2>2. ~ (ran[<<t, n>>] > 0)
    BY <1>2, <2>1 DEF Batching
  <2>3. Current(<<t, n>>)'
    BY <1>2, <2>1 DEF Current, This
  <2> QED
    BY <1>0, <2>1, <2>2, <2>3
<1> QED
  BY <1>1, <1>2

LEMMA RanNext ==
  ASSUME Held, Next, NEW t \in Turns, NEW n \in CallNo
  PROVE  \/ RunAgain /\ t = Batch.turn /\ n = First(Missing)
         \/ EnterTool(n) /\ t = This
         \/ ran'[<<t, n>>] = ran[<<t, n>>]
<1>1. ran \in [ToolCall -> Nat]
  BY DEF Held, Shape
<1>2. CASE RunAgain
  BY <1>1, <1>2 DEF RunAgain, ToolCall
<1>3. ASSUME NEW c \in CallNo, EnterTool(c)
      PROVE  (EnterTool(n) /\ t = This) \/ ran'[<<t, n>>] = ran[<<t, n>>]
  BY <1>1, <1>3 DEF EnterTool, ToolCall
<1> QED
  BY <1>2, <1>3, Framing DEF Framed

LEMMA FaultsGrow == ASSUME Held, Next PROVE faults' = faults \/ faults' = faults + 1
<1> USE DEF history
<1>1. CASE Crash \/ Refused \/ Abort \/ Resume \/ Decline
  BY <1>1 DEF Crash, Refused, Abort, Resume, Decline, Announce
<1>2. CASE \/ Opened \/ Failed \/ Cancelled \/ Finish \/ Leave
           \/ Open \/ Prompt \/ Retire \/ Close \/ Salvage \/ RunAgain \/ RepairCall \/ Begin
  BY <1>2 DEF Opened, Failed, Cancelled, Finish, Leave, Open, Prompt, Retire, Close,
     Salvage, RunAgain, RepairCall, Begin
<1>3. CASE \E c \in CallNo : Tool(c)
  BY <1>3 DEF Tool, Prepare, Checkpoint, RefuseCheckpoint, Skip, EnterTool, FinishTool
<1>4. CASE \/ StoreFrame \/ BreakStream \/ Commit \/ ClearStream \/ ClearRun
           \/ StreamCall \/ ScheduleRetry \/ Request \/ Wait \/ AppendResult
           \/ NextTurn \/ Terminate \/ EndAborted
           \/ \E s \in {"done", "tools", "retry", "error", "aborted"} : EndMessage(s)
  BY <1>4 DEF StoreFrame, BreakStream, Commit, ClearStream, ClearRun, StreamCall, ScheduleRetry,
     Request, Wait, AppendResult, NextTurn, Terminate, EndAborted, EndMessage, RetireOrWarn
<1> QED
  BY <1>1, <1>2, <1>3, <1>4 DEF Next, Live, Recover

LEMMA StepEntries == ASSUME Held, Once, Ending, Batching, Entries, Next PROVE Entries'
<1>1. ASSUME NEW t \in Turns, NEW n \in CallNo
      PROVE  /\ ran'[<<t, n>>] <= faults' + 1
             /\ ran'[<<t, n>>] > faults' => Heard(<<t, n>>)' \/ Current(<<t, n>>)'
  <2>a. <<t, n>> \in ToolCall /\ ran[<<t, n>>] \in Nat /\ faults \in Nat
    BY BoundsAssumption DEF Held, Shape, ToolCall
  <2>0. /\ ran[<<t, n>>] <= faults + 1
        /\ ran[<<t, n>>] > faults => Heard(<<t, n>>) \/ Current(<<t, n>>)
        /\ ran[<<t, n>>] > 0 => <<t, n>> \in started
    BY <2>a, EntriesOf DEF Batching
  <2>1. CASE \/ RunAgain /\ t = Batch.turn /\ n = First(Missing)
             \/ EnterTool(n) /\ t = This
    BY <2>a, <2>0, <2>1, EnteredAgain
  <2>2. CASE ran'[<<t, n>>] = ran[<<t, n>>]
    <3>1. CASE faults' = faults + 1
      BY <2>a, <2>0, <2>2, <3>1
    <3>2. CASE faults' = faults
      BY <2>a, <2>0, <2>2, <3>2, HeardStays, CurrentStays
    <3> QED
      BY <3>1, <3>2, FaultsGrow
  <2> QED
    BY <2>1, <2>2, RanNext
<1>2. \A c \in ToolCall : \E t \in Turns, n \in CallNo : c = <<t, n>>
  BY DEF ToolCall
<1> QED
  BY <1>1, <1>2 DEF Entries

-----------------------------------------------------------------------------

(* The inductive invariant.                                                *)
IInv == Held /\ Budget /\ Once /\ Settlement /\ Ending /\ Batching /\ Accounts /\ Entries

LEMMA Starting == Init => IInv
<1> SUFFICES ASSUME Init PROVE IInv
  OBVIOUS
<1>1. Held /\ Budget
  BY Initially
<1>2. DOMAIN log = {} /\ log = <<>> /\ bound = {}
  BY EmptySeq DEF Init
<1>3. Once /\ Settlement
  BY <1>2 DEF Init, NoRun, Once, Settlement, Streaming, Failing, Settled, Running, Recovering
<1>4. Ending
  BY <1>2 DEF Init, NoRun, Ending, ResultsInPlace, InBatch, Streaming, Failing
<1>5. Batching
  BY <1>2, BoundsAssumption DEF Init, NoRun, Batching, InBatch, Untouched
<1>6. Accounts /\ Entries
  <2>1. \A c \in ToolCall : ran[c] = 0
    BY DEF Init
  <2> QED
    BY <2>1, BoundsAssumption DEF Init, Accounts, Entries
<1> QED
  BY <1>1, <1>3, <1>4, <1>5, <1>6 DEF IInv

LEMMA StutteringLog ==
  ASSUME UNCHANGED <<log, bound>>
  PROVE  /\ This' = This /\ Batch' = Batch /\ Missing' = Missing /\ Told' = Told
         /\ ResultsInPlace' = ResultsInPlace
         /\ \A is : Tip(is)' = Tip(is)
         /\ \A t : Landed(t)' = Landed(t)
         /\ \A t : Answered(t)' = Answered(t)
         /\ \A t : Hidden(t)' = Hidden(t)
         /\ \A c : Heard(c)' = Heard(c)
<1>1. Batch' = Batch
  BY DEF Batch
<1>2. \A t : Answered(t)' = Answered(t)
  BY DEF Answered
<1>3. Missing' = Missing
  BY <1>1, <1>2 DEF Missing, Answered
<1> QED
  BY <1>1, <1>2, <1>3 DEF This, Told, ResultsInPlace, Tip, Landed, Hidden, Heard

LEMMA StutteringInv == ASSUME IInv, UNCHANGED vars PROVE IInv'
<1> USE StutteringLog DEF vars, durable, process, run, history
<1>1. Held' /\ Budget'
  BY Stuttering DEF IInv
<1>2. Once' /\ Settlement'
  BY DEF IInv, Once, Settlement, Settled, Kept, Streaming, Failing
<1>3. Ending'
  BY DEF IInv, Ending, InBatch, Streaming, Failing
<1>4. Batched' = Batched /\ Reached' = Reached /\ BatchOver' = BatchOver
  BY DEF Batched, Reached, BatchOver
<1>5. Batching'
  BY <1>4 DEF IInv, Batching, InBatch, Untouched
<1>6. Accounts' /\ Entries'
  BY DEF IInv, Accounts, Entries, Pending, Current
<1> QED
  BY <1>1, <1>2, <1>3, <1>5, <1>6 DEF IInv

THEOREM Invariance == Spec => []IInv
<1>1. IInv /\ Next => IInv'
  <2> SUFFICES ASSUME IInv, Next PROVE IInv'
    OBVIOUS
  <2>1. Held'
    BY StepShape, StepControl, StepFlags, StepOpen DEF IInv, Held, Budget
  <2> QED
    BY <2>1, StepBudget, StepOnce, StepSettlement, StepEnding, StepBatching, StepAccounts, StepEntries
       DEF IInv
<1>2. IInv /\ [Next]_vars => IInv'
  BY <1>1, StutteringInv
<1> QED
  BY <1>2, Starting, PTL DEF Spec

-----------------------------------------------------------------------------

(* TypeOK, for every bound.                                                *)
THEOREM TypesAreKept == Spec => []TypeOK
<1>1. IInv => TypeOK
  <2> SUFFICES ASSUME IInv PROVE TypeOK
    OBVIOUS
  <2>1. /\ \A i \in DOMAIN log : log[i] \in Entry
        /\ \E t \in 0..MaxTurns : bound = 1..t
        /\ cleared \subseteq Turns
        /\ dropped \subseteq Turns
        /\ retry \in 0..MaxTurns + 1
    <3>1. \A i \in DOMAIN log : log[i] \in Entry
      BY LenProperties, ElementOfSeq DEF IInv, Held, Shape
    <3>2. bound \subseteq Turns /\ This \in 0..MaxTurns
      BY TurnNow DEF IInv, Held
    <3>3. cleared \subseteq Turns /\ dropped \subseteq Turns /\ \E t \in 0..MaxTurns : bound = 1..t
      BY <3>2 DEF IInv, Held, Shape
    <3>4. retry \in 0..MaxTurns + 1
      BY <3>2, BoundsAssumption DEF IInv, Held, Shape
    <3> QED
      BY <3>1, <3>3, <3>4
  <2>2. ran \in [ToolCall -> 0..MaxFaults + 1]
    <3>1. ran \in [ToolCall -> Nat] /\ faults \in 0..MaxFaults /\ \A c \in ToolCall : ran[c] <= faults + 1
      BY DEF IInv, Held, Shape, Entries
    <3>2. \A c \in ToolCall : ran[c] \in 0..MaxFaults + 1
      BY <3>1, BoundsAssumption
    <3> QED
      BY <3>1, <3>2
  <2>3. op \in [open : BOOLEAN, attempt : 0..MaxResumes] /\ {aborted, failed, late, terminated} \subseteq BOOLEAN
    BY Zenon DEF IInv, Held, Flags
  <2> QED
    BY <2>1, <2>2, <2>3 DEF IInv, Held, Shape, Control, Budget, TypeOK, Stages
<1> QED
  BY <1>1, Invariance, PTL

(* ResumesAreBounded, for every budget: the attempts that the operation    *)
(* carries over a crash are the resumes since the last prompt.             *)
THEOREM BudgetHolds == Spec => []ResumesAreBounded
<1>1. IInv => ResumesAreBounded
  BY BoundsAssumption DEF IInv, Held, Flags, Budget, ResumesAreBounded
<1> QED
  BY <1>1, Invariance, PTL

(* RequestsAreValid, for every number of turns, calls and faults: whatever *)
(* recovery, salvage and the notices appended, a request's results follow  *)
(* their messages and its last message is one to answer.                   *)
THEOREM RequestsStayValid == Spec => []RequestsAreValid
<1>1. IInv => RequestsAreValid
  BY DEF IInv, Ending, RequestsAreValid
<1> QED
  BY <1>1, Invariance, PTL

(* NothingLost, for every number of turns, retries and faults: no message  *)
(* is written twice and no durable stream is left behind.                  *)
THEOREM StreamsAreKept == Spec => []NothingLost
<1>1. IInv => NothingLost
  <2> SUFFICES ASSUME IInv PROVE NothingLost
    OBVIOUS
  <2>1. \A i, j \in DOMAIN log :
           {log[i].is, log[j].is} = {"assistant"} /\ log[i].turn = log[j].turn => i = j
    BY DEF IInv, Once
  <2>2. ~ op.open => \A t \in bound : frames[t] >= 0 => Landed(t) \/ t \in dropped
    BY DEF IInv, Settlement, Settled, Kept
  <2> QED
    BY <2>1, <2>2 DEF NothingLost
<1> QED
  BY <1>1, Invariance, PTL

(* What the transcript says of a call that has a result.                   *)
LEMMA SaidIs ==
  ASSUME Held, Batching, NEW t, NEW n
  PROVE  /\ ~ Heard(<<t, n>>) => Said(<<t, n>>) = "none"
         /\ Heard(<<t, n>>) => /\ Said(<<t, n>>) # "none"
                               /\ \E i \in DOMAIN log : /\ log[i].is = "result" /\ log[i].turn = t
                                                        /\ log[i].call = n
                                                        /\ Said(<<t, n>>) = log[i].says
<1> DEFINE I == {i \in DOMAIN log : log[i].is = "result" /\ log[i].turn = t /\ log[i].call = n}
<1>1. Said(<<t, n>>) = IF I = {} THEN "none" ELSE log[First(I)].says
  BY DEF Said
<1>2. Heard(<<t, n>>) <=> I # {}
  BY DEF Heard
<1>3. I \in SUBSET Nat
  BY LenProperties DEF Held, Shape
<1>4. I # {} => First(I) \in I
  <2> HIDE DEF I
  <2> QED
    BY <1>3, Least
<1>5. I # {} => log[First(I)].says # "none"
  BY <1>4 DEF Batching
<1> QED
  BY <1>1, <1>2, <1>4, <1>5

(* StartedIsAnswered, for every number of turns, calls and faults.         *)
THEOREM StartedCallsAreAnswered == Spec => []StartedIsAnswered
<1>1. IInv => StartedIsAnswered
  <2> SUFFICES ASSUME IInv, ~ op.open, NEW c \in started PROVE Said(c) # "none" \/ Hidden(c[1])
    BY DEF StartedIsAnswered
  <2>1. PICK t \in Turns, n \in CallNo : c = <<t, n>>
    BY DEF IInv, Held, Shape, ToolCall
  <2>2. Heard(<<t, n>>) \/ Hidden(t)
    BY <2>1 DEF IInv, Accounts, Pending
  <2> QED
    BY <2>1, <2>2, SaidIs DEF IInv
<1> QED
  BY <1>1, Invariance, PTL

-----------------------------------------------------------------------------

(* The promise of CallPromise.                                             *)
Answers == [c \in ToolCall |-> Said(c)]

LEMMA SaidNext ==
  ASSUME Held, Held', Batching, Batching', NEW e, Adds(e), NEW t, NEW n
  PROVE  /\ e.is = "result" /\ e.turn = t /\ e.call = n /\ ~ Heard(<<t, n>>)
              => Said(<<t, n>>)' = e.says
         /\ ~ (e.is = "result" /\ e.turn = t /\ e.call = n)
              => Said(<<t, n>>)' = Said(<<t, n>>)
<1> DEFINE I == {i \in DOMAIN log : log[i].is = "result" /\ log[i].turn = t /\ log[i].call = n}
<1>1. log \in Seq(Entry) /\ e \in Entry /\ log' = Append(log, e)
  BY DEF Held, Shape, Adds
<1>2. /\ Len(log) \in Nat /\ DOMAIN log = 1..Len(log) /\ DOMAIN log' = 1..(Len(log) + 1)
      /\ \A i \in 1..Len(log) : log'[i] = log[i]
      /\ log'[Len(log) + 1] = e
  BY <1>1, Appended
<1>3. /\ Said(<<t, n>>) = IF I = {} THEN "none" ELSE log[First(I)].says
      /\ Said(<<t, n>>)' = IF I' = {} THEN "none" ELSE log'[First(I')].says
  BY DEF Said, First
<1>4. Heard(<<t, n>>) <=> I # {}
  BY DEF Heard
<1>5. ASSUME e.is = "result", e.turn = t, e.call = n, ~ Heard(<<t, n>>)
      PROVE  Said(<<t, n>>)' = e.says
  <2>1. I' = {Len(log) + 1}
    BY <1>2, <1>4, <1>5
  <2>2. First(I') = Len(log) + 1
    <3> HIDE DEF I
    <3> QED
      BY <1>2, <2>1 DEF First
  <2> QED
    BY <1>2, <1>3, <2>1, <2>2
<1>6. ASSUME ~ (e.is = "result" /\ e.turn = t /\ e.call = n)
      PROVE  Said(<<t, n>>)' = Said(<<t, n>>)
  <2>1. I' = I
    BY <1>2, <1>6
  <2>2. I # {} => First(I) \in 1..Len(log)
    <3>1. I \in SUBSET (1..Len(log)) /\ I \in SUBSET Nat
      BY <1>2
    <3> HIDE DEF I
    <3>2. I # {} => First(I) \in I
      BY <3>1, Least
    <3> QED
      BY <3>1, <3>2
  <2> HIDE DEF I
  <2>3. First(I') = First(I)
    BY <2>1
  <2> QED
    BY <1>2, <1>3, <2>1, <2>2, <2>3
<1> QED
  BY <1>5, <1>6

LEMMA AnswersNext ==
  ASSUME Held, Held', Batching, Batching', NEW e, Adds(e)
  PROVE  /\ e.is # "result" => Answers' = Answers
         /\ e.is = "result" /\ ~ Heard(<<e.turn, e.call>>)
              => Answers' = [Answers EXCEPT ![<<e.turn, e.call>>] = e.says]
<1>1. \A c \in ToolCall : \E t \in Turns, n \in CallNo : c = <<t, n>>
  BY DEF ToolCall
<1>2. ASSUME e.is # "result" PROVE Answers' = Answers
  <2>1. ASSUME NEW t \in Turns, NEW n \in CallNo PROVE Said(<<t, n>>)' = Said(<<t, n>>)
    BY <1>2, SaidNext
  <2>2. ASSUME NEW c \in ToolCall PROVE Said(c)' = Said(c)
    BY <1>1, <2>1
  <2> QED
    BY <2>2 DEF Answers
<1>3. ASSUME e.is = "result", ~ Heard(<<e.turn, e.call>>)
      PROVE  Answers' = [Answers EXCEPT ![<<e.turn, e.call>>] = e.says]
  <2>1. ASSUME NEW t \in Turns, NEW n \in CallNo
        PROVE  Said(<<t, n>>)' = IF e.turn = t /\ e.call = n THEN e.says ELSE Said(<<t, n>>)
    BY <1>3, SaidNext
  <2>2. ASSUME NEW c \in ToolCall
        PROVE  Said(c)' = IF c = <<e.turn, e.call>> THEN e.says ELSE Said(c)
    <3>1. PICK t \in Turns, n \in CallNo : c = <<t, n>>
      BY <1>1
    <3>2. c = <<e.turn, e.call>> <=> e.turn = t /\ e.call = n
      BY <3>1
    <3>3. Said(c)' = IF e.turn = t /\ e.call = n THEN e.says ELSE Said(c)
      BY <2>1, <3>1
    <3> QED
      BY <3>2, <3>3
  <2>3. Answers' = [c \in ToolCall |-> IF c = <<e.turn, e.call>> THEN e.says ELSE Said(c)]
    BY <2>2 DEF Answers
  <2> QED
    BY <2>3 DEF Answers
<1> QED
  BY <1>2, <1>3

LEMMA AnswersStay == ASSUME UNCHANGED log PROVE Answers' = Answers /\ Told' = Told
  BY DEF Answers, Said, Told, First

LEMMA Unanswered ==
  ASSUME Held, Batching, NEW t \in Turns, NEW n \in CallNo
  PROVE  /\ <<t, n>> \in ToolCall
         /\ Answers[<<t, n>>] = Said(<<t, n>>)
         /\ Answers[<<t, n>>] = "none" <=> ~ Heard(<<t, n>>)
  BY SaidIs DEF Answers, ToolCall

Promises == <<Told, started, ran, Answers>>

(* The calls of a message that lands are new to the transcript.            *)
LEMMA Telling ==
  ASSUME IInv, IInv', Commit \/ Salvage
  PROVE  Promise!Next
<1>1. PICK e : /\ Adds(e) /\ e.is = "assistant" /\ e.turn \in Turns /\ e.call \in 0..Calls
               /\ ~ Landed(e.turn)
  <2>1. CASE Commit
    <3>1. PICK e : Adds(e) /\ e.is = "assistant" /\ e.turn = This /\ e.call = k
      BY <2>1, CommitAdds DEF IInv
    <3>2. pc = "ended" /\ bound # {} /\ This \in Turns /\ k >= 0
      BY <2>1, TurnNow DEF Commit, IInv, Held, Control, Running
    <3>3. ~ Landed(This)
      BY <3>2 DEF IInv, Settlement, Streaming
    <3>4. e.call \in 0..Calls
      BY <3>1, <3>2, BoundsAssumption DEF IInv, Held, Shape
    <3> QED
      BY <3>1, <3>2, <3>3, <3>4
  <2>2. CASE Salvage
    <3>1. Unsettled # {}
      BY <2>2 DEF Salvage
    <3>2. PICK e : /\ Adds(e) /\ e.is = "assistant" /\ e.turn = First(Unsettled)
                   /\ e.call = frames[First(Unsettled)]
      BY <2>2, SalvageAdds DEF IInv
    <3>3. ~ Landed(First(Unsettled)) /\ First(Unsettled) \in Turns /\ frames[First(Unsettled)] \in 0..Calls
      BY <3>1, UnsettledStreams DEF IInv, Held, Unsettled
    <3> QED
      BY <3>2, <3>3
  <2> QED
    BY <2>1, <2>2
<1> DEFINE C == {<<e.turn, n>> : n \in 1..e.call}
<1>2. C \in SUBSET ToolCall
  <2>1. \A n \in 1..e.call : n \in CallNo
    BY <1>1, BoundsAssumption DEF CallNo
  <2> QED
    BY <1>1, <2>1 DEF ToolCall
<1>3. C \cap Told = {}
  BY <1>1, TurnLanded
<1>4. Told' = Told \cup C /\ Answers' = Answers
  BY <1>1, ToldNext, AnswersNext DEF IInv
<1>5. UNCHANGED <<started, ran>>
  BY DEF Commit, Salvage, history
<1>6. Promise!Tell(C)
  <2> HIDE DEF C
  <2> QED
    BY <1>3, <1>4, <1>5 DEF Promise!Tell, Answers
<1> QED
  BY <1>2, <1>6 DEF Promise!Next, Promise!ToolCall, ToolCall

LEMMA Intending ==
  ASSUME IInv, IInv', NEW n \in CallNo, Checkpoint(n)
  PROVE  Promise!Next
<1>1. /\ pc = "tools" /\ st[n] = "ready" /\ started' = started \cup {<<This, n>>}
      /\ UNCHANGED <<log, ran>>
  BY DEF Checkpoint, SetCall, history
<1>2. /\ Batch.is = "assistant" /\ Batch.turn = This /\ Batch.call = k
      /\ This \in Turns /\ n \in 1..k /\ Answered(This) = {}
  <2>1. n \in Batched /\ This \in Turns
    BY <1>1, TurnNow DEF IInv, Held, Control, Running, Batching
  <2>2. n \in 1..k
    BY <2>1, BoundsAssumption DEF Batched, CallNo, IInv, Held, Shape
  <2> QED
    BY <1>1, <2>1, <2>2 DEF IInv, Ending, Batching, InBatch
<1>3. <<This, n>> \in Told
  BY <1>2, BatchTold DEF IInv
<1>4. Answers[<<This, n>>] = "none" /\ <<This, n>> \in ToolCall
  BY <1>2, HeardAnswered, Unanswered DEF IInv
<1>5. Promise!Intend(<<This, n>>)
  BY <1>1, <1>3, <1>4, AnswersStay DEF Promise!Intend, Answers
<1> QED
  BY <1>4, <1>5 DEF Promise!Next, Promise!ToolCall, ToolCall

LEMMA Entering ==
  ASSUME IInv, IInv', NEW t \in Turns, NEW n \in CallNo,
         \/ RunAgain /\ t = Batch.turn /\ n = First(Missing)
         \/ EnterTool(n) /\ t = This
  PROVE  Promise!Next
<1>1. /\ <<t, n>> \in started
      /\ ~ Heard(<<t, n>>)
      /\ n \in Safe \/ ran[<<t, n>>] = 0
      /\ ran' = [ran EXCEPT ![<<t, n>>] = @ + 1]
      /\ UNCHANGED <<log, started>>
  <2>1. CASE RunAgain /\ t = Batch.turn /\ n = First(Missing)
    <3>1. n \in Missing /\ n \in Safe /\ <<t, n>> \in started
      BY <2>1, MissingCalls DEF RunAgain, Replays, IInv, Held
    <3> QED
      BY <2>1, <3>1, HeardAnswered DEF RunAgain, Missing, durable
  <2>2. CASE EnterTool(n) /\ t = This
    <3>1. /\ pc = "tools" /\ st[n] = "started" /\ UNCHANGED <<log, started>>
          /\ ran' = [ran EXCEPT ![<<t, n>>] = @ + 1]
      BY <2>2 DEF EnterTool, SetCall, durable
    <3>2. Answered(t) = {} /\ <<t, n>> \in started /\ ~ (ran[<<t, n>>] > 0)
      BY <2>2, <3>1 DEF IInv, Batching, InBatch
    <3>3. ran[<<t, n>>] \in Nat
      BY DEF IInv, Held, Shape, ToolCall
    <3> QED
      BY <3>1, <3>2, <3>3, HeardAnswered
  <2> QED
    BY <2>1, <2>2
<1>2. Answers[<<t, n>>] = "none" /\ <<t, n>> \in ToolCall
  BY <1>1, Unanswered DEF IInv
<1>3. Promise!Enter(<<t, n>>)
  BY <1>1, <1>2, AnswersStay DEF Promise!Enter, Answers
<1> QED
  BY <1>2, <1>3 DEF Promise!Next, Promise!ToolCall, ToolCall

(* A result answers the first call that has none, with the truth.          *)
LEMMA Answering ==
  ASSUME IInv, IInv', RepairCall \/ AppendResult
  PROVE  Promise!Next
<1>1. PICK e : /\ Adds(e) /\ e.is = "result" /\ e.turn = Batch.turn
               /\ Batch.is = "assistant" /\ e.turn \in Turns
               /\ e.call \in CallNo /\ e.call \in 1..Batch.call
               /\ e.call \notin Answered(e.turn)
               /\ e.says \in {"ran", "skipped", "unknown"}
               /\ e.says = "ran" => ran[<<e.turn, e.call>>] > 0
               /\ e.says = "skipped" => ~ (ran[<<e.turn, e.call>>] > 0)
               /\ \A d \in 1..Batch.call : d < e.call => d \in Answered(e.turn)
  <2>1. CASE RepairCall
    <3>1. PICK e : /\ Adds(e) /\ e.is = "result" /\ e.turn = Batch.turn
                   /\ e.call = First(Missing)
                   /\ e.says = (IF Replays(First(Missing)) THEN "ran" ELSE "unknown")
      BY <2>1, RepairAdds DEF IInv
    <3>2. Missing # {} /\ pc = "recover" /\ (Replays(First(Missing)) => st[First(Missing)] = "ran")
      BY <2>1 DEF RepairCall, Busy
    <3>3. /\ First(Missing) \in Missing /\ First(Missing) \in 1..Batch.call
          /\ First(Missing) \in CallNo /\ Batch.is = "assistant"
          /\ \A c \in Missing : First(Missing) <= c
      BY <3>2, MissingCalls DEF IInv, Held
    <3>4. Batch.turn \in Turns
      <4>1. \E i \in DOMAIN log : Batch = log[i]
        BY <3>3, BatchPlace, BatchIs, UserAndNotice DEF Places, IInv, Held, Shape
      <4> QED
        BY <3>3, <4>1, TurnNow DEF IInv, Once, Held
    <3>5. Replays(First(Missing)) => ran[<<Batch.turn, First(Missing)>>] > 0
      BY <3>2, <3>3 DEF IInv, Batching
    <3>6. ASSUME NEW d \in 1..Batch.call, d < First(Missing) PROVE d \in Answered(Batch.turn)
      <4>1. Batch.call \in 0..Calls
        BY BatchIsEntry DEF Entry, IInv, Held, Shape
      <4>2. d \notin Missing
        BY <3>3, <3>6, <4>1
      <4> QED
        BY <3>3, <4>2 DEF Missing
    <3>7. First(Missing) \notin Answered(Batch.turn)
      BY <3>3 DEF Missing
    <3> QED
      BY <3>1, <3>3, <3>4, <3>5, <3>6, <3>7
  <2>2. CASE AppendResult
    <3> DEFINE c == First(Reached \ Answered(This))
    <3>1. PICK e : /\ Adds(e) /\ e.is = "result" /\ e.turn = This /\ e.call = c
                   /\ e.says = (IF st[c] = "ran" THEN "ran" ELSE "skipped")
      BY <2>2, ResultAdds DEF IInv
    <3>2. pc \in {"tools", "results"} /\ BatchOver /\ Reached \ Answered(This) # {}
      BY <2>2 DEF AppendResult
    <3>3. /\ c \in Reached \ Answered(This) /\ c \in CallNo
          /\ \A d \in Reached \ Answered(This) : c <= d
      BY <3>2, UnansweredCalls
    <3>4. /\ Batch.is = "assistant" /\ Batch.turn = This /\ Batch.call = k /\ k \in -1..Calls
          /\ This \in Turns
      BY <3>2, TurnNow DEF IInv, Held, Shape, Control, Running, Ending, InBatch
    <3>5. c \in Batched /\ (ran[<<This, c>>] > 0 <=> st[c] \in {"running", "ran"})
          /\ \A x \in Reached, d \in Batched : d < x => d \in Reached
      BY <3>2, <3>3 DEF IInv, Batching, Reached
    <3>6. st[c] \in {"ran", "blocked", "skipped"}
      BY <3>2, <3>3 DEF BatchOver
    <3>7. c \in 1..k /\ c \notin Answered(This)
      BY <3>3, <3>4, <3>5 DEF Batched, CallNo
    <3>8. ASSUME NEW d \in 1..k, d < c PROVE d \in Answered(This)
      <4>1. d \in Batched
        BY <3>4, <3>8, BoundsAssumption DEF Batched, CallNo
      <4>2. d \in Reached
        BY <3>3, <3>5, <3>8, <4>1
      <4> QED
        BY <3>3, <3>4, <3>7, <3>8, <4>2
    <3> HIDE DEF c
    <3> QED
      BY <3>1, <3>3, <3>4, <3>5, <3>6, <3>7, <3>8
  <2> QED
    BY <2>1, <2>2
<1> DEFINE c == <<e.turn, e.call>>
<1>2. ~ Heard(c) /\ c \in ToolCall /\ Answers[c] = "none"
  BY <1>1, HeardAnswered, Unanswered DEF IInv
<1>3. c \in Told
  BY <1>1, BatchTold DEF IInv
<1>4. ASSUME NEW d \in Told, d[1] = c[1], d[2] < c[2] PROVE Answers[d] # "none"
  <2>1. d[1] = e.turn /\ d[2] < e.call
    BY <1>4
  <2>2. PICK t, m : d = <<t, m>>
    BY DEF Told
  <2>3. m \in 1..Batch.call
    BY <1>1, <2>1, <2>2, CallOfBatch DEF IInv
  <2>4. Heard(<<e.turn, m>>)
    BY <1>1, <2>1, <2>2, <2>3, HeardAnswered
  <2>5. m \in CallNo
    <3>1. Batch.call \in 0..Calls
      BY BatchIsEntry DEF Entry, IInv, Held, Shape
    <3> QED
      BY <2>3, <3>1, BoundsAssumption DEF CallNo
  <2> QED
    BY <1>1, <2>1, <2>2, <2>4, <2>5, Unanswered DEF IInv
<1>5. Answers' = [Answers EXCEPT ![c] = e.says] /\ Told' = Told
  BY <1>1, <1>2, AnswersNext, ToldNext DEF IInv
<1>6. UNCHANGED <<started, ran>>
  BY DEF RepairCall, AppendResult, history
<1>7. ran[c] \in Nat /\ c \in ToolCall
  BY <1>2 DEF IInv, Held, Shape
<1>8. Promise!True(c, e.says)
  BY <1>1, <1>7 DEF Promise!True
<1>9. Promise!Answer(c, e.says)
  <2> HIDE DEF c
  <2> QED
    BY <1>2, <1>3, <1>4, <1>5, <1>6, <1>8 DEF Promise!Answer, Answers
<1> HIDE DEF c
<1> QED
  BY <1>1, <1>7, <1>9 DEF Promise!Next, Promise!ToolCall, ToolCall

LEMMA StepImplements == ASSUME IInv, IInv', [Next]_vars PROVE [Promise!Next]_(Promise!vars)
<1>1. UNCHANGED Promises => UNCHANGED Promise!vars
  BY DEF Promises, Answers, Promise!vars
<1>2. CASE UNCHANGED <<log, started, ran>>
  BY <1>1, <1>2, AnswersStay DEF Promises
<1>3. CASE UNCHANGED <<started, ran>> /\ \E e : Adds(e) /\ e.is \notin {"assistant", "result"}
  <2>1. Answers' = Answers /\ Told' = Told
    BY <1>3, AnswersNext, ToldNext DEF IInv
  <2> QED
    BY <1>1, <1>3, <2>1 DEF Promises
<1>4. CASE Next
  <2>1. CASE Resume \/ Decline \/ Begin
    <3>1. UNCHANGED <<started, ran>>
      BY <2>1 DEF Resume, Decline, Begin
    <3> QED
      BY <1>2, <1>3, <2>1, <3>1, AnnounceAdds, BeginAdds, UserAndNotice DEF Resume, Decline
  <2>2. CASE Commit \/ Salvage \/ RepairCall \/ AppendResult
    BY <2>2, Telling, Answering
  <2>3. ASSUME NEW n \in CallNo, Checkpoint(n) PROVE Promise!Next
    BY <2>3, Intending
  <2>4. ASSUME NEW n \in CallNo, EnterTool(n) PROVE Promise!Next
    <3>1. This \in Turns
      BY <2>4, TurnNow DEF EnterTool, SetCall, IInv, Held, Control, Running
    <3> QED
      BY <2>4, <3>1, Entering
  <2>5. CASE RunAgain
    <3>1. /\ First(Missing) \in CallNo /\ Batch.turn \in Turns
      <4>1. Missing # {} /\ Replays(First(Missing))
        BY <2>5 DEF RunAgain
      <4>2. <<Batch.turn, First(Missing)>> \in ToolCall
        BY <4>1 DEF Replays, IInv, Held, Shape
      <4> QED
        BY <4>2 DEF ToolCall
    <3> QED
      BY <2>5, <3>1, Entering
  <2> QED
    BY <1>2, <1>4, <2>1, <2>2, <2>3, <2>4, <2>5, Framing DEF Framed
<1>5. CASE UNCHANGED vars
  BY <1>2, <1>5 DEF vars, durable, history
<1> QED
  BY <1>4, <1>5

(* ImplementsPromise, for every number of turns, calls and faults: a call  *)
(* runs only when it is told and intended, a call that must not be         *)
(* repeated runs once, and each is answered once, in order, truthfully.    *)
THEOREM Implementation == Spec => ImplementsPromise
<1>1. Init => Promise!Init
  <2> SUFFICES ASSUME Init PROVE Promise!Init
    OBVIOUS
  <2>1. DOMAIN log = {}
    BY EmptySeq DEF Init
  <2>2. Told = {} /\ \A c \in ToolCall : Said(c) = "none"
    BY <2>1 DEF Told, Said
  <2> QED
    BY <2>2 DEF Init, Promise!Init, Promise!ToolCall, ToolCall
<1> QED
  BY <1>1, StepImplements, Invariance, PTL DEF Spec, ImplementsPromise, Promise!Spec
=============================================================================
