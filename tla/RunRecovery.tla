------------------------------ MODULE RunRecovery ------------------------------
(***************************************************************************)
(* One lane's runs against its durable log: turns that stream, settle and  *)
(* commit, batches of tool calls, retries, and what a new process makes of *)
(* a run that a crash cut short, up to the offer to resume it.             *)
(*                                                                         *)
(* What is abstracted.  The n-th provider request of the lane, its stream, *)
(* the entry reserved for its message and the n-th binding share the       *)
(* number n; a call is the turn and its place in the message, and so is    *)
(* the entry reserved for its result.  A stream holds text and then calls, *)
(* so how far it came is a number of calls.  A process with an approval    *)
(* hook recovers without tools: that is an empty Safe.  Queues are the     *)
(* subject of LaneQueue, the progress file of ProgressStore, its writer of *)
(* FrameWriter.  A write that is refused is not in the log.                *)
(***************************************************************************)
EXTENDS Integers, Sequences, FiniteSets

CONSTANTS
    Calls,        \* bound: calls of a message
    Safe,         \* the calls whose tool may be run again
    MaxResumes,   \* MAX_RESUME_ATTEMPTS
    MaxRetries,   \* the retry policy's max_retries
    MaxTurns,     \* bound: provider requests
    MaxPrompts,   \* bound: prompts
    MaxFaults     \* bound: crashes, refused writes, cancelled runs

CallNo == 1..Calls
Turns == 1..MaxTurns

ASSUME BoundsAssumption == /\ Calls \in Nat \ {0}
                           /\ Safe \subseteq CallNo
                           /\ MaxResumes \in Nat
                           /\ MaxRetries \in Nat
                           /\ MaxTurns \in Nat \ {0}
                           /\ MaxFaults \in Nat

VARIABLES
    \* durable
    log,        \* the branch: messages in order
    op,         \* the last operation: open or finished, and its resumeAttempt
    frames,     \* progress of each stream: its durable calls, -1 without a frame
    bound,      \* streams with a CommitStream record
    cleared,    \* streams that were retired
    retry,      \* the turn that the last retry_pending reserved, 0 for none
    started,    \* calls with a tool_started record
    \* the process
    pc,         \* how far it is
    goal,       \* what recovery is for: "open", "prompt", "resume", "fail"
    hurt,       \* the dead run: "none", "cut", or "retry" (died awaiting one)
    k,          \* the stream at hand: calls so far, -1 before it starts
    stop,       \* its stop reason; "retry" is an error that will be retried
    st,         \* the batch at hand, by call
    aborted,    \* the run's signal is cancelled
    failed,     \* a tool's checkpoint was refused
    tries,      \* retries of the run
    offer,      \* pending_resume: the attempts so far, -1 for none
    attempt,    \* resumeAttempt of the run that is about to begin
    \* history and bounds
    ran,        \* how often each call's tool was entered
    dropped,    \* attempts set aside for a retry
    resumes,    \* resumes since the last prompt
    late,       \* the last resume was admitted before its recovery
    terminated, \* the last run was ended by its tools
    prompts,
    faults

durable == <<log, op, frames, bound, cleared, retry, started>>
run == <<k, stop, st, aborted, failed, tries>>
process == <<pc, goal, hurt, run, offer, attempt>>
history == <<ran, dropped, resumes, late, terminated, prompts, faults>>
vars == <<durable, process, history>>

ToolCall == Turns \X CallNo
Recovering == {"recover", "retired"}
Running == {"turn", "stream", "ended", "committed", "waiting", "tools", "results",
            "closing", "cleared"}

Outcome == {"done", "tools", "error", "aborted", "interrupted"}

Entry == [is : {"user", "notice", "assistant", "result"},
          turn : 0..MaxTurns, call : 0..Calls,
          says : Outcome \cup {"none", "ran", "skipped", "unknown"}]

TypeOK == /\ \A i \in DOMAIN log : log[i] \in Entry
          /\ op \in [open : BOOLEAN, attempt : 0..MaxResumes]
          /\ frames \in [Turns -> -1..Calls]
          /\ \E t \in 0..MaxTurns : bound = 1..t
          /\ cleared \subseteq Turns
          /\ retry \in 0..MaxTurns + 1
          /\ started \subseteq ToolCall
          /\ pc \in {"off", "ready"} \cup Recovering \cup Running
          /\ goal \in {"none", "open", "prompt", "resume", "fail"}
          /\ hurt \in {"none", "cut", "retry"}
          /\ k \in -1..Calls
          /\ stop \in {"none", "done", "tools", "retry", "error", "aborted"}
          /\ st \in [CallNo -> {"todo", "ready", "started", "running", "ran", "blocked", "skipped"}]
          /\ {aborted, failed, late, terminated} \subseteq BOOLEAN
          /\ offer \in -1..MaxResumes
          /\ attempt \in 0..MaxResumes
          /\ ran \in [ToolCall -> 0..MaxFaults + 1]
          /\ dropped \subseteq Turns

NoRun == /\ k = -1
         /\ stop = "none"
         /\ st = [c \in CallNo |-> "todo"]
         /\ aborted = FALSE
         /\ failed = FALSE
         /\ tries = 0

Init == /\ log = <<>>
        /\ op = [open |-> FALSE, attempt |-> 0]
        /\ frames = [t \in Turns |-> -1]
        /\ bound = {}
        /\ cleared = {}
        /\ retry = 0
        /\ started = {}
        /\ pc = "ready"
        /\ goal = "none"
        /\ hurt = "none"
        /\ NoRun
        /\ offer = -1
        /\ attempt = 0
        /\ ran = [c \in ToolCall |-> 0]
        /\ dropped = {}
        /\ resumes = 0
        /\ late = FALSE
        /\ terminated = FALSE
        /\ prompts = 0
        /\ faults = 0

(******************************** The log *********************************)

Message(is, t, c, says) == [is |-> is, turn |-> t, call |-> c, says |-> says]
User == Message("user", 0, 0, "none")
Notice == Message("notice", 0, 0, "none")

\* The turn at hand is the last one that was bound.
This == Cardinality(bound)

Tip(is) == log # <<>> /\ log[Len(log)].is = is

Landed(t) == \E i \in DOMAIN log : log[i].is = "assistant" /\ log[i].turn = t

Answered(t) == {log[i].call : i \in {j \in DOMAIN log : log[j].is = "result" /\ log[j].turn = t}}

\* The last message before the results that end the log.
Batch == LET I == {i \in DOMAIN log : log[i].is # "result"}
        IN  IF I = {} THEN User ELSE log[CHOOSE i \in I : \A j \in I : j <= i]

\* The calls of the log's last batch that have no result.
Missing == {c \in 1..Batch.call : Batch.is = "assistant" /\ c \notin Answered(Batch.turn)}

First(S) == CHOOSE x \in S : \A y \in S : x <= y

\* Fault: a stream is salvaged whether or not its message is in the log.
UnsettledOrLanded == {t \in bound : frames[t] >= 0 /\ t \notin cleared}

\* The streams of the run whose message is not in the log: replay_run_streams.
Unsettled == {t \in bound : frames[t] >= 0 /\ t \notin cleared /\ ~Landed(t)}

\* The run died between a retry_pending record and the stream it reserved.
Died == retry # 0 /\ retry \notin bound /\ ~Landed(retry)

\* The log ends where a run may go on: nothing came of the prompt, or the
\* results wait for the provider.
Resumable == Tip("user") \/ Tip("result")

(***************************** The process ********************************)

Fresh == /\ k' = -1
         /\ stop' = "none"
         /\ st' = [c \in CallNo |-> "todo"]
         /\ aborted' = FALSE
         /\ failed' = FALSE
         /\ tries' = 0

\* The run is over: what it held is gone.
Over == /\ pc' = "ready"
        /\ goal' = "none"
        /\ hurt' = "none"
        /\ attempt' = 0
        /\ Fresh

Flush == frames' = [frames EXCEPT ![This] = k]

Crash == /\ pc # "off"
         /\ faults < MaxFaults
         /\ faults' = faults + 1
         /\ pc' = "off"
         /\ goal' = "none"
         /\ hurt' = "none"
         /\ attempt' = 0
         /\ offer' = -1
         /\ Fresh
         /\ UNCHANGED <<durable, ran, dropped, resumes, late, terminated, prompts>>

\* A new process opens the session.
Open == /\ pc = "off"
        /\ pc' = "recover"
        /\ goal' = "open"
        /\ hurt' = IF ~op.open THEN "none" ELSE IF Died THEN "retry" ELSE "cut"
        /\ UNCHANGED <<durable, run, offer, attempt, history>>

\* A prompt first settles what an earlier run of this process left open.
Prompt == /\ pc = "ready"
          /\ prompts < MaxPrompts
          /\ prompts' = prompts + 1
          /\ pc' = "recover"
          /\ goal' = "prompt"
          /\ hurt' = "cut"
          /\ attempt' = 0
          /\ UNCHANGED <<durable, run, offer, ran, dropped, resumes, late,
                         terminated, faults>>

\* A notice that cannot be written is only warned about.
Announce == \/ /\ log' = Append(log, Notice)
               /\ faults' = faults
            \/ /\ faults < MaxFaults
               /\ faults' = faults + 1
               /\ log' = log

\* Fault: a resume does not look at the end of the log.
ResumeBlindly == /\ pc = "ready"
                 /\ offer \in 0..(MaxResumes - 1)
                 /\ Announce
                 /\ pc' = "recover"
                 /\ goal' = "resume"
                 /\ hurt' = "cut"
                 /\ attempt' = offer + 1
                 /\ offer' = -1
                 /\ late' = op.open
                 /\ UNCHANGED <<op, frames, bound, cleared, retry, started, run,
                                ran, dropped, resumes, terminated, prompts>>

\* resume_pending: within the budget, and behind no assistant.
Resume == /\ pc = "ready"
          /\ offer \in 0..(MaxResumes - 1)
          /\ ~Tip("assistant")
          /\ Announce
          /\ pc' = "recover"
          /\ goal' = "resume"
          /\ hurt' = "cut"
          /\ attempt' = offer + 1
          /\ offer' = -1
          /\ late' = op.open
          /\ UNCHANGED <<op, frames, bound, cleared, retry, started, run, ran,
                         dropped, resumes, terminated, prompts>>

Decline == /\ pc = "ready"
           /\ offer >= 0
           /\ offer' = -1
           /\ \/ offer >= MaxResumes /\ Announce
              \/ offer < MaxResumes /\ Tip("assistant") /\ UNCHANGED <<log, faults>>
           /\ UNCHANGED <<op, frames, bound, cleared, retry, started, pc, goal,
                          hurt, run, attempt, ran, dropped, resumes, late,
                          terminated, prompts>>

(******************************* Recovery *********************************)

\* A cancelled run's recovery stops; a new process recovers uncancelled.
Busy == /\ pc = "recover"
        /\ op.open
        /\ ~aborted

\* Fault: whatever was started is run again.
ReplaysAny(c) == <<Batch.turn, c>> \in started

\* A started call whose tool may run again.
Replays(c) == c \in Safe /\ <<Batch.turn, c>> \in started

\* Fault: a call is run again before the last run's result is written.
RunAgainAndAgain ==
    /\ Busy
    /\ Missing # {}
    /\ LET c == First(Missing)
       IN  /\ Replays(c)
           /\ st' = [st EXCEPT ![c] = "ran"]
           /\ ran' = [ran EXCEPT ![<<Batch.turn, c>>] = @ + 1]
    /\ UNCHANGED <<durable, pc, goal, hurt, k, stop, aborted, failed, tries, offer,
                   attempt, dropped, resumes, late, terminated, prompts, faults>>

RunAgain == /\ Busy
            /\ Missing # {}
            /\ LET c == First(Missing)
               IN  /\ Replays(c)
                   /\ st[c] # "ran"
                   /\ st' = [st EXCEPT ![c] = "ran"]
                   /\ ran' = [ran EXCEPT ![<<Batch.turn, c>>] = @ + 1]
            /\ UNCHANGED <<durable, pc, goal, hurt, k, stop, aborted, failed, tries,
                           offer, attempt, dropped, resumes, late, terminated,
                           prompts, faults>>

\* The result of the call run again, or that its outcome is unknown.
RepairCall == /\ Busy
              /\ Missing # {}
              /\ LET c == First(Missing)
                     says == IF Replays(c) THEN "ran" ELSE "unknown"
                 IN  /\ Replays(c) => st[c] = "ran"
                     /\ log' = Append(log, Message("result", Batch.turn, c, says))
                     /\ st' = [st EXCEPT ![c] = "todo"]
              /\ UNCHANGED <<op, frames, bound, cleared, retry, started, pc, goal,
                             hurt, k, stop, aborted, failed, tries, offer, attempt,
                             history>>

\* Fault: the streams are salvaged before the last batch is repaired.
SalvageFirst ==
    /\ Busy
    /\ hurt # "retry"
    /\ Unsettled # {}
    /\ LET t == First(Unsettled)
       IN  log' = Append(log, Message("assistant", t, frames[t], "interrupted"))
    /\ UNCHANGED <<op, frames, bound, cleared, retry, started, process, history>>

\* The next stream becomes an interrupted message; its batch is repaired next.
Salvage == /\ Busy
           /\ Missing = {}
           /\ hurt # "retry"
           /\ Unsettled # {}
           /\ LET t == First(Unsettled)
              IN  log' = Append(log, Message("assistant", t, frames[t], "interrupted"))
           /\ UNCHANGED <<op, frames, bound, cleared, retry, started, process,
                          history>>

\* Fault: streams are retired when all are settled, an awaited retry's too.
RetireSettled ==
    /\ Busy
    /\ Missing = {}
    /\ Unsettled = {}
    /\ cleared' = bound
    /\ pc' = "retired"
    /\ UNCHANGED <<log, op, frames, bound, retry, started, goal, hurt, run, offer,
                   attempt, history>>

Retire == /\ Busy
          /\ Missing = {}
          /\ hurt = "retry" \/ Unsettled = {}
          /\ cleared' = bound
          /\ pc' = "retired"
          /\ UNCHANGED <<log, op, frames, bound, retry, started, goal, hurt, run,
                         offer, attempt, history>>

Close == /\ pc = "retired"
         /\ aborted => goal = "fail"
         /\ op' = [op EXCEPT !.open = FALSE]
         /\ pc' = "recover"
         /\ UNCHANGED <<log, frames, bound, cleared, retry, started, goal, hurt,
                        run, offer, attempt, history>>

\* Fault: the offer forgets the attempts before it.
OpenedAfresh ==
    /\ pc = "recover"
    /\ goal = "open"
    /\ ~op.open
    /\ offer' = IF hurt = "retry" \/ (hurt = "cut" /\ Resumable) THEN 0 ELSE -1
    /\ Over
    /\ UNCHANGED <<durable, history>>

\* Nothing is open any more.
Opened == /\ pc = "recover"
          /\ goal = "open"
          /\ ~op.open
          /\ offer' = IF hurt = "retry" \/ (hurt = "cut" /\ Resumable) THEN op.attempt ELSE -1
          /\ Over
          /\ UNCHANGED <<durable, history>>

Failed == /\ pc = "recover"
          /\ goal = "fail"
          /\ ~op.open
          /\ Over
          /\ UNCHANGED <<durable, offer, history>>

\* The recovery of a cancelled run gives up, and the operation stays open.
Cancelled == /\ pc \in Recovering
             /\ op.open
             /\ aborted
             /\ pc = "retired" => goal # "fail"
             /\ Over
             /\ UNCHANGED <<durable, offer, history>>

(********************************* Turns **********************************)

\* operation_started, with the prompt in the same append.
Begin == /\ pc = "recover"
         /\ goal \in {"prompt", "resume"}
         /\ ~op.open
         /\ op' = [open |-> TRUE, attempt |-> attempt]
         /\ log' = IF goal = "prompt" THEN Append(log, User) ELSE log
         /\ resumes' = IF goal = "prompt" THEN 0 ELSE resumes + 1
         /\ retry' = 0
         /\ late' = (late /\ goal = "resume")
         /\ terminated' = FALSE
         /\ pc' = "turn"
         /\ goal' = "none"
         /\ hurt' = "none"
         /\ attempt' = 0
         /\ UNCHANGED <<frames, bound, cleared, started, run, offer, ran, dropped,
                        prompts, faults>>

Abort == /\ pc \in Running \cup Recovering
         /\ goal # "open"
         /\ ~aborted
         /\ faults < MaxFaults
         /\ faults' = faults + 1
         /\ aborted' = TRUE
         /\ UNCHANGED <<durable, pc, goal, hurt, k, stop, st, failed, tries, offer,
                        attempt, ran, dropped, resumes, late, terminated, prompts>>

\* The message starts: its stream is bound to the entry reserved for it.
Request == /\ pc = "turn"
           /\ This < MaxTurns
           /\ bound' = bound \cup {This + 1}
           /\ k' = 0
           /\ stop' = "none"
           /\ st' = [c \in CallNo |-> "todo"]
           /\ pc' = "stream"
           /\ UNCHANGED <<log, op, frames, cleared, retry, started, goal, hurt,
                          aborted, failed, tries, offer, attempt, history>>

StreamCall == /\ pc = "stream"
              /\ k < Calls
              /\ k' = k + 1
              /\ UNCHANGED <<durable, pc, goal, hurt, stop, st, aborted, failed,
                             tries, offer, attempt, history>>

\* The frame writer, on its own time.
StoreFrame == /\ pc \in {"stream", "ended"}
              /\ frames[This] < k
              /\ frames' = [frames EXCEPT ![This] = @ + 1]
              /\ UNCHANGED <<log, op, bound, cleared, retry, started, process,
                             history>>

Stops(s) == \/ s = "done" /\ k = 0
            \/ s = "tools" /\ k > 0
            \/ s = "retry" /\ tries < MaxRetries
            \/ s = "error"
            \/ s = "aborted" /\ aborted

EndMessage(s) == /\ pc = "stream"
                 /\ Stops(s)
                 /\ stop' = s
                 /\ pc' = "ended"
                 /\ UNCHANGED <<durable, goal, hurt, k, st, aborted, failed, tries,
                                offer, attempt, history>>

\* The stream breaks without an end: the run repairs itself like a dead one.
BreakStream == /\ pc = "stream"
               /\ Flush
               /\ pc' = "recover"
               /\ goal' = "fail"
               /\ hurt' = "cut"
               /\ UNCHANGED <<log, op, bound, cleared, retry, started, run, offer,
                              attempt, history>>

\* A message with calls at once, the last one before AgentEnd.
Commit == /\ pc = "ended"
          /\ stop # "retry"
          /\ Flush
          /\ log' = Append(log, Message("assistant", This, k, stop))
          /\ pc' = "committed"
          /\ UNCHANGED <<op, bound, cleared, retry, started, goal, hurt, run, offer,
                         attempt, history>>

\* A retry that cannot be recorded is only warned about.
ScheduleRetry == /\ pc = "ended"
                 /\ stop = "retry"
                 /\ \/ retry' = This + 1 /\ faults' = faults
                    \/ faults < MaxFaults /\ faults' = faults + 1 /\ retry' = retry
                 /\ dropped' = dropped \cup {This}
                 /\ tries' = tries + 1
                 /\ pc' = "committed"
                 /\ UNCHANGED <<log, op, frames, bound, cleared, started, goal,
                                hurt, k, stop, st, aborted, failed, offer, attempt,
                                ran, resumes, late, terminated, prompts>>

\* A stream or a run that cannot be retired is only warned about.
RetireOrWarn(S) == \/ /\ Flush
                      /\ cleared' = cleared \cup S
                      /\ faults' = faults
                   \/ /\ faults < MaxFaults
                      /\ faults' = faults + 1
                      /\ UNCHANGED <<frames, cleared>>

ClearStream == /\ pc = "committed"
               /\ RetireOrWarn({This})
               /\ \/ stop = "tools" /\ pc' = "tools"
                  \/ stop = "retry" /\ pc' = "waiting"
                  \/ stop \notin {"tools", "retry"} /\ pc' = "closing"
               /\ UNCHANGED <<log, op, bound, retry, started, goal, hurt, run,
                              offer, attempt, ran, dropped, resumes, late,
                              terminated, prompts>>

\* Cancelled, the failed attempt is the run's last message after all.
Wait == /\ pc = "waiting"
        /\ \/ ~aborted /\ pc' = "turn" /\ stop' = stop
           \/ aborted /\ pc' = "ended" /\ stop' = "error"
        /\ UNCHANGED <<durable, goal, hurt, k, st, aborted, failed, tries, offer,
                       attempt, history>>

(********************************* Tools **********************************)

Batched == {c \in CallNo : c <= k}

SetCall(c, from, to) == /\ pc = "tools"
                        /\ st[c] = from
                        /\ st' = [st EXCEPT ![c] = to]

\* Calls are prepared in order, refused or ready; a cancelled run stops there.
Prepare(c) == /\ c \in Batched
              /\ \A d \in Batched : d < c => st[d] \notin {"todo", "skipped"}
              /\ \/ SetCall(c, "todo", "blocked")
                 \/ ~aborted /\ SetCall(c, "todo", "ready")
                 \/ aborted /\ SetCall(c, "todo", "skipped")
              /\ UNCHANGED <<durable, pc, goal, hurt, k, stop, aborted, failed,
                             tries, offer, attempt, history>>

\* tool_started, with the entry of the result.
Checkpoint(c) == /\ ~aborted
                 /\ SetCall(c, "ready", "started")
                 /\ started' = started \cup {<<This, c>>}
                 /\ UNCHANGED <<log, op, frames, bound, cleared, retry, pc, goal,
                                hurt, k, stop, aborted, failed, tries, offer,
                                attempt, history>>

\* A refused checkpoint cancels the run, which will fail.
RefuseCheckpoint(c) == /\ ~aborted
                       /\ faults < MaxFaults
                       /\ SetCall(c, "ready", "blocked")
                       /\ aborted' = TRUE
                       /\ failed' = TRUE
                       /\ faults' = faults + 1
                       /\ UNCHANGED <<durable, pc, goal, hurt, k, stop, tries,
                                      offer, attempt, ran, dropped, resumes, late,
                                      terminated, prompts>>

Skip(c) == /\ aborted
           /\ \/ SetCall(c, "ready", "blocked")
              \/ SetCall(c, "started", "blocked")
           /\ UNCHANGED <<durable, pc, goal, hurt, k, stop, aborted, failed, tries,
                          offer, attempt, history>>

EnterTool(c) == /\ ~aborted
                /\ SetCall(c, "started", "running")
                /\ ran' = [ran EXCEPT ![<<This, c>>] = @ + 1]
                /\ UNCHANGED <<durable, pc, goal, hurt, k, stop, aborted, failed,
                               tries, offer, attempt, dropped, resumes, late,
                               terminated, prompts, faults>>

FinishTool(c) == /\ SetCall(c, "running", "ran")
                 /\ UNCHANGED <<durable, pc, goal, hurt, k, stop, aborted, failed,
                                tries, offer, attempt, history>>

Reached == {c \in Batched : st[c] # "todo"}

\* Every call that was prepared is over, and all were, unless cancelled.
BatchOver == /\ Reached # {}
             /\ \A c \in Reached : st[c] \in {"ran", "blocked", "skipped"}
             /\ Reached = Batched \/ aborted

\* The results, in the order of the calls.
AppendResult == /\ pc \in {"tools", "results"}
                /\ BatchOver
                /\ Reached \ Answered(This) # {}
                /\ LET c == First(Reached \ Answered(This))
                       says == IF st[c] = "ran" THEN "ran" ELSE "skipped"
                   IN  log' = Append(log, Message("result", This, c, says))
                /\ pc' = "results"
                /\ UNCHANGED <<op, frames, bound, cleared, retry, started, goal,
                               hurt, run, offer, attempt, history>>

ResultsOver == pc = "results" /\ Reached \subseteq Answered(This)

NextTurn == /\ ResultsOver
            /\ ~aborted
            /\ pc' = "turn"
            /\ UNCHANGED <<durable, goal, hurt, run, offer, attempt, history>>

\* Every result terminates: there is no next request.
Terminate == /\ ResultsOver
             /\ ~aborted
             /\ \A c \in Batched : st[c] = "ran"
             /\ terminated' = TRUE
             /\ pc' = "closing"
             /\ UNCHANGED <<durable, goal, hurt, run, offer, attempt, ran, dropped,
                            resumes, late, prompts, faults>>

\* A cancelled batch is followed by a message that says so.  It starts a stream
\* like any message, so a start frame may be stored before its entry.
EndAborted == /\ ResultsOver
              /\ aborted
              /\ This < MaxTurns
              /\ bound' = bound \cup {This + 1}
              /\ k' = 0
              /\ stop' = "aborted"
              /\ pc' = "ended"
              /\ UNCHANGED <<log, op, frames, cleared, retry, started, goal, hurt,
                             st, aborted, failed, tries, offer, attempt, history>>

(******************************** The end *********************************)

ClearRun == /\ pc = "closing"
            /\ ~failed
            /\ RetireOrWarn(bound)
            /\ pc' = "cleared"
            /\ UNCHANGED <<log, op, bound, retry, started, goal, hurt, run, offer,
                           attempt, ran, dropped, resumes, late, terminated,
                           prompts>>

Finish == /\ pc = "cleared"
          /\ op' = [op EXCEPT !.open = FALSE]
          /\ Over
          /\ UNCHANGED <<log, frames, bound, cleared, retry, started, offer,
                         history>>

\* A run with a refused checkpoint leaves its operation to the next recovery.
Leave == /\ pc = "closing"
         /\ failed
         /\ Over
         /\ UNCHANGED <<durable, offer, history>>

\* The log refuses a write, a result's or the last message's again at the end
\* of its turn: the run returns the error, nothing is finished.
Refused == /\ pc \in Recovering \cup {"turn", "ended", "results", "cleared"}
           /\ pc = "ended" => stop # "retry"
           /\ faults < MaxFaults
           /\ faults' = faults + 1
           /\ pc' = IF goal = "open" THEN "off" ELSE "ready"
           /\ goal' = "none"
           /\ hurt' = "none"
           /\ attempt' = 0
           /\ Fresh
           /\ UNCHANGED <<durable, offer, ran, dropped, resumes, late, terminated,
                          prompts>>

Recover == \/ RunAgain \/ RepairCall \/ Salvage \/ Retire \/ Close
           \/ Opened \/ Failed \/ Cancelled

Tool(c) == \/ Prepare(c) \/ Checkpoint(c) \/ RefuseCheckpoint(c) \/ Skip(c)
           \/ EnterTool(c) \/ FinishTool(c)

Live == \/ Begin \/ Request \/ StreamCall \/ StoreFrame
        \/ \E s \in {"done", "tools", "retry", "error", "aborted"} : EndMessage(s)
        \/ BreakStream \/ Commit \/ ScheduleRetry \/ ClearStream \/ Wait
        \/ \E c \in CallNo : Tool(c)
        \/ AppendResult \/ NextTurn \/ Terminate \/ EndAborted
        \/ ClearRun \/ Finish \/ Leave

Next == \/ Crash \/ Open \/ Prompt \/ Resume \/ Decline \/ Abort \/ Refused
        \/ Recover \/ Live

Spec == Init /\ [][Next]_vars

\* A process that died is started again, and its recovery goes on.
FairSpec == Spec /\ WF_vars(Open) /\ WF_vars(Recover)

(******************************* Properties *******************************)

\* The tool calls of the transcript keep the promise of CallPromise.
Told == UNION {{<<log[i].turn, c>> : c \in 1..log[i].call} :
               i \in {j \in DOMAIN log : log[j].is = "assistant"}}

Said(c) == LET I == {i \in DOMAIN log : log[i].is = "result" /\ log[i].turn = c[1]
                                                             /\ log[i].call = c[2]}
           IN  IF I = {} THEN "none" ELSE log[First(I)].says

Promise == INSTANCE CallPromise WITH
               Turn <- Turns,
               told <- Told,
               intended <- started,
               entered <- ran,
               answer <- [c \in ToolCall |-> Said(c)]

ImplementsPromise == Promise!Spec

\* Every result follows the message of its call, with only results in between.
ResultsInPlace ==
    \A i \in DOMAIN log : log[i].is = "result" =>
        \E j \in 1..(i - 1) : /\ log[j].is = "assistant"
                              /\ log[j].turn = log[i].turn
                              /\ \A l \in (j + 1)..i : log[l].is = "result"

\* What a provider is sent ends with something to answer, and its batches are
\* whole; but for a resume that looked at the log before it was recovered.
RequestsAreValid == pc = "turn" => (~Tip("assistant") \/ late) /\ ResultsInPlace

\* When an operation is over, everything a stream made durable is in the log,
\* once, unless the attempt was set aside for a retry.
NothingLost ==
    /\ \A i, j \in DOMAIN log :
           {log[i].is, log[j].is} = {"assistant"} /\ log[i].turn = log[j].turn => i = j
    /\ ~op.open => \A t \in bound : frames[t] >= 0 => Landed(t) \/ t \in dropped

\* A resume that was admitted before its recovery wrote its notice behind an
\* unfinished batch, and the recovery looks no further back.
Hidden(t) == \E i \in 1..(Len(log) - 1) : /\ log[i + 1] = Notice
                                          /\ log[i].is \in {"assistant", "result"}
                                          /\ log[i].turn = t

\* A tool that was started is accounted for in the log when its operation is
\* over, whatever was salvaged around it; but for a batch hidden by a notice.
StartedIsAnswered ==
    ~op.open => \A c \in started : Said(c) # "none" \/ Hidden(c[1])

\* A run that keeps dying is resumed no more than the budget allows.
ResumesAreBounded == resumes <= MaxResumes

\* A run that its tools ended is not offered for a resume.
TerminatedStaysEnded == offer >= 0 => ~terminated

\* An operation that a dead process left open is closed.
OperationCloses == (op.open /\ pc = "off") ~> ~op.open
=============================================================================
