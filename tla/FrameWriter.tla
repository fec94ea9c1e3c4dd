----------------------------- MODULE FrameWriter -----------------------------
(***************************************************************************)
(* The task that writes the frames of a streaming message (FrameWriter and *)
(* run_frame_writer in crates/evo-harness): clients put frames on a bounded*)
(* channel, the writer stores them in batches, and flush is the barrier a  *)
(* commit passes before it relies on them.  A counter lets flush skip the  *)
(* channel when nothing is pending, and a shared cell tells it of a failed *)
(* write; both are read and written without a common lock.                 *)
(*                                                                         *)
(* A frame is an id.  The store is the one of ProgressPromise: a failed    *)
(* append may have kept a beginning of its batch.  Volatile sessions have  *)
(* no writer and are not modelled.                                         *)
(***************************************************************************)
EXTENDS Naturals, Sequences, FiniteSets

CONSTANTS
    Client,     \* tasks that share the recorder
    Frame,      \* the frames they record
    Capacity,   \* FRAME_CHANNEL_CAPACITY
    Chunk       \* FRAME_CHUNK_RECORDS

ASSUME BoundAssumption == Capacity \in Nat \ {0} /\ Chunk \in Nat \ {0}

ASSUME ClientAssumption == IsFiniteSet(Client)

VARIABLES
    chan,       \* the channel: [frame] and [flush] commands
    pending,    \* FrameWriter::pending
    failure,    \* FrameWriter::failure holds an error
    closed,     \* the last sender was dropped
    \* The writer task.
    at,         \* "recv", "store", "publish", "release", "reply", "ended"
    batch,      \* frames received and not yet handed to the store
    writing,    \* frames handed to append_progress
    replyTo,    \* whose Flush started this write, NoOne otherwise
    failed,     \* the task's own failure
    \* The clients.
    pc,         \* "idle", "reserve", "send", "check", "cell", "enqueue", "await"
    frame,      \* the frame a client is appending
    result,     \* what the last flush of a client returned
    \* What is on disk, and what was asked for.
    stored,
    unsent,     \* frames not recorded yet
    before      \* the frames whose append had returned when the flush began

writer == <<at, batch, writing, replyTo, failed>>
clients == <<pc, frame, result, unsent, before>>
vars == <<chan, pending, failure, closed, writer, clients, stored>>

NoOne == "no one"

ASSUME NoOneAssumption == NoOne \notin Client \cup Frame

FrameCmd(f) == [frame |-> f]
FlushCmd(c) == [flush |-> c]
IsFlush(cmd) == "flush" \in DOMAIN cmd

Elements(s) == {s[i] : i \in DOMAIN s}

\* Where the frames of a channel are.
FrameSlots(s) == {i \in DOMAIN s : ~IsFlush(s[i])}

Senders == {c \in Client : pc[c] = "send"}

\* A permit of the channel is free: a client about to send holds one.
Room == Len(chan) + Cardinality(Senders) < Capacity

Init == /\ chan = <<>>
        /\ pending = 0
        /\ failure = FALSE
        /\ closed = FALSE
        /\ at = "recv"
        /\ batch = <<>>
        /\ writing = <<>>
        /\ replyTo = NoOne
        /\ failed = FALSE
        /\ pc = [c \in Client |-> "idle"]
        /\ frame = [c \in Client |-> NoOne]
        /\ result = [c \in Client |-> "none"]
        /\ stored = {}
        /\ unsent = Frame
        /\ before = [c \in Client |-> {}]

Step(c, from, to) == /\ pc[c] = from
                     /\ pc' = [pc EXCEPT ![c] = to]

(********************************* Clients ********************************)

\* append: wait for a permit, count the frame, send it.
AppendFrame(c, f) ==
    /\ ~closed
    /\ Step(c, "idle", "reserve")
    /\ f \in unsent
    /\ unsent' = unsent \ {f}
    /\ frame' = [frame EXCEPT ![c] = f]
    /\ UNCHANGED <<chan, pending, failure, closed, writer, result, stored, before>>

Reserve(c) == /\ Step(c, "reserve", "send")
              /\ Room
              /\ pending' = pending + 1
              /\ UNCHANGED <<chan, failure, closed, writer, frame, result, stored, unsent, before>>

Send(c) == /\ Step(c, "send", "idle")
           /\ chan' = Append(chan, FrameCmd(frame[c]))
           /\ frame' = [frame EXCEPT ![c] = NoOne]
           /\ UNCHANGED <<pending, failure, closed, writer, result, stored, unsent, before>>

\* The caller of an append that still waits for its permit goes away.
DropAppend(c) == /\ Step(c, "reserve", "idle")
                 /\ unsent' = unsent \cup {frame[c]}
                 /\ frame' = [frame EXCEPT ![c] = NoOne]
                 /\ UNCHANGED <<chan, pending, failure, closed, writer, result, stored, before>>

\* Frames whose append has returned, whatever became of them since.
Recorded == Frame \ (unsent \cup {frame[c] : c \in Client})

Flush(c) == /\ ~closed
            /\ Step(c, "idle", "check")
            /\ before' = [before EXCEPT ![c] = Recorded]
            /\ result' = [result EXCEPT ![c] = "none"]
            /\ UNCHANGED <<chan, pending, failure, closed, writer, frame, stored, unsent>>

CheckPending(c) == /\ Step(c, "check", IF pending = 0 THEN "cell" ELSE "enqueue")
                   /\ UNCHANGED <<chan, pending, failure, closed, writer, frame, result, stored,
                                  unsent, before>>

CheckFailure(c) == /\ Step(c, "cell", "idle")
                   /\ result' = [result EXCEPT ![c] = IF failure THEN "error" ELSE "ok"]
                   /\ UNCHANGED <<chan, pending, failure, closed, writer, frame, stored, unsent, before>>

EnqueueFlush(c) == /\ Step(c, "enqueue", "await")
                   /\ Room
                   /\ chan' = Append(chan, FlushCmd(c))
                   /\ UNCHANGED <<pending, failure, closed, writer, frame, result, stored, unsent, before>>

\* The emitter is dropped, after its last user is done.
Close == /\ ~closed
         /\ \A c \in Client : pc[c] = "idle"
         /\ closed' = TRUE
         /\ UNCHANGED <<chan, pending, failure, writer, clients, stored>>

(********************************* Writer *********************************)

\* flush_frame_batch takes the batch.
StartWrite(frames, c) == /\ at' = "store"
                         /\ writing' = frames
                         /\ batch' = <<>>
                         /\ replyTo' = c

Reply(c, ok) == IF c = NoOne THEN UNCHANGED <<pc, result>>
                ELSE /\ pc' = [pc EXCEPT ![c] = "idle"]
                     /\ result' = [result EXCEPT ![c] = IF ok THEN "ok" ELSE "error"]

ReceiveFrame ==
    /\ at = "recv"
    /\ chan # <<>>
    /\ ~IsFlush(Head(chan))
    /\ chan' = Tail(chan)
    /\ LET held == Append(batch, Head(chan).frame)
       IN  \/ /\ failed
              /\ pending' = pending - 1
              /\ UNCHANGED <<at, batch, writing, replyTo>>
           \/ /\ ~failed /\ Len(held) >= Chunk
              /\ StartWrite(held, NoOne)
              /\ UNCHANGED pending
           \/ /\ ~failed /\ Len(held) < Chunk
              /\ batch' = held
              /\ UNCHANGED <<at, writing, replyTo, pending>>
    /\ UNCHANGED <<failure, closed, failed, clients, stored>>

\* Fault: a writer that has failed forgets the barriers it receives.
IgnoreFlush ==
    /\ at = "recv"
    /\ chan # <<>>
    /\ IsFlush(Head(chan))
    /\ chan' = Tail(chan)
    /\ CASE failed -> UNCHANGED <<writer, pc, result>>
         [] ~failed /\ batch = <<>> -> Reply(Head(chan).flush, TRUE) /\ UNCHANGED writer
         [] OTHER -> StartWrite(batch, Head(chan).flush) /\ UNCHANGED <<failed, pc, result>>
    /\ UNCHANGED <<pending, failure, closed, frame, unsent, before, stored>>

ReceiveFlush ==
    /\ at = "recv"
    /\ chan # <<>>
    /\ IsFlush(Head(chan))
    /\ chan' = Tail(chan)
    /\ IF failed \/ batch = <<>>
       THEN /\ Reply(Head(chan).flush, ~failed)
            /\ UNCHANGED writer
       ELSE /\ StartWrite(batch, Head(chan).flush)
            /\ UNCHANGED <<failed, pc, result>>
    /\ UNCHANGED <<pending, failure, closed, frame, unsent, before, stored>>

\* Fault: the interval is only looked at when a command arrives.
DeadlineOnReceive == /\ at = "recv"
                     /\ batch # <<>>
                     /\ chan # <<>>
                     /\ StartWrite(batch, NoOne)
                     /\ UNCHANGED <<chan, pending, failure, closed, failed, clients, stored>>

\* The checkpoint interval since the first frame of the batch has passed.
Deadline == /\ at = "recv"
            /\ batch # <<>>
            /\ StartWrite(batch, NoOne)
            /\ UNCHANGED <<chan, pending, failure, closed, failed, clients, stored>>

\* Every sender is gone and the channel is empty: one last write.
LastWrite == /\ at = "recv"
             /\ closed
             /\ chan = <<>>
             /\ IF batch = <<>> THEN at' = "ended" /\ UNCHANGED <<batch, writing, replyTo>>
                ELSE StartWrite(batch, NoOne)
             /\ UNCHANGED <<chan, pending, failure, closed, failed, clients, stored>>

Stored == /\ at = "store"
          /\ stored' = stored \cup Elements(writing)
          /\ at' = "release"
          /\ UNCHANGED <<chan, pending, failure, closed, batch, writing, replyTo, failed, clients>>

StoreFails == /\ at = "store"
              /\ \E n \in 0..Len(writing) :
                    stored' = stored \cup Elements(SubSeq(writing, 1, n))
              /\ at' = "publish"
              /\ UNCHANGED <<chan, pending, failure, closed, batch, writing, replyTo, failed, clients>>

\* Fault: the pending count is released before the failure is visible.
ReleaseThenPublish ==
    \/ /\ at = "publish"
       /\ pending' = pending - Len(writing)
       /\ writing' = <<>>
       /\ at' = "late"
       /\ UNCHANGED <<chan, failure, closed, batch, replyTo, failed, clients, stored>>
    \/ /\ at = "late"
       /\ failure' = TRUE
       /\ failed' = TRUE
       /\ at' = "release"
       /\ UNCHANGED <<chan, pending, closed, batch, writing, replyTo, clients, stored>>

\* The failure is visible before the pending count says there is nothing left.
PublishFailure == /\ at = "publish"
                  /\ failure' = TRUE
                  /\ failed' = TRUE
                  /\ at' = "release"
                  /\ UNCHANGED <<chan, pending, closed, batch, writing, replyTo, clients, stored>>

\* Fault: only a stored batch is taken off the count.
ReleaseStored == /\ at = "release"
                 /\ pending' = IF failed THEN pending ELSE pending - Len(writing)
                 /\ writing' = <<>>
                 /\ at' = "reply"
                 /\ UNCHANGED <<chan, failure, closed, batch, replyTo, failed, clients, stored>>

Release == /\ at = "release"
           /\ pending' = pending - Len(writing)
           /\ writing' = <<>>
           /\ at' = "reply"
           /\ UNCHANGED <<chan, failure, closed, batch, replyTo, failed, clients, stored>>

Answer == /\ at = "reply"
          /\ Reply(replyTo, ~failed)
          /\ at' = "recv"
          /\ replyTo' = NoOne
          /\ UNCHANGED <<chan, pending, failure, closed, batch, writing, failed, frame, unsent, before,
                         stored>>

WriterStep == ReceiveFrame \/ ReceiveFlush \/ LastWrite \/ Stored \/ StoreFails
              \/ PublishFailure \/ Release \/ Answer

Next == \/ \E c \in Client : \/ \E f \in Frame : AppendFrame(c, f)
                             \/ Reserve(c) \/ Send(c) \/ DropAppend(c)
                             \/ Flush(c) \/ CheckPending(c) \/ CheckFailure(c) \/ EnqueueFlush(c)
        \/ Close \/ WriterStep \/ Deadline

Spec == Init /\ [][Next]_vars

(* The writer task runs whenever it can and the store answers; a running
   client goes on; the channel's semaphore queues its waiters in order, so a
   client for which permits come free again and again gets one. *)
FairSpec ==
    /\ Spec
    /\ WF_vars(WriterStep)
    /\ WF_vars(Deadline)
    /\ \A c \in Client : /\ WF_vars(Send(c) \/ CheckPending(c) \/ CheckFailure(c))
                         /\ SF_vars(EnqueueFlush(c))

(******************************* Properties *******************************)

(* A barrier that returned Ok stands: every frame whose append had returned
   when the flush began is stored, whoever recorded it, whether the flush went
   through the channel or saw a zero count.  The commit paths bind and append a
   message right after it. *)
FlushIsBarrier == \A c \in Client : result[c] = "ok" => before[c] \subseteq stored

(* The counter is exactly the frames between their permit and the release of
   their batch, so a zero is never an under-count and no frame leaves a count
   behind that would keep every later barrier on the slow path. *)
PendingIsExact ==
    pending = Cardinality(Senders) + Len(batch) + Len(writing)
              + Cardinality(FrameSlots(chan))

(* Every flush returns, however full the channel and whatever the store did. *)
FlushReturns == \A c \in Client : pc[c] = "check" ~> pc[c] = "idle"

(* What was recorded reaches the store without any barrier, unless the store
   failed: the deadline of a batch is never postponed. *)
RecordedIsStored == \A f \in Frame : f \in Recorded ~> f \in stored \/ failure
==============================================================================
