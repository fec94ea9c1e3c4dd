--------------------------- MODULE FrameWriterProofs ---------------------------
(***************************************************************************)
(* The safety properties of FrameWriter, for every number of clients and   *)
(* frames, every capacity and every batch size: the pending counter is     *)
(* exact, and a flush that returned Ok is a barrier.                       *)
(***************************************************************************)
EXTENDS FrameWriter, FiniteSetTheorems, TLAPS

Cmd == [frame : Frame] \cup [flush : Client]

TypeOK ==
    /\ chan \in Seq(Cmd)
    /\ failure \in BOOLEAN /\ failed = failure
    /\ at \in {"recv", "store", "publish", "release", "reply", "ended"}
    /\ batch \in Seq(Frame) /\ writing \in Seq(Frame)
    /\ replyTo \in Client \cup {NoOne}
    /\ pc \in [Client -> {"idle", "reserve", "send", "check", "cell", "enqueue", "await"}]
    /\ frame \in [Client -> Frame \cup {NoOne}]
    /\ result \in [Client -> {"none", "ok", "error"}]
    /\ before \in [Client -> SUBSET Frame]
    /\ stored \subseteq Frame /\ unsent \subseteq Frame

\* What the writer holds in each of its states.
WriterOK ==
    /\ at # "recv" \/ failed => batch = <<>>
    /\ at \in {"recv", "reply", "ended"} => writing = <<>>
    /\ at = "release" /\ ~failed => Elements(writing) \subseteq stored
    /\ at \in {"recv", "ended"} => replyTo = NoOne

\* A frame is in one place until its append returns.
FramesOK ==
    /\ \A c \in Client : frame[c] # NoOne <=> pc[c] \in {"reserve", "send"}
    /\ \A c \in Client : frame[c] \notin unsent
    /\ \A c \in Client, d \in Client : frame[c] = frame[d] => c = d \/ frame[c] = NoOne

\* The writer has the frame, had it stored, or will report that it failed.
Safe(f) == f \in stored \/ failed \/ (at \in {"store", "publish"} /\ f \in Elements(writing))

Received(f) == Safe(f) \/ f \in Elements(batch)

InChannel(f, k) == \E i \in DOMAIN chan : i < k /\ chan[i] = FrameCmd(f)

RecordedOK == \A f \in Recorded : Received(f) \/ InChannel(f, Len(chan) + 1)

\* Where the frames a flush waits for are, from its call to its answer.
FlushesOK ==
    /\ \A c \in Client : pc[c] \in {"check", "enqueue"} => before[c] \subseteq Recorded
    /\ \A c \in Client : pc[c] = "cell" => \A f \in before[c] : f \in stored \/ failed
    /\ \A c \in Client, k \in DOMAIN chan : chan[k] = FlushCmd(c) =>
          /\ pc[c] = "await" /\ replyTo # c
          /\ \A j \in DOMAIN chan : chan[j] = FlushCmd(c) => j = k
          /\ \A f \in before[c] : Received(f) \/ InChannel(f, k)
    /\ replyTo \in Client =>
          /\ pc[replyTo] = "await"
          /\ \A f \in before[replyTo] : Safe(f)

IInv == TypeOK /\ WriterOK /\ FramesOK /\ RecordedOK /\ FlushesOK
        /\ PendingIsExact /\ FlushIsBarrier

(****************************** Data lemmas *******************************)

(* The two kinds of commands are told apart by their field. *)
LEMMA CmdKinds ==
    /\ \A f \in Frame : /\ FrameCmd(f) \in Cmd
                        /\ ~IsFlush(FrameCmd(f))
                        /\ FrameCmd(f).frame = f
    /\ \A c \in Client : /\ FlushCmd(c) \in Cmd
                         /\ IsFlush(FlushCmd(c))
                         /\ FlushCmd(c).flush = c
    /\ \A cmd \in Cmd : IF IsFlush(cmd)
                        THEN cmd.flush \in Client /\ cmd = FlushCmd(cmd.flush)
                        ELSE cmd.frame \in Frame /\ cmd = FrameCmd(cmd.frame)
BY DEF Cmd, FrameCmd, FlushCmd, IsFlush

(* The frames of a channel are finitely many. *)
LEMMA SlotsAreFinite ==
    ASSUME NEW s \in Seq(Cmd)
    PROVE  IsFiniteSet(FrameSlots(s)) /\ Cardinality(FrameSlots(s)) \in Nat
<1>1. IsFiniteSet(1..Len(s))
  BY FS_Interval
<1>2. FrameSlots(s) \in SUBSET (1..Len(s))
  BY DEF FrameSlots
<1> QED
  BY <1>1, <1>2, FS_Subset, FS_CardinalityType

(* A command that is sent adds one frame to count, or none. *)
LEMMA SlotsAfterSend ==
    ASSUME NEW s \in Seq(Cmd), NEW cmd \in Cmd
    PROVE  Cardinality(FrameSlots(Append(s, cmd)))
             = Cardinality(FrameSlots(s)) + IF IsFlush(cmd) THEN 0 ELSE 1
<1>1. FrameSlots(Append(s, cmd))
        = FrameSlots(s) \cup IF IsFlush(cmd) THEN {} ELSE {Len(s) + 1}
  BY DEF FrameSlots
<1>2. Len(s) + 1 \notin FrameSlots(s)
  BY DEF FrameSlots
<1>3. Cardinality(FrameSlots(s) \cup {Len(s) + 1}) = Cardinality(FrameSlots(s)) + 1
  BY <1>2, SlotsAreFinite, FS_AddElement
<1>4. CASE IsFlush(cmd)
  BY <1>1, <1>4, SlotsAreFinite
<1>5. CASE ~IsFlush(cmd)
  BY <1>1, <1>3, <1>5, SlotsAreFinite
<1> QED
  BY <1>4, <1>5

(* A command that is received was counted once, or not at all. *)
LEMMA SlotsAfterReceive ==
    ASSUME NEW s \in Seq(Cmd), s # <<>>
    PROVE  Cardinality(FrameSlots(s))
             = Cardinality(FrameSlots(Tail(s))) + IF IsFlush(Head(s)) THEN 0 ELSE 1
<1> DEFINE Later == FrameSlots(s) \ {1}
           shift == [i \in FrameSlots(Tail(s)) |-> i + 1]
<1>1. /\ Tail(s) \in Seq(Cmd)
      /\ Len(Tail(s)) = Len(s) - 1
      /\ \A i \in 1..Len(Tail(s)) : Tail(s)[i] = s[i + 1]
  OBVIOUS
<1>2. \A i : i \in FrameSlots(Tail(s)) <=> i \in 1..Len(s) - 1 /\ ~IsFlush(s[i + 1])
  BY <1>1 DEF FrameSlots
<1>3. \A j : j \in Later <=> j \in 2..Len(s) /\ ~IsFlush(s[j])
  BY DEF FrameSlots
<1>4. shift \in Bijection(FrameSlots(Tail(s)), Later)
  <2>1. shift \in [FrameSlots(Tail(s)) -> Later]
    BY <1>2, <1>3
  <2>2. \A i, j \in FrameSlots(Tail(s)) : shift[i] = shift[j] => i = j
    BY <1>2
  <2>3. ASSUME NEW j \in Later PROVE \E i \in FrameSlots(Tail(s)) : shift[i] = j
    <3>1. j - 1 \in FrameSlots(Tail(s)) /\ (j - 1) + 1 = j
      BY <1>2, <1>3
    <3> QED BY <3>1
  <2> QED
    BY <2>1, <2>2, <2>3 DEF Bijection, Injection, Surjection, IsInjective
<1>5. Cardinality(Later) = Cardinality(FrameSlots(Tail(s)))
  BY <1>1, <1>4, SlotsAreFinite, FS_Bijection DEF ExistsBijection
<1>6. 1 \in FrameSlots(s) <=> ~IsFlush(Head(s))
  BY DEF FrameSlots
<1>7. Cardinality(Later) = Cardinality(FrameSlots(s)) - IF 1 \in FrameSlots(s) THEN 1 ELSE 0
  <2>1. IsFiniteSet(FrameSlots(s)) /\ Cardinality(FrameSlots(s)) \in Nat
    BY SlotsAreFinite
  <2> HIDE DEF Later
  <2>2. Cardinality(FrameSlots(s) \ {1})
          = IF 1 \in FrameSlots(s) THEN Cardinality(FrameSlots(s)) - 1
                                   ELSE Cardinality(FrameSlots(s))
    BY <2>1, FS_RemoveElement
  <2> QED
    BY <2>1, <2>2 DEF Later
<1> QED
  BY <1>1, <1>5, <1>6, <1>7, SlotsAreFinite

(* What a batch holds. *)
LEMMA ElementsOfBatches ==
    /\ Elements(<<>>) = {}
    /\ \A s \in Seq(Frame) : Elements(s) \subseteq Frame
    /\ \A s \in Seq(Frame), f \in Frame :
          Append(s, f) \in Seq(Frame) /\ Elements(Append(s, f)) = Elements(s) \cup {f}
    /\ \A s \in Seq(Frame) : \A n \in 0..Len(s) : Elements(SubSeq(s, 1, n)) \subseteq Elements(s)
    /\ \A s \in Seq(Frame) : Len(s) = 0 => Elements(s) = {}
<1>1. Elements(<<>>) = {}
  BY DEF Elements
<1>2. \A s \in Seq(Frame) : Elements(s) \subseteq Frame
  BY DEF Elements
<1>3. ASSUME NEW s \in Seq(Frame), NEW f \in Frame
      PROVE  Append(s, f) \in Seq(Frame) /\ Elements(Append(s, f)) = Elements(s) \cup {f}
  <2>1. /\ DOMAIN Append(s, f) = DOMAIN s \cup {Len(s) + 1}
        /\ \A i \in DOMAIN s : Append(s, f)[i] = s[i]
        /\ Append(s, f)[Len(s) + 1] = f
    OBVIOUS
  <2> QED
    BY <2>1 DEF Elements
<1>4. ASSUME NEW s \in Seq(Frame), NEW n \in 0..Len(s)
      PROVE  Elements(SubSeq(s, 1, n)) \subseteq Elements(s)
  <2>1. Len(SubSeq(s, 1, n)) = n /\ DOMAIN SubSeq(s, 1, n) = 1..n
    OBVIOUS
  <2>2. \A i \in 1..n : SubSeq(s, 1, n)[i] = s[i] /\ i \in DOMAIN s
    OBVIOUS
  <2> QED
    BY <2>1, <2>2 DEF Elements
<1>5. \A s \in Seq(Frame) : Len(s) = 0 => Elements(s) = {}
  BY DEF Elements
<1> QED
  BY <1>1, <1>2, <1>3, <1>4, <1>5

(* What a command on the channel is, where the writer takes it. *)
LEMMA HeadOfChannel ==
    ASSUME chan \in Seq(Cmd), chan # <<>>
    PROVE  /\ Head(chan) \in Cmd /\ Head(chan) = chan[1] /\ 1 \in DOMAIN chan
           /\ Tail(chan) \in Seq(Cmd)
           /\ IF IsFlush(Head(chan)) THEN /\ Head(chan).flush \in Client
                                          /\ Head(chan) = FlushCmd(Head(chan).flush)
                                     ELSE /\ Head(chan).frame \in Frame
                                          /\ Head(chan) = FrameCmd(Head(chan).frame)
<1>1. Head(chan) \in Cmd /\ Head(chan) = chan[1] /\ 1 \in DOMAIN chan /\ Tail(chan) \in Seq(Cmd)
  OBVIOUS
<1> QED
  BY <1>1, CmdKinds

(************************** What each state holds *************************)

Shape == TypeOK /\ WriterOK /\ FramesOK

(* Every step keeps the types, what the writer holds, and one owner per frame. *)
LEMMA ShapeStep == Shape /\ FlushesOK /\ [Next]_vars => Shape'
<1> SUFFICES ASSUME Shape, FlushesOK, [Next]_vars PROVE Shape'
  OBVIOUS
<1> USE NoOneAssumption DEF Shape, TypeOK, WriterOK, FramesOK
<1>1. ASSUME NEW c \in Client, NEW f \in Frame, AppendFrame(c, f) PROVE Shape'
  BY <1>1 DEF AppendFrame, Step, writer
<1>2. ASSUME NEW c \in Client, Reserve(c) PROVE Shape'
  BY <1>2 DEF Reserve, Step, writer
<1>3. ASSUME NEW c \in Client, Send(c) PROVE Shape'
  <2>1. frame[c] \in Frame
    BY <1>3 DEF Send, Step
  <2>2. chan' \in Seq(Cmd)
    BY <1>3, <2>1, CmdKinds DEF Send
  <2> QED
    BY <1>3, <2>2 DEF Send, Step, writer
<1>4. ASSUME NEW c \in Client, DropAppend(c) PROVE Shape'
  BY <1>4 DEF DropAppend, Step, writer
<1>5. ASSUME NEW c \in Client, Flush(c) PROVE Shape'
  BY <1>5 DEF Flush, Step, writer, Recorded
<1>6. ASSUME NEW c \in Client, CheckPending(c) PROVE Shape'
  BY <1>6 DEF CheckPending, Step, writer
<1>7. ASSUME NEW c \in Client, CheckFailure(c) PROVE Shape'
  BY <1>7 DEF CheckFailure, Step, writer
<1>8. ASSUME NEW c \in Client, EnqueueFlush(c) PROVE Shape'
  <2>1. chan' \in Seq(Cmd)
    BY <1>8, CmdKinds DEF EnqueueFlush
  <2> QED
    BY <1>8, <2>1 DEF EnqueueFlush, Step, writer
<1>9. CASE Close
  BY <1>9 DEF Close, writer, clients
<1>10. CASE ReceiveFrame
  <2>1. Head(chan).frame \in Frame /\ chan' \in Seq(Cmd)
    BY <1>10, HeadOfChannel DEF ReceiveFrame
  <2>2. Append(batch, Head(chan).frame) \in Seq(Frame)
    BY <2>1
  <2> QED
    BY <1>10, <2>1, <2>2 DEF ReceiveFrame, StartWrite, clients
<1>11. CASE ReceiveFlush
  <2>1. Head(chan).flush \in Client /\ chan' \in Seq(Cmd) /\ Head(chan) = FlushCmd(Head(chan).flush)
    BY <1>11, HeadOfChannel DEF ReceiveFlush
  <2>2. pc[Head(chan).flush] = "await"
    BY <1>11, <2>1, HeadOfChannel DEF ReceiveFlush, FlushesOK
  <2>3. CASE failed \/ batch = <<>>
    <3>1. /\ pc' = [pc EXCEPT ![Head(chan).flush] = "idle"]
          /\ \E r \in {"ok", "error"} : result' = [result EXCEPT ![Head(chan).flush] = r]
          /\ UNCHANGED writer
          /\ UNCHANGED <<pending, failure, closed, frame, unsent, before, stored>>
      BY <1>11, <2>1, <2>3, NoOneAssumption DEF ReceiveFlush, Reply
    <3> QED
      BY <2>1, <2>2, <3>1 DEF writer
  <2>4. CASE ~(failed \/ batch = <<>>)
    BY <1>11, <2>1, <2>2, <2>4 DEF ReceiveFlush, StartWrite
  <2> QED
    BY <2>3, <2>4
<1>12. CASE LastWrite
  BY <1>12 DEF LastWrite, StartWrite, clients
<1>13. CASE Stored
  BY <1>13, ElementsOfBatches DEF Stored, clients
<1>14. CASE StoreFails
  <2>1. stored' \subseteq Frame
    BY <1>14, ElementsOfBatches DEF StoreFails
  <2> QED
    BY <1>14, <2>1 DEF StoreFails, clients
<1>15. CASE PublishFailure
  BY <1>15 DEF PublishFailure, clients
<1>16. CASE Release
  BY <1>16 DEF Release, clients
<1>17. CASE Answer
  BY <1>17 DEF Answer, Reply, FlushesOK
<1>18. CASE Deadline
  BY <1>18 DEF Deadline, StartWrite, clients
<1>19. CASE UNCHANGED vars
  BY <1>19 DEF vars, writer, clients
<1> QED
  BY <1>1, <1>2, <1>3, <1>4, <1>5, <1>6, <1>7, <1>8, <1>9, <1>10, <1>11, <1>12, <1>13, <1>14,
     <1>15, <1>16, <1>17, <1>18, <1>19 DEF Next, WriterStep

(******************************** The count *******************************)

(* Clients that hold a permit are finitely many. *)
LEMMA SendersAreFinite == IsFiniteSet(Senders) /\ Cardinality(Senders) \in Nat
<1>1. Senders \in SUBSET Client
  BY DEF Senders
<1> QED
  BY <1>1, ClientAssumption, FS_Subset, FS_CardinalityType

(* One client more holds a permit, one fewer, or as many as before. *)
LEMMA SenderJoins ==
    ASSUME TypeOK, NEW c \in Client, pc[c] # "send", pc' = [pc EXCEPT ![c] = "send"]
    PROVE  Cardinality(Senders') = Cardinality(Senders) + 1
<1>1. Senders' = Senders \cup {c} /\ c \notin Senders
  BY DEF TypeOK, Senders
<1> QED
  BY <1>1, SendersAreFinite, FS_AddElement

LEMMA SenderLeaves ==
    ASSUME TypeOK, NEW c \in Client, pc[c] = "send", pc' = [pc EXCEPT ![c] = "idle"]
    PROVE  Cardinality(Senders') = Cardinality(Senders) - 1
<1>1. Senders' = Senders \ {c} /\ c \in Senders
  BY DEF TypeOK, Senders
<1> QED
  BY <1>1, SendersAreFinite, FS_RemoveElement

LEMMA SendersStay ==
    ASSUME TypeOK, NEW c \in Client, NEW s, pc[c] # "send", s # "send",
           pc' = [pc EXCEPT ![c] = s]
    PROVE  Cardinality(Senders') = Cardinality(Senders)
<1>1. Senders' = Senders
  BY DEF TypeOK, Senders
<1> QED
  BY <1>1

(* Every step keeps the counter exact. *)
LEMMA CountStep == Shape /\ FlushesOK /\ PendingIsExact /\ [Next]_vars => PendingIsExact'
<1> SUFFICES ASSUME Shape, FlushesOK, PendingIsExact, [Next]_vars PROVE PendingIsExact'
  OBVIOUS
<1> USE NoOneAssumption DEF PendingIsExact
<1>0. /\ chan \in Seq(Cmd) /\ batch \in Seq(Frame) /\ writing \in Seq(Frame)
      /\ Cardinality(Senders) \in Nat /\ Cardinality(FrameSlots(chan)) \in Nat
      /\ Len(batch) \in Nat /\ Len(writing) \in Nat /\ pending \in Nat
      /\ Len(<<>>) = 0
  BY SendersAreFinite, SlotsAreFinite DEF Shape, TypeOK
<1>s. ASSUME UNCHANGED pc PROVE Senders' = Senders
  BY <1>s DEF Senders
<1>c. ASSUME UNCHANGED chan PROVE FrameSlots(chan)' = FrameSlots(chan)
  BY <1>c DEF FrameSlots
<1>q. ASSUME NEW c \in Client, NEW s, s # "send", pc[c] # "send", pc' = [pc EXCEPT ![c] = s],
             UNCHANGED <<chan, pending, batch, writing>>
      PROVE  PendingIsExact'
  BY <1>0, <1>c, <1>q, SendersStay DEF Shape
<1>1. ASSUME NEW c \in Client, NEW f \in Frame, AppendFrame(c, f) PROVE PendingIsExact'
  BY <1>1, <1>q DEF AppendFrame, Step, writer
<1>2. ASSUME NEW c \in Client, Reserve(c) PROVE PendingIsExact'
  <2>1. pc[c] = "reserve" /\ pc' = [pc EXCEPT ![c] = "send"] /\ TypeOK
    BY <1>2 DEF Reserve, Step, Shape
  <2>2. Cardinality(Senders') = Cardinality(Senders) + 1
    BY <2>1, SenderJoins
  <2> QED
    BY <1>2, <1>0, <1>c, <2>2 DEF Reserve, writer
<1>3. ASSUME NEW c \in Client, Send(c) PROVE PendingIsExact'
  <2>1. frame[c] \in Frame
    BY <1>3 DEF Send, Step, Shape, TypeOK, FramesOK
  <2>2. Cardinality(FrameSlots(chan')) = Cardinality(FrameSlots(chan)) + 1
    BY <1>0, <1>3, <2>1, CmdKinds, SlotsAfterSend DEF Send
  <2>3. Cardinality(Senders') = Cardinality(Senders) - 1
    <3>1. pc[c] = "send" /\ pc' = [pc EXCEPT ![c] = "idle"] /\ TypeOK
      BY <1>3 DEF Send, Step, Shape
    <3> QED
      BY <3>1, SenderLeaves
  <2> QED
    BY <1>0, <1>3, <2>2, <2>3 DEF Send, writer
<1>4. ASSUME NEW c \in Client, DropAppend(c) PROVE PendingIsExact'
  BY <1>4, <1>q DEF DropAppend, Step, writer
<1>5. ASSUME NEW c \in Client, Flush(c) PROVE PendingIsExact'
  BY <1>5, <1>q DEF Flush, Step, writer
<1>6. ASSUME NEW c \in Client, CheckPending(c) PROVE PendingIsExact'
  BY <1>6, <1>q DEF CheckPending, Step, writer
<1>7. ASSUME NEW c \in Client, CheckFailure(c) PROVE PendingIsExact'
  BY <1>7, <1>q DEF CheckFailure, Step, writer
<1>8. ASSUME NEW c \in Client, EnqueueFlush(c) PROVE PendingIsExact'
  <2>1. Cardinality(FrameSlots(chan')) = Cardinality(FrameSlots(chan))
    BY <1>0, <1>8, CmdKinds, SlotsAfterSend DEF EnqueueFlush
  <2>2. Cardinality(Senders') = Cardinality(Senders)
    <3>1. pc[c] = "enqueue" /\ pc' = [pc EXCEPT ![c] = "await"] /\ TypeOK
      BY <1>8 DEF EnqueueFlush, Step, Shape
    <3> QED
      BY <3>1, SendersStay
  <2> QED
    BY <1>0, <1>8, <2>1, <2>2 DEF EnqueueFlush, writer
<1>9. CASE Close
  BY <1>9, <1>0, <1>s, <1>c DEF Close, writer, clients
<1>10. CASE ReceiveFrame
  <2>1. /\ Head(chan).frame \in Frame
        /\ Cardinality(FrameSlots(chan')) = Cardinality(FrameSlots(chan)) - 1
        /\ Cardinality(FrameSlots(chan')) \in Nat
    <3>1. chan' \in Seq(Cmd) /\ chan' = Tail(chan) /\ Head(chan).frame \in Frame
      BY <1>0, <1>10, HeadOfChannel DEF ReceiveFrame
    <3>2. Cardinality(FrameSlots(chan)) = Cardinality(FrameSlots(Tail(chan))) + 1
      BY <1>0, <1>10, SlotsAfterReceive DEF ReceiveFrame
    <3>3. Cardinality(FrameSlots(chan')) \in Nat
      BY <3>1, SlotsAreFinite
    <3> QED
      BY <1>0, <3>1, <3>2, <3>3
  <2>2. Len(Append(batch, Head(chan).frame)) = Len(batch) + 1
    BY <1>0, <2>1
  <2>3. writing = <<>>
    BY <1>10 DEF ReceiveFrame, Shape, WriterOK
  <2>4. Senders' = Senders
    BY <1>10, <1>s DEF ReceiveFrame, clients
  <2>5. CASE failed
    BY <1>0, <1>10, <2>1, <2>4, <2>5 DEF ReceiveFrame
  <2>6. CASE ~failed /\ Len(Append(batch, Head(chan).frame)) >= Chunk
    <3>1. /\ writing' = Append(batch, Head(chan).frame)
          /\ batch' = <<>> /\ pending' = pending
      BY <1>10, <2>2, <2>6, <1>0, BoundAssumption DEF ReceiveFrame, StartWrite
    <3> QED
      BY <1>0, <2>1, <2>2, <2>3, <2>4, <3>1
  <2>7. CASE ~failed /\ Len(Append(batch, Head(chan).frame)) < Chunk
    <3>1. /\ writing' = writing
          /\ batch' = Append(batch, Head(chan).frame) /\ pending' = pending
      BY <1>10, <2>2, <2>7, <1>0, BoundAssumption DEF ReceiveFrame
    <3> QED
      BY <1>0, <2>1, <2>2, <2>3, <2>4, <3>1
  <2> QED
    BY <1>10, <2>5, <2>6, <2>7 DEF ReceiveFrame
<1>11. CASE ReceiveFlush
  <2>1. /\ Head(chan).flush \in Client
        /\ Head(chan) = FlushCmd(Head(chan).flush)
        /\ Cardinality(FrameSlots(chan')) = Cardinality(FrameSlots(chan))
    <3>1. /\ chan' \in Seq(Cmd) /\ chan' = Tail(chan)
          /\ Head(chan).flush \in Client /\ Head(chan) = FlushCmd(Head(chan).flush)
      BY <1>0, <1>11, HeadOfChannel DEF ReceiveFlush
    <3>2. Cardinality(FrameSlots(chan)) = Cardinality(FrameSlots(Tail(chan))) + 0
      BY <1>0, <1>11, SlotsAfterReceive DEF ReceiveFlush
    <3>3. Cardinality(FrameSlots(chan')) \in Nat
      BY <3>1, SlotsAreFinite
    <3> QED
      BY <1>0, <3>1, <3>2, <3>3
  <2>2. pc[Head(chan).flush] = "await"
    BY <1>0, <1>11, <2>1, HeadOfChannel DEF ReceiveFlush, FlushesOK
  <2>3. writing = <<>>
    BY <1>11 DEF ReceiveFlush, Shape, WriterOK
  <2>4. CASE failed \/ batch = <<>>
    <3>1. Cardinality(Senders') = Cardinality(Senders)
      BY <1>11, <2>1, <2>2, <2>4, SendersStay DEF ReceiveFlush, Reply, Shape
    <3> QED
      BY <1>0, <1>11, <2>1, <2>4, <3>1 DEF ReceiveFlush, writer
  <2>5. CASE ~(failed \/ batch = <<>>)
    BY <1>0, <1>11, <1>s, <2>1, <2>3, <2>5 DEF ReceiveFlush, StartWrite
  <2> QED
    BY <2>4, <2>5
<1>12. CASE LastWrite
  BY <1>12, <1>0, <1>s, <1>c DEF LastWrite, StartWrite, clients, Shape, WriterOK
<1>13. CASE Stored
  BY <1>13, <1>0, <1>s, <1>c DEF Stored, clients
<1>14. CASE StoreFails
  BY <1>14, <1>0, <1>s, <1>c DEF StoreFails, clients
<1>15. CASE PublishFailure
  BY <1>15, <1>0, <1>s, <1>c DEF PublishFailure, clients
<1>16. CASE Release
  BY <1>16, <1>0, <1>s, <1>c DEF Release, clients
<1>17. CASE Answer
  <2>1. CASE replyTo = NoOne
    BY <1>17, <1>0, <1>s, <1>c, <2>1 DEF Answer, Reply
  <2>2. CASE replyTo # NoOne
    <3>1. replyTo \in Client /\ pc[replyTo] = "await"
      BY <2>2 DEF FlushesOK, Shape, TypeOK
    <3>2. pc' = [pc EXCEPT ![replyTo] = "idle"]
      BY <1>17, <2>2 DEF Answer, Reply
    <3> QED
      BY <1>17, <1>q, <3>1, <3>2 DEF Answer
  <2> QED
    BY <2>1, <2>2
<1>18. CASE Deadline
  BY <1>18, <1>0, <1>s, <1>c DEF Deadline, StartWrite, clients, Shape, WriterOK
<1>19. CASE UNCHANGED vars
  BY <1>19, <1>0, <1>s, <1>c DEF vars, writer, clients
<1> QED
  BY <1>1, <1>2, <1>3, <1>4, <1>5, <1>6, <1>7, <1>8, <1>9, <1>10, <1>11, <1>12, <1>13, <1>14,
     <1>15, <1>16, <1>17, <1>18, <1>19 DEF Next, WriterStep

(******************************* The barrier ******************************)

(* What a step of a client leaves alone. *)
LEMMA ClientsDoNotWrite ==
    ASSUME NEW c \in Client,
           \/ \E f \in Frame : AppendFrame(c, f)
           \/ Reserve(c) \/ Send(c) \/ DropAppend(c)
           \/ Flush(c) \/ CheckPending(c) \/ CheckFailure(c) \/ EnqueueFlush(c)
    PROVE  UNCHANGED <<writer, stored>>
BY DEF AppendFrame, Reserve, Send, DropAppend, Flush, CheckPending, CheckFailure, EnqueueFlush

(* A frame that is stored, or of which a failure will be told, stays so. *)
LEMMA SafeStays == ASSUME Shape, [Next]_vars, NEW f, Safe(f) PROVE Safe(f)'
<1> USE DEF Safe, Shape, TypeOK, WriterOK
<1>1. ASSUME UNCHANGED <<at, writing, failed, stored>> PROVE Safe(f)'
  BY <1>1
<1>2. ASSUME UNCHANGED <<writer, stored>> PROVE Safe(f)'
  BY <1>1, <1>2 DEF writer
<1>3. CASE ReceiveFrame
  BY <1>3 DEF ReceiveFrame, StartWrite
<1>4. CASE ReceiveFlush
  BY <1>4 DEF ReceiveFlush, StartWrite, writer
<1>5. CASE LastWrite
  BY <1>5 DEF LastWrite, StartWrite
<1>6. CASE Stored
  BY <1>6 DEF Stored
<1>7. CASE StoreFails
  BY <1>7 DEF StoreFails
<1>8. CASE PublishFailure
  BY <1>8 DEF PublishFailure
<1>9. CASE Release
  BY <1>9 DEF Release
<1>10. CASE Answer
  BY <1>10 DEF Answer
<1>11. CASE Deadline
  BY <1>11 DEF Deadline, StartWrite
<1>12. CASE Close
  BY <1>2, <1>12 DEF Close
<1>13. CASE UNCHANGED vars
  BY <1>2, <1>13 DEF vars
<1> HIDE DEF Safe
<1> QED
  BY <1>2, <1>3, <1>4, <1>5, <1>6, <1>7, <1>8, <1>9, <1>10, <1>11, <1>12, <1>13,
     ClientsDoNotWrite DEF Next, WriterStep

(* A frame the writer took off the channel stays in its hands or is safe. *)
LEMMA ReceivedStays == ASSUME Shape, [Next]_vars, NEW f, Received(f) PROVE Received(f)'
<1>1. CASE Safe(f)
  BY <1>1, SafeStays DEF Received
<1>2. CASE f \in Elements(batch) /\ ~Safe(f)
  <2> USE <1>2 DEF Received, Safe, Shape, TypeOK, WriterOK
  <2>1. at = "recv" /\ ~failed
    BY ElementsOfBatches
  <2>2. ASSUME UNCHANGED batch PROVE Received(f)'
    BY <2>2 DEF Elements
  <2>3. ASSUME NEW c, StartWrite(batch, c) PROVE Received(f)'
    BY <2>3 DEF StartWrite, Elements
  <2>4. CASE ReceiveFrame
    <3>1. Head(chan).frame \in Frame
      BY <2>4, HeadOfChannel DEF ReceiveFrame
    <3>2. f \in Elements(Append(batch, Head(chan).frame))
      BY <3>1, ElementsOfBatches
    <3> QED
      BY <2>1, <2>4, <3>2 DEF ReceiveFrame, StartWrite
  <2>5. CASE ReceiveFlush
    BY <2>1, <2>3, <2>5, ElementsOfBatches DEF ReceiveFlush
  <2>6. CASE LastWrite
    BY <2>3, <2>6, ElementsOfBatches DEF LastWrite
  <2>7. CASE Deadline
    BY <2>3, <2>7 DEF Deadline
  <2>8. CASE Stored \/ StoreFails \/ PublishFailure \/ Release \/ Answer
    BY <2>1, <2>8 DEF Stored, StoreFails, PublishFailure, Release, Answer
  <2>9. CASE Close \/ UNCHANGED vars
    BY <2>2, <2>9 DEF Close, vars, writer
  <2>10. ASSUME UNCHANGED <<writer, stored>> PROVE Received(f)'
    BY <2>2, <2>10 DEF writer
  <2> HIDE DEF Received
  <2> QED
    BY <2>4, <2>5, <2>6, <2>7, <2>8, <2>9, <2>10, ClientsDoNotWrite DEF Next, WriterStep
<1> QED
  BY <1>1, <1>2 DEF Received

(* A frame in the channel moves up, or is the one that is received. *)
LEMMA InChannelMoves ==
    ASSUME chan \in Seq(Cmd), chan # <<>>, chan' = Tail(chan),
           NEW f, NEW k \in 1..Len(chan) + 1, InChannel(f, k)
    PROVE  Head(chan) = FrameCmd(f) \/ InChannel(f, k - 1)'
<1>1. PICK i \in DOMAIN chan : i < k /\ chan[i] = FrameCmd(f)
  BY DEF InChannel
<1>2. CASE i = 1
  BY <1>1, <1>2
<1>3. CASE i # 1
  <2>1. i - 1 \in DOMAIN Tail(chan) /\ i - 1 < k - 1 /\ Tail(chan)[i - 1] = chan[i]
    BY <1>1, <1>3
  <2> QED
    BY <1>1, <2>1 DEF InChannel
<1> QED
  BY <1>2, <1>3

(* A frame in the channel stays where it is when a command is sent. *)
LEMMA InChannelStays ==
    ASSUME chan \in Seq(Cmd), NEW cmd \in Cmd, chan' = Append(chan, cmd),
           NEW f, NEW k \in 1..Len(chan) + 1, InChannel(f, k)
    PROVE  InChannel(f, k)'
<1>1. PICK i \in DOMAIN chan : i < k /\ chan[i] = FrameCmd(f)
  BY DEF InChannel
<1>2. i \in DOMAIN Append(chan, cmd) /\ Append(chan, cmd)[i] = chan[i]
  BY <1>1
<1> QED
  BY <1>1, <1>2 DEF InChannel

Barrier == RecordedOK /\ FlushesOK /\ FlushIsBarrier

(* A step that touches neither the channel nor the clients. *)
LEMMA QuietStep ==
    ASSUME Shape, Barrier, [Next]_vars, UNCHANGED <<chan, clients>>,
           replyTo' \in {replyTo, NoOne}, stored \subseteq stored', failed => failed'
    PROVE  Barrier'
<1> USE NoOneAssumption DEF Barrier, clients
<1>1. RecordedOK'
  BY ReceivedStays DEF RecordedOK, Recorded, InChannel
<1>2. FlushesOK'
  <2>1. \A c \in Client : pc[c] \in {"check", "enqueue"} => before[c] \subseteq Recorded'
    BY DEF FlushesOK, Recorded
  <2>2. \A c \in Client : pc[c] = "cell" => \A f \in before[c] : f \in stored' \/ failed'
    BY DEF FlushesOK
  <2>3. ASSUME NEW c \in Client, NEW k \in DOMAIN chan, chan[k] = FlushCmd(c)
        PROVE  /\ pc[c] = "await" /\ replyTo' # c
               /\ \A j \in DOMAIN chan : chan[j] = FlushCmd(c) => j = k
               /\ \A f \in before[c] : Received(f)' \/ InChannel(f, k)
    BY <2>3, ReceivedStays DEF FlushesOK
  <2>4. replyTo' \in Client => /\ pc[replyTo'] = "await"
                              /\ \A f \in before[replyTo'] : Safe(f)'
    BY SafeStays DEF FlushesOK
  <2> QED
    BY <2>1, <2>2, <2>3, <2>4 DEF FlushesOK, InChannel
<1>3. FlushIsBarrier'
  BY DEF FlushIsBarrier
<1> QED
  BY <1>1, <1>2, <1>3

(* A step of a client that leaves the channel and the frames recorded alone
   keeps the bookkeeping of the flushes, if it keeps that of its own. *)
LEMMA ClientStep ==
    ASSUME Shape, Barrier, [Next]_vars, NEW c \in Client,
           UNCHANGED <<chan, writer, stored>>,
           Recorded' = Recorded,
           NEW s, pc[c] # "await", s # "await", pc' = [pc EXCEPT ![c] = s],
           \A d \in Client : d # c => before'[d] = before[d] /\ result'[d] = result[d],
           s \in {"check", "enqueue"} => before'[c] \subseteq Recorded,
           s = "cell" => \A f \in before'[c] : f \in stored \/ failed,
           result'[c] = "ok" => before'[c] \subseteq stored
    PROVE  Barrier'
<1> USE NoOneAssumption DEF Barrier, writer
<1>1. RecordedOK'
  BY ReceivedStays DEF RecordedOK, InChannel
<1>2. FlushesOK'
  <2>1. \A d \in Client : pc'[d] \in {"check", "enqueue"} => before'[d] \subseteq Recorded'
    BY DEF FlushesOK, Shape, TypeOK
  <2>2. \A d \in Client : pc'[d] = "cell" => \A f \in before'[d] : f \in stored \/ failed
    BY DEF FlushesOK, Shape, TypeOK
  <2>3. ASSUME NEW d \in Client, NEW k \in DOMAIN chan, chan[k] = FlushCmd(d)
        PROVE  /\ pc'[d] = "await" /\ replyTo # d
               /\ \A j \in DOMAIN chan : chan[j] = FlushCmd(d) => j = k
               /\ \A f \in before'[d] : Received(f)' \/ InChannel(f, k)
    <3>1. d # c /\ pc[d] = "await"
      BY <2>3 DEF FlushesOK
    <3>2. pc'[d] = "await" /\ before'[d] = before[d]
      BY <3>1 DEF Shape, TypeOK
    <3> QED
      BY <2>3, <3>2, ReceivedStays DEF FlushesOK
  <2>4. ASSUME replyTo \in Client
        PROVE  pc'[replyTo] = "await" /\ \A f \in before'[replyTo] : Safe(f)'
    <3>1. replyTo # c /\ pc[replyTo] = "await"
      BY <2>4 DEF FlushesOK
    <3>2. pc'[replyTo] = "await" /\ before'[replyTo] = before[replyTo]
      BY <2>4, <3>1 DEF Shape, TypeOK
    <3> QED
      BY <2>4, <3>2, SafeStays DEF FlushesOK
  <2> QED
    BY <2>1, <2>2, <2>3, <2>4 DEF FlushesOK, InChannel
<1>3. FlushIsBarrier'
  BY DEF FlushIsBarrier
<1> QED
  BY <1>1, <1>2, <1>3

(* With nothing counted, nothing is on its way: a recorded frame is stored, or
   the failure is there to be read. *)
LEMMA ZeroMeansDone ==
    ASSUME Shape, PendingIsExact, RecordedOK, pending = 0, NEW f \in Recorded
    PROVE  f \in stored \/ failed
<1>1. /\ Cardinality(Senders) \in Nat /\ Cardinality(FrameSlots(chan)) \in Nat
      /\ IsFiniteSet(FrameSlots(chan))
      /\ Len(batch) \in Nat /\ Len(writing) \in Nat
  BY SendersAreFinite, SlotsAreFinite DEF Shape, TypeOK
<1>2. Len(batch) = 0 /\ Len(writing) = 0 /\ Cardinality(FrameSlots(chan)) = 0
  BY <1>1 DEF PendingIsExact
<1>3. Elements(batch) = {} /\ Elements(writing) = {} /\ FrameSlots(chan) = {}
  BY <1>1, <1>2, ElementsOfBatches, FS_EmptySet DEF Shape, TypeOK
<1>4. ~InChannel(f, Len(chan) + 1)
  <2>1. f \in Frame
    BY DEF Recorded
  <2> QED
    BY <1>3, <2>1, CmdKinds DEF InChannel, FrameSlots
<1> QED
  BY <1>3, <1>4 DEF RecordedOK, Received, Safe

(* The writer takes a flush off the channel: the others move up, and what it
   waits for is safe if the writer is to answer it later. *)
LEMMA FlushReceived ==
    ASSUME Shape, Barrier, [Next]_vars, NEW c \in Client,
           chan # <<>>, chan' = Tail(chan), chan[1] = FlushCmd(c),
           UNCHANGED <<frame, unsent, before, stored, failed>>,
           \A d \in Client : d # c => pc'[d] = pc[d],
           pc'[c] \in {"idle", "await"},
           replyTo' # NoOne => replyTo' = c /\ pc'[c] = "await" /\ \A f \in before[c] : Safe(f)',
           FlushIsBarrier'
    PROVE  Barrier'
<1> USE NoOneAssumption DEF Barrier
<1>0. chan \in Seq(Cmd)
  BY DEF Shape, TypeOK
<1>1. /\ Len(chan') = Len(chan) - 1 /\ 1 \in DOMAIN chan /\ Head(chan) = chan[1]
      /\ \A k \in DOMAIN chan' : /\ k + 1 \in DOMAIN chan /\ chan'[k] = chan[k + 1]
                                 /\ k + 1 # 1 /\ (k + 1) - 1 = k /\ k \in Nat
      /\ \A k \in DOMAIN chan : k \in 1..Len(chan) + 1
      /\ Len(chan) + 1 \in 1..Len(chan) + 1 /\ (Len(chan) + 1) - 1 = Len(chan') + 1
  BY <1>0
<1>2. ASSUME NEW f \in Frame, NEW k \in 1..Len(chan) + 1, InChannel(f, k)
      PROVE  InChannel(f, k - 1)'
  <2>1. Head(chan) # FrameCmd(f)
    BY <1>1, CmdKinds
  <2> QED
    BY <1>0, <1>2, <2>1, InChannelMoves
<1>3. RecordedOK'
  BY <1>1, <1>2, ReceivedStays DEF RecordedOK, Recorded
<1>4. \A d \in Client : pc'[d] \in {"check", "enqueue"} => before'[d] \subseteq Recorded'
  BY DEF FlushesOK, Recorded
<1>5. \A d \in Client : pc'[d] = "cell" => \A f \in before'[d] : f \in stored' \/ failed'
  BY DEF FlushesOK
<1>6. ASSUME NEW d \in Client, NEW k \in DOMAIN chan', chan'[k] = FlushCmd(d)
      PROVE  /\ pc'[d] = "await" /\ replyTo' # d
             /\ \A j \in DOMAIN chan' : chan'[j] = FlushCmd(d) => j = k
             /\ \A f \in before'[d] : Received(f)' \/ InChannel(f, k)'
  <2>1. k + 1 \in DOMAIN chan /\ chan[k + 1] = FlushCmd(d) /\ k + 1 \in 1..Len(chan) + 1
    BY <1>1, <1>6
  <2>2. d # c
    <3>1. chan[1] = FlushCmd(d) => 1 = k + 1
      BY <1>1, <2>1 DEF FlushesOK
    <3> QED
      BY <1>1, <1>6, <3>1
  <2>3. \A j \in DOMAIN chan' : chan'[j] = FlushCmd(d) => j = k
    <3>1. ASSUME NEW j \in DOMAIN chan', chan'[j] = FlushCmd(d) PROVE j + 1 = k + 1
      BY <1>1, <2>1, <3>1 DEF FlushesOK
    <3>2. \A j \in DOMAIN chan' : j + 1 = k + 1 => j = k
      BY <1>1, <1>6
    <3> QED
      BY <3>1, <3>2
  <2>4. ASSUME NEW f \in before'[d] PROVE Received(f)' \/ InChannel(f, k)'
    <3>1. f \in Frame /\ f \in before[d]
      BY DEF Shape, TypeOK
    <3>2. Received(f) \/ InChannel(f, k + 1)
      BY <2>1, <3>1 DEF FlushesOK
    <3>3. InChannel(f, k + 1) => InChannel(f, (k + 1) - 1)'
      BY <1>2, <2>1, <3>1
    <3> QED
      BY <1>1, <1>6, <3>2, <3>3, ReceivedStays
  <2>5. pc'[d] = "await" /\ replyTo' # d
    BY <2>1, <2>2 DEF FlushesOK
  <2> QED
    BY <2>3, <2>4, <2>5
<1>7. replyTo' \in Client => /\ pc'[replyTo'] = "await"
                            /\ \A f \in before'[replyTo'] : Safe(f)'
  OBVIOUS
<1> QED
  BY <1>3, <1>4, <1>5, <1>6, <1>7 DEF FlushesOK

(* Every step keeps track of the frames a flush waits for. *)
LEMMA BarrierStep == Shape /\ Shape' /\ PendingIsExact /\ Barrier /\ [Next]_vars => Barrier'
<1> SUFFICES ASSUME Shape, Shape', PendingIsExact, Barrier, [Next]_vars PROVE Barrier'
  OBVIOUS
<1> USE NoOneAssumption DEF Barrier
<1>0. chan \in Seq(Cmd) /\ failed = failure
  BY DEF Shape, TypeOK
<1>1. ASSUME NEW c \in Client, NEW f \in Frame, AppendFrame(c, f) PROVE Barrier'
  <2>1. Recorded' = Recorded
    BY <1>1 DEF AppendFrame, Step, Recorded, Shape, TypeOK, FramesOK
  <2> QED
    BY <1>1, <2>1, ClientStep DEF AppendFrame, Step, FlushIsBarrier
<1>2. ASSUME NEW c \in Client, Reserve(c) PROVE Barrier'
  BY <1>2, ClientStep DEF Reserve, Step, Recorded, FlushIsBarrier
<1>3. ASSUME NEW c \in Client, Send(c) PROVE Barrier'
  <2>1. frame[c] \in Frame /\ FrameCmd(frame[c]) \in Cmd /\ ~IsFlush(FrameCmd(frame[c]))
    BY <1>3, CmdKinds DEF Send, Step, Shape, TypeOK, FramesOK
  <2>2. /\ Len(chan') = Len(chan) + 1 /\ DOMAIN chan' = DOMAIN chan \cup {Len(chan) + 1}
        /\ chan'[Len(chan) + 1] = FrameCmd(frame[c])
        /\ \A k \in DOMAIN chan : chan'[k] = chan[k] /\ k \in 1..Len(chan) + 1
    BY <1>0, <1>3, <2>1 DEF Send
  <2>3. Recorded' \subseteq Recorded \cup {frame[c]} /\ Recorded \subseteq Recorded'
    BY <1>3 DEF Send, Step, Recorded, Shape, TypeOK
  <2>4. UNCHANGED <<writer, stored, before, result>> /\ pc' = [pc EXCEPT ![c] = "idle"]
        /\ pc[c] = "send"
    BY <1>3 DEF Send, Step
  <2>5. \A f, k : k \in 1..Len(chan) + 1 /\ InChannel(f, k) => InChannel(f, k)'
    BY <1>0, <1>3, <2>1, InChannelStays DEF Send
  <2>6. RecordedOK'
    <3>1. \A f : f = frame[c] => InChannel(f, Len(chan) + 1)'
      BY <1>0, <2>2 DEF InChannel
    <3>2. ASSUME NEW f, InChannel(f, Len(chan) + 1) PROVE InChannel(f, Len(chan) + 1)'
      BY <1>0, <2>2, <3>2 DEF InChannel
    <3> QED
      BY <2>3, <3>1, <3>2, ReceivedStays DEF RecordedOK
  <2>7. FlushesOK'
    <3>1. \A d \in Client : pc'[d] \in {"check", "enqueue"} => before'[d] \subseteq Recorded'
      BY <2>3, <2>4 DEF FlushesOK, Shape, TypeOK
    <3>2. \A d \in Client : pc'[d] = "cell" => \A f \in before'[d] : f \in stored' \/ failed'
      BY <2>4 DEF FlushesOK, Shape, TypeOK, writer
    <3>3. ASSUME NEW d \in Client, NEW k \in DOMAIN chan', chan'[k] = FlushCmd(d)
          PROVE  /\ pc'[d] = "await" /\ replyTo' # d
                 /\ \A j \in DOMAIN chan' : chan'[j] = FlushCmd(d) => j = k
                 /\ \A f \in before'[d] : Received(f)' \/ InChannel(f, k)'
      <4>1. chan'[Len(chan) + 1] # FlushCmd(d)
        BY <2>1, <2>2, CmdKinds
      <4>2. k \in DOMAIN chan /\ chan[k] = FlushCmd(d)
        BY <2>2, <3>3, <4>1
      <4>3. pc[d] = "await" /\ pc'[d] = "await" /\ replyTo' # d
        BY <2>4, <4>2 DEF FlushesOK, Shape, TypeOK, writer
      <4>4. \A j \in DOMAIN chan' : chan'[j] = FlushCmd(d) => j = k
        BY <2>2, <4>1, <4>2 DEF FlushesOK
      <4>5. \A f \in before'[d] : Received(f)' \/ InChannel(f, k)'
        BY <2>2, <2>4, <2>5, <4>2, ReceivedStays DEF FlushesOK
      <4> QED
        BY <4>3, <4>4, <4>5
    <3>4. ASSUME replyTo' \in Client
          PROVE  pc'[replyTo'] = "await" /\ \A f \in before'[replyTo'] : Safe(f)'
      BY <2>4, <3>4, SafeStays DEF FlushesOK, Shape, TypeOK, writer
    <3> QED
      BY <3>1, <3>2, <3>3, <3>4 DEF FlushesOK
  <2> QED
    BY <2>4, <2>6, <2>7 DEF FlushIsBarrier
<1>4. ASSUME NEW c \in Client, DropAppend(c) PROVE Barrier'
  <2>1. Recorded' = Recorded
    BY <1>4 DEF DropAppend, Step, Recorded, Shape, TypeOK, FramesOK
  <2> QED
    BY <1>4, <2>1, ClientStep DEF DropAppend, Step, FlushIsBarrier
<1>5. ASSUME NEW c \in Client, Flush(c) PROVE Barrier'
  <2>1. /\ Recorded' = Recorded
        /\ before' = [before EXCEPT ![c] = Recorded]
        /\ result' = [result EXCEPT ![c] = "none"]
        /\ pc[c] = "idle" /\ pc' = [pc EXCEPT ![c] = "check"]
        /\ UNCHANGED <<chan, writer, stored>>
    BY <1>5 DEF Flush, Step, Recorded
  <2>2. /\ before'[c] = Recorded /\ result'[c] = "none"
        /\ \A d \in Client : d # c => before'[d] = before[d] /\ result'[d] = result[d]
    BY <2>1 DEF Shape, TypeOK
  <2> QED
    BY <2>1, <2>2, ClientStep
<1>6. ASSUME NEW c \in Client, CheckPending(c) PROVE Barrier'
  <2>1. /\ Recorded' = Recorded /\ UNCHANGED <<before, result>>
        /\ pc[c] = "check" /\ before[c] \subseteq Recorded
        /\ pc' = [pc EXCEPT ![c] = IF pending = 0 THEN "cell" ELSE "enqueue"]
        /\ UNCHANGED <<chan, writer, stored>>
    BY <1>6 DEF CheckPending, Step, Recorded, FlushesOK
  <2>2. pending = 0 => \A f \in before[c] : f \in stored \/ failed
    BY <2>1, ZeroMeansDone
  <2> QED
    BY <2>1, <2>2, ClientStep DEF FlushIsBarrier
<1>7. ASSUME NEW c \in Client, CheckFailure(c) PROVE Barrier'
  <2>1. /\ Recorded' = Recorded /\ UNCHANGED before
        /\ pc[c] = "cell" /\ pc' = [pc EXCEPT ![c] = "idle"]
        /\ result' = [result EXCEPT ![c] = IF failure THEN "error" ELSE "ok"]
        /\ UNCHANGED <<chan, writer, stored>>
    BY <1>7 DEF CheckFailure, Step, Recorded
  <2>2. result'[c] = "ok" => before[c] \subseteq stored
    BY <1>0, <2>1 DEF FlushesOK, Shape, TypeOK
  <2>3. \A d \in Client : d # c => result'[d] = result[d]
    BY <2>1 DEF Shape, TypeOK
  <2> QED
    BY <2>1, <2>2, <2>3, ClientStep
<1>8. ASSUME NEW c \in Client, EnqueueFlush(c) PROVE Barrier'
  <2>1. FlushCmd(c) \in Cmd /\ IsFlush(FlushCmd(c)) /\ FlushCmd(c).flush = c
    BY CmdKinds
  <2>2. /\ Len(chan') = Len(chan) + 1 /\ DOMAIN chan' = DOMAIN chan \cup {Len(chan) + 1}
        /\ chan'[Len(chan) + 1] = FlushCmd(c)
        /\ \A k \in DOMAIN chan : chan'[k] = chan[k] /\ k \in 1..Len(chan) + 1
    BY <1>0, <1>8, <2>1 DEF EnqueueFlush
  <2>3. /\ Recorded' = Recorded /\ UNCHANGED <<writer, stored, before, result>>
        /\ pc[c] = "enqueue" /\ pc' = [pc EXCEPT ![c] = "await"]
    BY <1>8 DEF EnqueueFlush, Step, Recorded
  <2>4. \A f, k : k \in 1..Len(chan) + 1 /\ InChannel(f, k) => InChannel(f, k)'
    BY <1>0, <1>8, <2>1, InChannelStays DEF EnqueueFlush
  <2>5. RecordedOK'
    <3>1. ASSUME NEW f, InChannel(f, Len(chan) + 1) PROVE InChannel(f, Len(chan) + 1)'
      BY <1>0, <2>2, <3>1 DEF InChannel
    <3> QED
      BY <2>3, <3>1, ReceivedStays DEF RecordedOK
  <2>6. FlushesOK'
    <3>1. \A d \in Client : pc'[d] \in {"check", "enqueue"} => before'[d] \subseteq Recorded'
      BY <2>3 DEF FlushesOK, Shape, TypeOK
    <3>2. \A d \in Client : pc'[d] = "cell" => \A f \in before'[d] : f \in stored' \/ failed'
      BY <2>3 DEF FlushesOK, Shape, TypeOK, writer
    <3>3. ASSUME NEW d \in Client, NEW k \in DOMAIN chan', chan'[k] = FlushCmd(d)
          PROVE  /\ pc'[d] = "await" /\ replyTo' # d
                 /\ \A j \in DOMAIN chan' : chan'[j] = FlushCmd(d) => j = k
                 /\ \A f \in before'[d] : Received(f)' \/ InChannel(f, k)'
      <4>1. CASE d = c
        <5>1. \A j \in DOMAIN chan : chan[j] # FlushCmd(c)
          BY <2>3 DEF FlushesOK
        <5>2. \A j \in DOMAIN chan' : chan'[j] = FlushCmd(d) => j = Len(chan) + 1
          BY <2>2, <4>1, <5>1
        <5>3. pc'[d] = "await" /\ replyTo' # d
          BY <2>3, <4>1 DEF FlushesOK, Shape, TypeOK, writer
        <5>4. \A f \in before[c] : Received(f) \/ InChannel(f, Len(chan) + 1)
          BY <2>3 DEF FlushesOK, RecordedOK
        <5>5. Len(chan) + 1 \in 1..Len(chan) + 1 /\ k = Len(chan) + 1
          BY <1>0, <3>3, <5>2
        <5>6. \A f \in before'[d] : Received(f)' \/ InChannel(f, k)'
          BY <2>3, <2>4, <4>1, <5>4, <5>5, ReceivedStays
        <5> QED
          BY <3>3, <5>2, <5>3, <5>6
      <4>2. CASE d # c
        <5>1. chan'[Len(chan) + 1] # FlushCmd(d)
          BY <2>1, <2>2, <4>2, CmdKinds
        <5>2. k \in DOMAIN chan /\ chan[k] = FlushCmd(d)
          BY <2>2, <3>3, <5>1
        <5>3. pc'[d] = "await" /\ replyTo' # d
          BY <2>3, <4>2, <5>2 DEF FlushesOK, Shape, TypeOK, writer
        <5>4. \A j \in DOMAIN chan' : chan'[j] = FlushCmd(d) => j = k
          BY <2>2, <5>1, <5>2 DEF FlushesOK
        <5>5. \A f \in before'[d] : Received(f)' \/ InChannel(f, k)'
          BY <2>2, <2>3, <2>4, <5>2, ReceivedStays DEF FlushesOK
        <5> QED
          BY <5>3, <5>4, <5>5
      <4> QED
        BY <4>1, <4>2
    <3>4. ASSUME replyTo' \in Client
          PROVE  pc'[replyTo'] = "await" /\ \A f \in before'[replyTo'] : Safe(f)'
      BY <2>3, <3>4, SafeStays DEF FlushesOK, Shape, TypeOK, writer
    <3> QED
      BY <3>1, <3>2, <3>3, <3>4 DEF FlushesOK
  <2> QED
    BY <2>3, <2>5, <2>6 DEF FlushIsBarrier
<1>9. ASSUME chan # <<>>, chan' = Tail(chan)
      PROVE  /\ Len(chan') = Len(chan) - 1
             /\ \A k \in DOMAIN chan' : /\ k + 1 \in DOMAIN chan /\ chan'[k] = chan[k + 1]
                                        /\ k + 1 # 1 /\ (k + 1) - 1 = k
             /\ \A k \in DOMAIN chan : k \in 1..Len(chan) + 1
             /\ Len(chan) + 1 \in 1..Len(chan) + 1 /\ (Len(chan) + 1) - 1 = Len(chan') + 1
  BY <1>0, <1>9
<1>10. CASE ReceiveFrame
  <2> DEFINE g == Head(chan).frame
  <2>1. /\ g \in Frame /\ Head(chan) = FrameCmd(g) /\ chan # <<>> /\ chan' = Tail(chan)
        /\ UNCHANGED <<pc, frame, result, unsent, before, stored, failed>>
        /\ at = "recv" /\ replyTo' = NoOne
    BY <1>0, <1>10, HeadOfChannel DEF ReceiveFrame, StartWrite, clients, Shape, WriterOK
  <2>2. \A f : f = g => Received(f)'
    <3>1. g \in Elements(Append(batch, g))
      BY <2>1, ElementsOfBatches DEF Shape, TypeOK
    <3> QED
      BY <1>10, <3>1 DEF ReceiveFrame, StartWrite, Received, Safe
  <2> HIDE DEF g
  <2>3. ASSUME NEW f, NEW k \in 1..Len(chan) + 1, InChannel(f, k), f \in Frame
        PROVE  Received(f)' \/ InChannel(f, k - 1)'
    <3>1. Head(chan) = FrameCmd(f) \/ InChannel(f, k - 1)'
      BY <1>0, <2>1, <2>3, InChannelMoves
    <3>2. Head(chan) = FrameCmd(f) => f = g
      BY <2>1, <2>3, CmdKinds
    <3> QED
      BY <2>2, <3>1, <3>2
  <2>4. RecordedOK'
    <3>1. ASSUME NEW f \in Recorded, InChannel(f, Len(chan) + 1)
          PROVE  Received(f)' \/ InChannel(f, Len(chan) + 1)'
      <4>1. \A k : k = Len(chan) + 1 => Received(f)' \/ InChannel(f, k - 1)'
        BY <1>9, <2>1, <2>3, <3>1 DEF Recorded
      <4> QED
        BY <1>9, <2>1, <4>1
    <3> QED
      BY <2>1, <3>1, ReceivedStays DEF RecordedOK, Recorded
  <2>5. FlushesOK'
    <3>1. \A d \in Client : pc'[d] \in {"check", "enqueue"} => before'[d] \subseteq Recorded'
      BY <2>1 DEF FlushesOK, Recorded
    <3>2. \A d \in Client : pc'[d] = "cell" => \A f \in before'[d] : f \in stored' \/ failed'
      BY <2>1 DEF FlushesOK
    <3>3. ASSUME NEW d \in Client, NEW k \in DOMAIN chan', chan'[k] = FlushCmd(d)
          PROVE  /\ pc'[d] = "await" /\ replyTo' # d
                 /\ \A j \in DOMAIN chan' : chan'[j] = FlushCmd(d) => j = k
                 /\ \A f \in before'[d] : Received(f)' \/ InChannel(f, k)'
      <4>1. k + 1 \in DOMAIN chan /\ chan[k + 1] = FlushCmd(d) /\ k + 1 \in 1..Len(chan) + 1
        BY <1>9, <2>1, <3>3
      <4>2. \A j \in DOMAIN chan' : chan'[j] = FlushCmd(d) => j = k
        <5>1. ASSUME NEW j \in DOMAIN chan', chan'[j] = FlushCmd(d) PROVE j + 1 = k + 1
          BY <1>9, <2>1, <4>1, <5>1 DEF FlushesOK
        <5>2. \A j \in DOMAIN chan' : j + 1 = k + 1 => j = k
          BY <1>9, <2>1, <3>3
        <5> QED
          BY <5>1, <5>2
      <4>3. ASSUME NEW f \in before'[d] PROVE Received(f)' \/ InChannel(f, k)'
        <5>1. f \in Frame /\ f \in before[d]
          BY <2>1 DEF Shape, TypeOK
        <5>2. Received(f) \/ InChannel(f, k + 1)
          BY <4>1, <5>1 DEF FlushesOK
        <5>3. InChannel(f, k + 1) => Received(f)' \/ InChannel(f, (k + 1) - 1)'
          BY <2>3, <4>1, <5>1
        <5> QED
          BY <1>9, <2>1, <3>3, <5>2, <5>3, ReceivedStays
      <4>4. pc'[d] = "await" /\ replyTo' # d
        BY <2>1, <4>1 DEF FlushesOK
      <4> QED
        BY <4>2, <4>3, <4>4
    <3>4. ~(replyTo' \in Client)
      BY <2>1
    <3> QED
      BY <3>1, <3>2, <3>3, <3>4 DEF FlushesOK
  <2> QED
    BY <2>1, <2>4, <2>5 DEF FlushIsBarrier
<1>11. CASE ReceiveFlush
  <2> DEFINE c == Head(chan).flush
  <2>1. /\ c \in Client /\ Head(chan) = FlushCmd(c) /\ chan # <<>> /\ chan' = Tail(chan)
        /\ 1 \in DOMAIN chan /\ chan[1] = FlushCmd(c) /\ IsFlush(Head(chan))
        /\ UNCHANGED <<frame, unsent, before, stored, failed>>
        /\ at = "recv" /\ replyTo = NoOne
    BY <1>0, <1>11, HeadOfChannel DEF ReceiveFlush, StartWrite, writer, Shape, WriterOK
  <2>2. /\ \A f \in before[c] : f \in stored \/ failed \/ f \in Elements(batch)
        /\ pc[c] = "await"
    <3>1. \A f : ~InChannel(f, 1)
      BY <1>0 DEF InChannel
    <3> QED
      BY <2>1, <3>1 DEF FlushesOK, Received, Safe
  <2>3. CASE failed \/ batch = <<>>
    <3>1. /\ pc' = [pc EXCEPT ![c] = "idle"]
          /\ result' = [result EXCEPT ![c] = IF ~failed THEN "ok" ELSE "error"]
          /\ UNCHANGED writer
      BY <1>11, <2>1, <2>3, NoOneAssumption DEF ReceiveFlush, Reply
    <3>2. ~failed => before[c] \subseteq stored
      BY <2>2, <2>3, ElementsOfBatches
    <3> HIDE DEF c
    <3>3. FlushIsBarrier'
      BY <2>1, <3>1, <3>2 DEF FlushIsBarrier, Shape, TypeOK
    <3>4. replyTo' = NoOne /\ \A d \in Client : pc'[d] # "idle" => d # c /\ pc'[d] = pc[d]
      BY <2>1, <3>1 DEF writer, Shape, TypeOK
    <3>5. \A d \in Client : d # c => pc'[d] = pc[d]
      BY <2>1, <3>1 DEF Shape, TypeOK
    <3> QED
      BY <2>1, <3>3, <3>4, <3>5, FlushReceived
  <2>4. CASE ~(failed \/ batch = <<>>)
    <3>1. StartWrite(batch, c) /\ UNCHANGED <<pc, result>>
      BY <1>11, <2>4 DEF ReceiveFlush
    <3>2. \A f \in before[c] : Safe(f)'
      BY <2>1, <2>2, <3>1 DEF StartWrite, Safe, Elements
    <3> HIDE DEF c
    <3>3. FlushIsBarrier'
      BY <2>1, <3>1 DEF FlushIsBarrier
    <3> QED
      BY <2>1, <2>2, <3>1, <3>2, <3>3, FlushReceived DEF StartWrite
  <2> QED
    BY <2>3, <2>4
<1>12. CASE LastWrite \/ Deadline
  <2>1. replyTo = NoOne
    BY <1>12 DEF LastWrite, Deadline, Shape, WriterOK
  <2>2. UNCHANGED <<chan, clients, stored, failed>> /\ replyTo' \in {replyTo, NoOne}
    BY <1>12, <2>1 DEF LastWrite, Deadline, StartWrite
  <2> QED
    BY <2>2, QuietStep
<1>13. CASE Stored \/ StoreFails
  BY <1>13, QuietStep DEF Stored, StoreFails
<1>14. CASE PublishFailure \/ Release
  BY <1>14, QuietStep DEF PublishFailure, Release
<1>15. CASE Close \/ UNCHANGED vars
  BY <1>15, QuietStep DEF Close, vars, writer
<1>16. CASE Answer
  <2>1. CASE replyTo = NoOne
    BY <1>16, <2>1, QuietStep DEF Answer, Reply, clients
  <2>2. CASE replyTo # NoOne
    <3> DEFINE c == replyTo
    <3>1. /\ c \in Client /\ pc[c] = "await" /\ at = "reply"
          /\ \A f \in before[c] : Safe(f)
          /\ pc' = [pc EXCEPT ![c] = "idle"]
          /\ result' = [result EXCEPT ![c] = IF ~failed THEN "ok" ELSE "error"]
          /\ UNCHANGED <<chan, stored, failed, before, frame, unsent>> /\ replyTo' = NoOne
      BY <1>16, <2>2 DEF Answer, Reply, FlushesOK, Shape, TypeOK
    <3>2. ~failed => before[c] \subseteq stored
      BY <3>1 DEF Safe
    <3> HIDE DEF c
    <3>3. FlushIsBarrier'
      BY <3>1, <3>2 DEF FlushIsBarrier, Shape, TypeOK
    <3>4. RecordedOK'
      BY <3>1, ReceivedStays DEF RecordedOK, Recorded, InChannel
    <3>5. FlushesOK'
      <4>1. \A d \in Client : pc'[d] \in {"check", "enqueue"} => before'[d] \subseteq Recorded'
        BY <3>1 DEF FlushesOK, Recorded, Shape, TypeOK
      <4>2. \A d \in Client : pc'[d] = "cell" => \A f \in before'[d] : f \in stored' \/ failed'
        BY <3>1 DEF FlushesOK, Shape, TypeOK
      <4>3. ASSUME NEW d \in Client, NEW k \in DOMAIN chan, chan[k] = FlushCmd(d)
            PROVE  /\ pc'[d] = "await" /\ replyTo' # d
                   /\ \A j \in DOMAIN chan : chan[j] = FlushCmd(d) => j = k
                   /\ \A f \in before[d] : Received(f)' \/ InChannel(f, k)
        <5>1. d # c /\ pc[d] = "await"
          BY <4>3 DEF FlushesOK, c
        <5>2. pc'[d] = "await"
          BY <3>1, <5>1 DEF Shape, TypeOK
        <5> QED
          BY <3>1, <4>3, <5>2, ReceivedStays DEF FlushesOK
      <4> QED
        BY <3>1, <4>1, <4>2, <4>3 DEF FlushesOK, InChannel
    <3> QED
      BY <3>3, <3>4, <3>5
  <2> QED
    BY <2>1, <2>2
<1> QED
  BY <1>1, <1>2, <1>3, <1>4, <1>5, <1>6, <1>7, <1>8, <1>10, <1>11, <1>12, <1>13, <1>14, <1>15,
     <1>16 DEF Next, WriterStep

(******************************** Theorems ********************************)

(* IInv is inductive: the channel holds the frames whose appends have returned
   until the writer has them, and each flush knows where its own are. *)
THEOREM Invariance == Spec => []IInv
<1>1. Init => IInv
  <2>1. ASSUME Init PROVE Shape
    <3>1. TypeOK
      <4>1. chan \in Seq(Cmd) /\ batch \in Seq(Frame) /\ writing \in Seq(Frame)
        BY <2>1 DEF Init
      <4>2. failure \in BOOLEAN /\ failed = failure
        BY <2>1, Zenon DEF Init
      <4>3. /\ pc \in [Client -> {"idle", "reserve", "send", "check", "cell", "enqueue", "await"}]
            /\ frame \in [Client -> Frame \cup {NoOne}]
            /\ result \in [Client -> {"none", "ok", "error"}]
            /\ before \in [Client -> SUBSET Frame]
        BY <2>1 DEF Init
      <4> QED
        BY <2>1, <4>1, <4>2, <4>3 DEF Init, TypeOK
    <3>2. WriterOK
      BY <2>1 DEF Init, WriterOK
    <3>3. FramesOK
      BY <2>1, NoOneAssumption DEF Init, FramesOK
    <3> QED
      BY <3>1, <3>2, <3>3 DEF Shape
  <2>2. ASSUME Init PROVE Barrier
    BY <2>2, NoOneAssumption DEF Init, Barrier, RecordedOK, FlushesOK, FlushIsBarrier, Recorded
  <2>3. ASSUME Init PROVE PendingIsExact
    <3>1. Senders = {} /\ FrameSlots(chan) = {} /\ Len(batch) = 0 /\ Len(writing) = 0
      BY <2>3 DEF Init, Senders, FrameSlots
    <3> QED
      BY <2>3, <3>1, FS_EmptySet DEF PendingIsExact, Init
  <2> QED
    BY <2>1, <2>2, <2>3 DEF IInv, Shape, Barrier
<1>2. IInv /\ [Next]_vars => IInv'
  BY ShapeStep, CountStep, BarrierStep DEF IInv, Shape, Barrier
<1> QED
  BY <1>1, <1>2, PTL DEF Spec

(* FrameWriter::pending counts the frames between their permit and the release
   of their batch, exactly, whatever the store did. *)
THEOREM CounterIsExact == Spec => []PendingIsExact
<1>1. IInv => PendingIsExact
  BY DEF IInv
<1> QED
  BY <1>1, Invariance, PTL

(* A flush that returned Ok is a barrier: every frame whose append had returned
   when it began is stored, on the fast path as through the channel. *)
THEOREM BarrierHolds == Spec => []FlushIsBarrier
<1>1. IInv => FlushIsBarrier
  BY DEF IInv
<1> QED
  BY <1>1, Invariance, PTL
================================================================================
