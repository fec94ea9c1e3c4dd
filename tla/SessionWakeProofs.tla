-------------------------- MODULE SessionWakeProofs --------------------------
(***************************************************************************)
(* The safety properties of SessionWake for every set of messages and any  *)
(* number of commands and automated wakes.  Two inductive invariants,      *)
(* besides the types: a message that arrived calmly is on its way to the   *)
(* next run's queue or listed, and what a prompt has left unread of its    *)
(* backlog is in the queues it has still to look at.                       *)
(***************************************************************************)
EXTENDS SessionWake, TLAPS

Commands == {"prompt", "resume", "compact"}

Flags == {cut, resumable, news, ran, busy, armed, failed} \subseteq BOOLEAN

Events == [last : {"none", "start", "end", "fail"}, ends : BOOLEAN]

Senders ==
  /\ stage \in [Mail -> {"unsent", "decided", "queued", "done"}]
  /\ path \in [Mail -> {"none", "report", "tool", "hub", "hubQueue"}]
  /\ via \in [Mail -> Queues \cup {"none"}]
  /\ where \in [Mail -> Queues \cup {"none", "read", "returned"}]
  /\ wake \cup handled \cup view.wake \subseteq Sender
  /\ backlog \cup calm \subseteq Mail

Places ==
  /\ kind \in Commands \cup {"none"}
  /\ phase \in {"free", "accepted", "announced", "admitted", "running",
                "stopping", "drained", "over"}
  /\ {node, view.node} \subseteq {"idle", "running"}
  /\ request \in Commands \cup {"none"}
  /\ inRow \in 0..MaxAutoWakes
  /\ asked \in 0..MaxAsked

(* A message is in no queue before it was put there, and its path and the  *)
(* queue are chosen when its delivery begins.                              *)
Delivery ==
  \A m \in Mail :
    /\ stage[m] \in {"unsent", "decided"} => where[m] = "none"
    /\ stage[m] \in {"queued", "done"} => where[m] # "none"
    /\ stage[m] # "unsent" => path[m] # "none"
    /\ stage[m] \in {"decided", "queued"} => via[m] \in Queues

(* Between a calm arrival and the next announcement nothing runs, so the   *)
(* second look of its sender finds the session idle.                       *)
Calm ==
  /\ calm # {} => phase \in {"free", "accepted"}
  /\ \A m \in calm :
       /\ stage[m] # "unsent"
       /\ stage[m] \in {"decided", "queued"} => via[m] = "nextRun"
       /\ stage[m] = "done" /\ path[m] # "hubQueue" => From(m) \in wake

(* Where what a prompt has not read of its backlog can be.                 *)
Remaining ==
  /\ phase \in {"free", "accepted"} => backlog = {}
  /\ \A m \in backlog : where[m] # "none"
  /\ kind = "prompt" /\ ~ cut =>
       /\ phase \in {"announced", "admitted"} =>
            \A m \in backlog : where[m] \in {"nextRun", "steer", "followUp", "read"}
       /\ phase = "running" => \A m \in backlog : where[m] \in {"steer", "followUp", "read"}
       /\ phase = "stopping" => \A m \in backlog : where[m] \in {"followUp", "read"}
       /\ phase \in {"drained", "over"} => \A m \in backlog : where[m] = "read"

Inv == Senders /\ Places /\ Delivery /\ Calm /\ Remaining

LEMMA Initially == Init => Inv /\ Flags /\ stdout \in Events
<1>1. ASSUME Init PROVE Inv
  BY <1>1, BoundAssumption DEF Init, Inv, Senders, Places, Delivery, Calm, Remaining, Quiet, Commands, Queues
<1>2. ASSUME Init PROVE Flags
  BY <1>2, Zenon DEF Init, Flags
<1>3. ASSUME Init PROVE stdout \in Events
  BY <1>3 DEF Init, Quiet, Events
<1> QED
  BY <1>1, <1>2, <1>3

LEMMA DeliverKeeps == ASSUME Inv, NEW m \in Mail, Deliver(m) PROVE Inv'
<1> USE DEF sending, slot, outward, window, Inv, Places, Commands
<1>1. CASE \E p \in {"report", "tool", "hub", "hubQueue"} : Decide(m, p)
  BY <1>1 DEF Decide, Senders, Delivery, Calm, Remaining, Active, Queues, From, ByHub, Sender
<1>2. CASE Put(m)
  BY <1>2 DEF Put, Senders, Delivery, Calm, Remaining, Queues, From, ByHub
<1>3. CASE Finish(m)
  <2>1. Senders' /\ Places'
    BY <1>3 DEF Finish, List, Senders, Queues, From, ByHub, Sender
  <2>2. Delivery' /\ Remaining'
    BY <1>3 DEF Finish, List, Senders, Delivery, Remaining, Queues
  <2>3. Calm'
    BY <1>3 DEF Finish, List, NeedsWake, Active, Senders, Delivery, Calm, From, ByHub
  <2> QED
    BY <2>1, <2>2, <2>3
<1> QED
  BY <1>1, <1>2, <1>3 DEF Deliver

LEMMA EngineKeeps == ASSUME Inv, Engine PROVE Inv'
<1> USE DEF sending, slot, outward, window, Inv, Places, Commands, Senders, Queues
<1>1. CASE Accept \/ Refuse \/ Block
  BY <1>1 DEF Accept, Refuse, Block, Delivery, Calm, Remaining, From, ByHub
<1>2. CASE Announce
  BY <1>2 DEF Announce, Delivery, Calm, Remaining, Queued, Sender
<1>3. CASE Admit \/ Reserve
  BY <1>3 DEF Admit, Reserve, ReadAll, Delivery, Calm, Remaining
<1>4. CASE Drain \/ FollowUp
  BY <1>4 DEF Drain, FollowUp, ReadAll, In, Delivery, Calm, Remaining
<1>5. CASE Stop \/ End
  BY <1>5 DEF Stop, End, In, Delivery, Calm, Remaining
<1>6. CASE Release \/ Settle
  BY <1>6 DEF Release, Settle, Delivery, Calm, Remaining, From, ByHub
<1>7. CASE Fail \/ Abort
  BY <1>7 DEF Fail, Abort, Delivery, Calm, Remaining
<1> QED
  BY <1>1, <1>2, <1>3, <1>4, <1>5, <1>6, <1>7 DEF Engine, Run

LEMMA WindowKeeps == ASSUME Inv, Window \/ (\E k \in Commands : Ask(k)) \/ UNCHANGED vars PROVE Inv'
<1>1. Delivery' /\ Calm' /\ Remaining'
  BY DEF Inv, Window, SeeNode, SeeEvent, Wake, NoWake, Ask, vars, sending, slot, outward, window,
         Delivery, Calm, Remaining, From, ByHub
<1>2. Senders' /\ Places'
  <2> USE BoundAssumption DEF Inv, Senders, Places, Commands, Unhandled, Sender,
        sending, slot, outward, window
  <2>1. CASE SeeNode \/ SeeEvent \/ NoWake
    BY <2>1 DEF SeeNode, SeeEvent, NoWake
  <2>2. CASE Wake
    BY <2>2 DEF Wake, CountWake
  <2>3. CASE \E k \in Commands : Ask(k)
    BY <2>3 DEF Ask
  <2>4. CASE UNCHANGED vars
    BY <2>4 DEF vars
  <2> QED
    BY <2>1, <2>2, <2>3, <2>4 DEF Window
<1> QED
  BY <1>1, <1>2 DEF Inv

LEMMA StepKeeps == ASSUME Inv, [Next]_vars PROVE Inv'
  BY DeliverKeeps, EngineKeeps, WindowKeeps DEF Next, Commands

LEMMA StepFlags == ASSUME Flags, [Next]_vars PROVE Flags'
<1> USE DEF Flags, sending, slot, outward, window
<1>1. CASE \E m \in Mail : Deliver(m)
  BY <1>1, Zenon DEF Deliver, Decide, Put, Finish, List
<1>2. CASE Accept \/ Refuse \/ Block \/ Announce \/ Admit
  BY <1>2, Zenon DEF Accept, Refuse, Block, Announce, Admit
<1>3. CASE Reserve \/ Drain \/ Stop \/ FollowUp \/ End \/ Release \/ Settle
  BY <1>3, Zenon DEF Reserve, Drain, Stop, FollowUp, End, Release, Settle
<1>4. CASE Fail \/ Abort
  BY <1>4, Zenon DEF Fail, Abort
<1>5. CASE SeeNode \/ SeeEvent \/ NoWake \/ UNCHANGED vars
  BY <1>5, Zenon DEF SeeNode, SeeEvent, NoWake, vars
<1>6. CASE Wake
  BY <1>6, Zenon DEF Wake, CountWake
<1>7. CASE \E k \in {"prompt", "resume", "compact"} : Ask(k)
  BY <1>7, Zenon DEF Ask
<1> QED
  BY <1>1, <1>2, <1>3, <1>4, <1>5, <1>6, <1>7 DEF Next, Engine, Run, Window

LEMMA Emitted == ASSUME stdout \in Events, NEW e \in {"start", "end", "fail"}
  PROVE  Emit(e) \in Events
<1>1. stdout.ends \in BOOLEAN
  BY DEF Events
<1>2. (stdout.ends \/ e = "end") \in BOOLEAN
  OBVIOUS
<1> QED
  BY <1>2 DEF Emit, Events

LEMMA StepEvents == ASSUME stdout \in Events, [Next]_vars PROVE stdout' \in Events
<1>1. stdout' = stdout \/ stdout' = Quiet \/ \E e \in {"start", "end", "fail"} : stdout' = Emit(e)
  <2> USE DEF sending, slot, outward, window
  <2>1. CASE \E m \in Mail : Deliver(m)
    BY <2>1 DEF Deliver, Decide, Put, Finish
  <2>2. CASE Engine
    BY <2>2 DEF Engine, Run, Accept, Refuse, Block, Announce, Admit, Reserve, Drain, Stop, FollowUp,
       End, Release, Settle, Fail, Abort
  <2>3. CASE Window \/ (\E k \in {"prompt", "resume", "compact"} : Ask(k)) \/ UNCHANGED vars
    BY <2>3 DEF Window, SeeNode, SeeEvent, Wake, NoWake, Ask, vars
  <2> QED
    BY <2>1, <2>2, <2>3 DEF Next
<1>2. Quiet \in Events
  BY DEF Quiet, Events
<1> QED
  BY <1>1, <1>2, Emitted

THEOREM Invariance == Spec => [](Inv /\ Flags /\ stdout \in Events)
<1>1. Init => Inv /\ Flags /\ stdout \in Events
  BY Initially
<1>2. Inv /\ Flags /\ stdout \in Events /\ [Next]_vars => (Inv /\ Flags /\ stdout \in Events)'
  BY StepKeeps, StepFlags, StepEvents
<1> QED
  BY <1>1, <1>2, PTL DEF Spec

(* TypeOK, for every bound.                                                *)
THEOREM TypesAreKept == Spec => []TypeOK
<1>1. Inv /\ Flags /\ stdout \in Events => TypeOK
  BY DEF Events, Inv, Senders, Places, Flags, TypeOK, Commands
<1> QED
  BY <1>1, Invariance, PTL

(* IdleArrivalListed, for every set of messages: the two looks of a sender *)
(* and the clearing of the list by the run that starts agree on who waits. *)
THEOREM ArrivalsAreListed == Spec => []IdleArrivalListed
<1>1. Inv => IdleArrivalListed
  BY DEF Inv, Calm, IdleArrivalListed
<1> QED
  BY <1>1, Invariance, PTL

(* PromptReadsBacklog, for every set of messages: a prompt that ends by    *)
(* itself has read all that was queued when it cleared the list.           *)
THEOREM BacklogIsRead == Spec => []PromptReadsBacklog
<1>1. Inv => PromptReadsBacklog
  BY DEF Inv, Remaining, PromptReadsBacklog
<1> QED
  BY <1>1, Invariance, PTL
=============================================================================
