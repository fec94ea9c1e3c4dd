---------------------------- MODULE MessageDelivery ----------------------------
(***************************************************************************)
(* What the harness promises the sender of a message, whatever the process *)
(* does meanwhile: an accepted message is delivered into the transcript at *)
(* most once, or withdrawn, never both; among the messages of one kind the *)
(* order of delivery is the order of acceptance.  There is no run, no lock *)
(* and no crash here: LaneQueue, which has all three, implements this.     *)
(***************************************************************************)
EXTENDS Naturals

CONSTANTS
    Msg,        \* the messages a client may send
    KindOf      \* the delivery each of them asks for, "context" among them

VARIABLES
    now,        \* the last stamp given out
    accepted,   \* stamp of a message's acceptance, 0 before
    delivered,  \* stamp of its delivery, 0 before
    withdrawn   \* the messages taken back before delivery

vars == <<now, accepted, delivered, withdrawn>>

Waiting(m) == /\ accepted[m] > 0
              /\ delivered[m] = 0
              /\ m \notin withdrawn

\* The messages of m's kind that were accepted before it and still wait.
Ahead(m) == {n \in Msg : /\ KindOf[n] = KindOf[m]
                         /\ Waiting(n)
                         /\ accepted[n] < accepted[m]}

Init == /\ now = 0
        /\ accepted = [m \in Msg |-> 0]
        /\ delivered = [m \in Msg |-> 0]
        /\ withdrawn = {}

Accept(m) == /\ accepted[m] = 0
             /\ delivered[m] = 0
             /\ now' = now + 1
             /\ accepted' = [accepted EXCEPT ![m] = now + 1]
             /\ UNCHANGED <<delivered, withdrawn>>

Deliver(m) == /\ Waiting(m)
              /\ Ahead(m) = {}
              /\ now' = now + 1
              /\ delivered' = [delivered EXCEPT ![m] = now + 1]
              /\ UNCHANGED <<accepted, withdrawn>>

\* Context sent to an idle lane is delivered as it arrives.
DeliverAtOnce(m) == /\ KindOf[m] = "context"
                    /\ accepted[m] = 0
                    /\ delivered[m] = 0
                    /\ \A n \in Msg : KindOf[n] = "context" => ~Waiting(n)
                    /\ now' = now + 1
                    /\ delivered' = [delivered EXCEPT ![m] = now + 1]
                    /\ UNCHANGED <<accepted, withdrawn>>

\* Context is never taken back: only what waits for a run is.
Withdraw(S) == /\ S # {}
               /\ \A m \in S : Waiting(m) /\ KindOf[m] # "context"
               /\ withdrawn' = withdrawn \cup S
               /\ UNCHANGED <<now, accepted, delivered>>

Next == \/ \E m \in Msg : Accept(m) \/ Deliver(m) \/ DeliverAtOnce(m)
        \/ \E S \in SUBSET Msg : Withdraw(S)

Spec == Init /\ [][Next]_vars
================================================================================
