---------------------------- MODULE MailPromise ----------------------------
(***************************************************************************)
(* What the mesh promises the sender of session mail: a message that was   *)
(* stored stays owed until an engine of its receiver took it, and only     *)
(* then is it settled.  It may be taken more than once.                    *)
(***************************************************************************)
EXTENDS FiniteSets

CONSTANT Mail

VARIABLES
  owed,     \* stored and not marked delivered
  settled,  \* marked delivered
  accepted  \* said yes to by an engine of the receiver, at least once

vars == <<owed, settled, accepted>>

Init == owed = {} /\ settled = {} /\ accepted = {}

Store(m) ==
  /\ m \notin owed \union settled
  /\ owed' = owed \union {m}
  /\ UNCHANGED <<settled, accepted>>

Accept(m) ==
  /\ m \in owed \union settled
  /\ accepted' = accepted \union {m}
  /\ UNCHANGED <<owed, settled>>

Settle(m) ==
  /\ m \in owed \intersect accepted
  /\ owed' = owed \ {m}
  /\ settled' = settled \union {m}
  /\ UNCHANGED accepted

Next == \E m \in Mail : Store(m) \/ Accept(m) \/ Settle(m)

Spec == Init /\ [][Next]_vars
=============================================================================
