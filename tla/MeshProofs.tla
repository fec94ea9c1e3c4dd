--------------------------- MODULE MeshProofs ---------------------------
(***************************************************************************)
(* The promises of MeshHub for any number of messages, generations of the  *)
(* engine, lines in a pipe and things people do, and those of MeshAsk for  *)
(* any number of agents and calls.  The two share no state.                *)
(***************************************************************************)
EXTENDS MeshHub, MeshAsk, SequenceTheorems, WellFoundedInduction, TLAPS

(* What the hub writes and what an engine writes.                          *)
Sent == [type : {"note", "steer", "prompt"}, mail : Mail]
Told == [type : {"ready", "start", "settled"}, mail : {NoMail}]
          \cup [type : {"yes", "no", "busy"}, mail : Mail]
Calls == [pc : {"idle", "flush", "send", "post", "write", "failed", "mark"},
          mails : SUBSET Mail, lines : Seq(Sent)]

Stored == {m \in Mail : mail[m] # "none"}

Content(lines) == {lines[i] : i \in DOMAIN lines}

Types ==
  /\ mail \in [Mail -> {"none", "pending", "delivered"}]
  /\ inFlight \subseteq Mail
  /\ job \in [Threads -> Calls]
  /\ proc \in {"alive", "dead", "none"}
  /\ gen \in 0..MaxGen
  /\ watch \in [Gens -> {"polls", "gone", "exited", "off"}]
  /\ inp \in Seq(Sent)
  /\ out \in [Gens -> Seq(Told)]
  /\ accepted \subseteq Mail

(* What a call holds at each place (what it marks was taken), and who      *)
(* watches the process.                                                    *)
Places ==
  /\ \A t \in Threads :
       /\ job[t].pc \in {"idle", "flush", "post", "mark"} => job[t].lines = <<>>
       /\ job[t].pc = "send" => job[t].mails # {}
       /\ job[t].pc = "write" => job[t].lines # <<>>
       /\ job[t].pc = "mark" => \E m \in accepted : job[t].mails = {m}
  /\ proc # "none" => gen \in Gens /\ watch[gen] = "polls"

(* Only stored mail is on its way, and only what was taken is said to be.  *)
Known ==
  /\ inFlight \subseteq Stored
  /\ \A t \in Threads : /\ job[t].mails \subseteq Stored
                        /\ \A x \in Content(job[t].lines) : x.mail \in Stored
  /\ \A x \in Content(inp) : x.mail \in Stored
  /\ seen \subseteq accepted
  /\ \A g \in Gens : \A x \in Content(out[g]) : x.type = "yes" => x.mail \in accepted

Carried(m) ==
  \/ About(m, inp)
  \/ \E g \in Gens : About(m, out[g])
  \/ \E t \in Threads : About(m, job[t].lines) \/ job[t].pc = "failed"

Watched == proc # "alive" /\ gen \in Gens /\ watch[gen] # "off"

Owed == \A m \in inFlight : Carried(m) \/ Watched

IInv == Types /\ Places /\ Known /\ Owed

-----------------------------------------------------------------------------

(* Lines of a sequence.                                                    *)
LEMMA AboutIs == ASSUME NEW m, NEW s PROVE About(m, s) <=> \E x \in Content(s) : x.mail = m
  BY DEF About, Content

LEMMA Added ==
  ASSUME NEW S, NEW s \in Seq(S), NEW e \in S
  PROVE  /\ Append(s, e) \in Seq(S) /\ Append(s, e) # <<>>
         /\ Content(Append(s, e)) = Content(s) \cup {e}
         /\ s \o <<e>> = Append(s, e)
<1>1. /\ Append(s, e) \in Seq(S) /\ Append(s, e) # <<>>
      /\ Len(s) \in Nat /\ DOMAIN s = 1..Len(s)
      /\ DOMAIN Append(s, e) = 1..(Len(s) + 1)
      /\ \A i \in 1..Len(s) : Append(s, e)[i] = s[i]
      /\ Append(s, e)[Len(s) + 1] = e
  BY AppendProperties, LenProperties
<1>2. Content(Append(s, e)) = Content(s) \cup {e}
  BY <1>1 DEF Content
<1> QED
  BY <1>1, <1>2, AppendIsConcat

LEMMA Removed ==
  ASSUME NEW S, NEW s \in Seq(S), s # <<>>
  PROVE  /\ Head(s) \in S /\ Tail(s) \in Seq(S)
         /\ Head(s) \in Content(s)
         /\ Content(s) = {Head(s)} \cup Content(Tail(s))
<1>1. /\ Head(s) \in S /\ Head(s) = s[1] /\ Tail(s) \in Seq(S)
      /\ Len(s) \in Nat \ {0} /\ DOMAIN s = 1..Len(s)
      /\ Len(Tail(s)) = Len(s) - 1
      /\ DOMAIN Tail(s) = 1..(Len(s) - 1)
      /\ \A i \in 1..(Len(s) - 1) : Tail(s)[i] = s[i + 1]
  BY HeadTailProperties, LenProperties, EmptySeq
<1>2. Content(s) \subseteq {Head(s)} \cup Content(Tail(s))
  <2>1. ASSUME NEW i \in 1..Len(s), i # 1 PROVE s[i] \in Content(Tail(s))
    <3>1. i - 1 \in 1..(Len(s) - 1) /\ (i - 1) + 1 = i
      BY <1>1, <2>1
    <3>2. Tail(s)[i - 1] = s[i]
      BY <1>1, <3>1
    <3> QED
      BY <1>1, <3>1, <3>2 DEF Content
  <2>2. ASSUME NEW x \in Content(s) PROVE x = Head(s) \/ x \in Content(Tail(s))
    <3>1. PICK i \in 1..Len(s) : x = s[i]
      BY <1>1 DEF Content
    <3> QED
      BY <1>1, <2>1, <3>1
  <2> QED
    BY <2>2
<1>3. {Head(s)} \cup Content(Tail(s)) \subseteq Content(s)
  BY <1>1 DEF Content
<1> QED
  BY <1>1, <1>2, <1>3

LEMMA Cut ==
  ASSUME NEW S, NEW s \in Seq(S), NEW n \in 0..Len(s)
  PROVE  SubSeq(s, 1, n) \in Seq(S) /\ Content(SubSeq(s, 1, n)) \subseteq Content(s)
<1>1. Len(s) \in Nat /\ DOMAIN s = 1..Len(s) /\ \A i \in 1..n : i \in 1..Len(s) /\ s[i] \in S
  BY LenProperties, ElementOfSeq
<1>2. /\ SubSeq(s, 1, n) \in Seq(S)
      /\ Len(SubSeq(s, 1, n)) = n
      /\ \A i \in 1..n : SubSeq(s, 1, n)[i] = s[i]
  BY <1>1, SubSeqProperties
<1>3. DOMAIN SubSeq(s, 1, n) = 1..n
  BY <1>2, LenProperties
<1> QED
  BY <1>1, <1>2, <1>3 DEF Content

LEMMA Nothing == Content(<<>>) = {} /\ \A S : <<>> \in Seq(S)
  BY EmptySeq DEF Content

LEMMA OldestIs == ASSUME NEW M \in SUBSET Mail, M # {} PROVE Oldest(M) \in M
<1> DEFINE A == {Age[m] : m \in M}
<1>1. A \in SUBSET Nat /\ A # {}
  BY MailAssumption
<1>2. PICK x \in A : \A y \in A : <<y, x>> \notin OpToRel(<, Nat)
  <2> HIDE DEF A
  <2> QED
    BY <1>1, NatLessThanWellFounded, WFMin, Zenon
<1>3. \A y \in A : ~ (y < x)
  <2> HIDE DEF A
  <2> QED
    BY <1>1, <1>2, Zenon DEF OpToRel
<1>4. \E m \in M : \A n \in M : Age[m] <= Age[n]
  <2>1. PICK m \in M : x = Age[m]
    BY <1>2
  <2>2. ASSUME NEW n \in M PROVE Age[m] <= Age[n]
    <3>1. Age[n] \in A /\ Age[m] \in Nat /\ Age[n] \in Nat
      BY MailAssumption
    <3> QED
      BY <1>3, <2>1, <3>1
  <2> QED
    BY <2>2
<1> QED
  BY <1>4 DEF Oldest

(* Calls of the hub.                                                       *)
LEMMA SendingIs ==
  ASSUME NEW M \in SUBSET Mail, NEW s \in Seq(Sent)
  PROVE  /\ Sending(M, s) \in Calls
         /\ Sending(M, s).mails = M /\ Sending(M, s).lines = s
         /\ Sending(M, s).pc \in {"send", "write", "idle"}
         /\ Sending(M, s).pc = "send" <=> M # {}
         /\ Sending(M, s).pc = "idle" => s = <<>>
         /\ Sending(M, s).pc = "write" => s # <<>>
  BY DEF Sending, Job, Idle, Calls

LEMMA FlushingIs ==
  ASSUME NEW M \in SUBSET Mail
  PROVE  /\ Flushing(M) \in Calls
         /\ Flushing(M).mails = M /\ Flushing(M).lines = <<>>
         /\ Flushing(M).pc \in {"idle", "flush"}
  BY Nothing DEF Flushing, Job, Idle, Calls

LEMMA IdleIs == Idle \in Calls /\ Idle.mails = {} /\ Idle.lines = <<>> /\ Idle.pc = "idle"
  BY Nothing DEF Idle, Job, Calls

LEMMA SendLineIs == ASSUME NEW m \in Mail PROVE SendLine(m) \in Sent /\ SendLine(m).mail = m
  BY DEF SendLine, Line, Sent

LEMMA LineIs ==
  /\ \A m \in Mail, type \in {"yes", "no", "busy"} :
       Line(type, m) \in Told /\ Line(type, m).mail = m /\ Line(type, m).type = type
  /\ \A type \in {"ready", "start", "settled"} :
       Line(type, NoMail) \in Told /\ Line(type, NoMail).mail = NoMail /\ Line(type, NoMail).type = type
  BY DEF Line, Told

-----------------------------------------------------------------------------

(* What a step does to what is on its way.  A command moves the first line *)
(* of stdin to an answer, an engine's own lines are about no mail.         *)
Says(e) == out' = [out EXCEPT ![gen] = Append(@, e)] /\ e \in Told

LEMMA SayIs == ASSUME Types, gen \in Gens, NEW e \in Told, Say(<<e>>) PROVE Says(e)
<1>1. out[gen] \in Seq(Told)
  BY DEF Types
<1> QED
  BY <1>1, Added DEF Say, Says

LEMMA SaysAdds ==
  ASSUME Types, gen \in Gens, NEW e, Says(e)
  PROVE  /\ out' \in [Gens -> Seq(Told)]
         /\ Content(out'[gen]) = Content(out[gen]) \cup {e}
         /\ \A g \in Gens : g # gen => out'[g] = out[g]
<1>1. out \in [Gens -> Seq(Told)] /\ Append(out[gen], e) \in Seq(Told)
      /\ Content(Append(out[gen], e)) = Content(out[gen]) \cup {e}
  BY Added DEF Types, Says
<1> QED
  BY <1>1 DEF Says

LEMMA Command ==
  ASSUME Types, Places, CommandStep
  PROVE  /\ gen \in Gens /\ proc = "alive"
         /\ inp # <<>> /\ inp' = Tail(inp)
         /\ UNCHANGED <<mail, inFlight, job, proc, gen, watch>>
         /\ \E e : Says(e) /\ e.type \in {"yes", "no", "busy"} /\ e.mail = Head(inp).mail
                   /\ (e.type = "yes" => Head(inp).mail \in seen \cup accepted')
         /\ \/ accepted' = accepted /\ seen' = seen
            \/ /\ accepted' = accepted \cup {Head(inp).mail}
               /\ seen' \subseteq seen \cup {Head(inp).mail}
<1> DEFINE m == Head(inp).mail
<1>1. /\ gen \in Gens /\ proc = "alive" /\ inp # <<>> /\ inp' = Tail(inp)
      /\ UNCHANGED <<mail, inFlight, job, proc, gen, watch>>
  BY DEF CommandStep, TakeNote, TakeSteer, RefusePrompt, BlockPrompt, AcceptPrompt, Receive,
     EngineStep, EngineAct, Places, db, hub, shell
<1>2. m \in Mail
  <2>1. Head(inp) \in Sent
    BY <1>1, Removed DEF Types
  <2> QED
    BY <2>1 DEF Sent
<1>3. /\ Says(Line("yes", m)) \/ Says(Line("no", m)) \/ Says(Line("busy", m))
      /\ \/ accepted' = accepted /\ seen' = seen
         \/ /\ accepted' = accepted \cup {m}
            /\ seen' \subseteq seen \cup {m}
      /\ Says(Line("yes", m)) => m \in seen \/ accepted' = accepted \cup {m}
  <2> HIDE DEF m
  <2>0. \A type \in {"yes", "no", "busy"} : Line(type, m) \in Told /\ (Say(<<Line(type, m)>>) => Says(Line(type, m)))
    BY <1>1, <1>2, LineIs, SayIs
  <2>a. \A type \in {"no", "busy"} : Says(Line(type, m)) => ~ Says(Line("yes", m))
    <3> SUFFICES ASSUME NEW type \in {"no", "busy"}, Says(Line(type, m)), Says(Line("yes", m)) PROVE FALSE
      OBVIOUS
    <3>1. out \in [Gens -> Seq(Told)]
      BY DEF Types
    <3>2. Append(out[gen], Line(type, m)) = Append(out[gen], Line("yes", m))
      BY <1>1, <3>1 DEF Says
    <3>3. Line(type, m) = Line("yes", m)
      BY <1>1, <1>2, <3>1, <3>2, LineIs, AppendProperties
    <3> QED
      BY <1>2, <3>3, LineIs
  <2>1. CASE TakeNote
    BY <2>0, <2>a, <2>1 DEF TakeNote, m
  <2>2. CASE TakeSteer
    BY <2>0, <2>2 DEF TakeSteer, m
  <2>3. CASE RefusePrompt \/ BlockPrompt
    BY <2>0, <2>a, <2>3 DEF RefusePrompt, BlockPrompt, m
  <2>4. CASE AcceptPrompt
    BY <2>0, <2>4 DEF AcceptPrompt, m
  <2> QED
    BY <2>1, <2>2, <2>3, <2>4 DEF CommandStep
<1>5. \E e : /\ Says(e) /\ e.type \in {"yes", "no", "busy"} /\ e.mail = m
             /\ (e.type = "yes" => m \in seen \cup accepted')
  <2> HIDE DEF m
  <2> QED
    BY <1>2, <1>3, LineIs
<1> QED
  BY <1>1, <1>3, <1>5

LEMMA Reading ==
  ASSUME Types, NEW g \in Gens, ReaderStep(g), NEW m, m = Head(out[g]).mail
  PROVE  /\ out[g] # <<>> /\ out' = [out EXCEPT ![g] = Tail(@)]
         /\ UNCHANGED <<mail, inp, proc, gen, watch, accepted, seen>>
         /\ \/ m = NoMail /\ UNCHANGED inFlight
            \/ m \in Mail /\ inFlight' = inFlight \ {m}
         /\ job[g] = Idle
         /\ \/ job' = job
            \/ job' = [job EXCEPT ![g] = Flushing(Pending)]
            \/ /\ m \in inFlight /\ Head(out[g]).type = "yes"
               /\ job' = [job EXCEPT ![g] = Job("mark", {m}, <<>>)]
<1>1. /\ out[g] # <<>> /\ out' = [out EXCEPT ![g] = Tail(@)] /\ job[g] = Idle
      /\ UNCHANGED <<mail, inp, proc, gen, watch, accepted, seen>>
  BY DEF ReaderStep, ReadReady, ReadStart, ReadSettled, ReadYes, ReadNo, TakeLine, shell, engine, db
<1>2. Head(out[g]) \in Told
  <2>1. out[g] \in Seq(Told)
    BY DEF Types
  <2> QED
    BY <1>1, <2>1, Removed
<1>3. CASE ReadReady(g) \/ ReadStart(g) \/ ReadSettled(g)
  <2>1. m = NoMail
    BY <1>2, <1>3 DEF Told, ReadReady, ReadStart, ReadSettled, TakeLine
  <2> QED
    BY <1>1, <1>3, <2>1 DEF ReadReady, ReadStart, ReadSettled
<1>4. CASE ReadYes(g) \/ ReadNo(g)
  <2>1. m \in Mail
    BY <1>2, <1>4 DEF Told, ReadYes, ReadNo, TakeLine
  <2> QED
    BY <1>1, <1>4, <2>1 DEF ReadYes, ReadNo, TakeLine, Answered
<1> QED
  BY <1>3, <1>4 DEF ReaderStep

LEMMA JobSet ==
  ASSUME Types, NEW t \in Threads, NEW c \in Calls, job' = [job EXCEPT ![t] = c]
  PROVE  /\ job' \in [Threads -> Calls] /\ job'[t] = c
         /\ \A u \in Threads : u # t => job'[u] = job[u]
  BY DEF Types

(* The steps that leave the way of mail alone, but for a thread that reads *)
(* the database.                                                           *)
Quiet ==
  \/ UserPrompt \/ ReadQueue \/ LastLook \/ FailRun \/ FreeSlot \/ SetUp \/ Open
  \/ OnHostReady \/ OnHostLaunch \/ OnHostIgnored \/ OnReady \/ OnExit

LEMMA QuietStep ==
  ASSUME Quiet
  PROVE  /\ UNCHANGED <<mail, inFlight, proc, gen, watch, inp, out, accepted, seen>>
         /\ \/ job' = job
            \/ job[Commander] = Idle /\ job' = [job EXCEPT ![Commander] = Flushing(Pending)]
<1> USE DEF db, hub, shell, engine, window
<1>1. CASE UserPrompt \/ ReadQueue \/ LastLook \/ FailRun \/ FreeSlot \/ Open
  BY <1>1 DEF UserPrompt, Act, ReadQueue, LastLook, FailRun, FreeSlot, EngineStep, EngineAct, Open
<1>2. CASE SetUp \/ OnHostReady
  BY <1>2 DEF SetUp, OnHostReady, TakeEvent, Hosted
<1>3. CASE OnHostLaunch \/ OnHostIgnored \/ OnReady \/ OnExit
  BY <1>3 DEF OnHostLaunch, OnHostIgnored, OnReady, OnExit, TakeEvent
<1> QED
  BY <1>1, <1>2, <1>3 DEF Quiet

(* A thread whose call is over reads what is pending, or marks one message.*)
Reloaded ==
  /\ job' \in [Threads -> Calls]
  /\ \A u \in Threads :
       /\ job'[u].lines = job[u].lines
       /\ job'[u].mails \subseteq Stored
       /\ job'[u].pc = "failed" <=> job[u].pc = "failed"
       /\ \/ job'[u] = job[u]
          \/ /\ job'[u].lines = <<>>
             /\ \/ job'[u].pc \in {"idle", "flush"}
                \/ job'[u].pc = "mark" /\ \E m \in accepted : job'[u].mails = {m}

LEMMA Reload ==
  ASSUME Types, Places, Known, NEW t \in Threads, job[t] = Idle,
         NEW c \in Calls, c.mails \subseteq Stored, c.lines = <<>>,
         \/ c.pc \in {"idle", "flush"}
         \/ c.pc = "mark" /\ \E m \in accepted : c.mails = {m},
         job' = [job EXCEPT ![t] = c]
  PROVE  Reloaded
<1>1. /\ job' \in [Threads -> Calls] /\ job'[t] = c
      /\ \A u \in Threads : u # t => job'[u] = job[u]
  BY JobSet
<1>2. \A u \in Threads : job[u].mails \subseteq Stored
  BY DEF Known
<1> QED
  BY <1>1, <1>2, IdleIs DEF Reloaded

LEMMA ReloadPending ==
  ASSUME Types, Places, Known, NEW t \in Threads, job[t] = Idle,
         job' = [job EXCEPT ![t] = Flushing(Pending)]
  PROVE  Reloaded
<1>1. Pending \in SUBSET Mail /\ Pending \subseteq Stored
  BY DEF Pending, Stored
<1>2. /\ Flushing(Pending) \in Calls /\ Flushing(Pending).mails = Pending
      /\ Flushing(Pending).lines = <<>> /\ Flushing(Pending).pc \in {"idle", "flush"}
  BY <1>1, FlushingIs
<1> QED
  BY <1>1, <1>2, Reload

LEMMA ReloadNothing == ASSUME Types, Known, UNCHANGED job PROVE Reloaded
  BY DEF Reloaded, Types, Known

LEMMA SameLines ==
  ASSUME UNCHANGED <<inp, out>>,
         \A u \in Threads : /\ job'[u].lines = job[u].lines
                            /\ job'[u].pc = "failed" <=> job[u].pc = "failed"
  PROVE  \A m : Carried(m)' <=> Carried(m)
  BY DEF Carried, About

LEMMA StoredIs == UNCHANGED mail => Stored' = Stored
  BY DEF Stored

LEMMA QuietKeeps == ASSUME IInv, Quiet PROVE IInv'
<1>1. UNCHANGED <<mail, inFlight, proc, gen, watch, inp, out, accepted, seen>>
  BY QuietStep
<1>2. Reloaded
  <2>1. Commander \in Threads
    BY BoundAssumption DEF Commander, Threads
  <2> QED
    BY <2>1, QuietStep, ReloadPending, ReloadNothing DEF IInv
<1>3. Types'
  BY <1>1, <1>2 DEF IInv, Types, Reloaded
<1>4. Places'
  BY <1>1, <1>2 DEF IInv, Places, Reloaded
<1>5. Known'
  BY <1>1, <1>2, StoredIs DEF IInv, Known, Reloaded
<1>6. Owed'
  BY <1>1, <1>2, SameLines DEF IInv, Owed, Watched, Reloaded
<1> QED
  BY <1>3, <1>4, <1>5, <1>6 DEF IInv

(* The lines an engine writes of its own are about no mail.                *)
LEMMA OwnKeeps == ASSUME IInv, Boot \/ BeginRun \/ Settle PROVE IInv'
<1>1. /\ gen \in Gens
      /\ UNCHANGED <<mail, inFlight, job, proc, gen, watch, inp, accepted, seen>>
  BY DEF Boot, BeginRun, Settle, EngineStep, EngineAct, IInv, Places, db, hub, shell
<1>2. PICK e : Says(e) /\ e.type # "yes"
  BY <1>1, SayIs, LineIs DEF Boot, BeginRun, Settle, IInv
<1>3. /\ out' \in [Gens -> Seq(Told)]
      /\ Content(out'[gen]) = Content(out[gen]) \cup {e}
      /\ \A g \in Gens : g # gen => out'[g] = out[g]
  BY <1>1, <1>2, SaysAdds DEF IInv
<1>4. Types' /\ Places'
  BY <1>1, <1>3 DEF IInv, Types, Places
<1>5. Known'
  BY <1>1, <1>2, <1>3, StoredIs DEF IInv, Known
<1>6. Owed'
  <2>1. ASSUME NEW m, Carried(m) PROVE Carried(m)'
    <3>1. \A g \in Gens : Content(out[g]) \subseteq Content(out'[g])
      BY <1>3
    <3> QED
      BY <1>1, <2>1, <3>1, AboutIs DEF Carried
  <2> QED
    BY <1>1, <2>1 DEF IInv, Owed, Watched
<1> QED
  BY <1>4, <1>5, <1>6 DEF IInv

LEMMA CommandKeeps == ASSUME IInv, CommandStep PROVE IInv'
<1>1. /\ gen \in Gens /\ proc = "alive"
      /\ inp # <<>> /\ inp' = Tail(inp)
      /\ UNCHANGED <<mail, inFlight, job, proc, gen, watch>>
  BY Command DEF IInv
<1>2. PICK m \in Mail : m = Head(inp).mail
  <2>1. Head(inp) \in Sent
    BY <1>1, Removed DEF IInv, Types
  <2> QED
    BY <2>1 DEF Sent
<1>3. PICK e : /\ Says(e) /\ e.type \in {"yes", "no", "busy"} /\ e.mail = m
               /\ (e.type = "yes" => m \in seen \cup accepted')
  BY <1>2, Command DEF IInv
<1>4. \/ accepted' = accepted /\ seen' = seen
      \/ accepted' = accepted \cup {m} /\ seen' \subseteq seen \cup {m}
  BY <1>2, Command DEF IInv
<1>5. /\ inp' \in Seq(Sent) /\ Content(inp) = {Head(inp)} \cup Content(inp')
  BY <1>1, Removed DEF IInv, Types
<1>6. /\ out' \in [Gens -> Seq(Told)]
      /\ Content(out'[gen]) = Content(out[gen]) \cup {e}
      /\ \A g \in Gens : g # gen => out'[g] = out[g]
  BY <1>1, <1>3, SaysAdds DEF IInv
<1>7. accepted' \subseteq Mail /\ accepted \subseteq accepted'
  BY <1>4 DEF IInv, Types
<1>8. Types' /\ Places'
  BY <1>1, <1>5, <1>6, <1>7 DEF IInv, Types, Places
<1>9. Known'
  <2>1. Stored' = Stored
    BY <1>1, StoredIs
  <2>2. inFlight' \subseteq Stored' /\ \A x \in Content(inp') : x.mail \in Stored'
    BY <1>1, <1>5, <2>1 DEF IInv, Known
  <2>3. \A t \in Threads : job'[t].mails \subseteq Stored' /\ \A x \in Content(job'[t].lines) : x.mail \in Stored'
    BY <1>1, <2>1 DEF IInv, Known
  <2>4. seen' \subseteq accepted'
    BY <1>4, <1>7 DEF IInv, Known
  <2>5. e.type = "yes" => m \in accepted'
    BY <1>3, <1>7 DEF IInv, Known
  <2>6. \A g \in Gens : \A x \in Content(out'[g]) : x.type = "yes" => x.mail \in accepted'
    BY <1>3, <1>6, <1>7, <2>5 DEF IInv, Known
  <2> QED
    BY <2>2, <2>3, <2>4, <2>6 DEF Known
<1>10. Owed'
  <2>1. ASSUME NEW n, Carried(n) PROVE Carried(n)'
    <3>1. \A g \in Gens : Content(out[g]) \subseteq Content(out'[g])
      BY <1>6
    <3>2. CASE About(n, inp)
      <4>1. n = m \/ About(n, inp')
        BY <1>2, <1>5, <3>2, AboutIs
      <4>2. About(m, out'[gen])
        BY <1>3, <1>6, AboutIs
      <4> QED
        BY <1>1, <4>1, <4>2 DEF Carried
    <3>3. CASE \E g \in Gens : About(n, out[g])
      BY <3>1, <3>3, AboutIs DEF Carried
    <3>4. CASE \E t \in Threads : About(n, job[t].lines) \/ job[t].pc = "failed"
      BY <1>1, <3>4 DEF Carried
    <3> QED
      BY <2>1, <3>2, <3>3, <3>4 DEF Carried
  <2> QED
    BY <1>1, <2>1 DEF IInv, Owed, Watched
<1> QED
  BY <1>8, <1>9, <1>10 DEF IInv

LEMMA ReadKeeps == ASSUME IInv, NEW g \in Gens, ReaderStep(g) PROVE IInv'
<1>1. PICK m : m = Head(out[g]).mail
  OBVIOUS
<1>2. /\ out[g] # <<>> /\ out' = [out EXCEPT ![g] = Tail(@)]
      /\ UNCHANGED <<mail, inp, proc, gen, watch, accepted, seen>>
  BY <1>1, Reading DEF IInv
<1>3. \/ m = NoMail /\ UNCHANGED inFlight
      \/ m \in Mail /\ inFlight' = inFlight \ {m}
  BY <1>1, Reading DEF IInv
<1>4. /\ Content(out[g]) = {Head(out[g])} \cup Content(out'[g])
      /\ out' \in [Gens -> Seq(Told)]
      /\ \A h \in Gens : h # g => out'[h] = out[h]
  <2>1. out \in [Gens -> Seq(Told)]
    BY DEF IInv, Types
  <2>2. Tail(out[g]) \in Seq(Told) /\ Content(out[g]) = {Head(out[g])} \cup Content(Tail(out[g]))
    BY <1>2, <2>1, Removed
  <2> QED
    BY <1>2, <2>1, <2>2
<1>5. Stored' = Stored /\ inFlight' \subseteq inFlight
  BY <1>2, <1>3, StoredIs
<1>6. Reloaded
  <2>1. g \in Threads
    BY BoundAssumption DEF Gens, Threads
  <2>2. ASSUME m \in inFlight, Head(out[g]).type = "yes",
               job' = [job EXCEPT ![g] = Job("mark", {m}, <<>>)]
        PROVE  Reloaded
    <3>1. m \in Mail /\ m \in Stored /\ m \in accepted /\ job[g] = Idle
      BY <1>1, <1>4, <2>2, Reading DEF IInv, Types, Known
    <3> DEFINE c == Job("mark", {m}, <<>>)
    <3>2. c \in Calls /\ c.mails = {m} /\ c.lines = <<>> /\ c.pc = "mark"
      BY <3>1, Nothing DEF Job, Calls
    <3>3. job' = [job EXCEPT ![g] = c]
      BY <2>2
    <3> HIDE DEF c
    <3> QED
      BY <2>1, <3>1, <3>2, <3>3, Reload DEF IInv
  <2> QED
    BY <1>1, <2>1, <2>2, Reading, ReloadPending, ReloadNothing DEF IInv
<1>7. Types' /\ Places'
  <2>1. Types'
    BY <1>2, <1>4, <1>5, <1>6 DEF IInv, Types, Reloaded
  <2> QED
    BY <1>2, <1>6, <2>1 DEF IInv, Places, Reloaded
<1>8. Known'
  <2>1. \A h \in Gens : Content(out'[h]) \subseteq Content(out[h])
    BY <1>4
  <2> QED
    BY <1>2, <1>5, <1>6, <2>1 DEF IInv, Known, Reloaded
<1>9. Owed'
  <2>1. ASSUME NEW n \in inFlight', Carried(n) PROVE Carried(n)'
    <3>1. n # m
      BY <1>3, <1>5, <2>1, MailAssumption DEF IInv, Types
    <3>2. \A h \in Gens : About(n, out[h]) => About(n, out'[h])
      BY <1>1, <1>4, <3>1, AboutIs
    <3>3. (\E h \in Gens : About(n, out[h])) => \E h \in Gens : About(n, out'[h])
      BY <3>2
    <3> QED
      BY <1>2, <1>6, <2>1, <3>3 DEF Carried, Reloaded
  <2> QED
    BY <1>2, <1>5, <2>1 DEF IInv, Owed, Watched
<1> QED
  BY <1>7, <1>8, <1>9 DEF IInv

(* A step of a call: what the thread leaves is in stdin, or nothing is in  *)
(* flight any more, or the write failed and it will be so.                 *)
LEMMA CallKeeps ==
  ASSUME IInv, NEW t \in Threads, NEW c \in Calls,
         job' = [job EXCEPT ![t] = c],
         UNCHANGED <<proc, gen, watch, out, accepted, seen>>,
         mail' \in [Mail -> {"none", "pending", "delivered"}],
         Stored \subseteq Stored',
         c.pc \in {"idle", "flush", "post"} => c.lines = <<>>,
         c.pc # "mark",
         c.pc = "send" => c.mails # {},
         c.pc = "write" => c.lines # <<>>,
         c.mails \subseteq Stored',
         \A x \in Content(c.lines) : x.mail \in Stored',
         inp' \in Seq(Sent),
         \A x \in Content(inp') : x \in Content(inp) \/ x.mail \in Stored',
         inFlight' \subseteq Stored',
         job[t].pc = "failed" => inFlight' = {},
         \/ c.pc = "failed"
         \/ \A n \in inFlight' : \/ About(n, c.lines) \/ About(n, inp')
                                 \/ n \in inFlight /\ ~ About(n, inp) /\ ~ About(n, job[t].lines)
  PROVE  IInv'
<1>1. /\ job' \in [Threads -> Calls] /\ job'[t] = c
      /\ \A u \in Threads : u # t => job'[u] = job[u]
  BY JobSet DEF IInv
<1>2. Types'
  <2>1. inFlight' \subseteq Mail
    BY DEF Stored
  <2> QED
    BY <1>1, <2>1 DEF IInv, Types
<1>3. Places'
  BY <1>1 DEF IInv, Places
<1>4. Known'
  <2>1. accepted' = accepted
    OBVIOUS
  <2>2. \A u \in Threads : job'[u].mails \subseteq Stored' /\ \A x \in Content(job'[u].lines) : x.mail \in Stored'
    BY <1>1 DEF IInv, Known
  <2>3. \A x \in Content(inp') : x.mail \in Stored'
    BY DEF IInv, Known
  <2> QED
    BY <2>1, <2>2, <2>3 DEF IInv, Known
<1>5. Owed'
  <2>1. ASSUME NEW n \in inFlight' PROVE Carried(n)' \/ Watched'
    <3>1. CASE About(n, c.lines) \/ About(n, inp') \/ c.pc = "failed"
      BY <1>1, <3>1 DEF Carried
    <3>2. CASE /\ n \in inFlight /\ ~ About(n, inp)
               /\ ~ About(n, job[t].lines) /\ job[t].pc # "failed"
      BY <1>1, <3>2 DEF IInv, Owed, Watched, Carried
    <3> QED
      BY <3>1, <3>2
  <2> QED
    BY <2>1 DEF Owed
<1> QED
  BY <1>2, <1>3, <1>4, <1>5 DEF IInv

LEMMA Holding ==
  ASSUME IInv, NEW t \in Threads
  PROVE  /\ job[t] \in Calls /\ job[t].mails \in SUBSET Mail /\ job[t].lines \in Seq(Sent)
         /\ job[t].mails \subseteq Stored /\ \A x \in Content(job[t].lines) : x.mail \in Stored
  BY DEF IInv, Types, Known, Calls

LEMMA FilterKeeps == ASSUME IInv, NEW t \in Threads, Filter(t) PROVE IInv'
<1> DEFINE M == job[t].mails \ inFlight
           c == Sending(M, <<>>)
<1>1. /\ job' = [job EXCEPT ![t] = c]
      /\ UNCHANGED <<proc, gen, watch, out, accepted, seen, mail, inp, inFlight>>
      /\ job[t].lines = <<>> /\ job[t].pc # "failed"
  <2>1. job' = [job EXCEPT ![t] = c]
    BY DEF Filter
  <2> QED
    BY <2>1 DEF Filter, IInv, Places, db, hub, shell, engine
<1>2. M \in SUBSET Mail /\ M \subseteq Stored
  BY Holding
<1>3. /\ c \in Calls /\ c.mails = M /\ c.lines = <<>>
      /\ c.pc \in {"send", "write", "idle"}
      /\ c.pc = "send" <=> M # {}
      /\ c.pc = "write" => <<>> # <<>>
  <2> HIDE DEF M
  <2> QED
    BY <1>2, Nothing, SendingIs
<1>4. Stored' = Stored
  BY <1>1, StoredIs
<1>5. /\ mail' \in [Mail -> {"none", "pending", "delivered"}] /\ inp' \in Seq(Sent)
      /\ inFlight' \subseteq Stored'
  BY <1>1, <1>4 DEF IInv, Types, Known
<1>6. \A n \in inFlight' : \/ About(n, inp')
                           \/ n \in inFlight /\ ~ About(n, inp) /\ ~ About(n, job[t].lines)
  BY <1>1 DEF About
<1> HIDE DEF c, M
<1> QED
  BY <1>1, <1>2, <1>3, <1>4, <1>5, <1>6, Nothing, CallKeeps

LEMMA SendNextKeeps == ASSUME IInv, NEW t \in Threads, SendNext(t) PROVE IInv'
<1>1. PICK m : m = Oldest(job[t].mails)
  OBVIOUS
<1> DEFINE M == job[t].mails \ {m}
           s == Append(job[t].lines, SendLine(m))
<1>2. /\ job[t].pc = "send"
      /\ UNCHANGED <<proc, gen, watch, out, accepted, seen, mail, inp>>
      /\ \/ inFlight' = inFlight \cup {m} /\ job' = [job EXCEPT ![t] = Sending(M, s)]
         \/ inFlight' = inFlight /\ job' = [job EXCEPT ![t] = Sending(M, job[t].lines)]
  BY <1>1 DEF SendNext, Send, db, shell, engine
<1>3. m \in Mail /\ m \in Stored /\ M \in SUBSET Mail /\ M \subseteq Stored
  BY <1>1, <1>2, Holding, OldestIs DEF IInv, Places
<1>4. /\ s \in Seq(Sent) /\ s # <<>> /\ Content(s) = Content(job[t].lines) \cup {SendLine(m)}
      /\ SendLine(m).mail = m
  BY <1>3, Holding, SendLineIs, Added
<1>5. Stored' = Stored
  BY <1>2, StoredIs
<1>6. /\ mail' \in [Mail -> {"none", "pending", "delivered"}] /\ inp' \in Seq(Sent)
      /\ inFlight' \subseteq Stored'
  BY <1>2, <1>3, <1>5 DEF IInv, Types, Known
<1>7. ASSUME NEW l \in Seq(Sent), job' = [job EXCEPT ![t] = Sending(M, l)],
             Content(job[t].lines) \subseteq Content(l),
             \A x \in Content(l) : x.mail \in Stored,
             \A n \in inFlight' : n \in inFlight \/ About(n, l)
      PROVE  IInv'
  <2> DEFINE c == Sending(M, l)
  <2>1. /\ c \in Calls /\ c.mails = M /\ c.lines = l
        /\ c.pc \in {"send", "write", "idle"}
        /\ c.pc = "send" <=> M # {}
        /\ c.pc = "idle" => l = <<>>
        /\ c.pc = "write" => l # <<>>
    <3> HIDE DEF M
    <3> QED
      BY <1>3, SendingIs
  <2>2. \A n \in inFlight' : \/ About(n, l) \/ About(n, inp')
                             \/ n \in inFlight /\ ~ About(n, inp) /\ ~ About(n, job[t].lines)
    BY <1>2, <1>7, AboutIs
  <2> HIDE DEF c, M
  <2> QED
    BY <1>2, <1>3, <1>5, <1>6, <1>7, <2>1, <2>2, CallKeeps DEF c
<1>8. CASE inFlight' = inFlight \cup {m} /\ job' = [job EXCEPT ![t] = Sending(M, s)]
  <2>1. About(m, s) /\ \A x \in Content(s) : x.mail \in Stored
    BY <1>3, <1>4, Holding, AboutIs
  <2> HIDE DEF M, s
  <2> QED
    BY <1>4, <1>7, <1>8, <2>1
<1>9. CASE inFlight' = inFlight /\ job' = [job EXCEPT ![t] = Sending(M, job[t].lines)]
  <2> HIDE DEF M, s
  <2> QED
    BY <1>7, <1>9, Holding
<1> QED
  BY <1>2, <1>8, <1>9

LEMMA PostKeeps ==
  ASSUME IInv, NEW m \in Mail, NEW kind, Post(m, kind)
  PROVE  IInv'
<1> DEFINE c == Job("post", {m}, <<>>)
<1>1. /\ Poster \in Threads /\ job[Poster].lines = <<>> /\ job[Poster].pc # "failed"
      /\ mail' = [mail EXCEPT ![m] = "pending"]
      /\ job' = [job EXCEPT ![Poster] = c]
      /\ UNCHANGED <<proc, gen, watch, out, accepted, seen, inp, inFlight>>
  BY IdleIs, BoundAssumption DEF Post, Poster, Threads, hub, shell, engine
<1>2. mail' \in [Mail -> {"none", "pending", "delivered"}] /\ Stored' = Stored \cup {m}
  BY <1>1 DEF IInv, Types, Stored
<1>3. c \in Calls /\ c.mails = {m} /\ c.lines = <<>> /\ c.pc = "post"
  BY Nothing DEF Job, Calls
<1>4. inp' \in Seq(Sent) /\ inFlight' \subseteq Stored'
  BY <1>1, <1>2 DEF IInv, Types, Known
<1>5. \A n \in inFlight' : \/ About(n, inp')
                           \/ n \in inFlight /\ ~ About(n, inp) /\ ~ About(n, job[Poster].lines)
  BY <1>1 DEF About
<1> HIDE DEF c
<1> QED
  BY <1>1, <1>2, <1>3, <1>4, <1>5, Nothing, CallKeeps

LEMMA PostSendKeeps == ASSUME IInv, PostSend PROVE IInv'
<1>1. /\ Poster \in Threads /\ job[Poster].lines = <<>> /\ job[Poster].pc # "failed"
      /\ UNCHANGED <<proc, gen, watch, out, accepted, seen, inp, mail>>
  BY BoundAssumption DEF PostSend, Poster, Threads, IInv, Places, db, shell, engine
<1>2. PICK m \in job[Poster].mails :
          \/ inFlight' = inFlight \cup {m} /\ job' = [job EXCEPT ![Poster] = Sending({}, <<SendLine(m)>>)]
          \/ inFlight' = inFlight /\ job' = [job EXCEPT ![Poster] = Idle]
  BY DEF PostSend, Send
<1>3. m \in Mail /\ m \in Stored /\ Stored' = Stored
  BY <1>1, <1>2, Holding, StoredIs
<1>4. /\ mail' \in [Mail -> {"none", "pending", "delivered"}] /\ inp' \in Seq(Sent)
      /\ inFlight' \subseteq Stored'
  BY <1>1, <1>2, <1>3 DEF IInv, Types, Known
<1>5. CASE inFlight' = inFlight \cup {m} /\ job' = [job EXCEPT ![Poster] = Sending({}, <<SendLine(m)>>)]
  <2> DEFINE s == <<SendLine(m)>>
             c == Sending({}, s)
  <2>1. s = Append(<<>>, SendLine(m))
    OBVIOUS
  <2>2. s \in Seq(Sent) /\ s # <<>> /\ Content(s) = {SendLine(m)} /\ SendLine(m).mail = m
    <3>1. SendLine(m) \in Sent /\ SendLine(m).mail = m
      BY <1>3, SendLineIs
    <3>2. <<>> \in Seq(Sent) /\ Content(<<>>) = {}
      BY Nothing, Zenon
    <3>3. ASSUME NEW q \in Seq(Sent), NEW e \in Sent
          PROVE  /\ Append(q, e) \in Seq(Sent) /\ Append(q, e) # <<>>
                 /\ Content(Append(q, e)) = Content(q) \cup {e}
      BY Added
    <3> HIDE DEF s
    <3> QED
      BY <2>1, <3>1, <3>2, <3>3
  <2>3. /\ c \in Calls /\ c.mails = {} /\ c.lines = s
        /\ c.pc \in {"send", "write", "idle"}
        /\ c.pc # "send" /\ c.pc # "idle"
    <3> HIDE DEF s
    <3> QED
      BY <2>2, SendingIs
  <2>4. \A n \in inFlight' : \/ About(n, s) \/ About(n, inp')
                             \/ n \in inFlight /\ ~ About(n, inp) /\ ~ About(n, job[Poster].lines)
    <3>1. About(m, s)
      BY <2>2, AboutIs
    <3> QED
      BY <1>1, <1>5, <3>1 DEF About
  <2>5. job' = [job EXCEPT ![Poster] = c]
    BY <1>5
  <2>6. \A x \in Content(s) : x.mail \in Stored'
    BY <1>3, <2>2
  <2> HIDE DEF s, c
  <2> QED
    BY <1>1, <1>3, <1>4, <2>2, <2>3, <2>4, <2>5, <2>6, CallKeeps
<1>6. CASE inFlight' = inFlight /\ job' = [job EXCEPT ![Poster] = Idle]
  <2>1. \A n \in inFlight' : \/ About(n, inp')
                             \/ n \in inFlight /\ ~ About(n, inp) /\ ~ About(n, job[Poster].lines)
    BY <1>1, <1>6 DEF About
  <2> QED
    BY <1>1, <1>3, <1>4, <1>6, <2>1, IdleIs, Nothing, CallKeeps
<1> QED
  BY <1>2, <1>5, <1>6

LEMMA SendingRest ==
  ASSUME NEW q \in Seq(Sent)
  PROVE  LET c == Sending({}, q) IN
           /\ c \in Calls /\ c.mails = {} /\ c.lines = q
           /\ c.pc \in {"write", "idle"}
           /\ c.pc = "idle" => q = <<>>
           /\ c.pc = "write" => q # <<>>
<1>1. PICK M \in SUBSET Mail : M = {}
  OBVIOUS
<1>2. Sending({}, q).pc # "send"
  BY <1>1, SendingIs
<1> QED
  BY <1>1, <1>2, SendingIs

LEMMA WriteKeeps == ASSUME IInv, NEW t \in Threads, Write(t) PROVE IInv'
<1> DEFINE l == job[t].lines
           c == IF proc = "alive" THEN Sending({}, Tail(l)) ELSE Job("failed", {}, Tail(l))
<1>1. /\ l # <<>> /\ l \in Seq(Sent) /\ job[t].pc = "write"
      /\ job' = [job EXCEPT ![t] = c]
      /\ UNCHANGED <<proc, gen, watch, out, accepted, seen, mail, inFlight>>
      /\ inp' = IF proc = "alive" THEN Append(inp, Head(l)) ELSE inp
  BY Holding DEF Write, IInv, Places, hub, db, shell
<1>2. /\ Head(l) \in Sent /\ Tail(l) \in Seq(Sent)
      /\ Head(l) \in Content(l)
      /\ Content(l) = {Head(l)} \cup Content(Tail(l))
  <2> HIDE DEF l
  <2> QED
    BY <1>1, Removed
<1>3. /\ c \in Calls /\ c.mails = {} /\ c.lines = Tail(l)
      /\ c.pc \in {"write", "idle", "failed"}
      /\ c.pc = "idle" => Tail(l) = <<>>
      /\ c.pc = "write" => Tail(l) # <<>>
      /\ proc # "alive" => c.pc = "failed"
  <2> HIDE DEF l
  <2>1. CASE proc = "alive"
    BY <1>2, <2>1, SendingRest
  <2>2. CASE proc # "alive"
    BY <1>2, <2>2 DEF Job, Calls
  <2> QED
    BY <2>1, <2>2
<1>4. Stored' = Stored /\ \A x \in Content(l) : x.mail \in Stored
  BY <1>1, Holding, StoredIs
<1>5. mail' \in [Mail -> {"none", "pending", "delivered"}] /\ inFlight' \subseteq Stored' /\ inp \in Seq(Sent)
  BY <1>1, <1>4 DEF IInv, Types, Known
<1>6. \A x \in Content(Tail(l)) : x.mail \in Stored'
  BY <1>2, <1>4
<1>7. CASE proc = "alive"
  <2>1. inp' \in Seq(Sent) /\ Content(inp') = Content(inp) \cup {Head(l)}
    BY <1>1, <1>2, <1>5, <1>7, Added
  <2>2. \A n : About(n, inp) => About(n, inp')
    BY <2>1, AboutIs
  <2>3. \A n : About(n, l) => About(n, Tail(l)) \/ About(n, inp')
    BY <1>2, <2>1, AboutIs
  <2>4. \A x \in Content(inp') : x \in Content(inp) \/ x.mail \in Stored'
    BY <1>2, <1>4, <2>1
  <2>5. \A n \in inFlight' : \/ About(n, Tail(l)) \/ About(n, inp')
                             \/ n \in inFlight /\ ~ About(n, inp) /\ ~ About(n, l)
    BY <1>1, <2>2, <2>3
  <2> HIDE DEF c
  <2> QED
    BY <1>1, <1>3, <1>4, <1>5, <1>6, <2>1, <2>4, <2>5, CallKeeps
<1>8. CASE proc # "alive"
  <2> HIDE DEF c
  <2> QED
    BY <1>1, <1>3, <1>4, <1>5, <1>6, <1>8, CallKeeps
<1> QED
  BY <1>7, <1>8

LEMMA WriteFailedKeeps == ASSUME IInv, NEW t \in Threads, WriteFailed(t) PROVE IInv'
<1> DEFINE l == job[t].lines
           c == Sending({}, l)
<1>1. /\ job' = [job EXCEPT ![t] = c]
      /\ UNCHANGED <<proc, gen, watch, out, accepted, seen, mail, inp>>
      /\ inFlight' = {}
  BY DEF WriteFailed, Forget, db, shell, engine
<1>2. /\ c \in Calls /\ c.mails = {} /\ c.lines = l
      /\ c.pc \in {"write", "idle"}
      /\ c.pc = "idle" => l = <<>>
      /\ c.pc = "write" => l # <<>>
  <2> HIDE DEF l
  <2>1. l \in Seq(Sent)
    BY Holding DEF l
  <2> QED
    BY <2>1, SendingRest
<1>3. Stored' = Stored /\ \A x \in Content(l) : x.mail \in Stored
  BY <1>1, Holding, StoredIs
<1>4. mail' \in [Mail -> {"none", "pending", "delivered"}] /\ inp' \in Seq(Sent)
  BY <1>1 DEF IInv, Types
<1> HIDE DEF c
<1> QED
  BY <1>1, <1>2, <1>3, <1>4, CallKeeps

(* Marking.  The message was stored, so the stored ones stay the same.     *)
LEMMA Marking ==
  ASSUME IInv, NEW t \in Threads, Mark(t)
  PROVE  /\ \E m \in accepted \cap Stored : mail' = [mail EXCEPT ![m] = "delivered"]
         /\ job' = [job EXCEPT ![t] = Idle]
         /\ UNCHANGED <<proc, gen, watch, out, accepted, seen, inp, inFlight>>
         /\ job[t].lines = <<>> /\ job[t].pc = "mark"
<1>1. PICK m \in accepted : job[t].mails = {m}
  BY DEF Mark, IInv, Places
<1>2. m \in Mail /\ m \in Stored
  BY <1>1, Holding
<1>3. mail' = [mail EXCEPT ![m] = "delivered"]
  BY <1>1, <1>2 DEF Mark, IInv, Types
<1> QED
  BY <1>1, <1>2, <1>3 DEF Mark, IInv, Places, hub, shell, engine

LEMMA MarkKeeps == ASSUME IInv, NEW t \in Threads, Mark(t) PROVE IInv'
<1>1. PICK m \in accepted \cap Stored : mail' = [mail EXCEPT ![m] = "delivered"]
  BY Marking
<1>2. mail' \in [Mail -> {"none", "pending", "delivered"}] /\ Stored' = Stored
  BY <1>1 DEF IInv, Types, Stored
<1>3. inp' \in Seq(Sent) /\ inFlight' \subseteq Stored'
  BY <1>2, Marking DEF IInv, Types, Known
<1>4. \A n \in inFlight' : \/ About(n, inp')
                           \/ n \in inFlight /\ ~ About(n, inp) /\ ~ About(n, job[t].lines)
  BY Marking DEF About
<1> QED
  BY <1>2, <1>3, <1>4, Marking, IdleIs, Nothing, CallKeeps

(* The process and its watcher.                                            *)
LEMMA CutIs ==
  ASSUME Types, gen \in Gens, NEW n \in 0..Len(out[gen]), out' = [out EXCEPT ![gen] = SubSeq(@, 1, n)]
  PROVE  out' \in [Gens -> Seq(Told)] /\ \A g \in Gens : Content(out'[g]) \subseteq Content(out[g])
<1>1. out \in [Gens -> Seq(Told)]
  BY DEF Types
<1>2. SubSeq(out[gen], 1, n) \in Seq(Told) /\ Content(SubSeq(out[gen], 1, n)) \subseteq Content(out[gen])
  BY <1>1, Cut
<1> QED
  BY <1>1, <1>2

LEMMA ShellKeeps ==
  ASSUME IInv, UNCHANGED <<mail, job, accepted>>,
         inFlight' \subseteq inFlight,
         out' \in [Gens -> Seq(Told)],
         \A g \in Gens : Content(out'[g]) \subseteq Content(out[g]),
         (inp' = inp /\ seen' = seen) \/ (inp' = <<>> /\ seen' = {}),
         proc' \in {"alive", "dead", "none"}, gen' \in 0..MaxGen,
         watch' \in [Gens -> {"polls", "gone", "exited", "off"}],
         proc' # "none" => gen' \in Gens /\ watch'[gen'] = "polls",
         inFlight' = {} \/ Watched' \/ (inp' = inp /\ out' = out /\ (Watched => Watched'))
  PROVE  IInv'
<1>1. Types' /\ Places'
  BY Nothing DEF IInv, Types, Places
<1>2. Known'
  BY StoredIs, Nothing DEF IInv, Known
<1>3. Owed'
  <2>1. CASE inFlight' = {} \/ Watched'
    BY <2>1 DEF Owed
  <2>2. CASE inp' = inp /\ out' = out /\ (Watched => Watched')
    BY <2>2, SameLines DEF IInv, Owed
  <2> QED
    BY <2>1, <2>2
<1> QED
  BY <1>1, <1>2, <1>3 DEF IInv

LEMMA CrashKeeps == ASSUME IInv, Crash PROVE IInv'
<1>1. /\ gen \in Gens /\ watch[gen] = "polls"
      /\ UNCHANGED <<mail, job, accepted, inFlight, gen, watch>>
      /\ inp' = <<>> /\ seen' = {} /\ proc' = "dead"
  BY DEF Crash, Die, IInv, Places, db, hub
<1>2. out' \in [Gens -> Seq(Told)] /\ \A g \in Gens : Content(out'[g]) \subseteq Content(out[g])
  BY <1>1, CutIs DEF Crash, Die, IInv
<1>3. Watched'
  BY <1>1 DEF Watched
<1> QED
  BY <1>1, <1>2, <1>3, ShellKeeps DEF IInv, Types

LEMMA StopKeeps == ASSUME IInv, Stop PROVE IInv'
<1>1. /\ UNCHANGED <<mail, job, accepted, inFlight, gen, watch>>
      /\ proc' = "none"
  BY DEF Stop, db, hub
<1>2. CASE proc = "alive"
  <2>1. inp' = <<>> /\ seen' = {} /\ gen \in Gens /\ watch[gen] = "polls"
    BY <1>2 DEF Stop, Die, IInv, Places
  <2>2. out' \in [Gens -> Seq(Told)] /\ \A g \in Gens : Content(out'[g]) \subseteq Content(out[g])
    BY <1>2, <2>1, CutIs DEF Stop, Die, IInv
  <2>3. Watched'
    BY <1>1, <2>1 DEF Watched
  <2> QED
    BY <1>1, <2>1, <2>2, <2>3, ShellKeeps DEF IInv, Types
<1>3. CASE proc # "alive"
  <2>1. UNCHANGED <<inp, seen, out>>
    BY <1>3 DEF Stop, engine
  <2>2. Watched => Watched'
    BY <1>1 DEF Watched
  <2> QED
    BY <1>1, <2>1, <2>2, ShellKeeps DEF IInv, Types
<1> QED
  BY <1>2, <1>3

LEMMA StartKeeps == ASSUME IInv, Start PROVE IInv'
<1>1. /\ gen \in 0..MaxGen /\ gen < MaxGen
      /\ UNCHANGED <<mail, job, accepted>>
      /\ inFlight' = {} /\ inp' = <<>> /\ seen' = {} /\ proc' = "alive"
      /\ gen' = gen + 1 /\ watch' = [watch EXCEPT ![gen + 1] = "polls"]
  BY DEF Start, Forget, IInv, Types, db
<1>2. gen' \in Gens /\ gen' \in 0..MaxGen
  BY <1>1, BoundAssumption DEF Gens
<1>3. watch' \in [Gens -> {"polls", "gone", "exited", "off"}] /\ watch'[gen'] = "polls"
  BY <1>1, <1>2 DEF IInv, Types
<1>4. out' \in [Gens -> Seq(Told)] /\ \A g \in Gens : Content(out'[g]) \subseteq Content(out[g])
  <2>1. CASE proc = "alive"
    <3>1. gen \in Gens
      BY <2>1 DEF IInv, Places
    <3> QED
      BY <2>1, <3>1, CutIs DEF Start, IInv
  <2>2. CASE proc # "alive"
    BY <2>2 DEF Start, IInv, Types
  <2> QED
    BY <2>1, <2>2
<1> QED
  BY <1>1, <1>2, <1>3, <1>4, ShellKeeps

LEMMA WatchKeeps == ASSUME IInv, NEW g \in Gens, WatchStep(g) PROVE IInv'
<1>0. /\ watch \in [Gens -> {"polls", "gone", "exited", "off"}]
      /\ gen \in 0..MaxGen /\ out \in [Gens -> Seq(Told)] /\ proc \in {"alive", "dead", "none"}
      /\ proc # "none" => gen \in Gens /\ watch[gen] = "polls"
  BY DEF IInv, Types, Places
<1>1. CASE WatchLook(g)
  <2>1. UNCHANGED <<mail, job, accepted, inFlight, inp, seen, out, gen>>
    BY <1>1 DEF WatchLook, db, hub, engine
  <2>2. /\ watch' \in [Gens -> {"polls", "gone", "exited", "off"}]
        /\ proc' \in {"alive", "dead", "none"}
        /\ proc' # "none" => gen' \in Gens /\ watch'[gen'] = "polls"
        /\ Watched => Watched'
    BY <1>0, <1>1, <2>1 DEF WatchLook, Watched
  <2> QED
    BY <1>0, <2>1, <2>2, ShellKeeps
<1>2. CASE WatchExit(g)
  <2>1. /\ UNCHANGED <<mail, job, accepted, inp, seen, out, gen, proc>> /\ inFlight' = {}
    BY <1>2 DEF WatchExit, Forget, db, engine
  <2>2. /\ watch' \in [Gens -> {"polls", "gone", "exited", "off"}]
        /\ proc' # "none" => gen' \in Gens /\ watch'[gen'] = "polls"
    BY <1>0, <1>2, <2>1 DEF WatchExit
  <2> QED
    BY <1>0, <2>1, <2>2, ShellKeeps
<1> QED
  BY <1>1, <1>2 DEF WatchStep

LEMMA QuitKeeps == ASSUME IInv, Quit PROVE IInv'
<1>1. /\ UNCHANGED <<mail, accepted, gen>>
      /\ inFlight' = {} /\ job' = [t \in Threads |-> Idle] /\ proc' = "none"
      /\ watch' = [g \in Gens |-> "off"]
      /\ inp' = <<>> /\ seen' = {} /\ out' = [g \in Gens |-> <<>>]
  BY DEF Quit, Forget, db
<1>2. Types' /\ Places'
  BY <1>1, IdleIs, Nothing DEF IInv, Types, Places
<1>3. Known' /\ Owed'
  BY <1>1, IdleIs, Nothing DEF Known, Owed
<1> QED
  BY <1>2, <1>3 DEF IInv

-----------------------------------------------------------------------------

LEMMA Starting == Init => IInv
<1> SUFFICES ASSUME Init PROVE IInv
  OBVIOUS
<1>1. Types /\ Places
  BY IdleIs, Nothing, BoundAssumption DEF Init, Types, Places
<1>2. Known /\ Owed
  BY IdleIs, Nothing DEF Init, Known, Owed
<1> QED
  BY <1>1, <1>2 DEF IInv

LEMMA StepKeeps == ASSUME IInv, Next PROVE IInv'
<1>1. CASE UserPrompt \/ RunStep \/ WindowStep \/ SetUp \/ Open
  BY <1>1, QuietKeeps, OwnKeeps DEF RunStep, WindowStep, Quiet
<1>2. CASE CommandStep \/ \E g \in Gens : ReaderStep(g) \/ WatchStep(g)
  BY <1>2, CommandKeeps, ReadKeeps, WatchKeeps
<1>3. CASE \/ PostSend \/ \E t \in Threads : CallStep(t)
           \/ \E m \in Mail, kind \in {"prompt", "wake"} : Post(m, kind)
  BY <1>3, PostKeeps, PostSendKeeps, FilterKeeps, SendNextKeeps, WriteKeeps,
     WriteFailedKeeps, MarkKeeps DEF CallStep
<1>4. CASE Crash \/ Start \/ Stop \/ Quit
  BY <1>4, CrashKeeps, StartKeeps, StopKeeps, QuitKeeps
<1> QED
  BY <1>1, <1>2, <1>3, <1>4 DEF Next

LEMMA Stuttering == ASSUME IInv, UNCHANGED vars PROVE IInv'
<1> USE DEF vars, db, hub, shell, engine
<1>1. Types' /\ Places'
  BY DEF IInv, Types, Places
<1>2. Known'
  BY StoredIs DEF IInv, Known
<1>3. Owed'
  BY SameLines DEF IInv, Owed, Watched
<1> QED
  BY <1>1, <1>2, <1>3 DEF IInv

THEOREM Invariance == Spec => []IInv
<1>1. IInv /\ [Next]_vars => IInv'
  BY StepKeeps, Stuttering
<1> QED
  BY <1>1, Starting, PTL DEF Spec

(* InFlightIsOwed, for any number of messages, threads and processes: mail *)
(* that flush skips because it is on its way really is, or the watcher of  *)
(* the dead process will forget it.                                        *)
THEOREM InFlightMailIsOwed == Spec => []InFlightIsOwed
<1>1. IInv => InFlightIsOwed
  BY DEF IInv, Owed, Carried, Watched, InFlightIsOwed
<1> QED
  BY <1>1, Invariance, PTL

-----------------------------------------------------------------------------

(* The refinement.  A step that leaves the database and the history of the *)
(* answers alone is a step the promise does not see.                       *)
Settled == {m \in Mail : mail[m] = "delivered"}

LEMMA Unseen == ASSUME UNCHANGED <<mail, accepted>> PROVE UNCHANGED Mails!vars
<1>1. Pending' = Pending /\ Settled' = Settled
  BY DEF Pending, Settled
<1> QED
  BY <1>1 DEF Mails!vars, Settled

LEMMA Storing ==
  ASSUME Types, NEW m \in Mail, NEW kind, Post(m, kind)
  PROVE  Mails!Store(m)
<1>1. mail[m] = "none" /\ mail' = [mail EXCEPT ![m] = "pending"] /\ accepted' = accepted
  BY DEF Post
<1>2. m \notin Pending \cup Settled
  BY <1>1 DEF Pending, Settled
<1>3. Pending' = Pending \cup {m} /\ Settled' = Settled
  BY <1>1 DEF Types, Pending, Settled
<1> QED
  BY <1>1, <1>2, <1>3 DEF Mails!Store, Settled

(* Only an engine's answer to a line of stdin counts as taking, and the    *)
(* line is of stored mail.                                                 *)
LEMMA Accepting ==
  ASSUME IInv, CommandStep
  PROVE  Mails!Next \/ UNCHANGED Mails!vars
<1>1. PICK m : m = Head(inp).mail
  OBVIOUS
<1>2. /\ gen \in Gens /\ inp # <<>> /\ mail' = mail
      /\ \/ accepted' = accepted
         \/ accepted' = accepted \cup {m}
  BY <1>1, Command DEF IInv
<1>3. m \in Mail /\ m \in Stored
  BY <1>1, <1>2, Removed DEF IInv, Types, Known, Stored
<1>4. m \in Pending \cup Settled
  BY <1>3 DEF IInv, Types, Stored, Pending, Settled
<1>5. Pending' = Pending /\ Settled' = Settled
  BY <1>2 DEF Pending, Settled
<1>6. CASE accepted' = accepted \cup {m}
  <2>1. Mails!Accept(m)
    BY <1>4, <1>5, <1>6 DEF Mails!Accept, Settled
  <2> QED
    BY <1>3, <2>1 DEF Mails!Next
<1> QED
  BY <1>2, <1>6, Unseen

(* A settled message was taken: an answer says yes only to such mail, and  *)
(* the hub marks only on a yes.                                            *)
LEMMA Settling ==
  ASSUME IInv, NEW t \in Threads, Mark(t)
  PROVE  Mails!Next \/ UNCHANGED Mails!vars
<1>1. PICK m \in accepted \cap Stored : mail' = [mail EXCEPT ![m] = "delivered"]
  BY Marking
<1>2. accepted' = accepted /\ m \in Mail
  BY Marking DEF Stored
<1>3. CASE m \in Settled
  <2>1. mail' = mail
    BY <1>1, <1>3 DEF IInv, Types, Settled
  <2> QED
    BY <1>2, <2>1, Unseen
<1>4. CASE m \notin Settled
  <2>1. m \in Pending
    BY <1>4 DEF IInv, Types, Stored, Pending, Settled
  <2>2. Pending' = Pending \ {m} /\ Settled' = Settled \cup {m}
    BY <1>1, <1>2 DEF IInv, Types, Pending, Settled
  <2>3. Mails!Settle(m)
    BY <1>2, <2>1, <2>2 DEF Mails!Settle, Settled
  <2> QED
    BY <1>2, <2>3 DEF Mails!Next
<1> QED
  BY <1>3, <1>4

LEMMA PromiseStep ==
  ASSUME IInv, Next
  PROVE  Mails!Next \/ UNCHANGED Mails!vars
<1>1. CASE \E m \in Mail, kind \in {"prompt", "wake"} : Post(m, kind)
  BY <1>1, Storing DEF IInv, Mails!Next
<1>2. CASE CommandStep
  BY <1>2, Accepting
<1>3. CASE \E g \in Gens : ReaderStep(g)
  <2>1. UNCHANGED <<mail, accepted>>
    BY <1>3, Reading DEF IInv
  <2> QED
    BY <2>1, Unseen
<1>4. CASE UserPrompt \/ RunStep \/ WindowStep \/ SetUp \/ Open
  <2>1. CASE Quiet
    BY <2>1, QuietStep, Unseen
  <2>2. CASE Boot \/ BeginRun \/ Settle
    BY <2>2, Unseen DEF Boot, BeginRun, Settle, EngineStep, EngineAct, db
  <2> QED
    BY <1>4, <2>1, <2>2 DEF RunStep, WindowStep, Quiet
<1>5. CASE PostSend \/ \E t \in Threads : CallStep(t)
  <2>1. CASE \E t \in Threads : Mark(t)
    BY <2>1, Settling
  <2> QED
    BY <1>5, <2>1, Unseen DEF PostSend, CallStep, Filter, SendNext, Write, WriteFailed, db
<1>6. CASE Crash \/ Start \/ Stop \/ Quit \/ \E g \in Gens : WatchStep(g)
  BY <1>6, Unseen DEF Crash, Start, Stop, Quit, WatchStep, WatchLook, WatchExit, db
<1> QED
  BY <1>1, <1>2, <1>3, <1>4, <1>5, <1>6 DEF Next

(* ImplementsMail, for any number of messages, threads and processes: what *)
(* is marked delivered was taken by an engine of the receiver, whatever    *)
(* threads flush, whichever process dies and whoever answers late.         *)
THEOREM Implementation == Spec => ImplementsMail
<1>1. Init => Mails!Init
  <2>1. Init => Pending = {} /\ Settled = {} /\ accepted = {}
    BY DEF Init, Pending, Settled
  <2> QED
    BY <2>1 DEF Mails!Init, Settled
<1>2. IInv /\ [Next]_vars => [Mails!Next]_Mails!vars
  <2>1. ASSUME UNCHANGED vars PROVE UNCHANGED Mails!vars
    BY <2>1, Unseen DEF vars, db
  <2> QED
    BY <2>1, PromiseStep
<1> QED
  BY <1>1, <1>2, Invariance, PTL DEF Spec, Mails!Spec, ImplementsMail

-----------------------------------------------------------------------------
(* Questions between nodes: a ring of waits needs two asks that overtook   *)
(* each other, because a call that was not overtaken adds its wait to the  *)
(* very graph it searched, or to a part of it, and a foreground call waits *)
(* on a node that has no call of its own.                                  *)

\* Only a node with a run has calls, and a call that nobody overtook since its
\* check would still pass it.
AskInv == /\ TypeOK
          /\ \A c \in Call : pc[c] \notin {"free", "over"} => By[c] \in active
          /\ \A c \in Call : pc[c] = "checked" /\ c \notin raced => ~WouldDeadlock(By[c], to[c])
          /\ CycleNeedsARace

LEMMA AskInitially == AskInit => AskInv
<1> SUFFICES ASSUME AskInit PROVE AskInv
  OBVIOUS
<1> USE CallAssumption DEF AskInit
<1>1. TypeOK
  BY DEF TypeOK, Steps, Node
<1>2. CycleNeedsARace
  BY DEF CycleNeedsARace, Ring
<1> QED
  BY <1>1, <1>2 DEF AskInv

(* The nodes that a search finds are the fewer the fewer waits there are.  *)
LEMMA FewerWaits ==
  ASSUME NEW m \in Node, NEW n \in Node, ~WouldDeadlock(m, n),
         waits' \subseteq waits, \A c \in waits' : to'[c] = to[c]
  PROVE  ~WouldDeadlock(m, n)'
<1>1. \A N \in SUBSET Node : Targets(N)' \subseteq Targets(N)
  BY DEF Targets
<1>2. Seen(n)' \subseteq Seen(n)
  BY <1>1 DEF Seen
<1>3. Targets(Seen(n))' \subseteq Targets(Seen(n))
  BY <1>2 DEF Targets
<1> QED
  BY <1>3 DEF WouldDeadlock, WaitsOn

(* The search is complete: a wait of m on n that it allows closes no ring. *)
(* Every ring that contains the wait contains one without it.              *)
LEMMA SearchIsComplete ==
  ASSUME TypeOK, NEW c \in Call \ waits, ~WouldDeadlock(By[c], to[c]),
         NEW C \in SUBSET (waits \cup {c}), Ring(C)
  PROVE  \E D \in SUBSET waits : D \subseteq C /\ Ring(D)
<1> DEFINE R == Seen(to[c])
           D == {d \in C : By[d] \in R}
<1> USE CallAssumption
<1>1. to[c] \in Node /\ By[c] \in Node /\ to[c] \in R
  BY DEF TypeOK, Seen
<1>2. Targets(R) \subseteq R
  <2> SUFFICES ASSUME NEW t \in Targets(R), NEW Q \in SUBSET Node,
                      to[c] \in Q, Targets(Q) \subseteq Q
               PROVE  t \in Q /\ t \in Node
    BY <1>1 DEF Seen, Targets, TypeOK
  <2>1. R \subseteq Q
    BY DEF Seen
  <2> QED
    BY <2>1 DEF Targets
<1>3. By[c] \notin R
  <2>1. By[c] # to[c] /\ By[c] \notin Targets(R)
    BY DEF WouldDeadlock, WaitsOn
  <2>2. (R \ {By[c]}) \in SUBSET Node /\ to[c] \in R \ {By[c]}
    BY <1>1, <2>1 DEF Seen
  <2>3. Targets(R \ {By[c]}) \subseteq R \ {By[c]}
    BY <1>2, <2>1 DEF Targets
  <2> QED
    BY <2>2, <2>3 DEF Seen
<1>4. CASE c \notin C
  BY <1>4
<1>5. CASE c \in C
  <2>1. D \in SUBSET waits
    BY <1>3
  <2>2. \A d \in D : to[d] \in R
    BY <1>2, <2>1 DEF Targets
  <2>3. \A d \in D : \E e \in D : By[e] = to[d]
    BY <2>2 DEF Ring
  <2>4. D # {}
    BY <1>1, <1>5 DEF Ring
  <2> QED
    BY <2>1, <2>3, <2>4 DEF Ring
<1> QED
  BY <1>4, <1>5

----------------------------------------------------------------------------
(* Waits that end, or stay, close no ring.                                 *)
LEMMA NoNewWait ==
  ASSUME AskInv, waits' \subseteq waits, \A c \in waits' : to'[c] = to[c],
         \A c \in waits' : c \in raced => c \in raced'
  PROVE  CycleNeedsARace'
<1> SUFFICES ASSUME NEW C \in SUBSET waits', Ring(C)' PROVE C \cap raced' # {}
  BY DEF CycleNeedsARace
<1>1. Ring(C)
  BY DEF Ring
<1>2. PICK c \in C : c \in raced
  BY <1>1 DEF AskInv, CycleNeedsARace
<1> QED
  BY <1>2

LEMMA AskTypeStep == ASSUME TypeOK, AskNext PROVE TypeOK'
<1> USE CallAssumption, SessionAssumption DEF TypeOK, Steps, Node, node, Return, ForgetCalls
<1>1. ASSUME NEW c \in Call, NEW n \in Node, Check(c, n) \/ Refuse(c, n) PROVE TypeOK'
  BY <1>1 DEF Check, Refuse
<1>2. ASSUME NEW c \in Call, Add(c) PROVE TypeOK'
  BY <1>2 DEF Add, AddWait
<1>3. ASSUME NEW c \in Call, Forbid(c) PROVE TypeOK'
  BY <1>3 DEF Forbid
<1>4. ASSUME NEW c \in Call, Deliver(c) PROVE TypeOK'
  BY <1>4 DEF Deliver
<1>5. ASSUME NEW c \in Call, Undeliverable(c) PROVE TypeOK'
  BY <1>5 DEF Undeliverable
<1>6. ASSUME NEW c \in Call, AnswerCame(c) \/ GiveUp(c) PROVE TypeOK'
  BY <1>6 DEF AnswerCame, GiveUp
<1>7. ASSUME NEW c \in Call, Abandon(c) PROVE TypeOK'
  BY <1>7 DEF Abandon
<1>8. ASSUME NEW c \in Call, NEW n \in Node, Reply(c, n) PROVE TypeOK'
  BY <1>8 DEF Reply
<1>9. ASSUME NEW c \in Call, NEW n \in Agent, StartForeground(c, n) PROVE TypeOK'
  BY <1>9 DEF StartForeground, AddWait
<1>10. ASSUME NEW c \in Call, Release(c) PROVE TypeOK'
  BY <1>10 DEF Release
<1>11. ASSUME NEW n \in Node, SettleRun(n) PROVE TypeOK'
  BY <1>11 DEF SettleRun
<1>12. ASSUME NEW n \in Node, RunEnded(n) PROVE TypeOK'
  BY <1>12 DEF RunEnded, AnswerAll
<1>13. ASSUME NEW n \in Agent, StartBackground(n) PROVE TypeOK'
  BY <1>13 DEF StartBackground
<1>14. CASE StartSession
  BY <1>14 DEF StartSession
<1> QED
  BY <1>1, <1>2, <1>3, <1>4, <1>5, <1>6, <1>7, <1>8, <1>9, <1>10, <1>11, <1>12, <1>13, <1>14
  DEF AskNext, Tool, Run

(* A step that adds no wait and lets no call past its check.               *)
LEMMA AskQuiet ==
  ASSUME AskInv, TypeOK', waits' \subseteq waits,
         \A c \in waits' : to'[c] = to[c],
         \A c \in waits' : c \in raced => c \in raced',
         \A c \in Call : pc'[c] = "checked" =>
            pc[c] = "checked" /\ to'[c] = to[c] /\ (c \in raced => c \in raced'),
         \A c \in Call : pc'[c] \notin {"free", "over"} => By[c] \in active'
  PROVE  AskInv'
<1>1. ASSUME NEW c \in Call, pc'[c] = "checked", c \notin raced'
      PROVE  ~WouldDeadlock(By[c], to[c])' /\ to'[c] = to[c]
  <2>1. ~WouldDeadlock(By[c], to[c]) /\ to'[c] = to[c]
    BY <1>1 DEF AskInv
  <2>2. By[c] \in Node /\ to[c] \in Node
    BY CallAssumption DEF AskInv, TypeOK
  <2> QED
    BY <2>1, <2>2, FewerWaits
<1>2. CycleNeedsARace'
  BY NoNewWait
<1> QED
  BY <1>1, <1>2 DEF AskInv

(* Only Check lets a call past it, with a graph that allows it.            *)
LEMMA CheckKeeps == ASSUME AskInv, NEW c \in Call, NEW n \in Node, Check(c, n), TypeOK' PROVE AskInv'
<1> USE CallAssumption DEF AskInv, TypeOK
<1>1. /\ waits' = waits /\ raced' = raced /\ active' = active
      /\ pc'[c] = "checked" /\ to'[c] = n /\ c \notin waits /\ ~WouldDeadlock(By[c], n)
      /\ \A d \in Call \ {c} : pc'[d] = pc[d] /\ to'[d] = to[d]
      /\ By[c] \in active
  BY DEF Check, node
<1>2. CycleNeedsARace'
  BY <1>1, NoNewWait
<1>3. ASSUME NEW d \in Call, pc'[d] = "checked", d \notin raced'
      PROVE  ~WouldDeadlock(By[d], to[d])'
  <2>1. ~WouldDeadlock(By[d], to'[d]) /\ to'[d] \in Node /\ By[d] \in Node
    BY <1>1, <1>3
  <2>2. waits' \subseteq waits /\ \A e \in waits' : to'[e] = to[e]
    BY <1>1
  <2>3. ASSUME NEW m \in Node, NEW t \in Node, ~WouldDeadlock(m, t), m = By[d], t = to'[d]
        PROVE  ~WouldDeadlock(By[d], to[d])'
    <3>1. ~WouldDeadlock(m, t)'
      BY <2>2, <2>3, FewerWaits
    <3> QED
      BY <2>3, <3>1
  <2> QED
    BY <2>1, <2>3
<1>4. \A d \in Call : pc'[d] \notin {"free", "over"} => By[d] \in active'
  BY <1>1
<1> QED
  BY <1>2, <1>3, <1>4

(* A checked call adds its wait: it was overtaken, or its check still      *)
(* stands.  Every other checked call is overtaken now.                     *)
LEMMA AddKeeps == ASSUME AskInv, NEW c \in Call, Add(c), TypeOK' PROVE AskInv'
<1> USE CallAssumption DEF AskInv, TypeOK
<1>1. /\ waits' = waits \cup {c} /\ c \notin waits /\ pc[c] = "checked" /\ pc'[c] = "pushed"
      /\ to' = to /\ active' = active
      /\ raced' = raced \cup {d \in Call \ {c} : pc[d] = "checked"}
      /\ \A d \in Call \ {c} : pc'[d] = pc[d]
  BY DEF Add, AddWait, node
<1>2. CycleNeedsARace'
  <2> SUFFICES ASSUME NEW C \in SUBSET waits', Ring(C)' PROVE C \cap raced' # {}
    BY DEF CycleNeedsARace
  <2>1. Ring(C)
    BY <1>1 DEF Ring
  <2>2. CASE c \in raced /\ c \in C
    BY <1>1, <2>2
  <2>3. CASE c \notin C
    BY <1>1, <2>1, <2>3 DEF CycleNeedsARace
  <2>4. CASE c \notin raced
    <3>1. PICK D \in SUBSET waits : D \subseteq C /\ Ring(D)
      BY <1>1, <2>1, <2>4, SearchIsComplete
    <3> QED
      BY <1>1, <3>1 DEF CycleNeedsARace
  <2> QED
    BY <2>2, <2>3, <2>4
<1>3. \A d \in Call : pc'[d] = "checked" => d \in raced'
  BY <1>1
<1>4. \A d \in Call : pc'[d] \notin {"free", "over"} => By[d] \in active'
  BY <1>1
<1> QED
  BY <1>2, <1>3, <1>4

(* A foreground call is not checked: the node it starts has no call.       *)
LEMMA ForegroundKeeps ==
  ASSUME AskInv, NEW c \in Call, NEW n \in Agent, StartForeground(c, n), TypeOK' PROVE AskInv'
<1> USE CallAssumption DEF AskInv, TypeOK
<1>1. /\ waits' = waits \cup {c} /\ c \notin waits /\ pc[c] = "free" /\ pc'[c] = "foreground"
      /\ to'[c] = n /\ active' = active \cup {n} /\ n \notin active /\ By[c] \in active
      /\ raced' = raced \cup {d \in Call \ {c} : pc[d] = "checked"}
      /\ \A d \in Call \ {c} : pc'[d] = pc[d] /\ to'[d] = to[d]
  BY DEF StartForeground, AddWait
<1>2. CycleNeedsARace'
  <2> SUFFICES ASSUME NEW C \in SUBSET waits', Ring(C)' PROVE C \cap raced' # {}
    BY DEF CycleNeedsARace
  <2>1. c \notin C
    <3>1. \A e \in C : By[e] # n
      BY <1>1
    <3> QED
      BY <1>1, <3>1 DEF Ring
  <2>2. Ring(C)
    BY <1>1, <2>1 DEF Ring
  <2> QED
    BY <1>1, <2>1, <2>2 DEF CycleNeedsARace
<1>3. \A d \in Call : pc'[d] = "checked" => d \in raced'
  BY <1>1
<1>4. \A d \in Call : pc'[d] \notin {"free", "over"} => By[d] \in active'
  BY <1>1
<1> QED
  BY <1>2, <1>3, <1>4

LEMMA AskStep == ASSUME AskInv, [AskNext]_askVars PROVE AskInv'
<1>0. CASE UNCHANGED askVars
  <2>1. UNCHANGED <<pc, to, active, closing, wake, waits, open, answer, raced>>
    BY <1>0 DEF askVars, node
  <2>2. TypeOK'
    BY <2>1 DEF AskInv, TypeOK
  <2> QED
    BY <2>1, <2>2, AskQuiet DEF AskInv
<1> SUFFICES ASSUME AskNext PROVE AskInv'
  BY <1>0
<1>1. TypeOK'
  BY AskTypeStep DEF AskInv
<1> USE CallAssumption DEF node, Return, ForgetCalls
<1>2. ASSUME NEW c \in Call, NEW n \in Node, Refuse(c, n) PROVE AskInv'
  BY <1>1, <1>2, AskQuiet DEF Refuse, AskInv, TypeOK
<1>3. ASSUME NEW c \in Call, Forbid(c) \/ Undeliverable(c) \/ AnswerCame(c) \/ GiveUp(c) PROVE AskInv'
  BY <1>1, <1>3, AskQuiet DEF Forbid, Undeliverable, AnswerCame, GiveUp, AskInv, TypeOK
<1>4. ASSUME NEW c \in Call, Deliver(c) PROVE AskInv'
  BY <1>1, <1>4, AskQuiet DEF Deliver, AskInv, TypeOK
<1>5. ASSUME NEW c \in Call, Abandon(c) \/ Release(c) PROVE AskInv'
  BY <1>1, <1>5, AskQuiet DEF Abandon, Release, AskInv, TypeOK
<1>6. ASSUME NEW c \in Call, NEW n \in Node, Reply(c, n) PROVE AskInv'
  BY <1>1, <1>6, AskQuiet DEF Reply, AskInv, TypeOK
<1>7. ASSUME NEW n \in Node, SettleRun(n) PROVE AskInv'
  BY <1>1, <1>7, AskQuiet DEF SettleRun, Calling, AskInv, TypeOK
<1>8. ASSUME NEW n \in Node, RunEnded(n) PROVE AskInv'
  BY <1>1, <1>8, AskQuiet DEF RunEnded, AskInv, TypeOK
<1>9. CASE StartSession \/ \E n \in Agent : StartBackground(n)
  BY <1>1, <1>9, AskQuiet DEF StartSession, StartBackground, AskInv, TypeOK
<1> QED
  BY <1>1, <1>2, <1>3, <1>4, <1>5, <1>6, <1>7, <1>8, <1>9, CheckKeeps, AddKeeps, ForegroundKeeps
  DEF AskNext, Tool, Run

(* Types, and that a wait is in the graph exactly while its call runs.     *)
THEOREM WaitsAreGuarded == AskSpec => []TypeOK
<1>1. AskInv => TypeOK
  BY DEF AskInv
<1> QED
  BY <1>1, AskInitially, AskStep, PTL DEF AskSpec

(* try_wait searches under one lock and adds under another: without a call *)
(* that slipped in between there is no ring of waits, whatever the number  *)
(* of agents, asks and foreground calls.                                   *)
THEOREM RingsNeedARace == AskSpec => []CycleNeedsARace
<1>1. AskInv => CycleNeedsARace
  BY DEF AskInv
<1> QED
  BY <1>1, AskInitially, AskStep, PTL DEF AskSpec
=============================================================================
