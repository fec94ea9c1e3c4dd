------------------------------ MODULE MeshHub ------------------------------
(***************************************************************************)
(* Mail for one chat: the hub that stores and sends it, the shell that     *)
(* starts, stops and watches the chat's engine process, the engine's       *)
(* command loop, and the window that sets the engine up when the hub asks  *)
(* for a host.                                                             *)
(*                                                                         *)
(* The hub is called from several threads at once: the task that reads an  *)
(* engine's output (one for each generation, also of a dead one as long as *)
(* its pipe holds lines), the command a window sends when it set the       *)
(* engine up, the reader of the sender's engine, and the watcher of each   *)
(* process.  A call reads the database, looks at the engine and sends, and *)
(* writes to the process in separate steps.                                *)
(***************************************************************************)
EXTENDS Naturals, Sequences, FiniteSets

CONSTANTS
  Mail,         \* the messages for this chat
  Age,          \* Age[m]: its place by (created_at, id)
  MaxGen,       \* engine processes of a behaviour
  MaxOut,       \* lines of an engine's output that are not read yet
  MaxActs       \* what people may do (open, stop, quit, start a run) and what
                \* hooks and the store may refuse

NoMail == "none"

ASSUME MailAssumption ==
  /\ IsFiniteSet(Mail) /\ NoMail \notin Mail
  /\ Age \in [Mail -> Nat]
  /\ \A m, n \in Mail : Age[m] = Age[n] => m = n
ASSUME BoundAssumption ==
  /\ MaxGen \in Nat \ {0}
  /\ MaxOut \in Nat \ {0}
  /\ MaxActs \in Nat

Gens == 1..MaxGen

(* The threads that call the hub: a reader for each generation, the        *)
(* reader of the sender's engine, and the window's command.                *)
Poster == 0
Commander == MaxGen + 1
Threads == 0..(MaxGen + 1)

VARIABLES
  mail,      \* the database: "none", "pending" or "delivered"
  deliver,   \* "prompt" or "wake" (a note)
  ready, hosted, busy,  \* the hub's Engine record of this chat
  inFlight,  \* sent and not answered
  job,       \* what each thread has left of its call
  proc,      \* EngineState.processes: "alive", "dead" (not noticed), "none"
  gen,       \* its generation
  watch,     \* the watcher of each generation: "polls", "gone", "exited", "off"
  inp,       \* lines in the process's stdin
  out,       \* lines each generation wrote that its reader has not read
  run,       \* the engine's run slot
  begun,     \* the accepted prompt whose run has not stored it yet
  seen,      \* SEEN_MAIL of this process
  queued,    \* the session's durable queue: taken, not read by a run
  read,      \* in the transcript
  win,       \* the status of the window's runtime of this chat
  launch,    \* it asked for engine_start
  setup,     \* generations it is setting up (onReadyNested)
  events,    \* for the window
  acts,      \* how often people did something
  accepted,  \* history: what an engine said yes to
  slips      \* history: how mail was left to wait or lost, at first

hub == <<ready, hosted, busy, inFlight>>
shell == <<proc, gen, watch>>
engine == <<inp, run, begun, seen, queued, read>>
window == <<win, launch, setup>>
db == <<mail, deliver>>
vars == <<db, hub, job, shell, out, engine, window, events, acts, accepted, slips>>

(* MailStore::pending *)
Pending == {m \in Mail : mail[m] = "pending"}

IsPrompt(m) == deliver[m] = "prompt"

Oldest(mails) == CHOOSE m \in mails : \A n \in mails : Age[m] <= Age[n]

(* A call of the hub: it read `mails` in the database (flush) or stored    *)
(* one (post), or kept those to send, or has `lines` to write.             *)
Job(pc, mails, lines) == [pc |-> pc, mails |-> mails, lines |-> lines]
Idle == Job("idle", {}, <<>>)
Flushing(mails) == IF mails = {} THEN Idle ELSE Job("flush", mails, <<>>)
Sending(mails, lines) ==
  IF mails # {} THEN Job("send", mails, lines)
  ELSE IF lines # <<>> THEN Job("write", {}, lines)
  ELSE Idle

Line(type, m) == [type |-> type, mail |-> m]
Event(type, g) == [type |-> type, gen |-> g]

(* Someone does something. *)
Act == acts < MaxActs /\ acts' = acts + 1

Init ==
  /\ mail = [m \in Mail |-> "none"] /\ deliver = [m \in Mail |-> "wake"]
  /\ ready = FALSE /\ hosted = FALSE /\ busy = FALSE /\ inFlight = {}
  /\ job = [t \in Threads |-> Idle]
  /\ proc = "none" /\ gen = 0 /\ watch = [g \in Gens |-> "off"]
  /\ inp = <<>> /\ out = [g \in Gens |-> <<>>]
  /\ run = "gone" /\ begun = NoMail /\ seen = {} /\ queued = {} /\ read = {}
  /\ win = "none" /\ launch = FALSE /\ setup = {} /\ events = <<>>
  /\ acts = 0 /\ accepted = {} /\ slips = {}

----------------------------------------------------------------------------
(* The hub. *)

(* Mutant: what is on its way to the old process is kept. *)
ForgetEngine == ready' = FALSE /\ hosted' = FALSE /\ busy' = FALSE /\ UNCHANGED inFlight

(* Hub::on_start: nothing is ready or in flight there. *)
Forget == ready' = FALSE /\ hosted' = FALSE /\ busy' = FALSE /\ inFlight' = {}

Deliverable(m) == IF IsPrompt(m) THEN hosted ELSE ready

(* Hub::send: a prompt makes an idle engine busy, and goes to a busy one   *)
(* as a message for its running turn.                                      *)
SendLine(m) ==
  Line(IF ~ IsPrompt(m) THEN "note" ELSE IF busy THEN "steer" ELSE "prompt", m)

Send(m) == inFlight' = inFlight \union {m} /\ busy' = (busy \/ IsPrompt(m))

(* Hub::flush has read the pending mail: it drops what is on its way ...   *)
Filter(t) ==
  /\ job[t].pc = "flush"
  /\ job' = [job EXCEPT ![t] = Sending(@.mails \ inFlight, <<>>)]
  /\ UNCHANGED <<db, hub, shell, out, engine, window, events, acts, accepted, slips>>

(* ... and sends the rest, the oldest first, one lock at a time.           *)
SendNext(t) ==
  /\ job[t].pc = "send"
  /\ LET m == Oldest(job[t].mails) IN
       IF Deliverable(m)
         THEN /\ Send(m)
              /\ job' = [job EXCEPT ![t] =
                           Sending(@.mails \ {m}, Append(@.lines, SendLine(m)))]
         ELSE /\ job' = [job EXCEPT ![t] = Sending(@.mails \ {m}, @.lines)]
              /\ UNCHANGED <<inFlight, busy>>
  /\ UNCHANGED <<db, ready, hosted, shell, out, engine, window, events, acts, accepted,
                 slips>>

(* Hub::post of a message to this chat, by the reader of the sender's      *)
(* engine: it is stored first.                                             *)
Post(m, kind) ==
  /\ mail[m] = "none" /\ job[Poster] = Idle
  /\ mail' = [mail EXCEPT ![m] = "pending"]
  /\ deliver' = [deliver EXCEPT ![m] = kind]
  /\ job' = [job EXCEPT ![Poster] = Job("post", {m}, <<>>)]
  /\ UNCHANGED <<hub, shell, out, engine, window, events, acts, accepted, slips>>

PostSend ==
  /\ job[Poster].pc = "post"
  /\ \E m \in job[Poster].mails :
       IF Deliverable(m)
         THEN /\ Send(m)
              /\ job' = [job EXCEPT ![Poster] = Sending({}, <<SendLine(m)>>)]
              /\ UNCHANGED events
         ELSE /\ job' = [job EXCEPT ![Poster] = Idle]
              /\ events' = Append(events, Event("host", 0))
              /\ UNCHANGED <<busy, inFlight>>
  /\ UNCHANGED <<db, ready, hosted, shell, out, engine, window, acts, accepted, slips>>

(* apply of an Effect::Send: EngineState::write, under the processes' lock. *)
Write(t) ==
  /\ job[t].pc = "write"
  /\ IF proc = "alive"
       THEN /\ inp' = Append(inp, Head(job[t].lines))
            /\ job' = [job EXCEPT ![t] = Sending({}, Tail(@.lines))]
       ELSE /\ job' = [job EXCEPT ![t] = Job("failed", {}, Tail(@.lines))]
            /\ UNCHANGED inp
  /\ UNCHANGED <<db, hub, shell, out, run, begun, seen, queued, read, window, events,
                 acts, accepted, slips>>

(* The first slip is kept, and the first other than "host before exit".    *)
Slip(what, holds) ==
  slips' = IF holds /\ slips \subseteq {"host before exit"} THEN slips \union {what} ELSE slips

(* The write failed, and on_start follows without that lock: the engine may *)
(* have been started again, and set up.                                    *)
WriteFailed(t) ==
  /\ job[t].pc = "failed"
  /\ job' = [job EXCEPT ![t] = Sending({}, @.lines)]
  /\ Forget
  /\ Slip("forgot a restarted engine", proc = "alive" /\ hosted)
  /\ UNCHANGED <<db, shell, out, engine, window, events, acts, accepted>>

(* Mutant: any answer settles. *)
AnsweredAnyhow(g, m, yes) ==
  /\ inFlight' = inFlight \ {m}
  /\ job' = IF m \in inFlight THEN [job EXCEPT ![g] = Job("mark", {m}, <<>>)] ELSE job

(* Hub::answered: out of in_flight, and then marked in the database.       *)
Answered(g, m, yes) ==
  /\ inFlight' = inFlight \ {m}
  /\ job' = IF m \in inFlight /\ yes THEN [job EXCEPT ![g] = Job("mark", {m}, <<>>)] ELSE job

Mark(t) ==
  /\ job[t].pc = "mark"
  /\ mail' = [m \in Mail |-> IF m \in job[t].mails THEN "delivered" ELSE mail[m]]
  /\ job' = [job EXCEPT ![t] = Idle]
  /\ UNCHANGED <<deliver, hub, shell, out, engine, window, events, acts, accepted, slips>>

(* The reader of generation g passes a line to the window and to the hub.  *)
(* The hub does not look at the generation.                                *)
TakeLine(g, type) ==
  /\ job[g] = Idle /\ out[g] # <<>> /\ Head(out[g]).type = type
  /\ out' = [out EXCEPT ![g] = Tail(@)]
  /\ UNCHANGED <<shell, engine, window, acts, accepted, slips>>

ReadReady(g) ==
  /\ TakeLine(g, "ready")
  /\ ready' = TRUE
  /\ job' = [job EXCEPT ![g] = Flushing(Pending)]
  /\ events' = Append(events, Event("ready", g))
  /\ UNCHANGED <<db, hosted, busy, inFlight>>

ReadStart(g) ==
  /\ TakeLine(g, "start")
  /\ busy' = TRUE
  /\ UNCHANGED <<db, ready, hosted, inFlight, job, events>>

ReadSettled(g) ==
  /\ TakeLine(g, "settled")
  /\ busy' = FALSE
  /\ job' = [job EXCEPT ![g] = Flushing(Pending)]
  /\ UNCHANGED <<db, ready, hosted, inFlight, events>>

ReadYes(g) ==
  /\ TakeLine(g, "yes")
  /\ Answered(g, Head(out[g]).mail, TRUE)
  /\ UNCHANGED <<db, ready, hosted, busy, events>>

(* on_response: "busy" is a prompt refused because a run is active. *)
ReadNo(g) ==
  \E type \in {"no", "busy"} :
    /\ TakeLine(g, type)
    /\ Answered(g, Head(out[g]).mail, FALSE)
    /\ busy' = (busy \/ (type = "busy" /\ Head(out[g]).mail \in inFlight))
    /\ UNCHANGED <<db, ready, hosted, events>>

----------------------------------------------------------------------------
(* The engine process. *)

Say(lines) ==
  /\ Len(out[gen]) + Len(lines) <= MaxOut
  /\ out' = [out EXCEPT ![gen] = @ \o lines]

EngineAct == proc = "alive" /\ UNCHANGED <<db, hub, job, shell, window, events>>
EngineStep == EngineAct /\ UNCHANGED acts

Boot ==
  /\ EngineStep
  /\ run = "boot" /\ run' = "idle"
  /\ Say(<<Line("ready", NoMail)>>)
  /\ UNCHANGED <<inp, begun, seen, queued, read, accepted, slips>>

Receive(type) ==
  /\ EngineAct
  /\ run # "boot" /\ inp # <<>> /\ Head(inp).type = type
  /\ inp' = Tail(inp)

(* take_mail: a message it already took is only answered. *)
TakeNote ==
  /\ Receive("note")
  /\ LET m == Head(inp).mail IN
       \/ /\ m \in seen
          /\ Say(<<Line("yes", m)>>)
          /\ UNCHANGED <<queued, seen, accepted, slips, acts>>
       \/ /\ m \notin seen
          /\ queued' = queued \union {m}
          /\ seen' = seen \union {m}
          /\ accepted' = accepted \union {m}
          /\ Say(<<Line("yes", m)>>)
          /\ UNCHANGED <<slips, acts>>
       \/ /\ m \notin seen /\ Act
          /\ Say(<<Line("no", m)>>)
          /\ Slip("refused", TRUE)  \* no line follows that makes the hub send it again
          /\ UNCHANGED <<queued, seen, accepted>>
  /\ UNCHANGED <<run, begun, read>>

(* queue_message with deliverAs "steer" *)
TakeSteer ==
  /\ Receive("steer")
  /\ LET m == Head(inp).mail IN
       /\ queued' = queued \union {m}
       /\ accepted' = accepted \union {m}
       /\ Say(<<Line("yes", m)>>)
  /\ \/ run = "finishing" /\ Slip("steered after the last look", TRUE)
     \/ run # "finishing"
        /\ Slip("steered an idle engine", run \notin {"accepted", "active"})
  /\ UNCHANGED <<run, begun, seen, read, acts>>

(* The "prompt" command, while the slot is taken ... *)
RefusePrompt ==
  /\ Receive("prompt")
  /\ run # "idle"
  /\ Say(<<Line("busy", Head(inp).mail)>>)
  /\ Slip("busy after settled", run = "settled")
  /\ UNCHANGED <<run, begun, seen, queued, read, accepted, acts>>

(* ... blocked by a hook or by its validation ... *)
BlockPrompt ==
  /\ Receive("prompt")
  /\ run = "idle" /\ Act
  /\ Say(<<Line("no", Head(inp).mail)>>)
  /\ Slip("refused", TRUE)
  /\ UNCHANGED <<run, begun, seen, queued, read, accepted>>

(* ... and accepted: the answer is written before the lane stores it. *)
AcceptPrompt ==
  /\ Receive("prompt")
  /\ run = "idle" /\ run' = "accepted"
  /\ begun' = Head(inp).mail
  /\ accepted' = accepted \union {Head(inp).mail}
  /\ Say(<<Line("yes", Head(inp).mail)>>)
  /\ UNCHANGED <<seen, queued, read, slips, acts>>

(* A run nobody here asked for: typed, or an automated wake. *)
UserPrompt ==
  /\ EngineAct /\ Act
  /\ run = "idle" /\ run' = "accepted"
  /\ UNCHANGED <<out, inp, begun, seen, queued, read, accepted, slips>>

(* The run's operation and its prompt are stored; agent_start. *)
BeginRun ==
  /\ EngineStep
  /\ run = "accepted" /\ run' = "active"
  /\ read' = read \union queued \union ({begun} \ {NoMail})
  /\ queued' = {} /\ begun' = NoMail
  /\ Say(<<Line("start", NoMail)>>)
  /\ UNCHANGED <<inp, seen, accepted, slips>>

ReadQueue ==
  /\ EngineStep
  /\ run = "active" /\ queued # {}
  /\ read' = read \union queued /\ queued' = {}
  /\ UNCHANGED <<out, inp, run, begun, seen, accepted, slips>>

(* The run looks at its queues for the last time, or fails and does not;   *)
(* finish_context_writes and the flush of its events are still to come.    *)
LastLook ==
  /\ EngineStep
  /\ run = "active" /\ queued = {} /\ run' = "finishing"
  /\ UNCHANGED <<out, inp, begun, seen, queued, read, accepted, slips>>

FailRun ==
  /\ EngineStep
  /\ run = "active" /\ queued # {} /\ run' = "finishing"
  /\ Slip("the run failed", TRUE)
  /\ UNCHANGED <<out, inp, begun, seen, queued, read, accepted>>

(* agent_settled is written, and run_active stored after it.               *)
Settle ==
  /\ EngineStep
  /\ run = "finishing" /\ run' = "settled"
  /\ Say(<<Line("settled", NoMail)>>)
  /\ UNCHANGED <<inp, begun, seen, queued, read, accepted, slips>>

FreeSlot ==
  /\ EngineStep
  /\ run = "settled" /\ run' = "idle"
  /\ UNCHANGED <<out, inp, begun, seen, queued, read, accepted, slips>>

----------------------------------------------------------------------------
(* The shell. *)

(* A prompt was accepted and no run read it yet. *)
Unrun == begun # NoMail \/ \E m \in queued : IsPrompt(m)

(* The process ends; lines its writer had not written yet are lost. *)
Die ==
  /\ inp' = <<>> /\ run' = "gone" /\ begun' = NoMail /\ seen' = {}
  /\ \E n \in 0..Len(out[gen]) : out' = [out EXCEPT ![gen] = SubSeq(@, 1, n)]
  /\ Slip("accepted and not run", Unrun)
  /\ UNCHANGED <<queued, read>>

Crash ==
  /\ proc = "alive" /\ gen < MaxGen
  /\ proc' = "dead" /\ Die
  /\ UNCHANGED <<db, hub, job, gen, watch, window, events, acts, accepted>>

(* engine_start: a process that still runs is killed first. *)
Start ==
  /\ launch /\ gen < MaxGen
  /\ launch' = FALSE
  /\ Forget
  /\ proc' = "alive" /\ gen' = gen + 1 /\ watch' = [watch EXCEPT ![gen + 1] = "polls"]
  /\ inp' = <<>> /\ run' = "boot" /\ begun' = NoMail /\ seen' = {}
  /\ IF proc = "alive"
       THEN \E n \in 0..Len(out[gen]) : out' = [out EXCEPT ![gen] = SubSeq(@, 1, n)]
       ELSE UNCHANGED out
  /\ Slip("accepted and not run", Unrun)
  /\ UNCHANGED <<db, job, queued, read, win, setup, events, acts, accepted>>


HostIfPending == IF Pending = {} THEN <<>> ELSE <<Event("host", 0)>>

(* The watcher of generation g looks under the lock of the processes, and  *)
(* calls Hub::on_exit after it released the lock.                          *)
WatchLook(g) ==
  /\ watch[g] = "polls"
  /\ \/ proc = "none" /\ watch' = [watch EXCEPT ![g] = "gone"] /\ UNCHANGED proc
     \/ /\ proc # "none" /\ g # gen
        /\ watch' = [watch EXCEPT ![g] = "off"] /\ UNCHANGED proc
     \/ /\ proc = "dead" /\ g = gen /\ proc' = "none"
        /\ watch' = [watch EXCEPT ![g] = "exited"]
  /\ UNCHANGED <<db, hub, job, gen, out, engine, window, events, acts, accepted, slips>>

(* on_exit asks for a host before the window hears of the exit. *)
WatchExit(g) ==
  /\ watch[g] \in {"gone", "exited"}
  /\ watch' = [watch EXCEPT ![g] = "off"]
  /\ Forget
  /\ events' = events \o HostIfPending
       \o (IF watch[g] = "exited" THEN <<Event("exit", g)>> ELSE <<>>)
  /\ UNCHANGED <<db, job, proc, gen, out, engine, window, acts, accepted, slips>>

(* engine_stop, for a chat the window closed *)
Stop ==
  /\ win = "ready" /\ gen < MaxGen /\ Act
  /\ win' = "none"
  /\ proc' = "none"
  /\ IF proc = "alive" THEN Die ELSE UNCHANGED <<engine, out, slips>>
  /\ UNCHANGED <<db, hub, job, gen, watch, launch, setup, events, accepted>>

(* The application is quit and started: at its start the main window hosts *)
(* the chats with undelivered mail.                                        *)
Quit ==
  /\ gen < MaxGen /\ Act
  /\ Forget
  /\ job' = [t \in Threads |-> Idle]
  /\ proc' = "none" /\ watch' = [g \in Gens |-> "off"]
  /\ inp' = <<>> /\ run' = "gone" /\ begun' = NoMail /\ seen' = {}
  /\ out' = [g \in Gens |-> <<>>]
  /\ win' = "none" /\ launch' = FALSE /\ setup' = {}
  /\ events' = HostIfPending
  /\ Slip("accepted and not run", Unrun)
  /\ UNCHANGED <<db, gen, queued, read, accepted>>

----------------------------------------------------------------------------
(* The window. *)

TakeEvent(type) ==
  /\ events # <<>> /\ Head(events).type = type
  /\ events' = Tail(events)
  /\ UNCHANGED <<db, inFlight, busy, shell, out, engine, acts, accepted>>

(* mesh_hosted, Hub::on_hosted *)
Hosted ==
  /\ job[Commander] = Idle
  /\ ready' = TRUE /\ hosted' = TRUE
  /\ job' = [job EXCEPT ![Commander] = Flushing(Pending)]
  /\ Slip("host before exit", proc # "alive")  \* the window does not know yet

OnHostReady ==
  /\ TakeEvent("host")
  /\ win = "ready"
  /\ Hosted
  /\ UNCHANGED window

OnHostLaunch ==
  /\ TakeEvent("host")
  /\ win = "exited" \/ (win = "none" /\ proc = "none")
  /\ win' = "starting" /\ launch' = TRUE
  /\ UNCHANGED <<ready, hosted, job, setup, slips>>

(* It is starting (or died since), runs elsewhere, or was started too      *)
(* often.                                                                  *)
OnHostIgnored ==
  /\ TakeEvent("host")
  /\ \/ win = "starting" /\ Slip("host before exit", proc # "alive" /\ ~ launch)
     \/ win = "none" /\ proc # "none" /\ UNCHANGED slips
     \/ win = "exited" /\ Slip("restarted too often", TRUE)  \* MAIL_RESTARTS
  /\ UNCHANGED <<ready, hosted, job, window>>

(* Events of an older generation are dropped, and all of a closed chat. *)
Concerns(g) == win # "none" /\ g = gen

OnReady ==
  /\ TakeEvent("ready")
  /\ IF Concerns(Head(events).gen)
       THEN win' = "ready" /\ setup' = setup \union {gen}
       ELSE UNCHANGED <<win, setup>>
  /\ UNCHANGED <<ready, hosted, job, launch, slips>>

(* onReadyNested: the tools are configured, or that failed; either way the *)
(* hub is told.                                                            *)
SetUp ==
  /\ \E g \in setup : setup' = setup \ {g}
  /\ Hosted
  /\ UNCHANGED <<db, inFlight, busy, shell, out, engine, win, launch, events,
                 acts, accepted>>

OnExit ==
  /\ TakeEvent("exit")
  /\ win' = IF Concerns(Head(events).gen) THEN "exited" ELSE win
  /\ UNCHANGED <<ready, hosted, job, launch, setup, slips>>

(* Someone opens the chat, or restarts its engine. *)
Open ==
  /\ win \in {"none", "exited", "ready"} /\ gen < MaxGen /\ Act
  /\ win = "none" => proc = "none"
  /\ win' = "starting" /\ launch' = TRUE
  /\ UNCHANGED <<db, hub, job, shell, out, engine, setup, events, accepted, slips>>

----------------------------------------------------------------------------
ReaderStep(g) == ReadReady(g) \/ ReadStart(g) \/ ReadSettled(g) \/ ReadYes(g) \/ ReadNo(g)
CallStep(t) == Filter(t) \/ SendNext(t) \/ Write(t) \/ WriteFailed(t) \/ Mark(t)
CommandStep == TakeNote \/ TakeSteer \/ RefusePrompt \/ BlockPrompt \/ AcceptPrompt
RunStep == Boot \/ BeginRun \/ ReadQueue \/ LastLook \/ FailRun \/ Settle \/ FreeSlot
WatchStep(g) == WatchLook(g) \/ WatchExit(g)
WindowStep == OnHostReady \/ OnHostLaunch \/ OnHostIgnored \/ OnReady \/ OnExit

Next ==
  \/ \E m \in Mail, kind \in {"prompt", "wake"} : Post(m, kind)
  \/ PostSend
  \/ \E t \in Threads : CallStep(t)
  \/ \E g \in Gens : ReaderStep(g) \/ WatchStep(g)
  \/ CommandStep \/ RunStep \/ UserPrompt
  \/ Crash \/ Start \/ Stop \/ Quit
  \/ WindowStep \/ SetUp \/ Open

Spec == Init /\ [][Next]_vars

(* Tasks are polled, pipes are read, watchers poll, events arrive in the   *)
(* window and its calls go through, a run ends.  People, crashes and       *)
(* refusals have no fairness.  It is enough that none of the five stops    *)
(* while it could go on.                                                   *)
HubStep == PostSend \/ \E t \in Threads : CallStep(t)
PipeStep == \E g \in Gens : ReaderStep(g)
EngineProcessStep == CommandStep \/ RunStep
ShellStep == Start \/ \E g \in Gens : WatchStep(g)
Fairness ==
  /\ WF_vars(HubStep) /\ WF_vars(PipeStep) /\ WF_vars(EngineProcessStep)
  /\ WF_vars(ShellStep) /\ WF_vars(WindowStep \/ SetUp)

FairSpec == Spec /\ Fairness

(* What the sender is promised (hub.rs, "Durable delivery"): mail is       *)
(* marked delivered only after an engine took it, whatever threads flush,  *)
(* whichever process dies and whoever answers late.                        *)
Mails == INSTANCE MailPromise
  WITH owed <- Pending, settled <- {m \in Mail : mail[m] = "delivered"}

ImplementsMail == Mails!Spec

(* Mail the hub waits for an answer about is on its way: a thread will     *)
(* write it, or tell the hub that a write failed, or it or its answer is   *)
(* in a pipe, or the process is gone and its watcher will tell the hub.    *)
(* Nothing else makes the hub send it again (flush skips it).              *)
About(m, lines) == \E i \in DOMAIN lines : lines[i].mail = m

InFlightIsOwed ==
  \A m \in inFlight :
    \/ About(m, inp)
    \/ \E g \in Gens : About(m, out[g])
    \/ \E t \in Threads : About(m, job[t].lines) \/ job[t].pc = "failed"
    \/ proc # "alive" /\ watch[gen] # "off"

(* A prompt reached a run, a note the queue its receiver's wake reads.     *)
Arrived(m) == m \in read \/ (~ IsPrompt(m) /\ m \in queued)


(* FR-21 as the specification states it: a prompt the engine accepted is   *)
(* delivered, a running session reads it at its next step.  It does not    *)
(* excuse a prompt that came after the run's last look at its queues.      *)
AcceptedIsRead ==
  \A m \in Mail :
    m \in accepted /\ IsPrompt(m)
      ~> m \in read \/ slips \ {"steered after the last look"} # {}

(* FR-23 as the specification states it: an exited engine whose mail       *)
(* waits is started again.  It does not excuse a host that was asked for   *)
(* before the window heard of the exit.                                    *)
ExitIsRepaired ==
  \A m \in Mail :
    mail[m] = "pending" ~> Arrived(m) \/ slips \ {"host before exit"} # {}

(* NFR-1: session mail is sent again after a restart and taken once.       *)
TakenOnce ==
  [][\A m \in accepted : queued' \ queued # {m} /\ begun' \in {begun, NoMail}]_vars
=============================================================================
