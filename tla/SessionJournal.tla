--------------------------- MODULE SessionJournal ---------------------------
(***************************************************************************)
(* A session's JSONL history (JsonlSessionStorage in crates/evo-harness):  *)
(* one line per mutation, appended through a handle that mirrors the file  *)
(* in memory.  A request is encoded against the mirror, written as one     *)
(* batch of lines and only then applied to the mirror.  A write may stop   *)
(* after any byte: the handle cuts the batch back, or refuses every later  *)
(* request until the file is opened again, and opening repairs a torn or   *)
(* unterminated last line.  A crash ends every handle between any two      *)
(* steps.                                                                  *)
(*                                                                         *)
(* Every mutating operation runs as a detached task that owns the handle's *)
(* lock, so operations of one handle never overlap and a caller that goes  *)
(* away changes nothing.                                                   *)
(*                                                                         *)
(* The file is its lines after the header, without their line ends, and    *)
(* the bytes after the last line end.  A line is the bytes the code can    *)
(* tell apart: the opening bytes every line shares, the first byte of a    *)
(* multi-byte character if it has one, and the rest, which names the       *)
(* mutation and its sequence.                                              *)
(***************************************************************************)
EXTENDS Integers, SequencesExt

CONSTANTS
    Handle,     \* storages opened on the path
    Primary,    \* the one the session starts with
    Request,    \* mutating calls of the harness
    LinesOf,    \* the mutations a call writes, in order
    Wide,       \* those whose line has a multi-byte character
    MayOverlap, \* requests and openings of the session may overlap
    MaxFaults   \* failed writes, truncations and repairs, and crashes

RequestLines == UNION {ToSet(LinesOf[r]) : r \in Request}

ASSUME RequestAssumption ==
    /\ Primary \in Handle
    /\ LinesOf \in [Request -> Seq(RequestLines)]
    /\ \A r \in Request :
          /\ LinesOf[r] # <<>> /\ IsInjective(LinesOf[r])
          /\ \A s \in Request \ {r} : ToSet(LinesOf[r]) \cap ToSet(LinesOf[s]) = {}

VARIABLES
    file,       \* [lines, rest] on disk
    current,    \* the handle the harness writes through
    phase,      \* where each handle's operation stands
    mirror,     \* the mutations each handle's SessionState has reduced
    uncertain,  \* the flag of the same name, per handle
    todo,       \* the repair a load found necessary
    call,       \* the request a handle is writing, with its lines
    answer,     \* what the caller of each request was told
    acked,      \* requests in the order they were acknowledged
    faults

handles == <<current, phase, mirror, uncertain, todo>>
calls == <<call, answer, acked>>
vars == <<file, handles, calls, faults>>

NoCall == [request |-> "none", batch |-> <<>>]

(******************************** The bytes *******************************)

Open == [part |-> "open"]
Part(name, mutation) == [part |-> name, of |-> mutation]

Encoded(mutation) ==
    IF mutation.line \in Wide
    THEN <<Open, Part("char", mutation), Part("rest", mutation)>>
    ELSE <<Open, Part("rest", mutation)>>

EncodedLines(log) == [k \in DOMAIN log |-> Encoded(log[k])]

Beginnings(line) == {SubSeq(line, 1, k) : k \in 0..Len(line)}

\* An append goes on with what follows the last line end.
Extended(text, batch) ==
    IF batch = <<>> THEN text
    ELSE [lines |-> Append(text.lines, text.rest \o batch[1]) \o Tail(batch), rest |-> <<>>]

\* What an append may leave when it stops: all of the batch, or some of its
\* lines and the beginning of the next one, all but its line end at most.
Stopped(text, batch) ==
    {Extended(text, batch)} \cup
    UNION {LET whole == Extended(text, SubSeq(batch, 1, n)) IN
           {[whole EXCEPT !.rest = @ \o bytes] : bytes \in Beginnings(batch[n + 1])} :
           n \in 0..Len(batch) - 1}

Lines(text) == IF text.rest = <<>> THEN text.lines ELSE Append(text.lines, text.rest)

Decoded(line) == Last(line).of

Parses(line) == /\ line # <<>>
                /\ Last(line).part = "rest"
                /\ line = Encoded(Decoded(line))

\* A multi-byte character without its second byte is not UTF-8.
BrokenText(line) ==
    \E i \in DOMAIN line :
        /\ line[i].part = "char"
        /\ (i < Len(line) => line[i + 1].part # "rest")

\* A last line that is not a mutation was torn, and is not read.
Torn(text) == Lines(text) # <<>> /\ ~Parses(Last(Lines(text)))

Mutations(text) ==
    LET lines == IF Torn(text) THEN Front(Lines(text)) ELSE Lines(text)
    IN  [k \in DOMAIN lines |-> Decoded(lines[k])]

\* Two attempts at a request differ in their timestamps, so a repeated sequence
\* is a conflict; the exact duplicate that load drops is written by no path of
\* this code.
Growing(log) ==
    \A i, j \in DOMAIN log : i < j => log[i].seq < log[j].seq /\ log[i].line # log[j].line

\* What load does not refuse: text that is UTF-8, a syntax error on the last
\* line only, growing sequences and identifiers used once.
Loads(text) ==
    /\ \A k \in DOMAIN Lines(text) : ~BrokenText(Lines(text)[k])
    /\ \A k \in 1..Len(Lines(text)) - 1 : Parses(Lines(text)[k])
    /\ Growing(Mutations(text))

NextSequence(log) == IF log = <<>> THEN 1 ELSE Last(log).seq + 1

Stamped(request, log) ==
    [k \in DOMAIN LinesOf[request] |->
        [line |-> LinesOf[request][k], seq |-> NextSequence(log) + k - 1]]

\* How many lines stand before a tail of the file that is a part of the batch:
\* whole lines of it from its first on, and the beginning of the next.
Tails(text, batch) ==
    {i \in 0..Len(text.lines) :
        LET n == Len(text.lines) - i IN
        /\ n <= Len(batch)
        /\ \A k \in 1..n : text.lines[i + k] = batch[k]
        /\ text.rest # <<>> => n < Len(batch) /\ text.rest \in Beginnings(batch[n + 1])}

\* Mutant: cut_back_failed_append prefers the shortest tail.
ShortestStart(text, batch) ==
    {i \in Tails(text, batch) : \A j \in Tails(text, batch) : j <= i}

\* Mutant: the cut takes as many lines as the batch has, landed or not.
WholeBatchStart(text, batch) ==
    {IF Len(batch) < Len(text.lines) THEN Len(text.lines) - Len(batch) ELSE 0}

\* Where a failed batch begins: the longest tail that may be its own.  At a line
\* end nothing of it need be there.
FailedStart(text, batch) ==
    {i \in Tails(text, batch) : \A j \in Tails(text, batch) : i <= j}

(****************************** One operation *****************************)

Init == /\ file = [lines |-> <<>>, rest |-> <<>>]
        /\ current = Primary
        /\ phase = [h \in Handle |-> IF h = Primary THEN "idle" ELSE "closed"]
        /\ mirror = [h \in Handle |-> <<>>]
        /\ uncertain = [h \in Handle |-> FALSE]
        /\ todo = [h \in Handle |-> "nothing"]
        /\ call = NoCall
        /\ answer = [r \in Request |-> "none"]
        /\ acked = <<>>
        /\ faults = 0

At(h, place) == phase[h] = place
GoTo(h, place) == phase' = [phase EXCEPT ![h] = place]

Fault == /\ faults < MaxFaults
         /\ faults' = faults + 1

\* Mutant: run_owned does not look at the flag.
SubmitUnsettled(h, r) ==
    /\ h = current /\ At(h, "idle")
    /\ answer[r] # "done"
    /\ \A m \in ToSet(mirror[h]) : m.line \notin ToSet(LinesOf[r])
    /\ call' = [request |-> r, batch |-> EncodedLines(Stamped(r, mirror[h]))]
    /\ answer' = [answer EXCEPT ![r] = "pending"]
    /\ MayOverlap \/ \A g \in Handle \ {h} : At(g, "closed")
    /\ GoTo(h, "writing")
    /\ UNCHANGED <<file, current, mirror, uncertain, todo, acked, faults>>

\* Identifiers in use are refused, and so is every request of a handle whose
\* last append is unsettled: neither refusal changes anything.
Submit(h, r) ==
    /\ h = current /\ At(h, "idle")
    /\ ~uncertain[h]
    /\ answer[r] # "done"
    /\ \A m \in ToSet(mirror[h]) : m.line \notin ToSet(LinesOf[r])
    /\ call' = [request |-> r, batch |-> EncodedLines(Stamped(r, mirror[h]))]
    /\ answer' = [answer EXCEPT ![r] = "pending"]
    /\ MayOverlap \/ \A g \in Handle \ {h} : At(g, "closed")
    /\ GoTo(h, "writing")
    /\ UNCHANGED <<file, current, mirror, uncertain, todo, acked, faults>>

Land(h) ==
    /\ h = current /\ At(h, "writing")
    /\ file' = Extended(file, call.batch)
    /\ GoTo(h, "applying")
    /\ UNCHANGED <<current, mirror, uncertain, todo, calls, faults>>

Apply(h) ==
    /\ h = current /\ At(h, "applying")
    /\ mirror' = [mirror EXCEPT ![h] = @ \o Stamped(call.request, @)]
    /\ answer' = [answer EXCEPT ![call.request] = "done"]
    /\ acked' = Append(acked, call.request)
    /\ call' = NoCall
    /\ GoTo(h, "idle")
    /\ UNCHANGED <<file, current, uncertain, todo, faults>>

\* The write reports an error after any number of its bytes, or all of them.
Tear(h) ==
    /\ h = current /\ At(h, "writing")
    /\ Fault
    /\ file' \in Stopped(file, call.batch)
    /\ GoTo(h, "cutting")
    /\ UNCHANGED <<current, mirror, uncertain, todo, calls>>

Refused(h, told) ==
    /\ answer' = [answer EXCEPT ![call.request] = told]
    /\ call' = NoCall
    /\ GoTo(h, "idle")
    /\ UNCHANGED <<current, mirror, todo, acked>>

CutBack(h) ==
    /\ h = current /\ At(h, "cutting")
    /\ \E start \in FailedStart(file, call.batch) :
          file' = [lines |-> SubSeq(file.lines, 1, start), rest |-> <<>>]
    /\ Refused(h, "failed")
    /\ UNCHANGED <<uncertain, faults>>

\* The tail is not provably the batch's, or reading or truncating it fails.
\* The caller gets the error of the write all the same.
GiveUp(h) ==
    /\ h = current /\ At(h, "cutting")
    /\ FailedStart(file, call.batch) # {} => faults < MaxFaults
    /\ faults' = faults + (IF FailedStart(file, call.batch) = {} THEN 0 ELSE 1)
    /\ uncertain' = [uncertain EXCEPT ![h] = TRUE]
    /\ Refused(h, "unsure")
    /\ UNCHANGED <<file>>

(************************** Opening and switching *************************)

Closed(h) == /\ mirror' = [mirror EXCEPT ![h] = <<>>]
             /\ uncertain' = [uncertain EXCEPT ![h] = FALSE]
             /\ todo' = [todo EXCEPT ![h] = "nothing"]

\* The process ends, or gives the session up, with no operation under way.
Close(h) ==
    /\ h = current /\ At(h, "idle")
    /\ \A g \in Handle \ {h} : At(g, "closed")
    /\ GoTo(h, "closed")
    /\ Closed(h)
    /\ UNCHANGED <<file, current, calls, faults>>

\* A start opens the session, and so does switch_session while the current
\* handle is in use: a path this process has claimed is claimed again freely.
Load(h) ==
    /\ At(h, "closed")
    /\ h = current \/ ~At(current, "closed")
    /\ Loads(file)
    /\ mirror' = [mirror EXCEPT ![h] = Mutations(file)]
    /\ todo' = [todo EXCEPT ![h] =
          IF Torn(file) THEN "publish"
          ELSE IF file.rest # <<>> THEN "terminate" ELSE "nothing"]
    /\ MayOverlap \/ /\ phase[current] \in {"closed", "idle"}
                     /\ \A g \in Handle \ {h, current} : At(g, "closed")
    /\ GoTo(h, "loading")
    /\ UNCHANGED <<file, current, uncertain, calls, faults>>

Loaded(h) == GoTo(h, IF h = current THEN "idle" ELSE "opened")

\* A torn last line is dropped: the lines that were read replace the file.
Publish(h) ==
    /\ At(h, "loading") /\ todo[h] = "publish"
    /\ file' = [lines |-> EncodedLines(mirror[h]), rest |-> <<>>]
    /\ todo' = [todo EXCEPT ![h] = "nothing"]
    /\ Loaded(h)
    /\ UNCHANGED <<current, mirror, uncertain, calls, faults>>

\* Mutant: load keeps a whole last line and does not end it.
TerminateInMemory(h) ==
    /\ At(h, "loading") /\ todo[h] = "terminate"
    /\ todo' = [todo EXCEPT ![h] = "nothing"]
    /\ Loaded(h)
    /\ UNCHANGED <<file, current, mirror, uncertain, calls, faults>>

\* A whole last line without its end is kept.
Terminate(h) ==
    /\ At(h, "loading") /\ todo[h] = "terminate"
    /\ file' = [lines |-> Append(file.lines, file.rest), rest |-> <<>>]
    /\ todo' = [todo EXCEPT ![h] = "nothing"]
    /\ Loaded(h)
    /\ UNCHANGED <<current, mirror, uncertain, calls, faults>>

LeaveAsIs(h) ==
    /\ At(h, "loading") /\ todo[h] = "nothing"
    /\ Loaded(h)
    /\ UNCHANGED <<file, current, mirror, uncertain, todo, calls, faults>>

RepairFails(h) ==
    /\ At(h, "loading") /\ todo[h] # "nothing"
    /\ Fault
    /\ GoTo(h, "closed")
    /\ Closed(h)
    /\ UNCHANGED <<file, current, calls>>

\* set_session refuses the new storage while a run is active.
Drop(h) ==
    /\ At(h, "opened")
    /\ GoTo(h, "closed")
    /\ Closed(h)
    /\ UNCHANGED <<file, current, calls, faults>>

\* set_session waits for the harness's writes and puts the new storage in
\* place of the old one, which nothing writes through any more.
Install(h) ==
    /\ At(h, "opened") /\ At(current, "idle")
    /\ phase' = [phase EXCEPT ![h] = "idle", ![current] = "closed"]
    /\ Closed(current)
    /\ current' = h
    /\ UNCHANGED <<file, calls, faults>>

Crash ==
    /\ Fault
    /\ file' \in (IF At(current, "writing") THEN Stopped(file, call.batch) ELSE {file})
    /\ answer' = [r \in Request |-> IF answer[r] = "pending" THEN "unsure" ELSE answer[r]]
    /\ call' = NoCall
    /\ phase' = [h \in Handle |-> "closed"]
    /\ mirror' = [h \in Handle |-> <<>>]
    /\ uncertain' = [h \in Handle |-> FALSE]
    /\ todo' = [h \in Handle |-> "nothing"]
    /\ UNCHANGED <<current, acked>>

Next ==
    \/ \E h \in Handle, r \in Request : Submit(h, r)
    \/ \E h \in Handle :
          \/ Land(h) \/ Apply(h) \/ Tear(h) \/ CutBack(h) \/ GiveUp(h)
          \/ Close(h) \/ Load(h) \/ Publish(h) \/ Terminate(h) \/ LeaveAsIs(h)
          \/ RepairFails(h) \/ Drop(h) \/ Install(h)
    \/ Crash

Spec == Init /\ [][Next]_vars

-----------------------------------------------------------------------------
(* Properties *)

\* Everything up to the last line end can be loaded, whatever was torn after
\* it and however often: no failed write, refused repair or crash leaves part
\* of a line in front of another line, a sequence twice or an identifier twice.
HistoryIsSound == Loads([file EXCEPT !.rest = <<>>])

Places(line) ==
    {k \in DOMAIN Lines(file) : /\ Parses(Lines(file)[k])
                                /\ Decoded(Lines(file)[k]).line = line}

\* The answers of append_record, append_entry and the batches are true: the
\* lines of the acknowledged requests are in the file once, whole and in the
\* order of the answers, and a request whose failed append was cut back has
\* left no line that a later load would bring to life.
AnswersAreTrue ==
    /\ \A r \in ToSet(acked) : \A line \in ToSet(LinesOf[r]) :
          \E k \in DOMAIN Lines(file) : Places(line) = {k}
    /\ \A i, j \in DOMAIN acked :
          \A a \in DOMAIN LinesOf[acked[i]], b \in DOMAIN LinesOf[acked[j]] :
             i < j \/ (i = j /\ a < b) =>
                \A p \in Places(LinesOf[acked[i]][a]), q \in Places(LinesOf[acked[j]][b]) : p < q
    /\ \A r \in Request : answer[r] = "failed" =>
          \A line \in ToSet(LinesOf[r]) : Places(line) = {}

\* Whatever a load would read now, every later load reads too, and in the same
\* place: of writes, repairs, crashes and switches none takes back a line.  Only
\* a failed append is cut back, and no further than to what its handle mirrors.
HistoryOnlyGrows ==
    [][IsPrefix(IF At(current, "cutting") THEN mirror[current] ELSE Mutations(file),
                Mutations(file)')]_vars

\* A handle that accepts requests mirrors the file exactly, to the last line
\* end: what it validates identifiers and stamps sequences against is what the
\* next load will read.
MirrorIsFile ==
    At(current, "idle") /\ ~uncertain[current] =>
        file = [lines |-> EncodedLines(mirror[current]), rest |-> <<>>]

\* The comment on load (storage.rs:280) and the module's text: an
\* unacknowledged partial append is repaired when the session is opened, so a
\* session that nothing has open can be opened.
TornTailIsRepaired ==
    At(current, "closed") => Loads(file)
=============================================================================
