---------------------------- MODULE ProgressStore ----------------------------
(***************************************************************************)
(* The JSONL companion that keeps streamed-message progress across a crash *)
(* (JsonlProgressStore in crates/evo-harness): one checkpoint line followed*)
(* by one line per appended frame.  Appends extend the file; anything that *)
(* retires frames replaces it by a new checkpoint through a rename.  The   *)
(* process may die between any two bytes, a write, a truncate or a rename  *)
(* may fail, and another writer may leave half a line at the end.          *)
(*                                                                         *)
(* The file is its checkpoint, its complete lines and the state of its last*)
(* bytes: "" (a newline), "torn" (part of a line), "split" (part of a line *)
(* cut inside a character, so the file is no text) or "noEol" (a whole line*)
(* without its newline).  Length and digest are the content they are of.   *)
(* The staging file is not modelled: nothing reads it.  Every operation    *)
(* runs as a spawned task that owns the store's lock, so a caller that goes*)
(* away changes nothing and no two operations overlap.                     *)
(***************************************************************************)
EXTENDS ProgressState

CONSTANTS
    Request,    \* appends, reads and prunes the harness may ask for
    Wide,       \* frames whose text has a character of several bytes
    Foreign     \* what another writer may leave at the end of the file

ASSUME RequestAssumption ==
    \A request \in Request :
        \/ request.op \in {"read", "prune"}
        \/ request.op = "append" /\ request.batch \in Seq(Record)

ASSUME WideAssumption == Wide \subseteq Id

ASSUME ForeignAssumption == Foreign \subseteq {"torn", "split"}

VARIABLES
    disk,       \* the file: [head, lines, tail]
    progress,   \* State::progress, Unloaded before the first operation
    known,      \* what State::length and State::digest describe
    poisoned,   \* State::poisoned
    call,       \* the operation that owns the lock
    answer      \* what the last operation returned

vars == <<disk, progress, known, poisoned, call, answer>>

Unloaded == [sequence |-> "unloaded"]
Garbage == [op |-> "garbage"]
Idle == [at |-> "idle"]

File(state) == [head |-> state, lines |-> <<>>, tail |-> ""]

Loaded(file) == Apply(file.head, file.lines)

\* Every line of a file is read back: prepare and the sequence check pass.
Loads(file) ==
    /\ Validate(file.head)
    /\ \A i \in DOMAIN file.lines :
          LET before == Apply(file.head, SubSeq(file.lines, 1, i - 1)) IN
          /\ file.lines[i] # Garbage
          /\ file.lines[i].seq = before.sequence + 1
          /\ Acceptable(before, <<file.lines[i]>>)

\* Bytes after an unterminated line become part of it.
Joined(file) ==
    IF file.tail = "" THEN file
    ELSE [file EXCEPT !.lines = Append(IF file.tail = "noEol" THEN Front(@) ELSE @, Garbage),
                      !.tail = ""]

Init == /\ disk = File(Empty)
        /\ progress = Empty
        /\ known = File(Empty)
        /\ poisoned = FALSE
        /\ call = Idle
        /\ answer = "none"

Return(result) == /\ call' = Idle
                  /\ answer' = result

At(place) == call.at = place

GoTo(place) == /\ call' = [call EXCEPT !.at = place]
               /\ UNCHANGED answer

(****************************** One operation *****************************)

\* append, read or prune_completed takes the lock.
Ask(request) == /\ call = Idle
                /\ call' = [at |-> "load", request |-> request, base |-> Loaded(disk),
                            records |-> <<>>, landed |-> 0]
                /\ answer' = "none"
                /\ UNCHANGED <<disk, progress, known, poisoned>>

LoadPoisoned == /\ At("load")
                /\ poisoned
                /\ Return("error")
                /\ UNCHANGED <<disk, progress, known, poisoned>>

LoadCached == /\ At("load")
              /\ ~poisoned
              /\ progress # Unloaded
              /\ GoTo("ready")
              /\ UNCHANGED <<disk, progress, known, poisoned>>

Reading == /\ At("load")
           /\ ~poisoned
           /\ progress = Unloaded

LoadFile == /\ Reading
            /\ disk.tail = ""
            /\ IF Loads(disk)
               THEN /\ progress' = Loaded(disk)
                    /\ known' = disk
                    /\ GoTo("ready")
               ELSE /\ Return("error")
                    /\ UNCHANGED <<progress, known>>
            /\ UNCHANGED <<disk, poisoned>>

\* A torn tail is cut off before anything is appended after it.
RepairTornTail == /\ Reading
                  /\ disk.tail = "torn"
                  /\ disk' = [disk EXCEPT !.tail = ""]
                  /\ progress' = Loaded(disk')
                  /\ known' = disk'
                  /\ GoTo("ready")
                  /\ UNCHANGED poisoned

\* The file is read as text, and a cut character makes it none: the tail is
\* never looked at.
LoadNoText == /\ Reading
              /\ disk.tail = "split"
              /\ Return("error")
              /\ UNCHANGED <<disk, progress, known, poisoned>>

\* Any file operation of the load may fail before it changes the file.
LoadFails == /\ Reading
             /\ Return("error")
             /\ UNCHANGED <<disk, progress, known, poisoned>>

\* A whole line without its newline is kept, in a new checkpoint.
Normalize == /\ Reading
             /\ disk.tail = "noEol"
             /\ disk' = File(Loaded(disk))
             /\ known' = disk'
             /\ progress' = Loaded(disk)
             /\ GoTo("ready")
             /\ UNCHANGED poisoned

NormalizeUncertain == /\ Reading
                      /\ disk.tail = "noEol"
                      /\ disk' \in {disk, File(Loaded(disk))}
                      /\ poisoned' = TRUE
                      /\ Return("error")
                      /\ UNCHANGED <<progress, known>>

Completed(request) == {f \in progress.frames : f.run \in request.runs}

Retiring(batch) == \E i \in DOMAIN batch : batch[i].op # "append"

\* A read, a prune with nothing to reclaim or an empty batch is answered at once.
AnswerLoaded == /\ At("ready")
                /\ \/ call.request.op = "read"
                   \/ call.request.op = "prune" /\ Completed(call.request) = {}
                   \/ call.request.op = "append" /\ call.request.batch = <<>>
                /\ Return("ok")
                /\ UNCHANGED <<disk, progress, known, poisoned>>

RefuseBatch == /\ At("ready")
               /\ call.request.op = "append"
               /\ ~Acceptable(progress, call.request.batch)
               /\ Return("error")
               /\ UNCHANGED <<disk, progress, known, poisoned>>

Prepared == Stamp(progress, call.request.batch)

\* The checkpoint an operation publishes.
Candidate == IF call.request.op = "prune" THEN ProjectCompleted(progress, call.request.runs)
             ELSE Project(progress, Prepared)

Publishing == /\ At("ready")
              /\ \/ call.request.op = "prune" /\ Completed(call.request) # {}
                 \/ /\ call.request.op = "append"
                    /\ Acceptable(progress, call.request.batch)
                    /\ Retiring(call.request.batch)

Publish == /\ Publishing
           /\ disk' = File(Candidate)
           /\ known' = disk'
           /\ progress' = Candidate
           /\ Return("ok")
           /\ UNCHANGED poisoned

Appending == /\ At("ready")
             /\ call.request.op = "append"
             /\ call.request.batch # <<>>
             /\ Acceptable(progress, call.request.batch)
             /\ ~Retiring(call.request.batch)

\* Staging a checkpoint, or measuring or opening the file, fails.
StageFails == /\ Publishing \/ Appending
              /\ Return("error")
              /\ UNCHANGED <<disk, progress, known, poisoned>>

\* Fault: a failed rename is taken for one that did not happen.
RenameFails == /\ Publishing
               /\ disk' \in {disk, File(Candidate)}
               /\ Return("error")
               /\ UNCHANGED <<progress, known, poisoned>>

\* The rename may have happened before its error was reported.
RenameUncertain == /\ Publishing
                   /\ disk' \in {disk, File(Candidate)}
                   /\ poisoned' = TRUE
                   /\ Return("error")
                   /\ UNCHANGED <<progress, known>>

LengthChanged == /\ Appending
                 /\ disk # known
                 /\ poisoned' = TRUE
                 /\ Return("error")
                 /\ UNCHANGED <<disk, progress, known>>

\* Fault: the file is extended wherever it ends.
OpenBlindly == /\ Appending
               /\ call' = [call EXCEPT !.at = "write", !.records = Prepared]
               /\ UNCHANGED <<disk, progress, known, poisoned, answer>>

OpenAppend == /\ Appending
              /\ disk = known
              /\ call' = [call EXCEPT !.at = "write", !.records = Prepared]
              /\ UNCHANGED <<disk, progress, known, poisoned, answer>>

\* A third of a line at a time: part of it, which may end inside a character,
\* all but its newline, all of it.
WriteBytes ==
    /\ At("write")
    /\ call.landed < 3 * Len(call.records)
    /\ \/ /\ call.landed % 3 = 0
          /\ \E tail \in {"torn", "split"} :
                /\ tail = "split" => call.records[1 + call.landed \div 3].id \in Wide
                /\ disk' = [Joined(disk) EXCEPT !.tail = tail]
       \/ /\ call.landed % 3 = 1
          /\ disk' = [disk EXCEPT !.lines = Append(@, call.records[1 + call.landed \div 3]),
                                  !.tail = "noEol"]
       \/ /\ call.landed % 3 = 2
          /\ disk' = [disk EXCEPT !.tail = ""]
    /\ call' = [call EXCEPT !.landed = @ + 1]
    /\ UNCHANGED <<progress, known, poisoned, answer>>

WriteDone == /\ At("write")
             /\ call.landed = 3 * Len(call.records)
             /\ known' = [known EXCEPT !.lines = @ \o call.records]
             /\ progress' = Apply(progress, call.records)
             /\ Return("ok")
             /\ UNCHANGED <<disk, poisoned>>

WriteFails == /\ At("write")
              /\ GoTo("rollback")
              /\ UNCHANGED <<disk, progress, known, poisoned>>

\* What follows the known content must be a beginning of what was written.
OnlyOurs == /\ disk.head = known.head
            /\ IsPrefix(known.lines, disk.lines)
            /\ IsPrefix(disk.lines, known.lines \o call.records)

RollBack == /\ At("rollback")
            /\ OnlyOurs
            /\ disk' = known
            /\ Return("error")
            /\ UNCHANGED <<progress, known, poisoned>>

\* Reading back or truncating failed too.
RollBackFails == /\ At("rollback")
                 /\ poisoned' = TRUE
                 /\ Return("error")
                 /\ UNCHANGED <<disk, progress, known>>

(******************************* Environment ******************************)

\* The process dies, or a poisoned session is reopened.
Reopen == /\ progress' = Unloaded
          /\ known' = File(Empty)
          /\ poisoned' = FALSE
          /\ call' = Idle
          /\ answer' = "none"
          /\ UNCHANGED disk

\* A writer that does not hold the lock leaves part of a line behind.
ForeignBytes == /\ call = Idle
                /\ disk.tail = ""
                /\ \E tail \in Foreign : disk' = [disk EXCEPT !.tail = tail]
                /\ UNCHANGED <<progress, known, poisoned, call, answer>>

Load == LoadPoisoned \/ LoadCached \/ LoadFile \/ RepairTornTail \/ LoadNoText \/ LoadFails
        \/ Normalize \/ NormalizeUncertain

Finish == AnswerLoaded \/ RefuseBatch \/ Publish \/ StageFails \/ RenameUncertain
          \/ LengthChanged \/ OpenAppend \/ WriteBytes \/ WriteDone \/ WriteFails
          \/ RollBack \/ RollBackFails

Next == \/ \E request \in Request : Ask(request)
        \/ Load \/ Finish \/ Reopen \/ ForeignBytes

Spec == Init /\ [][Next]_vars

(******************************* Properties *******************************)

(* Whatever died, failed or was left behind, every line but the last loads:
   none is corrupt, misnumbered or a second frame of one id, so that what a
   load may have to repair is only the end of the file.  A companion that does
   not load makes its session unusable (load_with_budget refuses it and every
   operation with it). *)
LinesLoad == Loads(disk)

(* A tail that a crash left in the store's own write never keeps the companion
   from being read: "initial loading may repair a torn tail" (progress.rs).
   The code reads the whole file as text first, and fails for good where the
   tail ends inside a character. *)
ProgressTailIsRepaired == Reading => disk.tail # "split"

(* Between two operations the cached projection is the one the file holds,
   unless the store poisoned itself: no failed write, failed rename or repair
   leaves memory ahead of or behind the disk. *)
MemoryIsDisk == call = Idle /\ progress # Unloaded /\ ~poisoned => progress = Loaded(disk)

Promise == INSTANCE ProgressPromise WITH
    stored <- Loaded(disk),
    readable <- disk.tail # "split",
    asked <- IF call = Idle THEN [op |-> "none"]
             ELSE [op |-> "asked", base |-> call.base, request |-> call.request],
    open <- ~poisoned

(* An acknowledged append, retirement or prune happened in full and stays in
   the file over every crash; a refused one left nothing, unless the store
   closed itself; a retirement is never half done; the reducer's loop keeps
   exactly the frames that were appended and not retired since; and the file
   stays readable unless a cut came inside a character, of a frame in hand or
   of what another writer left. *)
ImplementsPromise == Promise!Spec
==============================================================================
