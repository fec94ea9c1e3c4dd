--------------------------- MODULE ProgressPromise ---------------------------
(***************************************************************************)
(* What a store of streamed-message progress promises its callers, with no *)
(* file, no cache and no crash point in sight.  One call is answered at a  *)
(* time.  An acknowledged call happened in full; a refused one did not     *)
(* happen, unless the store closes itself, and then at most a beginning of *)
(* its frames is kept, and never half of a retirement.  What is stored can *)
(* be read, unless a frame with a character of several bytes was cut short *)
(* or somebody else damaged it; it is not lost then, but out of reach.     *)
(***************************************************************************)
EXTENDS Naturals, Sequences

CONSTANTS
    Request,        \* what may be asked: see Goal
    Wide,           \* identities of frames a cut may make unreadable
    Foreign,        \* what somebody else may leave: "split" is damage
    MaxSequence

VARIABLES
    stored,     \* what a reader would find
    readable,   \* and that it can be read at all
    asked,      \* the request in hand with what was stored before, or None
    open,       \* the store still takes requests
    answer      \* to the last request: "none", "ok", "error"

vars == <<stored, readable, asked, open, answer>>

None == [op |-> "none"]

Stamped(base, batch, i) == [batch[i] EXCEPT !.seq = base.sequence + i]

Retires(r, f) == /\ r.op # "append"
                 /\ r.run = f.run
                 /\ r.op = "clearStream" => r.stream = f.stream

\* The first n records of a batch on top of base: a frame is live when it was
\* appended and nothing after it retired it.
After(base, batch, n) ==
    LET landed == {Stamped(base, batch, i) : i \in 1..n}
        ever == base.frames \cup {r \in landed : r.op = "append"}
    IN [sequence |-> base.sequence + n,
        frames |-> {f \in ever : ~ \E r \in landed : r.seq > f.seq /\ Retires(r, f)}]

Wellformed(base, batch) ==
    LET ids == {batch[i].id : i \in DOMAIN batch} IN
    /\ \A i, j \in DOMAIN batch : i < j => batch[i].id # batch[j].id
    /\ \A f \in base.frames : f.id \notin ids
    /\ \A i \in DOMAIN batch : batch[i].op # "commitStream"
    /\ base.sequence + Len(batch) <= MaxSequence

\* What a granted request leaves behind.
Goal(base, request) ==
    CASE request.op = "append" -> After(base, request.batch, Len(request.batch))
      [] request.op = "prune" -> [base EXCEPT !.frames = {f \in @ : f.run \notin request.runs}]
      [] OTHER -> base

\* What the store may hold while a request is in hand or was cut short.
Between(base, request) ==
    IF request.op = "append" /\ \A i \in DOMAIN request.batch : request.batch[i].op = "append"
    THEN {After(base, request.batch, n) : n \in 0..Len(request.batch)}
    ELSE {base, Goal(base, request)}

Granted(base, request) == request.op = "append" => Wellformed(base, request.batch)

Init == /\ stored = [sequence |-> 0, frames |-> {}]
        /\ readable = TRUE
        /\ asked = None
        /\ open = TRUE
        /\ answer = "none"

Ask(request) == /\ asked = None
                /\ asked' = [op |-> "asked", base |-> stored, request |-> request]
                /\ answer' = "none"
                /\ UNCHANGED <<stored, readable, open>>

\* Whatever is written again can be read again.
Mend == readable' \in {readable, TRUE}

Change == /\ asked # None
          /\ open
          /\ Granted(asked.base, asked.request)
          /\ stored' \in Between(asked.base, asked.request)
          /\ Mend
          /\ UNCHANGED <<asked, open, answer>>

\* A frame of the request in hand is on its way, cut inside a character.
Tear == /\ asked # None
        /\ open
        /\ asked.request.op = "append"
        /\ \E i \in DOMAIN asked.request.batch : asked.request.batch[i].id \in Wide
        /\ readable' = FALSE
        /\ UNCHANGED <<stored, asked, open, answer>>

\* The last change and its acknowledgement may be one step.
Ok == /\ asked # None
      /\ open
      /\ Granted(asked.base, asked.request)
      /\ stored' = Goal(asked.base, asked.request)
      /\ Mend
      /\ stored' # asked.base => readable'
      /\ asked' = None
      /\ answer' = "ok"
      /\ UNCHANGED open

Refuse == /\ asked # None
          /\ stored' = asked.base
          /\ Mend
          /\ asked' = None
          /\ answer' = "error"
          /\ UNCHANGED open

\* The outcome is uncertain: nothing more is taken until a restart.
Close == /\ asked # None
         /\ \/ stored' = stored
            \/ stored' \in Between(asked.base, asked.request)
         /\ Mend
         /\ asked' = None
         /\ open' = FALSE
         /\ answer' = "error"

Restart == /\ asked' = None
           /\ open' = TRUE
           /\ answer' = "none"
           /\ UNCHANGED <<stored, readable>>

Damage == /\ asked = None
          /\ "split" \in Foreign
          /\ readable' = FALSE
          /\ UNCHANGED <<stored, asked, open, answer>>

Next == \/ \E request \in Request : Ask(request)
        \/ Change \/ Tear \/ Ok \/ Refuse \/ Close \/ Restart \/ Damage

Spec == Init /\ [][Next]_vars
==============================================================================
