---------------------------- MODULE ProgressState ----------------------------
(***************************************************************************)
(* The reducer of streamed-message progress (crates/evo-durable): the      *)
(* frames of the messages a model is still streaming, numbered in one      *)
(* sequence, retired a stream or a run at a time.                          *)
(*                                                                         *)
(* A record is [id, run, stream, op, seq]: run stands for the (lane,       *)
(* run_id) pair, which the code always compares together; payloads and     *)
(* timestamps are dropped, and an empty identity or a payload that does not*)
(* fit the operation is the operation "commitStream", refused like it.     *)
(* The vector of frames is the set of its records: their sequence numbers  *)
(* give the order.                                                         *)
(***************************************************************************)
EXTENDS Naturals, SequencesExt

CONSTANTS
    MaxSequence,    \* u64::MAX, scaled down
    Id,             \* frame identities
    Run,            \* (lane, run_id) pairs
    Stream          \* stream identities within a run

ASSUME MaxSequenceAssumption == MaxSequence \in Nat

Record == [id : Id, run : Run, stream : Stream,
           op : {"append", "clearStream", "clearRun", "commitStream"}, seq : Nat]

State == [sequence : Nat, frames : SUBSET Record]

Empty == [sequence |-> 0, frames |-> {}]

Ids(state) == {f.id : f \in state.frames}

Clears(record, frame) == /\ frame.run = record.run
                         /\ \/ record.op = "clearRun"
                            \/ record.op = "clearStream" /\ frame.stream = record.stream

\* What prepare checks of a whole batch before it stamps any of it.
Acceptable(state, batch) ==
    /\ \A i \in DOMAIN batch : batch[i].op # "commitStream" /\ batch[i].id \notin Ids(state)
    /\ \A i, j \in DOMAIN batch : batch[i].id = batch[j].id => i = j
    /\ state.sequence + Len(batch) <= MaxSequence

\* What prepare returns.
Stamp(state, batch) ==
    [i \in DOMAIN batch |-> [batch[i] EXCEPT !.seq = state.sequence + i]]

ApplyRecord(state, record) ==
    [sequence |-> record.seq,
     frames |-> IF record.op = "append" THEN state.frames \cup {record}
                ELSE {f \in state.frames : ~Clears(record, f)}]

\* The state before the first record and after each of them.
Through(state, records) ==
    LET after[i \in 0..Len(records)] ==
            IF i = 0 THEN state ELSE ApplyRecord(after[i - 1], records[i])
    IN after

Apply(state, records) == Through(state, records)[Len(records)]

\* Fault: the candidate drops what the batch clears after applying it.
ProjectLate(state, records) ==
    LET all == Apply(state, records) IN
    [all EXCEPT !.frames = {f \in @ : \A i \in DOMAIN records : ~Clears(records[i], f)}]

\* The candidate of a checkpoint: frames the batch retires are never copied.
Project(state, records) ==
    Apply([state EXCEPT !.frames = {f \in @ : \A i \in DOMAIN records : ~Clears(records[i], f)}],
          records)

\* The candidate that drops what a finished run left; completed is a set of runs.
ProjectCompleted(state, completed) ==
    [state EXCEPT !.frames = {f \in @ : f.run \notin completed}]

\* What a checkpoint must satisfy to be read back.
Validate(state) ==
    /\ \A f \in state.frames : f.op = "append" /\ f.seq \in 1..state.sequence
    /\ \A f, g \in state.frames : f.seq = g.seq \/ f.id = g.id => f = g
==============================================================================
