------------------------- MODULE ProgressStoreProofs -------------------------
(***************************************************************************)
(* The promises of ProgressStore for any identities, any bound of the      *)
(* sequence and batches of any length.                                     *)
(*                                                                         *)
(* Reduced states what the reducer's loop computes without the loop; that  *)
(* the loop computes it is the lemma ThroughIs, by its first index at      *)
(* which it would not.  Everything above the reducer is about Contents, the*)
(* same fact for a file, whose lines are all appends.                      *)
(***************************************************************************)
EXTENDS ProgressStore, SequenceTheorems, WellFoundedInduction, TLAPS

(* Records numbered as prepare numbers them, on top of s.                  *)
Numbered(s, q) == /\ q \in Seq(Record)
                  /\ \A i \in DOMAIN q : q[i].seq = s.sequence + i

Bounded(s) == s \in State /\ \A f \in s.frames : f.seq <= s.sequence

(* The first i records of q on top of s.                                   *)
Reduced(s, q, i) ==
  [sequence |-> s.sequence + i,
   frames |-> {f \in s.frames \cup {q[j] : j \in {k \in 1..i : q[k].op = "append"}} :
                 \A j \in 1..i : q[j].seq > f.seq => ~Clears(q[j], f)}]

(* A checkpoint and the appends that follow it: what they hold, and what   *)
(* makes them load: the checkpoint validates, the numbers go on from it and*)
(* stay below the last, and no identity comes twice.                       *)
Held(head, lines) ==
  [sequence |-> head.sequence + Len(lines),
   frames |-> head.frames \cup {lines[i] : i \in DOMAIN lines}]

Legible(head, lines) ==
  /\ head \in State /\ Validate(head)
  /\ Numbered(head, lines)
  /\ head.sequence + Len(lines) <= MaxSequence
  /\ \A i \in DOMAIN lines : lines[i].op = "append" /\ lines[i].id \notin Ids(head)
  /\ \A i, j \in DOMAIN lines : lines[i].id = lines[j].id => i = j

Contents(file) == Held(file.head, file.lines)

Sound(file) == /\ file \in [head : State, lines : Seq(Record),
                            tail : {"", "torn", "split", "noEol"}]
               /\ Legible(file.head, file.lines)

(* Memory describes a sound file of whole lines: what it knows.            *)
Cached == Sound(known) /\ known.tail = "" /\ progress = Contents(known)

(* That file is the one on disk, but for bytes left behind at its end.     *)
Aligned == disk.head = known.head /\ disk.lines = known.lines /\ disk.tail # "noEol"

(* How much of the batch in hand is on disk.                               *)
Partial(j) ==
  /\ disk.head = known.head
  /\ disk.lines = known.lines \o SubSeq(call.records, 1, j)
  /\ \/ disk.tail = "" /\ call.landed = 3 * j
     \/ disk.tail \in {"torn", "split"} /\ call.landed = 3 * j + 1
     \/ disk.tail = "noEol" /\ j > 0 /\ call.landed = 3 * (j - 1) + 2

Writing == /\ call.request.op = "append"
           /\ Acceptable(progress, call.request.batch)
           /\ ~Retiring(call.request.batch)
           /\ call.records = Stamp(progress, call.request.batch)
           /\ call.base = Contents(known)
           /\ \E j \in 0..Len(call.records) : Partial(j)

Calls == [at : {"load", "ready", "write", "rollback"}, request : Request,
          base : State, records : Seq(Record), landed : Nat]

IInv ==
  /\ Sound(disk)
  /\ poisoned \in BOOLEAN
  /\ call = Idle \/ call \in Calls
  /\ ~poisoned => progress = Unloaded \/ Cached
  /\ call.at \in {"idle", "load"} => poisoned \/ progress = Unloaded \/ Aligned
  /\ call.at \in {"load", "ready"} => call.landed = 0 /\ call.base = Contents(disk)
  /\ call.at = "ready" => ~poisoned /\ Cached /\ Aligned
  /\ call.at \in {"write", "rollback"} => ~poisoned /\ Cached /\ Writing

-----------------------------------------------------------------------------

(* What a frame of Reduced is.                                             *)
LEMMA FrameIs ==
  ASSUME NEW s, NEW q, NEW i, NEW f
  PROVE  f \in Reduced(s, q, i).frames <=>
           /\ f \in s.frames \/ \E j \in 1..i : q[j].op = "append" /\ f = q[j]
           /\ \A j \in 1..i : q[j].seq > f.seq => ~Clears(q[j], f)
  BY DEF Reduced

(* Records and their numbers.                                              *)
LEMMA NumberIs ==
  ASSUME NEW s, Bounded(s), NEW q, Numbered(s, q)
  PROVE  /\ s.sequence \in Nat /\ Len(q) \in Nat /\ DOMAIN q = 1..Len(q)
         /\ \A j \in 1..Len(q) : q[j] \in Record /\ q[j].seq = s.sequence + j
         /\ \A f \in s.frames : f \in Record /\ f.seq \in Nat /\ f.seq <= s.sequence
<1>1. q \in Seq(Record) /\ \A j \in DOMAIN q : q[j].seq = s.sequence + j
  BY DEF Numbered
<1>2. Len(q) \in Nat /\ DOMAIN q = 1..Len(q) /\ \A j \in 1..Len(q) : q[j] \in Record
  BY <1>1, LenProperties, ElementOfSeq
<1>3. s.sequence \in Nat /\ s.frames \subseteq Record /\ \A f \in s.frames : f.seq <= s.sequence
  BY DEF Bounded, State
<1>4. \A f \in Record : f.seq \in Nat
  BY DEF Record
<1> QED
  BY <1>1, <1>2, <1>3, <1>4

(* One record more: it clears what came before it, or joins it.            *)
LEMMA StepIs ==
  ASSUME NEW s, Bounded(s), NEW q, Numbered(s, q), NEW i \in 1..Len(q)
  PROVE  ApplyRecord(Reduced(s, q, i - 1), q[i]) = Reduced(s, q, i)
<1> DEFINE A == Reduced(s, q, i - 1)
           B == Reduced(s, q, i)
<1>1. /\ s.sequence \in Nat /\ Len(q) \in Nat
      /\ \A j \in 1..Len(q) : q[j] \in Record /\ q[j].seq = s.sequence + j
      /\ \A f \in s.frames : f \in Record /\ f.seq \in Nat /\ f.seq <= s.sequence
  BY NumberIs
<1>2. 1..i = 1..(i - 1) \cup {i} /\ i \notin 1..(i - 1) /\ 1..i \subseteq 1..Len(q)
  BY <1>1
<1>3. \A f : f \in A.frames <=>
         /\ f \in s.frames \/ \E j \in 1..(i - 1) : q[j].op = "append" /\ f = q[j]
         /\ \A j \in 1..(i - 1) : q[j].seq > f.seq => ~Clears(q[j], f)
  BY FrameIs
<1>4. \A f : f \in B.frames <=>
         /\ f \in s.frames \/ \E j \in 1..i : q[j].op = "append" /\ f = q[j]
         /\ \A j \in 1..i : q[j].seq > f.seq => ~Clears(q[j], f)
  BY FrameIs
<1>5. B.sequence = q[i].seq /\ B = [sequence |-> B.sequence, frames |-> B.frames]
  BY <1>1 DEF Reduced
<1>6. \A f : f \in s.frames \/ (\E j \in 1..(i - 1) : f = q[j]) => q[i].seq > f.seq
  <2>1. \A j \in 1..(i - 1) : j \in 1..Len(q) /\ j < i
    BY <1>1
  <2>2. \A j \in 1..(i - 1) : q[i].seq > q[j].seq
    BY <1>1, <2>1
  <2>3. \A f \in s.frames : q[i].seq > f.seq
    BY <1>1
  <2> QED
    BY <2>2, <2>3
<1> HIDE DEF A, B
<1>7. CASE q[i].op = "append"
  <2>1. \A f : ~Clears(q[i], f)
    BY <1>7 DEF Clears
  <2>2. \A j \in 1..i : ~(q[j].seq > q[i].seq)
    BY <1>1, <1>2
  <2>3. B.frames = A.frames \cup {q[i]}
    <3>1. \A f \in B.frames : f \in A.frames \cup {q[i]}
      BY <1>2, <1>3, <1>4
    <3>2. \A f \in A.frames : f \in B.frames
      BY <1>2, <1>3, <1>4, <2>1
    <3>3. q[i] \in B.frames
      BY <1>2, <1>4, <1>7, <2>2
    <3> QED
      BY <3>1, <3>2, <3>3
  <2> QED
    BY <1>5, <1>7, <2>3 DEF ApplyRecord, A, B
<1>8. CASE q[i].op # "append"
  <2>1. B.frames = {f \in A.frames : ~Clears(q[i], f)}
    <3>1. ASSUME NEW f \in B.frames PROVE f \in A.frames /\ ~Clears(q[i], f)
      <4>1. f \in s.frames \/ \E j \in 1..(i - 1) : q[j].op = "append" /\ f = q[j]
        BY <1>2, <1>4, <1>8
      <4> QED
        BY <1>2, <1>3, <1>4, <1>6, <4>1
    <3>2. ASSUME NEW f \in A.frames, ~Clears(q[i], f) PROVE f \in B.frames
      BY <1>2, <1>3, <1>4, <3>2
    <3> QED
      BY <3>1, <3>2
  <2> QED
    BY <1>5, <1>8, <2>1 DEF ApplyRecord, A, B
<1> QED
  BY <1>7, <1>8

LEMMA ReducedNone == ASSUME NEW s, Bounded(s), NEW q PROVE Reduced(s, q, 0) = s
<1>1. s \in State /\ s.sequence + 0 = s.sequence /\ 1..0 = {}
  BY DEF Bounded, State
<1>2. s = [sequence |-> s.sequence, frames |-> s.frames]
  BY <1>1 DEF State
<1>3. ASSUME NEW f PROVE f \in Reduced(s, q, 0).frames <=> f \in s.frames
  BY <1>1, FrameIs
<1>4. Reduced(s, q, 0).frames = s.frames
  BY <1>3 DEF Reduced
<1> QED
  BY <1>1, <1>2, <1>4 DEF Reduced

(* The reducer's loop, after each record.                                  *)
LEMMA ThroughIs ==
  ASSUME NEW s, Bounded(s), NEW q, Numbered(s, q)
  PROVE  \A i \in 0..Len(q) : Through(s, q)[i] = Reduced(s, q, i)
<1> DEFINE Loop(a) == [i \in 0..Len(q) |-> IF i = 0 THEN s ELSE ApplyRecord(a[i - 1], q[i])]
           R == [i \in 0..Len(q) |-> Reduced(s, q, i)]
           T == Through(s, q)
<1>1. Len(q) \in Nat
  BY NumberIs
<1>2. Reduced(s, q, 0) = s
  BY ReducedNone
<1>3. \A i \in 1..Len(q) : ApplyRecord(R[i - 1], q[i]) = R[i]
  <2>1. \A i \in 1..Len(q) : i - 1 \in 0..Len(q) /\ i \in 0..Len(q)
    BY <1>1
  <2> QED
    BY <2>1, StepIs
<1>4. R = Loop(R)
  <2>1. \A i \in 0..Len(q) : i = 0 \/ i \in 1..Len(q)
    BY <1>1
  <2> QED
    BY <1>1, <1>2, <1>3, <2>1
<1>5. T = Loop(T)
  <2>1. T = CHOOSE a : a = Loop(a)
    BY DEF Through
  <2> HIDE DEF Loop, R, T
  <2> QED
    BY <1>4, <2>1
<1> DEFINE Bad == {i \in 0..Len(q) : T[i] # R[i]}
<1>6. Bad = {}
  <2> SUFFICES ASSUME Bad # {} PROVE FALSE
    OBVIOUS
  <2>1. Bad \in SUBSET Nat
    BY <1>1
  <2>2. PICK i \in Bad : \A j \in Bad : <<j, i>> \notin OpToRel(<, Nat)
    <3> HIDE DEF Bad
    <3> QED
      BY <2>1, NatLessThanWellFounded, WFMin, Zenon
  <2>3. \A j \in Bad : ~(j < i)
    <3> HIDE DEF Bad
    <3> QED
      BY <2>1, <2>2, Zenon DEF OpToRel
  <2>4. i \in 0..Len(q) /\ T[i] # R[i]
    OBVIOUS
  <2>5. i # 0
    BY <1>2, <1>5, <2>4
  <2>6. i \in 1..Len(q) /\ i - 1 \in 0..Len(q) /\ i - 1 < i
    BY <1>1, <2>4, <2>5
  <2>7. T[i - 1] = R[i - 1]
    BY <2>3, <2>6
  <2>8. T[i] = ApplyRecord(T[i - 1], q[i])
    <3> HIDE DEF T
    <3>1. T[i] = Loop(T)[i]
      BY <1>5
    <3> QED
      BY <2>4, <2>5, <3>1
  <2> HIDE DEF T, R
  <2> QED
    BY <1>3, <2>4, <2>6, <2>7, <2>8
<1> QED
  <2>1. \A i \in 0..Len(q) : R[i] = Reduced(s, q, i)
    OBVIOUS
  <2> HIDE DEF R
  <2> QED
    BY <1>6, <2>1

(* What apply leaves.                                                      *)
LEMMA ApplyIs ==
  ASSUME NEW s, Bounded(s), NEW q, Numbered(s, q)
  PROVE  Apply(s, q) = Reduced(s, q, Len(q))
<1>1. Len(q) \in 0..Len(q)
  BY NumberIs
<1> QED
  BY <1>1, ThroughIs DEF Apply

-----------------------------------------------------------------------------

(* A checkpoint that can be published.                                     *)
Valid(s) == s \in State /\ Validate(s) /\ s.sequence <= MaxSequence

LEMMA ValidIs ==
  ASSUME NEW s \in State, Validate(s)
  PROVE  /\ Bounded(s) /\ s.sequence \in Nat
         /\ \A f \in s.frames : f \in Record /\ f.op = "append" /\ f.seq \in 1..s.sequence
         /\ \A f, g \in s.frames : f.seq = g.seq \/ f.id = g.id => f = g
<1>1. s.sequence \in Nat /\ s.frames \subseteq Record
  BY DEF State
<1>2. \A f \in s.frames : f.op = "append" /\ f.seq \in 1..s.sequence
  BY DEF Validate
<1>3. \A f, g \in s.frames : f.seq = g.seq \/ f.id = g.id => f = g
  BY DEF Validate
<1> QED
  BY <1>1, <1>2, <1>3 DEF Bounded

LEMMA PrefixIs ==
  ASSUME NEW S, NEW s \in Seq(S), NEW n \in 0..Len(s)
  PROVE  /\ SubSeq(s, 1, n) \in Seq(S) /\ Len(SubSeq(s, 1, n)) = n
         /\ DOMAIN SubSeq(s, 1, n) = 1..n
         /\ \A i \in 1..n : SubSeq(s, 1, n)[i] = s[i]
<1>1. Len(s) \in Nat /\ \A i \in 1..n : s[i] \in S
  BY LenProperties, ElementOfSeq
<1>2. /\ SubSeq(s, 1, n) \in Seq(S)
      /\ Len(SubSeq(s, 1, n)) = n
      /\ \A i \in 1..n : SubSeq(s, 1, n)[i] = s[i]
  BY <1>1, SubSeqProperties
<1> QED
  BY <1>2, LenProperties

(* Lines, one by one.                                                      *)
LEMMA LegibleIs ==
  ASSUME NEW h, NEW l, Legible(h, l)
  PROVE  /\ l \in Seq(Record) /\ Len(l) \in Nat /\ DOMAIN l = 1..Len(l) /\ Bounded(h)
         /\ h.sequence \in Nat /\ h.sequence + Len(l) <= MaxSequence
         /\ \A i \in 1..Len(l) : /\ l[i] \in Record /\ l[i].op = "append"
                                 /\ l[i].seq = h.sequence + i
                                 /\ \A f \in h.frames : f.id # l[i].id
         /\ \A i, j \in 1..Len(l) : l[i].id = l[j].id => i = j
<1>1. Bounded(h)
  BY ValidIs DEF Legible
<1>2. Numbered(h, l)
  BY DEF Legible
<1>3. \A i \in DOMAIN l : \A f \in h.frames : f.id # l[i].id
  BY DEF Legible, Ids
<1> QED
  BY <1>1, <1>2, <1>3, NumberIs DEF Legible, Numbered

LEMMA LegiblePrefix ==
  ASSUME NEW h, NEW l, Legible(h, l), NEW n \in 0..Len(l)
  PROVE  Legible(h, SubSeq(l, 1, n))
<1> DEFINE p == SubSeq(l, 1, n)
<1>1. l \in Seq(Record) /\ Len(l) \in Nat /\ h.sequence \in Nat /\ DOMAIN l = 1..Len(l)
  BY LegibleIs
<1>2. p \in Seq(Record) /\ Len(p) = n /\ DOMAIN p = 1..n /\ \A i \in 1..n : p[i] = l[i]
  BY <1>1, PrefixIs
<1>3. \A i \in 1..n : i \in DOMAIN l
  BY <1>1
<1> HIDE DEF p
<1>4. Numbered(h, p)
  BY <1>2, <1>3 DEF Legible, Numbered
<1>5. h.sequence + Len(p) <= MaxSequence
  BY <1>1, <1>2, MaxSequenceAssumption DEF Legible
<1>6. \A i \in DOMAIN p : p[i].op = "append" /\ p[i].id \notin Ids(h)
  BY <1>2, <1>3 DEF Legible
<1>7. \A i, j \in DOMAIN p : p[i].id = p[j].id => i = j
  BY <1>2, <1>3 DEF Legible
<1> QED
  BY <1>4, <1>5, <1>6, <1>7 DEF Legible, p

(* Reading the lines back gives what they hold.                            *)
LEMMA HeldIs ==
  ASSUME NEW h, NEW l, Legible(h, l)
  PROVE  Apply(h, l) = Held(h, l)
<1>1. /\ Len(l) \in Nat /\ DOMAIN l = 1..Len(l) /\ Bounded(h)
      /\ \A i \in 1..Len(l) : l[i].op = "append"
  BY LegibleIs
<1>2. \A i \in 1..Len(l) : \A f : ~Clears(l[i], f)
  BY <1>1 DEF Clears
<1>3. ASSUME NEW f PROVE f \in Reduced(h, l, Len(l)).frames <=> f \in Held(h, l).frames
  BY <1>1, <1>2, FrameIs DEF Held
<1>4. Reduced(h, l, Len(l)).frames = Held(h, l).frames
  BY <1>3 DEF Reduced, Held
<1>5. Apply(h, l) = Reduced(h, l, Len(l))
  BY <1>1, ApplyIs DEF Legible
<1> QED
  BY <1>4, <1>5 DEF Reduced, Held

(* A state grown by numbered frames with new identities.                   *)
LEMMA GrownValid ==
  ASSUME NEW s \in State, Validate(s), NEW n \in Nat, NEW q,
         \A i \in 1..n : /\ q[i] \in Record /\ q[i].seq = s.sequence + i
                         /\ \A f \in s.frames : f.id # q[i].id,
         \A i, j \in 1..n : q[i].id = q[j].id => i = j,
         s.sequence + n <= MaxSequence,
         NEW c, c = [sequence |-> s.sequence + n, frames |-> c.frames],
         \A f \in c.frames : f \in s.frames \/ \E i \in 1..n : q[i].op = "append" /\ f = q[i]
  PROVE  Valid(c)
<1>1. /\ \A f \in s.frames : f \in Record /\ f.op = "append" /\ f.seq \in 1..s.sequence
      /\ \A f, g \in s.frames : f.seq = g.seq \/ f.id = g.id => f = g
      /\ s.sequence \in Nat
  BY ValidIs
<1>2. c.sequence = s.sequence + n
  OBVIOUS
<1>3. \A f \in c.frames : f \in Record /\ f.op = "append" /\ f.seq \in 1..c.sequence
  <2>1. \A f \in s.frames : f.seq \in 1..c.sequence
    BY <1>1, <1>2
  <2>2. \A i \in 1..n : q[i].seq \in 1..c.sequence
    BY <1>1, <1>2
  <2> QED
    BY <1>1, <2>1, <2>2
<1>4. ASSUME NEW f \in c.frames, NEW g \in c.frames, f.seq = g.seq \/ f.id = g.id PROVE f = g
  <2>1. CASE f \in s.frames /\ g \in s.frames
    BY <1>1, <1>4, <2>1
  <2>2. ASSUME NEW x \in s.frames, NEW i \in 1..n PROVE x.seq # q[i].seq /\ x.id # q[i].id
    <3>1. x.seq \in 1..s.sequence /\ q[i].seq = s.sequence + i
      BY <1>1
    <3> QED
      BY <1>1, <3>1
  <2>3. ASSUME NEW i \in 1..n, NEW j \in 1..n, q[i].seq = q[j].seq PROVE i = j
    <3>1. s.sequence + i = s.sequence + j
      BY <2>3
    <3>2. s.sequence \in Nat /\ i \in Nat /\ j \in Nat
      BY <1>1
    <3> QED
      BY <3>1, <3>2
  <2>4. CASE f \notin s.frames /\ g \notin s.frames
    <3>1. PICK i \in 1..n : f = q[i]
      BY <2>4
    <3>2. PICK j \in 1..n : g = q[j]
      BY <2>4
    <3> QED
      BY <1>4, <2>3, <3>1, <3>2
  <2>5. CASE f \in s.frames /\ g \notin s.frames
    BY <1>4, <2>2, <2>5
  <2>6. CASE f \notin s.frames /\ g \in s.frames
    BY <1>4, <2>2, <2>6
  <2> QED
    BY <2>1, <2>4, <2>5, <2>6
<1>5. c \in State
  <2>1. c.sequence \in Nat /\ c.frames \in SUBSET Record
    BY <1>1, <1>2, <1>3
  <2>2. [sequence |-> c.sequence, frames |-> c.frames] \in State
    BY <2>1 DEF State
  <2> QED
    BY <1>2, <2>2
<1>6. Validate(c)
  BY <1>3, <1>4 DEF Validate
<1> QED
  BY <1>2, <1>5, <1>6 DEF Valid

(* What lines hold can be published in their place.                        *)
LEMMA HeldValid ==
  ASSUME NEW h, NEW l, Legible(h, l)
  PROVE  Valid(Held(h, l))
<1> DEFINE c == Held(h, l)
<1>1. /\ Len(l) \in Nat /\ DOMAIN l = 1..Len(l) /\ h.sequence + Len(l) <= MaxSequence
      /\ \A i \in 1..Len(l) : /\ l[i] \in Record /\ l[i].op = "append"
                              /\ l[i].seq = h.sequence + i
                              /\ \A f \in h.frames : f.id # l[i].id
      /\ \A i, j \in 1..Len(l) : l[i].id = l[j].id => i = j
  BY LegibleIs
<1>2. h \in State /\ Validate(h)
  BY DEF Legible
<1>3. c = [sequence |-> h.sequence + Len(l), frames |-> c.frames]
  BY DEF Held
<1>4. \A f \in c.frames : f \in h.frames \/ \E i \in 1..Len(l) : l[i].op = "append" /\ f = l[i]
  BY <1>1 DEF Held
<1> HIDE DEF c
<1>5. Valid(c)
  BY <1>1, <1>2, <1>3, <1>4, GrownValid
<1> QED
  BY <1>5 DEF c

(* Every line is accepted where it stands.                                 *)
LEMMA LegibleLoads ==
  ASSUME NEW file, Legible(file.head, file.lines)
  PROVE  Loads(file)
<1> DEFINE h == file.head
           l == file.lines
<1>1. /\ l \in Seq(Record) /\ Len(l) \in Nat /\ DOMAIN l = 1..Len(l) /\ h.sequence \in Nat
      /\ h.sequence + Len(l) <= MaxSequence
      /\ \A i \in 1..Len(l) : /\ l[i] \in Record /\ l[i].op = "append"
                              /\ l[i].seq = h.sequence + i
                              /\ \A f \in h.frames : f.id # l[i].id
      /\ \A i, j \in 1..Len(l) : l[i].id = l[j].id => i = j
  BY LegibleIs
<1>2. Validate(h)
  BY DEF Legible
<1>3. ASSUME NEW i \in DOMAIN l, NEW before, before = Apply(h, SubSeq(l, 1, i - 1))
      PROVE  /\ l[i] # Garbage
             /\ l[i].seq = before.sequence + 1
             /\ Acceptable(before, <<l[i]>>)
  <2> DEFINE p == SubSeq(l, 1, i - 1)
  <2>1. i \in 1..Len(l) /\ i - 1 \in 0..Len(l)
    BY <1>1
  <2>2. Len(p) = i - 1 /\ DOMAIN p = 1..(i - 1) /\ \A j \in 1..(i - 1) : p[j] = l[j]
    BY <1>1, <2>1, PrefixIs
  <2>3. before = Held(h, p)
    BY <1>3, <2>1, LegiblePrefix, HeldIs
  <2> HIDE DEF p, h, l
  <2>4. before.sequence = h.sequence + (i - 1)
    BY <2>2, <2>3 DEF Held
  <2>5. l[i].id \notin Ids(before)
    <3>1. \A f \in before.frames : f \in h.frames \/ \E j \in 1..(i - 1) : f = l[j]
      BY <2>2, <2>3 DEF Held
    <3>2. \A j \in 1..(i - 1) : j \in 1..Len(l) /\ j # i
      BY <1>1, <2>1
    <3>3. \A f \in before.frames : f.id # l[i].id
      BY <1>1, <2>1, <3>1, <3>2
    <3> QED
      BY <3>3 DEF Ids
  <2>6. Len(<<l[i]>>) = 1 /\ DOMAIN <<l[i]>> = {1} /\ <<l[i]>>[1] = l[i]
    OBVIOUS
  <2>7. before.sequence + 1 <= MaxSequence
    BY <1>1, <2>1, <2>4, MaxSequenceAssumption
  <2>8. l[i].op = "append" /\ l[i].seq = h.sequence + i
    BY <1>1, <2>1
  <2>9. l[i].op # "garbage"
    BY <2>8
  <2>10. Acceptable(before, <<l[i]>>)
    BY <2>5, <2>6, <2>7, <2>8 DEF Acceptable
  <2>11. l[i] # Garbage
    BY <2>9 DEF Garbage
  <2>12. l[i].seq = before.sequence + 1
    BY <1>1, <2>1, <2>4, <2>8
  <2> QED
    BY <2>10, <2>11, <2>12
<1> QED
  BY <1>2, <1>3 DEF Loads

-----------------------------------------------------------------------------

(* A batch and its numbers.                                                *)
LEMMA StampIs ==
  ASSUME NEW s, Valid(s), NEW b \in Seq(Record)
  PROVE  /\ Numbered(s, Stamp(s, b)) /\ Bounded(s) /\ s.sequence \in Nat
         /\ Len(Stamp(s, b)) = Len(b) /\ Len(b) \in Nat /\ DOMAIN b = 1..Len(b)
         /\ DOMAIN Stamp(s, b) = 1..Len(b)
         /\ \A i \in 1..Len(b) :
              /\ b[i] \in Record /\ Stamp(s, b)[i] \in Record
              /\ Stamp(s, b)[i].seq = s.sequence + i
              /\ Stamp(s, b)[i].op = b[i].op /\ Stamp(s, b)[i].id = b[i].id
<1> DEFINE q == Stamp(s, b)
<1>1. Len(b) \in Nat /\ DOMAIN b = 1..Len(b) /\ \A i \in 1..Len(b) : b[i] \in Record
  BY LenProperties, ElementOfSeq
<1>2. Bounded(s) /\ s.sequence \in Nat
  BY ValidIs DEF Valid
<1>3. DOMAIN q = 1..Len(b) /\ q = [i \in 1..Len(b) |-> [b[i] EXCEPT !.seq = s.sequence + i]]
  BY <1>1 DEF Stamp
<1>4. ASSUME NEW i \in 1..Len(b)
      PROVE  /\ q[i] \in Record /\ q[i] = [b[i] EXCEPT !.seq = s.sequence + i]
             /\ q[i].seq = s.sequence + i /\ q[i].op = b[i].op /\ q[i].id = b[i].id
  <2>1. b[i] \in Record /\ s.sequence + i \in Nat
    BY <1>1, <1>2
  <2>2. q[i] = [b[i] EXCEPT !.seq = s.sequence + i]
    BY <1>3
  <2> HIDE DEF q
  <2> QED
    BY <2>1, <2>2 DEF Record
<1> HIDE DEF q
<1>5. q \in Seq(Record) /\ Len(q) = Len(b)
  <2>1. q \in [1..Len(b) -> Record]
    BY <1>3, <1>4
  <2>2. q \in Seq(Record)
    BY <1>1, <2>1
  <2> QED
    BY <1>1, <1>3, <2>2, LenProperties
<1>6. Numbered(s, q)
  BY <1>3, <1>4, <1>5 DEF Numbered
<1> QED
  BY <1>1, <1>2, <1>3, <1>4, <1>5, <1>6 DEF q

LEMMA StampedIs ==
  ASSUME NEW s, NEW b, NEW i \in DOMAIN b
  PROVE  Stamp(s, b)[i] = Promise!Stamped(s, b, i)
  BY DEF Stamp, Promise!Stamped

(* What prepare accepts, one by one.                                       *)
LEMMA AcceptableIs ==
  ASSUME NEW s, Valid(s), NEW b \in Seq(Record), Acceptable(s, b)
  PROVE  /\ \A i \in 1..Len(b) : /\ b[i].op \in {"append", "clearStream", "clearRun"}
                                 /\ \A f \in s.frames : f.id # b[i].id
         /\ \A i, j \in 1..Len(b) : b[i].id = b[j].id => i = j
         /\ s.sequence + Len(b) <= MaxSequence
<1>1. DOMAIN b = 1..Len(b) /\ \A i \in 1..Len(b) : b[i] \in Record
  BY StampIs
<1>2. \A r \in Record : r.op \in {"append", "clearStream", "clearRun", "commitStream"}
  BY DEF Record
<1> QED
  BY <1>1, <1>2 DEF Acceptable, Ids

LEMMA AcceptableWell ==
  ASSUME NEW s, Valid(s), NEW b \in Seq(Record), Acceptable(s, b)
  PROVE  Promise!Wellformed(s, b)
<1>1. DOMAIN b = 1..Len(b) /\ Len(b) \in Nat
  BY StampIs
<1>2. \A i, j \in 1..Len(b) : i < j => b[i].id # b[j].id
  BY <1>1, AcceptableIs
<1>3. \A i \in DOMAIN b : b[i].op # "commitStream" /\ \A f \in s.frames : f.id # b[i].id
  BY <1>1, AcceptableIs
<1> QED
  BY <1>1, <1>2, <1>3, AcceptableIs DEF Promise!Wellformed

(* The promise and the reducer mean the same by a beginning of a batch.    *)
LEMMA AfterIs ==
  ASSUME NEW s, Valid(s), NEW b \in Seq(Record), Acceptable(s, b), NEW n \in 0..Len(b)
  PROVE  Promise!After(s, b, n) = Reduced(s, Stamp(s, b), n)
<1> DEFINE q == Stamp(s, b)
           L == {Promise!Stamped(s, b, i) : i \in 1..n}
<1>1. /\ Len(b) \in Nat
      /\ DOMAIN b = 1..Len(b)
      /\ \A i \in 1..Len(b) : q[i].op \in {"append", "clearStream", "clearRun"}
  <2>1. /\ Len(b) \in Nat /\ DOMAIN b = 1..Len(b)
        /\ \A i \in 1..Len(b) : q[i].op = b[i].op
    BY StampIs
  <2> HIDE DEF q
  <2> QED
    BY <2>1, AcceptableIs
<1>2. \A i \in 1..n : i \in 1..Len(b)
  BY <1>1
<1>3. L = {q[i] : i \in 1..n}
  BY <1>1, <1>2, StampedIs
<1>4. \A i \in 1..n : \A f : Promise!Retires(q[i], f) <=> Clears(q[i], f)
  <2>1. \A r : \A f : r.op \in {"append", "clearStream", "clearRun"}
                     => (Promise!Retires(r, f) <=> Clears(r, f))
    BY DEF Promise!Retires, Clears
  <2> HIDE DEF q
  <2> QED
    BY <1>1, <1>2, <2>1
<1>5. Promise!After(s, b, n) =
        [sequence |-> s.sequence + n,
         frames |-> {f \in s.frames \cup {r \in L : r.op = "append"} :
                       ~ \E r \in L : r.seq > f.seq /\ Promise!Retires(r, f)}]
  BY DEF Promise!After
<1> HIDE DEF q, L
<1>6. {r \in L : r.op = "append"} = {q[j] : j \in {k \in 1..n : q[k].op = "append"}}
  BY <1>3
<1>7. \A f : (~ \E r \in L : r.seq > f.seq /\ Promise!Retires(r, f))
              <=> \A j \in 1..n : q[j].seq > f.seq => ~Clears(q[j], f)
  BY <1>3, <1>4
<1> QED
  BY <1>5, <1>6, <1>7 DEF Reduced, q

(* The frames a checkpoint leaves out at once are those the loop removes.  *)
LEMMA ProjectIs ==
  ASSUME NEW s, Valid(s), NEW b \in Seq(Record), Acceptable(s, b)
  PROVE  Project(s, Stamp(s, b)) = Reduced(s, Stamp(s, b), Len(b))
<1> DEFINE q == Stamp(s, b)
           K == {f \in s.frames : \A i \in DOMAIN q : ~Clears(q[i], f)}
           k == [s EXCEPT !.frames = K]
<1>1. /\ Numbered(s, q) /\ Bounded(s) /\ s.sequence \in Nat /\ Len(q) = Len(b)
      /\ Len(b) \in Nat /\ DOMAIN q = 1..Len(b)
      /\ \A i \in 1..Len(b) : q[i].seq = s.sequence + i
  BY StampIs
<1>2. /\ \A f \in s.frames : f \in Record /\ f.seq \in Nat /\ f.seq <= s.sequence
      /\ s \in State
  BY <1>1, NumberIs DEF Bounded
<1>3. k.sequence = s.sequence /\ k.frames = K /\ k \in State /\ K \subseteq s.frames
  BY <1>2 DEF State
<1>4. Project(s, q) = Apply(k, q)
  BY DEF Project
<1> HIDE DEF q, k
<1>5. Bounded(k) /\ Numbered(k, q)
  BY <1>1, <1>2, <1>3 DEF Bounded, Numbered
<1>6. Apply(k, q) = Reduced(k, q, Len(b))
  BY <1>1, <1>5, ApplyIs
<1>7. \A f \in s.frames : \A j \in 1..Len(b) : q[j].seq > f.seq
  BY <1>1, <1>2
<1>8. ASSUME NEW f
      PROVE  f \in Reduced(k, q, Len(b)).frames <=> f \in Reduced(s, q, Len(b)).frames
  <2>1. f \in K <=> f \in s.frames /\ \A j \in 1..Len(b) : ~Clears(q[j], f)
    BY <1>1
  <2> QED
    BY <1>3, <1>7, <2>1, FrameIs
<1>9. Reduced(k, q, Len(b)) = Reduced(s, q, Len(b))
  <2>1. Reduced(k, q, Len(b)).frames = Reduced(s, q, Len(b)).frames
    BY <1>8 DEF Reduced
  <2> QED
    BY <1>3, <2>1 DEF Reduced
<1> QED
  BY <1>4, <1>6, <1>9 DEF q

(* A checkpoint with a whole batch in it can be published.                 *)
LEMMA ReducedValid ==
  ASSUME NEW s, Valid(s), NEW b \in Seq(Record), Acceptable(s, b)
  PROVE  Valid(Reduced(s, Stamp(s, b), Len(b)))
<1>1. /\ Len(b) \in Nat
      /\ \A i \in 1..Len(b) : /\ Stamp(s, b)[i] \in Record
                              /\ Stamp(s, b)[i].seq = s.sequence + i
                              /\ Stamp(s, b)[i].id = b[i].id
  BY StampIs
<1>2. /\ \A i \in 1..Len(b) : \A f \in s.frames : f.id # b[i].id
      /\ \A i, j \in 1..Len(b) : b[i].id = b[j].id => i = j
      /\ s.sequence + Len(b) <= MaxSequence
  BY AcceptableIs
<1>3. ASSUME NEW q, q = Stamp(s, b) PROVE Valid(Reduced(s, q, Len(b)))
  <2> DEFINE c == Reduced(s, q, Len(b))
  <2>1. /\ \A i \in 1..Len(b) : /\ q[i] \in Record /\ q[i].seq = s.sequence + i
                                /\ \A f \in s.frames : f.id # q[i].id
        /\ \A i, j \in 1..Len(b) : q[i].id = q[j].id => i = j
    BY <1>1, <1>2, <1>3
  <2>2. \A f \in c.frames : f \in s.frames \/ \E i \in 1..Len(b) : q[i].op = "append" /\ f = q[i]
    BY FrameIs
  <2>3. c = [sequence |-> s.sequence + Len(b), frames |-> c.frames]
    BY DEF Reduced
  <2> HIDE DEF c
  <2>4. Valid(c)
    BY <1>1, <1>2, <2>1, <2>2, <2>3, GrownValid DEF Valid
  <2> QED
    BY <2>4 DEF c
<1> QED
  BY <1>3

-----------------------------------------------------------------------------

(* A file of lines with the first n of a batch of appends after them.      *)
LEMMA ExtendedIs ==
  ASSUME NEW h, NEW l, Legible(h, l), NEW b \in Seq(Record), Acceptable(Held(h, l), b),
         \A i \in DOMAIN b : b[i].op = "append", NEW n \in 0..Len(b)
  PROVE  LET p == l \o SubSeq(Stamp(Held(h, l), b), 1, n)
         IN  Legible(h, p) /\ Held(h, p) = Promise!After(Held(h, l), b, n)
<1> DEFINE s == Held(h, l)
           q == Stamp(s, b)
           p == l \o SubSeq(q, 1, n)
<1>0. Valid(s)
  BY HeldValid
<1>1. /\ l \in Seq(Record) /\ Len(l) \in Nat /\ DOMAIN l = 1..Len(l) /\ h.sequence \in Nat
      /\ \A i \in 1..Len(l) : /\ l[i] \in Record /\ l[i].op = "append"
                              /\ l[i].seq = h.sequence + i
                              /\ \A f \in h.frames : f.id # l[i].id
      /\ \A i, j \in 1..Len(l) : l[i].id = l[j].id => i = j
  BY LegibleIs
<1>2. /\ q \in Seq(Record) /\ Len(q) = Len(b) /\ Len(b) \in Nat /\ DOMAIN b = 1..Len(b)
      /\ \A i \in 1..Len(b) : /\ q[i] \in Record /\ q[i].seq = s.sequence + i
                              /\ q[i].op = b[i].op /\ q[i].id = b[i].id
  BY <1>0, StampIs DEF Numbered
<1>3. /\ \A i \in 1..Len(b) : \A f \in s.frames : f.id # b[i].id
      /\ \A i, j \in 1..Len(b) : b[i].id = b[j].id => i = j
      /\ s.sequence + Len(b) <= MaxSequence
  BY <1>0, AcceptableIs
<1>4. s.sequence = h.sequence + Len(l) /\ s.frames = h.frames \cup {l[i] : i \in 1..Len(l)}
  BY <1>1 DEF Held
<1>5. Promise!After(s, b, n) = Reduced(s, q, n)
  BY <1>0, AfterIs
<1> HIDE DEF s, q
<1>6. /\ SubSeq(q, 1, n) \in Seq(Record) /\ Len(SubSeq(q, 1, n)) = n
      /\ \A i \in 1..n : SubSeq(q, 1, n)[i] = q[i]
  BY <1>2, PrefixIs
<1>7. /\ p \in Seq(Record) /\ Len(p) = Len(l) + n /\ DOMAIN p = 1..(Len(l) + n)
      /\ \A i \in 1..(Len(l) + n) : p[i] = IF i <= Len(l) THEN l[i] ELSE SubSeq(q, 1, n)[i - Len(l)]
  BY <1>1, <1>6, ConcatProperties, LenProperties
<1> HIDE DEF p
<1>8. ASSUME NEW i \in 1..(Len(l) + n)
      PROVE  \/ i \in 1..Len(l) /\ p[i] = l[i]
             \/ i - Len(l) \in 1..n /\ i - Len(l) \in 1..Len(b) /\ p[i] = q[i - Len(l)]
  <2>1. CASE i <= Len(l)
    BY <1>1, <1>7, <2>1
  <2>2. CASE i > Len(l)
    <3>1. i - Len(l) \in 1..n /\ i - Len(l) \in 1..Len(b) /\ ~(i <= Len(l))
      BY <1>1, <1>2, <2>2
    <3> QED
      BY <1>6, <1>7, <3>1
  <2> QED
    BY <1>1, <2>1, <2>2
<1>9. ASSUME NEW i \in 1..(Len(l) + n)
      PROVE  /\ p[i].op = "append" /\ p[i].seq = h.sequence + i
             /\ \A f \in h.frames : f.id # p[i].id
  <2>1. CASE i \in 1..Len(l) /\ p[i] = l[i]
    BY <1>1, <2>1
  <2>2. CASE i - Len(l) \in 1..Len(b) /\ p[i] = q[i - Len(l)]
    <3>1. p[i].seq = s.sequence + (i - Len(l)) /\ p[i].id = b[i - Len(l)].id /\ p[i].op = "append"
      BY <1>2, <2>2
    <3>2. s.sequence + (i - Len(l)) = h.sequence + i
      BY <1>1, <1>4
    <3>3. \A f \in h.frames : f.id # p[i].id
      BY <1>3, <1>4, <2>2, <3>1
    <3> QED
      BY <3>1, <3>2, <3>3
  <2> QED
    BY <1>8, <2>1, <2>2
<1>10. ASSUME NEW i \in 1..(Len(l) + n), NEW j \in 1..(Len(l) + n), p[i].id = p[j].id
       PROVE  i = j
  <2>1. CASE i \in 1..Len(l) /\ p[i] = l[i] /\ j \in 1..Len(l) /\ p[j] = l[j]
    BY <1>1, <1>10, <2>1
  <2>2. ASSUME NEW x \in 1..Len(l), NEW y \in 1..Len(b) PROVE l[x].id # q[y].id
    BY <1>2, <1>3, <1>4
  <2>3. CASE /\ i - Len(l) \in 1..Len(b) /\ p[i] = q[i - Len(l)]
             /\ j - Len(l) \in 1..Len(b) /\ p[j] = q[j - Len(l)]
    <3>1. i - Len(l) = j - Len(l)
      <4>1. ASSUME NEW x \in 1..Len(b), NEW y \in 1..Len(b), q[x].id = q[y].id PROVE x = y
        BY <1>2, <1>3, <4>1
      <4> QED
        BY <1>10, <2>3, <4>1
    <3> QED
      BY <1>1, <3>1
  <2> QED
    BY <1>8, <1>10, <2>1, <2>2, <2>3
<1>11. Legible(h, p)
  <2>1. Numbered(h, p)
    BY <1>7, <1>9 DEF Numbered
  <2>2. h.sequence + Len(p) <= MaxSequence
    <3>1. h.sequence + (Len(l) + n) <= s.sequence + Len(b)
      BY <1>1, <1>2, <1>4
    <3> QED
      BY <1>1, <1>2, <1>3, <1>4, <1>7, <3>1, MaxSequenceAssumption
  <2>3. \A i \in DOMAIN p : p[i].op = "append" /\ p[i].id \notin Ids(h)
    BY <1>7, <1>9 DEF Ids
  <2>4. \A i, j \in DOMAIN p : p[i].id = p[j].id => i = j
    BY <1>7, <1>10
  <2> QED
    BY <2>1, <2>2, <2>3, <2>4 DEF Legible
<1>12. Held(h, p) = Promise!After(s, b, n)
  <2>1. Held(h, p).sequence = s.sequence + n
    BY <1>1, <1>4, <1>7 DEF Held
  <2>2. \A i \in 1..n : i \in 1..Len(b)
    BY <1>2
  <2>3. \A i \in 1..n : q[i].op = "append" /\ \A f : ~Clears(q[i], f)
    BY <1>2, <2>2 DEF Clears
  <2>4. ASSUME NEW f
        PROVE  f \in Reduced(s, q, n).frames <=> f \in s.frames \/ \E i \in 1..n : f = q[i]
    <3>1. f \in Reduced(s, q, n).frames <=>
             /\ f \in s.frames \/ \E j \in 1..n : q[j].op = "append" /\ f = q[j]
             /\ \A j \in 1..n : q[j].seq > f.seq => ~Clears(q[j], f)
      BY FrameIs
    <3>2. \A j \in 1..n : q[j].op = "append" /\ ~Clears(q[j], f)
      BY <2>3
    <3> QED
      BY <3>1, <3>2
  <2>5. \A f : f \in Held(h, p).frames <=> f \in h.frames \/ \E i \in 1..(Len(l) + n) : f = p[i]
    BY <1>7 DEF Held
  <2>6. ASSUME NEW i \in 1..n PROVE q[i] = p[Len(l) + i] /\ Len(l) + i \in 1..(Len(l) + n)
    <3>1. Len(l) + i \in 1..(Len(l) + n) /\ ~(Len(l) + i <= Len(l)) /\ (Len(l) + i) - Len(l) = i
      BY <1>1
    <3> QED
      BY <1>6, <1>7, <3>1
  <2>7. ASSUME NEW i \in 1..Len(l) PROVE l[i] = p[i] /\ i \in 1..(Len(l) + n)
    <3>1. i \in 1..(Len(l) + n) /\ i <= Len(l)
      BY <1>1
    <3> QED
      BY <1>7, <3>1
  <2>8. ASSUME NEW f PROVE f \in Held(h, p).frames <=> f \in Reduced(s, q, n).frames
    <3>1. f \in Held(h, p).frames
            <=> f \in h.frames \/ (\E i \in 1..Len(l) : f = l[i]) \/ \E i \in 1..n : f = q[i]
      <4>1. ASSUME NEW i \in 1..(Len(l) + n), f = p[i]
            PROVE  (\E j \in 1..Len(l) : f = l[j]) \/ \E j \in 1..n : f = q[j]
        BY <1>8, <4>1
      <4> QED
        BY <2>5, <2>6, <2>7, <4>1
    <3> QED
      BY <1>4, <2>4, <3>1
  <2>9. Held(h, p).frames = Reduced(s, q, n).frames
    BY <2>8 DEF Held, Reduced
  <2> QED
    BY <1>5, <2>1, <2>9 DEF Held, Reduced
<1> QED
  BY <1>11, <1>12 DEF p, q, s

(* Files.                                                                  *)
LEMMA SoundIs ==
  ASSUME NEW file, Sound(file)
  PROVE  Loads(file) /\ Loaded(file) = Contents(file) /\ Valid(Contents(file))
<1>1. Legible(file.head, file.lines)
  BY DEF Sound
<1> QED
  BY <1>1, LegibleLoads, HeldIs, HeldValid DEF Loaded, Contents

LEMMA LegibleNone ==
  ASSUME NEW s, Valid(s)
  PROVE  Legible(s, <<>>) /\ Held(s, <<>>) = s
<1>1. s \in State /\ Validate(s) /\ s.sequence \in Nat /\ s.sequence <= MaxSequence
  BY DEF Valid, State
<1>2. ASSUME NEW l, l = <<>> PROVE Legible(s, l) /\ Held(s, l) = s
  <2>1. l \in Seq(Record) /\ Len(l) = 0 /\ DOMAIN l = {}
    BY <1>2
  <2>2. Legible(s, l)
    BY <1>1, <2>1 DEF Legible, Numbered
  <2>3. s = [sequence |-> s.sequence, frames |-> s.frames]
    BY <1>1 DEF State
  <2> QED
    BY <1>1, <2>1, <2>2, <2>3 DEF Held
<1> QED
  BY <1>2

LEMMA CheckpointIs ==
  ASSUME NEW s, Valid(s)
  PROVE  /\ Sound(File(s)) /\ Contents(File(s)) = s
         /\ File(s).head = s /\ File(s).lines = <<>> /\ File(s).tail = ""
<1>1. s \in State /\ <<>> \in Seq(Record)
  BY DEF Valid
<1> QED
  BY <1>1, LegibleNone DEF File, Sound, Contents

-----------------------------------------------------------------------------

(* Calls.                                                                  *)
LEMMA InHand ==
  ASSUME IInv, call.at # "idle"
  PROVE  call \in Calls /\ call # Idle
<1>1. Idle.at = "idle"
  BY DEF Idle
<1> QED
  BY <1>1 DEF IInv

LEMMA ReadyIs ==
  ASSUME IInv, call.at = "ready"
  PROVE  /\ ~poisoned /\ Cached /\ Aligned /\ call \in Calls /\ call # Idle
         /\ progress = Contents(disk) /\ call.base = progress /\ Valid(progress)
<1>1. call \in Calls /\ call # Idle
  BY InHand
<1>2. ~poisoned /\ Cached /\ Aligned /\ call.base = Contents(disk)
  BY DEF IInv
<1>3. Contents(disk) = Contents(known)
  BY <1>2 DEF Aligned, Contents
<1> QED
  BY <1>1, <1>2, <1>3, SoundIs DEF Cached

LEMMA RequestIs ==
  ASSUME NEW request \in Request
  PROVE  /\ request.op \in {"read", "prune", "append"}
         /\ request.op = "append" => request.batch \in Seq(Record)
  BY RequestAssumption

(* The checkpoint of a prune or of a batch that retires frames.            *)
LEMMA PrunedIs ==
  ASSUME NEW s, Valid(s), NEW runs
  PROVE  Valid(ProjectCompleted(s, runs)) /\ ProjectCompleted(s, runs).sequence = s.sequence
<1> DEFINE F == {f \in s.frames : f.run \notin runs}
<1>1. s \in State /\ Validate(s) /\ s.sequence <= MaxSequence
  BY DEF Valid
<1>2. F \subseteq s.frames
  OBVIOUS
<1>3. ProjectCompleted(s, runs) = [s EXCEPT !.frames = F]
  BY DEF ProjectCompleted
<1> HIDE DEF F
<1>4. ASSUME NEW c, c = [s EXCEPT !.frames = F]
      PROVE  c \in State /\ Validate(c) /\ c.sequence = s.sequence
  <2>1. c \in State /\ c.sequence = s.sequence /\ c.frames = F
    BY <1>1, <1>2, <1>4 DEF State
  <2> QED
    BY <1>1, <1>2, <2>1 DEF Validate
<1> QED
  BY <1>1, <1>3, <1>4 DEF Valid

LEMMA CandidateIs ==
  ASSUME IInv, Publishing
  PROVE  Valid(Candidate)
<1>1. Valid(progress) /\ call.request \in Request
  BY ReadyIs DEF Publishing, At, Calls
<1>2. CASE call.request.op = "prune"
  BY <1>1, <1>2, PrunedIs DEF Candidate
<1>3. CASE call.request.op # "prune"
  <2>1. call.request.batch \in Seq(Record) /\ Acceptable(progress, call.request.batch)
    BY <1>1, <1>3, RequestIs DEF Publishing
  <2>2. Valid(Project(progress, Prepared))
    BY <1>1, <2>1, ProjectIs, ReducedValid DEF Prepared
  <2> QED
    BY <1>3, <2>2 DEF Candidate
<1> QED
  BY <1>2, <1>3

(* How far a write has come.                                               *)
LEMMA WritingIs ==
  ASSUME IInv, call.at \in {"write", "rollback"}
  PROVE  /\ ~poisoned /\ Cached /\ call \in Calls /\ call # Idle
         /\ Valid(progress) /\ call.base = progress /\ progress = Held(known.head, known.lines)
         /\ Legible(known.head, known.lines)
         /\ call.request.batch \in Seq(Record) /\ Acceptable(progress, call.request.batch)
         /\ \A i \in DOMAIN call.request.batch : call.request.batch[i].op = "append"
         /\ call.records = Stamp(progress, call.request.batch)
         /\ Len(call.records) = Len(call.request.batch) /\ Len(call.records) \in Nat
         /\ call.landed \in Nat
         /\ \E j \in 0..Len(call.records) : Partial(j)
<1>1. call \in Calls /\ call # Idle
  BY InHand
<1>2. ~poisoned /\ Cached /\ Writing
  BY DEF IInv
<1>3. /\ Legible(known.head, known.lines) /\ Valid(progress)
      /\ progress = Held(known.head, known.lines)
  BY <1>2, SoundIs DEF Cached, Sound, Contents
<1>4. call.request \in Request /\ call.landed \in Nat
  BY <1>1 DEF Calls
<1>5. call.request.batch \in Seq(Record)
  BY <1>2, <1>4, RequestIs DEF Writing
<1>6. /\ Len(call.records) = Len(call.request.batch) /\ Len(call.request.batch) \in Nat
  BY <1>2, <1>3, <1>5, StampIs DEF Writing
<1> QED
  BY <1>1, <1>2, <1>3, <1>4, <1>5, <1>6 DEF Writing, Cached, Retiring

(* What j lines of the batch leave on disk.                                *)
LEMMA PartialIs ==
  ASSUME IInv, call.at \in {"write", "rollback"}, NEW j \in 0..Len(call.records)
  PROVE  LET p == known.lines \o SubSeq(call.records, 1, j)
         IN  Legible(known.head, p) /\ Held(known.head, p) = Promise!After(progress, call.request.batch, j)
<1>1. /\ Legible(known.head, known.lines) /\ progress = Held(known.head, known.lines)
      /\ call.request.batch \in Seq(Record) /\ Acceptable(progress, call.request.batch)
      /\ \A i \in DOMAIN call.request.batch : call.request.batch[i].op = "append"
      /\ call.records = Stamp(progress, call.request.batch)
      /\ Len(call.records) = Len(call.request.batch)
  BY WritingIs
<1> QED
  BY <1>1, ExtendedIs

-----------------------------------------------------------------------------

LEMMA EmptyIs == Valid(Empty)
<1>1. {} \subseteq Record /\ 0 <= MaxSequence
  BY MaxSequenceAssumption
<1> QED
  BY <1>1 DEF Empty, Valid, State, Validate

LEMMA IInvInit == Init => IInv
<1> SUFFICES ASSUME Init PROVE IInv
  OBVIOUS
<1>1. Sound(File(Empty)) /\ Contents(File(Empty)) = Empty /\ File(Empty).tail = ""
  BY EmptyIs, CheckpointIs
<1>2. disk = File(Empty) /\ known = disk /\ progress = Empty /\ poisoned = FALSE /\ call = Idle
  BY DEF Init
<1>3. call.at = "idle"
  BY <1>2 DEF Idle
<1> QED
  BY <1>1, <1>2, <1>3 DEF IInv, Cached, Aligned

(* An operation that returns and leaves the file and memory as they were.  *)
LEMMA ReturnUnchanged ==
  ASSUME IInv, call.at \in {"load", "ready"}, call' = Idle,
         UNCHANGED <<disk, progress, known>>, poisoned' \in {poisoned, TRUE}
  PROVE  IInv'
<1>1. call'.at = "idle"
  BY DEF Idle
<1>2. /\ Sound(disk) /\ poisoned \in BOOLEAN
      /\ ~poisoned => progress = Unloaded \/ Cached
      /\ poisoned \/ progress = Unloaded \/ Aligned
  BY DEF IInv
<1>3. Cached' <=> Cached
  BY DEF Cached
<1>4. Aligned' <=> Aligned
  BY DEF Aligned
<1> QED
  BY <1>1, <1>2, <1>3, <1>4 DEF IInv

(* An operation that ends, or goes on, with memory and file made the same. *)
LEMMA Refreshed ==
  ASSUME IInv, NEW f, Sound(f), f.tail = "", disk' = f, known' = f, progress' = Contents(f),
         ~poisoned, UNCHANGED poisoned,
         \/ call' = Idle
         \/ call.at = "load" /\ call' = [call EXCEPT !.at = "ready"] /\ Contents(f) = Contents(disk)
  PROVE  IInv'
<1>1. Cached' /\ Aligned' /\ Sound(disk') /\ poisoned' \in BOOLEAN /\ ~poisoned'
  BY DEF Cached, Aligned, IInv
<1>2. CASE call' = Idle
  <2>1. call'.at = "idle"
    BY <1>2 DEF Idle
  <2> QED
    BY <1>1, <1>2, <2>1 DEF IInv
<1>3. CASE call.at = "load" /\ call' = [call EXCEPT !.at = "ready"] /\ Contents(f) = Contents(disk)
  <2>1. call \in Calls
    BY <1>3, InHand
  <2>2. call' \in Calls /\ call'.at = "ready" /\ call'.landed = call.landed /\ call'.base = call.base
    BY <1>3, <2>1 DEF Calls
  <2>3. call'.landed = 0 /\ call'.base = Contents(disk')
    BY <1>3, <2>2 DEF IInv
  <2> QED
    BY <1>1, <2>2, <2>3 DEF IInv
<1> QED
  BY <1>2, <1>3

(* The rename may have replaced the file, and the store closes itself.     *)
LEMMA Uncertain ==
  ASSUME IInv, NEW s, Valid(s), disk' \in {disk, File(s)}, poisoned' = TRUE, call' = Idle,
         UNCHANGED <<progress, known>>
  PROVE  IInv'
<1>1. call'.at = "idle"
  BY DEF Idle
<1>2. Sound(disk')
  BY CheckpointIs DEF IInv
<1> QED
  BY <1>1, <1>2 DEF IInv

LEMMA LoadStep == ASSUME IInv, Load PROVE IInv'
<1>1. Sound(disk) /\ Loads(disk) /\ Loaded(disk) = Contents(disk) /\ Valid(Contents(disk))
  BY SoundIs DEF IInv
<1>2. CASE LoadPoisoned
  BY <1>2, ReturnUnchanged DEF LoadPoisoned, At, Return
<1>3. CASE LoadCached
  <2>1. /\ call.at = "load" /\ ~poisoned /\ progress # Unloaded
        /\ call' = [call EXCEPT !.at = "ready"] /\ UNCHANGED <<disk, progress, known, poisoned>>
    BY <1>3 DEF LoadCached, At, GoTo
  <2>2. call \in Calls
    BY <2>1, InHand
  <2>3. call' \in Calls /\ call'.at = "ready" /\ call'.landed = call.landed /\ call'.base = call.base
    BY <2>1, <2>2 DEF Calls
  <2>4. Cached /\ Aligned /\ call.landed = 0 /\ call.base = Contents(disk) /\ poisoned \in BOOLEAN
    BY <2>1 DEF IInv
  <2>5. Cached' /\ Aligned'
    BY <2>1, <2>4 DEF Cached, Aligned
  <2> QED
    BY <1>1, <2>1, <2>3, <2>4, <2>5 DEF IInv
<1>4. CASE LoadFile
  <2>1. /\ call.at = "load" /\ ~poisoned /\ disk.tail = "" /\ UNCHANGED <<disk, poisoned>>
        /\ progress' = Loaded(disk) /\ known' = disk /\ call' = [call EXCEPT !.at = "ready"]
    BY <1>1, <1>4 DEF LoadFile, Reading, At, GoTo
  <2> QED
    BY <1>1, <2>1, Refreshed
<1>5. CASE RepairTornTail
  <2>1. /\ call.at = "load" /\ ~poisoned /\ UNCHANGED poisoned
        /\ disk' = [disk EXCEPT !.tail = ""]
        /\ progress' = Loaded(disk') /\ known' = disk' /\ call' = [call EXCEPT !.at = "ready"]
    BY <1>5 DEF RepairTornTail, Reading, At, GoTo
  <2>2. ASSUME NEW f, f = [disk EXCEPT !.tail = ""]
        PROVE  Sound(f) /\ f.tail = "" /\ Contents(f) = Contents(disk)
    BY <1>1, <2>2 DEF Sound, Contents
  <2>3. ASSUME NEW f, f = [disk EXCEPT !.tail = ""] PROVE Loaded(f) = Contents(f)
    BY <2>2, <2>3, SoundIs
  <2> QED
    BY <2>1, <2>2, <2>3, Refreshed
<1>6. CASE LoadFails \/ LoadNoText
  BY <1>6, ReturnUnchanged DEF LoadFails, LoadNoText, Reading, At, Return
<1>7. CASE Normalize
  <2>1. /\ call.at = "load" /\ ~poisoned /\ UNCHANGED poisoned
        /\ disk' = File(Contents(disk)) /\ known' = disk' /\ progress' = Contents(disk)
        /\ call' = [call EXCEPT !.at = "ready"]
    BY <1>1, <1>7 DEF Normalize, Reading, At, GoTo
  <2>2. ASSUME NEW f, f = File(Contents(disk))
        PROVE  Sound(f) /\ f.tail = "" /\ Contents(f) = Contents(disk)
    BY <1>1, <2>2, CheckpointIs
  <2> QED
    BY <2>1, <2>2, Refreshed
<1>8. CASE NormalizeUncertain
  <2>1. /\ disk' \in {disk, File(Contents(disk))} /\ poisoned' = TRUE /\ call' = Idle
        /\ UNCHANGED <<progress, known>>
    BY <1>1, <1>8 DEF NormalizeUncertain, Return
  <2> QED
    BY <1>1, <2>1, Uncertain
<1> QED
  BY <1>2, <1>3, <1>4, <1>5, <1>6, <1>7, <1>8 DEF Load

LEMMA ReadyStep ==
  ASSUME IInv, AnswerLoaded \/ RefuseBatch \/ Publish \/ StageFails \/ RenameUncertain
               \/ LengthChanged \/ OpenAppend
  PROVE  IInv'
<1>1. call.at = "ready"
  BY DEF AnswerLoaded, RefuseBatch, Publish, StageFails, RenameUncertain, LengthChanged,
         OpenAppend, Publishing, Appending, At
<1>2. /\ ~poisoned /\ Cached /\ Aligned /\ call \in Calls
      /\ call.base = progress /\ Valid(progress)
  BY <1>1, ReadyIs
<1>3. CASE AnswerLoaded
  BY <1>1, <1>3, ReturnUnchanged DEF AnswerLoaded, Return
<1>4. CASE RefuseBatch
  BY <1>1, <1>4, ReturnUnchanged DEF RefuseBatch, Return
<1>5. CASE Publish
  <2>1. /\ Publishing /\ disk' = File(Candidate) /\ known' = disk' /\ progress' = Candidate
        /\ call' = Idle /\ UNCHANGED poisoned
    BY <1>5 DEF Publish, Return
  <2>2. Valid(Candidate)
    BY <2>1, CandidateIs
  <2>3. ASSUME NEW f, f = File(Candidate) PROVE Sound(f) /\ f.tail = "" /\ Contents(f) = Candidate
    BY <2>2, <2>3, CheckpointIs
  <2> QED
    BY <1>2, <2>1, <2>3, Refreshed
<1>6. CASE StageFails
  BY <1>1, <1>6, ReturnUnchanged DEF StageFails, Return
<1>7. CASE RenameUncertain
  <2>1. /\ Publishing /\ disk' \in {disk, File(Candidate)} /\ poisoned' = TRUE /\ call' = Idle
        /\ UNCHANGED <<progress, known>>
    BY <1>7 DEF RenameUncertain, Return
  <2> QED
    BY <2>1, CandidateIs, Uncertain
<1>8. CASE LengthChanged
  BY <1>1, <1>8, ReturnUnchanged DEF LengthChanged, Return
<1>9. CASE OpenAppend
  <2>1. /\ call.request.op = "append" /\ Acceptable(progress, call.request.batch)
        /\ ~Retiring(call.request.batch) /\ disk = known
        /\ call' = [call EXCEPT !.at = "write", !.records = Prepared]
        /\ UNCHANGED <<disk, progress, known, poisoned>>
    BY <1>9 DEF OpenAppend, Appending
  <2>2. call.request \in Request /\ call.request.batch \in Seq(Record)
    BY <1>2, <2>1, RequestIs DEF Calls
  <2>3. Prepared \in Seq(Record) /\ Len(Prepared) \in Nat
    BY <1>2, <2>2, StampIs DEF Prepared, Numbered
  <2>4. /\ call' \in Calls /\ call'.at = "write" /\ call'.records = Prepared
        /\ call'.request = call.request /\ call'.base = call.base /\ call'.landed = call.landed
    BY <1>2, <2>1, <2>3 DEF Calls
  <2>5. call.landed = 0 /\ disk.tail = "" /\ known.lines \in Seq(Record)
    BY <1>1, <1>2, <2>1 DEF IInv, Cached, Sound
  <2>6. known.lines \o SubSeq(Prepared, 1, 0) = known.lines
    <3>1. SubSeq(Prepared, 1, 0) = <<>>
      BY <2>3
    <3> QED
      BY <2>5, <3>1, ConcatEmptySeq
  <2>7. Partial(0)'
    <3>1. disk'.head = known'.head /\ disk'.lines = known.lines /\ known'.lines = known.lines
      BY <2>1
    <3>2. disk'.lines = known'.lines \o SubSeq(call'.records, 1, 0)
      BY <2>4, <2>6, <3>1
    <3>3. disk'.tail = "" /\ call'.landed = 3 * 0
      <4>1. 3 * 0 = 0
        OBVIOUS
      <4> QED
        BY <2>1, <2>4, <2>5, <4>1
    <3> QED
      BY <3>1, <3>2, <3>3 DEF Partial
  <2>8. Writing'
    <3>1. 0 \in 0..Len(call'.records)
      BY <2>3, <2>4
    <3>2. Retiring(call'.request.batch) <=> Retiring(call.request.batch)
      BY <2>4
    <3>3. call'.records = Stamp(progress', call'.request.batch)
      BY <2>1, <2>4 DEF Prepared
    <3>4. call'.base = Contents(known')
      BY <1>2, <2>1, <2>4 DEF Cached
    <3> QED
      BY <2>1, <2>4, <2>7, <3>1, <3>2, <3>3, <3>4 DEF Writing
  <2>9. Cached'
    BY <1>2, <2>1 DEF Cached
  <2> QED
    BY <1>2, <2>1, <2>4, <2>8, <2>9 DEF IInv
<1> QED
  BY <1>3, <1>4, <1>5, <1>6, <1>7, <1>8, <1>9

LEMMA Thirds ==
  ASSUME NEW n \in Nat, NEW j \in Nat
  PROVE  /\ n = 3 * j => n % 3 = 0 /\ n \div 3 = j
         /\ n = 3 * j + 1 => n % 3 = 1 /\ n \div 3 = j
         /\ n = 3 * j + 2 => n % 3 = 2
  OBVIOUS

LEMMA LineAdded ==
  ASSUME NEW S, NEW l \in Seq(S), NEW q \in Seq(S), NEW j \in Nat, j + 1 \in 1..Len(q)
  PROVE  Append(l \o SubSeq(q, 1, j), q[j + 1]) = l \o SubSeq(q, 1, j + 1)
<1> DEFINE a == l \o SubSeq(q, 1, j)
           b == l \o SubSeq(q, 1, j + 1)
<1>1. Len(q) \in Nat /\ Len(l) \in Nat /\ q[j + 1] \in S /\ j \in 0..Len(q) /\ j + 1 \in 0..Len(q)
  BY LenProperties, ElementOfSeq
<1>2. /\ SubSeq(q, 1, j) \in Seq(S) /\ Len(SubSeq(q, 1, j)) = j
      /\ \A i \in 1..j : SubSeq(q, 1, j)[i] = q[i]
  BY <1>1, PrefixIs
<1>3. /\ SubSeq(q, 1, j + 1) \in Seq(S) /\ Len(SubSeq(q, 1, j + 1)) = j + 1
      /\ \A i \in 1..(j + 1) : SubSeq(q, 1, j + 1)[i] = q[i]
  BY <1>1, PrefixIs
<1>4. /\ a \in Seq(S) /\ Len(a) = Len(l) + j
      /\ \A i \in 1..(Len(l) + j) : a[i] = IF i <= Len(l) THEN l[i] ELSE SubSeq(q, 1, j)[i - Len(l)]
  BY <1>1, <1>2, ConcatProperties
<1>5. /\ b \in Seq(S) /\ Len(b) = Len(l) + (j + 1)
      /\ \A i \in 1..(Len(l) + (j + 1)) :
            b[i] = IF i <= Len(l) THEN l[i] ELSE SubSeq(q, 1, j + 1)[i - Len(l)]
  BY <1>1, <1>3, ConcatProperties
<1> HIDE DEF a, b
<1>6. /\ Append(a, q[j + 1]) \in Seq(S) /\ Len(Append(a, q[j + 1])) = Len(l) + (j + 1)
      /\ \A i \in 1..(Len(l) + j) : Append(a, q[j + 1])[i] = a[i]
      /\ Append(a, q[j + 1])[Len(l) + (j + 1)] = q[j + 1]
  <2>1. /\ Append(a, q[j + 1]) \in Seq(S) /\ Len(Append(a, q[j + 1])) = Len(a) + 1
        /\ \A i \in 1..Len(a) : Append(a, q[j + 1])[i] = a[i]
        /\ Append(a, q[j + 1])[Len(a) + 1] = q[j + 1]
    <3>0. a \in Seq(S)
      BY <1>4
    <3>1. ASSUME NEW e \in S
          PROVE  /\ Append(a, e) \in Seq(S) /\ Len(Append(a, e)) = Len(a) + 1
                 /\ \A i \in 1..Len(a) : Append(a, e)[i] = a[i]
                 /\ Append(a, e)[Len(a) + 1] = e
      BY <3>0, <3>1, AppendProperties
    <3> QED
      BY <1>1, <3>1
  <2>2. Len(a) = Len(l) + j /\ Len(a) + 1 = Len(l) + (j + 1)
    BY <1>1, <1>4
  <2> QED
    BY <2>1, <2>2
<1>7. ASSUME NEW i \in 1..(Len(l) + (j + 1)) PROVE Append(a, q[j + 1])[i] = b[i]
  <2>1. CASE i = Len(l) + (j + 1)
    <3>1. ~(i <= Len(l)) /\ i - Len(l) = j + 1 /\ j + 1 \in 1..(j + 1)
      BY <1>1, <2>1
    <3> QED
      BY <1>3, <1>5, <1>6, <2>1, <3>1
  <2>2. CASE i <= Len(l)
    <3>1. i \in 1..(Len(l) + j)
      BY <1>1, <2>2
    <3> QED
      BY <1>4, <1>5, <1>6, <2>2, <3>1
  <2>3. CASE i > Len(l) /\ i # Len(l) + (j + 1)
    <3>1. /\ i \in 1..(Len(l) + j) /\ ~(i <= Len(l))
          /\ i - Len(l) \in 1..j /\ i - Len(l) \in 1..(j + 1)
      BY <1>1, <2>3
    <3>2. SubSeq(q, 1, j)[i - Len(l)] = SubSeq(q, 1, j + 1)[i - Len(l)]
      BY <1>2, <1>3, <3>1
    <3> QED
      BY <1>4, <1>5, <1>6, <3>1, <3>2
  <2>4. i = Len(l) + (j + 1) \/ i <= Len(l) \/ (i > Len(l) /\ i # Len(l) + (j + 1))
    BY <1>1
  <2> QED
    BY <2>1, <2>2, <2>3, <2>4
<1>8. Append(a, q[j + 1]) = b
  BY <1>5, <1>6, <1>7, SeqEqual
<1> QED
  BY <1>8 DEF a, b

(* A third of a line: part of it, the rest, its newline.                   *)
LEMMA WriteBytesIs ==
  ASSUME IInv, WriteBytes, NEW j \in 0..Len(call.records), Partial(j)
  PROVE  /\ call' = [call EXCEPT !.landed = @ + 1] /\ UNCHANGED <<progress, known, poisoned>>
         /\ \/ \E tail \in {"torn", "split"} :
                 /\ disk.tail = "" /\ disk' = [disk EXCEPT !.tail = tail] /\ Partial(j)'
                 /\ tail = "split" => \E i \in 1..Len(call.records) : call.records[i].id \in Wide
            \/ /\ j + 1 \in 0..Len(call.records)
               /\ disk' = [disk EXCEPT !.lines = known.lines \o SubSeq(call.records, 1, j + 1),
                                       !.tail = "noEol"]
               /\ Partial(j + 1)'
            \/ disk.tail = "noEol" /\ disk' = [disk EXCEPT !.tail = ""] /\ Partial(j)'
<1>1. /\ call.at = "write" /\ call.landed < 3 * Len(call.records)
      /\ call' = [call EXCEPT !.landed = @ + 1] /\ UNCHANGED <<progress, known, poisoned>>
  BY DEF WriteBytes, At
<1>2. /\ call \in Calls /\ Len(call.records) \in Nat /\ call.landed \in Nat
      /\ Sound(disk) /\ known.lines \in Seq(Record)
  BY <1>1, WritingIs DEF IInv, Cached, Sound
<1>3. /\ call.records \in Seq(Record)
      /\ call'.landed = call.landed + 1 /\ call'.records = call.records
  BY <1>1, <1>2 DEF Calls
<1>4. /\ disk \in [head : State, lines : Seq(Record), tail : {"", "torn", "split", "noEol"}]
      /\ disk.head = known.head
      /\ disk.lines = known.lines \o SubSeq(call.records, 1, j)
  BY <1>2 DEF Partial, Sound
<1>n. j \in Nat
  BY <1>2
<1>d. /\ call.landed % 3 = 0 =>
           \E tail \in {"torn", "split"} :
              /\ tail = "split" => call.records[1 + call.landed \div 3].id \in Wide
              /\ disk' = [Joined(disk) EXCEPT !.tail = tail]
      /\ call.landed % 3 = 1 =>
           disk' = [disk EXCEPT !.lines = Append(@, call.records[1 + call.landed \div 3]),
                                !.tail = "noEol"]
      /\ call.landed % 3 = 2 => disk' = [disk EXCEPT !.tail = ""]
  <2>1. 0 # 1 /\ 0 # 2 /\ 1 # 2
    OBVIOUS
  <2> QED
    BY <2>1, Zenon DEF WriteBytes
<1>5. CASE disk.tail = "" /\ call.landed = 3 * j
  <2>1. call.landed % 3 = 0 /\ 1 + call.landed \div 3 \in 1..Len(call.records)
    <3>1. call.landed % 3 = 0 /\ call.landed \div 3 = j
      BY <1>2, <1>n, <1>5, Thirds
    <3>2. j < Len(call.records)
      <4>1. ASSUME NEW n \in Nat, NEW m \in Nat, n = 3 * j, n < 3 * m PROVE j < m
        BY <1>n, <4>1
      <4> QED
        BY <1>1, <1>2, <1>5, <4>1
    <3> QED
      BY <1>2, <1>n, <3>1, <3>2
  <2>2. PICK tail \in {"torn", "split"} :
          /\ tail = "split" => call.records[1 + call.landed \div 3].id \in Wide
          /\ disk' = [disk EXCEPT !.tail = tail]
    BY <1>d, <1>5, <2>1 DEF Joined
  <2>3. disk'.head = disk.head /\ disk'.lines = disk.lines /\ disk'.tail = tail
    BY <1>4, <2>2
  <2>4. call'.landed = 3 * j + 1
    BY <1>3, <1>5
  <2>5. Partial(j)'
    BY <1>1, <1>3, <1>4, <2>3, <2>4 DEF Partial
  <2> QED
    BY <1>1, <1>5, <2>1, <2>2, <2>5
<1>6. CASE disk.tail \in {"torn", "split"} /\ call.landed = 3 * j + 1
  <2>1. call.landed % 3 = 1 /\ 1 + call.landed \div 3 = j + 1 /\ j + 1 \in 1..Len(call.records)
    <3>1. call.landed % 3 = 1 /\ call.landed \div 3 = j
      BY <1>2, <1>n, <1>6, Thirds
    <3>2. 1 + j = j + 1
      BY <1>n
    <3>3. j + 1 \in 1..Len(call.records)
      BY <1>1, <1>2, <1>n, <1>6
    <3> QED
      BY <3>1, <3>2, <3>3
  <2>2. disk' = [disk EXCEPT !.lines = Append(@, call.records[j + 1]), !.tail = "noEol"]
    BY <1>d, <2>1
  <2>3. Append(disk.lines, call.records[j + 1]) = known.lines \o SubSeq(call.records, 1, j + 1)
    <3>1. ASSUME NEW l \in Seq(Record), NEW q \in Seq(Record), j + 1 \in 1..Len(q)
          PROVE  Append(l \o SubSeq(q, 1, j), q[j + 1]) = l \o SubSeq(q, 1, j + 1)
      BY <1>n, <3>1, LineAdded
    <3> QED
      BY <1>2, <1>3, <1>4, <2>1, <3>1
  <2>4. disk' = [disk EXCEPT !.lines = known.lines \o SubSeq(call.records, 1, j + 1),
                             !.tail = "noEol"]
    BY <2>2, <2>3
  <2>5. /\ disk'.head = disk.head /\ disk'.tail = "noEol"
        /\ disk'.lines = known.lines \o SubSeq(call.records, 1, j + 1)
    BY <1>4, <2>4
  <2>6. call'.landed = 3 * ((j + 1) - 1) + 2 /\ j + 1 > 0 /\ j + 1 \in 0..Len(call.records)
    BY <1>2, <1>3, <1>6, <2>1
  <2> QED
    BY <1>1, <1>3, <1>4, <2>4, <2>5, <2>6 DEF Partial
<1>7. CASE disk.tail = "noEol" /\ j > 0 /\ call.landed = 3 * (j - 1) + 2
  <2>1. call.landed % 3 = 2
    <3>1. j - 1 \in Nat
      BY <1>n, <1>7
    <3> QED
      BY <1>2, <1>7, <3>1, Thirds
  <2>2. disk' = [disk EXCEPT !.tail = ""]
    BY <1>d, <2>1
  <2>3. disk'.head = disk.head /\ disk'.lines = disk.lines /\ disk'.tail = ""
    BY <1>4, <2>2
  <2>4. call'.landed = 3 * j
    BY <1>2, <1>3, <1>7
  <2> QED
    BY <1>1, <1>3, <1>4, <1>7, <2>2, <2>3, <2>4 DEF Partial
<1> QED
  BY <1>5, <1>6, <1>7 DEF Partial

(* The whole batch is on disk when the write is done.                      *)
LEMMA WrittenIs ==
  ASSUME IInv, WriteDone
  PROVE  disk = known' /\ Cached' /\ Aligned'
<1> DEFINE all == known.lines \o call.records
<1>1. /\ call.at = "write" /\ call.landed = 3 * Len(call.records) /\ UNCHANGED disk
      /\ known' = [known EXCEPT !.lines = all]
      /\ progress' = Apply(progress, call.records)
  BY DEF WriteDone, At
<1>2. /\ Cached /\ Valid(progress) /\ Legible(known.head, known.lines)
      /\ call.request.batch \in Seq(Record) /\ Acceptable(progress, call.request.batch)
      /\ call.records = Stamp(progress, call.request.batch)
      /\ Len(call.records) = Len(call.request.batch) /\ Len(call.records) \in Nat
      /\ call \in Calls
  BY <1>1, WritingIs
<1>3. PICK j \in 0..Len(call.records) : Partial(j)
  BY <1>1, WritingIs
<1>4. j = Len(call.records) /\ disk.tail = ""
  <2>1. ASSUME NEW n \in Nat, NEW m \in Nat, n = 3 * m
        PROVE  /\ n = 3 * j => j = m
               /\ n # 3 * j + 1
               /\ j > 0 => n # 3 * (j - 1) + 2
    BY <1>2, <2>1
  <2> QED
    <3>1. call.landed \in Nat
      BY <1>1, WritingIs
    <3>2. /\ call.landed = 3 * j => j = Len(call.records)
          /\ call.landed # 3 * j + 1
          /\ j > 0 => call.landed # 3 * (j - 1) + 2
      BY <1>1, <1>2, <2>1, <3>1
    <3> QED
      BY <1>3, <3>2 DEF Partial
<1>5. SubSeq(call.records, 1, j) = call.records
  <2>1. call.records \in Seq(Record)
    BY <1>2 DEF Calls
  <2> QED
    BY <1>4, <2>1, SubSeqFull
<1>6. disk.head = known.head /\ disk.lines = all
  BY <1>3, <1>5 DEF Partial
<1>7. /\ disk \in [head : State, lines : Seq(Record), tail : {"", "torn", "split", "noEol"}]
      /\ known \in [head : State, lines : Seq(Record), tail : {"", "torn", "split", "noEol"}]
      /\ known.tail = "" /\ Sound(disk)
  BY <1>2 DEF Cached, Sound, IInv
<1>8. known' = [head |-> known.head, lines |-> all, tail |-> ""]
  BY <1>1, <1>7
<1>9. disk = known'
  <2>1. disk = [head |-> disk.head, lines |-> disk.lines, tail |-> disk.tail]
    BY <1>7
  <2> QED
    BY <1>4, <1>6, <1>8, <2>1
<1>10. progress' = Held(known.head, all)
  <2>1. Apply(progress, call.records) = Reduced(progress, call.records, Len(call.records))
    BY <1>2, StampIs, ApplyIs
  <2>2. Reduced(progress, call.records, Len(call.records))
          = Promise!After(progress, call.request.batch, Len(call.request.batch))
    <3>1. Len(call.request.batch) \in 0..Len(call.request.batch)
      BY <1>2
    <3> QED
      BY <1>2, <3>1, AfterIs
  <2>3. Held(known.head, all) = Promise!After(progress, call.request.batch, j)
    BY <1>1, <1>5, PartialIs
  <2> QED
    BY <1>1, <1>2, <1>4, <2>1, <2>2, <2>3
<1>11. Cached'
  BY <1>1, <1>4, <1>6, <1>7, <1>9, <1>10 DEF Cached, Contents
<1> QED
  BY <1>1, <1>4, <1>9, <1>11 DEF Aligned

LEMMA WriteStep ==
  ASSUME IInv, WriteBytes \/ WriteDone \/ WriteFails \/ RollBack \/ RollBackFails
  PROVE  IInv'
<1>1. call.at \in {"write", "rollback"}
  BY DEF WriteBytes, WriteDone, WriteFails, RollBack, RollBackFails, At
<1>2. /\ ~poisoned /\ Cached /\ call \in Calls /\ Len(call.records) \in Nat
      /\ Legible(known.head, known.lines) /\ Writing /\ Sound(disk) /\ poisoned \in BOOLEAN
  BY <1>1, WritingIs DEF IInv
<1>3. PICK j \in 0..Len(call.records) : Partial(j)
  BY <1>2 DEF Writing
<1>4. CASE WriteBytes
  <2>1. /\ call' = [call EXCEPT !.landed = @ + 1] /\ UNCHANGED <<progress, known, poisoned>>
        /\ \/ \E tail \in {"torn", "split"} :
                /\ disk' = [disk EXCEPT !.tail = tail] /\ Partial(j)'
                /\ tail = "split" => \E i \in 1..Len(call.records) : call.records[i].id \in Wide
           \/ /\ j + 1 \in 0..Len(call.records)
              /\ disk' = [disk EXCEPT !.lines = known.lines \o SubSeq(call.records, 1, j + 1),
                                      !.tail = "noEol"]
              /\ Partial(j + 1)'
           \/ disk' = [disk EXCEPT !.tail = ""] /\ Partial(j)'
    BY <1>3, <1>4, WriteBytesIs
  <2>2. /\ call' \in Calls /\ call'.at = call.at /\ call'.request = call.request
        /\ call'.records = call.records /\ call'.base = call.base /\ call.at = "write"
    <3>1. call.at = "write"
      BY <1>4 DEF WriteBytes, At
    <3>2. call.landed + 1 \in Nat
      BY <1>2 DEF Calls
    <3>3. call' = [call EXCEPT !.landed = call.landed + 1]
      BY <2>1
    <3> QED
      BY <1>2, <3>1, <3>2, <3>3 DEF Calls
  <2>3. \E i \in 0..Len(call'.records) : Partial(i)'
    BY <1>3, <2>1, <2>2
  <2>4. Writing' /\ Cached'
    <3>1. Retiring(call'.request.batch) <=> Retiring(call.request.batch)
      BY <2>2
    <3> QED
      BY <1>2, <2>1, <2>2, <2>3, <3>1 DEF Writing, Cached
  <2>5. Sound(disk')
    <3>1. disk \in [head : State, lines : Seq(Record), tail : {"", "torn", "split", "noEol"}]
          /\ Legible(disk.head, disk.lines) /\ disk.head = known.head
      BY <1>2, <1>3 DEF Sound, Partial
    <3>2. ASSUME NEW t \in {"torn", "split", ""}, disk' = [disk EXCEPT !.tail = t] PROVE Sound(disk')
      BY <3>1, <3>2 DEF Sound
    <3>3. ASSUME NEW l, Legible(known.head, l), disk' = [disk EXCEPT !.lines = l, !.tail = "noEol"]
          PROVE  Sound(disk')
      <4>1. l \in Seq(Record)
        BY <3>3 DEF Legible, Numbered
      <4> QED
        BY <3>1, <3>3, <4>1 DEF Sound
    <3>4. j + 1 \in 0..Len(call.records)
            => Legible(known.head, known.lines \o SubSeq(call.records, 1, j + 1))
      BY <1>1, PartialIs
    <3> QED
      BY <2>1, <3>2, <3>3, <3>4
  <2> QED
    BY <1>2, <2>1, <2>2, <2>4, <2>5 DEF IInv
<1>5. CASE WriteDone
  <2>1. /\ call.landed = 3 * Len(call.records) /\ call' = Idle /\ UNCHANGED <<disk, poisoned>>
        /\ known' = [known EXCEPT !.lines = @ \o call.records]
        /\ progress' = Apply(progress, call.records)
    BY <1>5 DEF WriteDone, Return
  <2>3. disk = known' /\ Cached' /\ Aligned'
    BY <1>5, WrittenIs
  <2>4. call'.at = "idle"
    BY <2>1 DEF Idle
  <2> QED
    BY <1>2, <2>1, <2>3, <2>4 DEF IInv
<1>6. CASE WriteFails
  <2>1. call' = [call EXCEPT !.at = "rollback"] /\ UNCHANGED <<disk, progress, known, poisoned>>
    BY <1>6 DEF WriteFails, GoTo
  <2>2. /\ call' \in Calls /\ call'.at = "rollback" /\ call'.request = call.request
        /\ call'.records = call.records /\ call'.base = call.base /\ call'.landed = call.landed
    BY <1>2, <2>1 DEF Calls
  <2>3. Partial(j)'
    BY <1>3, <2>1, <2>2 DEF Partial
  <2>4. Writing' /\ Cached'
    <3>1. Retiring(call'.request.batch) <=> Retiring(call.request.batch)
      BY <2>2
    <3> QED
      BY <1>2, <1>3, <2>1, <2>2, <2>3, <3>1 DEF Writing, Cached
  <2> QED
    BY <1>2, <2>1, <2>2, <2>4 DEF IInv
<1>7. CASE RollBack
  <2>1. disk' = known /\ call' = Idle /\ UNCHANGED <<progress, known, poisoned>>
    BY <1>7 DEF RollBack, Return
  <2>2. call'.at = "idle"
    BY <2>1 DEF Idle
  <2>3. Sound(disk') /\ Cached' /\ Aligned'
    BY <1>2, <2>1 DEF Cached, Aligned
  <2> QED
    BY <1>2, <2>1, <2>2, <2>3 DEF IInv
<1>8. CASE RollBackFails
  <2>1. UNCHANGED <<disk, progress, known>> /\ poisoned' = TRUE /\ call' = Idle
    BY <1>8 DEF RollBackFails, Return
  <2>2. call'.at = "idle"
    BY <2>1 DEF Idle
  <2> QED
    BY <1>2, <2>1, <2>2 DEF IInv
<1> QED
  BY <1>4, <1>5, <1>6, <1>7, <1>8

LEMMA EnvironmentStep ==
  ASSUME IInv, (\E request \in Request : Ask(request)) \/ Reopen \/ ForeignBytes
  PROVE  IInv'
<1>1. Sound(disk) /\ Loaded(disk) = Contents(disk) /\ Contents(disk) \in State /\ poisoned \in BOOLEAN
  BY SoundIs DEF IInv, Valid
<1>2. ASSUME NEW request \in Request, Ask(request) PROVE IInv'
  <2>1. /\ call = Idle /\ UNCHANGED <<disk, progress, known, poisoned>>
        /\ call' = [at |-> "load", request |-> request, base |-> Contents(disk),
                    records |-> <<>>, landed |-> 0]
    BY <1>1, <1>2 DEF Ask
  <2>2. <<>> \in Seq(Record)
    OBVIOUS
  <2>3. /\ call' \in Calls /\ call'.at = "load" /\ call'.landed = 0
        /\ call'.base = Contents(disk)
    BY <1>1, <2>1, <2>2 DEF Calls
  <2>4. call.at = "idle"
    BY <2>1 DEF Idle
  <2>5. /\ ~poisoned => progress = Unloaded \/ Cached
        /\ poisoned \/ progress = Unloaded \/ Aligned
    BY <2>4 DEF IInv
  <2>6. (Cached' <=> Cached) /\ (Aligned' <=> Aligned)
    BY <2>1 DEF Cached, Aligned
  <2> QED
    BY <1>1, <2>1, <2>3, <2>5, <2>6 DEF IInv
<1>3. CASE Reopen
  <2>1. call'.at = "idle" /\ call' = Idle /\ disk' = disk /\ progress' = Unloaded /\ poisoned' = FALSE
    BY <1>3 DEF Reopen, Idle
  <2> QED
    BY <1>1, <2>1 DEF IInv
<1>4. CASE ForeignBytes
  <2>1. /\ call = Idle /\ UNCHANGED <<progress, known, poisoned, call>>
        /\ \E tail \in {"torn", "split"} : disk' = [disk EXCEPT !.tail = tail]
    BY <1>4, ForeignAssumption DEF ForeignBytes
  <2>2. call.at = "idle" /\ call'.at = "idle" /\ call' = Idle
    BY <2>1 DEF Idle
  <2>3. Sound(disk') /\ disk'.head = disk.head /\ disk'.lines = disk.lines /\ disk'.tail # "noEol"
    BY <1>1, <2>1 DEF Sound
  <2>4. /\ ~poisoned => progress = Unloaded \/ Cached
        /\ poisoned \/ progress = Unloaded \/ Aligned
    BY <2>2 DEF IInv
  <2>5. (Cached' <=> Cached) /\ (Aligned => Aligned')
    BY <2>1, <2>3 DEF Cached, Aligned
  <2> QED
    BY <1>1, <2>1, <2>2, <2>3, <2>4, <2>5 DEF IInv
<1> QED
  BY <1>2, <1>3, <1>4

LEMMA IInvNext == IInv /\ [Next]_vars => IInv'
<1> SUFFICES ASSUME IInv, [Next]_vars PROVE IInv'
  OBVIOUS
<1>1. CASE \E request \in Request : Ask(request)
  BY <1>1, EnvironmentStep
<1>2. CASE Load
  BY <1>2, LoadStep
<1>3. CASE Finish
  BY <1>3, ReadyStep, WriteStep DEF Finish
<1>4. CASE Reopen \/ ForeignBytes
  BY <1>4, EnvironmentStep
<1>5. CASE UNCHANGED vars
  <2>1. UNCHANGED <<disk, progress, known, poisoned, call>>
    BY <1>5 DEF vars
  <2>2. /\ (Cached' <=> Cached) /\ (Aligned' <=> Aligned)
        /\ (Writing' <=> Writing)
    BY <2>1 DEF Cached, Aligned, Writing, Partial, Retiring
  <2> QED
    BY <2>1, <2>2 DEF IInv
<1> QED
  BY <1>1, <1>2, <1>3, <1>4, <1>5 DEF Next

(* The inductive invariant: the file is a valid checkpoint with numbered   *)
(* appends after it, memory describes it, and a write in progress has left *)
(* exactly a beginning of its batch behind what memory knows.              *)
THEOREM Invariance == Spec => []IInv
<1>1. Init => IInv
  BY IInvInit
<1>2. IInv /\ [Next]_vars => IInv'
  BY IInvNext
<1> QED
  BY <1>1, <1>2, PTL DEF Spec

(* Every line of the companion but a cut last one loads in every state,    *)
(* whatever died, failed or was left behind: a load that fails on what the *)
(* file holds fails on its end (load_with_budget).                         *)
THEOREM Loadable == Spec => []LinesLoad
<1>1. IInv => LinesLoad
  BY SoundIs DEF IInv, LinesLoad
<1> QED
  BY <1>1, Invariance, PTL

(* Between operations the cached projection is the one on disk, unless the *)
(* store has closed itself (append, publish).                              *)
THEOREM MemoryMatches == Spec => []MemoryIsDisk
<1>1. IInv => MemoryIsDisk
  <2> SUFFICES ASSUME IInv, call = Idle, progress # Unloaded, ~poisoned
               PROVE  progress = Loaded(disk)
    BY DEF MemoryIsDisk
  <2>1. call.at = "idle"
    BY DEF Idle
  <2>2. Cached /\ Aligned /\ Sound(disk)
    BY <2>1 DEF IInv
  <2> QED
    BY <2>2, SoundIs DEF Cached, Aligned, Contents
<1> QED
  BY <1>1, Invariance, PTL

-----------------------------------------------------------------------------

(* The refinement.  What a reader would find is Contents(disk); a request  *)
(* is in hand from Ask to Return, with what was stored when it was asked.  *)
LEMMA GoalIs ==
  ASSUME NEW base, NEW request
  PROVE  /\ request.op = "append"
              => Promise!Goal(base, request) = Promise!After(base, request.batch, Len(request.batch))
         /\ request.op = "prune"
              => Promise!Goal(base, request) = ProjectCompleted(base, request.runs)
         /\ request.op = "read" => Promise!Goal(base, request) = base
  BY Zenon DEF Promise!Goal, ProjectCompleted

LEMMA StoredIs == ASSUME IInv PROVE Loaded(disk) = Contents(disk)
  BY SoundIs DEF IInv

LEMMA StoredNext == ASSUME IInv' PROVE Loaded(disk') = Contents(disk')
<1>1. Sound(disk')
  BY DEF IInv
<1> QED
  BY <1>1, SoundIs

LEMMA Refuses ==
  ASSUME IInv, IInv', call # Idle, call' = Idle, Contents(disk') = call.base,
         disk' = disk \/ disk'.tail = "", answer' = "error", UNCHANGED poisoned
  PROVE  Promise!Refuse
  BY StoredNext DEF Promise!Refuse, Promise!None, Promise!Mend

LEMMA Grants ==
  ASSUME IInv, IInv', call # Idle, call' = Idle, ~poisoned, UNCHANGED poisoned, answer' = "ok",
         Promise!Granted(call.base, call.request),
         Contents(disk') = Promise!Goal(call.base, call.request),
         \/ disk' = disk /\ Contents(disk) = call.base
         \/ disk'.tail = ""
  PROVE  Promise!Ok
  BY StoredNext DEF Promise!Ok, Promise!None, Promise!Mend

LEMMA Closes ==
  ASSUME IInv, IInv', call # Idle, call' = Idle, poisoned' = TRUE, answer' = "error",
         disk' = disk \/ disk'.tail = "",
         \/ Contents(disk') = Contents(disk)
         \/ Contents(disk') \in Promise!Between(call.base, call.request)
  PROVE  Promise!Close
  BY StoredIs, StoredNext DEF Promise!Close, Promise!None, Promise!Mend

LEMMA Changes ==
  ASSUME IInv, IInv', call # Idle, call' # Idle, call'.base = call.base,
         call'.request = call.request, ~poisoned, UNCHANGED <<poisoned, answer>>,
         Promise!Granted(call.base, call.request),
         Contents(disk') \in Promise!Between(call.base, call.request), disk'.tail # "split"
  PROVE  Promise!Change
  BY StoredNext DEF Promise!Change, Promise!None, Promise!Mend

LEMMA Tears ==
  ASSUME IInv, IInv', call # Idle, call' # Idle, call'.base = call.base,
         call'.request = call.request, ~poisoned, UNCHANGED <<poisoned, answer>>,
         call.request.op = "append",
         \E i \in DOMAIN call.request.batch : call.request.batch[i].id \in Wide,
         Contents(disk') = Contents(disk), disk'.tail = "split"
  PROVE  Promise!Tear
  BY StoredIs, StoredNext DEF Promise!Tear, Promise!None

LEMMA Stutters ==
  ASSUME IInv, IInv', call = Idle <=> call' = Idle,
         call # Idle => call'.base = call.base /\ call'.request = call.request,
         UNCHANGED <<poisoned, answer>>, Contents(disk') = Contents(disk),
         disk.tail = "split" <=> disk'.tail = "split"
  PROVE  UNCHANGED Promise!vars
  BY StoredIs, StoredNext DEF Promise!vars

(* A call that goes on.                                                    *)
LEMMA GoesOn ==
  ASSUME NEW c \in Calls, NEW d, d \in Calls
  PROVE  c # Idle /\ d # Idle
<1>1. c.at # "idle" /\ d.at # "idle"
  BY DEF Calls
<1>2. Idle.at = "idle"
  BY DEF Idle
<1> QED
  BY <1>1, <1>2

LEMMA LoadImplements ==
  ASSUME IInv, IInv', Load
  PROVE  Promise!Next \/ UNCHANGED Promise!vars
<1>1. call.at = "load" /\ call.base = Contents(disk) /\ call \in Calls /\ call # Idle
  <2>1. call.at = "load"
    BY DEF Load, LoadPoisoned, LoadCached, LoadFile, RepairTornTail, LoadNoText, LoadFails,
           Normalize, NormalizeUncertain, Reading, At
  <2> QED
    BY <2>1, InHand DEF IInv
<1>2. Sound(disk) /\ Loads(disk) /\ Loaded(disk) = Contents(disk) /\ Valid(Contents(disk))
  BY SoundIs DEF IInv
<1>3. ASSUME call' = [call EXCEPT !.at = "ready"], UNCHANGED <<poisoned, answer>>,
             Contents(disk') = Contents(disk), disk.tail = "split" <=> disk'.tail = "split"
      PROVE  UNCHANGED Promise!vars
  <2>1. call' \in Calls /\ call'.base = call.base /\ call'.request = call.request
    BY <1>1, <1>3 DEF Calls
  <2>2. call' # Idle
    BY <1>1, <2>1, GoesOn
  <2> QED
    BY <1>1, <1>3, <2>1, <2>2, Stutters
<1>4. CASE LoadPoisoned \/ LoadFails \/ LoadNoText
  <2>1. Promise!Refuse
    BY <1>1, <1>4, Refuses DEF LoadPoisoned, LoadFails, LoadNoText, Reading, Return
  <2> QED
    BY <2>1 DEF Promise!Next
<1>5. CASE LoadCached
  BY <1>3, <1>5 DEF LoadCached, GoTo
<1>6. CASE LoadFile
  BY <1>2, <1>3, <1>6 DEF LoadFile, GoTo
<1>7. CASE RepairTornTail
  <2>1. ASSUME NEW f, f = [disk EXCEPT !.tail = ""] PROVE Contents(f) = Contents(disk) /\ f.tail = ""
    BY <1>2, <2>1 DEF Sound, Contents
  <2> QED
    BY <1>3, <1>7, <2>1 DEF RepairTornTail, GoTo, Reading
<1>8. CASE Normalize
  <2>1. Contents(disk') = Contents(disk) /\ disk'.tail = "" /\ disk.tail = "noEol"
    BY <1>2, <1>8, CheckpointIs DEF Normalize
  <2> QED
    BY <1>3, <1>8, <2>1 DEF Normalize, GoTo
<1>9. CASE NormalizeUncertain
  <2>1. Contents(disk') = Contents(disk) /\ (disk' = disk \/ disk'.tail = "")
    BY <1>2, <1>9, CheckpointIs DEF NormalizeUncertain
  <2>2. Promise!Close
    BY <1>1, <1>9, <2>1, Closes DEF NormalizeUncertain, Return
  <2> QED
    BY <2>2 DEF Promise!Next
<1> QED
  BY <1>4, <1>5, <1>6, <1>7, <1>8, <1>9 DEF Load

(* The checkpoint is the whole of what was asked, and may be asked.        *)
LEMMA CandidateGoal ==
  ASSUME IInv, Publishing
  PROVE  /\ Candidate = Promise!Goal(call.base, call.request)
         /\ Promise!Granted(call.base, call.request)
         /\ Candidate \in Promise!Between(call.base, call.request)
<1>1. call.base = progress /\ Valid(progress) /\ call.request \in Request
  BY ReadyIs DEF Publishing, At, Calls
<1>2. CASE call.request.op = "prune"
  <2>1. Candidate = Promise!Goal(call.base, call.request)
    BY <1>1, <1>2, GoalIs DEF Candidate
  <2> QED
    BY <1>2, <2>1 DEF Promise!Granted, Promise!Between
<1>3. CASE call.request.op # "prune"
  <2> DEFINE b == call.request.batch
  <2>1. call.request.op = "append" /\ Acceptable(progress, b) /\ Retiring(b)
    BY <1>3 DEF Publishing
  <2>2. b \in Seq(Record) /\ Len(b) \in 0..Len(b)
    BY <1>1, <2>1, RequestIs, LenProperties
  <2>3. Candidate = Promise!Goal(call.base, call.request)
    BY <1>1, <1>3, <2>1, <2>2, ProjectIs, AfterIs, GoalIs DEF Candidate, Prepared
  <2>4. Promise!Granted(call.base, call.request)
    BY <1>1, <2>1, <2>2, AcceptableWell DEF Promise!Granted
  <2>5. Candidate \in Promise!Between(call.base, call.request)
    BY <2>1, <2>3 DEF Promise!Between, Retiring
  <2> QED
    BY <2>3, <2>4, <2>5
<1> QED
  BY <1>2, <1>3

LEMMA ReadyImplements ==
  ASSUME IInv, IInv', AnswerLoaded \/ RefuseBatch \/ Publish \/ StageFails \/ RenameUncertain
                      \/ LengthChanged \/ OpenAppend
  PROVE  Promise!Next \/ UNCHANGED Promise!vars
<1>1. call.at = "ready"
  BY DEF AnswerLoaded, RefuseBatch, Publish, StageFails, RenameUncertain, LengthChanged,
         OpenAppend, Publishing, Appending, At
<1>2. /\ ~poisoned /\ call \in Calls /\ call # Idle
      /\ progress = Contents(disk) /\ call.base = progress /\ Valid(progress)
  BY <1>1, ReadyIs
<1>3. CASE AnswerLoaded
  <2>1. call' = Idle /\ answer' = "ok" /\ UNCHANGED <<disk, poisoned>>
    BY <1>3 DEF AnswerLoaded, Return
  <2>2. Promise!Goal(progress, call.request) = progress /\ Promise!Granted(progress, call.request)
    <3>1. CASE call.request.op = "read"
      BY <3>1, GoalIs DEF Promise!Granted
    <3>2. CASE call.request.op = "prune" /\ Completed(call.request) = {}
      <4>1. {f \in progress.frames : f.run \notin call.request.runs} = progress.frames
        BY <3>2 DEF Completed
      <4>2. ProjectCompleted(progress, call.request.runs) = progress
        <5>1. progress \in State
          BY <1>2 DEF Valid
        <5>2. [progress EXCEPT !.frames = progress.frames] = progress
          BY <5>1 DEF State
        <5> QED
          BY <4>1, <5>2 DEF ProjectCompleted
      <4> QED
        BY <3>2, <4>2, GoalIs DEF Promise!Granted
    <3>3. CASE call.request.op = "append" /\ call.request.batch = <<>>
      <4>1. ASSUME NEW b, b = <<>>
            PROVE  Acceptable(progress, b) /\ b \in Seq(Record) /\ Len(b) = 0
        <5>1. DOMAIN b = {} /\ Len(b) = 0 /\ b \in Seq(Record)
          BY <4>1
        <5>2. progress.sequence + 0 <= MaxSequence
          BY <1>2 DEF Valid, State
        <5> QED
          BY <5>1, <5>2 DEF Acceptable
      <4>2. /\ call.request.batch \in Seq(Record) /\ Len(call.request.batch) = 0
            /\ Acceptable(progress, call.request.batch)
        BY <3>3, <4>1
      <4>3. Promise!After(progress, call.request.batch, 0)
              = Reduced(progress, Stamp(progress, call.request.batch), 0)
        BY <1>2, <4>2, AfterIs
      <4>4. Reduced(progress, Stamp(progress, call.request.batch), 0) = progress
        BY <1>2, StampIs, <4>2, ReducedNone
      <4> QED
        BY <1>2, <3>3, <4>2, <4>3, <4>4, GoalIs, AcceptableWell DEF Promise!Granted
    <3> QED
      BY <1>3, <3>1, <3>2, <3>3 DEF AnswerLoaded
  <2>3. Promise!Ok
    BY <1>2, <2>1, <2>2, Grants
  <2> QED
    BY <2>3 DEF Promise!Next
<1>4. CASE RefuseBatch \/ StageFails
  <2>1. Promise!Refuse
    BY <1>2, <1>4, Refuses DEF RefuseBatch, StageFails, Return
  <2> QED
    BY <2>1 DEF Promise!Next
<1>5. CASE Publish
  <2>1. Publishing /\ disk' = File(Candidate) /\ call' = Idle /\ answer' = "ok" /\ UNCHANGED poisoned
    BY <1>5 DEF Publish, Return
  <2>2. Contents(disk') = Candidate /\ disk'.tail = ""
    BY <2>1, CandidateIs, CheckpointIs
  <2>3. Promise!Ok
    BY <1>2, <2>1, <2>2, CandidateGoal, Grants
  <2> QED
    BY <2>3 DEF Promise!Next
<1>6. CASE RenameUncertain
  <2>1. /\ Publishing /\ disk' \in {disk, File(Candidate)} /\ call' = Idle /\ answer' = "error"
        /\ poisoned' = TRUE
    BY <1>6 DEF RenameUncertain, Return
  <2>2. /\ Contents(disk') = Contents(disk) \/ Contents(disk') = Candidate
        /\ disk' = disk \/ disk'.tail = ""
    BY <2>1, CandidateIs, CheckpointIs
  <2>3. Promise!Close
    BY <1>2, <2>1, <2>2, CandidateGoal, Closes
  <2> QED
    BY <2>3 DEF Promise!Next
<1>7. CASE LengthChanged
  <2>1. Promise!Close
    BY <1>2, <1>7, Closes DEF LengthChanged, Return
  <2> QED
    BY <2>1 DEF Promise!Next
<1>8. CASE OpenAppend
  <2>1. /\ call' = [call EXCEPT !.at = "write", !.records = Prepared]
        /\ UNCHANGED <<disk, poisoned, answer>>
    BY <1>8 DEF OpenAppend
  <2>2. call'.at = "write" /\ call'.base = call.base /\ call'.request = call.request
    BY <1>2, <2>1 DEF Calls
  <2>3. call' # Idle
    BY <2>2 DEF Idle
  <2> QED
    BY <1>2, <2>1, <2>2, <2>3, Stutters
<1> QED
  BY <1>3, <1>4, <1>5, <1>6, <1>7, <1>8

LEMMA WriteImplements ==
  ASSUME IInv, IInv', WriteBytes \/ WriteDone \/ WriteFails \/ RollBack \/ RollBackFails
  PROVE  Promise!Next \/ UNCHANGED Promise!vars
<1>1. call.at \in {"write", "rollback"}
  BY DEF WriteBytes, WriteDone, WriteFails, RollBack, RollBackFails, At
<1>2. /\ ~poisoned /\ Cached /\ call \in Calls /\ call # Idle /\ call.base = progress
      /\ progress = Contents(known) /\ Valid(progress)
      /\ call.request.batch \in Seq(Record) /\ Acceptable(progress, call.request.batch)
      /\ \A i \in DOMAIN call.request.batch : call.request.batch[i].op = "append"
      /\ Len(call.records) = Len(call.request.batch) /\ call.request.op = "append"
  BY <1>1, WritingIs DEF Contents, IInv, Writing
<1>3. PICK j \in 0..Len(call.records) : Partial(j)
  BY <1>1, WritingIs
<1>4. Promise!Granted(call.base, call.request)
  BY <1>2, AcceptableWell DEF Promise!Granted
<1>5. CASE WriteBytes
  <2>1. /\ call' = [call EXCEPT !.landed = @ + 1] /\ UNCHANGED <<poisoned, answer>>
        /\ \/ \E tail \in {"torn", "split"} :
                /\ disk.tail = "" /\ disk' = [disk EXCEPT !.tail = tail]
                /\ tail = "split" => \E i \in 1..Len(call.records) : call.records[i].id \in Wide
           \/ /\ j + 1 \in 0..Len(call.records)
              /\ disk' = [disk EXCEPT !.lines = known.lines \o SubSeq(call.records, 1, j + 1),
                                      !.tail = "noEol"]
           \/ disk.tail = "noEol" /\ disk' = [disk EXCEPT !.tail = ""]
    BY <1>3, <1>5, WriteBytesIs DEF WriteBytes
  <2>2. call'.at = call.at /\ call'.base = call.base /\ call'.request = call.request
    <3>1. ASSUME NEW n, call' = [call EXCEPT !.landed = n]
          PROVE  call'.at = call.at /\ call'.base = call.base /\ call'.request = call.request
      BY <1>2, <3>1 DEF Calls
    <3> QED
      BY <2>1, <3>1
  <2>3. call' # Idle
    BY <1>1, <2>2 DEF Idle
  <2>4. /\ disk \in [head : State, lines : Seq(Record), tail : {"", "torn", "split", "noEol"}]
        /\ disk.head = known.head
    BY <1>3 DEF IInv, Sound, Partial
  <2>5. ASSUME NEW t, disk' = [disk EXCEPT !.tail = t]
        PROVE  Contents(disk') = Contents(disk) /\ disk'.tail = t
    BY <2>4, <2>5 DEF Contents
  <2>6. ASSUME NEW t \in {"", "torn"}, disk.tail # "split", disk' = [disk EXCEPT !.tail = t]
        PROVE  UNCHANGED Promise!vars
    <3>1. Contents(disk') = Contents(disk) /\ disk'.tail = t /\ t # "split"
      BY <2>5, <2>6
    <3> QED
      BY <1>2, <2>1, <2>2, <2>3, <2>6, <3>1, Stutters
  <2>7. ASSUME disk' = [disk EXCEPT !.tail = "split"],
               \E i \in 1..Len(call.records) : call.records[i].id \in Wide
        PROVE  Promise!Tear
    <3>1. \E i \in DOMAIN call.request.batch : call.request.batch[i].id \in Wide
      <4>1. ASSUME NEW i \in 1..Len(call.records)
            PROVE  i \in DOMAIN call.request.batch /\ call.request.batch[i].id = call.records[i].id
        BY <1>1, <1>2, <4>1, WritingIs, StampIs
      <4> QED
        BY <2>7, <4>1
    <3> QED
      BY <1>2, <2>1, <2>2, <2>3, <2>5, <2>7, <3>1, Tears
  <2>8. ASSUME NEW l, disk' = [disk EXCEPT !.lines = l, !.tail = "noEol"],
               Held(known.head, l) \in Promise!Between(call.base, call.request)
        PROVE  Promise!Change
    <3>1. Contents(disk') = Held(known.head, l) /\ disk'.tail = "noEol"
      BY <2>4, <2>8 DEF Contents
    <3> QED
      BY <1>2, <1>4, <2>1, <2>2, <2>3, <2>8, <3>1, Changes
  <2>9. ASSUME j + 1 \in 0..Len(call.records)
        PROVE  Held(known.head, known.lines \o SubSeq(call.records, 1, j + 1))
                 \in Promise!Between(call.base, call.request)
    <3>1. Held(known.head, known.lines \o SubSeq(call.records, 1, j + 1))
            = Promise!After(progress, call.request.batch, j + 1)
      BY <1>1, <2>9, PartialIs
    <3> QED
      BY <1>2, <2>9, <3>1 DEF Promise!Between
  <2> QED
    BY <2>1, <2>6, <2>7, <2>8, <2>9 DEF Promise!Next
<1>6. CASE WriteDone
  <2>1. call' = Idle /\ answer' = "ok" /\ UNCHANGED <<disk, poisoned>>
    BY <1>6 DEF WriteDone, Return
  <2>2. Contents(disk') = Promise!Goal(call.base, call.request)
    <3>1. progress' = Apply(progress, call.records) /\ call.records = Stamp(progress, call.request.batch)
      BY <1>1, <1>6, WritingIs DEF WriteDone
    <3>2. disk' = known' /\ progress' = Contents(known')
      BY <1>6, <2>1, WrittenIs DEF Cached
    <3>3. Apply(progress, call.records) = Reduced(progress, call.records, Len(call.records))
      BY <1>2, <3>1, StampIs, ApplyIs
    <3>4. Len(call.request.batch) \in 0..Len(call.request.batch)
      BY <1>2, LenProperties
    <3>5. Promise!After(progress, call.request.batch, Len(call.request.batch))
            = Reduced(progress, call.records, Len(call.request.batch))
      BY <1>2, <3>1, <3>4, AfterIs
    <3> QED
      BY <1>2, <3>1, <3>2, <3>3, <3>5, GoalIs
  <2>3. disk'.tail = ""
    BY <1>6, <2>1, WrittenIs DEF Cached
  <2>4. Promise!Ok
    BY <1>2, <1>4, <2>1, <2>2, <2>3, Grants
  <2> QED
    BY <2>4 DEF Promise!Next
<1>7. CASE WriteFails
  <2>1. call' = [call EXCEPT !.at = "rollback"] /\ UNCHANGED <<disk, poisoned, answer>>
    BY <1>7 DEF WriteFails, GoTo
  <2>2. call'.at = "rollback" /\ call'.base = call.base /\ call'.request = call.request
    BY <1>2, <2>1 DEF Calls
  <2>3. call' # Idle
    BY <2>2 DEF Idle
  <2> QED
    BY <1>2, <2>1, <2>2, <2>3, Stutters
<1>8. CASE RollBack
  <2>1. Promise!Refuse
    BY <1>2, <1>8, Refuses DEF RollBack, Return, Cached
  <2> QED
    BY <2>1 DEF Promise!Next
<1>9. CASE RollBackFails
  <2>1. Promise!Close
    BY <1>2, <1>9, Closes DEF RollBackFails, Return
  <2> QED
    BY <2>1 DEF Promise!Next
<1> QED
  BY <1>5, <1>6, <1>7, <1>8, <1>9

LEMMA EnvironmentImplements ==
  ASSUME IInv, IInv', (\E request \in Request : Ask(request)) \/ Reopen \/ ForeignBytes
  PROVE  Promise!Next \/ UNCHANGED Promise!vars
<1>1. ASSUME NEW request \in Request, Ask(request) PROVE Promise!Ask(request)
  <2>1. /\ call = Idle /\ answer' = "none" /\ UNCHANGED <<disk, poisoned>>
        /\ call' = [at |-> "load", request |-> request, base |-> Loaded(disk),
                    records |-> <<>>, landed |-> 0]
    BY <1>1 DEF Ask
  <2>2. call'.at = "load" /\ call'.request = request /\ call'.base = Loaded(disk)
    BY <2>1
  <2>3. call' # Idle
    BY <2>2 DEF Idle
  <2> QED
    BY <2>1, <2>2, <2>3 DEF Promise!Ask, Promise!None
<1>2. CASE Reopen
  <2>1. Promise!Restart
    BY <1>2 DEF Reopen, Promise!Restart, Promise!None
  <2> QED
    BY <2>1 DEF Promise!Next
<1>3. CASE ForeignBytes
  <2>1. /\ disk.tail = "" /\ call = Idle /\ UNCHANGED <<poisoned, call, answer>>
        /\ \E tail \in Foreign : disk' = [disk EXCEPT !.tail = tail]
    BY <1>3 DEF ForeignBytes
  <2>2. PICK tail \in Foreign : disk' = [disk EXCEPT !.tail = tail]
    BY <2>1
  <2>3. Contents(disk') = Contents(disk) /\ disk'.tail = tail
    BY <2>2 DEF Contents, IInv, Sound
  <2>4. CASE tail = "split"
    <3>1. Promise!Damage
      BY <2>1, <2>3, <2>4, StoredIs, StoredNext DEF Promise!Damage, Promise!None
    <3> QED
      BY <3>1 DEF Promise!Next
  <2>5. CASE tail # "split"
    BY <2>1, <2>3, <2>5, Stutters
  <2> QED
    BY <2>4, <2>5
<1> QED
  BY <1>1, <1>2, <1>3 DEF Promise!Next

LEMMA StepImplements == IInv /\ IInv' /\ [Next]_vars => [Promise!Next]_(Promise!vars)
<1> SUFFICES ASSUME IInv, IInv', [Next]_vars PROVE Promise!Next \/ UNCHANGED Promise!vars
  OBVIOUS
<1>1. CASE Load
  BY <1>1, LoadImplements
<1>2. CASE Finish
  BY <1>2, ReadyImplements, WriteImplements DEF Finish
<1>3. CASE (\E request \in Request : Ask(request)) \/ Reopen \/ ForeignBytes
  BY <1>3, EnvironmentImplements
<1>4. CASE UNCHANGED vars
  BY <1>4 DEF vars, Promise!vars
<1> QED
  BY <1>1, <1>2, <1>3, <1>4 DEF Next

(* The store keeps ProgressPromise: an acknowledged append, retirement or  *)
(* prune happened in full and stays in the file over every crash, a refused*)
(* one left nothing, no retirement is half done, and the file is readable  *)
(* but for a cut inside a character (JsonlProgressStore).                  *)
THEOREM Implementation == Spec => ImplementsPromise
<1>1. Init => Promise!Init
  <2>1. /\ Contents(File(Empty)) = Empty /\ Loaded(File(Empty)) = Contents(File(Empty))
        /\ File(Empty).tail # "split"
    BY EmptyIs, CheckpointIs, SoundIs
  <2> QED
    BY <2>1 DEF Init, Empty, Promise!Init, Promise!None
<1>2. IInv /\ IInv' /\ [Next]_vars => [Promise!Next]_(Promise!vars)
  BY StepImplements
<1> QED
  BY <1>1, <1>2, Invariance, PTL DEF Spec, ImplementsPromise, Promise!Spec
==============================================================================
