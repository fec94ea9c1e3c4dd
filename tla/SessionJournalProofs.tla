------------------------ MODULE SessionJournalProofs ------------------------
(***************************************************************************)
(* The promises of SessionJournal while requests and openings take turns   *)
(* (~MayOverlap), for any handles, requests, lines and number of faults.   *)
(* The argument: the file is the encoding of a log that grows, and at most *)
(* the beginning of one more line that would fit it; what a handle mirrors *)
(* is that log, or was it before the write that is under way.              *)
(***************************************************************************)
EXTENDS SessionJournal, SequenceTheorems, TLAPS

Mutation == [line : RequestLines, seq : Nat]

Log == [k \in DOMAIN file.lines |-> Decoded(file.lines[k])]

Fits(log, m) == \A k \in DOMAIN log : log[k].seq < m.seq /\ log[k].line # m.line

(* The log that is on disk, and what may follow its last line end.         *)
Sound == /\ file = [lines |-> EncodedLines(Log), rest |-> file.rest]
         /\ Log \in Seq(Mutation) /\ Growing(Log)
         /\ file.rest = <<>> \/ \E m \in Mutation : /\ file.rest \in Beginnings(Encoded(m))
                                                    /\ Fits(Log, m)

(* Only the current handle has requests, and another is open only while it *)
(* has none.                                                               *)
Turns == /\ current \in Handle
         /\ phase \in [Handle -> {"closed", "idle", "writing", "applying", "cutting",
                                  "loading", "opened"}]
         /\ mirror \in [Handle -> Seq(Mutation)]
         /\ uncertain \in [Handle -> BOOLEAN]
         /\ todo \in [Handle -> {"nothing", "publish", "terminate"}]
         /\ phase[current] # "opened"
         /\ \A h \in Handle : uncertain[h] => h = current /\ At(h, "idle")
         /\ \A h \in Handle \ {current} :
               ~At(h, "closed") => /\ phase[h] \in {"loading", "opened"}
                                   /\ At(current, "idle")
                                   /\ \A g \in Handle \ {h, current} : At(g, "closed")

Same(h) == mirror[h] = Log /\ file.rest = <<>>

(* What a load read, and the repair that is left.                          *)
Loading(h) ==
    \/ todo[h] = "nothing" /\ Same(h)
    \/ todo[h] = "publish" /\ ~Parses(file.rest) /\ mirror[h] = Log
    \/ todo[h] = "terminate" /\ Parses(file.rest) /\ mirror[h] = Append(Log, Decoded(file.rest))

Mirrors == \A h \in Handle : /\ At(h, "idle") /\ ~uncertain[h] => Same(h)
                             /\ At(h, "opened") => Same(h)
                             /\ At(h, "loading") => Loading(h)

InCall == phase[current] \in {"writing", "applying", "cutting"}
Base == mirror[current]
Batch == Stamped(call.request, Base)

(* The first n lines of the batch are on disk, and the beginning of the    *)
(* next one at most.                                                       *)
Landed(n) == /\ Log = Base \o SubSeq(Batch, 1, n)
             /\ \/ file.rest = <<>>
                \/ n < Len(Batch) /\ file.rest \in Beginnings(Encoded(Batch[n + 1]))

Calling ==
    /\ ~InCall => call = NoCall
    /\ InCall => /\ call.request \in Request
                 /\ call.batch = EncodedLines(Batch)
                 /\ Growing(Base)
                 /\ \A m \in ToSet(Base) : m.line \notin ToSet(LinesOf[call.request])
                 /\ answer[call.request] = "pending"
    /\ At(current, "writing") => Same(current)
    /\ At(current, "applying") => Log = Base \o Batch /\ file.rest = <<>>
    /\ At(current, "cutting") => \E n \in 0..Len(Batch) : Landed(n)

(* The lines of acknowledged requests are in the log, in order.            *)
Kept(log, requests) ==
    /\ \A i \in DOMAIN requests : \A a \in DOMAIN LinesOf[requests[i]] :
          \E p \in DOMAIN log : log[p].line = LinesOf[requests[i]][a]
    /\ \A i, j \in DOMAIN requests :
          \A a \in DOMAIN LinesOf[requests[i]], b \in DOMAIN LinesOf[requests[j]] :
             i < j \/ (i = j /\ a < b) =>
                \E p, q \in DOMAIN log : /\ p < q
                                         /\ log[p].line = LinesOf[requests[i]][a]
                                         /\ log[q].line = LinesOf[requests[j]][b]

Answers ==
    /\ answer \in [Request -> {"none", "pending", "done", "failed", "unsure"}]
    /\ acked \in Seq(Request)
    /\ \A i \in DOMAIN acked : answer[acked[i]] = "done"
    /\ Kept(IF InCall THEN Base ELSE Log, acked)
    /\ \A r \in Request : answer[r] = "failed" =>
          \A line \in ToSet(LinesOf[r]) :
             /\ \A k \in DOMAIN Log : Log[k].line # line
             /\ Parses(file.rest) => Decoded(file.rest).line # line

IInv == Sound /\ Turns /\ Mirrors /\ Calling /\ Answers

-----------------------------------------------------------------------------
(* Bytes and lines                                                         *)

Byte == {Open} \cup [part : {"char", "rest"}, of : Mutation]

(* A whole line is read as the mutation it was encoded from.               *)
LEMMA EncodedIs ==
  ASSUME NEW m \in Mutation
  PROVE  /\ Encoded(m) \in Seq(Byte) /\ Encoded(m) # <<>>
         /\ Parses(Encoded(m)) /\ Decoded(Encoded(m)) = m /\ ~BrokenText(Encoded(m))
<1> USE DEF Part, Last
<1>1. CASE m.line \in Wide
  <2> DEFINE line == <<Open, Part("char", m), Part("rest", m)>>
  <2>1. Encoded(m) = line
    BY <1>1 DEF Encoded
  <2>2. line \in Seq(Byte) /\ line # <<>> /\ Len(line) = 3
    BY DEF Byte
  <2>3. line[1].part = "open" /\ line[2].part = "char" /\ line[3].part = "rest" /\ line[3].of = m
    BY DEF Open
  <2>4. Decoded(line) = m /\ Last(line).part = "rest"
    BY <2>2, <2>3 DEF Decoded
  <2>5. ~BrokenText(line)
    BY <2>2, <2>3 DEF BrokenText
  <2> QED
    BY <2>1, <2>2, <2>4, <2>5 DEF Parses
<1>2. CASE m.line \notin Wide
  <2> DEFINE line == <<Open, Part("rest", m)>>
  <2>1. Encoded(m) = line
    BY <1>2 DEF Encoded
  <2>2. line \in Seq(Byte) /\ line # <<>> /\ Len(line) = 2
    BY DEF Byte
  <2>3. line[1].part = "open" /\ line[2].part = "rest" /\ line[2].of = m
    BY DEF Open
  <2>4. Decoded(line) = m /\ Last(line).part = "rest"
    BY <2>2, <2>3 DEF Decoded
  <2>5. ~BrokenText(line)
    BY <2>2, <2>3 DEF BrokenText
  <2> QED
    BY <2>1, <2>2, <2>4, <2>5 DEF Parses
<1> QED
  BY <1>1, <1>2

(* The beginning of a line is a mutation only when it is the whole of it.  *)
LEMMA BeginningIs ==
  ASSUME NEW m \in Mutation, NEW b \in Beginnings(Encoded(m))
  PROVE  b \in Seq(Byte) /\ (Parses(b) => b = Encoded(m))
<1> DEFINE line == Encoded(m)
<1>1. line \in Seq(Byte) /\ Len(line) \in {2, 3}
  BY EncodedIs DEF Encoded
<1>2. \A i \in 1..Len(line) : i < Len(line) => line[i].part # "rest"
  BY DEF Encoded, Open, Part
<1>3. PICK k \in 0..Len(line) : b = SubSeq(line, 1, k)
  BY DEF Beginnings
<1> HIDE DEF line
<1>4. b \in Seq(Byte) /\ Len(b) = k
  BY <1>1, <1>3
<1>5. \A i \in 1..k : b[i] = line[i]
  BY <1>1, <1>3
<1>6. CASE k = Len(line)
  <2>1. b = line
    BY <1>1, <1>3, <1>6
  <2> QED
    BY <1>4, <2>1 DEF line
<1>7. CASE k # Len(line)
  <2>1. b # <<>> => Last(b).part # "rest"
    BY <1>1, <1>2, <1>4, <1>5, <1>7 DEF Last
  <2> QED
    BY <1>4, <2>1 DEF Parses
<1> QED
  BY <1>6, <1>7

LEMMA Nothing ==
  ASSUME NEW m \in Mutation
  PROVE  <<>> \in Beginnings(Encoded(m)) /\ Encoded(m) \in Beginnings(Encoded(m))
<1>1. Encoded(m) \in Seq(Byte)
  BY EncodedIs
<1>2. SubSeq(Encoded(m), 1, 0) = <<>> /\ SubSeq(Encoded(m), 1, Len(Encoded(m))) = Encoded(m)
  BY <1>1
<1>3. 0 \in 0..Len(Encoded(m)) /\ Len(Encoded(m)) \in 0..Len(Encoded(m))
  BY <1>1
<1> QED
  BY <1>2, <1>3 DEF Beginnings

-----------------------------------------------------------------------------
(* Logs and their lines                                                    *)

LEMMA LinesAre ==
  ASSUME NEW M \in Seq(Mutation)
  PROVE  /\ EncodedLines(M) \in Seq(Seq(Byte))
         /\ Len(EncodedLines(M)) = Len(M) /\ Len(M) \in Nat
         /\ \A k \in 1..Len(M) : M[k] \in Mutation /\ EncodedLines(M)[k] = Encoded(M[k])
<1>1. DOMAIN M = 1..Len(M) /\ Len(M) \in Nat /\ \A k \in 1..Len(M) : M[k] \in Mutation
  OBVIOUS
<1>2. EncodedLines(M) = [k \in 1..Len(M) |-> Encoded(M[k])]
  BY <1>1 DEF EncodedLines
<1>3. \A k \in 1..Len(M) : Encoded(M[k]) \in Seq(Byte)
  BY <1>1, EncodedIs
<1> QED
  BY <1>1, <1>2, <1>3

LEMMA LogIs ==
  ASSUME NEW M \in Seq(Mutation), NEW text, text.lines = EncodedLines(M)
  PROVE  [k \in DOMAIN text.lines |-> Decoded(text.lines[k])] = M
<1>1. \A k \in 1..Len(M) : Decoded(EncodedLines(M)[k]) = M[k]
  BY LinesAre, EncodedIs
<1>2. DOMAIN EncodedLines(M) = 1..Len(M)
  BY LinesAre
<1> QED
  BY <1>1, <1>2

LEMMA Joined ==
  ASSUME NEW M \in Seq(Mutation), NEW N \in Seq(Mutation)
  PROVE  /\ M \o N \in Seq(Mutation)
         /\ EncodedLines(M \o N) = EncodedLines(M) \o EncodedLines(N)
<1>1. M \o N \in Seq(Mutation) /\ Len(M \o N) = Len(M) + Len(N)
  OBVIOUS
<1> DEFINE a == EncodedLines(M)
           b == EncodedLines(N)
           c == EncodedLines(M \o N)
<1>2. /\ a \in Seq(Seq(Byte)) /\ Len(a) = Len(M) /\ Len(a) \in Nat
      /\ b \in Seq(Seq(Byte)) /\ Len(b) = Len(N) /\ Len(b) \in Nat
      /\ c \in Seq(Seq(Byte)) /\ Len(c) = Len(a) + Len(b)
  <2>1. a \in Seq(Seq(Byte)) /\ Len(a) = Len(M) /\ Len(M) \in Nat
    BY LinesAre
  <2>2. b \in Seq(Seq(Byte)) /\ Len(b) = Len(N) /\ Len(N) \in Nat
    BY LinesAre
  <2>3. c \in Seq(Seq(Byte)) /\ Len(c) = Len(M \o N)
    BY <1>1, LinesAre
  <2> QED
    BY <1>1, <2>1, <2>2, <2>3
<1>3. /\ a \o b \in Seq(Seq(Byte)) /\ Len(a \o b) = Len(a) + Len(b)
      /\ \A k \in 1..Len(a) + Len(b) : (a \o b)[k] = IF k <= Len(a) THEN a[k] ELSE b[k - Len(a)]
  <2> HIDE DEF a, b
  <2> QED
    BY <1>2, ConcatProperties
<1>4. \A k \in 1..Len(a) + Len(b) : c[k] = IF k <= Len(a) THEN a[k] ELSE b[k - Len(a)]
  <2>1. \A k \in 1..Len(M \o N) : c[k] = Encoded((M \o N)[k])
    BY <1>1, LinesAre
  <2>2. \A k \in 1..Len(M) + Len(N) :
           (M \o N)[k] = IF k <= Len(M) THEN M[k] ELSE N[k - Len(M)]
    BY ConcatProperties
  <2>3. \A k \in 1..Len(M) : a[k] = Encoded(M[k])
    BY LinesAre
  <2>4. \A k \in 1..Len(N) : b[k] = Encoded(N[k])
    BY LinesAre
  <2> HIDE DEF a, b, c
  <2>5. SUFFICES ASSUME NEW k \in 1..Len(a) + Len(b)
                 PROVE  c[k] = IF k <= Len(a) THEN a[k] ELSE b[k - Len(a)]
    OBVIOUS
  <2>6. c[k] = Encoded((M \o N)[k])
    BY <1>1, <1>2, <2>1
  <2>7. CASE k <= Len(a)
    BY <1>2, <2>2, <2>3, <2>6, <2>7
  <2>8. CASE ~(k <= Len(a))
    <3>1. k - Len(M) \in 1..Len(N)
      BY <1>2, <2>8
    <3> QED
      BY <1>2, <2>2, <2>4, <2>6, <2>8, <3>1
  <2> QED
    BY <2>7, <2>8
<1>5. c = a \o b
  <2> HIDE DEF a, b, c
  <2> QED
    BY <1>2, <1>3, <1>4, SeqEqual
<1> QED
  BY <1>1, <1>5

LEMMA Leading ==
  ASSUME NEW S, NEW s \in Seq(S), NEW n \in 0..Len(s)
  PROVE  /\ SubSeq(s, 1, n) \in Seq(S) /\ Len(SubSeq(s, 1, n)) = n
         /\ \A k \in 1..n : SubSeq(s, 1, n)[k] = s[k]
  OBVIOUS

LEMMA First ==
  ASSUME NEW M \in Seq(Mutation), NEW n \in 0..Len(M)
  PROVE  /\ SubSeq(M, 1, n) \in Seq(Mutation) /\ Len(SubSeq(M, 1, n)) = n
         /\ \A k \in 1..n : SubSeq(M, 1, n)[k] = M[k]
         /\ SubSeq(EncodedLines(M), 1, n) = EncodedLines(SubSeq(M, 1, n))
<1>1. /\ SubSeq(M, 1, n) \in Seq(Mutation) /\ Len(SubSeq(M, 1, n)) = n
      /\ \A k \in 1..n : SubSeq(M, 1, n)[k] = M[k]
  OBVIOUS
<1>2. /\ EncodedLines(SubSeq(M, 1, n)) \in Seq(Seq(Byte)) /\ Len(EncodedLines(SubSeq(M, 1, n))) = n
      /\ \A k \in 1..n : EncodedLines(SubSeq(M, 1, n))[k] = EncodedLines(M)[k]
  <2>1. \A k \in 1..n : EncodedLines(M)[k] = Encoded(M[k])
    BY LinesAre
  <2>2. \A k \in 1..n : EncodedLines(SubSeq(M, 1, n))[k] = Encoded(SubSeq(M, 1, n)[k])
    BY <1>1, LinesAre
  <2> QED
    BY <1>1, <2>1, <2>2, LinesAre
<1>3. /\ SubSeq(EncodedLines(M), 1, n) \in Seq(Seq(Byte)) /\ Len(SubSeq(EncodedLines(M), 1, n)) = n
      /\ \A k \in 1..n : SubSeq(EncodedLines(M), 1, n)[k] = EncodedLines(M)[k]
  BY LinesAre
<1> QED
  BY <1>1, <1>2, <1>3

(* An append to a file whose last line has ended adds the batch's lines.   *)
LEMMA ExtendedIs ==
  ASSUME NEW M \in Seq(Mutation), NEW N \in Seq(Mutation), NEW text,
         text = [lines |-> EncodedLines(M), rest |-> <<>>]
  PROVE  Extended(text, EncodedLines(N)) = [lines |-> EncodedLines(M \o N), rest |-> <<>>]
<1> DEFINE a == EncodedLines(M)
           b == EncodedLines(N)
<1>1. a \in Seq(Seq(Byte)) /\ b \in Seq(Seq(Byte)) /\ EncodedLines(M \o N) = a \o b
  BY LinesAre, Joined
<1> HIDE DEF a, b
<1>2. CASE b = <<>>
  <2>1. a \o b = a
    BY <1>1, <1>2
  <2> QED
    BY <1>1, <1>2, <2>1 DEF Extended, a, b
<1>3. CASE b # <<>>
  <2>1. b[1] \in Seq(Byte) /\ Tail(b) \in Seq(Seq(Byte)) /\ b = <<b[1]>> \o Tail(b)
    BY <1>1, <1>3
  <2>2. <<>> \o b[1] = b[1]
    BY <2>1
  <2>3. Append(a, b[1]) \o Tail(b) = a \o b
    BY <1>1, <2>1
  <2>4. text.rest = <<>> /\ text.lines = a
    BY DEF a
  <2> QED
    BY <1>1, <1>3, <2>2, <2>3, <2>4 DEF Extended, b
<1> QED
  BY <1>2, <1>3

(* A write that stops leaves the first of the batch's lines and at most    *)
(* the beginning of the next.                                              *)
LEMMA StoppedIs ==
  ASSUME NEW M \in Seq(Mutation), NEW N \in Seq(Mutation), NEW text,
         text = [lines |-> EncodedLines(M), rest |-> <<>>],
         NEW after \in Stopped(text, EncodedLines(N))
  PROVE  \E n \in 0..Len(N) :
            /\ after = [lines |-> EncodedLines(M \o SubSeq(N, 1, n)), rest |-> after.rest]
            /\ \/ after.rest = <<>>
               \/ n < Len(N) /\ after.rest \in Beginnings(Encoded(N[n + 1]))
<1> DEFINE batch == EncodedLines(N)
<1>1. Len(batch) = Len(N) /\ Len(N) \in Nat /\ \A k \in 1..Len(N) : batch[k] = Encoded(N[k])
  BY LinesAre
<1>2. CASE after = Extended(text, batch)
  <2>1. after = [lines |-> EncodedLines(M \o N), rest |-> <<>>]
    BY <1>2, ExtendedIs
  <2>2. SubSeq(N, 1, Len(N)) = N
    BY SubSeqFull
  <2>3. Len(N) \in 0..Len(N) /\ after.rest = <<>>
    BY <1>1, <2>1
  <2>4. after = [lines |-> EncodedLines(M \o SubSeq(N, 1, Len(N))), rest |-> after.rest]
    BY <2>1, <2>2
  <2> QED
    BY <2>3, <2>4
<1>3. ASSUME NEW n \in 0..Len(N) - 1, NEW bytes \in Beginnings(batch[n + 1]),
             after = [Extended(text, SubSeq(batch, 1, n)) EXCEPT !.rest = @ \o bytes]
      PROVE  /\ after = [lines |-> EncodedLines(M \o SubSeq(N, 1, n)), rest |-> after.rest]
             /\ after.rest \in Beginnings(Encoded(N[n + 1]))
  <2>1. n \in 0..Len(N) /\ n + 1 \in 1..Len(N) /\ N[n + 1] \in Mutation
    BY <1>1, LinesAre
  <2>2. SubSeq(N, 1, n) \in Seq(Mutation) /\ SubSeq(batch, 1, n) = EncodedLines(SubSeq(N, 1, n))
    BY <2>1, First
  <2>3. Extended(text, SubSeq(batch, 1, n)) =
           [lines |-> EncodedLines(M \o SubSeq(N, 1, n)), rest |-> <<>>]
    BY <2>2, ExtendedIs
  <2>4. bytes \in Beginnings(Encoded(N[n + 1])) /\ bytes \in Seq(Byte)
    BY <1>1, <2>1, BeginningIs
  <2>5. <<>> \o bytes = bytes
    BY <2>4, ConcatEmptySeq
  <2>6. after = [lines |-> EncodedLines(M \o SubSeq(N, 1, n)), rest |-> bytes]
    <3> DEFINE whole == Extended(text, SubSeq(batch, 1, n))
               l == EncodedLines(M \o SubSeq(N, 1, n))
    <3>1. whole = [lines |-> l, rest |-> <<>>]
      BY <2>3
    <3>2. after = [whole EXCEPT !.rest = @ \o bytes]
      BY <1>3
    <3> HIDE DEF whole, l
    <3>3. after = [lines |-> l, rest |-> <<>> \o bytes]
      BY <3>1, <3>2
    <3> QED
      BY <2>5, <3>3 DEF l
  <2> QED
    BY <2>4, <2>6
<1>4. after = Extended(text, batch) \/
      \E n \in 0..Len(N) - 1 : \E bytes \in Beginnings(batch[n + 1]) :
         after = [Extended(text, SubSeq(batch, 1, n)) EXCEPT !.rest = @ \o bytes]
  <2>1. Len(batch) - 1 = Len(N) - 1
    BY <1>1
  <2> DEFINE whole(n) == Extended(text, SubSeq(batch, 1, n))
             After(n) == {[whole(n) EXCEPT !.rest = @ \o bytes] : bytes \in Beginnings(batch[n + 1])}
  <2>2. after \in {Extended(text, batch)} \cup UNION {After(n) : n \in 0..Len(N) - 1}
    BY <2>1, Zenon DEF Stopped
  <2>3. ASSUME NEW n \in 0..Len(N) - 1, after \in After(n)
        PROVE  \E bytes \in Beginnings(batch[n + 1]) :
                  after = [Extended(text, SubSeq(batch, 1, n)) EXCEPT !.rest = @ \o bytes]
    BY <2>3
  <2> HIDE DEF After
  <2>4. after = Extended(text, batch) \/ \E n \in 0..Len(N) - 1 : after \in After(n)
    BY <2>2
  <2> QED
    BY <2>3, <2>4, Zenon
<1> QED
  <2>1. CASE \E n \in 0..Len(N) - 1 : \E bytes \in Beginnings(batch[n + 1]) :
                after = [Extended(text, SubSeq(batch, 1, n)) EXCEPT !.rest = @ \o bytes]
    <3>1. PICK n \in 0..Len(N) - 1 : \E bytes \in Beginnings(batch[n + 1]) :
                after = [Extended(text, SubSeq(batch, 1, n)) EXCEPT !.rest = @ \o bytes]
      BY <2>1
    <3>2. n \in 0..Len(N) /\ n < Len(N)
      BY <1>1
    <3>3. /\ after = [lines |-> EncodedLines(M \o SubSeq(N, 1, n)), rest |-> after.rest]
          /\ after.rest \in Beginnings(Encoded(N[n + 1]))
      BY <1>3, <3>1
    <3> QED
      BY <3>2, <3>3
  <2> QED
    BY <1>2, <1>4, <2>1

(* What a load reads of a log and what follows its last line end.          *)
LEMMA ReadIs ==
  ASSUME NEW M \in Seq(Mutation), NEW text, NEW m,
         text = [lines |-> EncodedLines(M), rest |-> text.rest],
         text.rest = <<>> \/ (m \in Mutation /\ text.rest \in Beginnings(Encoded(m)))
  PROVE  /\ text.rest = <<>> => Lines(text) = EncodedLines(M)
         /\ text.rest # <<>> => Lines(text) = Append(EncodedLines(M), text.rest)
         /\ Torn(text) <=> text.rest # <<>> /\ ~Parses(text.rest)
         /\ text.rest = <<>> \/ Torn(text) => Mutations(text) = M
         /\ text.rest # <<>> /\ ~Torn(text) => Mutations(text) = Append(M, m)
<1> DEFINE a == EncodedLines(M)
           t == text.rest
<1>1. /\ a \in Seq(Seq(Byte)) /\ Len(a) = Len(M) /\ Len(M) \in Nat
      /\ \A k \in 1..Len(M) : M[k] \in Mutation /\ a[k] = Encoded(M[k])
  BY LinesAre
<1>2. Lines(text) = IF t = <<>> THEN a ELSE Append(a, t)
  BY DEF Lines
<1>3. CASE t = <<>>
  <2>1. Lines(text) = a
    BY <1>2, <1>3
  <2>2. a # <<>> => Parses(Last(a))
    <3>1. a # <<>> => Len(M) \in 1..Len(M)
      BY <1>1
    <3> QED
      BY <1>1, <3>1, EncodedIs DEF Last
  <2>3. ~Torn(text)
    BY <2>1, <2>2 DEF Torn
  <2>4. Mutations(text) = [k \in DOMAIN a |-> Decoded(a[k])]
    BY <2>1, <2>3 DEF Mutations
  <2>5. [k \in DOMAIN a |-> Decoded(a[k])] = M
    BY LogIs
  <2> QED
    BY <1>3, <2>1, <2>3, <2>4, <2>5
<1>4. CASE t # <<>>
  <2>0. m \in Mutation /\ t \in Seq(Byte) /\ (Parses(t) => t = Encoded(m))
    BY <1>4, BeginningIs
  <2> DEFINE l == Append(a, t)
  <2>1. Lines(text) = l
    BY <1>2, <1>4
  <2>2. /\ l \in Seq(Seq(Byte)) /\ l # <<>> /\ Len(l) = Len(M) + 1 /\ l[Len(M) + 1] = t
        /\ \A k \in 1..Len(M) : l[k] = a[k]
    <3> HIDE DEF a, t
    <3> QED
      BY <1>1, <2>0, AppendProperties
  <2> HIDE DEF l
  <2>3. Last(l) = t
    BY <2>2 DEF Last
  <2>4. Torn(text) <=> ~Parses(t)
    BY <2>1, <2>2, <2>3 DEF Torn
  <2>5. CASE Parses(t)
    <3>1. Mutations(text) = [k \in DOMAIN l |-> Decoded(l[k])]
      BY <2>1, <2>4, <2>5 DEF Mutations
    <3>2. M \in Seq(Mutation) /\ Append(M, m) \in Seq(Mutation) /\ Len(Append(M, m)) = Len(M) + 1
          /\ Append(M, m)[Len(M) + 1] = m /\ \A k \in 1..Len(M) : Append(M, m)[k] = M[k]
      BY <2>0, AppendProperties
    <3>3. \A k \in 1..Len(M) + 1 : Decoded(l[k]) = Append(M, m)[k]
      <4>1. \A k \in 1..Len(M) : Decoded(l[k]) = Append(M, m)[k]
        BY <1>1, <2>2, <3>2, EncodedIs
      <4>2. Decoded(l[Len(M) + 1]) = m
        BY <2>0, <2>2, <2>5, EncodedIs
      <4> QED
        BY <1>1, <3>2, <4>1, <4>2
    <3>4. DOMAIN l = 1..Len(M) + 1
      BY <2>2
    <3>5. Append(M, m) = [k \in 1..Len(M) + 1 |-> Append(M, m)[k]]
      <4> DEFINE n == Append(M, m)
      <4>1. n \in Seq(Mutation) /\ Len(n) = Len(M) + 1
        BY <3>2
      <4> HIDE DEF n
      <4>2. n = [k \in 1..Len(M) + 1 |-> n[k]]
        BY <4>1
      <4> QED
        BY <4>2 DEF n
    <3>6. Mutations(text) = Append(M, m)
      BY <3>1, <3>3, <3>4, <3>5
    <3> QED
      BY <1>4, <2>1, <2>4, <2>5, <3>6 DEF l
  <2>6. CASE ~Parses(t)
    <3>1. Mutations(text) = [k \in DOMAIN Front(l) |-> Decoded(Front(l)[k])]
      BY <2>1, <2>4, <2>6 DEF Mutations
    <3>2. Front(l) = a
      <4>1. Front(l) = SubSeq(l, 1, Len(M))
        BY <1>1, <2>2 DEF Front
      <4>2. SubSeq(l, 1, Len(M)) \in Seq(Seq(Byte)) /\ Len(SubSeq(l, 1, Len(M))) = Len(M)
            /\ \A k \in 1..Len(M) : SubSeq(l, 1, Len(M))[k] = a[k]
        <5>1. Len(M) \in 0..Len(l) /\ l \in Seq(Seq(Byte))
          BY <1>1, <2>2
        <5>2. SubSeq(l, 1, Len(M)) \in Seq(Seq(Byte)) /\ Len(SubSeq(l, 1, Len(M))) = Len(M)
              /\ \A k \in 1..Len(M) : SubSeq(l, 1, Len(M))[k] = l[k]
          BY <5>1, Leading
        <5> QED
          BY <2>2, <5>2
      <4> HIDE DEF a
      <4> QED
        BY <1>1, <4>1, <4>2, SeqEqual
    <3>3. [k \in DOMAIN a |-> Decoded(a[k])] = M
      BY LogIs
    <3> QED
      BY <1>4, <2>1, <2>4, <2>6, <3>1, <3>2, <3>3 DEF l
  <2> QED
    BY <2>5, <2>6
<1> QED
  BY <1>3, <1>4

LEMMA LoadsIs ==
  ASSUME NEW M \in Seq(Mutation), Growing(M)
  PROVE  Loads([lines |-> EncodedLines(M), rest |-> <<>>])
<1> DEFINE text == [lines |-> EncodedLines(M), rest |-> <<>>]
<1>1. /\ Len(EncodedLines(M)) = Len(M) /\ Len(M) \in Nat
      /\ \A k \in 1..Len(M) : M[k] \in Mutation /\ EncodedLines(M)[k] = Encoded(M[k])
      /\ DOMAIN EncodedLines(M) = 1..Len(M)
  BY LinesAre
<1>2. Lines(text) = EncodedLines(M)
  BY DEF Lines
<1>3. \A k \in 1..Len(M) : Parses(EncodedLines(M)[k]) /\ ~BrokenText(EncodedLines(M)[k])
  BY <1>1, EncodedIs
<1>4. ~Torn(text)
  <2>1. EncodedLines(M) # <<>> => Len(M) \in 1..Len(M)
    BY <1>1, LinesAre
  <2> QED
    BY <1>1, <1>2, <1>3, <2>1 DEF Torn, Last
<1>5. Mutations(text) = M
  BY <1>2, <1>4, LogIs DEF Mutations
<1> HIDE DEF text
<1>6. \A k \in DOMAIN Lines(text) : ~BrokenText(Lines(text)[k])
  BY <1>1, <1>2, <1>3
<1>7. \A k \in 1..Len(Lines(text)) - 1 : Parses(Lines(text)[k])
  BY <1>1, <1>2, <1>3
<1> QED
  BY <1>5, <1>6, <1>7 DEF Loads, text

LEMMA GrowingIs ==
  ASSUME NEW M \in Seq(Mutation), Growing(M), NEW m \in Mutation, Fits(M, m)
  PROVE  Append(M, m) \in Seq(Mutation) /\ Growing(Append(M, m))
<1> DEFINE n == Append(M, m)
<1>1. /\ n \in Seq(Mutation) /\ Len(n) = Len(M) + 1 /\ Len(M) \in Nat
      /\ n[Len(M) + 1] = m /\ \A k \in 1..Len(M) : n[k] = M[k]
  BY AppendProperties
<1> HIDE DEF n
<1>2. SUFFICES ASSUME NEW i \in 1..Len(M) + 1, NEW j \in 1..Len(M) + 1, i < j
               PROVE  n[i].seq < n[j].seq /\ n[i].line # n[j].line
  BY <1>1 DEF Growing, n
<1>3. i \in 1..Len(M) /\ n[i] = M[i]
  BY <1>1, <1>2
<1>4. CASE j = Len(M) + 1
  BY <1>1, <1>3, <1>4 DEF Fits
<1>5. CASE j \in 1..Len(M)
  BY <1>1, <1>2, <1>3, <1>5 DEF Growing
<1> QED
  BY <1>1, <1>4, <1>5

LEMMA StampedIs ==
  ASSUME NEW M \in Seq(Mutation), NEW r \in Request
  PROVE  /\ Stamped(r, M) \in Seq(Mutation)
         /\ Len(Stamped(r, M)) = Len(LinesOf[r]) /\ Len(LinesOf[r]) \in Nat \ {0}
         /\ NextSequence(M) \in Nat
         /\ \A k \in 1..Len(LinesOf[r]) : /\ LinesOf[r][k] \in RequestLines
                                          /\ Stamped(r, M)[k].line = LinesOf[r][k]
                                          /\ Stamped(r, M)[k].seq = NextSequence(M) + k - 1
<1>1. LinesOf[r] \in Seq(RequestLines) /\ LinesOf[r] # <<>>
  BY RequestAssumption
<1>2. /\ DOMAIN LinesOf[r] = 1..Len(LinesOf[r]) /\ Len(LinesOf[r]) \in Nat \ {0}
      /\ \A k \in 1..Len(LinesOf[r]) : LinesOf[r][k] \in RequestLines
  BY <1>1, EmptySeq
<1>3. NextSequence(M) \in Nat
  <2>1. CASE M = <<>>
    BY <2>1 DEF NextSequence
  <2>2. CASE M # <<>>
    <3>1. Len(M) \in Nat \ {0}
      BY <2>2, EmptySeq
    <3>2. M[Len(M)] \in Mutation
      BY <3>1
    <3> QED
      BY <2>2, <3>2 DEF NextSequence, Last, Mutation
  <2> QED
    BY <2>1, <2>2
<1> DEFINE n == Len(LinesOf[r])
           m(k) == [line |-> LinesOf[r][k], seq |-> NextSequence(M) + k - 1]
<1>4. Stamped(r, M) = [k \in 1..n |-> m(k)]
  BY <1>2 DEF Stamped
<1>5. \A k \in 1..n : m(k) \in Mutation
  BY <1>2, <1>3 DEF Mutation
<1>6. \A k \in 1..n : m(k).line = LinesOf[r][k] /\ m(k).seq = NextSequence(M) + k - 1
  OBVIOUS
<1> HIDE DEF m, n
<1>7. Stamped(r, M) \in Seq(Mutation) /\ Len(Stamped(r, M)) = n
  BY <1>2, <1>4, <1>5 DEF n
<1> QED
  BY <1>2, <1>3, <1>4, <1>6, <1>7 DEF n

(* A request whose lines are not in the log yet extends it.                *)
LEMMA BatchFits ==
  ASSUME NEW M \in Seq(Mutation), Growing(M), NEW r \in Request,
         \A m \in ToSet(M) : m.line \notin ToSet(LinesOf[r])
  PROVE  /\ Growing(M \o Stamped(r, M))
         /\ \A n \in 0..Len(LinesOf[r]) : Growing(M \o SubSeq(Stamped(r, M), 1, n))
         /\ \A n \in 0..Len(LinesOf[r]) - 1 : Fits(M \o SubSeq(Stamped(r, M), 1, n), Stamped(r, M)[n + 1])
         /\ \A k \in DOMAIN M : M[k] # Stamped(r, M)[1]
<1> DEFINE N == Stamped(r, M)
           s == NextSequence(M)
           l == Len(LinesOf[r])
<1>1. /\ N \in Seq(Mutation) /\ Len(N) = l /\ l \in Nat /\ l > 0 /\ s \in Nat
      /\ \A k \in 1..l : N[k].line = LinesOf[r][k] /\ N[k].seq = s + k - 1
  BY StampedIs
<1>2. Len(M) \in Nat /\ DOMAIN M = 1..Len(M) /\ \A k \in 1..Len(M) : M[k] \in Mutation /\ M[k].seq \in Nat
  <2>1. Len(M) \in Nat /\ DOMAIN M = 1..Len(M) /\ \A k \in 1..Len(M) : M[k] \in Mutation
    BY LenProperties, ElementOfSeq
  <2>2. \A m \in Mutation : m.seq \in Nat
    BY DEF Mutation
  <2> QED
    BY <2>1, <2>2
<1>3. ASSUME NEW k \in 1..Len(M), NEW j \in 1..l
      PROVE  M[k].seq < N[j].seq /\ M[k].line # N[j].line
  <2>1. M[k].seq < s
    <3>1. M # <<>> /\ s = M[Len(M)].seq + 1 /\ Len(M) \in 1..Len(M)
      BY <1>2 DEF NextSequence, Last
    <3>2. M[k].seq <= M[Len(M)].seq
      BY <1>2, <3>1 DEF Growing
    <3> QED
      BY <1>2, <3>1, <3>2
  <2>2. M[k] \in ToSet(M) /\ N[j].line \in ToSet(LinesOf[r])
    <3>1. DOMAIN LinesOf[r] = 1..l
      BY RequestAssumption
    <3> QED
      BY <1>1, <1>2, <3>1 DEF ToSet
  <2> QED
    BY <1>1, <1>2, <2>1, <2>2
<1>4. ASSUME NEW i \in 1..l, NEW j \in 1..l, i < j
      PROVE  N[i].seq < N[j].seq /\ N[i].line # N[j].line
  <2>1. LinesOf[r][i] # LinesOf[r][j]
    <3>1. DOMAIN LinesOf[r] = 1..l /\ IsInjective(LinesOf[r])
      BY RequestAssumption
    <3> QED
      BY <1>4, <3>1 DEF IsInjective
  <2> QED
    BY <1>1, <1>4, <2>1
<1> HIDE DEF N, s, l
<1>5. ASSUME NEW n \in 0..l
      PROVE  /\ M \o SubSeq(N, 1, n) \in Seq(Mutation) /\ Len(M \o SubSeq(N, 1, n)) = Len(M) + n
             /\ \A k \in 1..Len(M) : (M \o SubSeq(N, 1, n))[k] = M[k]
             /\ \A k \in Len(M) + 1..Len(M) + n : (M \o SubSeq(N, 1, n))[k] = N[k - Len(M)]
  <2>1. SubSeq(N, 1, n) \in Seq(Mutation) /\ Len(SubSeq(N, 1, n)) = n
        /\ \A k \in 1..n : SubSeq(N, 1, n)[k] = N[k]
    BY <1>1, First
  <2>2. /\ M \o SubSeq(N, 1, n) \in Seq(Mutation) /\ Len(M \o SubSeq(N, 1, n)) = Len(M) + n
        /\ \A k \in 1..Len(M) + n : (M \o SubSeq(N, 1, n))[k] =
              IF k <= Len(M) THEN M[k] ELSE SubSeq(N, 1, n)[k - Len(M)]
    BY <2>1, ConcatProperties
  <2>3. \A k \in Len(M) + 1..Len(M) + n : k - Len(M) \in 1..n /\ k \in 1..Len(M) + n /\ ~(k <= Len(M))
    BY <1>1, <1>2
  <2> QED
    BY <1>2, <2>1, <2>2, <2>3
<1>6. ASSUME NEW n \in 0..l PROVE Growing(M \o SubSeq(N, 1, n))
  <2> DEFINE L == M \o SubSeq(N, 1, n)
  <2>1. /\ DOMAIN L = 1..Len(M) + n
        /\ \A k \in 1..Len(M) : L[k] = M[k]
        /\ \A k \in Len(M) + 1..Len(M) + n : L[k] = N[k - Len(M)]
    BY <1>5
  <2> HIDE DEF L
  <2>2. SUFFICES ASSUME NEW i \in 1..Len(M) + n, NEW j \in 1..Len(M) + n, i < j
                 PROVE  L[i].seq < L[j].seq /\ L[i].line # L[j].line
    BY <2>1 DEF Growing, L
  <2>3. CASE j <= Len(M)
    BY <1>2, <2>1, <2>2, <2>3 DEF Growing
  <2>4. CASE ~(j <= Len(M))
    <3>0. j \in Len(M) + 1..Len(M) + n /\ j - Len(M) \in 1..l
      BY <1>1, <1>2, <2>4
    <3>1. L[j] = N[j - Len(M)] /\ j - Len(M) \in 1..l
      BY <2>1, <3>0
    <3>2. CASE i <= Len(M)
      BY <1>2, <1>3, <2>1, <3>1, <3>2
    <3>3. CASE ~(i <= Len(M))
      <4>1. L[i] = N[i - Len(M)] /\ i - Len(M) \in 1..l /\ i - Len(M) < j - Len(M)
        BY <1>1, <1>2, <2>1, <2>2, <3>3
      <4> QED
        BY <1>4, <3>1, <4>1
    <3> QED
      BY <3>2, <3>3
  <2> QED
    BY <2>3, <2>4
<1>7. ASSUME NEW n \in 0..l - 1 PROVE Fits(M \o SubSeq(N, 1, n), N[n + 1])
  <2> DEFINE L == M \o SubSeq(N, 1, n)
  <2>0. n \in 0..l /\ n + 1 \in 1..l
    BY <1>1
  <2>1. /\ DOMAIN L = 1..Len(M) + n
        /\ \A k \in 1..Len(M) : L[k] = M[k]
        /\ \A k \in Len(M) + 1..Len(M) + n : L[k] = N[k - Len(M)]
    BY <1>5, <2>0
  <2> HIDE DEF L
  <2>2. ASSUME NEW k \in 1..Len(M) + n
        PROVE  L[k].seq < N[n + 1].seq /\ L[k].line # N[n + 1].line
    <3>1. CASE k <= Len(M)
      BY <1>2, <1>3, <2>0, <2>1, <3>1
    <3>2. CASE ~(k <= Len(M))
      <4>1. L[k] = N[k - Len(M)] /\ k - Len(M) \in 1..l /\ k - Len(M) < n + 1
        BY <1>1, <1>2, <2>1, <3>2
      <4> QED
        BY <1>4, <2>0, <4>1
    <3> QED
      BY <3>1, <3>2
  <2> QED
    BY <2>1, <2>2 DEF Fits, L
<1>8. \A k \in DOMAIN M : M[k] # N[1]
  <2>1. 1 \in 1..l
    BY <1>1
  <2> QED
    BY <1>2, <1>3, <2>1
<1>9. Growing(M \o N)
  <2>1. SubSeq(N, 1, l) = N /\ l \in 0..l
    BY <1>1, SubSeqFull
  <2> QED
    BY <1>6, <2>1
<1> QED
  BY <1>6, <1>7, <1>8, <1>9 DEF N, l

(* The longest tail that may be the batch's is exactly what was written.   *)
LEMMA FailedStartIs ==
  ASSUME NEW M \in Seq(Mutation), NEW N \in Seq(Mutation), N # <<>>,
         \A k \in DOMAIN M : M[k] # N[1],
         NEW n \in 0..Len(N), NEW text,
         text.lines = EncodedLines(M \o SubSeq(N, 1, n)),
         text.rest = <<>> \/ (n < Len(N) /\ text.rest \in Beginnings(Encoded(N[n + 1])))
  PROVE  /\ FailedStart(text, EncodedLines(N)) = {Len(M)}
         /\ SubSeq(text.lines, 1, Len(M)) = EncodedLines(M)
<1> DEFINE a == EncodedLines(M)
           b == EncodedLines(N)
           l == text.lines
<1>1. /\ a \in Seq(Seq(Byte)) /\ Len(a) = Len(M) /\ Len(M) \in Nat
      /\ \A k \in 1..Len(M) : M[k] \in Mutation /\ a[k] = Encoded(M[k])
  BY LinesAre
<1>2. /\ b \in Seq(Seq(Byte)) /\ Len(b) = Len(N) /\ Len(N) \in Nat \ {0}
      /\ \A k \in 1..Len(N) : N[k] \in Mutation /\ b[k] = Encoded(N[k])
  BY LinesAre, EmptySeq
<1>3. /\ l \in Seq(Seq(Byte)) /\ Len(l) = Len(M) + n
      /\ \A k \in 1..Len(M) : l[k] = a[k]
      /\ \A k \in 1..n : l[Len(M) + k] = b[k]
  <2> DEFINE d == EncodedLines(SubSeq(N, 1, n))
  <2>1. l = a \o d
    BY First, Joined
  <2>2. d \in Seq(Seq(Byte)) /\ Len(d) = n
    BY First, LinesAre
  <2>3. \A k \in 1..n : d[k] = b[k]
    <3>1. SubSeq(b, 1, n) = d
      BY First
    <3>2. \A k \in 1..n : SubSeq(b, 1, n)[k] = b[k]
      <4> HIDE DEF b
      <4> QED
        BY <1>2
    <3> QED
      BY <3>1, <3>2
  <2> HIDE DEF a, b, d, l
  <2>4. /\ a \o d \in Seq(Seq(Byte)) /\ Len(a \o d) = Len(a) + Len(d)
        /\ \A k \in 1..Len(a) + Len(d) : (a \o d)[k] = IF k <= Len(a) THEN a[k] ELSE d[k - Len(a)]
    <3>1. a \in Seq(Seq(Byte)) /\ d \in Seq(Seq(Byte))
      BY <1>1, <2>2
    <3> QED
      BY <3>1, ConcatProperties
  <2>5. \A k \in 1..Len(M) : l[k] = a[k]
    BY <1>1, <2>1, <2>2, <2>4
  <2>6. ASSUME NEW k \in 1..n PROVE l[Len(M) + k] = b[k]
    <3>1. /\ Len(M) + k \in 1..Len(a) + Len(d) /\ ~(Len(M) + k <= Len(a))
          /\ (Len(M) + k) - Len(a) = k
      BY <1>1, <2>2
    <3> QED
      BY <2>1, <2>3, <2>4, <3>1
  <2> QED
    BY <1>1, <2>1, <2>2, <2>4, <2>5, <2>6
<1>4. SubSeq(l, 1, Len(M)) = a
  <2> HIDE DEF a, l
  <2>1. SubSeq(l, 1, Len(M)) \in Seq(Seq(Byte)) /\ Len(SubSeq(l, 1, Len(M))) = Len(M)
        /\ \A k \in 1..Len(M) : SubSeq(l, 1, Len(M))[k] = a[k]
    BY <1>1, <1>3
  <2> QED
    BY <1>1, <2>1, SeqEqual
<1> HIDE DEF a, b, l
<1>5. Len(M) \in Tails(text, b)
  <2>1. Len(l) - Len(M) = n /\ Len(M) \in 0..Len(l) /\ n <= Len(b)
    BY <1>1, <1>2, <1>3
  <2>2. n < Len(N) => b[n + 1] = Encoded(N[n + 1])
    BY <1>2
  <2>3. text.rest # <<>> => n < Len(b) /\ text.rest \in Beginnings(b[n + 1])
    BY <1>2, <2>2
  <2> QED
    BY <1>3, <2>1, <2>3 DEF Tails, l
<1>6. ASSUME NEW j \in Tails(text, b) PROVE Len(M) <= j
  <2> SUFFICES ASSUME j < Len(M) PROVE FALSE
    BY <1>1, <1>3 DEF Tails, l
  <2>1. j \in 0..Len(l) /\ \A k \in 1..Len(l) - j : l[j + k] = b[k]
    BY <1>6 DEF Tails, l
  <2>2. 1 \in 1..Len(l) - j /\ j + 1 \in 1..Len(M)
    BY <1>1, <1>3, <2>1
  <2>3. l[j + 1] = b[1]
    BY <2>1, <2>2
  <2>4. Encoded(M[j + 1]) = Encoded(N[1]) /\ M[j + 1] \in Mutation /\ N[1] \in Mutation
    BY <1>1, <1>2, <1>3, <2>2, <2>3
  <2>5. M[j + 1] = N[1]
    BY <2>4, EncodedIs
  <2> QED
    BY <2>2, <2>5
<1>7. FailedStart(text, b) = {Len(M)}
  <2>1. \A j \in Tails(text, b) : j \in Int
    BY <1>3 DEF Tails, l
  <2>2. \A i \in FailedStart(text, b) : i = Len(M)
    BY <1>1, <1>5, <1>6, <2>1 DEF FailedStart
  <2>3. Len(M) \in FailedStart(text, b)
    BY <1>5, <1>6 DEF FailedStart
  <2> QED
    BY <2>2, <2>3
<1> QED
  BY <1>4, <1>7 DEF a, b, l

-----------------------------------------------------------------------------
(* What the invariant says of the properties                               *)

LEMMA LogLines ==
  ASSUME Sound
  PROVE  /\ Len(Log) \in Nat /\ DOMAIN Log = 1..Len(Log)
         /\ \A k \in 1..Len(Log) : Log[k] \in Mutation
         /\ file.lines = EncodedLines(Log) /\ Len(file.lines) = Len(Log)
         /\ \A k \in 1..Len(Log) : file.lines[k] = Encoded(Log[k])
<1>1. Log \in Seq(Mutation) /\ file = [lines |-> EncodedLines(Log), rest |-> file.rest]
  BY DEF Sound
<1> DEFINE L == Log
<1>2. file.lines = EncodedLines(L)
  <2> HIDE DEF L
  <2>1. file = [lines |-> EncodedLines(L), rest |-> file.rest]
    BY <1>1 DEF L
  <2> QED
    BY <2>1
<1> HIDE DEF L
<1>3. L \in Seq(Mutation)
  BY <1>1 DEF L
<1>4. /\ Len(L) \in Nat /\ DOMAIN L = 1..Len(L) /\ \A k \in 1..Len(L) : L[k] \in Mutation
      /\ Len(EncodedLines(L)) = Len(L) /\ \A k \in 1..Len(L) : EncodedLines(L)[k] = Encoded(L[k])
  BY <1>3, LinesAre, LenProperties
<1> QED
  BY <1>2, <1>4 DEF L

LEMMA SoundHistory == ASSUME IInv PROVE HistoryIsSound
<1> DEFINE L == Log
<1>1. L \in Seq(Mutation) /\ Growing(L) /\ file = [lines |-> EncodedLines(L), rest |-> file.rest]
  BY DEF IInv, Sound
<1> HIDE DEF L
<1>2. [file EXCEPT !.rest = <<>>] = [lines |-> EncodedLines(L), rest |-> <<>>]
  BY <1>1
<1> QED
  BY <1>1, <1>2, LoadsIs DEF HistoryIsSound

LEMMA TrueMirror == ASSUME IInv PROVE MirrorIsFile
<1>1. SUFFICES ASSUME At(current, "idle"), ~uncertain[current]
               PROVE  file = [lines |-> EncodedLines(mirror[current]), rest |-> <<>>]
  BY DEF MirrorIsFile
<1>2. current \in Handle
  BY DEF IInv, Turns
<1>3. mirror[current] = Log /\ file.rest = <<>>
  BY <1>1, <1>2 DEF IInv, Mirrors, Same
<1>4. file = [lines |-> EncodedLines(Log), rest |-> file.rest]
  BY DEF IInv, Sound
<1> QED
  BY <1>3, <1>4

(* Where a line of the file stands is where it stands in the log; the last *)
(* line may be one that the log does not have yet.                         *)
LEMMA PlacesAre ==
  ASSUME IInv, NEW line
  PROVE  /\ Places(line) \subseteq {k \in 1..Len(Log) : Log[k].line = line} \cup {Len(Log) + 1}
         /\ \A k \in 1..Len(Log) : Log[k].line = line => k \in Places(line) /\ Places(line) \subseteq 1..Len(Log)
         /\ DOMAIN Lines(file) \subseteq 1..Len(Log) + 1 /\ 1..Len(Log) \subseteq DOMAIN Lines(file)
         /\ Len(Log) + 1 \in Places(line) => Parses(file.rest) /\ Decoded(file.rest).line = line
<1> DEFINE L == Log
           lines == Lines(file)
<1>1. /\ Len(L) \in Nat /\ DOMAIN L = 1..Len(L)
      /\ \A k \in 1..Len(L) : L[k] \in Mutation
      /\ file.lines = EncodedLines(L) /\ Len(file.lines) = Len(L)
      /\ \A k \in 1..Len(L) : file.lines[k] = Encoded(L[k])
  BY LogLines DEF IInv
<1>2. L \in Seq(Mutation) /\ file = [lines |-> EncodedLines(L), rest |-> file.rest]
      /\ (file.rest = <<>> \/ \E m \in Mutation : file.rest \in Beginnings(Encoded(m)) /\ Fits(L, m))
  BY DEF IInv, Sound
<1> HIDE DEF L
<1>3. \A k \in 1..Len(L) : /\ Parses(file.lines[k]) /\ Decoded(file.lines[k]) = L[k]
  BY <1>1, EncodedIs
<1>4. EncodedLines(L) \in Seq(Seq(Byte)) /\ Len(EncodedLines(L)) = Len(L)
  BY <1>2, LinesAre
<1>5. CASE file.rest = <<>>
  <2>1. lines = file.lines /\ DOMAIN lines = 1..Len(L)
    BY <1>1, <1>4, <1>5 DEF Lines
  <2> HIDE DEF lines
  <2>2. Places(line) = {k \in 1..Len(L) : L[k].line = line}
    BY <1>3, <2>1 DEF Places, lines
  <2> QED
    BY <1>1, <2>1, <2>2 DEF L, lines
<1>6. CASE file.rest # <<>>
  <2>1. PICK m \in Mutation : file.rest \in Beginnings(Encoded(m)) /\ Fits(L, m)
    BY <1>2, <1>6
  <2>2. file.rest \in Seq(Byte) /\ (Parses(file.rest) => Decoded(file.rest) = m)
    BY <2>1, BeginningIs, EncodedIs
  <2>3. lines = Append(EncodedLines(L), file.rest)
    BY <1>1, <1>6 DEF Lines
  <2>4. /\ DOMAIN lines = 1..Len(L) + 1 /\ lines[Len(L) + 1] = file.rest
        /\ \A k \in 1..Len(L) : lines[k] = file.lines[k]
    <3> DEFINE a == EncodedLines(L)
               t == file.rest
    <3>1. a \in Seq(Seq(Byte)) /\ t \in Seq(Byte) /\ Len(a) = Len(L) /\ Len(L) \in Nat
      BY <1>1, <1>4, <2>2
    <3> HIDE DEF a, t, lines
    <3>2. /\ Append(a, t) \in Seq(Seq(Byte)) /\ Len(Append(a, t)) = Len(L) + 1
          /\ Append(a, t)[Len(L) + 1] = t /\ \A k \in 1..Len(L) : Append(a, t)[k] = a[k]
      BY <3>1, AppendProperties
    <3>3. lines = Append(a, t) /\ a = file.lines
      BY <1>1, <2>3 DEF a, t
    <3> QED
      BY <3>2, <3>3 DEF t
  <2> HIDE DEF lines
  <2>5. \A k \in 1..Len(L) + 1 : k \in Places(line) <=>
           IF k = Len(L) + 1 THEN Parses(file.rest) /\ Decoded(file.rest).line = line
           ELSE L[k].line = line
    BY <1>1, <1>3, <2>4 DEF Places, lines
  <2>6. Places(line) \subseteq 1..Len(L) + 1
    BY <2>4 DEF Places, lines
  <2>7. \A k \in 1..Len(L) : L[k].line = line => Len(L) + 1 \notin Places(line)
    BY <1>1, <2>1, <2>2, <2>5 DEF Fits
  <2> QED
    BY <1>1, <2>4, <2>5, <2>6, <2>7 DEF L, lines
<1> QED
  BY <1>5, <1>6

LEMMA KeptLonger ==
  ASSUME NEW M \in Seq(Mutation), NEW N \in Seq(Mutation), NEW requests, Kept(M, requests)
  PROVE  Kept(M \o N, requests)
<1>1. \A p \in DOMAIN M : p \in DOMAIN (M \o N) /\ (M \o N)[p] = M[p]
  BY ConcatProperties, LenProperties
<1> DEFINE L == M \o N
<1> HIDE DEF L
<1>2. \A p \in DOMAIN M : p \in DOMAIN L /\ L[p] = M[p]
  BY <1>1 DEF L
<1>3. Kept(L, requests)
  BY <1>2 DEF Kept
<1> QED
  BY <1>3 DEF L

(* What is on disk of a batch comes after what was there before it.        *)
LEMMA LogInCall ==
  ASSUME IInv, InCall
  PROVE  \E n \in 0..Len(Batch) : /\ Base \in Seq(Mutation) /\ Batch \in Seq(Mutation)
                                  /\ Log = Base \o SubSeq(Batch, 1, n)
<1>1. current \in Handle /\ Base \in Seq(Mutation) /\ call.request \in Request
  BY DEF IInv, Turns, Base, Calling
<1>2. Batch \in Seq(Mutation) /\ Len(Batch) \in Nat
  BY <1>1, StampedIs DEF Batch
<1>3. CASE At(current, "writing")
  <2>1. Log = Base
    BY <1>3 DEF IInv, Calling, Same, Base
  <2>2. SubSeq(Batch, 1, 0) = <<>>
    BY <1>2
  <2>3. Base \o <<>> = Base
    BY <1>1, ConcatEmptySeq
  <2>4. 0 \in 0..Len(Batch)
    BY <1>2
  <2> QED
    BY <1>1, <1>2, <2>1, <2>2, <2>3, <2>4
<1>4. CASE At(current, "applying")
  <2>1. Log = Base \o Batch
    BY <1>4 DEF IInv, Calling
  <2>2. SubSeq(Batch, 1, Len(Batch)) = Batch /\ Len(Batch) \in 0..Len(Batch)
    BY <1>2, SubSeqFull
  <2> QED
    BY <1>1, <1>2, <2>1, <2>2
<1>5. CASE At(current, "cutting")
  BY <1>1, <1>2, <1>5 DEF IInv, Calling, Landed
<1> QED
  BY <1>3, <1>4, <1>5 DEF InCall, At

LEMMA LogKept == ASSUME IInv PROVE Kept(Log, acked)
<1>1. CASE ~InCall
  BY <1>1 DEF IInv, Answers
<1>2. CASE InCall
  <2>1. PICK n \in 0..Len(Batch) : /\ Base \in Seq(Mutation) /\ Batch \in Seq(Mutation)
                                   /\ Log = Base \o SubSeq(Batch, 1, n)
    BY <1>2, LogInCall
  <2>2. SubSeq(Batch, 1, n) \in Seq(Mutation)
    BY <2>1, First
  <2>3. Kept(Base, acked)
    BY <1>2 DEF IInv, Answers
  <2>4. Kept(Base \o SubSeq(Batch, 1, n), acked)
    BY <2>1, <2>2, <2>3, KeptLonger
  <2> QED
    BY <2>1, <2>4
<1> QED
  BY <1>1, <1>2

LEMMA TrueAnswers == ASSUME IInv PROVE AnswersAreTrue
<1> DEFINE L == Log
<1>1. L \in Seq(Mutation) /\ Growing(L) /\ Len(L) \in Nat /\ DOMAIN L = 1..Len(L)
  BY LogLines DEF IInv, Sound
<1>2. Kept(L, acked)
  BY LogKept
<1>3. ASSUME NEW line
      PROVE  /\ Places(line) \subseteq {k \in 1..Len(L) : L[k].line = line} \cup {Len(L) + 1}
             /\ \A k \in 1..Len(L) : L[k].line = line => k \in Places(line) /\ Places(line) \subseteq 1..Len(L)
             /\ 1..Len(L) \subseteq DOMAIN Lines(file)
             /\ Len(L) + 1 \in Places(line) => Parses(file.rest) /\ Decoded(file.rest).line = line
  BY PlacesAre
<1>4. \A r \in Request : answer[r] = "failed" =>
         \A line \in ToSet(LinesOf[r]) :
            /\ \A k \in DOMAIN L : L[k].line # line
            /\ Parses(file.rest) => Decoded(file.rest).line # line
  BY DEF IInv, Answers
<1> HIDE DEF L
<1>5. ASSUME NEW i \in 1..Len(L), NEW j \in 1..Len(L), L[i].line = L[j].line PROVE i = j
  BY <1>1, <1>5 DEF Growing
<1>6. ASSUME NEW k \in 1..Len(L) PROVE Places(L[k].line) = {k}
  <2>1. /\ Places(L[k].line) \subseteq {i \in 1..Len(L) : L[i].line = L[k].line} \cup {Len(L) + 1}
        /\ k \in Places(L[k].line) /\ Places(L[k].line) \subseteq 1..Len(L)
    BY <1>3
  <2>2. Len(L) + 1 \notin 1..Len(L)
    BY <1>1
  <2> QED
    BY <1>5, <2>1, <2>2
<1>7. ASSUME NEW r \in ToSet(acked), NEW line \in ToSet(LinesOf[r])
      PROVE  \E k \in DOMAIN Lines(file) : Places(line) = {k}
  <2>1. PICK i \in DOMAIN acked : r = acked[i]
    BY <1>7 DEF ToSet
  <2>2. PICK a \in DOMAIN LinesOf[acked[i]] : line = LinesOf[acked[i]][a]
    BY <1>7, <2>1 DEF ToSet
  <2>3. PICK p \in DOMAIN L : L[p].line = line
    BY <1>2, <2>2 DEF Kept
  <2>4. p \in 1..Len(L) /\ Places(line) = {p}
    BY <1>1, <1>6, <2>3
  <2>5. p \in DOMAIN Lines(file)
    BY <1>3, <2>4
  <2> QED
    BY <2>4, <2>5
<1>8. ASSUME NEW i \in DOMAIN acked, NEW j \in DOMAIN acked,
             NEW a \in DOMAIN LinesOf[acked[i]], NEW b \in DOMAIN LinesOf[acked[j]],
             i < j \/ (i = j /\ a < b),
             NEW p \in Places(LinesOf[acked[i]][a]), NEW q \in Places(LinesOf[acked[j]][b])
      PROVE  p < q
  <2>1. PICK x \in DOMAIN L, y \in DOMAIN L : /\ x < y
                                              /\ L[x].line = LinesOf[acked[i]][a]
                                              /\ L[y].line = LinesOf[acked[j]][b]
    BY <1>2, <1>8 DEF Kept
  <2>2. p = x /\ q = y
    BY <1>1, <1>6, <2>1
  <2> QED
    BY <2>1, <2>2
<1>9. ASSUME NEW r \in Request, answer[r] = "failed", NEW line \in ToSet(LinesOf[r])
      PROVE  Places(line) = {}
  <2>1. Places(line) \subseteq {k \in 1..Len(L) : L[k].line = line} \cup {Len(L) + 1}
    BY <1>3
  <2>2. Len(L) + 1 \notin Places(line)
    BY <1>3, <1>4, <1>9
  <2>3. \A k \in 1..Len(L) : L[k].line # line
    BY <1>1, <1>4, <1>9
  <2> QED
    BY <2>1, <2>2, <2>3
<1> QED
  BY <1>7, <1>8, <1>9 DEF AnswersAreTrue

-----------------------------------------------------------------------------
(* The file after a step                                                   *)

LEMMA FileIs ==
  ASSUME NEW L \in Seq(Mutation), Growing(L), NEW text, file' = text,
         text = [lines |-> EncodedLines(L), rest |-> text.rest],
         text.rest = <<>> \/ \E m \in Mutation : text.rest \in Beginnings(Encoded(m)) /\ Fits(L, m)
  PROVE  Sound' /\ Log' = L /\ (file.rest)' = text.rest
<1>1. text.lines = EncodedLines(L)
  <2> DEFINE a == EncodedLines(L)
  <2> HIDE DEF a
  <2>1. text = [lines |-> a, rest |-> text.rest]
    BY DEF a
  <2>2. text.lines = a
    BY <2>1
  <2> QED
    BY <2>2 DEF a
<1>2. Log' = [k \in DOMAIN text.lines |-> Decoded(text.lines[k])]
  BY DEF Log
<1>3. Log' = L
  BY <1>1, <1>2, LogIs
<1> QED
  BY <1>3 DEF Sound

LEMMA FileSame == ASSUME UNCHANGED file PROVE Log' = Log /\ (Sound => Sound')
<1>1. Log' = Log
  BY DEF Log
<1> QED
  BY <1>1 DEF Sound

(* A write puts on disk the first lines of the batch and at most the       *)
(* beginning of the next: the log stays sound, and shows no line of a      *)
(* request that failed before.                                             *)
LEMMA Writes ==
  ASSUME IInv, At(current, "writing"), NEW n \in 0..Len(Batch), NEW text, file' = text,
         text = [lines |-> EncodedLines(Base \o SubSeq(Batch, 1, n)), rest |-> text.rest],
         text.rest = <<>> \/ (n < Len(Batch) /\ text.rest \in Beginnings(Encoded(Batch[n + 1])))
  PROVE  /\ Sound'
         /\ Log' = Base \o SubSeq(Batch, 1, n)
         /\ (file.rest)' = text.rest
         /\ Kept(Log', acked)
         /\ \A r \in Request : answer[r] = "failed" =>
               \A line \in ToSet(LinesOf[r]) :
                  /\ \A k \in DOMAIN Log' : Log'[k].line # line
                  /\ Parses(text.rest) => Decoded(text.rest).line # line
<1> DEFINE L == Base \o SubSeq(Batch, 1, n)
           request == call.request
<1>1. /\ current \in Handle /\ Base \in Seq(Mutation) /\ request \in Request /\ InCall
      /\ Growing(Base) /\ \A m \in ToSet(Base) : m.line \notin ToSet(LinesOf[request])
      /\ answer[request] = "pending" /\ Base = Log
  BY DEF IInv, Turns, Base, Calling, InCall, At, Same
<1>2. /\ Batch \in Seq(Mutation) /\ Len(Batch) = Len(LinesOf[request]) /\ Len(Batch) \in Nat \ {0}
      /\ \A k \in 1..Len(Batch) : Batch[k].line = LinesOf[request][k]
  BY <1>1, StampedIs DEF Batch
<1>3. \A k \in 1..Len(Batch) : Batch[k].line \in ToSet(LinesOf[request])
  <2>1. DOMAIN LinesOf[request] = 1..Len(LinesOf[request])
    BY <1>1, RequestAssumption
  <2> QED
    BY <1>2, <2>1 DEF ToSet
<1>4. SubSeq(Batch, 1, n) \in Seq(Mutation) /\ Len(SubSeq(Batch, 1, n)) = n
      /\ \A k \in 1..n : SubSeq(Batch, 1, n)[k] = Batch[k]
  BY <1>2, First
<1>5. L \in Seq(Mutation) /\ Growing(L) /\ (n < Len(Batch) => Fits(L, Batch[n + 1]))
  <2>1. \A k \in 0..Len(LinesOf[request]) : Growing(Base \o SubSeq(Stamped(request, Base), 1, k))
    BY <1>1, BatchFits
  <2>2. \A k \in 0..Len(LinesOf[request]) - 1 :
           Fits(Base \o SubSeq(Stamped(request, Base), 1, k), Stamped(request, Base)[k + 1])
    BY <1>1, BatchFits
  <2>3. n < Len(Batch) => n \in 0..Len(Batch) - 1
    BY <1>2
  <2> QED
    BY <1>1, <1>2, <1>4, <2>1, <2>2, <2>3, Joined DEF Batch
<1>6. n < Len(Batch) => n + 1 \in 1..Len(Batch) /\ Batch[n + 1] \in Mutation
  BY <1>2
<1>7. Sound' /\ Log' = L /\ (file.rest)' = text.rest
  <2> HIDE DEF L
  <2>1. text = [lines |-> EncodedLines(L), rest |-> text.rest]
    BY DEF L
  <2>2. text.rest = <<>> \/ \E m \in Mutation : text.rest \in Beginnings(Encoded(m)) /\ Fits(L, m)
    BY <1>5, <1>6
  <2> QED
    BY <1>5, <2>1, <2>2, FileIs
<1>8. Kept(L, acked)
  <2>1. Kept(Base, acked)
    BY <1>1, LogKept
  <2> QED
    BY <1>1, <1>4, <2>1, KeptLonger
<1>9. ASSUME NEW r \in Request, answer[r] = "failed", NEW line \in ToSet(LinesOf[r])
      PROVE  /\ \A k \in DOMAIN L : L[k].line # line
             /\ Parses(text.rest) => Decoded(text.rest).line # line
  <2>1. line \notin ToSet(LinesOf[request])
    <3>1. r # request
      BY <1>1, <1>9
    <3> QED
      BY <1>1, <1>9, <3>1, RequestAssumption
  <2>2. \A k \in 1..Len(Batch) : Batch[k].line # line
    BY <1>3, <2>1
  <2>3. \A k \in DOMAIN Base : Base[k].line # line
    BY <1>1, <1>9 DEF IInv, Answers
  <2>4. \A k \in DOMAIN L : L[k].line # line
    <3>1. DOMAIN Base = 1..Len(Base) /\ Len(Base) \in Nat
      BY <1>1, LenProperties
    <3>2. DOMAIN L = 1..Len(Base) + n /\ \A k \in 1..Len(Base) + n :
             L[k] = IF k <= Len(Base) THEN Base[k] ELSE SubSeq(Batch, 1, n)[k - Len(Base)]
      BY <1>1, <1>4, ConcatProperties, LenProperties
    <3> HIDE DEF L
    <3> SUFFICES ASSUME NEW k \in 1..Len(Base) + n PROVE L[k].line # line
      BY <3>2
    <3>3. CASE k <= Len(Base)
      BY <2>3, <3>1, <3>2, <3>3
    <3>4. CASE ~(k <= Len(Base))
      <4>1. k - Len(Base) \in 1..n /\ k - Len(Base) \in 1..Len(Batch)
        BY <1>2, <3>1, <3>4
      <4> QED
        BY <1>4, <2>2, <3>2, <3>4, <4>1
    <3> QED
      BY <3>3, <3>4
  <2>5. ASSUME Parses(text.rest) PROVE Decoded(text.rest).line # line
    <3>1. text.rest # <<>>
      BY <2>5 DEF Parses
    <3>2. Decoded(text.rest) = Batch[n + 1] /\ n + 1 \in 1..Len(Batch)
      BY <1>6, <2>5, <3>1, BeginningIs, EncodedIs
    <3> QED
      BY <2>2, <3>2
  <2> QED
    BY <2>4, <2>5
<1> QED
  BY <1>7, <1>8, <1>9

-----------------------------------------------------------------------------
(* Requests                                                                *)

LEMMA SubmitKeeps ==
  ASSUME ~MayOverlap, IInv, NEW h \in Handle, NEW r \in Request, Submit(h, r) PROVE IInv'
<1> USE DEF At, GoTo
<1>1. /\ h = current /\ phase[h] = "idle" /\ ~uncertain[h] /\ answer[r] # "done"
      /\ \A m \in ToSet(mirror[h]) : m.line \notin ToSet(LinesOf[r])
      /\ call' = [request |-> r, batch |-> EncodedLines(Stamped(r, mirror[h]))]
      /\ answer' = [answer EXCEPT ![r] = "pending"]
      /\ \A g \in Handle \ {h} : phase[g] = "closed"
      /\ phase' = [phase EXCEPT ![h] = "writing"]
      /\ UNCHANGED <<file, current, mirror, uncertain, todo, acked, faults>>
  BY DEF Submit
<1>2. Log' = Log /\ Sound'
  BY <1>1, FileSame DEF IInv
<1>3. mirror[h] = Log /\ file.rest = <<>>
  BY <1>1 DEF IInv, Mirrors, Same
<1>4. phase'[h] = "writing" /\ \A g \in Handle \ {h} : phase'[g] = "closed"
  BY <1>1 DEF IInv, Turns
<1>5. Turns'
  BY <1>1, <1>4 DEF IInv, Turns
<1>6. Mirrors'
  BY <1>1, <1>4 DEF Mirrors
<1>7. Base' = Log /\ call'.request = r /\ Batch' = Stamped(r, Log) /\ InCall'
  BY <1>1, <1>3, <1>4 DEF Base, Batch, InCall
<1>8. answer \in [Request -> {"none", "pending", "done", "failed", "unsure"}]
  BY DEF IInv, Answers
<1>9. Calling'
  <2>1. call'.batch = EncodedLines(Batch')
    BY <1>1, <1>3, <1>7
  <2>2. Growing(Log)
    BY DEF IInv, Sound
  <2>3. answer'[r] = "pending"
    BY <1>1, <1>8
  <2>4. Same(current)'
    BY <1>1, <1>2, <1>3 DEF Same
  <2>5. current' = h
    BY <1>1
  <2> QED
    BY <1>1, <1>3, <1>4, <1>7, <2>1, <2>2, <2>3, <2>4, <2>5 DEF Calling
<1>10. Answers'
  <2>1. Kept(Log, acked)
    BY LogKept
  <2>2. \A i \in DOMAIN acked : answer'[acked[i]] = "done"
    BY <1>1, <1>8 DEF IInv, Answers
  <2>3. \A s \in Request : answer'[s] = "failed" => answer[s] = "failed"
    BY <1>1, <1>8
  <2> QED
    BY <1>1, <1>2, <1>7, <1>8, <2>1, <2>2, <2>3 DEF IInv, Answers
<1> QED
  BY <1>2, <1>5, <1>6, <1>9, <1>10 DEF IInv

(* Everything a step of a request leaves alone.                            *)
LEMMA OthersClosed ==
  ASSUME IInv, InCall PROVE \A g \in Handle \ {current} : phase[g] = "closed"
BY DEF IInv, Turns, InCall, At

LEMMA LandKeeps == ASSUME IInv, NEW h \in Handle, Land(h) PROVE IInv'
<1> USE DEF At, GoTo
<1>1. /\ h = current /\ phase[h] = "writing" /\ file' = Extended(file, call.batch)
      /\ phase' = [phase EXCEPT ![h] = "applying"]
      /\ UNCHANGED <<current, mirror, uncertain, todo, call, answer, acked, faults>>
  BY DEF Land, calls
<1>2. InCall /\ call.batch = EncodedLines(Batch) /\ Same(current)
  BY <1>1 DEF IInv, Calling, InCall
<1>3. Base \in Seq(Mutation) /\ Batch \in Seq(Mutation) /\ Len(Batch) \in 0..Len(Batch)
  BY <1>2, StampedIs DEF IInv, Turns, Calling, Base, Batch
<1>4. SubSeq(Batch, 1, Len(Batch)) = Batch
  BY <1>3, SubSeqFull
<1>5. file = [lines |-> EncodedLines(Base), rest |-> <<>>]
  BY <1>2 DEF IInv, Sound, Same, Base
<1>6. file' = [lines |-> EncodedLines(Base \o Batch), rest |-> <<>>]
  BY <1>1, <1>2, <1>3, <1>5, ExtendedIs
<1>7. /\ Sound' /\ Log' = Base \o Batch /\ (file.rest)' = <<>>
      /\ Kept(Log', acked)
      /\ \A r \in Request : answer[r] = "failed" =>
               \A line \in ToSet(LinesOf[r]) : \A k \in DOMAIN Log' : Log'[k].line # line
  <2> DEFINE text == [lines |-> EncodedLines(Base \o Batch), rest |-> <<>>]
  <2>1. text.rest = <<>>
    OBVIOUS
  <2> HIDE DEF text
  <2>2. file' = text
    BY <1>6 DEF text
  <2>3. text = [lines |-> EncodedLines(Base \o SubSeq(Batch, 1, Len(Batch))), rest |-> text.rest]
    BY <1>4, <2>1 DEF text
  <2> QED
    BY <1>1, <1>3, <1>4, <2>1, <2>2, <2>3, Writes
<1>8. phase'[h] = "applying" /\ \A g \in Handle \ {h} : phase'[g] = "closed"
  BY <1>1, <1>2, OthersClosed DEF IInv, Turns
<1>9. Turns'
  BY <1>1, <1>8 DEF IInv, Turns
<1>10. Mirrors'
  BY <1>1, <1>8 DEF Mirrors
<1>11. Base' = Base /\ Batch' = Batch /\ InCall'
  BY <1>1, <1>8 DEF Base, Batch, InCall
<1>12. Calling'
  BY <1>1, <1>2, <1>7, <1>8, <1>11 DEF IInv, Calling
<1>13. Answers'
  <2>1. Kept(Base, acked) /\ ~Parses(<<>>)
    BY <1>2 DEF IInv, Answers, Parses
  <2> QED
    BY <1>1, <1>7, <1>11, <2>1 DEF IInv, Answers
<1> QED
  BY <1>7, <1>9, <1>10, <1>12, <1>13 DEF IInv

LEMMA KeptNext ==
  ASSUME NEW M \in Seq(Mutation), NEW requests \in Seq(Request), NEW r \in Request, Kept(M, requests)
  PROVE  Kept(M \o Stamped(r, M), Append(requests, r))
<1> DEFINE N == Stamped(r, M)
           L == M \o N
           all == Append(requests, r)
           last == Len(requests) + 1
<1>1. /\ N \in Seq(Mutation) /\ Len(N) = Len(LinesOf[r])
      /\ DOMAIN LinesOf[r] = 1..Len(LinesOf[r]) /\ Len(LinesOf[r]) \in Nat
      /\ \A k \in 1..Len(LinesOf[r]) : N[k].line = LinesOf[r][k]
  BY StampedIs, RequestAssumption
<1>2. Len(M) \in Nat /\ DOMAIN M = 1..Len(M) /\ Len(requests) \in Nat /\ DOMAIN requests = 1..Len(requests)
  BY LenProperties
<1> HIDE DEF N
<1>3. /\ DOMAIN L = 1..Len(M) + Len(N)
      /\ \A k \in 1..Len(M) + Len(N) : L[k] = IF k <= Len(M) THEN M[k] ELSE N[k - Len(M)]
  <2>1. N \in Seq(Mutation)
    BY <1>1
  <2>2. /\ L \in Seq(Mutation) /\ Len(L) = Len(M) + Len(N)
        /\ \A k \in 1..Len(M) + Len(N) : L[k] = IF k <= Len(M) THEN M[k] ELSE N[k - Len(M)]
    BY <2>1, ConcatProperties
  <2> HIDE DEF L
  <2>3. DOMAIN L = 1..Len(L)
    BY <2>2
  <2> QED
    BY <2>2, <2>3
<1> HIDE DEF L
<1>4. \A p \in DOMAIN M : p \in DOMAIN L /\ L[p] = M[p] /\ p <= Len(M)
  BY <1>1, <1>2, <1>3
<1>5. ASSUME NEW a \in DOMAIN LinesOf[r]
      PROVE  Len(M) + a \in DOMAIN L /\ L[Len(M) + a].line = LinesOf[r][a] /\ Len(M) + a > Len(M)
  <2>1. Len(M) + a \in 1..Len(M) + Len(N) /\ ~(Len(M) + a <= Len(M)) /\ (Len(M) + a) - Len(M) = a
    BY <1>1, <1>2
  <2> QED
    BY <1>1, <1>2, <1>3, <2>1
<1>6. /\ DOMAIN all = 1..last /\ all[last] = r
      /\ \A i \in 1..Len(requests) : all[i] = requests[i]
  BY <1>2, AppendProperties, LenProperties
<1> HIDE DEF all
<1>7. ASSUME NEW i \in DOMAIN all, NEW a \in DOMAIN LinesOf[all[i]]
      PROVE  \E p \in DOMAIN L : L[p].line = LinesOf[all[i]][a]
  <2>1. CASE i = last
    <3>1. all[i] = r
      BY <1>6, <2>1
    <3> QED
      BY <1>5, <3>1
  <2>2. CASE i \in 1..Len(requests)
    <3>1. all[i] = requests[i] /\ i \in DOMAIN requests
      BY <1>2, <1>6, <2>2
    <3>2. PICK p \in DOMAIN M : M[p].line = LinesOf[requests[i]][a]
      BY <3>1 DEF Kept
    <3> QED
      BY <1>4, <3>1, <3>2
  <2> QED
    BY <1>2, <1>6, <2>1, <2>2
<1>8. ASSUME NEW i \in DOMAIN all, NEW j \in DOMAIN all,
             NEW a \in DOMAIN LinesOf[all[i]], NEW b \in DOMAIN LinesOf[all[j]],
             i < j \/ (i = j /\ a < b)
      PROVE  \E p, q \in DOMAIN L : /\ p < q
                                    /\ L[p].line = LinesOf[all[i]][a]
                                    /\ L[q].line = LinesOf[all[j]][b]
  <2>1. CASE j = last /\ i = last
    <3>1. all[i] = r /\ all[j] = r /\ a < b
      BY <1>2, <1>6, <1>8, <2>1
    <3>2. Len(M) + a < Len(M) + b
      BY <1>1, <1>2, <3>1
    <3> QED
      BY <1>5, <3>1, <3>2
  <2>2. CASE j = last /\ i \in 1..Len(requests)
    <3>1. all[i] = requests[i] /\ i \in DOMAIN requests /\ all[j] = r
      BY <1>2, <1>6, <2>2
    <3>2. PICK p \in DOMAIN M : M[p].line = LinesOf[requests[i]][a]
      BY <3>1 DEF Kept
    <3>3. p <= Len(M) /\ Len(M) + b > Len(M) /\ p \in Int
      BY <1>2, <1>4, <1>5, <3>1
    <3>4. p < Len(M) + b
      BY <1>1, <1>2, <3>1, <3>3
    <3> QED
      BY <1>4, <1>5, <3>1, <3>2, <3>4
  <2>3. CASE j \in 1..Len(requests)
    <3>1. i \in 1..Len(requests)
      BY <1>2, <1>6, <1>8, <2>3
    <3>2. all[i] = requests[i] /\ i \in DOMAIN requests /\ all[j] = requests[j] /\ j \in DOMAIN requests
      BY <1>2, <1>6, <2>3, <3>1
    <3>3. PICK p \in DOMAIN M, q \in DOMAIN M : /\ p < q
                                               /\ M[p].line = LinesOf[requests[i]][a]
                                               /\ M[q].line = LinesOf[requests[j]][b]
      BY <1>8, <3>2 DEF Kept
    <3> QED
      BY <1>4, <3>2, <3>3
  <2> QED
    BY <1>2, <1>6, <1>8, <2>1, <2>2, <2>3
<1> QED
  BY <1>7, <1>8 DEF Kept, all, L, N

LEMMA ApplyKeeps == ASSUME IInv, NEW h \in Handle, Apply(h) PROVE IInv'
<1> USE DEF At, GoTo
<1> DEFINE request == call.request
<1>1. /\ h = current /\ phase[h] = "applying"
      /\ mirror' = [mirror EXCEPT ![h] = @ \o Stamped(call.request, @)]
      /\ answer' = [answer EXCEPT ![call.request] = "done"]
      /\ acked' = Append(acked, call.request)
      /\ call' = NoCall
      /\ phase' = [phase EXCEPT ![h] = "idle"]
      /\ UNCHANGED <<file, current, uncertain, todo, faults>>
  BY DEF Apply
<1>2. InCall /\ Log = Base \o Batch /\ file.rest = <<>> /\ request \in Request /\ answer[request] = "pending"
  BY <1>1 DEF IInv, Calling, InCall
<1>3. Base \in Seq(Mutation) /\ Batch = Stamped(request, Base) /\ Log \in Seq(Mutation)
  BY DEF IInv, Turns, Sound, Base, Batch
<1>4. Log' = Log /\ Sound'
  BY <1>1, FileSame DEF IInv
<1>5. /\ mirror'[h] = Log /\ phase'[h] = "idle" /\ current' = h
      /\ \A g \in Handle \ {h} : phase'[g] = "closed" /\ mirror'[g] = mirror[g]
  BY <1>1, <1>2, OthersClosed DEF IInv, Turns, Base, Batch
<1>6. Turns'
  BY <1>1, <1>3, <1>5 DEF IInv, Turns
<1>7. Mirrors'
  <2>1. Same(h)'
    BY <1>1, <1>2, <1>4, <1>5 DEF Same
  <2> QED
    BY <1>5, <2>1 DEF Mirrors
<1>8. Calling' /\ ~InCall'
  BY <1>1, <1>5 DEF Calling, InCall
<1>9. Answers'
  <2>1. acked \in Seq(Request) /\ answer \in [Request -> {"none", "pending", "done", "failed", "unsure"}]
        /\ \A i \in DOMAIN acked : answer[acked[i]] = "done"
    BY DEF IInv, Answers
  <2>2. Kept(Log, Append(acked, request))
    <3>1. Kept(Base, acked)
      BY <1>2 DEF IInv, Answers
    <3> QED
      BY <1>2, <1>3, <2>1, <3>1, KeptNext
  <2>3. acked' \in Seq(Request) /\ Len(acked') = Len(acked) + 1 /\ acked'[Len(acked) + 1] = request
        /\ \A i \in 1..Len(acked) : acked'[i] = acked[i]
    BY <1>1, <1>2, <2>1, AppendProperties
  <2>4. \A i \in DOMAIN acked' : answer'[acked'[i]] = "done"
    <3>1. DOMAIN acked' = 1..Len(acked) + 1 /\ DOMAIN acked = 1..Len(acked) /\ Len(acked) \in Nat
      BY <2>1, <2>3, LenProperties
    <3>2. \A r \in Request : answer[r] = "done" => answer'[r] = "done"
      BY <1>1, <1>2, <2>1
    <3>3. \A i \in 1..Len(acked) : answer'[acked'[i]] = "done"
      BY <2>1, <2>3, <3>1, <3>2
    <3>4. answer'[acked'[Len(acked) + 1]] = "done"
      BY <1>1, <1>2, <2>1, <2>3
    <3> QED
      BY <3>1, <3>3, <3>4
  <2>5. \A s \in Request : answer'[s] = "failed" => answer[s] = "failed"
    BY <1>1, <2>1
  <2>6. answer' \in [Request -> {"none", "pending", "done", "failed", "unsure"}]
    BY <1>1, <2>1
  <2>7. Kept((IF InCall THEN Base ELSE Log)', acked')
    <3>1. (IF InCall THEN Base ELSE Log)' = Log
      BY <1>4, <1>8
    <3>2. acked' = Append(acked, request)
      BY <1>1
    <3> QED
      BY <2>2, <3>1, <3>2
  <2>8. \A r \in Request : answer'[r] = "failed" =>
           \A line \in ToSet(LinesOf[r]) :
              /\ \A k \in DOMAIN Log' : Log'[k].line # line
              /\ Parses((file.rest)') => Decoded((file.rest)').line # line
    <3>1. (file.rest)' = file.rest
      BY <1>1
    <3> QED
      BY <1>4, <2>5, <3>1 DEF IInv, Answers
  <2> QED
    BY <2>3, <2>4, <2>6, <2>7, <2>8 DEF Answers
<1> QED
  BY <1>4, <1>6, <1>7, <1>8, <1>9 DEF IInv

LEMMA PartWritten ==
  ASSUME IInv, At(current, "writing"), file' \in Stopped(file, call.batch)
  PROVE  /\ Sound' /\ Kept(Log', acked)
         /\ \E n \in 0..Len(Batch) :
               /\ Log' = Base \o SubSeq(Batch, 1, n)
               /\ \/ (file.rest)' = <<>>
                  \/ n < Len(Batch) /\ (file.rest)' \in Beginnings(Encoded(Batch[n + 1]))
         /\ \A r \in Request : answer[r] = "failed" =>
               \A line \in ToSet(LinesOf[r]) :
                  /\ \A k \in DOMAIN Log' : Log'[k].line # line
                  /\ Parses((file.rest)') => Decoded((file.rest)').line # line
<1>1. InCall /\ call.batch = EncodedLines(Batch) /\ Same(current)
  BY DEF IInv, Calling, InCall, At
<1>2. Base \in Seq(Mutation) /\ Batch \in Seq(Mutation)
  BY <1>1, StampedIs DEF IInv, Turns, Calling, Base, Batch
<1>3. file = [lines |-> EncodedLines(Base), rest |-> <<>>]
  BY <1>1 DEF IInv, Sound, Same, Base
<1>4. ASSUME NEW text, text = file', text.rest = (file.rest)'
      PROVE  \E n \in 0..Len(Batch) :
                /\ text = [lines |-> EncodedLines(Base \o SubSeq(Batch, 1, n)), rest |-> text.rest]
                /\ \/ text.rest = <<>>
                   \/ n < Len(Batch) /\ text.rest \in Beginnings(Encoded(Batch[n + 1]))
  <2>1. text \in Stopped(file, EncodedLines(Batch))
    BY <1>1, <1>4
  <2> QED
    BY <1>2, <1>3, <2>1, StoppedIs
<1>5. ASSUME NEW text, text = file', text.rest = (file.rest)'
      PROVE  /\ Sound' /\ Kept(Log', acked)
             /\ \E n \in 0..Len(Batch) :
                   /\ Log' = Base \o SubSeq(Batch, 1, n)
                   /\ \/ text.rest = <<>>
                      \/ n < Len(Batch) /\ text.rest \in Beginnings(Encoded(Batch[n + 1]))
             /\ \A r \in Request : answer[r] = "failed" =>
                   \A line \in ToSet(LinesOf[r]) :
                      /\ \A k \in DOMAIN Log' : Log'[k].line # line
                      /\ Parses(text.rest) => Decoded(text.rest).line # line
  <2>1. PICK n \in 0..Len(Batch) :
           /\ text = [lines |-> EncodedLines(Base \o SubSeq(Batch, 1, n)), rest |-> text.rest]
           /\ \/ text.rest = <<>>
              \/ n < Len(Batch) /\ text.rest \in Beginnings(Encoded(Batch[n + 1]))
    BY <1>4, <1>5
  <2>2. /\ Sound' /\ Log' = Base \o SubSeq(Batch, 1, n) /\ Kept(Log', acked)
        /\ \A r \in Request : answer[r] = "failed" =>
              \A line \in ToSet(LinesOf[r]) :
                 /\ \A k \in DOMAIN Log' : Log'[k].line # line
                 /\ Parses(text.rest) => Decoded(text.rest).line # line
    BY <1>5, <2>1, Writes
  <2> QED
    BY <2>1, <2>2
<1> QED
  BY <1>5

LEMMA TearKeeps == ASSUME IInv, NEW h \in Handle, Tear(h) PROVE IInv'
<1> USE DEF At, GoTo
<1>1. /\ h = current /\ phase[h] = "writing" /\ file' \in Stopped(file, call.batch)
      /\ phase' = [phase EXCEPT ![h] = "cutting"]
      /\ UNCHANGED <<current, mirror, uncertain, todo, call, answer, acked>>
  BY DEF Tear, calls
<1>2. InCall
  BY <1>1 DEF InCall
<1>3. /\ Sound' /\ Kept(Log', acked)
      /\ \A r \in Request : answer[r] = "failed" =>
            \A line \in ToSet(LinesOf[r]) :
               /\ \A k \in DOMAIN Log' : Log'[k].line # line
               /\ Parses((file.rest)') => Decoded((file.rest)').line # line
  BY <1>1, PartWritten
<1>4. PICK n \in 0..Len(Batch) :
         /\ Log' = Base \o SubSeq(Batch, 1, n)
         /\ \/ (file.rest)' = <<>>
            \/ n < Len(Batch) /\ (file.rest)' \in Beginnings(Encoded(Batch[n + 1]))
  BY <1>1, PartWritten
<1>5. phase'[h] = "cutting" /\ \A g \in Handle \ {h} : phase'[g] = "closed"
  BY <1>1, <1>2, OthersClosed DEF IInv, Turns
<1>6. Turns'
  BY <1>1, <1>5 DEF IInv, Turns
<1>7. Mirrors'
  BY <1>1, <1>5 DEF Mirrors
<1>8. Base' = Base /\ Batch' = Batch /\ InCall'
  BY <1>1, <1>5 DEF Base, Batch, InCall
<1>9. Calling'
  <2>1. Landed(n)'
    BY <1>4, <1>8 DEF Landed
  <2> QED
    BY <1>1, <1>2, <1>5, <1>8, <2>1 DEF IInv, Calling
<1>10. Answers'
  <2>1. Kept(Base, acked)
    BY <1>2 DEF IInv, Answers
  <2> QED
    BY <1>1, <1>3, <1>8, <2>1 DEF IInv, Answers
<1> QED
  BY <1>3, <1>6, <1>7, <1>9, <1>10 DEF IInv

LEMMA NoRequest == ASSUME ~InCall', call' = NoCall PROVE Calling'
<1> USE DEF At
<1>1. /\ ~(phase'[current'] = "writing") /\ ~(phase'[current'] = "applying")
      /\ ~(phase'[current'] = "cutting")
  BY DEF InCall
<1> QED
  BY <1>1 DEF Calling

(* A step that shows no line of a request that failed, and no fewer lines  *)
(* of those that were acknowledged, leaves the answers true.               *)
LEMMA AnswersAfter ==
  ASSUME IInv, ~InCall', acked' = acked,
         answer' \in [Request -> {"none", "pending", "done", "failed", "unsure"}],
         \A r \in Request : answer[r] = "done" => answer'[r] = "done",
         Kept(Log', acked),
         \A r \in Request : answer'[r] = "failed" =>
            \A line \in ToSet(LinesOf[r]) :
               /\ \A k \in DOMAIN Log' : Log'[k].line # line
               /\ Parses((file.rest)') => Decoded((file.rest)').line # line
  PROVE  Answers'
<1>1. Kept((IF InCall THEN Base ELSE Log)', acked')
  <2>1. (IF InCall THEN Base ELSE Log)' = Log'
    OBVIOUS
  <2> QED
    BY <2>1
<1>2. acked' \in Seq(Request) /\ \A i \in DOMAIN acked' : answer'[acked'[i]] = "done"
  <2>1. acked \in Seq(Request) /\ \A i \in DOMAIN acked : answer[acked[i]] = "done"
    BY DEF IInv, Answers
  <2>2. \A i \in DOMAIN acked : acked[i] \in Request
    BY <2>1
  <2> QED
    BY <2>1, <2>2
<1> QED
  BY <1>1, <1>2 DEF Answers

LEMMA AnswersSame ==
  ASSUME IInv, ~InCall', UNCHANGED <<file, answer, acked>>
  PROVE  Answers'
<1>1. Log' = Log /\ (file.rest)' = file.rest
  BY FileSame
<1>2. Kept(Log', acked)
  BY <1>1, LogKept
<1> QED
  BY <1>1, <1>2, AnswersAfter DEF IInv, Answers

LEMMA CutBackKeeps == ASSUME IInv, NEW h \in Handle, CutBack(h) PROVE IInv'
<1> USE DEF At, GoTo
<1> DEFINE request == call.request
<1>1. /\ h = current /\ phase[h] = "cutting"
      /\ \E start \in FailedStart(file, call.batch) :
            file' = [lines |-> SubSeq(file.lines, 1, start), rest |-> <<>>]
      /\ answer' = [answer EXCEPT ![call.request] = "failed"]
      /\ call' = NoCall
      /\ phase' = [phase EXCEPT ![h] = "idle"]
      /\ UNCHANGED <<current, mirror, uncertain, todo, acked>>
  BY DEF CutBack, Refused
<1>2. /\ InCall /\ call.batch = EncodedLines(Batch) /\ request \in Request
      /\ answer[request] = "pending" /\ Growing(Base)
      /\ \A m \in ToSet(Base) : m.line \notin ToSet(LinesOf[request])
      /\ \E n \in 0..Len(Batch) : Landed(n)
  BY <1>1 DEF IInv, Calling, InCall
<1>3. /\ current \in Handle /\ Base \in Seq(Mutation) /\ Batch \in Seq(Mutation) /\ Batch # <<>>
      /\ Len(Base) \in Nat /\ DOMAIN Base = 1..Len(Base)
  <2>1. current \in Handle /\ Base \in Seq(Mutation)
    BY DEF IInv, Turns, Base
  <2>2. Batch \in Seq(Mutation) /\ Len(Batch) \in Nat \ {0}
    BY <1>2, <2>1, StampedIs DEF Batch
  <2> QED
    BY <2>1, <2>2, EmptySeq, LenProperties
<1>4. PICK n \in 0..Len(Batch) : Landed(n)
  BY <1>2
<1>5. file.lines = EncodedLines(Base \o SubSeq(Batch, 1, n))
  BY <1>4, LogLines DEF IInv, Landed
<1>6. \A k \in DOMAIN Base : Base[k] # Batch[1]
  BY <1>2, <1>3, BatchFits DEF Batch
<1>7. /\ FailedStart(file, call.batch) = {Len(Base)}
      /\ SubSeq(file.lines, 1, Len(Base)) = EncodedLines(Base)
  <2>1. file.rest = <<>> \/ (n < Len(Batch) /\ file.rest \in Beginnings(Encoded(Batch[n + 1])))
    BY <1>4 DEF Landed
  <2>2. /\ FailedStart(file, EncodedLines(Batch)) = {Len(Base)}
        /\ SubSeq(file.lines, 1, Len(Base)) = EncodedLines(Base)
    BY <1>3, <1>5, <1>6, <2>1, FailedStartIs
  <2> QED
    BY <1>2, <2>2
<1>8. file' = [lines |-> EncodedLines(Base), rest |-> <<>>]
  BY <1>1, <1>7
<1>9. Sound' /\ Log' = Base /\ (file.rest)' = <<>>
  <2> DEFINE text == [lines |-> EncodedLines(Base), rest |-> <<>>]
  <2>1. text.rest = <<>> /\ file' = text
    BY <1>8
  <2>2. text = [lines |-> EncodedLines(Base), rest |-> text.rest]
    BY <2>1
  <2> HIDE DEF text
  <2> QED
    BY <1>2, <1>3, <2>1, <2>2, FileIs
<1>10. phase'[h] = "idle" /\ \A g \in Handle \ {h} : phase'[g] = "closed"
  BY <1>1, <1>2, OthersClosed DEF IInv, Turns
<1>11. Turns'
  BY <1>1, <1>10 DEF IInv, Turns
<1>12. Mirrors'
  <2>1. Same(h)'
    BY <1>1, <1>9 DEF Same, Base
  <2> QED
    BY <1>10, <2>1 DEF Mirrors
<1>13. ~InCall'
  BY <1>1, <1>10 DEF InCall
<1>14. Answers'
  <2>1. answer \in [Request -> {"none", "pending", "done", "failed", "unsure"}]
    BY DEF IInv, Answers
  <2>2. /\ answer' \in [Request -> {"none", "pending", "done", "failed", "unsure"}]
        /\ \A r \in Request : answer[r] = "done" => answer'[r] = "done"
        /\ \A r \in Request : answer'[r] = "failed" => r = request \/ answer[r] = "failed"
    BY <1>1, <1>2, <2>1
  <2>3. Kept(Base, acked)
    BY <1>2 DEF IInv, Answers
  <2>4. ASSUME NEW r \in Request, answer'[r] = "failed", NEW line \in ToSet(LinesOf[r])
        PROVE  \A k \in DOMAIN Base : Base[k].line # line
    <3>1. CASE r = request
      <4>1. \A k \in DOMAIN Base : Base[k] \in ToSet(Base)
        BY DEF ToSet
      <4> QED
        BY <1>2, <2>4, <3>1, <4>1
    <3>2. CASE answer[r] = "failed"
      <4>1. \A k \in DOMAIN Log : Log[k].line # line
        BY <2>4, <3>2 DEF IInv, Answers
      <4>2. \A k \in DOMAIN Base : k \in DOMAIN Log /\ Log[k] = Base[k]
        <5> DEFINE N == SubSeq(Batch, 1, n)
        <5>1. N \in Seq(Mutation) /\ Log = Base \o N
          BY <1>3, <1>4, First DEF Landed
        <5> HIDE DEF N
        <5>2. Base \o N \in Seq(Mutation) /\ Len(Base \o N) = Len(Base) + Len(N) /\ Len(N) \in Nat
              /\ \A k \in 1..Len(Base) : (Base \o N)[k] = Base[k]
          BY <1>3, <5>1, ConcatProperties, LenProperties
        <5> QED
          BY <1>3, <5>1, <5>2
      <4> QED
        BY <4>1, <4>2
    <3> QED
      BY <2>2, <2>4, <3>1, <3>2
  <2>5. ~Parses(<<>>)
    BY DEF Parses
  <2> QED
    BY <1>1, <1>9, <1>13, <2>2, <2>3, <2>4, <2>5, AnswersAfter
<1> QED
  BY <1>1, <1>9, <1>11, <1>12, <1>13, <1>14, NoRequest DEF IInv

LEMMA GiveUpKeeps == ASSUME IInv, NEW h \in Handle, GiveUp(h) PROVE IInv'
<1> USE DEF At, GoTo
<1> DEFINE request == call.request
<1>1. /\ h = current /\ phase[h] = "cutting"
      /\ uncertain' = [uncertain EXCEPT ![h] = TRUE]
      /\ answer' = [answer EXCEPT ![call.request] = "unsure"]
      /\ call' = NoCall
      /\ phase' = [phase EXCEPT ![h] = "idle"]
      /\ UNCHANGED <<file, current, mirror, todo, acked>>
  BY DEF GiveUp, Refused
<1>2. InCall /\ request \in Request /\ answer[request] = "pending"
  BY <1>1 DEF IInv, Calling, InCall
<1>3. Sound' /\ Log' = Log /\ (file.rest)' = file.rest
  BY <1>1, FileSame DEF IInv
<1>4. /\ phase'[h] = "idle" /\ uncertain'[h] = TRUE
      /\ \A g \in Handle \ {h} : phase'[g] = "closed" /\ uncertain'[g] = uncertain[g]
  BY <1>1, <1>2, OthersClosed DEF IInv, Turns
<1>5. Turns'
  BY <1>1, <1>4 DEF IInv, Turns
<1>6. Mirrors'
  BY <1>4 DEF Mirrors
<1>7. ~InCall'
  BY <1>1, <1>4 DEF InCall
<1>8. Answers'
  <2>1. answer \in [Request -> {"none", "pending", "done", "failed", "unsure"}]
    BY DEF IInv, Answers
  <2>2. /\ answer' \in [Request -> {"none", "pending", "done", "failed", "unsure"}]
        /\ \A r \in Request : answer[r] = "done" => answer'[r] = "done"
        /\ \A r \in Request : answer'[r] = "failed" => answer[r] = "failed"
    BY <1>1, <1>2, <2>1
  <2>3. Kept(Log', acked)
    BY <1>3, LogKept
  <2>4. \A r \in Request : answer'[r] = "failed" =>
           \A line \in ToSet(LinesOf[r]) :
              /\ \A k \in DOMAIN Log' : Log'[k].line # line
              /\ Parses((file.rest)') => Decoded((file.rest)').line # line
    <3>1. \A r \in Request : answer[r] = "failed" =>
             \A line \in ToSet(LinesOf[r]) :
                /\ \A k \in DOMAIN Log : Log[k].line # line
                /\ Parses(file.rest) => Decoded(file.rest).line # line
      BY DEF IInv, Answers
    <3> QED
      BY <1>3, <2>2, <3>1
  <2> QED
    BY <1>1, <1>7, <2>2, <2>3, <2>4, AnswersAfter
<1> QED
  BY <1>1, <1>3, <1>5, <1>6, <1>7, <1>8, NoRequest DEF IInv

-----------------------------------------------------------------------------
(* Opening and switching                                                   *)

LEMMA Appended ==
  ASSUME NEW M \in Seq(Mutation), NEW m \in Mutation
  PROVE  /\ <<m>> \in Seq(Mutation) /\ Append(M, m) = M \o <<m>>
         /\ EncodedLines(Append(M, m)) = Append(EncodedLines(M), Encoded(m))
<1>1. <<m>> \in Seq(Mutation) /\ Append(M, m) = M \o <<m>>
  OBVIOUS
<1>2. EncodedLines(<<m>>) = <<Encoded(m)>>
  BY DEF EncodedLines
<1> DEFINE a == EncodedLines(M)
           b == Encoded(m)
<1>3. a \in Seq(Seq(Byte)) /\ b \in Seq(Byte)
  BY LinesAre, EncodedIs
<1>4. EncodedLines(M \o <<m>>) = a \o <<b>>
  BY <1>1, <1>2, Joined
<1> HIDE DEF a, b
<1>5. a \o <<b>> = Append(a, b)
  BY <1>3
<1> QED
  BY <1>1, <1>4, <1>5 DEF a, b

(* While a handle opens the session, no request is under way.              *)
LEMMA Quiet ==
  ASSUME IInv, NEW h \in Handle, phase[h] \in {"loading", "opened"}
  PROVE  /\ ~InCall /\ call = NoCall /\ ~uncertain[h]
         /\ h # current => phase[current] = "idle"
         /\ \A g \in Handle \ {h, current} : phase[g] = "closed"
<1> USE DEF At
<1>1. h # current => phase[current] = "idle" /\ \A g \in Handle \ {h, current} : phase[g] = "closed"
  BY DEF IInv, Turns
<1>2. h = current => \A g \in Handle \ {h, current} : phase[g] = "closed"
  BY DEF IInv, Turns
<1>3. ~InCall
  BY <1>1 DEF InCall
<1>4. ~uncertain[h]
  BY DEF IInv, Turns
<1> QED
  BY <1>1, <1>2, <1>3, <1>4 DEF IInv, Calling

LEMMA CloseKeeps == ASSUME IInv, NEW h \in Handle, Close(h) PROVE IInv'
<1> USE DEF At, GoTo
<1>1. /\ h = current /\ phase[h] = "idle"
      /\ \A g \in Handle \ {h} : phase[g] = "closed"
      /\ phase' = [phase EXCEPT ![h] = "closed"]
      /\ mirror' = [mirror EXCEPT ![h] = <<>>]
      /\ uncertain' = [uncertain EXCEPT ![h] = FALSE]
      /\ todo' = [todo EXCEPT ![h] = "nothing"]
      /\ UNCHANGED <<file, current, call, answer, acked, faults>>
  BY DEF Close, Closed, calls
<1>2. Log' = Log /\ Sound'
  BY <1>1, FileSame DEF IInv
<1>3. \A g \in Handle : phase'[g] = "closed"
  BY <1>1 DEF IInv, Turns
<1>4. Turns'
  <2>1. mirror' \in [Handle -> Seq(Mutation)]
    <3>1. <<>> \in Seq(Mutation)
      OBVIOUS
    <3> QED
      BY <1>1, <3>1 DEF IInv, Turns
  <2>2. \A g \in Handle : uncertain'[g] => FALSE
    BY <1>1 DEF IInv, Turns
  <2> QED
    BY <1>1, <1>3, <2>1, <2>2 DEF IInv, Turns
<1>5. Mirrors'
  BY <1>3 DEF Mirrors
<1>6. ~InCall' /\ ~InCall
  BY <1>1, <1>3 DEF InCall, IInv, Turns
<1>7. Calling'
  BY <1>1, <1>6, NoRequest DEF IInv, Calling
<1>8. Answers'
  BY <1>1, <1>6, AnswersSame
<1> QED
  BY <1>2, <1>4, <1>5, <1>7, <1>8 DEF IInv

LEMMA LoadKeeps == ASSUME ~MayOverlap, IInv, NEW h \in Handle, Load(h) PROVE IInv'
<1> USE DEF At, GoTo
<1> DEFINE L == Log
<1>1. /\ phase[h] = "closed" /\ phase[current] \in {"closed", "idle"}
      /\ h = current \/ phase[current] # "closed"
      /\ \A g \in Handle \ {h, current} : phase[g] = "closed"
      /\ mirror' = [mirror EXCEPT ![h] = Mutations(file)]
      /\ todo' = [todo EXCEPT ![h] =
            IF Torn(file) THEN "publish"
            ELSE IF file.rest # <<>> THEN "terminate" ELSE "nothing"]
      /\ phase' = [phase EXCEPT ![h] = "loading"]
      /\ UNCHANGED <<file, current, uncertain, call, answer, acked, faults>>
  BY DEF Load, calls
<1>2. Log' = Log /\ Sound' /\ (file.rest)' = file.rest
  BY <1>1, FileSame DEF IInv
<1>3. /\ file = [lines |-> EncodedLines(L), rest |-> file.rest] /\ L \in Seq(Mutation)
      /\ (file.rest = <<>> \/ \E m \in Mutation : file.rest \in Beginnings(Encoded(m)))
  BY DEF IInv, Sound
<1> HIDE DEF L
<1>4. /\ file.rest = <<>> => Mutations(file) = L /\ ~Torn(file)
      /\ Torn(file) => ~Parses(file.rest) /\ Mutations(file) = L
      /\ file.rest # <<>> /\ ~Torn(file) => /\ Parses(file.rest)
                                           /\ Decoded(file.rest) \in Mutation
                                           /\ Mutations(file) = Append(L, Decoded(file.rest))
  <2>1. CASE file.rest = <<>>
    BY <1>3, <2>1, ReadIs
  <2>2. CASE file.rest # <<>>
    <3>1. PICK m \in Mutation : file.rest \in Beginnings(Encoded(m))
      BY <1>3, <2>2
    <3>2. /\ Torn(file) <=> ~Parses(file.rest)
          /\ Torn(file) => Mutations(file) = L
          /\ ~Torn(file) => Mutations(file) = Append(L, m)
      BY <1>3, <2>2, <3>1, ReadIs
    <3>3. Parses(file.rest) => Decoded(file.rest) = m
      BY <3>1, BeginningIs, EncodedIs
    <3> QED
      BY <2>2, <3>2, <3>3
  <2> QED
    BY <2>1, <2>2
<1>5. Mutations(file) \in Seq(Mutation)
  BY <1>3, <1>4, AppendProperties
<1>6. /\ phase'[h] = "loading" /\ \A g \in Handle \ {h} : phase'[g] = phase[g]
      /\ mirror'[h] = Mutations(file) /\ \A g \in Handle \ {h} : mirror'[g] = mirror[g]
      /\ \A g \in Handle \ {h} : todo'[g] = todo[g]
      /\ todo'[h] = IF Torn(file) THEN "publish"
                    ELSE IF file.rest # <<>> THEN "terminate" ELSE "nothing"
  BY <1>1 DEF IInv, Turns
<1>7. Turns'
  <2>1. mirror' \in [Handle -> Seq(Mutation)]
    BY <1>1, <1>5 DEF IInv, Turns
  <2>2. todo' \in [Handle -> {"nothing", "publish", "terminate"}]
    BY <1>1 DEF IInv, Turns
  <2>3. \A g \in Handle : uncertain'[g] => g = current' /\ phase'[g] = "idle"
    BY <1>1, <1>6 DEF IInv, Turns
  <2>4. \A g \in Handle \ {current} : phase'[g] # "closed" => g = h
    BY <1>1, <1>6
  <2>5. h # current => phase'[current] = "idle"
    BY <1>1, <1>6 DEF IInv, Turns
  <2> QED
    BY <1>1, <1>6, <2>1, <2>2, <2>3, <2>4, <2>5 DEF IInv, Turns
<1>8. Mirrors'
  <2>1. Loading(h)'
    <3>1. CASE Torn(file)
      BY <1>2, <1>4, <1>6, <3>1 DEF Loading, L
    <3>2. CASE ~Torn(file) /\ file.rest # <<>>
      BY <1>2, <1>4, <1>6, <3>2 DEF Loading, L
    <3>3. CASE ~Torn(file) /\ file.rest = <<>>
      BY <1>2, <1>4, <1>6, <3>3 DEF Loading, Same, L
    <3> QED
      BY <3>1, <3>2, <3>3
  <2>2. \A g \in Handle \ {h} : (Same(g)' <=> Same(g)) /\ (Loading(g)' <=> Loading(g))
    BY <1>2, <1>6 DEF Same, Loading
  <2> QED
    BY <1>1, <1>6, <2>1, <2>2 DEF IInv, Mirrors
<1>9. ~InCall' /\ ~InCall
  BY <1>1, <1>6 DEF InCall, IInv, Turns
<1>10. Calling'
  BY <1>1, <1>9, NoRequest DEF IInv, Calling
<1>11. Answers'
  BY <1>1, <1>9, AnswersSame
<1> QED
  BY <1>2, <1>7, <1>8, <1>10, <1>11 DEF IInv

(* A handle that has opened the session mirrors the file, and so does the  *)
(* one in use beside it.                                                   *)
LEMMA LoadedKeeps ==
  ASSUME IInv, NEW h \in Handle, phase[h] = "loading", Loaded(h),
         todo' = [todo EXCEPT ![h] = "nothing"],
         UNCHANGED <<current, mirror, uncertain, call, answer, acked>>,
         Same(h)', Same(current) /\ ~uncertain[current] /\ h # current => Same(current)'
  PROVE  Turns' /\ Mirrors' /\ Calling' /\ ~InCall'
<1> USE DEF At, GoTo
<1>1. phase' = [phase EXCEPT ![h] = IF h = current THEN "idle" ELSE "opened"]
  BY DEF Loaded
<1>2. /\ ~InCall /\ call = NoCall /\ ~uncertain[h]
      /\ h # current => phase[current] = "idle"
      /\ \A g \in Handle \ {h, current} : phase[g] = "closed"
  BY Quiet
<1>3. /\ phase'[h] = (IF h = current THEN "idle" ELSE "opened")
      /\ \A g \in Handle \ {h} : phase'[g] = phase[g]
  BY <1>1 DEF IInv, Turns
<1>4. current \in Handle /\ phase'[current] = "idle"
  BY <1>2, <1>3 DEF IInv, Turns
<1>5. Turns'
  <2>1. /\ phase' \in [Handle -> {"closed", "idle", "writing", "applying", "cutting",
                                  "loading", "opened"}]
        /\ todo' \in [Handle -> {"nothing", "publish", "terminate"}]
    BY <1>1 DEF IInv, Turns
  <2>2. \A g \in Handle : uncertain'[g] => g = current' /\ phase'[g] = "idle"
    BY <1>2, <1>3, <1>4 DEF IInv, Turns
  <2>3. \A g \in Handle \ {current} : phase'[g] # "closed" => g = h /\ phase'[g] = "opened"
    BY <1>2, <1>3
  <2> QED
    BY <1>2, <1>3, <1>4, <2>1, <2>2, <2>3 DEF IInv, Turns
<1>6. Mirrors'
  <2>1. ASSUME NEW g \in Handle, g # h, phase'[g] = "idle", ~uncertain'[g] PROVE Same(g)'
    <3>1. g = current /\ phase[g] = "idle" /\ ~uncertain[g]
      BY <1>2, <1>3, <2>1
    <3> QED
      BY <2>1, <3>1 DEF IInv, Mirrors
  <2>2. \A g \in Handle \ {h} : phase'[g] \in {"closed", "idle"}
    BY <1>2, <1>3
  <2> QED
    BY <1>3, <2>1, <2>2 DEF Mirrors
<1>7. ~InCall'
  BY <1>4 DEF InCall
<1> QED
  BY <1>2, <1>5, <1>6, <1>7, NoRequest

LEMMA PublishKeeps == ASSUME IInv, NEW h \in Handle, Publish(h) PROVE IInv'
<1> DEFINE L == Log
<1>1. /\ phase[h] = "loading" /\ todo[h] = "publish"
      /\ file' = [lines |-> EncodedLines(mirror[h]), rest |-> <<>>]
      /\ todo' = [todo EXCEPT ![h] = "nothing"]
      /\ Loaded(h)
      /\ UNCHANGED <<current, mirror, uncertain, call, answer, acked>>
  BY DEF Publish, At, calls
<1>2. mirror[h] = L
  BY <1>1 DEF IInv, Mirrors, Loading, At
<1>3. L \in Seq(Mutation) /\ Growing(L)
  BY DEF IInv, Sound
<1>4. Sound' /\ Log' = L /\ (file.rest)' = <<>>
  <2> HIDE DEF L
  <2> DEFINE text == [lines |-> EncodedLines(L), rest |-> <<>>]
  <2>1. text.rest = <<>> /\ file' = text
    BY <1>1, <1>2
  <2>2. text = [lines |-> EncodedLines(L), rest |-> text.rest]
    BY <2>1
  <2> HIDE DEF text
  <2> QED
    BY <1>3, <2>1, <2>2, FileIs
<1>5. Same(h)' /\ (Same(current) => Same(current)')
  BY <1>1, <1>2, <1>4 DEF Same
<1>6. Turns' /\ Mirrors' /\ Calling' /\ ~InCall'
  BY <1>1, <1>5, LoadedKeeps
<1>7. Answers'
  <2>1. Kept(Log', acked) /\ ~Parses(<<>>)
    BY <1>4, LogKept DEF Parses
  <2> QED
    BY <1>1, <1>4, <1>6, <2>1, AnswersAfter DEF IInv, Answers
<1> QED
  BY <1>4, <1>6, <1>7 DEF IInv

LEMMA TerminateKeeps == ASSUME IInv, NEW h \in Handle, Terminate(h) PROVE IInv'
<1> DEFINE L == Log
           m == Decoded(file.rest)
<1>1. /\ phase[h] = "loading" /\ todo[h] = "terminate"
      /\ file' = [lines |-> Append(file.lines, file.rest), rest |-> <<>>]
      /\ todo' = [todo EXCEPT ![h] = "nothing"]
      /\ Loaded(h)
      /\ UNCHANGED <<current, mirror, uncertain, call, answer, acked>>
  BY DEF Terminate, At, calls
<1>2. Parses(file.rest) /\ mirror[h] = Append(L, m)
  BY <1>1 DEF IInv, Mirrors, Loading, At
<1>3. L \in Seq(Mutation) /\ Growing(L) /\ file.lines = EncodedLines(L)
  BY LogLines DEF IInv, Sound
<1>4. m \in Mutation /\ file.rest = Encoded(m) /\ Fits(L, m)
  <2>1. file.rest # <<>>
    BY <1>2 DEF Parses
  <2>2. PICK n \in Mutation : file.rest \in Beginnings(Encoded(n)) /\ Fits(L, n)
    BY <2>1 DEF IInv, Sound
  <2>3. file.rest = Encoded(n) /\ m = n
    BY <1>2, <2>2, BeginningIs, EncodedIs
  <2> QED
    BY <2>2, <2>3
<1> HIDE DEF L, m
<1>5. /\ Append(L, m) \in Seq(Mutation) /\ Growing(Append(L, m))
      /\ EncodedLines(Append(L, m)) = Append(EncodedLines(L), Encoded(m))
      /\ <<m>> \in Seq(Mutation) /\ Append(L, m) = L \o <<m>>
  BY <1>3, <1>4, GrowingIs, Appended
<1>6. Sound' /\ Log' = Append(L, m) /\ (file.rest)' = <<>>
  <2> DEFINE M == Append(L, m)
             text == [lines |-> EncodedLines(M), rest |-> <<>>]
  <2>1. text.rest = <<>> /\ file' = text /\ M \in Seq(Mutation) /\ Growing(M)
    BY <1>1, <1>3, <1>4, <1>5
  <2> HIDE DEF M
  <2>2. text = [lines |-> EncodedLines(M), rest |-> text.rest]
    BY <2>1
  <2> HIDE DEF text
  <2>3. Sound' /\ Log' = M /\ (file.rest)' = <<>>
    BY <2>1, <2>2, FileIs
  <2> QED
    BY <2>3 DEF M
<1>7. Same(h)'
  BY <1>1, <1>2, <1>6 DEF Same
<1>8. ~Same(current)
  BY <1>2 DEF Same, Parses
<1>9. Turns' /\ Mirrors' /\ Calling' /\ ~InCall'
  BY <1>1, <1>7, <1>8, LoadedKeeps
<1>10. Answers'
  <2>1. Kept(Log', acked)
    <3>1. Kept(L, acked)
      BY LogKept DEF L
    <3>2. Kept(L \o <<m>>, acked)
      BY <1>3, <1>5, <3>1, KeptLonger
    <3> QED
      BY <1>5, <1>6, <3>2
  <2>2. ASSUME NEW r \in Request, answer[r] = "failed", NEW line \in ToSet(LinesOf[r])
        PROVE  \A k \in DOMAIN Log' : Log'[k].line # line
    <3>1. (\A k \in DOMAIN L : L[k].line # line) /\ m.line # line
      BY <1>2, <2>2 DEF IInv, Answers, L, m
    <3>2. /\ Append(L, m) \in Seq(Mutation) /\ Len(Append(L, m)) = Len(L) + 1 /\ Len(L) \in Nat
          /\ DOMAIN L = 1..Len(L) /\ Append(L, m)[Len(L) + 1] = m
          /\ \A k \in 1..Len(L) : Append(L, m)[k] = L[k]
      BY <1>3, <1>4, AppendProperties, LenProperties
    <3> DEFINE M == Append(L, m)
    <3>3. M \in Seq(Mutation) /\ Len(M) = Len(L) + 1 /\ M[Len(L) + 1] = m
          /\ \A k \in 1..Len(L) : M[k] = L[k]
      BY <3>2
    <3>4. Log' = M
      BY <1>6
    <3> HIDE DEF M
    <3>5. DOMAIN M = 1..Len(L) + 1
      BY <3>3, LenProperties
    <3> QED
      BY <3>1, <3>2, <3>3, <3>4, <3>5
  <2>3. ~Parses(<<>>)
    BY DEF Parses
  <2> QED
    BY <1>1, <1>6, <1>9, <2>1, <2>2, <2>3, AnswersAfter DEF IInv, Answers
<1> QED
  BY <1>6, <1>9, <1>10 DEF IInv

LEMMA LeaveAsIsKeeps == ASSUME IInv, NEW h \in Handle, LeaveAsIs(h) PROVE IInv'
<1>1. /\ phase[h] = "loading" /\ todo[h] = "nothing" /\ Loaded(h)
      /\ UNCHANGED <<file, current, mirror, uncertain, todo, call, answer, acked>>
  BY DEF LeaveAsIs, At, calls
<1>2. Log' = Log /\ Sound' /\ (file.rest)' = file.rest
  BY <1>1, FileSame DEF IInv
<1>3. Same(h)
  BY <1>1 DEF IInv, Mirrors, Loading, At
<1>4. Same(h)' /\ (Same(current) => Same(current)')
  BY <1>1, <1>2, <1>3 DEF Same
<1>5. todo' = [todo EXCEPT ![h] = "nothing"]
  BY <1>1 DEF IInv, Turns
<1>6. Turns' /\ Mirrors' /\ Calling' /\ ~InCall'
  BY <1>1, <1>4, <1>5, LoadedKeeps
<1>7. Answers'
  BY <1>1, <1>6, AnswersSame
<1> QED
  BY <1>2, <1>6, <1>7 DEF IInv

(* A handle that gives up opening the session forgets what it read.        *)
LEMMA ClosedKeeps ==
  ASSUME IInv, NEW h \in Handle, phase[h] \in {"loading", "opened"},
         phase' = [phase EXCEPT ![h] = "closed"], Closed(h),
         UNCHANGED <<file, current, call, answer, acked>>
  PROVE  IInv'
<1> USE DEF At
<1>1. /\ ~InCall /\ call = NoCall
      /\ h # current => phase[current] = "idle"
      /\ \A g \in Handle \ {h, current} : phase[g] = "closed"
  BY Quiet
<1>2. /\ phase'[h] = "closed" /\ \A g \in Handle \ {h} : phase'[g] = phase[g]
      /\ \A g \in Handle \ {h} : mirror'[g] = mirror[g] /\ uncertain'[g] = uncertain[g]
      /\ \A g \in Handle : uncertain'[g] => uncertain[g]
      /\ mirror' = [mirror EXCEPT ![h] = <<>>]
      /\ uncertain' = [uncertain EXCEPT ![h] = FALSE]
      /\ todo' = [todo EXCEPT ![h] = "nothing"]
  BY DEF Closed, IInv, Turns
<1>3. Log' = Log /\ Sound' /\ (file.rest)' = file.rest
  BY FileSame DEF IInv
<1>4. \A g \in Handle : phase'[g] # "closed" => g = current /\ phase'[g] = "idle"
  BY <1>1, <1>2
<1>5. Turns'
  <2>1. mirror' \in [Handle -> Seq(Mutation)]
    <3>1. <<>> \in Seq(Mutation)
      OBVIOUS
    <3> QED
      BY <1>2, <3>1 DEF IInv, Turns
  <2>2. \A g \in Handle : uncertain'[g] => g = current /\ phase'[g] = "idle"
    BY <1>2 DEF IInv, Turns
  <2> QED
    BY <1>2, <1>4, <2>1, <2>2 DEF IInv, Turns
<1>6. Mirrors'
  <2>1. ASSUME NEW g \in Handle, phase'[g] = "idle", ~uncertain'[g] PROVE Same(g)'
    <3>1. g # h /\ phase[g] = "idle" /\ ~uncertain[g]
      BY <1>2, <2>1
    <3> QED
      BY <1>2, <1>3, <3>1 DEF IInv, Mirrors, Same
  <2> QED
    BY <1>4, <2>1 DEF Mirrors
<1>7. ~InCall'
  BY <1>4 DEF InCall, IInv, Turns
<1>8. Calling'
  BY <1>1, <1>7, NoRequest
<1>9. Answers'
  BY <1>7, AnswersSame
<1> QED
  BY <1>3, <1>5, <1>6, <1>8, <1>9 DEF IInv

LEMMA InstallKeeps == ASSUME IInv, NEW h \in Handle, Install(h) PROVE IInv'
<1> USE DEF At
<1>1. /\ phase[h] = "opened" /\ phase[current] = "idle"
      /\ phase' = [phase EXCEPT ![h] = "idle", ![current] = "closed"]
      /\ mirror' = [mirror EXCEPT ![current] = <<>>]
      /\ uncertain' = [uncertain EXCEPT ![current] = FALSE]
      /\ todo' = [todo EXCEPT ![current] = "nothing"]
      /\ current' = h
      /\ UNCHANGED <<file, call, answer, acked>>
  BY DEF Install, Closed, calls
<1>2. /\ ~InCall /\ call = NoCall /\ ~uncertain[h] /\ h # current /\ current \in Handle
      /\ \A g \in Handle \ {h, current} : phase[g] = "closed"
  BY <1>1, Quiet DEF IInv, Turns
<1>3. /\ phase'[h] = "idle" /\ \A g \in Handle \ {h} : phase'[g] = "closed"
      /\ mirror'[h] = mirror[h] /\ \A g \in Handle : ~uncertain'[g]
  BY <1>1, <1>2 DEF IInv, Turns
<1>4. Log' = Log /\ Sound' /\ (file.rest)' = file.rest
  BY <1>1, FileSame DEF IInv
<1>5. Turns'
  <2>1. mirror' \in [Handle -> Seq(Mutation)]
    <3>1. <<>> \in Seq(Mutation)
      OBVIOUS
    <3> QED
      BY <1>1, <3>1 DEF IInv, Turns
  <2> QED
    BY <1>1, <1>3, <2>1 DEF IInv, Turns
<1>6. Mirrors'
  <2>1. Same(h)'
    BY <1>1, <1>3, <1>4 DEF IInv, Mirrors, Same
  <2> QED
    BY <1>3, <2>1 DEF Mirrors
<1>7. ~InCall'
  BY <1>1, <1>3 DEF InCall
<1>8. Calling'
  BY <1>1, <1>2, <1>7, NoRequest
<1>9. Answers'
  BY <1>1, <1>7, AnswersSame
<1> QED
  BY <1>4, <1>5, <1>6, <1>8, <1>9 DEF IInv

(* A crash leaves what a write that stops would, and closes every handle.  *)
LEMMA CrashKeeps == ASSUME IInv, Crash PROVE IInv'
<1> USE DEF At
<1>1. /\ file' \in (IF phase[current] = "writing" THEN Stopped(file, call.batch) ELSE {file})
      /\ answer' = [r \in Request |-> IF answer[r] = "pending" THEN "unsure" ELSE answer[r]]
      /\ call' = NoCall
      /\ phase' = [h \in Handle |-> "closed"]
      /\ mirror' = [h \in Handle |-> <<>>]
      /\ uncertain' = [h \in Handle |-> FALSE]
      /\ todo' = [h \in Handle |-> "nothing"]
      /\ UNCHANGED <<current, acked>>
  BY DEF Crash
<1>2. /\ Sound' /\ Kept(Log', acked)
      /\ \A r \in Request : answer[r] = "failed" =>
            \A line \in ToSet(LinesOf[r]) :
               /\ \A k \in DOMAIN Log' : Log'[k].line # line
               /\ Parses((file.rest)') => Decoded((file.rest)').line # line
  <2>1. CASE phase[current] = "writing"
    BY <1>1, <2>1, PartWritten
  <2>2. CASE phase[current] # "writing"
    <3>1. file' = file
      BY <1>1, <2>2
    <3>2. Log' = Log /\ Sound' /\ (file.rest)' = file.rest
      BY <3>1, FileSame DEF IInv
    <3> QED
      BY <3>2, LogKept DEF IInv, Answers
  <2> QED
    BY <2>1, <2>2
<1>3. current \in Handle /\ \A g \in Handle : phase'[g] = "closed" /\ ~uncertain'[g]
  BY <1>1 DEF IInv, Turns
<1>4. Turns'
  <2>1. mirror' \in [Handle -> Seq(Mutation)]
    <3>1. <<>> \in Seq(Mutation)
      OBVIOUS
    <3> QED
      BY <1>1, <3>1
  <2> QED
    BY <1>1, <1>3, <2>1 DEF Turns
<1>5. Mirrors'
  BY <1>3 DEF Mirrors
<1>6. ~InCall'
  BY <1>1, <1>3 DEF InCall
<1>7. Answers'
  <2>1. answer \in [Request -> {"none", "pending", "done", "failed", "unsure"}]
    BY DEF IInv, Answers
  <2>2. /\ answer' \in [Request -> {"none", "pending", "done", "failed", "unsure"}]
        /\ \A r \in Request : answer[r] = "done" => answer'[r] = "done"
        /\ \A r \in Request : answer'[r] = "failed" => answer[r] = "failed"
    BY <1>1, <2>1
  <2> QED
    BY <1>1, <1>2, <1>6, <2>2, AnswersAfter
<1> QED
  BY <1>1, <1>2, <1>4, <1>5, <1>6, <1>7, NoRequest DEF IInv

-----------------------------------------------------------------------------
(* What a load reads from one step to the next                             *)

LEMMA PrefixIs ==
  ASSUME NEW S, NEW s \in Seq(S), NEW t \in Seq(S)
  PROVE  /\ (Len(s) <= Len(t) /\ \A k \in 1..Len(s) : s[k] = t[k]) => IsPrefix(s, t)
         /\ IsPrefix(s, s)
         /\ s \o t \in Seq(S) /\ IsPrefix(s, s \o t)
<1>1. Len(s) \in Nat /\ Len(t) \in Nat
  BY LenProperties
<1>2. ASSUME NEW u \in Seq(S), Len(s) <= Len(u), \A k \in 1..Len(s) : s[k] = u[k]
      PROVE  IsPrefix(s, u)
  <2>1. SubSeq(s, 1, Len(s)) = s
    BY SubSeqFull
  <2>2. Len(s) \in 0..Len(u)
    BY <1>1, <1>2, LenProperties
  <2>3. /\ SubSeq(u, 1, Len(s)) \in Seq(S) /\ Len(SubSeq(u, 1, Len(s))) = Len(s)
        /\ \A k \in 1..Len(s) : SubSeq(u, 1, Len(s))[k] = u[k]
    BY <2>2, Leading
  <2> DEFINE v == SubSeq(u, 1, Len(s))
  <2> HIDE DEF v
  <2>4. v \in Seq(S) /\ Len(v) = Len(s) /\ \A k \in 1..Len(s) : v[k] = s[k]
    BY <1>2, <2>3 DEF v
  <2>5. v = s
    BY <2>4, SeqEqual
  <2> QED
    BY <1>2, <2>1, <2>5 DEF IsPrefix, v
<1>3. s \o t \in Seq(S) /\ Len(s \o t) = Len(s) + Len(t) /\ \A k \in 1..Len(s) : (s \o t)[k] = s[k]
  BY <1>1, ConcatProperties
<1> DEFINE w == s \o t
<1> HIDE DEF w
<1>4. w \in Seq(S) /\ Len(s) <= Len(w) /\ \A k \in 1..Len(s) : s[k] = w[k]
  BY <1>1, <1>3 DEF w
<1>5. IsPrefix(s, w)
  BY <1>2, <1>4
<1>6. IsPrefix(s, s)
  BY <1>1, <1>2
<1> QED
  BY <1>2, <1>4, <1>5, <1>6 DEF w

(* A load reads the log, and the line after it if that is whole.           *)
LEMMA ReadText ==
  ASSUME NEW L \in Seq(Mutation), NEW text,
         text = [lines |-> EncodedLines(L), rest |-> text.rest],
         text.rest = <<>> \/ \E m \in Mutation : text.rest \in Beginnings(Encoded(m))
  PROVE  /\ ~Parses(text.rest) => Mutations(text) = L
         /\ Parses(text.rest) => /\ Decoded(text.rest) \in Mutation
                                 /\ Mutations(text) = Append(L, Decoded(text.rest))
         /\ Mutations(text) \in Seq(Mutation) /\ IsPrefix(L, Mutations(text))
<1>1. /\ ~Parses(text.rest) => Mutations(text) = L
      /\ Parses(text.rest) => /\ Decoded(text.rest) \in Mutation
                              /\ Mutations(text) = Append(L, Decoded(text.rest))
  <2>1. CASE text.rest = <<>>
    <3>1. Mutations(text) = L
      BY <2>1, ReadIs
    <3> QED
      BY <2>1, <3>1 DEF Parses
  <2>2. CASE text.rest # <<>>
    <3>1. PICK m \in Mutation : text.rest \in Beginnings(Encoded(m))
      BY <2>2
    <3>2. /\ Torn(text) <=> ~Parses(text.rest)
          /\ Torn(text) => Mutations(text) = L
          /\ ~Torn(text) => Mutations(text) = Append(L, m)
      BY <2>2, <3>1, ReadIs
    <3>3. Parses(text.rest) => Decoded(text.rest) = m
      BY <3>1, BeginningIs, EncodedIs
    <3> QED
      BY <3>2, <3>3
  <2> QED
    BY <2>1, <2>2
<1>2. CASE Parses(text.rest)
  <2> DEFINE m == Decoded(text.rest)
  <2>1. m \in Mutation /\ Mutations(text) = Append(L, m)
    BY <1>1, <1>2
  <2> HIDE DEF m
  <2>2. <<m>> \in Seq(Mutation) /\ Append(L, m) = L \o <<m>>
    BY <2>1, Appended
  <2> QED
    BY <1>1, <2>1, <2>2, PrefixIs
<1>3. CASE ~Parses(text.rest)
  BY <1>1, <1>3, PrefixIs
<1> QED
  BY <1>1, <1>2, <1>3

LEMMA ReadNow ==
  ASSUME Sound
  PROVE  /\ ~Parses(file.rest) => Mutations(file) = Log
         /\ Parses(file.rest) => Mutations(file) = Append(Log, Decoded(file.rest))
         /\ Log \in Seq(Mutation) /\ Mutations(file) \in Seq(Mutation)
         /\ IsPrefix(Log, Mutations(file))
<1> DEFINE L == Log
<1>1. /\ L \in Seq(Mutation) /\ file = [lines |-> EncodedLines(L), rest |-> file.rest]
      /\ (file.rest = <<>> \/ \E m \in Mutation : file.rest \in Beginnings(Encoded(m)))
  BY DEF Sound
<1> HIDE DEF L
<1>2. /\ ~Parses(file.rest) => Mutations(file) = L
      /\ Parses(file.rest) => Mutations(file) = Append(L, Decoded(file.rest))
      /\ Mutations(file) \in Seq(Mutation) /\ IsPrefix(L, Mutations(file))
  BY <1>1, ReadText
<1> QED
  BY <1>1, <1>2 DEF L

LEMMA ReadNext ==
  ASSUME Sound'
  PROVE  /\ ~Parses((file.rest)') => Mutations(file)' = Log'
         /\ Log' \in Seq(Mutation) /\ Mutations(file)' \in Seq(Mutation)
         /\ IsPrefix(Log', Mutations(file)')
<1> DEFINE L == Log'
<1>1. ASSUME NEW text, text = file', text.rest = (file.rest)'
      PROVE  /\ ~Parses(text.rest) => Mutations(text) = L
             /\ L \in Seq(Mutation) /\ Mutations(text) \in Seq(Mutation)
             /\ IsPrefix(L, Mutations(text))
  <2>1. /\ L \in Seq(Mutation) /\ text = [lines |-> EncodedLines(L), rest |-> text.rest]
        /\ (text.rest = <<>> \/ \E m \in Mutation : text.rest \in Beginnings(Encoded(m)))
    BY <1>1 DEF Sound
  <2> HIDE DEF L
  <2> QED
    BY <2>1, ReadText
<1> QED
  BY <1>1

LEMMA PrefixesChain ==
  ASSUME NEW s \in Seq(Mutation), NEW t \in Seq(Mutation), NEW u \in Seq(Mutation),
         IsPrefix(s, t), IsPrefix(t, u)
  PROVE  IsPrefix(s, u)
<1>1. /\ Len(s) \in Nat /\ Len(t) \in Nat /\ Len(u) \in Nat
      /\ Len(s) <= Len(t) /\ Len(t) <= Len(u)
      /\ SubSeq(s, 1, Len(s)) = SubSeq(t, 1, Len(s))
      /\ SubSeq(t, 1, Len(t)) = SubSeq(u, 1, Len(t))
  BY LenProperties DEF IsPrefix
<1>2. /\ Len(s) \in 0..Len(s) /\ Len(s) \in 0..Len(t)
      /\ Len(t) \in 0..Len(t) /\ Len(t) \in 0..Len(u)
  BY <1>1
<1>3. /\ \A k \in 1..Len(s) : SubSeq(s, 1, Len(s))[k] = s[k]
      /\ \A k \in 1..Len(s) : SubSeq(t, 1, Len(s))[k] = t[k]
      /\ \A k \in 1..Len(t) : SubSeq(t, 1, Len(t))[k] = t[k]
      /\ \A k \in 1..Len(t) : SubSeq(u, 1, Len(t))[k] = u[k]
  BY <1>2, Leading
<1>4. (\A k \in 1..Len(s) : s[k] = t[k]) /\ (\A k \in 1..Len(t) : t[k] = u[k])
  BY <1>1, <1>3
<1>5. Len(s) <= Len(u) /\ \A k \in 1..Len(s) : s[k] = u[k]
  BY <1>1, <1>4
<1> QED
  BY <1>5, PrefixIs

Growth == IsPrefix(IF At(current, "cutting") THEN mirror[current] ELSE Mutations(file),
                   Mutations(file)')

LEMMA SameGrowth == ASSUME IInv, UNCHANGED file PROVE Growth
<1>1. Mutations(file)' = Mutations(file)
  OBVIOUS
<1>2. Log \in Seq(Mutation) /\ Mutations(file) \in Seq(Mutation) /\ IsPrefix(Log, Mutations(file))
  BY ReadNow DEF IInv
<1>3. IsPrefix(Mutations(file), Mutations(file))
  BY <1>2, PrefixIs
<1>4. CASE At(current, "cutting")
  <2>1. PICK n \in 0..Len(Batch) : /\ Base \in Seq(Mutation) /\ Batch \in Seq(Mutation)
                                   /\ Log = Base \o SubSeq(Batch, 1, n)
    BY <1>4, LogInCall DEF InCall, At
  <2>2. SubSeq(Batch, 1, n) \in Seq(Mutation)
    BY <2>1, First
  <2>3. IsPrefix(Base, Log)
    BY <2>1, <2>2, PrefixIs
  <2>4. IsPrefix(Base, Mutations(file))
    BY <1>2, <2>1, <2>3, PrefixesChain
  <2> QED
    BY <1>1, <1>4, <2>4 DEF Growth, Base
<1> QED
  BY <1>1, <1>3, <1>4 DEF Growth

(* A write, whole or not, comes after what was there.                      *)
LEMMA WriteGrowth ==
  ASSUME IInv, IInv', At(current, "writing"), file' \in Stopped(file, call.batch)
  PROVE  Growth
<1>1. InCall /\ Same(current) /\ ~At(current, "cutting")
  BY DEF IInv, Calling, InCall, At
<1>2. Log = Base /\ ~Parses(file.rest)
  BY <1>1 DEF Same, Base, Parses
<1>3. Mutations(file) = Base /\ Base \in Seq(Mutation)
  BY <1>2, ReadNow DEF IInv
<1>4. PICK n \in 0..Len(Batch) : Log' = Base \o SubSeq(Batch, 1, n)
  BY PartWritten
<1>5. SubSeq(Batch, 1, n) \in Seq(Mutation)
  BY <1>1, <1>3, LogInCall, First
<1>6. IsPrefix(Base, Log')
  BY <1>3, <1>4, <1>5, PrefixIs
<1>7. Log' \in Seq(Mutation) /\ Mutations(file)' \in Seq(Mutation) /\ IsPrefix(Log', Mutations(file)')
  BY ReadNext DEF IInv
<1> DEFINE L == Log'
           R == Mutations(file)'
<1> HIDE DEF L, R
<1>8. L \in Seq(Mutation) /\ R \in Seq(Mutation) /\ IsPrefix(Base, L) /\ IsPrefix(L, R)
  BY <1>6, <1>7 DEF L, R
<1>9. IsPrefix(Base, R)
  BY <1>3, <1>8, PrefixesChain
<1> QED
  BY <1>1, <1>3, <1>9 DEF Growth, R

(* A cut goes back to the mirror, and a repair to what the load read.      *)
LEMMA CutGrowth == ASSUME IInv, IInv', NEW h \in Handle, CutBack(h) PROVE Growth
<1> USE DEF At
<1>1. /\ h = current /\ phase[h] = "cutting" /\ phase' = [phase EXCEPT ![h] = "idle"]
      /\ UNCHANGED <<current, mirror, uncertain>>
  BY DEF CutBack, Refused, GoTo
<1>2. phase'[h] = "idle" /\ ~uncertain'[h] /\ Base \in Seq(Mutation)
  BY <1>1 DEF IInv, Turns, Base
<1>3. mirror'[h] = Log'
  BY <1>2 DEF IInv, Mirrors, Same
<1>4. IsPrefix(Log', Mutations(file)') /\ Log' = Base
  BY <1>1, <1>3, ReadNext DEF IInv, Base
<1> QED
  BY <1>1, <1>4 DEF Growth, Base

LEMMA RepairGrowth ==
  ASSUME IInv, IInv', NEW h \in Handle, Publish(h) \/ Terminate(h)
  PROVE  Growth
<1> USE DEF At
<1>1. /\ phase[h] = "loading" /\ Loaded(h) /\ mirror' = mirror /\ uncertain' = uncertain
      /\ todo[h] \in {"publish", "terminate"} /\ current' = current
  BY DEF Publish, Terminate
<1>2. ~uncertain[h] /\ phase[current] # "cutting"
  BY <1>1, Quiet
<1>3. phase'[h] \in {"idle", "opened"}
  BY <1>1 DEF Loaded, GoTo, IInv, Turns
<1>4. mirror[h] = Log'
  BY <1>1, <1>2, <1>3 DEF IInv, Mirrors, Same
<1>5. mirror[h] = Mutations(file)
  <2>1. CASE todo[h] = "publish"
    BY <1>1, <2>1, ReadNow DEF IInv, Mirrors, Loading
  <2>2. CASE todo[h] = "terminate"
    BY <1>1, <2>2, ReadNow DEF IInv, Mirrors, Loading
  <2> QED
    BY <1>1, <2>1, <2>2
<1>6. IsPrefix(Log', Mutations(file)')
  BY ReadNext DEF IInv
<1> QED
  BY <1>2, <1>4, <1>5, <1>6 DEF Growth

LEMMA StepGrows == ASSUME IInv, IInv', [Next]_vars PROVE Growth
<1>1. CASE file' = file
  BY <1>1, SameGrowth
<1>2. ASSUME NEW h \in Handle, NEW r \in Request, Submit(h, r) PROVE Growth
  BY <1>1, <1>2 DEF Submit
<1>3. ASSUME NEW h \in Handle, Land(h) \/ Tear(h) PROVE Growth
  <2>1. At(current, "writing")
    BY <1>3 DEF Land, Tear
  <2>2. file' \in Stopped(file, call.batch)
    BY <1>3 DEF Land, Tear, Stopped
  <2> QED
    BY <2>1, <2>2, WriteGrowth
<1>4. ASSUME NEW h \in Handle, Apply(h) \/ GiveUp(h) \/ Close(h) \/ Load(h) \/ LeaveAsIs(h)
                               \/ RepairFails(h) \/ Drop(h) \/ Install(h)
      PROVE  Growth
  BY <1>1, <1>4 DEF Apply, GiveUp, Close, Load, LeaveAsIs, RepairFails, Drop, Install
<1>5. ASSUME NEW h \in Handle, CutBack(h) \/ Publish(h) \/ Terminate(h) PROVE Growth
  BY <1>5, CutGrowth, RepairGrowth
<1>6. CASE Crash
  <2>1. CASE At(current, "writing")
    BY <1>6, <2>1, WriteGrowth DEF Crash
  <2>2. CASE ~At(current, "writing")
    BY <1>1, <1>6, <2>2 DEF Crash
  <2> QED
    BY <2>1, <2>2
<1>7. CASE UNCHANGED vars
  BY <1>1, <1>7 DEF vars
<1> QED
  BY <1>2, <1>3, <1>4, <1>5, <1>6, <1>7 DEF Next

-----------------------------------------------------------------------------
(* The theorems                                                            *)

LEMMA Initially == ASSUME Init PROVE IInv
<1> USE DEF At
<1>1. /\ file = [lines |-> <<>>, rest |-> <<>>] /\ current = Primary /\ call = NoCall /\ acked = <<>>
      /\ phase = [h \in Handle |-> IF h = Primary THEN "idle" ELSE "closed"]
      /\ mirror = [h \in Handle |-> <<>>] /\ uncertain = [h \in Handle |-> FALSE]
      /\ todo = [h \in Handle |-> "nothing"] /\ answer = [r \in Request |-> "none"]
  BY DEF Init
<1>2. Primary \in Handle
  BY RequestAssumption
<1>3. Log = <<>> /\ EncodedLines(<<>>) = <<>> /\ <<>> \in Seq(Mutation) /\ Growing(<<>>)
      /\ file.rest = <<>>
  BY <1>1 DEF Log, EncodedLines, Growing
<1>4. Sound
  BY <1>1, <1>3 DEF Sound
<1>5. phase[current] = "idle" /\ \A h \in Handle \ {current} : phase[h] = "closed"
  BY <1>1, <1>2
<1>6. Turns
  BY <1>1, <1>2, <1>3, <1>5 DEF Turns
<1>7. Mirrors
  BY <1>1, <1>2, <1>3, <1>5 DEF Mirrors, Same
<1>8. ~InCall
  BY <1>5 DEF InCall
<1>9. Calling
  BY <1>1, <1>5, <1>8 DEF Calling, InCall
<1>10. Answers
  <2>1. Kept(Log, acked)
    BY <1>1 DEF Kept
  <2>2. acked \in Seq(Request)
    BY <1>1
  <2> QED
    BY <1>1, <1>8, <2>1, <2>2 DEF Answers
<1> QED
  BY <1>4, <1>6, <1>7, <1>9, <1>10 DEF IInv

LEMMA Stuttering == ASSUME IInv, UNCHANGED vars PROVE IInv'
<1>1. /\ UNCHANGED <<file, current, phase, mirror, uncertain, todo, call, answer, acked>>
  BY DEF vars, handles, calls
<1>2. Log' = Log /\ Sound' /\ (file.rest)' = file.rest /\ Base' = Base /\ Batch' = Batch /\ (InCall' <=> InCall)
  BY <1>1, FileSame DEF IInv, Base, Batch, InCall
<1>3. Turns'
  BY <1>1 DEF IInv, Turns, At
<1>4. Mirrors'
  BY <1>1, <1>2 DEF IInv, Mirrors, Same, Loading, At
<1>5. Calling'
  <2>1. \A n \in 0..Len(Batch) : Landed(n)' <=> Landed(n)
    BY <1>1, <1>2 DEF Landed
  <2>2. Same(current)' <=> Same(current)
    BY <1>1, <1>2 DEF Same
  <2> QED
    BY <1>1, <1>2, <2>1, <2>2 DEF IInv, Calling, At
<1>6. Answers'
  BY <1>1, <1>2 DEF IInv, Answers
<1> QED
  BY <1>2, <1>3, <1>4, <1>5, <1>6 DEF IInv

LEMMA StepKeeps == ASSUME ~MayOverlap, IInv, [Next]_vars PROVE IInv'
<1>1. ASSUME NEW h \in Handle, NEW r \in Request, Submit(h, r) PROVE IInv'
  BY <1>1, SubmitKeeps
<1>2. ASSUME NEW h \in Handle, RepairFails(h) PROVE IInv'
  BY <1>2, ClosedKeeps DEF RepairFails, At, GoTo, calls
<1>3. ASSUME NEW h \in Handle, Drop(h) PROVE IInv'
  BY <1>3, ClosedKeeps DEF Drop, At, GoTo, calls
<1>4. ASSUME NEW h \in Handle,
             \/ Land(h) \/ Apply(h) \/ Tear(h) \/ CutBack(h) \/ GiveUp(h)
             \/ Close(h) \/ Load(h) \/ Publish(h) \/ Terminate(h) \/ LeaveAsIs(h)
             \/ RepairFails(h) \/ Drop(h) \/ Install(h)
      PROVE  IInv'
  BY <1>2, <1>3, <1>4, LandKeeps, ApplyKeeps, TearKeeps, CutBackKeeps, GiveUpKeeps,
     CloseKeeps, LoadKeeps, PublishKeeps, TerminateKeeps, LeaveAsIsKeeps, InstallKeeps
<1>5. CASE Crash
  BY <1>5, CrashKeeps
<1>6. CASE UNCHANGED vars
  BY <1>6, Stuttering
<1> QED
  BY <1>1, <1>4, <1>5, <1>6 DEF Next

(* While requests and openings take turns, the file is the encoding of a   *)
(* log that only grows sequences and identifiers, with at most the         *)
(* beginning of one more line after it, and each handle mirrors that log   *)
(* or what it was before the write under way.                              *)
THEOREM JournalInvariant == ASSUME ~MayOverlap PROVE Spec => []IInv
<1>1. Init => IInv
  BY Initially
<1>2. IInv /\ [Next]_vars => IInv'
  BY StepKeeps
<1> QED
  BY <1>1, <1>2, PTL DEF Spec

(* Everything up to the last line end of a session's file can be loaded,   *)
(* whatever was torn after it and however often: no failed write, refused  *)
(* repair or crash of JsonlSessionStorage leaves part of a line in front   *)
(* of another, or a sequence or an identifier twice.                       *)
THEOREM HistoryLoads == ASSUME ~MayOverlap PROVE Spec => []HistoryIsSound
BY JournalInvariant, SoundHistory, PTL

(* The answers of the appends are true: lines of acknowledged requests are *)
(* in the file once, whole and in the order of the answers, and a request  *)
(* whose failed append was cut back has left no line.                      *)
THEOREM AnswersHold == ASSUME ~MayOverlap PROVE Spec => []AnswersAreTrue
BY JournalInvariant, TrueAnswers, PTL

(* A handle that accepts requests mirrors the file to its last line end:   *)
(* run_owned stamps and validates against what the next load will read.    *)
THEOREM MirrorHolds == ASSUME ~MayOverlap PROVE Spec => []MirrorIsFile
BY JournalInvariant, TrueMirror, PTL

(* What a load would read, every later load reads too, in the same place:  *)
(* of writes, repairs, crashes and switches of the handle none takes back  *)
(* a line, and a failed append is cut back to what its handle mirrors.     *)
THEOREM HistoryGrows == ASSUME ~MayOverlap PROVE Spec => HistoryOnlyGrows
<1>1. IInv /\ IInv' /\ [Next]_vars => [Growth]_vars
  BY StepGrows
<1>2. Growth => IsPrefix(IF At(current, "cutting") THEN mirror[current] ELSE Mutations(file),
                         Mutations(file)')
  BY DEF Growth
<1> QED
  BY <1>1, <1>2, JournalInvariant, PTL DEF Spec, HistoryOnlyGrows
=============================================================================
