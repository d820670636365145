------------------------ MODULE SequenceBufferProofs ------------------------
(***************************************************************************)
(* Safety of reassembly, and that it delivers what StreamReassembly        *)
(* promises, for any payloads, starts, number of packets and either        *)
(* policy.                                                                 *)
(***************************************************************************)
EXTENDS SequenceBuffer, SequenceTheorems, FiniteSetTheorems, TLAPS

\* Both properties of the merge together are inductive: a splice keeps the
\* length in step with the expected number because it lies within the stream.
BufferInv == TypeOK /\ CompleteIsContiguous /\ SpliceWithinStream

-----------------------------------------------------------------------------
(* Facts about the operators.                                              *)

\* Every segment that the loop can meet is a non-empty payload.
LEMMA SegmentFacts ==
  ASSUME TypeOK, NEW s \in DOMAIN segments
  PROVE  /\ s \in Nat
         /\ segments[s] \in Seq(Byte)
         /\ Len(segments[s]) \in Nat \ {0}
<1>1. segments[s] \in Payload
  BY DEF TypeOK
<1>2. segments[s] \in Seq(Byte) /\ segments[s] # <<>>
  BY <1>1, BufferAssumption
<1>3. QED
  BY <1>2, BufferAssumption, EmptySeq DEF TypeOK

\* Under either policy a splice lengthens the stream by what the segment has
\* beyond it.
LEMMA SplicedFacts ==
  ASSUME NEW old \in Seq(Byte), NEW data \in Seq(Byte), NEW n \in Nat,
         n <= Len(old), n < Len(data)
  PROVE  /\ Spliced(old, n, data) \in Seq(Byte)
         /\ Len(Spliced(old, n, data)) = Len(old) + Len(data) - n
<1>1. /\ Len(old) \in Nat /\ Len(data) \in Nat
      /\ \A i \in 1 .. Len(old) : old[i] \in Byte
      /\ \A i \in 1 .. Len(data) : data[i] \in Byte
  BY LenProperties, ElementOfSeq
<1> DEFINE cut == SubSeq(old, 1, Len(old) - n)
           rest == SubSeq(data, n + 1, Len(data))
<1>2. cut \in Seq(Byte) /\ Len(cut) = Len(old) - n
  <2>1. \A i \in 1 .. Len(old) - n : old[i] \in Byte
    BY <1>1
  <2>2. QED
    BY <1>1, <2>1, SubSeqProperties
<1>3. rest \in Seq(Byte) /\ Len(rest) = Len(data) - n
  <2>1. \A i \in n + 1 .. Len(data) : data[i] \in Byte
    BY <1>1
  <2>2. QED
    BY <1>1, <2>1, SubSeqProperties
<1>4. /\ cut \o data \in Seq(Byte) /\ Len(cut \o data) = Len(old) - n + Len(data)
      /\ old \o rest \in Seq(Byte) /\ Len(old \o rest) = Len(old) + Len(data) - n
  <2> HIDE DEF cut, rest
  <2>1. QED
    BY <1>1, <1>2, <1>3, ConcatProperties
<1>5. QED
  BY <1>1, <1>4 DEF Spliced

\* Overwriting keeps the length.
LEMMA OverwrittenFacts ==
  ASSUME NEW old \in Seq(Byte), NEW data \in Seq(Byte), NEW n \in Int
  PROVE  /\ Overwritten(old, n, data) \in Seq(Byte)
         /\ Len(Overwritten(old, n, data)) = Len(old)
<1>1. Len(old) \in Nat /\ Len(data) \in Nat /\ DOMAIN old = 1 .. Len(old)
  BY LenProperties
<1>2. \A i \in 1 .. Len(old) : old[i] \in Byte
  BY ElementOfSeq
<1>3. \A i \in 1 .. Len(old) :
        i \in n + 1 .. n + Len(data) => data[i - n] \in Byte
  BY <1>1, ElementOfSeq
<1> DEFINE e(i) == IF i \in n + 1 .. n + Len(data) THEN data[i - n] ELSE old[i]
<1>4. \A i \in 1 .. Len(old) : e(i) \in Byte
  BY <1>2, <1>3
<1>5. Overwritten(old, n, data) = [i \in 1 .. Len(old) |-> e(i)]
  BY <1>1 DEF Overwritten
<1>6. [i \in 1 .. Len(old) |-> e(i)] \in [1 .. Len(old) -> Byte]
  BY <1>4
<1>7. QED
  BY <1>1, <1>5, <1>6

-----------------------------------------------------------------------------
(* The steps.                                                              *)

LEMMA BufferInitial == Init => BufferInv
<1> SUFFICES ASSUME Init PROVE BufferInv
  OBVIOUS
<1>1. /\ packets \in Seq(Packet) /\ stream \in Seq(Byte) /\ gaps \in Seq(GapRecord)
      /\ DOMAIN segments = {} /\ segments \in [{} -> Payload]
  BY EmptySeq DEF Init
<1>2. QED
  BY <1>1 DEF Init, BufferInv, TypeOK, CompleteIsContiguous, SpliceWithinStream

\* Feeding a packet leaves the merge untouched.
LEMMA FeedStep ==
  ASSUME BufferInv, NEW s \in SeqNo, NEW d \in Payload,
         AddRetransmission(s, d) \/ AddSameStart(s, d) \/ AddNew(s, d)
  PROVE  BufferInv'
<1>1. phase = "feed" /\ phase' = "feed" /\ UNCHANGED <<policy, merge>>
  BY DEF AddRetransmission, AddSameStart, AddNew, Feed
<1>2. packets' \in Seq(Packet)
  <2>1. packets' = Append(packets, [seq |-> s, data |-> d])
    BY DEF AddRetransmission, AddSameStart, AddNew, Feed
  <2>2. [seq |-> s, data |-> d] \in Packet
    BY DEF Packet
  <2>3. QED
    BY <2>1, <2>2, AppendProperties DEF BufferInv, TypeOK
<1>3. /\ DOMAIN segments \subseteq DOMAIN segments'
      /\ DOMAIN segments' \subseteq SeqNo
      /\ segments' \in [DOMAIN segments' -> Payload]
  <2>1. CASE AddRetransmission(s, d)
    BY <2>1 DEF AddRetransmission, BufferInv, TypeOK
  <2>2. CASE AddSameStart(s, d)
    <3>1. ResolveOverlap(segments[s], d) \in Payload
      BY <2>2 DEF AddSameStart, ResolveOverlap, BufferInv, TypeOK
    <3>2. QED
      BY <2>2, <3>1 DEF AddSameStart, BufferInv, TypeOK
  <2>3. CASE AddNew(s, d)
    BY <2>3 DEF AddNew, BufferInv, TypeOK
  <2>4. QED
    BY <2>1, <2>2, <2>3
<1>4. retransmissions' \in Nat /\ overlaps' \in Nat
  BY DEF AddRetransmission, AddSameStart, AddNew, BufferInv, TypeOK
<1>5. QED
  BY <1>1, <1>2, <1>3, <1>4
     DEF BufferInv, TypeOK, CompleteIsContiguous, SpliceWithinStream, merge

LEMMA BeginStep == BufferInv /\ BeginMerge => BufferInv'
<1> SUFFICES ASSUME BufferInv, BeginMerge PROVE BufferInv'
  OBVIOUS
<1>1. /\ stream' = <<>> /\ stream' \in Seq(Byte) /\ Len(stream') = 0
      /\ gaps' \in Seq(GapRecord)
      /\ todo' = DOMAIN segments
      /\ phase' = "merge"
      /\ UNCHANGED <<policy, input, overlaps>>
  BY EmptySeq DEF BeginMerge
<1>2. DOMAIN segments \subseteq Nat
  BY BufferAssumption DEF BufferInv, TypeOK
<1>3. /\ expected' \in Nat
      /\ \A s \in DOMAIN segments : expected' <= s
      /\ \A first \in DOMAIN segments :
           IsLowest(first, DOMAIN segments) => expected' = first
  BY <1>2 DEF BeginMerge, IsLowest
<1>4. TypeOK'
  BY <1>1, <1>3 DEF BufferInv, TypeOK, input
<1>5. CompleteIsContiguous'
  BY <1>1, <1>2, <1>3 DEF CompleteIsContiguous, IsLowest, input
<1>6. SpliceWithinStream'
  BY <1>1, <1>2, <1>3 DEF SpliceWithinStream
<1>7. QED
  BY <1>4, <1>5, <1>6 DEF BufferInv

\* What every iteration of the loop leaves alone, and where it stands.
LEMMA AtFacts ==
  ASSUME BufferInv, NEW s \in todo, At(s)
  PROVE  /\ phase = "merge" /\ phase' = "merge"
         /\ todo' \subseteq todo
         /\ s \in DOMAIN segments /\ s \in Nat
         /\ \A t \in todo' : t \in Nat /\ s <= t
         /\ expected - s <= Len(stream)
         /\ expected \in Nat /\ stream \in Seq(Byte) /\ Len(stream) \in Nat
         /\ UNCHANGED <<policy, input>>
<1>1. todo \subseteq Nat
  BY BufferAssumption DEF BufferInv, TypeOK
<1>2. /\ phase = "merge" /\ phase' = "merge"
      /\ todo' = todo \ {s} /\ \A t \in todo : s <= t
      /\ UNCHANGED <<policy, input>>
  BY DEF At, IsLowest
<1>3. QED
  BY <1>1, <1>2, LenProperties DEF BufferInv, TypeOK, SpliceWithinStream

\* An iteration that lengthens the stream and moves the expected number by
\* as much keeps the invariant; one after a gap only needs to leave the
\* stream as long as its segment.
LEMMA Extends ==
  ASSUME BufferInv, NEW s \in todo, At(s),
         stream' \in Seq(Byte), expected' \in Nat, overlaps' \in Nat,
         gaps' \in Seq(GapRecord),
         \/ gaps' = gaps /\ Len(stream') - Len(stream) = expected' - expected
                         /\ expected' >= expected
         \/ gaps' # <<>> /\ expected' - s <= Len(stream')
  PROVE  BufferInv'
<1>1. Len(stream') \in Nat
  BY LenProperties
<1>2. TypeOK'
  BY AtFacts DEF BufferInv, TypeOK, input
<1>3. CompleteIsContiguous'
  <2> SUFFICES ASSUME gaps' = <<>>, NEW first \in DOMAIN segments,
                      IsLowest(first, DOMAIN segments)
               PROVE  Len(stream') = expected' - first
    BY AtFacts DEF CompleteIsContiguous, input
  <2>1. gaps = <<>> /\ Len(stream') - Len(stream) = expected' - expected
    OBVIOUS
  <2>2. Len(stream) = expected - first
    BY <2>1, AtFacts DEF BufferInv, CompleteIsContiguous
  <2>3. first \in Nat
    BY SegmentFacts DEF BufferInv
  <2>4. QED
    BY <1>1, <2>1, <2>2, <2>3, AtFacts
<1>4. SpliceWithinStream'
  <2> SUFFICES ASSUME NEW t \in todo' PROVE expected' - t <= Len(stream')
    BY DEF SpliceWithinStream
  <2>1. t \in todo /\ t \in Nat /\ s <= t /\ s \in Nat
    BY AtFacts
  <2>2. expected - t <= Len(stream)
    BY <2>1, AtFacts DEF BufferInv, SpliceWithinStream
  <2>3. QED
    BY <1>1, <2>1, <2>2, AtFacts
<1>5. QED
  BY <1>2, <1>3, <1>4 DEF BufferInv

LEMMA AlignedStep ==
  ASSUME BufferInv, NEW s \in todo, MergeAligned(s) PROVE BufferInv'
<1>1. At(s) /\ s = expected /\ UNCHANGED <<overlaps, gaps>>
      /\ stream' = stream \o segments[s] /\ expected' = s + Len(segments[s])
  BY DEF MergeAligned, EndOf
<1>2. segments[s] \in Seq(Byte) /\ Len(segments[s]) \in Nat \ {0}
  BY <1>1, AtFacts, SegmentFacts DEF BufferInv
<1>3. stream' \in Seq(Byte) /\ Len(stream') = Len(stream) + Len(segments[s])
  BY <1>1, <1>2, AtFacts, ConcatProperties
<1>4. overlaps' \in Nat /\ gaps' \in Seq(GapRecord)
  BY <1>1 DEF BufferInv, TypeOK
<1>5. /\ expected' \in Nat /\ expected' >= expected
      /\ Len(stream') - Len(stream) = expected' - expected
  BY <1>1, <1>2, <1>3, AtFacts
<1>6. QED
  BY <1>1, <1>3, <1>4, <1>5, Extends

LEMMA AfterGapStep ==
  ASSUME BufferInv, NEW s \in todo, MergeAfterGap(s) PROVE BufferInv'
<1> DEFINE g == [start_seq |-> expected, end_seq |-> s, length |-> s - expected]
<1>1. At(s) /\ s > expected /\ UNCHANGED overlaps
      /\ gaps' = Append(gaps, g)
      /\ stream' = stream \o segments[s] /\ expected' = s + Len(segments[s])
  BY DEF MergeAfterGap, EndOf, GapLength
<1>2. segments[s] \in Seq(Byte) /\ Len(segments[s]) \in Nat \ {0}
  BY <1>1, AtFacts, SegmentFacts DEF BufferInv
<1>3. stream' \in Seq(Byte) /\ Len(stream') = Len(stream) + Len(segments[s])
  BY <1>1, <1>2, AtFacts, ConcatProperties
<1>4. g \in GapRecord
  BY <1>1, AtFacts DEF GapRecord
<1>5. overlaps' \in Nat /\ gaps' \in Seq(GapRecord) /\ gaps' # <<>>
  <2> HIDE DEF g
  <2>1. gaps \in Seq(GapRecord) /\ overlaps \in Nat
    BY DEF BufferInv, TypeOK
  <2>2. QED
    BY <1>1, <1>4, <2>1, AppendProperties
<1>6. expected' \in Nat /\ expected' - s <= Len(stream')
  BY <1>1, <1>2, <1>3, AtFacts
<1>7. QED
  BY <1>1, <1>3, <1>5, <1>6, Extends

LEMMA PartialStep ==
  ASSUME BufferInv, NEW s \in todo, MergePartial(s) PROVE BufferInv'
<1> DEFINE n == expected - s
<1>1. At(s) /\ s < expected /\ s + Len(segments[s]) > expected
      /\ overlaps' = overlaps + 1 /\ UNCHANGED gaps
      /\ stream' = Spliced(stream, n, segments[s])
      /\ expected' = s + Len(segments[s])
  BY DEF MergePartial, EndOf
<1>2. segments[s] \in Seq(Byte) /\ Len(segments[s]) \in Nat \ {0}
  BY <1>1, AtFacts, SegmentFacts DEF BufferInv
<1>3. n \in Nat /\ n <= Len(stream) /\ n < Len(segments[s])
  BY <1>1, <1>2, AtFacts
<1>4. /\ stream' \in Seq(Byte)
      /\ Len(stream') = Len(stream) + Len(segments[s]) - n
  <2> HIDE DEF n
  <2>1. QED
    BY <1>1, <1>2, <1>3, AtFacts, SplicedFacts
<1>5. overlaps' \in Nat /\ gaps' \in Seq(GapRecord)
  BY <1>1 DEF BufferInv, TypeOK
<1>6. /\ expected' \in Nat /\ expected' >= expected
      /\ Len(stream') - Len(stream) = expected' - expected
  BY <1>1, <1>2, <1>4, AtFacts
<1>7. QED
  BY <1>1, <1>4, <1>5, <1>6, Extends

LEMMA ContainedStep ==
  ASSUME BufferInv, NEW s \in todo, MergeContained(s) PROVE BufferInv'
<1>1. At(s) /\ overlaps' = overlaps + 1 /\ UNCHANGED <<expected, gaps>>
  BY DEF MergeContained
<1>2. segments[s] \in Seq(Byte)
  BY <1>1, AtFacts, SegmentFacts DEF BufferInv
<1>3. Len(stream) - (expected - s) \in Int
  BY <1>1, AtFacts
<1>4. stream' \in Seq(Byte) /\ Len(stream') = Len(stream)
  <2>1. \/ stream' = Overwritten(stream, Len(stream) - (expected - s), segments[s])
        \/ stream' = stream
    BY DEF MergeContained
  <2>2. QED
    BY <1>1, <1>2, <1>3, <2>1, AtFacts, OverwrittenFacts
<1>5. overlaps' \in Nat /\ gaps' \in Seq(GapRecord) /\ expected' \in Nat
  BY <1>1 DEF BufferInv, TypeOK
<1>6. Len(stream') - Len(stream) = expected' - expected /\ expected' >= expected
  BY <1>1, <1>4, AtFacts
<1>7. QED
  BY <1>1, <1>4, <1>5, <1>6, Extends

LEMMA BufferStep == BufferInv /\ [Next]_vars => BufferInv'
<1> SUFFICES ASSUME BufferInv, [Next]_vars PROVE BufferInv'
  OBVIOUS
<1>1. CASE UNCHANGED vars
  BY <1>1 DEF vars, input, merge, BufferInv, TypeOK, CompleteIsContiguous,
              SpliceWithinStream
<1>2. CASE EndMerge
  BY <1>2 DEF EndMerge, input, merge, BufferInv, TypeOK, CompleteIsContiguous,
              SpliceWithinStream
<1>3. QED
  BY <1>1, <1>2, FeedStep, BeginStep, AlignedStep, AfterGapStep, PartialStep,
     ContainedStep DEF Next

-----------------------------------------------------------------------------
\* The invariant of the buffer holds in every reachable state.
THEOREM BufferSafe == Spec => []BufferInv
BY BufferInitial, BufferStep, PTL DEF Spec

\* A gap-free stream has exactly one byte per sequence number of its span.
THEOREM CompleteStreams == Spec => []CompleteIsContiguous
BY BufferSafe, PTL DEF BufferInv

\* No splice of reassemble() reaches before the beginning of the stream.
THEOREM SplicesInRange == Spec => []SpliceWithinStream
BY BufferSafe, PTL DEF BufferInv

-----------------------------------------------------------------------------
(* The buffer delivers what StreamReassembly promises.  What the loop has  *)
(* merged is described by the set S of the starts it has passed: the       *)
(* positions they cover, the segment whose byte counts at each of them, and *)
(* the place of that byte in the stream.                                   *)

Segments(seg) ==
  \A s \in DOMAIN seg : s \in Nat /\ seg[s] \in Seq(Byte) /\ Len(seg[s]) \in Nat \ {0}

Span(seg, s) == s .. s + Len(seg[s]) - 1

Covered(seg, S) == UNION {Span(seg, s) : s \in S}

UpTo(H, p) == {q \in H : q <= p}

\* The policy prefers i to j, two starts or the indexes of two packets.
Prefers(pol, i, j) == IF pol = "LAST_WINS" THEN j <= i ELSE i <= j

Wins(seg, pol, S, s, p) ==
  /\ s \in S /\ p \in Span(seg, s)
  /\ \A t \in S : p \in Span(seg, t) => Prefers(pol, s, t)

\* str has the byte that counts at each position covered by S, in order.
Bytes(seg, pol, S, str) ==
  /\ str \in Seq(Byte)
  /\ Len(str) = Cardinality(Covered(seg, S))
  /\ \A p \in Covered(seg, S) : \E s \in S :
       /\ Wins(seg, pol, S, s, p)
       /\ str[Cardinality(UpTo(Covered(seg, S), p))] = seg[s][p - s + 1]

\* x is where the last of the segments of S ends.
Reaches(seg, S, x) ==
  /\ \A s \in S : s + Len(seg[s]) <= x
  /\ S # {} => \E s \in S : s + Len(seg[s]) = x

\* Positions covered by S with a hole before them.
Holes(seg, S) ==
  {p \in Covered(seg, S) : p - 1 \notin Covered(seg, S) /\ \E q \in Covered(seg, S) : q < p}

\* Packet k is the one that counts for start s.
Counts(pol, pks, s, k) ==
  /\ k \in DOMAIN pks /\ pks[k].seq = s
  /\ \A j \in DOMAIN pks : pks[j].seq = s => Prefers(pol, k, j)

\* The buffer holds the payload of the packet that counts for each start.
KeepsOne ==
  /\ DOMAIN segments = {packets[k].seq : k \in DOMAIN packets}
  /\ \A s \in DOMAIN segments :
       \E k \in DOMAIN packets : Counts(policy, packets, s, k) /\ segments[s] = packets[k].data

Passed == DOMAIN segments \ todo

GapEnds == {gaps[i].end_seq : i \in DOMAIN gaps}

\* The loop passes the starts in order and has merged those passed.
MergesInOrder ==
  phase # "feed" =>
    /\ DOMAIN segments # {} => \E s \in DOMAIN segments : IsLowest(s, DOMAIN segments)
    /\ \A s \in Passed, t \in todo : s < t
    /\ Passed = {} /\ todo # {} => IsLowest(expected, todo)
    /\ Reaches(segments, Passed, expected)
    /\ Bytes(segments, policy, Passed, stream)
    /\ GapEnds = Holes(segments, Passed)

PromiseInv == BufferInv /\ KeepsOne /\ MergesInOrder /\ (phase = "done" => todo = {})

-----------------------------------------------------------------------------
(* Facts about positions and the bytes they have.                          *)

\* Counting up to p in a set that ends with the interval a .. b - 1.
LEMMA RankFromTop ==
  ASSUME NEW a \in Nat, NEW b \in Nat, NEW H, H \subseteq 0 .. b - 1,
         a .. b - 1 \subseteq H, NEW p \in a .. b - 1
  PROVE  Cardinality(UpTo(H, p)) = Cardinality(H) - (b - 1 - p)
<1> DEFINE above == p + 1 .. b - 1
<1>1. IsFiniteSet(H)
  <2>1. IsFiniteSet(0 .. b - 1)
    BY FS_Interval
  <2> QED BY <2>1, FS_Subset
<1>2. UpTo(H, p) = H \ above
  <2>1. \A q \in H : q \in Int /\ (q <= p <=> q \notin above)
    OBVIOUS
  <2> HIDE DEF above
  <2> QED BY <2>1 DEF UpTo
<1>3. H \cap above = above
  OBVIOUS
<1>4. Cardinality(above) = b - 1 - p
  BY FS_Interval
<1> HIDE DEF above
<1>5. Cardinality(H \ above) = Cardinality(H) - Cardinality(H \cap above)
  BY <1>1, FS_Difference
<1> QED BY <1>2, <1>3, <1>4, <1>5

\* A position before that interval comes before it in the count.
LEMMA RankBelow ==
  ASSUME NEW a \in Nat, NEW b \in Nat, a <= b, NEW H, H \subseteq 0 .. b - 1,
         a .. b - 1 \subseteq H, NEW p \in H, p < a
  PROVE  Cardinality(UpTo(H, p)) \in 1 .. Cardinality(H) - (b - a)
<1> DEFINE top == a .. b - 1
<1>1. IsFiniteSet(H) /\ IsFiniteSet(H \ top)
  <2>1. IsFiniteSet(0 .. b - 1)
    BY FS_Interval
  <2>2. IsFiniteSet(H)
    BY <2>1, FS_Subset
  <2> QED BY <2>2, FS_Subset
<1>2. UpTo(H, p) \subseteq H \ top /\ H \cap top = top /\ p \in UpTo(H, p)
  BY DEF UpTo
<1>3. Cardinality(top) = b - a
  BY FS_Interval
<1>4. Cardinality(H \ top) = Cardinality(H) - (b - a)
  <2> HIDE DEF top
  <2>1. Cardinality(H \ top) = Cardinality(H) - Cardinality(H \cap top)
    BY <1>1, FS_Difference
  <2> QED BY <1>2, <1>3, <2>1
<1>5. /\ IsFiniteSet(UpTo(H, p))
      /\ Cardinality(UpTo(H, p)) \in Nat /\ Cardinality(UpTo(H, p)) # 0
      /\ Cardinality(UpTo(H, p)) <= Cardinality(H \ top)
  <2> HIDE DEF top
  <2> QED BY <1>1, <1>2, FS_Subset, FS_CardinalityType, FS_EmptySet
<1>6. Cardinality(H) \in Nat
  BY <1>1, FS_CardinalityType
<1> QED BY <1>4, <1>5, <1>6

\* The loop is at start s, past those of S, and the last of them ends at x.
Arrives(seg, S, x, s) ==
  /\ Segments(seg) /\ S \subseteq DOMAIN seg /\ s \in DOMAIN seg
  /\ x \in Nat /\ Reaches(seg, S, x)
  /\ \A t \in S : t < s
  /\ S = {} => s = x

\* The positions before x are covered from s on; the segment adds the others.
LEMMA CoverFacts ==
  ASSUME NEW seg, NEW S, NEW x, NEW s, Arrives(seg, S, x, s)
  PROVE  /\ Covered(seg, S) \subseteq 0 .. x - 1
         /\ IsFiniteSet(Covered(seg, S)) /\ Cardinality(Covered(seg, S)) \in Nat
         /\ s .. x - 1 \subseteq Covered(seg, S)
         /\ Covered(seg, S \cup {s}) = Covered(seg, S) \cup Span(seg, s)
         /\ s \in Nat /\ Len(seg[s]) \in Nat \ {0} /\ seg[s] \in Seq(Byte)
<1>1. s \in Nat /\ Len(seg[s]) \in Nat \ {0} /\ seg[s] \in Seq(Byte) /\ x \in Nat
  BY DEF Arrives, Segments
<1>2. \A t \in S : /\ t \in Nat /\ Len(seg[t]) \in Nat \ {0}
                   /\ t + Len(seg[t]) <= x /\ t < s
  BY DEF Arrives, Segments, Reaches
<1>3. Covered(seg, S) \subseteq 0 .. x - 1
  BY <1>1, <1>2 DEF Covered, Span
<1>4. IsFiniteSet(Covered(seg, S)) /\ Cardinality(Covered(seg, S)) \in Nat
  <2>1. IsFiniteSet(0 .. x - 1)
    BY <1>1, FS_Interval
  <2>2. IsFiniteSet(Covered(seg, S))
    BY <1>3, <2>1, FS_Subset
  <2> QED BY <2>2, FS_CardinalityType
<1>5. s .. x - 1 \subseteq Covered(seg, S)
  <2>1. CASE S = {}
    BY <1>1, <2>1 DEF Arrives
  <2>2. CASE S # {}
    <3>1. PICK t \in S : t + Len(seg[t]) = x
      BY <2>2 DEF Arrives, Reaches
    <3>2. s .. x - 1 \subseteq Span(seg, t)
      BY <1>1, <1>2, <3>1 DEF Span
    <3> QED BY <3>2 DEF Covered
  <2> QED BY <2>1, <2>2
<1>6. Covered(seg, S \cup {s}) = Covered(seg, S) \cup Span(seg, s)
  BY DEF Covered
<1> QED BY <1>1, <1>3, <1>4, <1>5, <1>6

\* A stream that has the segment's bytes where the segment counts, and the old
\* ones elsewhere, has the bytes that count.
LEMMA BytesAfter ==
  ASSUME NEW seg, NEW pol, NEW S, NEW x, NEW s, Arrives(seg, S, x, s),
         NEW old, Bytes(seg, pol, S, old),
         NEW str \in Seq(Byte),
         Len(str) = Cardinality(Covered(seg, S \cup {s})),
         \A p \in Span(seg, s) : pol = "LAST_WINS" \/ x <= p =>
           str[Cardinality(UpTo(Covered(seg, S \cup {s}), p))] = seg[s][p - s + 1],
         \A p \in Covered(seg, S) : pol # "LAST_WINS" \/ p \notin Span(seg, s) =>
           str[Cardinality(UpTo(Covered(seg, S), p))]
             = old[Cardinality(UpTo(Covered(seg, S), p))]
  PROVE  Bytes(seg, pol, S \cup {s}, str)
<1> DEFINE H == Covered(seg, S)
           H2 == Covered(seg, S \cup {s})
<1>1. /\ H \subseteq 0 .. x - 1 /\ s .. x - 1 \subseteq H /\ H2 = H \cup Span(seg, s)
      /\ s \in Nat /\ Len(seg[s]) \in Nat \ {0}
  BY CoverFacts
<1>2. x \in Nat /\ \A t \in S : t \in Nat /\ Len(seg[t]) \in Nat \ {0} /\ t < s
                                /\ t + Len(seg[t]) <= x
  BY DEF Arrives, Segments, Reaches
<1> SUFFICES ASSUME NEW p \in H2
             PROVE  \E t \in S \cup {s} :
                      /\ Wins(seg, pol, S \cup {s}, t, p)
                      /\ str[Cardinality(UpTo(H2, p))] = seg[t][p - t + 1]
  BY DEF Bytes
<1>3. CASE p \in Span(seg, s) /\ (pol = "LAST_WINS" \/ x <= p)
  <2>1. Wins(seg, pol, S \cup {s}, s, p)
    BY <1>1, <1>2, <1>3 DEF Wins, Prefers, Span
  <2> QED BY <1>3, <2>1
<1>4. CASE ~(p \in Span(seg, s) /\ (pol = "LAST_WINS" \/ x <= p))
  <2>1. p \in H /\ (pol # "LAST_WINS" \/ p \notin Span(seg, s))
    <3>1. p \in H \/ p \in Span(seg, s)
      BY <1>1
    <3>2. p \in Span(seg, s) /\ ~(x <= p) => p \in s .. x - 1
      BY <1>1, <1>2 DEF Span
    <3> QED BY <1>1, <1>4, <3>1, <3>2
  <2>2. PICK t \in S : /\ Wins(seg, pol, S, t, p)
                       /\ old[Cardinality(UpTo(H, p))] = seg[t][p - t + 1]
    BY <2>1 DEF Bytes
  <2>3. Wins(seg, pol, S \cup {s}, t, p)
    BY <1>1, <1>2, <2>1, <2>2 DEF Wins, Prefers
  <2>4. UpTo(H2, p) = UpTo(H, p)
    <3> HIDE DEF H, H2
    <3>1. \A q \in Span(seg, s) : q <= p => q \in s .. x - 1
      BY <1>1, <1>2, <2>1 DEF Span
    <3> QED BY <1>1, <3>1 DEF UpTo
  <2> QED BY <2>1, <2>2, <2>3, <2>4
<1> QED BY <1>3, <1>4

\* The segment starts where the stream ends, or beyond.
LEMMA BytesAppended ==
  ASSUME NEW seg, NEW pol, NEW S, NEW x, NEW s, Arrives(seg, S, x, s), s >= x,
         NEW old, Bytes(seg, pol, S, old)
  PROVE  Bytes(seg, pol, S \cup {s}, old \o seg[s])
<1> DEFINE H == Covered(seg, S)
           H2 == Covered(seg, S \cup {s})
           n == Len(seg[s])
           str == old \o seg[s]
<1>1. /\ H \subseteq 0 .. x - 1 /\ H2 = H \cup Span(seg, s) /\ Cardinality(H) \in Nat
      /\ s \in Nat /\ n \in Nat \ {0} /\ seg[s] \in Seq(Byte) /\ IsFiniteSet(H)
      /\ x \in Nat
  BY CoverFacts DEF Arrives
<1>2. old \in Seq(Byte) /\ Len(old) = Cardinality(H)
  BY DEF Bytes
<1>3. /\ str \in Seq(Byte) /\ Len(str) = Cardinality(H) + n
      /\ \A i \in 1 .. Cardinality(H) + n :
           str[i] = IF i <= Cardinality(H) THEN old[i] ELSE seg[s][i - Cardinality(H)]
  <2>1. /\ str \in Seq(Byte) /\ Len(str) = Len(old) + n
        /\ \A i \in 1 .. Len(old) + n :
             str[i] = IF i <= Len(old) THEN old[i] ELSE seg[s][i - Len(old)]
    <3> HIDE DEF H
    <3> QED BY <1>1, <1>2, ConcatProperties
  <2> HIDE DEF H, n, str
  <2> QED BY <1>2, <2>1
<1>4. Cardinality(H2) = Cardinality(H) + n
  <2>1. IsFiniteSet(Span(seg, s)) /\ Cardinality(Span(seg, s)) = n
    <3> HIDE DEF n
    <3>1. s \in Int /\ s + n - 1 \in Int /\ ~(s > s + n - 1) /\ s + n - 1 - s + 1 = n
      BY <1>1
    <3> QED BY <3>1, FS_Interval DEF Span, n
  <2>2. H \cap Span(seg, s) = {}
    <3> HIDE DEF H, n
    <3> QED BY <1>1 DEF Span
  <2> HIDE DEF H, H2, n
  <2>3. Cardinality(H \cup Span(seg, s))
          = Cardinality(H) + Cardinality(Span(seg, s)) - Cardinality(H \cap Span(seg, s))
    BY <1>1, <2>1, FS_Union
  <2>4. Cardinality(H \cap Span(seg, s)) = 0
    BY <2>2, FS_EmptySet
  <2>5. Cardinality(H2) = Cardinality(H) + n - 0
    BY <1>1, <2>1, <2>3, <2>4
  <2> QED BY <1>1, <2>5
<1>5. ASSUME NEW p \in Span(seg, s)
      PROVE  str[Cardinality(UpTo(H2, p))] = seg[s][p - s + 1]
  <2>1. H2 \subseteq 0 .. (s + n) - 1 /\ s .. (s + n) - 1 \subseteq H2
        /\ p \in s .. (s + n) - 1 /\ s + n \in Nat
    <3>1. Span(seg, s) = s .. (s + n) - 1
      <4>1. s + n - 1 = (s + n) - 1
        BY <1>1
      <4> QED BY <4>1 DEF Span
    <3> HIDE DEF H, H2, n
    <3> QED BY <1>1, <3>1
  <2> HIDE DEF H, H2, n, str
  <2>2. Cardinality(UpTo(H2, p)) = Cardinality(H2) - ((s + n) - 1 - p)
    <3> DEFINE b == s + n
    <3>1. b \in Nat /\ H2 \subseteq 0 .. b - 1 /\ s .. b - 1 \subseteq H2
          /\ p \in s .. b - 1
      BY <2>1
    <3> HIDE DEF b
    <3>2. Cardinality(UpTo(H2, p)) = Cardinality(H2) - (b - 1 - p)
      BY <1>1, <3>1, RankFromTop
    <3> QED BY <3>2 DEF b
  <2>3. Cardinality(UpTo(H2, p)) = Cardinality(H) + (p - s + 1) /\ p \in Int
    BY <1>1, <1>4, <2>1, <2>2
  <2> QED BY <1>1, <1>3, <2>1, <2>3
<1>6. ASSUME NEW p \in H
      PROVE  str[Cardinality(UpTo(H, p))] = old[Cardinality(UpTo(H, p))]
  <2>1. p < x /\ x .. x - 1 \subseteq H /\ x <= x
    BY <1>1
  <2>2. Cardinality(UpTo(H, p)) \in 1 .. Cardinality(H) - (x - x)
    BY <1>1, <2>1, RankBelow
  <2> HIDE DEF H, n, str
  <2> QED BY <1>1, <1>3, <2>2
<1> QED BY <1>3, <1>4, <1>5, <1>6, BytesAfter

\* What a splice puts where.
LEMMA SplicedElements ==
  ASSUME NEW old \in Seq(Byte), NEW data \in Seq(Byte), NEW n \in Nat,
         n <= Len(old), n < Len(data)
  PROVE  /\ policy = "LAST_WINS" =>
              /\ \A i \in 1 .. Len(old) - n : Spliced(old, n, data)[i] = old[i]
              /\ \A i \in 1 .. Len(data) :
                   Spliced(old, n, data)[Len(old) - n + i] = data[i]
         /\ policy # "LAST_WINS" =>
              /\ \A i \in 1 .. Len(old) : Spliced(old, n, data)[i] = old[i]
              /\ \A i \in 1 .. Len(data) - n :
                   Spliced(old, n, data)[Len(old) + i] = data[n + i]
<1>1. /\ Len(old) \in Nat /\ Len(data) \in Nat
      /\ \A i \in 1 .. Len(old) : old[i] \in Byte
      /\ \A i \in 1 .. Len(data) : data[i] \in Byte
  BY LenProperties, ElementOfSeq
<1> DEFINE cut == SubSeq(old, 1, Len(old) - n)
           rest == SubSeq(data, n + 1, Len(data))
<1>2. /\ cut \in Seq(Byte) /\ Len(cut) = Len(old) - n
      /\ \A i \in 1 .. Len(old) - n : cut[i] = old[i]
  <2>1. \A i \in 1 .. Len(old) - n : old[i] \in Byte
    BY <1>1
  <2>2. QED
    BY <1>1, <2>1, SubSeqProperties
<1>3. /\ rest \in Seq(Byte) /\ Len(rest) = Len(data) - n
      /\ \A i \in 1 .. Len(data) - n : rest[i] = data[n + i]
  <2>1. \A i \in n + 1 .. Len(data) : data[i] \in Byte
    BY <1>1
  <2>2. QED
    BY <1>1, <2>1, SubSeqProperties
<1>4. policy = "LAST_WINS" => Spliced(old, n, data) = cut \o data
  BY DEF Spliced
<1>5. policy # "LAST_WINS" => Spliced(old, n, data) = old \o rest
  BY DEF Spliced
<1> HIDE DEF cut, rest
<1>6. \A i \in 1 .. Len(cut) + Len(data) :
        (cut \o data)[i] = IF i <= Len(cut) THEN cut[i] ELSE data[i - Len(cut)]
  BY <1>2, ConcatProperties
<1>7. \A i \in 1 .. Len(old) + Len(rest) :
        (old \o rest)[i] = IF i <= Len(old) THEN old[i] ELSE rest[i - Len(old)]
  BY <1>3, ConcatProperties
<1>8. /\ \A i \in 1 .. Len(old) - n : (cut \o data)[i] = old[i]
      /\ \A i \in 1 .. Len(data) : (cut \o data)[Len(old) - n + i] = data[i]
  BY <1>1, <1>2, <1>6
<1>9. /\ \A i \in 1 .. Len(old) : (old \o rest)[i] = old[i]
      /\ \A i \in 1 .. Len(data) - n : (old \o rest)[Len(old) + i] = data[n + i]
  BY <1>1, <1>3, <1>7
<1> QED BY <1>4, <1>5, <1>8, <1>9

\* Every position covered has a place in the stream.
LEMMA RankInRange ==
  ASSUME NEW x \in Nat, NEW H, H \subseteq 0 .. x - 1, NEW p \in H
  PROVE  Cardinality(UpTo(H, p)) \in 1 .. Cardinality(H)
<1>1. x <= x /\ x .. x - 1 \subseteq H /\ p < x
  OBVIOUS
<1>2. Cardinality(UpTo(H, p)) \in 1 .. Cardinality(H) - (x - x)
  BY <1>1, RankBelow
<1>3. IsFiniteSet(0 .. x - 1)
  BY FS_Interval
<1>4. Cardinality(H) \in Nat
  BY <1>3, FS_Subset, FS_CardinalityType
<1>5. Cardinality(H) - (x - x) = Cardinality(H)
  BY <1>4
<1> QED BY <1>2, <1>5

\* What a segment that begins before x covers already is at the end of H.
LEMMA OverlapIsCovered ==
  ASSUME NEW seg, NEW S, NEW x, NEW s, Arrives(seg, S, x, s), s < x
  PROVE  x - s \in Nat /\ x - s <= Cardinality(Covered(seg, S))
<1>1. /\ s .. x - 1 \subseteq Covered(seg, S) /\ IsFiniteSet(Covered(seg, S))
      /\ s \in Nat /\ x \in Nat
  BY CoverFacts DEF Arrives
<1>2. Cardinality(s .. x - 1) = x - s
  BY <1>1, FS_Interval
<1>3. Cardinality(s .. x - 1) <= Cardinality(Covered(seg, S))
  BY <1>1, FS_Subset
<1> QED BY <1>1, <1>2, <1>3

\* The segment overlaps and reaches beyond the stream.
LEMMA BytesSpliced ==
  ASSUME NEW seg, NEW S, NEW x, NEW s, Arrives(seg, S, x, s),
         s < x, s + Len(seg[s]) > x,
         NEW old, Bytes(seg, policy, S, old)
  PROVE  Bytes(seg, policy, S \cup {s}, Spliced(old, x - s, seg[s]))
<1> DEFINE H == Covered(seg, S)
           H2 == Covered(seg, S \cup {s})
           n == Len(seg[s])
           c == Cardinality(H)
           data == seg[s]
           str == Spliced(old, x - s, data)
           end == s + n
<1>1. /\ H \subseteq 0 .. x - 1 /\ H2 = H \cup Span(seg, s) /\ c \in Nat
      /\ s \in Nat /\ n \in Nat \ {0} /\ data \in Seq(Byte) /\ IsFiniteSet(H)
      /\ x \in Nat /\ s .. x - 1 \subseteq H
  BY CoverFacts DEF Arrives
<1>2. old \in Seq(Byte) /\ Len(old) = c
  BY DEF Bytes
<1>3. x - s \in Nat /\ x - s <= c /\ x - s < n
  BY <1>1, OverlapIsCovered
<1>4. Span(seg, s) = s .. end - 1 /\ end \in Nat /\ end > x
  <2>1. s + n - 1 = (s + n) - 1
    BY <1>1
  <2> QED BY <1>1, <2>1 DEF Span
<1>5. str \in Seq(Byte) /\ Len(str) = c + n - (x - s)
  <2> HIDE DEF H, c, n
  <2>1. n = Len(data)
    BY DEF n
  <2> HIDE DEF data
  <2> QED BY <1>1, <1>2, <1>3, <2>1, SplicedFacts
<1>6. /\ policy = "LAST_WINS" =>
           /\ \A i \in 1 .. c - (x - s) : str[i] = old[i]
           /\ \A i \in 1 .. n : str[c - (x - s) + i] = data[i]
      /\ policy # "LAST_WINS" =>
           /\ \A i \in 1 .. c : str[i] = old[i]
           /\ \A i \in 1 .. n - (x - s) : str[c + i] = data[x - s + i]
  <2> DEFINE m == x - s
  <2>1. n = Len(data) /\ m \in Nat /\ m <= Len(old) /\ m < Len(data) /\ str = Spliced(old, m, data)
    BY <1>2, <1>3
  <2> HIDE DEF H, c, n, m, data, str
  <2>2. /\ policy = "LAST_WINS" =>
             /\ \A i \in 1 .. c - m : str[i] = old[i]
             /\ \A i \in 1 .. n : str[c - m + i] = data[i]
        /\ policy # "LAST_WINS" =>
             /\ \A i \in 1 .. c : str[i] = old[i]
             /\ \A i \in 1 .. n - m : str[c + i] = data[m + i]
    <3>1. old \in Seq(Byte) /\ data \in Seq(Byte)
      BY <1>1, <1>2
    <3>2. /\ policy = "LAST_WINS" =>
               /\ \A i \in 1 .. Len(old) - m : Spliced(old, m, data)[i] = old[i]
               /\ \A i \in 1 .. Len(data) :
                    Spliced(old, m, data)[Len(old) - m + i] = data[i]
          /\ policy # "LAST_WINS" =>
               /\ \A i \in 1 .. Len(old) : Spliced(old, m, data)[i] = old[i]
               /\ \A i \in 1 .. Len(data) - m :
                    Spliced(old, m, data)[Len(old) + i] = data[m + i]
      BY <2>1, <3>1, SplicedElements
    <3> QED BY <1>2, <2>1, <3>2
  <2> QED BY <2>2 DEF m
<1> HIDE DEF H, H2, n, c, str, data, end
<1>7. Cardinality(H2) = c + (end - x)
  <2> DEFINE new == x .. end - 1
  <2>1. H2 = H \cup new
    BY <1>1, <1>4
  <2>2. IsFiniteSet(new) /\ Cardinality(new) = end - x
    BY <1>1, <1>4, FS_Interval
  <2>3. H \cap new = {}
    BY <1>1
  <2> HIDE DEF new
  <2>4. Cardinality(H \cup new) = Cardinality(H) + Cardinality(new) - Cardinality(H \cap new)
    BY <1>1, <2>2, FS_Union
  <2>5. Cardinality(H \cap new) = 0
    BY <2>3, FS_EmptySet
  <2>6. Cardinality(H2) = c + (end - x) - 0
    BY <2>1, <2>2, <2>4, <2>5 DEF c
  <2> QED BY <1>1, <1>4, <2>6
<1>8. ASSUME NEW p \in Span(seg, s)
      PROVE  Cardinality(UpTo(H2, p)) = c - (x - s) + (p - s + 1) /\ p \in s .. end - 1
  <2>1. H2 \subseteq 0 .. end - 1 /\ s .. end - 1 \subseteq H2 /\ p \in s .. end - 1
    BY <1>1, <1>4
  <2>2. Cardinality(UpTo(H2, p)) = Cardinality(H2) - (end - 1 - p)
    <3>1. s \in Nat /\ end \in Nat
      BY <1>1, <1>4
    <3> QED BY <2>1, <3>1, RankFromTop
  <2> QED BY <1>1, <1>4, <1>7, <2>1, <2>2
<1>9. end = s + n
  BY DEF end
<1>10. ASSUME NEW p \in Span(seg, s), policy = "LAST_WINS" \/ x <= p
       PROVE  str[Cardinality(UpTo(H2, p))] = data[p - s + 1]
  <2>1. p - s + 1 \in 1 .. n
    BY <1>1, <1>8, <1>9
  <2>2. CASE policy = "LAST_WINS"
    BY <1>6, <1>8, <2>1, <2>2
  <2>3. CASE policy # "LAST_WINS"
    <3>1. x <= p /\ p \in Int
      BY <1>8, <1>10, <2>3
    <3>2. p - x + 1 \in 1 .. n - (x - s)
      BY <1>1, <1>8, <1>9, <3>1
    <3>3. str[c + (p - x + 1)] = data[x - s + (p - x + 1)]
      BY <1>6, <2>3, <3>2
    <3>4. /\ c + (p - x + 1) = c - (x - s) + (p - s + 1)
          /\ x - s + (p - x + 1) = p - s + 1
      BY <1>1, <3>1
    <3> QED BY <1>8, <3>3, <3>4
  <2> QED BY <2>2, <2>3
<1>11. ASSUME NEW p \in H, policy # "LAST_WINS" \/ p \notin Span(seg, s)
       PROVE  str[Cardinality(UpTo(H, p))] = old[Cardinality(UpTo(H, p))]
  <2>1. CASE policy # "LAST_WINS"
    <3>1. Cardinality(UpTo(H, p)) \in 1 .. c
      BY <1>1, RankInRange DEF c
    <3> QED BY <1>6, <2>1, <3>1
  <2>2. CASE policy = "LAST_WINS"
    <3>1. p < s
      BY <1>1, <1>4, <1>11, <2>2
    <3>2. Cardinality(UpTo(H, p)) \in 1 .. Cardinality(H) - (x - s)
      <4>1. s \in Nat /\ x \in Nat /\ s <= x /\ H \subseteq 0 .. x - 1 /\ s .. x - 1 \subseteq H
        BY <1>1
      <4> QED BY <3>1, <4>1, RankBelow
    <3> QED BY <1>6, <2>2, <3>2 DEF c
  <2> QED BY <2>1, <2>2
<1>12. Len(str) = Cardinality(H2)
  BY <1>1, <1>4, <1>5, <1>7, <1>9
<1> QED BY <1>5, <1>10, <1>11, <1>12, BytesAfter DEF H, H2, str, data

\* The segment ends within the stream.
Contained(seg, x, s, old) ==
  IF policy = "LAST_WINS" THEN Overwritten(old, Len(old) - (x - s), seg[s]) ELSE old

LEMMA BytesContained ==
  ASSUME NEW seg, NEW S, NEW x, NEW s, Arrives(seg, S, x, s),
         s < x, s + Len(seg[s]) <= x,
         NEW old, Bytes(seg, policy, S, old)
  PROVE  Bytes(seg, policy, S \cup {s}, Contained(seg, x, s, old))
<1> DEFINE H == Covered(seg, S)
           n == Len(seg[s])
           c == Cardinality(H)
           start == c - (x - s)
           data == seg[s]
           str == Contained(seg, x, s, old)
<1>1. /\ H \subseteq 0 .. x - 1 /\ c \in Nat
      /\ s \in Nat /\ n \in Nat \ {0} /\ data \in Seq(Byte) /\ IsFiniteSet(H)
      /\ x \in Nat /\ s .. x - 1 \subseteq H
  BY CoverFacts DEF Arrives
<1>2. old \in Seq(Byte) /\ Len(old) = c
  BY DEF Bytes
<1>3. start \in Nat
  BY <1>1, OverlapIsCovered
<1>4. Covered(seg, S \cup {s}) = H
  <2>1. Span(seg, s) \subseteq s .. x - 1
    BY <1>1 DEF Span
  <2>2. Covered(seg, S \cup {s}) = H \cup Span(seg, s)
    BY CoverFacts
  <2> HIDE DEF H
  <2> QED BY <1>1, <2>1, <2>2
<1>5. str \in Seq(Byte) /\ Len(str) = c
  <2>1. CASE policy = "LAST_WINS"
    <3> HIDE DEF H, c
    <3> QED BY <1>1, <1>2, <1>3, <2>1, OverwrittenFacts DEF Contained
  <2> QED BY <1>2, <2>1 DEF Contained
<1>6. policy # "LAST_WINS" => str = old
  BY DEF Contained
<1>7. policy = "LAST_WINS" => \A i \in 1 .. c :
        str[i] = IF i \in start + 1 .. start + n THEN data[i - start] ELSE old[i]
  <2>1. DOMAIN old = 1 .. c
    BY <1>2, LenProperties
  <2>2. policy = "LAST_WINS" => str = Overwritten(old, start, data)
    BY <1>2 DEF Contained
  <2> HIDE DEF H, c, start, str, data
  <2> QED BY <2>1, <2>2 DEF Overwritten, n, data
<1>8. n = Len(seg[s]) /\ start = c - (x - s)
  OBVIOUS
<1> HIDE DEF H, n, c, start, data, str
<1>9. ASSUME NEW p \in H, s <= p
      PROVE  Cardinality(UpTo(H, p)) = start + (p - s + 1) /\ p \in Int
  <2>1. p \in s .. x - 1
    BY <1>1, <1>9
  <2>2. Cardinality(UpTo(H, p)) = Cardinality(H) - (x - 1 - p)
    <3>1. s \in Nat /\ x \in Nat /\ H \subseteq 0 .. x - 1 /\ s .. x - 1 \subseteq H
      BY <1>1
    <3> QED BY <2>1, <3>1, RankFromTop
  <2> QED BY <1>1, <1>8, <2>1, <2>2 DEF c
<1>10. ASSUME NEW p \in Span(seg, s), policy = "LAST_WINS" \/ x <= p
       PROVE  str[Cardinality(UpTo(H, p))] = data[p - s + 1]
  <2>1. p \in s .. s + n - 1 /\ s + n <= x
    BY <1>8 DEF Span
  <2>2. p \in H /\ s <= p /\ policy = "LAST_WINS"
    BY <1>1, <1>10, <2>1
  <2>3. Cardinality(UpTo(H, p)) = start + (p - s + 1) /\ p \in Int
    BY <1>9, <2>2
  <2>4. Cardinality(UpTo(H, p)) \in 1 .. c
    BY <1>1, <2>2, RankInRange DEF c
  <2>5. start + (p - s + 1) \in start + 1 .. start + n
        /\ start + (p - s + 1) - start = p - s + 1
    BY <1>1, <1>3, <2>1
  <2>6. str[start + (p - s + 1)] = data[p - s + 1]
    <3> DEFINE k == start + (p - s + 1)
    <3>3. k = Cardinality(UpTo(H, p))
      BY <2>3
    <3>4. k \in start + 1 .. start + n /\ k - start = p - s + 1
      BY <1>1, <1>3, <2>1
    <3> HIDE DEF k
    <3>1. k \in 1 .. c /\ k \in start + 1 .. start + n /\ k - start = p - s + 1
      BY <2>4, <3>3, <3>4
    <3>2. str[k] = data[p - s + 1]
      BY <1>7, <2>2, <3>1
    <3> QED BY <3>2 DEF k
  <2> QED BY <2>3, <2>5, <2>6
<1>11. ASSUME NEW p \in H, policy # "LAST_WINS" \/ p \notin Span(seg, s)
       PROVE  str[Cardinality(UpTo(H, p))] = old[Cardinality(UpTo(H, p))]
  <2>1. CASE policy # "LAST_WINS"
    BY <1>6, <2>1
  <2>2. CASE policy = "LAST_WINS"
    <3>1. Cardinality(UpTo(H, p)) \in 1 .. c
      BY <1>1, RankInRange DEF c
    <3>2. p \in Int /\ p \notin s .. s + n - 1
      BY <1>1, <1>8, <1>11, <2>2 DEF Span
    <3>3. CASE p < s
      <4>1. s <= x
        BY <1>1
      <4>2. Cardinality(UpTo(H, p)) \in 1 .. c - (x - s)
        <5>1. s \in Nat /\ x \in Nat /\ H \subseteq 0 .. x - 1 /\ s .. x - 1 \subseteq H
          BY <1>1
        <5> QED BY <3>3, <4>1, <5>1, RankBelow DEF c
      <4>3. Cardinality(UpTo(H, p)) \notin start + 1 .. start + n
        <5> DEFINE k == Cardinality(UpTo(H, p))
        <5>1. k \in 1 .. start
          BY <1>8, <4>2
        <5> HIDE DEF k
        <5>2. k \notin start + 1 .. start + n
          BY <1>1, <1>3, <5>1
        <5> QED BY <5>2 DEF k
      <4> QED BY <1>7, <2>2, <3>1, <4>3
    <3>4. CASE s <= p
      <4>1. Cardinality(UpTo(H, p)) = start + (p - s + 1)
        BY <1>9, <3>4
      <4>2. Cardinality(UpTo(H, p)) \notin start + 1 .. start + n
        BY <1>1, <1>3, <3>2, <3>4, <4>1
      <4> QED BY <1>7, <2>2, <3>1, <4>2
    <3> QED BY <1>1, <3>2, <3>3, <3>4
  <2> QED BY <2>1, <2>2
<1>12. Len(str) = Cardinality(H)
  BY <1>5 DEF c
<1> QED BY <1>4, <1>5, <1>10, <1>11, <1>12, BytesAfter DEF H, str, data

\* A segment opens a hole exactly when it starts beyond the stream.
LEMMA HolesAfter ==
  ASSUME NEW seg, NEW S, NEW x, NEW s, Arrives(seg, S, x, s)
  PROVE  /\ s > x => Holes(seg, S \cup {s}) = Holes(seg, S) \cup {s}
         /\ s <= x => Holes(seg, S \cup {s}) = Holes(seg, S)
<1> DEFINE H == Covered(seg, S)
           H2 == Covered(seg, S \cup {s})
           n == Len(seg[s])
<1>1. /\ H \subseteq 0 .. x - 1 /\ H2 = H \cup Span(seg, s) /\ s .. x - 1 \subseteq H
      /\ s \in Nat /\ n \in Nat \ {0} /\ x \in Nat /\ Span(seg, s) = s .. s + n - 1
  BY CoverFacts DEF Arrives, Span
<1>2. S # {} => x - 1 \in H
  <2> SUFFICES ASSUME S # {} PROVE x - 1 \in H
    OBVIOUS
  <2>1. PICK t \in S : t + Len(seg[t]) = x
    BY DEF Arrives, Reaches
  <2>2. t \in Nat /\ Len(seg[t]) \in Nat \ {0}
    BY DEF Arrives, Segments
  <2>3. x - 1 \in Span(seg, t)
    BY <2>1, <2>2 DEF Span
  <2> QED BY <2>3 DEF Covered
<1>3. S = {} => H = {} /\ s = x
  BY DEF Covered, Arrives
<1>4. /\ \A p : p \in Holes(seg, S) <=> p \in H /\ p - 1 \notin H /\ \E q \in H : q < p
      /\ \A p : p \in Holes(seg, S \cup {s}) <=>
                  p \in H2 /\ p - 1 \notin H2 /\ \E q \in H2 : q < p
  BY DEF Holes
<1> HIDE DEF H, H2, n
<1>5. ASSUME NEW p \in Holes(seg, S)
      PROVE  p \in Holes(seg, S \cup {s})
  <2>1. p \in H /\ p - 1 \notin H /\ \E q \in H : q < p
    BY <1>4
  <2>2. p \in Int /\ p < x
    BY <1>1, <2>1
  <2>3. p - 1 \notin s .. s + n - 1
    BY <1>1, <2>1, <2>2
  <2> QED BY <1>1, <1>4, <2>1, <2>3
<1>6. ASSUME NEW p \in Holes(seg, S \cup {s}), p # s \/ s <= x
      PROVE  p \in Holes(seg, S)
  <2>1. p \in H2 /\ p - 1 \notin H2 /\ \E q \in H2 : q < p
    BY <1>4
  <2>2. p \in Int
    BY <1>1, <2>1
  <2>3. p \in H
    <3> SUFFICES ASSUME p \notin H PROVE FALSE
      OBVIOUS
    <3>1. p \in s .. s + n - 1 /\ p >= x
      BY <1>1, <2>1, <2>2
    <3>2. p - 1 \notin s .. s + n - 1
      BY <1>1, <2>1
    <3>3. p = s /\ s <= x
      BY <1>1, <1>6, <3>1, <3>2
    <3>4. p = x
      BY <1>1, <3>1, <3>3
    <3>5. S # {}
      <4> SUFFICES ASSUME S = {} PROVE FALSE
        OBVIOUS
      <4>1. PICK q \in s .. s + n - 1 : q < p
        BY <1>1, <1>3, <2>1
      <4> QED BY <1>1, <3>3, <4>1
    <3> QED BY <1>1, <1>2, <2>1, <3>4, <3>5
  <2>4. PICK q \in H2 : q < p
    BY <2>1
  <2>5. q \in H
    <3>1. p < x
      BY <1>1, <2>3
    <3> QED BY <1>1, <2>2, <2>4, <3>1
  <2> QED BY <1>1, <1>4, <2>1, <2>3, <2>4, <2>5
<1>7. ASSUME s > x PROVE s \in Holes(seg, S \cup {s})
  <2>1. x - 1 \in H /\ x - 1 < s
    BY <1>1, <1>2, <1>3, <1>7
  <2>2. s - 1 \notin H /\ s - 1 \notin s .. s + n - 1 /\ s \in s .. s + n - 1
    BY <1>1, <1>7
  <2> QED BY <1>1, <1>4, <2>1, <2>2
<1> QED BY <1>5, <1>6, <1>7

\* Where the last segment ends after one more.
LEMMA ReachesAfter ==
  ASSUME NEW seg, NEW S, NEW x, NEW s, Arrives(seg, S, x, s)
  PROVE  /\ s + Len(seg[s]) > x => Reaches(seg, S \cup {s}, s + Len(seg[s]))
         /\ s + Len(seg[s]) <= x => Reaches(seg, S \cup {s}, x)
<1>1. s \in Nat /\ Len(seg[s]) \in Nat \ {0} /\ x \in Nat
  BY DEF Arrives, Segments
<1>2. \A t \in S : t \in Nat /\ Len(seg[t]) \in Nat /\ t + Len(seg[t]) <= x
  BY DEF Arrives, Segments, Reaches
<1>3. ASSUME s + Len(seg[s]) <= x PROVE \E t \in S : t + Len(seg[t]) = x
  BY <1>1, <1>3 DEF Arrives, Reaches
<1> QED BY <1>1, <1>2, <1>3 DEF Reaches

-----------------------------------------------------------------------------
(* The steps of the loop.                                                  *)

LEMMA LoopArrives ==
  ASSUME PromiseInv, NEW s \in todo, At(s)
  PROVE  /\ Arrives(segments, Passed, expected, s)
         /\ Bytes(segments, policy, Passed, stream)
         /\ GapEnds = Holes(segments, Passed)
         /\ phase = "merge" /\ phase' = "merge"
         /\ UNCHANGED <<policy, packets, segments>>
         /\ todo' = todo \ {s}
         /\ Passed' = Passed \cup {s}
<1>1. /\ phase = "merge" /\ phase' = "merge" /\ todo' = todo \ {s} /\ IsLowest(s, todo)
      /\ UNCHANGED <<policy, packets, segments>>
  BY DEF At, input
<1>2. /\ \A t \in Passed, u \in todo : t < u
      /\ Passed = {} /\ todo # {} => IsLowest(expected, todo)
      /\ Reaches(segments, Passed, expected)
      /\ Bytes(segments, policy, Passed, stream)
      /\ GapEnds = Holes(segments, Passed)
  BY <1>1 DEF PromiseInv, MergesInOrder
<1>3. TypeOK
  BY DEF PromiseInv, BufferInv
<1>4. Segments(segments)
  BY <1>3, SegmentFacts DEF Segments
<1>5. todo \subseteq DOMAIN segments /\ expected \in Nat
  BY <1>3 DEF TypeOK
<1>6. Passed = {} => s = expected
  <2>1. s \in Nat
    BY <1>4, <1>5 DEF Segments
  <2> QED BY <1>1, <1>2, <1>5, <2>1 DEF IsLowest
<1>7. Arrives(segments, Passed, expected, s)
  BY <1>2, <1>4, <1>5, <1>6 DEF Arrives, Passed
<1>8. Passed' = Passed \cup {s}
  BY <1>1, <1>5 DEF Passed
<1> QED BY <1>1, <1>2, <1>7, <1>8

\* What the loop merges stays in order.
LEMMA LoopStep ==
  ASSUME PromiseInv, NEW s \in todo, At(s),
         Bytes(segments, policy, Passed \cup {s}, stream'),
         Reaches(segments, Passed \cup {s}, expected'),
         GapEnds' = Holes(segments, Passed \cup {s})
  PROVE  MergesInOrder'
<1>1. /\ phase' = "merge" /\ phase = "merge" /\ todo' = todo \ {s}
      /\ policy' = policy /\ segments' = segments
      /\ Passed' = Passed \cup {s}
  BY LoopArrives
<1>2. Bytes(segments', policy', Passed', stream')
  BY <1>1
<1>3. Reaches(segments', Passed', expected')
  BY <1>1
<1>4. GapEnds' = Holes(segments', Passed')
  BY <1>1
<1>5. \A t \in Passed', u \in todo' : t < u
  <2>1. \A u \in todo : s <= u /\ u \in Nat
    <3>1. IsLowest(s, todo)
      BY DEF At
    <3>2. todo \subseteq Nat
      BY BufferAssumption DEF PromiseInv, BufferInv, TypeOK
    <3> QED BY <3>1, <3>2 DEF IsLowest
  <2>2. \A t \in Passed, u \in todo : t < u
    BY <1>1 DEF PromiseInv, MergesInOrder
  <2>3. \A u \in todo' : s < u
    BY <1>1, <2>1
  <2> QED BY <1>1, <2>2, <2>3
<1>6. Passed' # {}
  BY <1>1
<1>7. DOMAIN segments' # {} => \E t \in DOMAIN segments' : IsLowest(t, DOMAIN segments')
  BY <1>1 DEF PromiseInv, MergesInOrder, IsLowest
<1>8. (IsLowest(expected, todo))' \/ Passed' # {}
  BY <1>6
<1> QED BY <1>2, <1>3, <1>4, <1>5, <1>6, <1>7 DEF MergesInOrder

LEMMA MergeKeepsOrder ==
  ASSUME PromiseInv, NEW s \in todo,
         MergeAligned(s) \/ MergeAfterGap(s) \/ MergePartial(s) \/ MergeContained(s)
  PROVE  MergesInOrder'
<1>1. At(s)
  BY DEF MergeAligned, MergeAfterGap, MergePartial, MergeContained
<1>2. /\ Arrives(segments, Passed, expected, s)
      /\ Bytes(segments, policy, Passed, stream)
      /\ GapEnds = Holes(segments, Passed)
  BY <1>1, LoopArrives
<1>3. s \in Nat /\ Len(segments[s]) \in Nat \ {0} /\ expected \in Nat
  BY <1>2 DEF Arrives, Segments
<1>4. CASE MergeAligned(s)
  <2>1. /\ s = expected /\ stream' = stream \o segments[s] /\ gaps' = gaps
        /\ expected' = s + Len(segments[s])
    BY <1>4 DEF MergeAligned, EndOf
  <2>2. Bytes(segments, policy, Passed \cup {s}, stream')
    <3>1. s >= expected
      BY <1>3, <2>1
    <3>2. Bytes(segments, policy, Passed \cup {s}, stream \o segments[s])
      BY <1>2, <3>1, BytesAppended
    <3> QED BY <2>1, <3>2
  <2>3. Reaches(segments, Passed \cup {s}, expected')
    <3>1. s + Len(segments[s]) > expected
      BY <1>3, <2>1
    <3>2. Reaches(segments, Passed \cup {s}, s + Len(segments[s]))
      BY <1>2, <3>1, ReachesAfter
    <3> QED BY <2>1, <3>2
  <2>4. GapEnds' = Holes(segments, Passed \cup {s})
    BY <1>2, <1>3, <2>1, HolesAfter DEF GapEnds
  <2> QED BY <1>1, <2>2, <2>3, <2>4, LoopStep
<1>5. CASE MergeAfterGap(s)
  <2> DEFINE g == [start_seq |-> expected, end_seq |-> s, length |-> s - expected]
  <2>1. /\ s > expected /\ stream' = stream \o segments[s]
        /\ gaps' = Append(gaps, g)
        /\ expected' = s + Len(segments[s])
    BY <1>5 DEF MergeAfterGap, EndOf, GapLength
  <2>2. Bytes(segments, policy, Passed \cup {s}, stream')
    <3>1. s >= expected
      BY <1>3, <2>1
    <3>2. Bytes(segments, policy, Passed \cup {s}, stream \o segments[s])
      BY <1>2, <3>1, BytesAppended
    <3> QED BY <2>1, <3>2
  <2>3. Reaches(segments, Passed \cup {s}, expected')
    <3>1. s + Len(segments[s]) > expected
      BY <1>3, <2>1
    <3>2. Reaches(segments, Passed \cup {s}, s + Len(segments[s]))
      BY <1>2, <3>1, ReachesAfter
    <3> QED BY <2>1, <3>2
  <2>4. GapEnds' = GapEnds \cup {s}
    <3>1. gaps \in Seq(GapRecord) /\ g \in GapRecord
      BY <1>3, <2>1 DEF PromiseInv, BufferInv, TypeOK, GapRecord
    <3>2. g.end_seq = s
      OBVIOUS
    <3> HIDE DEF g
    <3>3. /\ DOMAIN gaps = 1 .. Len(gaps) /\ Len(gaps) \in Nat
          /\ DOMAIN gaps' = 1 .. Len(gaps) + 1
          /\ \A i \in 1 .. Len(gaps) : gaps'[i] = gaps[i]
          /\ gaps'[Len(gaps) + 1] = g
      BY <2>1, <3>1, AppendProperties, LenProperties
    <3> QED BY <3>2, <3>3 DEF GapEnds
  <2>5. GapEnds' = Holes(segments, Passed \cup {s})
    BY <1>2, <2>1, <2>4, HolesAfter
  <2> QED BY <1>1, <2>2, <2>3, <2>5, LoopStep
<1>6. CASE MergePartial(s)
  <2>1. /\ s < expected /\ s + Len(segments[s]) > expected /\ gaps' = gaps
        /\ stream' = Spliced(stream, expected - s, segments[s])
        /\ expected' = s + Len(segments[s])
    BY <1>6 DEF MergePartial, EndOf
  <2>2. Bytes(segments, policy, Passed \cup {s}, stream')
    BY <1>2, <1>3, <2>1, BytesSpliced
  <2>3. Reaches(segments, Passed \cup {s}, expected')
    BY <1>2, <1>3, <2>1, ReachesAfter
  <2>4. GapEnds' = Holes(segments, Passed \cup {s})
    BY <1>2, <1>3, <2>1, HolesAfter DEF GapEnds
  <2> QED BY <1>1, <2>2, <2>3, <2>4, LoopStep
<1>7. CASE MergeContained(s)
  <2>1. /\ s < expected /\ s + Len(segments[s]) <= expected /\ gaps' = gaps
        /\ stream' = Contained(segments, expected, s, stream)
        /\ expected' = expected
    BY <1>7 DEF MergeContained, EndOf, Contained
  <2>2. Bytes(segments, policy, Passed \cup {s}, stream')
    BY <1>2, <1>3, <2>1, BytesContained
  <2>3. Reaches(segments, Passed \cup {s}, expected')
    BY <1>2, <1>3, <2>1, ReachesAfter
  <2>4. GapEnds' = Holes(segments, Passed \cup {s})
    BY <1>2, <1>3, <2>1, HolesAfter DEF GapEnds
  <2> QED BY <1>1, <2>2, <2>3, <2>4, LoopStep
<1> QED BY <1>4, <1>5, <1>6, <1>7

-----------------------------------------------------------------------------
(* The invariant behind the promise.                                       *)

\* Of the packets with one start, which one counts after another packet.
LEMMA CountsAfter ==
  ASSUME TypeOK, NEW s \in SeqNo, NEW d \in Payload,
         packets' = Append(packets, [seq |-> s, data |-> d])
  PROVE  /\ {packets'[k].seq : k \in DOMAIN packets'}
              = {packets[k].seq : k \in DOMAIN packets} \cup {s}
         /\ packets'[Len(packets) + 1].data = d
         /\ \A k \in DOMAIN packets : packets'[k] = packets[k]
         /\ \A t, k : Counts(policy, packets, t, k) /\ (t # s \/ policy # "LAST_WINS")
              => Counts(policy, packets', t, k)
         /\ policy = "LAST_WINS" \/ s \notin {packets[k].seq : k \in DOMAIN packets}
              => Counts(policy, packets', s, Len(packets) + 1)
<1> DEFINE new == [seq |-> s, data |-> d]
           n == Len(packets)
<1>1. new \in Packet /\ new.seq = s /\ new.data = d /\ packets \in Seq(Packet)
  BY DEF Packet, TypeOK
<1> HIDE DEF new
<1>2. /\ n \in Nat /\ DOMAIN packets = 1 .. n /\ DOMAIN packets' = 1 .. n + 1
      /\ \A k \in 1 .. n : packets'[k] = packets[k]
      /\ packets'[n + 1] = new
  <2>1. packets' = Append(packets, new)
    BY DEF new
  <2> QED BY <1>1, <2>1, AppendProperties, LenProperties
<1> HIDE DEF n
<1>3. {packets'[k].seq : k \in DOMAIN packets'}
        = {packets[k].seq : k \in DOMAIN packets} \cup {s}
  BY <1>1, <1>2
<1>4. ASSUME NEW t, NEW k, Counts(policy, packets, t, k), t # s \/ policy # "LAST_WINS"
      PROVE  Counts(policy, packets', t, k)
  <2>1. /\ k \in 1 .. n /\ packets[k].seq = t
        /\ \A j \in 1 .. n : packets[j].seq = t => Prefers(policy, k, j)
    BY <1>2, <1>4 DEF Counts
  <2>2. ASSUME NEW j \in 1 .. n + 1, packets'[j].seq = t
        PROVE  Prefers(policy, k, j)
    <3>1. CASE j \in 1 .. n
      BY <1>2, <2>1, <2>2, <3>1
    <3>2. CASE j = n + 1
      BY <1>1, <1>2, <1>4, <2>1, <2>2, <3>2 DEF Prefers
    <3> QED BY <1>2, <3>1, <3>2
  <2> QED BY <1>2, <2>1, <2>2 DEF Counts
<1>5. ASSUME policy = "LAST_WINS" \/ s \notin {packets[k].seq : k \in DOMAIN packets}
      PROVE  Counts(policy, packets', s, n + 1)
  <2>1. ASSUME NEW j \in 1 .. n + 1, packets'[j].seq = s
        PROVE  Prefers(policy, n + 1, j)
    <3>1. j = n + 1 \/ j \in 1 .. n
      BY <1>2
    <3>2. j \in 1 .. n => policy = "LAST_WINS"
      BY <1>2, <1>5, <2>1
    <3> QED BY <1>2, <3>1, <3>2 DEF Prefers
  <2> QED BY <1>1, <1>2, <2>1 DEF Counts
<1> QED BY <1>1, <1>2, <1>3, <1>4, <1>5 DEF n

\* Each of the ways to add a packet leaves the one that counts in the buffer.
LEMMA FeedKeepsOne ==
  ASSUME TypeOK, KeepsOne, NEW s \in SeqNo, NEW d \in Payload,
         AddRetransmission(s, d) \/ AddSameStart(s, d) \/ AddNew(s, d)
  PROVE  KeepsOne'
<1>1. packets' = Append(packets, [seq |-> s, data |-> d]) /\ policy' = policy
  BY DEF AddRetransmission, AddSameStart, AddNew, Feed
<1> DEFINE n == Len(packets)
<1>2. /\ {packets'[k].seq : k \in DOMAIN packets'}
           = {packets[k].seq : k \in DOMAIN packets} \cup {s}
      /\ packets'[n + 1].data = d
      /\ \A k \in DOMAIN packets : packets'[k] = packets[k]
      /\ \A t, k : Counts(policy, packets, t, k) /\ (t # s \/ policy # "LAST_WINS")
           => Counts(policy, packets', t, k)
      /\ policy = "LAST_WINS" \/ s \notin {packets[k].seq : k \in DOMAIN packets}
           => Counts(policy, packets', s, n + 1)
  BY <1>1, CountsAfter
<1> HIDE DEF n
<1>3. DOMAIN segments' = DOMAIN segments \cup {s}
  BY DEF AddRetransmission, AddSameStart, AddNew
<1>4. \A t \in DOMAIN segments : t # s => segments'[t] = segments[t]
  BY DEF AddRetransmission, AddSameStart, AddNew
<1>5. ASSUME NEW t \in DOMAIN segments, t # s \/ (policy # "LAST_WINS" /\ segments' = segments)
      PROVE  \E k \in DOMAIN packets' :
               Counts(policy, packets', t, k) /\ segments'[t] = packets'[k].data
  <2>1. PICK k \in DOMAIN packets : Counts(policy, packets, t, k)
                                    /\ segments[t] = packets[k].data
    BY DEF KeepsOne
  <2>2. Counts(policy, packets', t, k)
    BY <1>2, <1>5, <2>1
  <2>3. segments'[t] = segments[t]
    BY <1>4, <1>5
  <2> QED BY <1>2, <2>1, <2>2, <2>3 DEF Counts
<1>6. \E k \in DOMAIN packets' :
        Counts(policy, packets', s, k) /\ segments'[s] = packets'[k].data
  <2>1. CASE policy = "LAST_WINS" \/ s \notin DOMAIN segments
    <3>1. Counts(policy, packets', s, n + 1)
      BY <1>2, <2>1 DEF KeepsOne
    <3>2. segments'[s] = d
      BY <2>1 DEF AddRetransmission, AddSameStart, AddNew, ResolveOverlap
    <3> QED BY <1>2, <3>1, <3>2 DEF Counts
  <2>2. CASE policy # "LAST_WINS" /\ s \in DOMAIN segments
    <3>1. segments' = segments
      <4>1. CASE AddRetransmission(s, d)
        BY <4>1 DEF AddRetransmission
      <4>2. CASE AddSameStart(s, d)
        <5>1. segments' = [segments EXCEPT ![s] = segments[s]]
          BY <2>2, <4>2 DEF AddSameStart, ResolveOverlap
        <5>2. segments \in [DOMAIN segments -> Payload]
          BY DEF TypeOK
        <5> QED BY <5>1, <5>2
      <4>3. CASE AddNew(s, d)
        BY <2>2, <4>3 DEF AddNew
      <4> QED BY <4>1, <4>2, <4>3
    <3> QED BY <1>5, <2>2, <3>1
  <2> QED BY <2>1, <2>2
<1>7. \A t \in DOMAIN segments' : \E k \in DOMAIN packets' :
        Counts(policy', packets', t, k) /\ segments'[t] = packets'[k].data
  BY <1>1, <1>3, <1>5, <1>6
<1>8. DOMAIN segments' = {packets'[k].seq : k \in DOMAIN packets'}
  BY <1>2, <1>3 DEF KeepsOne
<1> QED BY <1>7, <1>8 DEF KeepsOne

LEMMA PromiseInitial == Init => PromiseInv
<1> SUFFICES ASSUME Init PROVE PromiseInv
  OBVIOUS
<1>1. DOMAIN segments = {} /\ packets = <<>> /\ phase = "feed"
  BY DEF Init
<1>2. KeepsOne
  BY <1>1 DEF KeepsOne
<1> QED BY <1>1, <1>2, BufferInitial DEF PromiseInv, MergesInOrder

LEMMA BeginKeepsOrder == ASSUME BufferInv, BeginMerge PROVE MergesInOrder'
<1>1. /\ todo' = DOMAIN segments /\ segments' = segments
      /\ stream' = <<>> /\ gaps' = <<>>
  BY DEF BeginMerge, input
<1>2. Passed' = {}
  BY <1>1 DEF Passed
<1>3. Covered(segments', {}) = {}
  BY DEF Covered
<1>4. Bytes(segments', policy', Passed', stream')
  <2>1. stream' \in Seq(Byte) /\ Len(stream') = 0
    BY <1>1, EmptySeq
  <2>2. Cardinality({}) = 0
    BY FS_EmptySet
  <2> QED BY <1>2, <1>3, <2>1, <2>2 DEF Bytes
<1>5. Reaches(segments', Passed', expected')
  BY <1>2 DEF Reaches
<1>6. GapEnds' = Holes(segments', Passed')
  <2>1. GapEnds' = {}
    BY <1>1 DEF GapEnds
  <2> QED BY <1>2, <1>3, <2>1 DEF Holes
<1>7. DOMAIN segments # {} => IsLowest(expected', DOMAIN segments)
  BY DEF BeginMerge
<1> QED BY <1>1, <1>2, <1>4, <1>5, <1>6, <1>7 DEF MergesInOrder, IsLowest

LEMMA PromiseStep == PromiseInv /\ [Next]_vars => PromiseInv'
<1> SUFFICES ASSUME PromiseInv, [Next]_vars PROVE PromiseInv'
  OBVIOUS
<1>1. BufferInv'
  BY BufferStep DEF PromiseInv
<1>2. TypeOK
  BY DEF PromiseInv, BufferInv
<1>3. ASSUME NEW s \in SeqNo, NEW d \in Payload,
             AddRetransmission(s, d) \/ AddSameStart(s, d) \/ AddNew(s, d)
      PROVE  PromiseInv'
  <2>1. phase' = "feed"
    BY <1>3 DEF AddRetransmission, AddSameStart, AddNew, Feed
  <2>2. KeepsOne'
    BY <1>2, <1>3, FeedKeepsOne DEF PromiseInv
  <2> QED BY <1>1, <2>1, <2>2 DEF PromiseInv, MergesInOrder
<1>4. ASSUME UNCHANGED <<policy, packets, segments>> PROVE KeepsOne'
  BY <1>4 DEF KeepsOne, PromiseInv
<1>5. CASE BeginMerge
  <2>1. UNCHANGED <<policy, packets, segments>> /\ phase' = "merge"
    BY <1>5 DEF BeginMerge, input
  <2> QED BY <1>1, <1>4, <1>5, <2>1, BeginKeepsOrder DEF PromiseInv
<1>6. ASSUME NEW s \in todo,
             MergeAligned(s) \/ MergeAfterGap(s) \/ MergePartial(s) \/ MergeContained(s)
      PROVE  PromiseInv'
  <2>1. UNCHANGED <<policy, packets, segments>> /\ phase' = "merge"
    BY <1>6, LoopArrives DEF MergeAligned, MergeAfterGap, MergePartial, MergeContained
  <2> QED BY <1>1, <1>4, <1>6, <2>1, MergeKeepsOrder DEF PromiseInv
<1>7. CASE EndMerge \/ UNCHANGED vars
  <2>1. /\ UNCHANGED <<policy, packets, segments, todo, stream, expected, gaps>>
        /\ phase' = "feed" => phase = "feed"
        /\ phase = "feed" => phase' = "feed"
        /\ phase' = "done" => todo = {}
    BY <1>7 DEF EndMerge, vars, input, merge, PromiseInv
  <2>2. MergesInOrder'
    <3>1. Passed' = Passed /\ GapEnds' = GapEnds
      BY <2>1 DEF Passed, GapEnds
    <3> QED BY <2>1, <3>1 DEF PromiseInv, MergesInOrder, IsLowest
  <2> QED BY <1>1, <1>4, <2>1, <2>2 DEF PromiseInv
<1> QED BY <1>3, <1>5, <1>6, <1>7 DEF Next

-----------------------------------------------------------------------------
(* The refinement.                                                         *)

\* The operators that StreamReassembly takes from the libraries.
LEMMA SameCardinality ==
  ASSUME NEW S
  PROVE  Abstract!Cardinality(S) = Cardinality(S)
BY DEF Abstract!Cardinality, Cardinality

LEMMA MaxIs ==
  ASSUME NEW S, NEW k \in S, \A j \in S : j \in Int, \A j \in S : j <= k
  PROVE  Abstract!Max(S) = k
BY DEF Abstract!Max

LEMMA MinIs ==
  ASSUME NEW S, NEW k \in S, \A j \in S : j \in Int, \A j \in S : k <= j
  PROVE  Abstract!Min(S) = k
BY DEF Abstract!Min

\* The buffer holds what counts for each start.
LEMMA DataIsKept ==
  ASSUME PromiseInv
  PROVE  /\ Abstract!Starts = DOMAIN segments
         /\ \A s \in DOMAIN segments : Abstract!DataAt(s) = segments[s]
         /\ Abstract!Held = Covered(segments, DOMAIN segments)
<1>1. Abstract!Starts = DOMAIN segments
  BY DEF PromiseInv, KeepsOne, Abstract!Starts
<1>2. ASSUME NEW s \in DOMAIN segments PROVE Abstract!DataAt(s) = segments[s]
  <2> DEFINE at == {k \in DOMAIN packets : packets[k].seq = s}
  <2>1. PICK k \in DOMAIN packets : Counts(policy, packets, s, k)
                                    /\ segments[s] = packets[k].data
    BY DEF PromiseInv, KeepsOne
  <2>2. \A j \in at : j \in Int
    BY LenProperties DEF PromiseInv, BufferInv, TypeOK
  <2>3. k \in at /\ \A j \in at : Prefers(policy, k, j)
    BY <2>1 DEF Counts
  <2>4. Abstract!Kept(s) = IF policy = "LAST_WINS" THEN Abstract!Max(at) ELSE Abstract!Min(at)
    BY DEF Abstract!Kept
  <2> HIDE DEF at
  <2>5. Abstract!Kept(s) = k
    BY <2>2, <2>3, <2>4, MaxIs, MinIs DEF Prefers
  <2> QED BY <2>1, <2>5 DEF Abstract!DataAt
<1>3. Abstract!Held = UNION {s .. s + Len(Abstract!DataAt(s)) - 1 : s \in DOMAIN segments}
  BY <1>1 DEF Abstract!Held
<1>4. Abstract!Held = Covered(segments, DOMAIN segments)
  BY <1>2, <1>3 DEF Covered, Span
<1> QED BY <1>1, <1>2, <1>4

\* When the loop has passed every start, the stream and the gaps are those
\* that were promised.
LEMMA PromiseMet ==
  ASSUME PromiseInv, phase = "merge", todo = {}
  PROVE  Abstract!IsStream(stream) /\ GapEnds = Abstract!AfterHole
<1> DEFINE D == DOMAIN segments
           H == Covered(segments, D)
<1>1. /\ Passed = D
      /\ Bytes(segments, policy, D, stream) /\ GapEnds = Holes(segments, D)
      /\ D # {} => \E s \in D : IsLowest(s, D)
  BY DEF Passed, PromiseInv, MergesInOrder
<1>2. /\ Abstract!Starts = D /\ Abstract!Held = H
      /\ \A s \in D : Abstract!DataAt(s) = segments[s]
  BY DataIsKept
<1>3. \A s \in D : s \in Nat /\ Len(segments[s]) \in Nat \ {0}
  BY SegmentFacts DEF PromiseInv, BufferInv
<1>4. \A p \in H : p \in Int
  BY <1>3 DEF Covered, Span
<1>5. \A p : Abstract!Rank(p) = Cardinality(UpTo(H, p))
  <2> SUFFICES ASSUME NEW p PROVE Abstract!Rank(p) = Cardinality(UpTo(H, p))
    OBVIOUS
  <2>1. Abstract!Rank(p) = Abstract!Cardinality(UpTo(H, p))
    BY <1>2 DEF Abstract!Rank, UpTo
  <2> QED BY <2>1, SameCardinality
<1>6. ASSUME NEW p \in H PROVE stream[Abstract!Rank(p)] = Abstract!ByteAt(p)
  <2> DEFINE at == Abstract!Holding(p)
  <2>1. PICK s \in D : /\ Wins(segments, policy, D, s, p)
                       /\ stream[Cardinality(UpTo(H, p))] = segments[s][p - s + 1]
    BY <1>1 DEF Bytes
  <2>2. at = {t \in D : p \in Span(segments, t)}
    <3>1. at = {t \in D : t <= p /\ p < t + Len(segments[t])}
      BY <1>2 DEF Abstract!Holding
    <3>2. \A t \in D : p \in Span(segments, t) <=> t <= p /\ p < t + Len(segments[t])
      BY <1>3, <1>4 DEF Span
    <3> QED BY <3>1, <3>2
  <2>3. s \in at /\ (\A t \in at : t \in Int) /\ \A t \in at : Prefers(policy, s, t)
    BY <1>3, <2>1, <2>2 DEF Wins
  <2>4. Abstract!ByteAt(p)
          = LET t == IF policy = "LAST_WINS" THEN Abstract!Max(at) ELSE Abstract!Min(at)
            IN  Abstract!DataAt(t)[p - t + 1]
    BY DEF Abstract!ByteAt
  <2> HIDE DEF at
  <2>5. (IF policy = "LAST_WINS" THEN Abstract!Max(at) ELSE Abstract!Min(at)) = s
    BY <2>3, MaxIs, MinIs DEF Prefers
  <2>6. Abstract!ByteAt(p) = segments[s][p - s + 1]
    BY <1>2, <2>4, <2>5
  <2> QED BY <1>5, <2>1, <2>6
<1>7. DOMAIN stream = 1 .. Cardinality(H)
  BY <1>1, LenProperties DEF Bytes
<1>8. Abstract!IsStream(stream)
  <2> HIDE DEF H
  <2>1. Abstract!Cardinality(H) = Cardinality(H)
    BY SameCardinality
  <2> QED BY <1>2, <1>6, <1>7, <2>1 DEF Abstract!IsStream
<1>9. Holes(segments, D) = Abstract!AfterHole
  <2>1. CASE D = {}
    <3>1. H = {}
      BY <2>1 DEF Covered
    <3> QED BY <1>2, <3>1 DEF Holes, Abstract!AfterHole
  <2>2. CASE D # {}
    <3>1. PICK m \in D : IsLowest(m, D)
      BY <1>1, <2>2
    <3>2. m \in H
      <4>1. m \in Span(segments, m)
        BY <1>3 DEF Span
      <4> QED BY <4>1 DEF Covered
    <3>3. \A p \in H : m <= p
      BY <1>3, <3>1 DEF Covered, Span, IsLowest
    <3>4. Abstract!Min(H) = m
      <4> HIDE DEF H
      <4> QED BY <1>4, <3>2, <3>3, MinIs
    <3>5. Abstract!AfterHole = {p \in H : p - 1 \notin H /\ p # m}
      BY <1>2, <3>4 DEF Abstract!AfterHole
    <3>6. Holes(segments, D) = {p \in H : p - 1 \notin H /\ \E q \in H : q < p}
      BY DEF Holes
    <3> HIDE DEF H
    <3>7. \A p \in H : p # m <=> \E q \in H : q < p
      BY <1>4, <3>2, <3>3
    <3> QED BY <3>5, <3>6, <3>7
  <2> QED BY <2>1, <2>2
<1> QED BY <1>1, <1>8, <1>9

\* Every step of the buffer is a step of what it promises, or none.
LEMMA PromiseKept ==
  ASSUME PromiseInv, [Next]_vars
  PROVE  [Abstract!Next]_<<policy, packets, Returned>>
<1>1. ASSUME NEW s \in SeqNo, NEW d \in Payload,
             AddRetransmission(s, d) \/ AddSameStart(s, d) \/ AddNew(s, d)
      PROVE  Abstract!Capture
  <2>1. /\ phase = "feed" /\ phase' = "feed" /\ policy' = policy
        /\ packets' = Append(packets, [seq |-> s, data |-> d])
    BY <1>1 DEF AddRetransmission, AddSameStart, AddNew, Feed
  <2> QED BY <2>1 DEF Abstract!Capture, Abstract!None, Returned
<1>2. CASE EndMerge
  <2>1. /\ phase = "merge" /\ todo = {} /\ phase' = "done"
        /\ UNCHANGED <<policy, packets, stream, gaps>>
    BY <1>2 DEF EndMerge, input, merge
  <2>2. Abstract!IsStream(stream) /\ GapEnds = Abstract!AfterHole
    BY <2>1, PromiseMet
  <2>3. Abstract!Deliver
    BY <2>1, <2>2 DEF Abstract!Deliver, Abstract!None, GapEnds, Returned
  <2> QED BY <2>3 DEF Abstract!Next
<1>3. CASE BeginMerge \/ \E s \in todo :
             MergeAligned(s) \/ MergeAfterGap(s) \/ MergePartial(s) \/ MergeContained(s)
  <2>1. phase # "done" /\ phase' # "done" /\ UNCHANGED <<policy, packets>>
    BY <1>3, LoopArrives
       DEF BeginMerge, input, MergeAligned, MergeAfterGap, MergePartial, MergeContained
  <2> QED BY <2>1 DEF Returned
<1>4. CASE UNCHANGED vars
  BY <1>4 DEF vars, input, merge, Returned
<1> QED BY <1>1, <1>2, <1>3, <1>4 DEF Next, Abstract!Next

\* reassemble() delivers the bytes and the gaps that the policy defines
\* position by position, for any packets in any order of arrival.
THEOREM ReassemblyKept == Spec => ImplementsReassembly
<1>1. Init => Abstract!Init
  BY DEF Init, Abstract!Init, Abstract!None, Returned
<1> QED BY PromiseInitial, PromiseStep, PromiseKept, <1>1, PTL
        DEF Spec, ImplementsReassembly, Abstract!Spec

=============================================================================
