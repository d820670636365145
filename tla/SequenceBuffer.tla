--------------------------- MODULE SequenceBuffer ---------------------------
(***************************************************************************)
(* Reassembly of one direction of a TCP flow (app/reassembly): the loop of *)
(* TCPReassembler.finalize that feeds the buffer, then reassemble() with   *)
(* one action per kind of segment its loop meets.                          *)
(*                                                                         *)
(* The two directions of a flow have buffers of their own and do not       *)
(* interact.  Sequence numbers are plain integers, as in the code.         *)
(*                                                                         *)
(* Bound: MaxPackets packets with a payload.                               *)
(***************************************************************************)
EXTENDS Integers, Sequences, FiniteSets

CONSTANTS
  Byte,
  SeqNo,        \* sequence numbers that packets start at
  Payload,      \* payloads of packets; those of length 0 are skipped
  MaxPackets

ASSUME BufferAssumption ==
  /\ SeqNo \subseteq Nat
  /\ Payload \subseteq Seq(Byte) \ {<<>>}
  /\ MaxPackets \in Nat

VARIABLES
  policy,           \* config.OVERLAP_POLICY
  packets,          \* packets of the direction that were fed to the buffer
  segments,         \* SequenceBuffer.segments
  retransmissions,
  overlaps,
  phase,            \* "feed", "merge" or "done"
  todo,             \* starts that the loop of reassemble has not reached
  stream,           \* merged_stream
  expected,         \* expected_seq
  gaps

input == <<packets, segments, retransmissions>>
merge == <<todo, stream, expected, gaps>>
vars == <<policy, input, overlaps, phase, merge>>

OverlapPolicy == {"FIRST_WINS", "LAST_WINS"}

Packet == [seq : SeqNo, data : Payload]

GapRecord == [start_seq : Nat, end_seq : Nat, length : Nat \ {0}]

TypeOK ==
  /\ policy \in OverlapPolicy
  /\ packets \in Seq(Packet)
  /\ DOMAIN segments \subseteq SeqNo
  /\ segments \in [DOMAIN segments -> Payload]
  /\ retransmissions \in Nat
  /\ overlaps \in Nat
  /\ phase \in {"feed", "merge", "done"}
  /\ todo \subseteq DOMAIN segments
  /\ stream \in Seq(Byte)
  /\ expected \in Nat
  /\ gaps \in Seq(GapRecord)

Init ==
  /\ policy \in OverlapPolicy
  /\ packets = <<>>
  /\ segments = [s \in {} |-> <<>>]
  /\ retransmissions = 0
  /\ overlaps = 0
  /\ phase = "feed"
  /\ todo = {}
  /\ stream = <<>>
  /\ expected = 0
  /\ gaps = <<>>

-----------------------------------------------------------------------------
(* add_segment                                                             *)

Feed(seq, data) ==
  /\ phase = "feed"
  /\ Len(packets) < MaxPackets
  /\ packets' = Append(packets, [seq |-> seq, data |-> data])
  /\ UNCHANGED <<policy, phase, merge>>

AddRetransmission(seq, data) ==
  /\ Feed(seq, data)
  /\ seq \in DOMAIN segments
  /\ segments[seq] = data
  /\ retransmissions' = retransmissions + 1
  /\ UNCHANGED <<segments, overlaps>>

ResolveNewest(existing, new) == new
ResolveOverlap(existing, new) ==
  IF policy = "LAST_WINS" THEN new ELSE existing

AddSameStart(seq, data) ==
  /\ Feed(seq, data)
  /\ seq \in DOMAIN segments
  /\ segments[seq] # data
  /\ overlaps' = overlaps + 1
  /\ segments' = [segments EXCEPT ![seq] = ResolveOverlap(@, data)]
  /\ UNCHANGED retransmissions

AddNew(seq, data) ==
  /\ Feed(seq, data)
  /\ seq \notin DOMAIN segments
  /\ segments' = [s \in DOMAIN segments \cup {seq} |->
                    IF s = seq THEN data ELSE segments[s]]
  /\ UNCHANGED <<retransmissions, overlaps>>

-----------------------------------------------------------------------------
(* reassemble                                                              *)

IsLowest(s, S) == s \in S /\ \A t \in S : s <= t

BeginMerge ==
  /\ phase = "feed"
  /\ phase' = "merge"
  /\ todo' = DOMAIN segments
  /\ \/ DOMAIN segments = {} /\ expected' = 0
     \/ \E first \in DOMAIN segments :
          IsLowest(first, DOMAIN segments) /\ expected' = first
  /\ stream' = <<>>
  /\ gaps' = <<>>
  /\ UNCHANGED <<policy, input, overlaps>>

\* The loop is at segment seq.
At(seq) ==
  /\ phase = "merge"
  /\ IsLowest(seq, todo)
  /\ todo' = todo \ {seq}
  /\ UNCHANGED <<policy, input, phase>>

EndOf(seq) == seq + Len(segments[seq])

MergeAligned(seq) ==
  /\ At(seq)
  /\ seq = expected
  /\ stream' = stream \o segments[seq]
  /\ expected' = EndOf(seq)
  /\ UNCHANGED <<overlaps, gaps>>

GapLength(seq) == seq - expected

MergeAfterGap(seq) ==
  /\ At(seq)
  /\ seq > expected
  /\ gaps' = Append(gaps, [start_seq |-> expected, end_seq |-> seq,
                          length |-> GapLength(seq)])
  /\ stream' = stream \o segments[seq]
  /\ expected' = EndOf(seq)
  /\ UNCHANGED overlaps

SplicedOffByOne(old, overlap, data) == old \o SubSeq(data, overlap, Len(data))
Spliced(old, overlap, data) ==
  IF policy = "LAST_WINS"
  THEN SubSeq(old, 1, Len(old) - overlap) \o data
  ELSE old \o SubSeq(data, overlap + 1, Len(data))

\* Partial overlap: the segment ends beyond the stream.
MergePartial(seq) ==
  /\ At(seq)
  /\ seq < expected
  /\ EndOf(seq) > expected
  /\ overlaps' = overlaps + 1
  /\ stream' = Spliced(stream, expected - seq, segments[seq])
  /\ expected' = EndOf(seq)
  /\ UNCHANGED gaps

\* data written over old from index start + 1.
Overwritten(old, start, data) ==
  [i \in DOMAIN old |->
     IF i \in start + 1 .. start + Len(data) THEN data[i - start] ELSE old[i]]

\* Contained overlap: the stream already reaches the segment's end.
MergeContained(seq) ==
  /\ At(seq)
  /\ EndOf(seq) <= expected
  /\ seq < expected
  /\ overlaps' = overlaps + 1
  /\ stream' = IF policy = "LAST_WINS"
                 THEN Overwritten(stream, Len(stream) - (expected - seq), segments[seq])
                 ELSE stream
  /\ UNCHANGED <<expected, gaps>>

EndMerge ==
  /\ phase = "merge"
  /\ todo = {}
  /\ phase' = "done"
  /\ UNCHANGED <<policy, input, overlaps, merge>>

Next ==
  \/ \E s \in SeqNo, d \in Payload :
       \/ AddRetransmission(s, d)
       \/ AddSameStart(s, d)
       \/ AddNew(s, d)
  \/ BeginMerge
  \/ \E s \in todo :
       \/ MergeAligned(s)
       \/ MergeAfterGap(s)
       \/ MergePartial(s)
       \/ MergeContained(s)
  \/ EndMerge

Spec == Init /\ [][Next]_vars

-----------------------------------------------------------------------------
\* A stream reported complete (no gap) has a byte for every sequence number
\* from the first start to the expected one, and the splices that overlaps
\* cause neither lose a byte nor leave one twice.
CompleteIsContiguous ==
  phase # "feed" /\ gaps = <<>> =>
    \A first \in DOMAIN segments :
      IsLowest(first, DOMAIN segments) => Len(stream) = expected - first

\* However segments overlap and whatever gaps came before, the part of a
\* segment that overlaps lies within the stream merged so far: the splice
\* index never goes below zero, where a Python slice would count from the end
\* and overwrite other bytes.
SpliceWithinStream ==
  phase = "merge" => \A s \in todo : expected - s <= Len(stream)

\* What reassemble() has returned, as StreamReassembly describes it.
Returned ==
  IF phase = "done"
  THEN [delivered |-> TRUE, stream |-> stream,
        holes |-> {gaps[i].end_seq : i \in DOMAIN gaps}]
  ELSE [delivered |-> FALSE]

\* The abstract reassembly that the buffer implements.
Abstract == INSTANCE StreamReassembly WITH result <- Returned

\* reassemble() delivers the stream, and the gaps, that the policy defines
\* position by position, for every order of arrival.
ImplementsReassembly == Abstract!Spec

=============================================================================
