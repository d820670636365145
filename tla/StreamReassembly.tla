-------------------------- MODULE StreamReassembly --------------------------
(***************************************************************************)
(* What reassembly promises of one direction of a TCP flow, position by    *)
(* position: no buffer, no order of merging.                               *)
(*                                                                         *)
(* Among the packets with one start only one counts, the first or the last *)
(* by the policy; where packets that count overlap, the byte is that of    *)
(* the one with the lowest or the highest start.                           *)
(***************************************************************************)
EXTENDS Integers, Sequences, FiniteSetsExt

CONSTANTS SeqNo, Payload

VARIABLES policy, packets, result

None == [delivered |-> FALSE]

\* Index of the packet that counts for a start.
Kept(start) ==
  LET at == {k \in DOMAIN packets : packets[k].seq = start}
  IN  IF policy = "LAST_WINS" THEN Max(at) ELSE Min(at)

Starts == {packets[k].seq : k \in DOMAIN packets}

DataAt(start) == packets[Kept(start)].data

Holding(pos) == {s \in Starts : s <= pos /\ pos < s + Len(DataAt(s))}

Held == UNION {s .. s + Len(DataAt(s)) - 1 : s \in Starts}

ByteAt(pos) ==
  LET s == IF policy = "LAST_WINS" THEN Max(Holding(pos)) ELSE Min(Holding(pos))
  IN  DataAt(s)[pos - s + 1]

\* How many positions are held up to pos.
Rank(pos) == Cardinality({p \in Held : p <= pos})

\* The bytes of the positions held, in their order.
IsStream(bytes) ==
  /\ DOMAIN bytes = 1 .. Cardinality(Held)
  /\ \A pos \in Held : bytes[Rank(pos)] = ByteAt(pos)

\* Positions before which a hole ends.
AfterHole == {pos \in Held : pos - 1 \notin Held /\ pos # Min(Held)}

Init == packets = <<>> /\ result = None

Capture ==
  /\ result = None
  /\ \E s \in SeqNo, d \in Payload : packets' = Append(packets, [seq |-> s, data |-> d])
  /\ UNCHANGED <<policy, result>>

Deliver ==
  /\ result = None
  /\ result'.delivered
  /\ IsStream(result'.stream)
  /\ result' = [delivered |-> TRUE, stream |-> result'.stream, holes |-> AfterHole]
  /\ UNCHANGED <<policy, packets>>

Next == Capture \/ Deliver

Spec == Init /\ [][Next]_<<policy, packets, result>>
=============================================================================
