--------------------------- MODULE TcpAnalytics ---------------------------
(***************************************************************************)
(* The quality counters of one TCP connection: analyze_tcp_segment of      *)
(* src/src/network/merge.rs, on 32-bit sequence numbers, fed with the two  *)
(* streams of a connection as the capture delivers them.                   *)
(*                                                                         *)
(* Positions in a stream count without a bound from its initial sequence   *)
(* number, the sequence number of a segment is its position modulo         *)
(* Modulus.  SYN and FIN each take a position like a byte of payload, so   *)
(* a segment is an interval of positions.  A segment may be missed by the  *)
(* capture, and one at a time may lie in the batch of another processor    *)
(* while later ones are applied (held).                                    *)
(***************************************************************************)
EXTENDS Integers

CONSTANTS
  Modulus,      \* the number of sequence numbers, 2^32
  FirstPos,     \* the initial sequence numbers
  MaxLen,       \* positions in a segment
  MaxBack,      \* how far behind the end of its stream a repetition starts
  MaxSegments,  \* bound: segments of a behaviour
  NoAck,        \* an inbound segment without the ACK flag
  NoSegment,    \* nothing is held
  NoAnalytics   \* the connection is not tracked yet

ASSUME TcpAssumption ==
  /\ Modulus \in Nat \ {0} /\ MaxLen \in Nat \ {0} /\ MaxBack \in Nat /\ MaxSegments \in Nat
  /\ FirstPos \subseteq 0..(Modulus - 1)

VARIABLES
  analytics,    \* conn.tcp_analytics
  top,          \* how far each stream has come, per direction
  una,          \* what the remote side has acknowledged of the outbound stream
  held,         \* the segment another processor still has to apply
  segments,     \* segments so far, for the bound
  traffic       \* what has happened to the streams, for the properties

tcpVars == <<analytics, top, una, held, segments, traffic>>

Dirs == {"out", "in"}

(* A segment as it is captured; repeat: it starts before the end of what   *)
(* its stream has already shown on the wire.                               *)
Segment == [dir : Dirs, pos : Nat, len : 0..MaxLen, ack : 0..(Modulus - 1) \union {NoAck}, repeat : BOOLEAN]

Analytics ==
  [last_seq_outbound : Nat, last_seq_inbound : Nat, last_ack_received : Nat,
   duplicate_ack_count : Nat, retransmit_count : Nat, out_of_order_count : Nat,
   fast_retransmit_count : Nat]

(* The None values are not values.                                         *)
ASSUME NoneAssumption ==
  NoAnalytics \notin Analytics /\ NoSegment \notin Segment /\ NoAck \notin Nat

NewAnalytics ==
  [last_seq_outbound |-> 0, last_seq_inbound |-> 0, last_ack_received |-> 0,
   duplicate_ack_count |-> 0, retransmit_count |-> 0, out_of_order_count |-> 0,
   fast_retransmit_count |-> 0]

-----------------------------------------------------------------------------
(* analyze_tcp_segment.                                                    *)

(* Mutant: the addition does not wrap.                                     *)
EndUnwrapped(seq, len) == seq + len

(* seq.wrapping_add(payload_len)                                           *)
EndOf(seq, len) == (seq + len) % Modulus

(* Outbound: a segment below the expected number is a retransmission; one  *)
(* above it leaves the expected number where it is.                        *)
Outbound(a, seq, len) ==
  IF a.last_seq_outbound # 0 /\ seq < a.last_seq_outbound
  THEN [a EXCEPT !.retransmit_count = @ + 1]
  ELSE IF a.last_seq_outbound # 0 /\ seq > a.last_seq_outbound
  THEN a
  ELSE [a EXCEPT !.last_seq_outbound = EndOf(seq, len)]

(* Inbound: a segment below the expected number arrived late; any other    *)
(* one moves the expected number to its end.                               *)
Inbound(a, seq, len) ==
  IF a.last_seq_inbound # 0 /\ seq < a.last_seq_inbound
  THEN [a EXCEPT !.out_of_order_count = @ + 1]
  ELSE [a EXCEPT !.last_seq_inbound = EndOf(seq, len)]

(* Acknowledgements of inbound segments, with or without payload: the      *)
(* third repetition counts a fast retransmit.                              *)
Acknowledged(a, ack) ==
  IF a.last_ack_received = 0
  THEN [a EXCEPT !.last_ack_received = ack]
  ELSE IF ack = a.last_ack_received
  THEN [a EXCEPT !.duplicate_ack_count = @ + 1,
                 !.fast_retransmit_count = IF a.duplicate_ack_count + 1 = 3 THEN @ + 1 ELSE @]
  ELSE [a EXCEPT !.last_ack_received = ack, !.duplicate_ack_count = 0]

(* Zero stands for "nothing seen" in each of the three expected numbers,   *)
(* although it is a number like any other.                                 *)
AnalyzeTcpSegment(a, s) ==
  LET seq == s.pos % Modulus IN
  IF s.dir = "out"
  THEN IF s.len > 0 THEN Outbound(a, seq, s.len) ELSE a
  ELSE LET b == IF s.len > 0 THEN Inbound(a, seq, s.len) ELSE a
       IN IF s.ack # NoAck THEN Acknowledged(b, s.ack) ELSE b

-----------------------------------------------------------------------------
(* The segments on the wire.                                               *)

(* New data, or for the inbound stream data behind a gap; a retransmission *)
(* or a late segment, which ends within what the wire has already shown; a *)
(* pure acknowledgement.                                                   *)
NewSegment(d, pos, len) ==
  [dir |-> d, pos |-> pos, len |-> len, repeat |-> pos < top[d],
   ack |-> IF d = "out" THEN NoAck ELSE una % Modulus]

Fresh ==
  {NewSegment("out", top["out"], len) : len \in 1..MaxLen}
    \union {NewSegment("in", top["in"] + gap, len) : gap \in 0..1, len \in 1..MaxLen}

Again ==
  {s \in {NewSegment(d, top[d] - back, len) : d \in Dirs, back \in 1..MaxBack, len \in 1..MaxLen} :
     /\ s.pos >= traffic.start[s.dir]
     /\ s.pos + s.len <= top[s.dir]}

(* A segment without payload; a reset may lack the ACK flag.               *)
Bare == {[NewSegment("in", top["in"], 0) EXCEPT !.ack = a] : a \in {una % Modulus, NoAck}}

SegmentsNow == Fresh \union Again \union Bare

(* What the properties compare the counters with: where each stream began; *)
(* the repetitions analyzed and what the first data analyzed was, in each  *)
(* direction; inbound segments analyzed with an ACK; whether segments came *)
(* with a gap, were missed by the capture, or overtook a held one.         *)
NoTraffic(start) ==
  [start |-> start, repeats |-> [d \in Dirs |-> 0], base |-> [d \in Dirs |-> "none"],
   acked |-> 0, gap |-> FALSE, missed |-> FALSE, overtaken |-> FALSE]

BaseKind(s) ==
  CASE s.repeat -> "repeat"
    [] ~s.repeat /\ held # NoSegment /\ held.dir = s.dir /\ held.pos < s.pos -> "ahead"
    [] OTHER -> "new"

Observed(t, s) ==
  [t EXCEPT
     !.repeats[s.dir] = IF s.repeat THEN @ + 1 ELSE @,
     !.base[s.dir] = IF @ = "none" /\ s.len > 0 THEN BaseKind(s) ELSE @,
     !.acked = IF s.ack # NoAck THEN @ + 1 ELSE @]

-----------------------------------------------------------------------------
TcpInit ==
  /\ analytics = NoAnalytics
  /\ top \in [Dirs -> FirstPos]
  /\ una = top["out"]
  /\ held = NoSegment
  /\ segments = 0
  /\ traffic = NoTraffic(top)

(* The first packet creates the entry and is not analyzed                  *)
(* (create_connection_from_packet), every later one is.                    *)
Apply(s, t) ==
  IF analytics = NoAnalytics
  THEN analytics' = NewAnalytics /\ traffic' = t
  ELSE analytics' = AnalyzeTcpSegment(analytics, s) /\ traffic' = Observed(t, s)

OnWire(s) ==
  /\ segments' = segments + 1
  /\ top' = [top EXCEPT ![s.dir] = IF s.pos + s.len > @ THEN s.pos + s.len ELSE @]

TrafficWith(s) == [traffic EXCEPT !.gap = @ \/ s.pos > top[s.dir]]

(* A segment is captured and applied at once, also past a held one.        *)
Captured(s) ==
  /\ OnWire(s)
  /\ Apply(s, [TrafficWith(s) EXCEPT !.overtaken = @ \/ held # NoSegment])
  /\ UNCHANGED <<held, una>>

(* A segment is captured and waits in another processor's batch.           *)
Hold(s) ==
  /\ held = NoSegment
  /\ OnWire(s)
  /\ held' = s
  /\ traffic' = TrafficWith(s)
  /\ UNCHANGED <<analytics, una>>

Release ==
  /\ held # NoSegment
  /\ Apply(held, traffic)
  /\ held' = NoSegment
  /\ UNCHANGED <<top, una, segments>>

(* A segment passes that the capture misses.                               *)
Missed(s) ==
  /\ s.len > 0
  /\ OnWire(s)
  /\ traffic' = [TrafficWith(s) EXCEPT !.missed = TRUE]
  /\ UNCHANGED <<analytics, una, held>>

(* The remote side acknowledges what was sent; its next segments say so.   *)
Acknowledge ==
  /\ una < top["out"]
  /\ una' = top["out"]
  /\ UNCHANGED <<analytics, top, held, segments, traffic>>

TcpNext ==
  \/ /\ segments < MaxSegments
     /\ \E s \in SegmentsNow : Captured(s) \/ Hold(s) \/ Missed(s)
  \/ Release
  \/ Acknowledge

=============================================================================
