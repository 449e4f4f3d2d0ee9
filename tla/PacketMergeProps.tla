-------------------------- MODULE PacketMergeProps --------------------------
(***************************************************************************)
(* What must hold of the TCP quality counters and of the QUIC information  *)
(* of a connection.                                                        *)
(***************************************************************************)
EXTENDS PacketMerge

-----------------------------------------------------------------------------
(* TCP analytics.                                                          *)

Wrapped == \E d \in Dirs : top[d] >= Modulus

(* Nothing repeated, missed, overtaken, or behind a gap.                   *)
Orderly ==
  /\ traffic.repeats = [d \in Dirs |-> 0]
  /\ ~traffic.gap /\ ~traffic.missed /\ ~traffic.overtaken

Counted(d) ==
  IF d = "out" THEN analytics.retransmit_count ELSE analytics.out_of_order_count

(* The counters claim what happened (USAGE.md:615-620).  As long as the    *)
(* sequence numbers do not wrap there are no more retransmissions counted  *)
(* than there were, whatever the capture misses and processors reorder,    *)
(* unless the first data analyzed had overtaken other data; and no more    *)
(* late segments than there were, if none was overtaken.  With nothing     *)
(* missed the counts are exact once new data has been analyzed.  A stream  *)
(* without repetitions and gaps counts nothing across the wrap and the     *)
(* number zero, and a fast retransmit takes four acknowledgements.         *)
CountsReal ==
  analytics # NoAnalytics =>
    /\ ~Wrapped \/ Orderly =>
         /\ traffic.base["out"] # "ahead" => Counted("out") <= traffic.repeats["out"]
         /\ ~traffic.overtaken => Counted("in") <= traffic.repeats["in"]
    /\ ~Wrapped /\ ~traffic.overtaken /\ ~traffic.missed =>
         \A d \in Dirs : traffic.base[d] = "new" => Counted(d) = traffic.repeats[d]
    /\ 4 * analytics.fast_retransmit_count <= traffic.acked

-----------------------------------------------------------------------------
(* QUIC.                                                                   *)

Reassembling == quic # NoInfo /\ quic.reassembler # NoReassembler

(* The bytes the fragments cover, each position once for each fragment.    *)
Covered(r) == UNION {f.offset..(FragEnd(f) - 1) : f \in r.fragments}

(* The reassembled data is the beginning of the stream, up to the first    *)
(* byte that no fragment has brought, with no byte missing, twice or out   *)
(* of place, however the client cuts, repeats and reorders it; and the     *)
(* buffer holds what it counts, within its limit.                          *)
ContiguousIsPrefix ==
  Reassembling =>
    LET r == quic.reassembler.buffer IN
    /\ r.contiguous_offset \notin Covered(r)
    /\ ContiguousData(r) = [i \in 1..r.contiguous_offset |-> i - 1]
    /\ r.current_buffer_size = Cardinality(Covered(r))
    /\ r.current_buffer_size <= max_buffer_size

(* The server name settles.  As soon as the stream is contiguous up to the *)
(* name, by whichever packets that came about, the connection shows it,    *)
(* unless it already shows one that passed for whole: that one is never    *)
(* looked at again, and neither replaced nor lost, right or wrong.  (So a  *)
(* name cut at the end of a fragment, which is not marked as cut, stays,   *)
(* although quic.rs:2258 means to accept only complete names.)             *)
HelloRead == Reassembling /\ HasHello(quic.reassembler)
Settled == quic # NoInfo /\ quic.tls \in Unmarked
NameSettles ==
  [][/\ HelloRead' /\ ~Settled => quic'.tls = "complete"
     /\ Settled /\ quic' # NoInfo => quic'.tls = quic.tls]_quic

(* Once a close was read, in whichever packet of a datagram, the           *)
(* connection leaves within ten seconds of silence, whatever else arrives  *)
(* late (ARCHITECTURE.md:70).                                              *)
ClosedLeavesSoon == quic # NoInfo /\ closeSeen => QuicTimeout(quic) <= 10

=============================================================================
