----------------------------- MODULE QuicMerge -----------------------------
(***************************************************************************)
(* What a tracked QUIC connection knows of itself: parse_quic_packet and   *)
(* process_crypto_frames_in_packet of src/src/network/dpi/quic.rs, which   *)
(* make one QuicInfo of the packets of a datagram, merge_quic_info of      *)
(* src/src/network/merge.rs, which merges it into the connection, and the  *)
(* timeout of src/src/network/types.rs that follows from it.               *)
(*                                                                         *)
(* The only packets whose frames can be read are the client's Initial      *)
(* packets, because their keys follow from the connection ID in them.  A   *)
(* QuicInfo is [state, close, tls, reassembler]; of the TLS information    *)
(* the model keeps what is known of the server name: nothing ("none"),     *)
(* information without a name ("alpn"), a name marked as cut ("partial"),  *)
(* the name in the client's hello ("complete"), or one that passes for it  *)
(* and is not, such as its beginning, without the mark ("wrong").          *)
(***************************************************************************)
EXTENDS CryptoReassembler, SequencesExt

CONSTANTS
  StreamLen,     \* the bytes of the client's CRYPTO stream
  HelloLen,      \* those up to the end of its server name, and at least 100
  NameAccepted,  \* whether is_valid_hostname accepts that name, if there is one
  MaxFrames,     \* bound: CRYPTO frames in a packet
  MaxCoalesced,  \* bound: packets in a datagram (10)
  NoInfo,        \* the connection is not tracked as QUIC
  NoReassembler  \* None

ASSUME QuicAssumption ==
  /\ StreamLen \in Nat /\ HelloLen \in Nat \ {0} /\ NameAccepted \in BOOLEAN
  /\ MaxFrames \in Nat /\ MaxCoalesced \in Nat \ {0}

VARIABLES
  quic,      \* the QuicInfo of the connection
  closeSeen  \* a CONNECTION_CLOSE frame was read since it is tracked, for the properties

quicVars == <<quic, closeSeen>>

States == {"Unknown", "Initial", "Handshaking", "Connected", "Draining", "Closed"}
Tls == {"none", "alpn", "partial", "wrong", "complete"}

(* is_complete_sni: a name without the mark of a cut one.                  *)
Unmarked == {"wrong", "complete"}

(* A CONNECTION_CLOSE frame: its type and whether it carries an error.     *)
Closes == [frame_type : {"transport", "application"}, error : BOOLEAN]
NoClose == [frame_type |-> "none", error |-> FALSE]

quic_state_priority ==
  [Unknown |-> 0, Initial |-> 1, Handshaking |-> 2, Connected |-> 3, Draining |-> 4, Closed |-> 5]

(* Mutant: the state of the last packet is taken.                          *)
Latest(old, new) == new

(* The state of two that has the higher priority, the first of equals.     *)
Further(old, new) ==
  IF quic_state_priority[new] > quic_state_priority[old] THEN new ELSE old

-----------------------------------------------------------------------------
(* A reassembler is its buffer and what set_complete_tls_info has stored   *)
(* (cached_tls_info together with has_complete_tls_info).                  *)
Result(r, tls, cached) == [reassembler |-> [buffer |-> r.buffer, cached |-> cached], tls |-> tls]

Empty == [buffer |-> NewReassembler, cached |-> "none"]

WithAll(r, frames) == [buffer |-> AddAll(r.buffer, frames), cached |-> r.cached]

(* The stream is contiguous up to the end of a name that is accepted, and  *)
(* long enough to be parsed.                                               *)
HasHello(r) == NameAccepted /\ r.buffer.contiguous_offset >= HelloLen

(* What the strategies find in fragments that do not have the whole hello, *)
(* or one without an acceptable name.  The search for strings that look    *)
(* like a hostname, in the fragments joined, neither knows where the name  *)
(* ends nor marks it.  An unmarked name is cached, and whatever the last   *)
(* strategy finds, a cut name included.                                    *)
FromFragments(r) ==
  {Result(r, tls, r.cached) : tls \in {"none", "alpn", "partial"}}
    \union {Result(r, tls, tls) : tls \in {"partial", "wrong"}}
    \union (IF NameAccepted THEN {Result(r, "complete", "complete")} ELSE {})

(* try_extract_tls_from_reassembler: the results it may have.  A cached    *)
(* name without a mark is returned, once the stream is contiguous up to    *)
(* the name it is parsed.                                                  *)
Extracted(r) ==
  IF r.cached \in Unmarked THEN {Result(r, r.cached, r.cached)}
  ELSE IF HasHello(r) THEN {Result(r, "complete", "complete")}
  ELSE IF r.buffer.fragments = {} THEN {Result(r, "none", r.cached)}
  ELSE FromFragments(r)

(* None is told from Some.                                                 *)
ASSUME NoReassemblerAssumption == NoReassembler \notin [buffer : Reassemblers, cached : Tls]

-----------------------------------------------------------------------------
(* The packets of a datagram.                                              *)

(* What a packet is and what can be read of it.  An empty CRYPTO frame is  *)
(* not added to the fragments: it would replace the one stored at its      *)
(* offset.  (Bound: a packet with a close has at most one CRYPTO frame.)   *)
InStream ==
  {f \in {Fragment(offset, len) : offset \in 0..(StreamLen - 1), len \in 1..StreamLen} :
     FragEnd(f) <= StreamLen}

Opaque(type) == [type |-> type, readable |-> FALSE, frames |-> <<>>, close |-> NoClose]
Readable(frames, close) ==
  [type |-> "Initial", readable |-> TRUE, frames |-> frames, close |-> close]

Packets ==
  {Opaque(type) : type \in {"Initial", "Retry", "ZeroRtt", "Handshake", "OneRtt", "Truncated"}}
    \union {Readable(frames, NoClose) : frames \in BoundedSeq(InStream, MaxFrames)}
    \union {Readable(frames, close) : frames \in BoundedSeq(InStream, 1), close \in Closes}

(* extract_tls_from_long_header_packet, parse_short_header_packet; a       *)
(* packet whose header does not end in the datagram keeps Unknown.         *)
PacketState(type) ==
  CASE type \in {"Initial", "Retry"} -> "Initial"
    [] type \in {"Handshake", "ZeroRtt"} -> "Handshaking"
    [] type = "OneRtt" -> "Connected"
    [] type = "Truncated" -> "Unknown"

(* A close read in a packet: without an error the connection drains.       *)
FrameCloseState(close) == IF close.error THEN "Closed" ELSE "Draining"

(* process_crypto_frames_in_packet: every fragment into the packet's own   *)
(* reassembler, the close, and the extraction if there was a CRYPTO frame. *)
ReadFrames(p) ==
  LET found == IF p.frames = <<>> THEN {Result(Empty, "none", "none")}
               ELSE Extracted(WithAll(Empty, p.frames))
  IN {[state |-> IF p.close = NoClose THEN PacketState(p.type) ELSE FrameCloseState(p.close),
       close |-> p.close, tls |-> e.tls, reassembler |-> e.reassembler] : e \in found}

PacketInfos(p) ==
  IF p.readable THEN ReadFrames(p)
  ELSE {[state |-> PacketState(p.type), close |-> NoClose, tls |-> "none",
         reassembler |-> NoReassembler]}

(* Which TLS information is preferred, within a datagram and within the    *)
(* connection alike: anything to nothing, a name to none, one without the  *)
(* mark to a cut one.                                                      *)
Better(old, new) ==
  \/ old = "none"
  \/ old = "alpn" /\ new \in {"partial"} \union Unmarked
  \/ old = "partial" /\ new \in Unmarked

Preferred(old, new) == IF Better(old, new) THEN new ELSE old

(* merge_quic_packet_info: the reassembler of a later packet is taken only *)
(* if there was none; its close is lost, the state that came from it not.  *)
MergePacketInfo(existing, new) ==
  [state |-> Further(existing.state, new.state),
   close |-> existing.close,
   tls |-> Preferred(existing.tls, new.tls),
   reassembler |-> IF existing.reassembler = NoReassembler
                   THEN new.reassembler ELSE existing.reassembler]

(* parse_quic_packet: what a datagram of one packet gives, with whether a  *)
(* close was read in it.  A short header and a truncated one take the rest *)
(* of the datagram (last).                                                 *)
PacketResults ==
  UNION {{[info |-> i, closed |-> p.close # NoClose, last |-> p.type \in {"OneRtt", "Truncated"}] :
            i \in PacketInfos(p)} : p \in Packets}

MergedResult(d, n) ==
  [info |-> MergePacketInfo(d.info, n.info), closed |-> d.closed \/ n.closed, last |-> n.last]

WithNextPacket(results) ==
  results \union {MergedResult(d, n) : d \in {r \in results : ~r.last}, n \in PacketResults}

(* What datagrams of one to n packets give.                                *)
Coalesced[n \in 1..MaxCoalesced] ==
  IF n = 1 THEN PacketResults ELSE WithNextPacket(Coalesced[n - 1])

DatagramResults ==
  {[info |-> r.info, closed |-> r.closed] : r \in Coalesced[MaxCoalesced]}

-----------------------------------------------------------------------------
(* merge_quic_info.                                                        *)

(* The fragments of the new reassembler, in their order, into the old one. *)
WithFragments(r, new) == WithAll(r, InOrder(new.buffer.fragments))

(* Mutant: the extraction is repeated although the name is known.          *)
RetryAlways(tls) == TRUE

(* A cut or missing name is looked for again in the merged fragments, and  *)
(* whatever is found replaces what was known.  (The second attempt, which  *)
(* allows cut names, may find what the first one may find.)                *)
Retry(tls) == tls \notin Unmarked

Reextracted(r, tls) ==
  IF Retry(tls)
  THEN {[e EXCEPT !.tls = IF @ = "none" THEN tls ELSE @] : e \in Extracted(r)}
  ELSE {[reassembler |-> r, tls |-> tls]}

(* Then what the new reassembler has cached, if it is better.              *)
MergeReassembler(old, new) ==
  IF new.reassembler = NoReassembler
  THEN {[reassembler |-> old.reassembler, tls |-> old.tls]}
  ELSE IF old.reassembler = NoReassembler
  THEN {[reassembler |-> new.reassembler, tls |-> old.tls]}
  ELSE {[e EXCEPT !.tls = Preferred(@, new.reassembler.cached)] :
          e \in Reextracted(WithFragments(old.reassembler, new.reassembler), old.tls)}

(* A close is final: it replaces an earlier one and sets the state         *)
(* whatever the priorities.                                                *)
CloseState(close) ==
  IF close.frame_type = "transport" /\ ~close.error THEN "Draining" ELSE "Closed"

MergeQuicInfo(old, new) ==
  {[state |-> IF new.close = NoClose THEN Further(old.state, new.state) ELSE CloseState(new.close),
    close |-> IF new.close = NoClose THEN old.close ELSE new.close,
    tls |-> Preferred(e.tls, new.tls),
    reassembler |-> e.reassembler] : e \in MergeReassembler(old, new)}

-----------------------------------------------------------------------------
QuicInit ==
  /\ quic = NoInfo
  /\ closeSeen = FALSE

(* A datagram creates the information or is merged into it (merge_dpi_info,*)
(* create_connection_from_packet).                                         *)
Datagram ==
  \E d \in DatagramResults :
    /\ quic' \in IF quic = NoInfo THEN {d.info} ELSE MergeQuicInfo(quic, d.info)
    /\ closeSeen' = (d.closed \/ (quic # NoInfo /\ closeSeen))

(* get_quic_timeout, in seconds.                                           *)
QuicTimeout(info) ==
  CASE info.close.frame_type = "transport" -> 10
    [] info.close.frame_type = "application" -> 1
    [] info.close = NoClose /\ info.state \in {"Initial", "Handshaking"} -> 60
    [] info.close = NoClose /\ info.state = "Connected" -> 180
    [] info.close = NoClose /\ info.state = "Draining" -> 10
    [] info.close = NoClose /\ info.state = "Closed" -> 1
    [] info.close = NoClose /\ info.state = "Unknown" -> 120

(* The entry is removed after its timeout; how long that is changes        *)
(* nothing here, so it may happen at any time.                             *)
Expire ==
  /\ quic # NoInfo
  /\ quic' = NoInfo
  /\ closeSeen' = FALSE

QuicNext == Datagram \/ Expire

=============================================================================
