------------------------- MODULE PacketMergeProofs -------------------------
(***************************************************************************)
(* Proofs about what packets add to a connection.                          *)
(*                                                                         *)
(* QUIC: what is stored and what each datagram yields keep a sound         *)
(* reassembler, a whole name and a close (InfoOK, ResultOK).               *)
(* TCP: the analyzer is compared with the traffic; each of its counts is   *)
(* paid for by something that happened (TcpInv).                           *)
(***************************************************************************)
EXTENDS PacketMergeProps, CryptoReassemblerProofs

-----------------------------------------------------------------------------
(* The packets of a datagram *)

\* The recursion that makes a datagram's results of its packets' does define them.
LEMMA CoalescedDefined ==
  \A n \in 1..MaxCoalesced :
    Coalesced[n] = IF n = 1 THEN PacketResults ELSE WithNextPacket(Coalesced[n - 1])
<1> DEFINE Upto(m, f) ==
             f = [n \in 1..m |-> IF n = 1 THEN PacketResults ELSE WithNextPacket(f[n - 1])]
           T == {m \in Nat : ~\E f : Upto(m, f)}
<1>1. T = {}
  <2> SUFFICES ASSUME T # {} PROVE FALSE
    OBVIOUS
  <2>1. PICK m \in T : \A k \in T : m <= k
    BY LeastElement
  <2>2. m \in Nat /\ ~\E f : Upto(m, f)
    OBVIOUS
  <2>3. m # 0
    <3> DEFINE e == [n \in 1..0 |-> PacketResults]
    <3>1. 1..0 = {}
      OBVIOUS
    <3>2. Upto(0, e)
      BY <3>1, Zenon
    <3> QED
      BY <2>2, <3>2
  <2>4. m - 1 \in Nat /\ m - 1 \notin T
    <3> HIDE DEF T
    <3>1. m - 1 \in Nat /\ ~(m <= m - 1)
      BY <2>2, <2>3
    <3> QED
      BY <2>1, <3>1
  <2>5. PICK f : Upto(m - 1, f)
    BY <2>4
  <2> DEFINE g == [n \in 1..m |-> IF n = m
                                  THEN IF n = 1 THEN PacketResults ELSE WithNextPacket(f[n - 1])
                                  ELSE f[n]]
  <2>6. ASSUME NEW n \in 1..m
        PROVE  g[n] = IF n = 1 THEN PacketResults ELSE WithNextPacket(g[n - 1])
    <3>1. n # 1 => n - 1 \in 1..m /\ n - 1 # m
      BY <2>2
    <3>2. n # 1 => g[n - 1] = f[n - 1]
      BY <3>1
    <3>3. n # m => n \in 1..(m - 1)
      BY <2>2
    <3>4. n # m => f[n] = IF n = 1 THEN PacketResults ELSE WithNextPacket(f[n - 1])
      BY <2>5, <3>3
    <3> QED
      BY <3>2, <3>4
  <2>7. Upto(m, g)
    <3>1. g = [n \in 1..m |-> g[n]]
      OBVIOUS
    <3> HIDE DEF g
    <3> QED
      BY <2>6, <3>1
  <2> QED
    BY <2>2, <2>7
<1>2. MaxCoalesced \in Nat
  BY QuicAssumption
<1>3. \E f : Upto(MaxCoalesced, f)
  BY <1>1, <1>2
<1>4. Upto(MaxCoalesced, Coalesced)
  BY <1>3 DEF Coalesced
<1> QED
  BY <1>4

-----------------------------------------------------------------------------
(* QUIC: what packets, datagrams and connections know *)

Leaving(info) == info.state \in {"Draining", "Closed"}

\* The information has its types, its reassembler is sound (CryptoReassemblerProofs), and a
\* name without a mark is known if one is cached or the stream holds the whole hello.
InfoOK(info) ==
  /\ info.state \in States /\ info.close \in Closes \union {NoClose} /\ info.tls \in Tls
  /\ info.reassembler = NoReassembler => info.tls = "none"
  /\ info.reassembler # NoReassembler =>
       /\ BufferOK(info.reassembler.buffer)
       /\ info.reassembler.cached \in Tls
       /\ info.reassembler.cached \in Unmarked \/ HasHello(info.reassembler)
            => info.tls \in Unmarked

\* What one datagram tells: nothing passed for the name of a hello that it holds whole.
Honest(info) ==
  info.reassembler # NoReassembler /\ HasHello(info.reassembler) => info.tls = "complete"

\* A datagram in which a close was read leads to a state that leaves soon, and a close
\* that is carried over was read.
ResultOK(r) ==
  /\ InfoOK(r.info) /\ Honest(r.info) /\ r.closed \in BOOLEAN
  /\ r.closed => Leaving(r.info)
  /\ r.info.close # NoClose => r.closed

QuicInv == quic # NoInfo => InfoOK(quic) /\ (closeSeen => Leaving(quic))

\* None is not a reassembler.
LEMMA NoneIsNoReassembler ==
  ASSUME NEW b, BufferOK(b), NEW cached \in Tls
  PROVE  [buffer |-> b, cached |-> cached] # NoReassembler
<1>1. b \in Buffers
  BY DEF BufferOK
<1>2. Fragments \subseteq [offset : Nat, data : Seq(Nat)]
  <2> SUFFICES ASSUME NEW offset \in Nat, NEW len \in Nat \ {0}
               PROVE  Fragment(offset, len) \in [offset : Nat, data : Seq(Nat)]
    BY DEF Fragments
  <2>1. \A i \in 1..len : offset + i - 1 \in Nat
    OBVIOUS
  <2>2. [i \in 1..len |-> offset + i - 1] \in Seq(Nat)
    BY <2>1
  <2> QED
    BY <2>2 DEF Fragment
<1>3. b \in Reassemblers
  BY <1>1, <1>2 DEF Buffers, Reassemblers
<1>4. [buffer |-> b, cached |-> cached] \in [buffer : Reassemblers, cached : Tls]
  BY <1>3
<1> QED
  BY <1>4, NoReassemblerAssumption

LEMMA FurtherOf ==
  ASSUME NEW old \in States, NEW new \in States
  PROVE  /\ Further(old, new) \in States
         /\ old \in {"Draining", "Closed"} \/ new \in {"Draining", "Closed"}
            => Further(old, new) \in {"Draining", "Closed"}
BY DEF States, Further, quic_state_priority

LEMMA PreferredOf ==
  ASSUME NEW old \in Tls, NEW new \in Tls
  PROVE  /\ Preferred(old, new) \in Tls
         /\ old \in Unmarked => Preferred(old, new) = old
         /\ old \notin Unmarked /\ new \in Unmarked => Preferred(old, new) = new
         /\ old = "none" => Preferred(old, new) = new
BY DEF Tls, Unmarked, Preferred, Better

\* What an extraction returns: the buffer as it was, the cached name if that has no mark,
\* and otherwise the whole one if the stream has it.
LEMMA ExtractedOf ==
  ASSUME NEW r, r.cached \in Tls, NEW e \in Extracted(r)
  PROVE  /\ e.tls \in Tls /\ e.reassembler.cached \in Tls
         /\ e.reassembler.buffer = r.buffer
         /\ e.reassembler.cached \in Unmarked \/ HasHello(r) => e.tls \in Unmarked
         /\ r.cached \notin Unmarked /\ HasHello(r) => e.tls = "complete"
         /\ BufferOK(r.buffer) => e.reassembler # NoReassembler
         /\ \E a, b : e = [reassembler |-> a, tls |-> b]
<1>1. \E tls \in Tls, cached \in Tls :
        /\ e = Result(r, tls, cached)
        /\ cached \in Unmarked \/ HasHello(r) => tls \in Unmarked
        /\ r.cached \notin Unmarked /\ HasHello(r) => tls = "complete"
  <2>1. CASE r.cached \in Unmarked
    BY <2>1 DEF Extracted
  <2>2. CASE r.cached \notin Unmarked /\ HasHello(r)
    BY <2>2 DEF Extracted, Tls, Unmarked
  <2>3. CASE r.cached \notin Unmarked /\ ~HasHello(r)
    BY <2>3 DEF Extracted, FromFragments, Tls, Unmarked
  <2> QED
    BY <2>1, <2>2, <2>3
<1>2. PICK tls \in Tls, cached \in Tls :
        /\ e = Result(r, tls, cached)
        /\ cached \in Unmarked \/ HasHello(r) => tls \in Unmarked
        /\ r.cached \notin Unmarked /\ HasHello(r) => tls = "complete"
  BY <1>1
<1>3. /\ e = [reassembler |-> e.reassembler, tls |-> e.tls]
      /\ e.reassembler = [buffer |-> r.buffer, cached |-> cached] /\ e.tls = tls
  BY <1>2 DEF Result
<1>4. BufferOK(r.buffer) => e.reassembler # NoReassembler
  BY <1>3, NoneIsNoReassembler
<1>5. e.reassembler.buffer = r.buffer /\ e.reassembler.cached = cached
  BY <1>3
<1> QED
  BY <1>2, <1>3, <1>4, <1>5

\* A packet's own reassembler is sound: it is made of the fragments of its frames.
LEMMA FramesOK ==
  ASSUME NEW n \in Nat, NEW frames \in BoundedSeq(InStream, n)
  PROVE  BufferOK(WithAll(Empty, frames).buffer)
<1>1. PICK m \in 0..n : frames \in [1..m -> InStream]
  BY DEF BoundedSeq, SeqOf
<1>2. m \in Nat /\ Len(frames) = m
  BY <1>1
<1>3. InStream \subseteq Fragments
  <2> SUFFICES ASSUME NEW f \in InStream PROVE f \in Fragments
    OBVIOUS
  <2>1. PICK offset \in 0..(StreamLen - 1), len \in 1..StreamLen : f = Fragment(offset, len)
    BY DEF InStream
  <2>2. offset \in Nat /\ len \in Nat \ {0}
    BY QuicAssumption
  <2> QED
    BY <2>1, <2>2 DEF Fragments
<1>4. \A i \in 1..m : frames[i] \in Fragments
  BY <1>1, <1>3
<1>5. BufferOK(AddAll(NewReassembler, frames))
  BY <1>2, <1>4, NewReassemblerOK, AddAllOK
<1>6. WithAll(Empty, frames).buffer = AddAll(NewReassembler, frames)
  BY DEF WithAll, Empty
<1> QED
  BY <1>5, <1>6

\* Merging one sound buffer into another gives a sound one.
LEMMA FragmentsOK ==
  ASSUME NEW r, NEW new, BufferOK(r.buffer), BufferOK(new.buffer)
  PROVE  BufferOK(WithFragments(r, new).buffer)
<1> DEFINE F == new.buffer.fragments
           s == InOrder(F)
           n == Cardinality(F)
<1>1. F \in SUBSET Fragments /\ IsFiniteSet(F) /\ Keyed(F)
  BY DisjointIsKeyed DEF BufferOK, Buffers
<1>2. n \in Nat /\ s \in [1..n -> F] /\ Len(s) = n
  BY <1>1, InOrderOf
<1> HIDE DEF s, n, F
<1>3. \A i \in 1..n : s[i] \in Fragments
  BY <1>1, <1>2
<1>4. BufferOK(AddAll(r.buffer, s))
  BY <1>2, <1>3, AddAllOK
<1>5. WithFragments(r, new).buffer = AddAll(r.buffer, s)
  BY DEF WithFragments, WithAll, s, F
<1> QED
  BY <1>4, <1>5

LEMMA PacketResultOK ==
  ASSUME NEW r \in PacketResults
  PROVE  ResultOK(r)
<1>0. PICK p \in Packets : \E i \in PacketInfos(p) :
        r = [info |-> i, closed |-> p.close # NoClose, last |-> p.type \in {"OneRtt", "Truncated"}]
  BY DEF PacketResults
<1>1. PICK i \in PacketInfos(p) :
        r = [info |-> i, closed |-> p.close # NoClose, last |-> p.type \in {"OneRtt", "Truncated"}]
  BY <1>0
<1>2. /\ p.type \in {"Initial", "Retry", "ZeroRtt", "Handshake", "OneRtt", "Truncated"}
      /\ p.close \in Closes \union {NoClose} /\ (~p.readable => p.close = NoClose)
      /\ p.readable => \E n \in Nat : p.frames \in BoundedSeq(InStream, n)
  BY QuicAssumption DEF Packets, Opaque, Readable
<1>3. PacketState(p.type) \in States
  BY <1>2 DEF PacketState, States
<1>4. CASE p.readable
  <2>1. PICK e \in (IF p.frames = <<>> THEN {Result(Empty, "none", "none")}
                    ELSE Extracted(WithAll(Empty, p.frames))) :
          i = [state |-> IF p.close = NoClose THEN PacketState(p.type) ELSE FrameCloseState(p.close),
               close |-> p.close, tls |-> e.tls, reassembler |-> e.reassembler]
    BY <1>1, <1>4 DEF PacketInfos, ReadFrames
  <2>2. /\ e.tls \in Tls /\ e.reassembler.cached \in Tls
        /\ e.reassembler.cached \in Unmarked => e.tls \in Unmarked
        /\ HasHello(e.reassembler) => e.tls = "complete"
        /\ BufferOK(e.reassembler.buffer)
        /\ e.reassembler # NoReassembler
    <3>1. CASE p.frames = <<>>
      <4>1. ~HasHello(Empty)
        BY QuicAssumption DEF HasHello, Empty, NewReassembler
      <4>2. e = Result(Empty, "none", "none")
        BY <2>1, <3>1
      <4>3. e.reassembler = Empty /\ Empty.buffer = NewReassembler
        BY <4>2 DEF Result, Empty
      <4>4. BufferOK(e.reassembler.buffer)
        BY <4>3, NewReassemblerOK
      <4>5. e.reassembler # NoReassembler
        BY <4>3, <4>4, NoneIsNoReassembler DEF Empty, Tls
      <4> QED
        BY <4>1, <4>2, <4>4, <4>5 DEF Result, HasHello, Empty, Tls, Unmarked
    <3>2. CASE p.frames # <<>>
      <4>1. /\ WithAll(Empty, p.frames).cached \in Tls
            /\ WithAll(Empty, p.frames).cached \notin Unmarked
        BY DEF WithAll, Empty, Tls, Unmarked
      <4>2. e \in Extracted(WithAll(Empty, p.frames))
        BY <2>1, <3>2
      <4>3. HasHello(e.reassembler) => HasHello(WithAll(Empty, p.frames))
        BY <4>1, <4>2, ExtractedOf DEF HasHello
      <4>4. BufferOK(e.reassembler.buffer) /\ e.reassembler # NoReassembler
        <5>1. BufferOK(WithAll(Empty, p.frames).buffer)
          BY <1>2, <1>4, FramesOK
        <5> QED
          BY <4>1, <4>2, <5>1, ExtractedOf
      <4> QED
        BY <4>1, <4>2, <4>3, <4>4, ExtractedOf
    <3> QED
      BY <3>1, <3>2
  <2>3. p.close # NoClose => FrameCloseState(p.close) \in {"Draining", "Closed"}
    BY DEF FrameCloseState
  <2> QED
    BY <1>1, <1>2, <1>3, <2>1, <2>2, <2>3 DEF ResultOK, InfoOK, Honest, Leaving, States, Unmarked
<1>5. CASE ~p.readable
  <2>1. i = [state |-> PacketState(p.type), close |-> NoClose, tls |-> "none",
             reassembler |-> NoReassembler]
    BY <1>1, <1>5 DEF PacketInfos
  <2> QED
    BY <1>1, <1>2, <1>3, <1>5, <2>1 DEF ResultOK, InfoOK, Honest, Leaving, Tls
<1> QED
  BY <1>4, <1>5

\* Merging the packets of a datagram: neither a close nor a name without a mark is lost.
LEMMA MergePacketOK ==
  ASSUME NEW d, ResultOK(d), NEW n \in PacketResults
  PROVE  ResultOK(MergedResult(d, n))
<1> DEFINE m == MergePacketInfo(d.info, n.info)
<1>1. ResultOK(n)
  BY PacketResultOK
<1>2. MergedResult(d, n).info = m /\ MergedResult(d, n).closed = (d.closed \/ n.closed)
  BY DEF MergedResult
<1>3. /\ m.state = Further(d.info.state, n.info.state) /\ m.close = d.info.close
      /\ m.tls = Preferred(d.info.tls, n.info.tls)
      /\ m.reassembler = IF d.info.reassembler = NoReassembler THEN n.info.reassembler
                         ELSE d.info.reassembler
  BY DEF MergePacketInfo
<1> HIDE DEF m
<1>4. InfoOK(m) /\ Honest(m)
  <2>1. /\ m.state \in States /\ m.close \in Closes \union {NoClose} /\ m.tls \in Tls
        /\ d.info.tls \in Tls /\ n.info.tls \in Tls
    BY <1>1, <1>3, FurtherOf, PreferredOf DEF ResultOK, InfoOK
  <2>2. CASE d.info.reassembler = NoReassembler
    <3>1. m.tls = n.info.tls /\ m.reassembler = n.info.reassembler
      BY <1>3, <2>1, <2>2, PreferredOf DEF ResultOK, InfoOK
    <3> QED
      BY <1>1, <2>1, <3>1 DEF ResultOK, InfoOK, Honest
  <2>3. CASE d.info.reassembler # NoReassembler
    <3>1. /\ m.reassembler = d.info.reassembler
          /\ d.info.tls \in Unmarked => m.tls = d.info.tls
      BY <1>3, <2>1, <2>3, PreferredOf
    <3> QED
      BY <2>1, <2>3, <3>1 DEF ResultOK, InfoOK, Honest, Unmarked
  <2> QED
    BY <2>2, <2>3
<1>5. d.closed \/ n.closed => Leaving(m)
  BY <1>1, <1>3, FurtherOf DEF ResultOK, InfoOK, Leaving
<1>6. m.close # NoClose => d.closed
  BY <1>3 DEF ResultOK
<1> QED
  BY <1>1, <1>2, <1>4, <1>5, <1>6 DEF ResultOK

\* So every datagram, of however many packets, gives sound information.
LEMMA DatagramOK ==
  \A d \in DatagramResults : ResultOK(d)
<1> DEFINE T == {n \in 1..MaxCoalesced : \E r \in Coalesced[n] : ~ResultOK(r)}
<1>1. T = {}
  <2> SUFFICES ASSUME T # {} PROVE FALSE
    OBVIOUS
  <2>0. T \subseteq Nat
    BY QuicAssumption
  <2>1. PICK n \in T : \A k \in T : n <= k
    <3> HIDE DEF T
    <3> QED
      BY <2>0, LeastElement
  <2>2. n \in 1..MaxCoalesced
    OBVIOUS
  <2>3. PICK r \in Coalesced[n] : ~ResultOK(r)
    OBVIOUS
  <2>4. n # 1
    <3>1. n = 1 => Coalesced[n] = PacketResults
      BY <2>2, CoalescedDefined
    <3> QED
      BY <2>3, <3>1, PacketResultOK
  <2>5. n - 1 \in 1..MaxCoalesced /\ ~(n <= n - 1)
    BY <2>2, <2>4, QuicAssumption
  <2>6. n - 1 \notin T
    <3> HIDE DEF T
    <3> QED
      BY <2>1, <2>5
  <2>7. \A d \in Coalesced[n - 1] : ResultOK(d)
    BY <2>5, <2>6
  <2>8. r \in WithNextPacket(Coalesced[n - 1])
    BY <2>2, <2>3, <2>4, CoalescedDefined
  <2>9. ResultOK(r)
    <3>1. \/ r \in Coalesced[n - 1]
          \/ \E d \in Coalesced[n - 1], p \in PacketResults : r = MergedResult(d, p)
      BY <2>8 DEF WithNextPacket
    <3> QED
      BY <2>7, <3>1, MergePacketOK
  <2> QED
    BY <2>3, <2>9
<1>2. MaxCoalesced \in 1..MaxCoalesced
  BY QuicAssumption
<1>3. ASSUME NEW r \in Coalesced[MaxCoalesced] PROVE ResultOK([info |-> r.info, closed |-> r.closed])
  BY <1>1, <1>2 DEF ResultOK
<1> QED
  BY <1>3 DEF DatagramResults

\* The merged fragments are looked at again unless a name without a mark is known.
LEMMA MergeReassemblerOK ==
  ASSUME NEW old, NEW new, InfoOK(old), InfoOK(new), Honest(new),
         NEW e \in MergeReassembler(old, new)
  PROVE  /\ e.tls \in Tls
         /\ old.tls \in Unmarked => e.tls = old.tls
         /\ e.reassembler = NoReassembler => e.tls = "none" /\ new.tls = "none"
         /\ e.reassembler # NoReassembler =>
              /\ BufferOK(e.reassembler.buffer)
              /\ e.reassembler.cached \in Tls
              /\ e.reassembler.cached \in Unmarked
                   => e.tls \in Unmarked \/ (e.tls = "none" /\ new.tls \in Unmarked)
              /\ HasHello(e.reassembler) /\ old.tls \notin Unmarked
                   => e.tls = "complete" \/ (e.tls = "none" /\ new.tls = "complete")
<1>1. CASE new.reassembler = NoReassembler
  <2>1. e = [reassembler |-> old.reassembler, tls |-> old.tls]
    BY <1>1 DEF MergeReassembler
  <2> QED
    BY <1>1, <2>1 DEF InfoOK
<1>2. CASE new.reassembler # NoReassembler /\ old.reassembler = NoReassembler
  <2>1. e = [reassembler |-> new.reassembler, tls |-> old.tls]
    BY <1>2 DEF MergeReassembler
  <2> QED
    BY <1>2, <2>1 DEF InfoOK, Honest, Unmarked
<1>3. CASE new.reassembler # NoReassembler /\ old.reassembler # NoReassembler
  <2> DEFINE r == WithFragments(old.reassembler, new.reassembler)
  <2>1. PICK x \in Reextracted(r, old.tls) :
          e = [x EXCEPT !.tls = Preferred(@, new.reassembler.cached)]
    BY <1>3 DEF MergeReassembler
  <2>2. r.cached \in Tls /\ (r.cached \in Unmarked => old.tls \in Unmarked)
    BY <1>3 DEF InfoOK, WithFragments, WithAll
  <2>3. BufferOK(r.buffer)
    BY <1>3, FragmentsOK DEF InfoOK
  <2>a. r = [buffer |-> r.buffer, cached |-> r.cached]
    BY DEF WithFragments, WithAll
  <2> HIDE DEF r
  <2>4. /\ x.tls \in Tls /\ x.reassembler.cached \in Tls
        /\ old.tls \in Unmarked => x.tls = old.tls
        /\ x.reassembler.cached \in Unmarked => x.tls \in Unmarked
        /\ HasHello(x.reassembler) /\ old.tls \notin Unmarked => x.tls = "complete"
        /\ BufferOK(x.reassembler.buffer) /\ x.reassembler # NoReassembler
        /\ x = [reassembler |-> x.reassembler, tls |-> x.tls]
    <3>1. CASE old.tls \in Unmarked
      <4>1. x = [reassembler |-> r, tls |-> old.tls]
        BY <3>1 DEF Reextracted, Retry
      <4>2. r # NoReassembler
        BY <2>2, <2>3, <2>a, NoneIsNoReassembler
      <4> QED
        BY <2>2, <2>3, <3>1, <4>1, <4>2 DEF InfoOK
    <3>2. CASE old.tls \notin Unmarked
      <4>1. PICK y \in Extracted(r) : x = [y EXCEPT !.tls = IF @ = "none" THEN old.tls ELSE @]
        BY <3>2 DEF Reextracted, Retry
      <4>2. /\ y.tls \in Tls /\ y.reassembler.cached \in Tls /\ y.reassembler.buffer = r.buffer
            /\ y.reassembler.cached \in Unmarked => y.tls \in Unmarked
            /\ HasHello(r) => y.tls = "complete"
            /\ y.reassembler # NoReassembler
        BY <2>2, <2>3, <3>2, ExtractedOf
      <4>3. \E a, b : y = [reassembler |-> a, tls |-> b]
        BY <2>2, ExtractedOf
      <4>4. /\ x.reassembler = y.reassembler /\ x.tls = IF y.tls = "none" THEN old.tls ELSE y.tls
            /\ x = [reassembler |-> x.reassembler, tls |-> x.tls]
        BY <4>1, <4>3
      <4>5. HasHello(x.reassembler) => HasHello(r)
        BY <4>2, <4>4 DEF HasHello
      <4>6. x.tls \in Tls /\ (y.tls \in Unmarked => x.tls = y.tls)
        BY <4>2, <4>4 DEF InfoOK, Unmarked
      <4>7. HasHello(x.reassembler) => x.tls = "complete"
        BY <4>2, <4>4, <4>5
      <4>8. BufferOK(x.reassembler.buffer)
        BY <2>3, <4>2, <4>4
      <4> QED
        BY <3>2, <4>2, <4>4, <4>6, <4>7, <4>8
    <3> QED
      BY <3>1, <3>2
  <2>5. e.reassembler = x.reassembler /\ e.tls = Preferred(x.tls, new.reassembler.cached)
    <3>1. PICK a, b : x = [reassembler |-> a, tls |-> b]
      BY <2>4
    <3> QED
      BY <2>1, <3>1
  <2>6. new.reassembler.cached \in Tls
    BY <1>3 DEF InfoOK
  <2>7. e.tls \in Tls /\ (x.tls \in Unmarked => e.tls = x.tls)
    BY <2>4, <2>5, <2>6, PreferredOf
  <2>8. "complete" \in Unmarked
    BY DEF Unmarked
  <2> QED
    BY <2>4, <2>5, <2>7, <2>8
<1> QED
  BY <1>1, <1>2, <1>3

\* Merging a datagram into the connection.
LEMMA MergeQuicOK ==
  ASSUME NEW old, InfoOK(old), NEW d, ResultOK(d), NEW m \in MergeQuicInfo(old, d.info)
  PROVE  /\ InfoOK(m)
         /\ Leaving(old) \/ d.closed => Leaving(m)
         /\ old.tls \in Unmarked => m.tls = old.tls
         /\ m.reassembler # NoReassembler /\ HasHello(m.reassembler) /\ old.tls \notin Unmarked
              => m.tls = "complete"
<1> DEFINE new == d.info
<1>1. InfoOK(new) /\ Honest(new)
  BY DEF ResultOK
<1>2. PICK e \in MergeReassembler(old, new) :
        m = [state |-> IF new.close = NoClose THEN Further(old.state, new.state)
                       ELSE CloseState(new.close),
             close |-> IF new.close = NoClose THEN old.close ELSE new.close,
             tls |-> Preferred(e.tls, new.tls),
             reassembler |-> e.reassembler]
  BY DEF MergeQuicInfo
<1>3. /\ new.state \in States /\ new.close \in Closes \union {NoClose} /\ new.tls \in Tls
      /\ d.closed => Leaving(new)
  BY <1>1 DEF ResultOK, InfoOK
<1> HIDE DEF new
<1>4. /\ e.tls \in Tls
      /\ old.tls \in Unmarked => e.tls = old.tls
      /\ e.reassembler = NoReassembler => e.tls = "none" /\ new.tls = "none"
      /\ e.reassembler # NoReassembler =>
           /\ BufferOK(e.reassembler.buffer)
           /\ e.reassembler.cached \in Tls
           /\ e.reassembler.cached \in Unmarked
                => e.tls \in Unmarked \/ (e.tls = "none" /\ new.tls \in Unmarked)
           /\ HasHello(e.reassembler) /\ old.tls \notin Unmarked
                => e.tls = "complete" \/ (e.tls = "none" /\ new.tls = "complete")
  BY <1>1, MergeReassemblerOK
<1>5. CloseState(new.close) \in {"Draining", "Closed"}
  BY DEF CloseState
<1>6. m.state \in States /\ (Leaving(old) \/ d.closed => Leaving(m))
  <2>1. CASE new.close = NoClose
    <3>1. m.state = Further(old.state, new.state)
      BY <1>2, <2>1
    <3> QED
      BY <1>3, <3>1, FurtherOf DEF InfoOK, Leaving
  <2>2. CASE new.close # NoClose
    <3>1. m.state = CloseState(new.close)
      BY <1>2, <2>2
    <3> QED
      BY <1>5, <3>1 DEF Leaving, States
  <2> QED
    BY <2>1, <2>2
<1>7. m.close \in Closes \union {NoClose}
  BY <1>2, <1>3 DEF InfoOK
<1>8. m.tls = Preferred(e.tls, new.tls) /\ m.reassembler = e.reassembler
  BY <1>2
<1>9. /\ m.tls \in Tls
      /\ e.tls \in Unmarked => m.tls = e.tls
      /\ e.tls = "none" => m.tls = new.tls
  BY <1>3, <1>4, <1>8, PreferredOf
<1>10. "complete" \in Unmarked
  BY DEF Unmarked
<1>11. old.tls \in Unmarked => m.tls = old.tls
  BY <1>4, <1>9
<1>12. m.reassembler # NoReassembler /\ HasHello(m.reassembler) /\ old.tls \notin Unmarked
         => m.tls = "complete"
  BY <1>4, <1>8, <1>9, <1>10
<1>13. m.reassembler # NoReassembler =>
         /\ BufferOK(m.reassembler.buffer) /\ m.reassembler.cached \in Tls
         /\ m.reassembler.cached \in Unmarked \/ HasHello(m.reassembler) => m.tls \in Unmarked
  BY <1>4, <1>8, <1>9, <1>10, <1>11, <1>12
<1>14. m.reassembler = NoReassembler => m.tls = "none"
  BY <1>4, <1>8, <1>9
<1> QED
  BY <1>6, <1>7, <1>9, <1>11, <1>12, <1>13, <1>14 DEF InfoOK

LEMMA QuicStep ==
  ASSUME QuicInv, [Next]_mergeVars
  PROVE  /\ QuicInv'
         /\ quic' # quic /\ HelloRead' /\ ~Settled => quic'.tls = "complete"
         /\ Settled /\ quic' # NoInfo => quic'.tls = quic.tls
<1>1. CASE UNCHANGED quicVars
  BY <1>1 DEF QuicInv, quicVars, Settled
<1>2. CASE Expire
  BY <1>2 DEF Expire, QuicInv, HelloRead, Reassembling
<1>3. CASE Datagram
  <2>1. PICK d \in DatagramResults :
          /\ quic' \in IF quic = NoInfo THEN {d.info} ELSE MergeQuicInfo(quic, d.info)
          /\ closeSeen' = (d.closed \/ (quic # NoInfo /\ closeSeen))
    BY <1>3 DEF Datagram
  <2>2. ResultOK(d)
    BY DatagramOK
  <2>3. CASE quic = NoInfo
    <3>1. quic' = d.info
      BY <2>1, <2>3
    <3> QED
      BY <2>1, <2>2, <2>3, <3>1 DEF ResultOK, QuicInv, Honest, HelloRead, Reassembling, Settled
  <2>4. CASE quic # NoInfo
    <3>1. quic' \in MergeQuicInfo(quic, d.info)
      BY <2>1, <2>4
    <3>2. /\ InfoOK(quic')
          /\ Leaving(quic) \/ d.closed => Leaving(quic')
          /\ quic.tls \in Unmarked => quic'.tls = quic.tls
          /\ /\ quic'.reassembler # NoReassembler /\ HasHello(quic'.reassembler)
             /\ quic.tls \notin Unmarked
             => quic'.tls = "complete"
      BY <2>2, <2>4, <3>1, MergeQuicOK DEF QuicInv
    <3>3. HelloRead' => quic'.reassembler # NoReassembler /\ HasHello(quic'.reassembler)
      BY DEF HelloRead, Reassembling, HasHello
    <3> QED
      BY <2>1, <2>4, <3>2, <3>3 DEF QuicInv, Settled
  <2> QED
    BY <2>3, <2>4
<1> QED
  BY <1>1, <1>2, <1>3 DEF Next, MergeTcp, MergeUdp, QuicNext, mergeVars

LEMMA QuicAlways == Spec => []QuicInv
<1>1. Init => QuicInv
  BY DEF Init, QuicInit, QuicInv
<1> QED
  BY <1>1, QuicStep, PTL DEF Spec

LEMMA LeavingTimeout ==
  ASSUME NEW info, InfoOK(info), Leaving(info)
  PROVE  QuicTimeout(info) <= 10
<1>1. CASE info.close = NoClose
  BY <1>1 DEF Leaving, QuicTimeout, NoClose
<1>2. CASE info.close \in Closes
  <2>1. info.close.frame_type \in {"transport", "application"} /\ info.close # NoClose
    BY <1>2 DEF Closes, NoClose
  <2> QED
    BY <2>1 DEF QuicTimeout
<1> QED
  BY <1>1, <1>2 DEF InfoOK

\* However many packets a datagram has, whichever of them carried the close and whatever
\* else arrives: a closed connection has a timeout of at most ten seconds.
THEOREM ClosedLeaves == Spec => []ClosedLeavesSoon
<1>1. QuicInv => ClosedLeavesSoon
  BY LeavingTimeout DEF QuicInv, ClosedLeavesSoon
<1> QED
  BY <1>1, QuicAlways, PTL

\* For any stream, any name in it and any cutting into packets and datagrams: the name is
\* known once the stream is contiguous up to it, unless one without a mark was shown before;
\* and a name without a mark, right or wrong, neither changes nor is lost.
THEOREM NameIsSettled == Spec => NameSettles
<1>1. QuicInv /\ [Next]_mergeVars =>
        [/\ HelloRead' /\ ~Settled => quic'.tls = "complete"
         /\ Settled /\ quic' # NoInfo => quic'.tls = quic.tls]_quic
  BY QuicStep
<1> QED
  BY <1>1, QuicAlways, PTL DEF Spec, NameSettles

\* For any stream and any limit of the buffer: what has been put together is the beginning
\* of the stream up to the first byte that no fragment has brought, and the buffer counts
\* exactly the bytes it holds.
THEOREM PrefixIsContiguous == Spec => []ContiguousIsPrefix
<1>1. QuicInv => ContiguousIsPrefix
  <2> SUFFICES ASSUME QuicInv, Reassembling PROVE ContiguousIsPrefix
    BY DEF ContiguousIsPrefix
  <2> DEFINE b == quic.reassembler.buffer
  <2>1. BufferOK(b)
    BY DEF QuicInv, InfoOK, Reassembling
  <2>2. Covered(b) = CoveredBy(b.fragments)
    BY DEF Covered, CoveredBy
  <2>3. ContiguousData(b) = [i \in 1..b.contiguous_offset |-> i - 1]
    BY <2>1, ContiguousDataOf
  <2> QED
    BY <2>1, <2>2, <2>3 DEF ContiguousIsPrefix, BufferOK
<1> QED
  BY <1>1, QuicAlways, PTL

-----------------------------------------------------------------------------
(* TCP analytics. *)

\* Division with remainder.
LEMMA Remainder ==
  ASSUME NEW a \in Nat, NEW m \in Nat \ {0}
  PROVE  a \div m \in Nat /\ a % m \in 0..(m - 1) /\ a = m * (a \div m) + (a % m)
OBVIOUS

LEMMA SmallRemainder ==
  ASSUME NEW a \in Nat, NEW m \in Nat \ {0}, a < m
  PROVE  a % m = a
OBVIOUS

LEMMA ProductOfSum ==
  ASSUME NEW p \in Nat, NEW q \in Nat, NEW m \in Nat
  PROVE  m * (q + p) = m * q + m * p
OBVIOUS

LEMMA ProductIsNat ==
  ASSUME NEW p \in Nat, NEW m \in Nat
  PROVE  m * p \in Nat
OBVIOUS

LEMMA ProductGrows ==
  ASSUME NEW p \in Nat, NEW q \in Nat, NEW m \in Nat, q < p
  PROVE  m * q + m <= m * p
<1> DEFINE k == p - q - 1
           x == m * q
           y == m * p
           z == m * k
           w == m * (q + 1)
<1>1. k \in Nat /\ p = (q + 1) + k
  OBVIOUS
<1> HIDE DEF k
<1>2. y = w + z
  BY <1>1, ProductOfSum
<1>3. w = x + m
  <2>1. m * (q + 1) = m * q + m * 1
    BY ProductOfSum
  <2> QED
    BY <2>1
<1>4. x \in Nat /\ y \in Nat /\ z \in Nat /\ w \in Nat
  BY <1>1, ProductIsNat
<1> HIDE DEF x, y, z, w
<1>5. x + m <= y
  BY <1>2, <1>3, <1>4
<1> QED
  BY <1>5 DEF x, y

LEMMA UniqueRemainder ==
  ASSUME NEW m \in Nat \ {0}, NEW q \in Nat, NEW r \in 0..(m - 1)
  PROVE  (m * q + r) % m = r
<1> DEFINE a == m * q + r
           p == a \div m
<1>0. m * q \in Nat
  BY ProductIsNat
<1>a. a \in Nat
  BY <1>0
<1> HIDE DEF a
<1>1. a \in Nat /\ p \in Nat /\ a % m \in 0..(m - 1) /\ a = m * p + (a % m)
  BY <1>a, Remainder
<1> HIDE DEF p
<1>2. m * q + r = m * p + (a % m)
  BY <1>1 DEF a
<1>3. ~(q < p)
  <2> SUFFICES ASSUME q < p PROVE FALSE
    OBVIOUS
  <2>1. m * q + m <= m * p
    BY <1>1, ProductGrows
  <2> QED
    BY <1>1, <1>2, <2>1
<1>4. ~(p < q)
  <2> SUFFICES ASSUME p < q PROVE FALSE
    OBVIOUS
  <2>1. m * p + m <= m * q
    BY <1>1, ProductGrows
  <2> QED
    BY <1>1, <1>2, <2>1
<1>5. p = q
  BY <1>1, <1>3, <1>4
<1> QED
  BY <1>0, <1>1, <1>2, <1>5 DEF a

LEMMA SumRemainder ==
  ASSUME NEW a \in Nat, NEW b \in Nat, NEW m \in Nat \ {0}
  PROVE  ((a % m) + b) % m = (a + b) % m
<1> DEFINE r == a % m
           c == r + b
           p == a \div m
           q == c \div m
           s == c % m
<1>1. r \in Nat /\ p \in Nat /\ a = m * p + r
  BY Remainder
<1>2. c \in Nat
  BY <1>1
<1>3. q \in Nat /\ s \in 0..(m - 1) /\ c = m * q + s
  BY <1>2, Remainder
<1> HIDE DEF p, q, s, r
<1>4. a + b = m * (p + q) + s
  <2>1. m * (p + q) = m * p + m * q
    BY <1>1, <1>3
  <2> QED
    BY <1>1, <1>3, <2>1
<1>5. p + q \in Nat
  BY <1>1, <1>3
<1>6. (a + b) % m = s
  BY <1>3, <1>4, <1>5, UniqueRemainder
<1> QED
  BY <1>6 DEF s, r
-----------------------------------------------------------------------------
(* The inductive invariant of the counters. *)

(* The number expected next and the count of a direction; both zero before *)
(* the connection is tracked.                                              *)
Awaited(a, d) == IF d = "out" THEN a.last_seq_outbound ELSE a.last_seq_inbound
Tally(a, d) == IF d = "out" THEN a.retransmit_count ELSE a.out_of_order_count
Expected(d) == IF analytics = NoAnalytics THEN 0 ELSE Awaited(analytics, d)
CountOf(d) == IF analytics = NoAnalytics THEN 0 ELSE Tally(analytics, d)

\* The held segment is new data of direction d.
Pending(d) == held # NoSegment /\ held.dir = d /\ ~held.repeat /\ held.len > 0

Traffic ==
  [start : [Dirs -> Nat], repeats : [Dirs -> Nat], base : [Dirs -> {"none", "repeat", "ahead", "new"}],
   acked : Nat, gap : BOOLEAN, missed : BOOLEAN, overtaken : BOOLEAN]

TcpTyped ==
  /\ analytics \in Analytics \union {NoAnalytics} /\ traffic \in Traffic
  /\ top \in [Dirs -> Nat] /\ una \in Nat /\ held \in Segment \union {NoSegment}

\* What is held has been on the wire, and has data unless it only acknowledges.
HeldOnWire ==
  held # NoSegment =>
    held.pos + held.len <= top[held.dir] /\ (held.len = 0 => held.dir = "in" /\ ~held.repeat)

\* Nothing is counted before the first data is analyzed.
NothingYet ==
  /\ analytics = NoAnalytics => traffic.base = [d \in Dirs |-> "none"]
  /\ \A d \in Dirs : traffic.base[d] = "none" => CountOf(d) = 0 /\ traffic.repeats[d] = 0

\* The expected number is a position that the stream has reached.
Reached == \A d \in Dirs : Expected(d) <= top[d] /\ (Expected(d) = 0 <=> traffic.base[d] = "none")

\* Every retransmission counted was one, and one more is paid for where a repetition has
\* pushed the expected number beyond new data that is still held.
OutboundPaid ==
  traffic.base["out"] # "ahead" =>
    CountOf("out") + (IF Pending("out") /\ held.pos < Expected("out") THEN 1 ELSE 0)
      <= traffic.repeats["out"]

InboundPaid ==
  ~traffic.overtaken =>
    /\ CountOf("in") <= traffic.repeats["in"]
    /\ Pending("in") => Expected("in") <= held.pos

\* With nothing missed or overtaken the expected number is the end of the stream.
Exact ==
  ~traffic.overtaken /\ ~traffic.missed =>
    \A d \in Dirs :
      /\ Pending(d) => held.pos + held.len = top[d]
      /\ traffic.base[d] = "new" =>
           /\ CountOf(d) = traffic.repeats[d]
           /\ IF Pending(d) THEN Expected(d) <= held.pos /\ (d = "out" => Expected(d) = held.pos)
              ELSE Expected(d) = top[d]

\* An orderly stream is followed across the wrap.
Followed ==
  \A d \in Dirs :
    /\ CountOf(d) = 0
    /\ Pending(d) => held.pos + held.len = top[d]
    /\ Expected(d) = IF traffic.base[d] = "none" THEN 0
                     ELSE (IF Pending(d) THEN held.pos ELSE top[d]) % Modulus

\* Every fast retransmit has cost four acknowledgements.
AcksOf(a, acked) ==
  IF a.last_ack_received = 0
  THEN a.duplicate_ack_count = 0 /\ 4 * a.fast_retransmit_count <= acked
  ELSE 4 * a.fast_retransmit_count
         + (IF a.duplicate_ack_count < 3 THEN a.duplicate_ack_count + 1 ELSE 0) <= acked
AcksPaid == analytics # NoAnalytics => AcksOf(analytics, traffic.acked)

TcpInv ==
  /\ TcpTyped /\ HeldOnWire /\ NothingYet /\ AcksPaid
  /\ ~Wrapped => Reached /\ OutboundPaid /\ InboundPaid /\ Exact
  /\ Orderly => Followed

-----------------------------------------------------------------------------
(* What the analysis of a segment does. *)

Late(a, s) == Awaited(a, s.dir) # 0 /\ s.pos % Modulus < Awaited(a, s.dir)
Ahead(a, s) == s.dir = "out" /\ Awaited(a, s.dir) # 0 /\ s.pos % Modulus > Awaited(a, s.dir)

LEMMA EndTyped ==
  ASSUME NEW s \in Segment
  PROVE  /\ s.pos \in Nat /\ s.len \in Nat /\ s.dir \in Dirs /\ s.repeat \in BOOLEAN
         /\ s.ack # NoAck => s.ack \in Nat
         /\ Modulus \in Nat \ {0}
         /\ s.pos % Modulus \in Nat
         /\ EndOf(s.pos % Modulus, s.len) \in Nat
<1>1. Modulus \in Nat \ {0} /\ MaxLen \in Nat
  BY TcpAssumption
<1>2. s.pos \in Nat /\ s.len \in Nat /\ s.dir \in Dirs /\ s.repeat \in BOOLEAN
  BY <1>1 DEF Segment
<1>3. s.ack # NoAck => s.ack \in Nat
  <2>1. s.ack \in 0..(Modulus - 1) \union {NoAck}
    BY DEF Segment
  <2> QED
    BY <1>1, <2>1
<1>4. s.pos % Modulus \in Nat
  BY <1>1, <1>2, Remainder
<1>5. (s.pos % Modulus) + s.len \in Nat
  BY <1>2, <1>4
<1>6. EndOf(s.pos % Modulus, s.len) \in Nat
  <2> DEFINE c == (s.pos % Modulus) + s.len
  <2>1. EndOf(s.pos % Modulus, s.len) = c % Modulus
    BY DEF EndOf
  <2> HIDE DEF c
  <2>2. c \in Nat
    BY <1>5 DEF c
  <2>3. c % Modulus \in 0..(Modulus - 1)
    BY <1>1, <2>2, Remainder
  <2> QED
    BY <1>1, <2>1, <2>3
<1> QED
  BY <1>1, <1>2, <1>3, <1>4, <1>6

LEMMA OutboundOf ==
  ASSUME NEW a \in Analytics, NEW seq \in Nat, NEW len, EndOf(seq, len) \in Nat
  PROVE  LET b == Outbound(a, seq, len)
             late == a.last_seq_outbound # 0 /\ seq < a.last_seq_outbound
             ahead == a.last_seq_outbound # 0 /\ seq > a.last_seq_outbound
         IN /\ b \in Analytics
            /\ b.retransmit_count = a.retransmit_count + (IF late THEN 1 ELSE 0)
            /\ b.last_seq_outbound = IF late \/ ahead THEN a.last_seq_outbound ELSE EndOf(seq, len)
            /\ b.last_seq_inbound = a.last_seq_inbound /\ b.out_of_order_count = a.out_of_order_count
<1> DEFINE e == EndOf(seq, len)
<1> HIDE DEF e
<1>1. e \in Nat
  BY DEF e
<1>2. Outbound(a, seq, len) =
        IF a.last_seq_outbound # 0 /\ seq < a.last_seq_outbound
        THEN [a EXCEPT !.retransmit_count = @ + 1]
        ELSE IF a.last_seq_outbound # 0 /\ seq > a.last_seq_outbound
        THEN a
        ELSE [a EXCEPT !.last_seq_outbound = e]
  BY DEF Outbound, e
<1> QED
  BY <1>1, <1>2 DEF Analytics, e

LEMMA InboundOf ==
  ASSUME NEW a \in Analytics, NEW seq \in Nat, NEW len, EndOf(seq, len) \in Nat
  PROVE  LET b == Inbound(a, seq, len)
             late == a.last_seq_inbound # 0 /\ seq < a.last_seq_inbound
         IN /\ b \in Analytics
            /\ b.out_of_order_count = a.out_of_order_count + (IF late THEN 1 ELSE 0)
            /\ b.last_seq_inbound = IF late THEN a.last_seq_inbound ELSE EndOf(seq, len)
            /\ b.last_seq_outbound = a.last_seq_outbound /\ b.retransmit_count = a.retransmit_count
            /\ b.last_ack_received = a.last_ack_received
            /\ b.duplicate_ack_count = a.duplicate_ack_count
            /\ b.fast_retransmit_count = a.fast_retransmit_count
<1> DEFINE e == EndOf(seq, len)
<1> HIDE DEF e
<1>1. e \in Nat
  BY DEF e
<1>2. Inbound(a, seq, len) =
        IF a.last_seq_inbound # 0 /\ seq < a.last_seq_inbound
        THEN [a EXCEPT !.out_of_order_count = @ + 1]
        ELSE [a EXCEPT !.last_seq_inbound = e]
  BY DEF Inbound, e
<1> QED
  BY <1>1, <1>2 DEF Analytics, e

LEMMA AcknowledgedOf ==
  ASSUME NEW a \in Analytics, NEW ack \in Nat, NEW acked \in Nat, AcksOf(a, acked)
  PROVE  LET b == Acknowledged(a, ack)
         IN /\ b \in Analytics
            /\ \A d \in Dirs : Awaited(b, d) = Awaited(a, d) /\ Tally(b, d) = Tally(a, d)
            /\ AcksOf(b, acked + 1)
<1> DEFINE b == Acknowledged(a, ack)
<1>0. a.last_ack_received \in Nat /\ a.duplicate_ack_count \in Nat /\ a.fast_retransmit_count \in Nat
  BY DEF Analytics
<1>1. CASE a.last_ack_received = 0
  <2>1. b = [a EXCEPT !.last_ack_received = ack]
    BY <1>1 DEF Acknowledged
  <2> HIDE DEF b
  <2> QED
    BY <1>1, <2>1 DEF Analytics, Awaited, Tally, Dirs, AcksOf, b
<1>2. CASE a.last_ack_received # 0 /\ ack = a.last_ack_received
  <2> DEFINE n == a.duplicate_ack_count + 1
             f == IF n = 3 THEN a.fast_retransmit_count + 1 ELSE a.fast_retransmit_count
  <2>1. b = [a EXCEPT !.duplicate_ack_count = n, !.fast_retransmit_count = f]
    BY <1>2 DEF Acknowledged, Analytics
  <2>2. n \in Nat /\ f \in Nat
    BY <1>0
  <2> HIDE DEF b, n, f
  <2>3. /\ b \in Analytics
        /\ \A d \in Dirs : Awaited(b, d) = Awaited(a, d) /\ Tally(b, d) = Tally(a, d)
        /\ b.last_ack_received = a.last_ack_received
        /\ b.duplicate_ack_count = n /\ b.fast_retransmit_count = f
    BY <2>1, <2>2 DEF Analytics, Awaited, Tally, Dirs
  <2>4. AcksOf(b, acked + 1)
    <3>1. 4 * a.fast_retransmit_count
            + (IF a.duplicate_ack_count < 3 THEN a.duplicate_ack_count + 1 ELSE 0) <= acked
      BY <1>2 DEF AcksOf
    <3>2. 4 * f + (IF n < 3 THEN n + 1 ELSE 0) <= acked + 1
      BY <1>0, <3>1 DEF n, f
    <3> QED
      BY <1>2, <2>3, <3>2 DEF AcksOf
  <2> QED
    BY <2>3, <2>4 DEF b
<1>3. CASE a.last_ack_received # 0 /\ ack # a.last_ack_received
  <2>1. b = [a EXCEPT !.last_ack_received = ack, !.duplicate_ack_count = 0]
    BY <1>3 DEF Acknowledged
  <2> HIDE DEF b
  <2>2. /\ b \in Analytics
        /\ \A d \in Dirs : Awaited(b, d) = Awaited(a, d) /\ Tally(b, d) = Tally(a, d)
        /\ b.last_ack_received = ack /\ b.duplicate_ack_count = 0
        /\ b.fast_retransmit_count = a.fast_retransmit_count
    BY <2>1 DEF Analytics, Awaited, Tally, Dirs
  <2>3. AcksOf(b, acked + 1)
    <3>1. 4 * a.fast_retransmit_count <= acked
      BY <1>0, <1>3 DEF AcksOf
    <3>2. 4 * a.fast_retransmit_count <= acked + 1
          /\ 4 * a.fast_retransmit_count + (IF 0 < 3 THEN 0 + 1 ELSE 0) <= acked + 1
      BY <1>0, <3>1
    <3> QED
      BY <2>2, <3>2 DEF AcksOf
  <2> QED
    BY <2>2, <2>3 DEF b
<1> QED
  BY <1>1, <1>2, <1>3

LEMMA Analyzed ==
  ASSUME NEW a \in Analytics, NEW s \in Segment, NEW acked \in Nat, AcksOf(a, acked)
  PROVE  LET b == AnalyzeTcpSegment(a, s)
         IN /\ b \in Analytics
            /\ \A d \in Dirs : d # s.dir \/ s.len = 0 =>
                 Awaited(b, d) = Awaited(a, d) /\ Tally(b, d) = Tally(a, d)
            /\ s.len > 0 =>
                 /\ Tally(b, s.dir) = Tally(a, s.dir) + (IF Late(a, s) THEN 1 ELSE 0)
                 /\ Awaited(b, s.dir) = IF Late(a, s) \/ Ahead(a, s) THEN Awaited(a, s.dir)
                                        ELSE EndOf(s.pos % Modulus, s.len)
            /\ AcksOf(b, IF s.ack # NoAck THEN acked + 1 ELSE acked)
<1> DEFINE b == AnalyzeTcpSegment(a, s)
           seq == s.pos % Modulus
<1>1. /\ s.pos \in Nat /\ s.len \in Nat /\ s.dir \in Dirs /\ s.repeat \in BOOLEAN
      /\ s.ack # NoAck => s.ack \in Nat
      /\ seq \in Nat /\ EndOf(seq, s.len) \in Nat
  BY EndTyped
<1>2. b = IF s.dir = "out"
          THEN IF s.len > 0 THEN Outbound(a, seq, s.len) ELSE a
          ELSE LET c == IF s.len > 0 THEN Inbound(a, seq, s.len) ELSE a
               IN IF s.ack # NoAck THEN Acknowledged(c, s.ack) ELSE c
  BY DEF AnalyzeTcpSegment
<1>3. Late(a, s) <=> Awaited(a, s.dir) # 0 /\ seq < Awaited(a, s.dir)
  BY DEF Late
<1>4. Ahead(a, s) <=> s.dir = "out" /\ Awaited(a, s.dir) # 0 /\ seq > Awaited(a, s.dir)
  BY DEF Ahead
<1> HIDE DEF b, seq
<1>5. AcksOf(a, acked + 1)
  BY DEF AcksOf, Analytics
<1>6. CASE s.dir = "out"
  <2>1. CASE s.len > 0
    <3>1. b = Outbound(a, seq, s.len)
      BY <1>2, <1>6, <2>1
    <3>2. /\ b \in Analytics
          /\ b.retransmit_count = a.retransmit_count + (IF Late(a, s) THEN 1 ELSE 0)
          /\ b.last_seq_outbound =
               IF Late(a, s) \/ Ahead(a, s) THEN a.last_seq_outbound ELSE EndOf(seq, s.len)
          /\ b.last_seq_inbound = a.last_seq_inbound /\ b.out_of_order_count = a.out_of_order_count
      BY <1>1, <1>3, <1>4, <1>6, <3>1, OutboundOf DEF Awaited
    <3>3. /\ b.last_ack_received = a.last_ack_received
          /\ b.duplicate_ack_count = a.duplicate_ack_count
          /\ b.fast_retransmit_count = a.fast_retransmit_count
      BY <3>1 DEF Outbound, Analytics
    <3>4. AcksOf(b, acked) /\ AcksOf(b, acked + 1)
      BY <1>5, <3>3 DEF AcksOf
    <3> QED
      BY <1>1, <1>6, <2>1, <3>2, <3>4 DEF Awaited, Tally, Dirs, b, seq
  <2>2. CASE s.len = 0
    <3>1. b = a
      BY <1>2, <1>6, <2>2
    <3> QED
      BY <1>5, <2>2, <3>1 DEF b
  <2> QED
    BY <1>1, <2>1, <2>2
<1>7. CASE s.dir = "in"
  <2> DEFINE c == IF s.len > 0 THEN Inbound(a, seq, s.len) ELSE a
  <2>1. b = IF s.ack # NoAck THEN Acknowledged(c, s.ack) ELSE c
    BY <1>2, <1>7
  <2>2. /\ c \in Analytics
        /\ s.len > 0 =>
             /\ c.out_of_order_count = a.out_of_order_count + (IF Late(a, s) THEN 1 ELSE 0)
             /\ c.last_seq_inbound = IF Late(a, s) THEN a.last_seq_inbound ELSE EndOf(seq, s.len)
             /\ c.last_seq_outbound = a.last_seq_outbound /\ c.retransmit_count = a.retransmit_count
        /\ s.len = 0 => c = a
        /\ c.last_ack_received = a.last_ack_received
        /\ c.duplicate_ack_count = a.duplicate_ack_count
        /\ c.fast_retransmit_count = a.fast_retransmit_count
    BY <1>1, <1>3, <1>7, InboundOf DEF Awaited
  <2> HIDE DEF c
  <2>3. AcksOf(c, acked)
    BY <2>2 DEF AcksOf
  <2>4. /\ b \in Analytics
        /\ \A d \in Dirs : Awaited(b, d) = Awaited(c, d) /\ Tally(b, d) = Tally(c, d)
        /\ AcksOf(b, IF s.ack # NoAck THEN acked + 1 ELSE acked)
    BY <1>1, <2>1, <2>2, <2>3, AcknowledgedOf
  <2>5. \A d \in Dirs : d # s.dir \/ s.len = 0 =>
          Awaited(c, d) = Awaited(a, d) /\ Tally(c, d) = Tally(a, d)
    BY <1>1, <1>7, <2>2 DEF Awaited, Tally, Dirs
  <2>6. s.len > 0 =>
          /\ Tally(c, s.dir) = Tally(a, s.dir) + (IF Late(a, s) THEN 1 ELSE 0)
          /\ Awaited(c, s.dir) = IF Late(a, s) \/ Ahead(a, s) THEN Awaited(a, s.dir)
                                 ELSE EndOf(seq, s.len)
    BY <1>4, <1>7, <2>2 DEF Awaited, Tally
  <2> QED
    BY <1>1, <2>4, <2>5, <2>6 DEF b, seq
<1> QED
  BY <1>1, <1>6, <1>7 DEF Dirs

-----------------------------------------------------------------------------
(* What is on the wire, and what is noted of it. *)

LEMMA ShapeOf ==
  ASSUME top \in [Dirs -> Nat], una \in Nat, traffic.start \in [Dirs -> Nat], NEW s \in SegmentsNow
  PROVE  /\ s \in Segment
         /\ s.repeat <=> s.pos < top[s.dir]
         /\ s.repeat => s.len > 0 /\ s.pos + s.len <= top[s.dir]
         /\ ~s.repeat /\ s.dir = "out" => s.pos = top[s.dir]
         /\ s.len = 0 => s.dir = "in" /\ s.pos = top["in"]
<1>1. Modulus \in Nat \ {0} /\ MaxLen \in Nat \ {0} /\ MaxBack \in Nat
  BY TcpAssumption
<1>2. una % Modulus \in 0..(Modulus - 1)
  BY <1>1, Remainder
<1>3. ASSUME NEW d \in Dirs, NEW pos \in Int, NEW len \in 0..MaxLen
      PROVE  LET n == NewSegment(d, pos, len)
             IN /\ pos \in Nat => n \in Segment
                /\ n.dir = d /\ n.pos = pos /\ n.len = len /\ (n.repeat <=> pos < top[d])
  <2> DEFINE r == pos < top[d]
             a == IF d = "out" THEN NoAck ELSE una % Modulus
             n == NewSegment(d, pos, len)
  <2>1. n = [dir |-> d, pos |-> pos, len |-> len, repeat |-> r, ack |-> a]
    BY Zenon DEF NewSegment
  <2>2. r \in BOOLEAN /\ a \in 0..(Modulus - 1) \union {NoAck}
    BY <1>2
  <2> HIDE DEF r, a, n
  <2>3. n.dir = d /\ n.pos = pos /\ n.len = len
    BY <2>1
  <2>4. n.repeat <=> r
    BY <2>1, Zenon
  <2>5. pos \in Nat => n \in Segment
    BY <2>1, <2>2 DEF Segment
  <2> QED
    BY <2>3, <2>4, <2>5 DEF n, r
<1>4. "out" \in Dirs /\ "in" \in Dirs /\ top["out"] \in Nat /\ top["in"] \in Nat
  BY DEF Dirs
<1>5. CASE s \in Fresh
  <2>1. CASE \E len \in 1..MaxLen : s = NewSegment("out", top["out"], len)
    <3>1. PICK len \in 1..MaxLen : s = NewSegment("out", top["out"], len)
      BY <2>1
    <3>2. len \in 0..MaxLen /\ len > 0
      BY <1>1
    <3> QED
      BY <1>3, <1>4, <3>1, <3>2
  <2>2. CASE \E gap \in 0..1, len \in 1..MaxLen : s = NewSegment("in", top["in"] + gap, len)
    <3>1. PICK gap \in 0..1, len \in 1..MaxLen : s = NewSegment("in", top["in"] + gap, len)
      BY <2>2
    <3>2. len \in 0..MaxLen /\ len > 0 /\ top["in"] + gap \in Nat /\ ~(top["in"] + gap < top["in"])
      BY <1>1, <1>4
    <3> QED
      BY <1>3, <1>4, <3>1, <3>2
  <2> QED
    BY <1>5, <2>1, <2>2 DEF Fresh
<1>6. CASE s \in Again
  <2>1. PICK d \in Dirs, back \in 1..MaxBack, len \in 1..MaxLen :
               s = NewSegment(d, top[d] - back, len)
    BY <1>6 DEF Again
  <2>2. s.pos >= traffic.start[s.dir] /\ s.pos + s.len <= top[s.dir]
    BY <1>6 DEF Again
  <2>3. top[d] \in Nat /\ top[d] - back \in Int /\ top[d] - back < top[d] /\ len \in 0..MaxLen /\ len > 0
    BY <1>1
  <2>4. /\ s.dir = d /\ s.pos = top[d] - back /\ s.len = len
        /\ s.repeat <=> top[d] - back < top[d]
        /\ top[d] - back \in Nat => s \in Segment
    BY <1>3, <2>1, <2>3
  <2>5. top[d] - back \in Nat
    BY <2>2, <2>3, <2>4
  <2> QED
    BY <2>2, <2>3, <2>4, <2>5
<1>7. CASE s \in Bare
  <2>1. PICK a \in {una % Modulus, NoAck} : s = [NewSegment("in", top["in"], 0) EXCEPT !.ack = a]
    BY <1>7 DEF Bare
  <2> DEFINE n == NewSegment("in", top["in"], 0)
  <2>2. n \in Segment /\ n.dir = "in" /\ n.pos = top["in"] /\ n.len = 0 /\ (n.repeat <=> top["in"] < top["in"])
    BY <1>1, <1>3, <1>4
  <2>3. a \in 0..(Modulus - 1) \union {NoAck}
    BY <1>2
  <2> HIDE DEF n
  <2>4. s = [n EXCEPT !.ack = a]
    BY <2>1 DEF n
  <2>5. s \in Segment /\ s.dir = "in" /\ s.pos = top["in"] /\ s.len = 0 /\ (s.repeat <=> n.repeat)
    BY <2>2, <2>3, <2>4 DEF Segment
  <2> QED
    BY <1>4, <2>2, <2>5
<1> QED
  BY <1>5, <1>6, <1>7 DEF SegmentsNow

LEMMA BaseKindOf ==
  ASSUME NEW s
  PROVE  BaseKind(s) \in {"repeat", "ahead", "new"}
         /\ (BaseKind(s) = "repeat" <=> s.repeat)
         /\ (BaseKind(s) = "ahead" <=> ~s.repeat /\ held # NoSegment /\ held.dir = s.dir /\ held.pos < s.pos)
<1>1. CASE s.repeat
  BY <1>1 DEF BaseKind
<1>2. CASE ~s.repeat /\ held # NoSegment /\ held.dir = s.dir /\ held.pos < s.pos
  BY <1>2 DEF BaseKind
<1>3. CASE ~s.repeat /\ ~(held # NoSegment /\ held.dir = s.dir /\ held.pos < s.pos)
  BY <1>3 DEF BaseKind
<1> QED
  BY <1>1, <1>2, <1>3

LEMMA ObservedOf ==
  ASSUME NEW t \in Traffic, NEW s \in Segment
  PROVE  LET u == Observed(t, s)
         IN /\ u \in Traffic
            /\ u.start = t.start /\ u.gap = t.gap /\ u.missed = t.missed /\ u.overtaken = t.overtaken
            /\ \A d \in Dirs : d # s.dir => u.repeats[d] = t.repeats[d]
            /\ u.repeats[s.dir] = t.repeats[s.dir] + (IF s.repeat THEN 1 ELSE 0)
            /\ \A d \in Dirs : d # s.dir \/ s.len = 0 \/ t.base[d] # "none" => u.base[d] = t.base[d]
            /\ s.len > 0 /\ t.base[s.dir] = "none" => u.base[s.dir] = BaseKind(s)
            /\ u.acked = IF s.ack # NoAck THEN t.acked + 1 ELSE t.acked
<1> DEFINE u == Observed(t, s)
           k == BaseKind(s)
           d0 == s.dir
           r == IF s.repeat THEN t.repeats[d0] + 1 ELSE t.repeats[d0]
           b == IF t.base[d0] = "none" /\ s.len > 0 THEN k ELSE t.base[d0]
           c == IF s.ack # NoAck THEN t.acked + 1 ELSE t.acked
<1>1. /\ s.len \in Nat /\ d0 \in Dirs /\ s.repeat \in BOOLEAN
      /\ t.repeats \in [Dirs -> Nat] /\ t.base \in [Dirs -> {"none", "repeat", "ahead", "new"}]
      /\ t.start \in [Dirs -> Nat] /\ t.acked \in Nat
  BY EndTyped DEF Traffic
<1>2. u = [t EXCEPT !.repeats[d0] = r, !.base[d0] = b, !.acked = c]
  BY DEF Observed
<1>3. k \in {"repeat", "ahead", "new"}
  BY BaseKindOf
<1>4. r \in Nat /\ b \in {"none", "repeat", "ahead", "new"} /\ c \in Nat
  BY <1>1, <1>3
<1>5. r = t.repeats[d0] + (IF s.repeat THEN 1 ELSE 0)
  BY <1>1
<1>6. /\ s.len = 0 \/ t.base[d0] # "none" => b = t.base[d0]
      /\ s.len > 0 /\ t.base[d0] = "none" => b = k
  OBVIOUS
<1> HIDE DEF u, k, r, b, c, d0
<1>7. u = [start |-> t.start, repeats |-> [t.repeats EXCEPT ![d0] = r], base |-> [t.base EXCEPT ![d0] = b],
           acked |-> c, gap |-> t.gap, missed |-> t.missed, overtaken |-> t.overtaken]
  BY <1>2 DEF Traffic
<1>8. [t.repeats EXCEPT ![d0] = r] \in [Dirs -> Nat]
      /\ [t.base EXCEPT ![d0] = b] \in [Dirs -> {"none", "repeat", "ahead", "new"}]
  BY <1>1, <1>4
<1>9. u \in Traffic
  BY <1>1, <1>4, <1>7, <1>8 DEF Traffic
<1>10. /\ u.start = t.start /\ u.gap = t.gap /\ u.missed = t.missed /\ u.overtaken = t.overtaken
       /\ u.repeats = [t.repeats EXCEPT ![d0] = r] /\ u.base = [t.base EXCEPT ![d0] = b] /\ u.acked = c
  BY <1>7
<1>11. /\ \A d \in Dirs : d # d0 => u.repeats[d] = t.repeats[d] /\ u.base[d] = t.base[d]
       /\ u.repeats[d0] = r /\ u.base[d0] = b
  BY <1>1, <1>10
<1>12. \A d \in Dirs : d # d0 \/ s.len = 0 \/ t.base[d] # "none" => u.base[d] = t.base[d]
  BY <1>6, <1>11
<1>13. s.len > 0 /\ t.base[d0] = "none" => u.base[d0] = k
  BY <1>6, <1>11
<1>14. u.acked = IF s.ack # NoAck THEN t.acked + 1 ELSE t.acked
  BY <1>10 DEF c
<1>15. u.repeats[d0] = t.repeats[d0] + (IF s.repeat THEN 1 ELSE 0)
  BY <1>5, <1>11
<1> QED
  BY <1>9, <1>10, <1>11, <1>12, <1>13, <1>14, <1>15 DEF u, k, d0

(* What Apply does to a direction.  The segment that creates the entry has no  *)
(* effect.                                                                     *)
Tracked == analytics # NoAnalytics
Behind(d, seq) == Expected(d) # 0 /\ seq < Expected(d)
Beyond(d, seq) == d = "out" /\ Expected(d) # 0 /\ seq > Expected(d)

LEMMA ExpectedTyped ==
  ASSUME analytics \in Analytics \union {NoAnalytics}, NEW d \in Dirs
  PROVE  Expected(d) \in Nat /\ CountOf(d) \in Nat
  BY DEF Expected, CountOf, Awaited, Tally, Analytics

LEMMA Applied ==
  ASSUME analytics \in Analytics \union {NoAnalytics}, NEW s \in Segment, NEW t \in Traffic,
         Tracked => AcksOf(analytics, t.acked), Apply(s, t)
  PROVE  /\ analytics' \in Analytics /\ traffic' \in Traffic
         /\ AcksOf(analytics', traffic'.acked)
         /\ traffic'.start = t.start /\ traffic'.gap = t.gap
         /\ traffic'.missed = t.missed /\ traffic'.overtaken = t.overtaken
         /\ \A d \in Dirs : ~Tracked \/ d # s.dir \/ s.len = 0 =>
              /\ Expected(d)' = Expected(d) /\ CountOf(d)' = CountOf(d)
              /\ traffic'.base[d] = t.base[d]
         /\ \A d \in Dirs : ~Tracked \/ d # s.dir => traffic'.repeats[d] = t.repeats[d]
         /\ Tracked =>
              traffic'.repeats[s.dir] = t.repeats[s.dir] + (IF s.repeat THEN 1 ELSE 0)
         /\ Tracked /\ s.len > 0 =>
              LET d == s.dir
                  seq == s.pos % Modulus
              IN /\ CountOf(d)' = CountOf(d) + (IF Behind(d, seq) THEN 1 ELSE 0)
                 /\ Expected(d)' = IF Behind(d, seq) \/ Beyond(d, seq) THEN Expected(d)
                                   ELSE EndOf(seq, s.len)
                 /\ traffic'.base[d] = IF t.base[d] = "none" THEN BaseKind(s) ELSE t.base[d]
<1>1. CASE ~Tracked
  <2>1. analytics = NoAnalytics /\ analytics' = NewAnalytics /\ traffic' = t
    BY <1>1 DEF Tracked, Apply
  <2>2. NewAnalytics \in Analytics
    BY DEF NewAnalytics, Analytics
  <2>3. NewAnalytics # NoAnalytics
    BY <2>2, NoneAssumption
  <2>4. t.acked \in Nat
    BY DEF Traffic
  <2>5. AcksOf(NewAnalytics, t.acked)
    BY <2>4 DEF AcksOf, NewAnalytics
  <2>6. \A d : Expected(d) = 0 /\ CountOf(d) = 0
    BY <2>1 DEF Expected, CountOf
  <2>7. \A d : Awaited(NewAnalytics, d) = 0 /\ Tally(NewAnalytics, d) = 0
    BY DEF Awaited, Tally, NewAnalytics
  <2>8. \A d : Expected(d)' = 0 /\ CountOf(d)' = 0
    BY <2>1, <2>3, <2>7 DEF Expected, CountOf
  <2> QED
    BY <1>1, <2>1, <2>2, <2>5, <2>6, <2>8
<1>2. CASE Tracked
  <2> DEFINE b == AnalyzeTcpSegment(analytics, s)
             seq == s.pos % Modulus
  <2>1. analytics # NoAnalytics /\ analytics \in Analytics /\ analytics' = b /\ traffic' = Observed(t, s)
    BY <1>2 DEF Tracked, Apply
  <2>2. t.acked \in Nat /\ s.dir \in Dirs
    BY EndTyped DEF Traffic
  <2> HIDE DEF b, seq
  <2>3. /\ b \in Analytics
        /\ \A d \in Dirs : d # s.dir \/ s.len = 0 =>
             Awaited(b, d) = Awaited(analytics, d) /\ Tally(b, d) = Tally(analytics, d)
        /\ s.len > 0 =>
             /\ Tally(b, s.dir) = Tally(analytics, s.dir) + (IF Late(analytics, s) THEN 1 ELSE 0)
             /\ Awaited(b, s.dir) = IF Late(analytics, s) \/ Ahead(analytics, s)
                                    THEN Awaited(analytics, s.dir) ELSE EndOf(seq, s.len)
        /\ AcksOf(b, IF s.ack # NoAck THEN t.acked + 1 ELSE t.acked)
    BY <1>2, <2>1, <2>2, Analyzed DEF b, seq
  <2>4. b # NoAnalytics
    BY <2>3, NoneAssumption
  <2>5. \A d : Expected(d) = Awaited(analytics, d) /\ CountOf(d) = Tally(analytics, d)
    BY <2>1 DEF Expected, CountOf
  <2>6. \A d : Expected(d)' = Awaited(b, d) /\ CountOf(d)' = Tally(b, d)
    BY <2>1, <2>4 DEF Expected, CountOf
  <2>7. (Late(analytics, s) <=> Behind(s.dir, seq)) /\ (Ahead(analytics, s) <=> Beyond(s.dir, seq))
    BY <2>5 DEF Late, Ahead, Behind, Beyond, seq
  <2>8. /\ traffic' \in Traffic
        /\ traffic'.start = t.start /\ traffic'.gap = t.gap
        /\ traffic'.missed = t.missed /\ traffic'.overtaken = t.overtaken
        /\ \A d \in Dirs : d # s.dir => traffic'.repeats[d] = t.repeats[d]
        /\ traffic'.repeats[s.dir] = t.repeats[s.dir] + (IF s.repeat THEN 1 ELSE 0)
        /\ \A d \in Dirs : d # s.dir \/ s.len = 0 \/ t.base[d] # "none" => traffic'.base[d] = t.base[d]
        /\ s.len > 0 /\ t.base[s.dir] = "none" => traffic'.base[s.dir] = BaseKind(s)
        /\ traffic'.acked = IF s.ack # NoAck THEN t.acked + 1 ELSE t.acked
    BY <2>1, ObservedOf
  <2>9. AcksOf(analytics', traffic'.acked)
    BY <2>1, <2>3, <2>8
  <2>10. \A d \in Dirs : d # s.dir \/ s.len = 0 =>
           /\ Expected(d)' = Expected(d) /\ CountOf(d)' = CountOf(d)
           /\ traffic'.base[d] = t.base[d]
    BY <2>3, <2>5, <2>6, <2>8
  <2>11. s.len > 0 =>
           /\ CountOf(s.dir)' = CountOf(s.dir) + (IF Behind(s.dir, seq) THEN 1 ELSE 0)
           /\ Expected(s.dir)' = IF Behind(s.dir, seq) \/ Beyond(s.dir, seq) THEN Expected(s.dir)
                                 ELSE EndOf(seq, s.len)
           /\ traffic'.base[s.dir] = IF t.base[s.dir] = "none" THEN BaseKind(s) ELSE t.base[s.dir]
    <3>1. Expected(s.dir)' = Awaited(b, s.dir) /\ CountOf(s.dir)' = Tally(b, s.dir)
      BY <2>6
    <3>2. Expected(s.dir) = Awaited(analytics, s.dir) /\ CountOf(s.dir) = Tally(analytics, s.dir)
      BY <2>5
    <3> QED
      BY <2>2, <2>3, <2>7, <2>8, <3>1, <3>2
  <2> QED
    BY <1>2, <2>1, <2>3, <2>8, <2>9, <2>10, <2>11 DEF seq
<1> QED
  BY <1>1, <1>2

LEMMA PlainPosition ==
  ASSUME NEW s \in Segment, NEW n \in Nat, s.pos + s.len <= n, n < Modulus
  PROVE  s.pos % Modulus = s.pos /\ EndOf(s.pos % Modulus, s.len) = s.pos + s.len
<1>1. s.pos \in Nat /\ s.len \in Nat /\ Modulus \in Nat \ {0}
  BY EndTyped
<1>2. s.pos < Modulus /\ s.pos + s.len \in Nat /\ s.pos + s.len < Modulus
  BY <1>1
<1>3. s.pos % Modulus = s.pos /\ (s.pos + s.len) % Modulus = s.pos + s.len
  BY <1>1, <1>2, SmallRemainder
<1> QED
  BY <1>3 DEF EndOf

LEMMA EndPosition ==
  ASSUME NEW p \in Nat, NEW len \in Nat
  PROVE  EndOf(p % Modulus, len) = (p + len) % Modulus
  BY SumRemainder, TcpAssumption DEF EndOf

(* What a captured segment does, by whomever it is applied. *)

LEMMA OnWireGrows ==
  ASSUME top \in [Dirs -> Nat], NEW s \in Segment, OnWire(s),
         s.repeat <=> s.pos < top[s.dir], s.repeat => s.pos + s.len <= top[s.dir]
  PROVE  /\ top' \in [Dirs -> Nat]
         /\ \A d \in Dirs : d # s.dir => top'[d] = top[d]
         /\ top'[s.dir] = IF s.repeat THEN top[s.dir] ELSE s.pos + s.len
         /\ \A d \in Dirs : top[d] <= top'[d]
         /\ s.pos + s.len <= top'[s.dir]
         /\ Wrapped => Wrapped'
<1>1. s.pos \in Nat /\ s.len \in Nat /\ s.dir \in Dirs
  BY EndTyped
<1> DEFINE e == IF s.pos + s.len > top[s.dir] THEN s.pos + s.len ELSE top[s.dir]
<1>2. top' = [top EXCEPT ![s.dir] = e]
  BY DEF OnWire
<1>3. e \in Nat /\ top[s.dir] <= e /\ s.pos + s.len <= e
  BY <1>1
<1>4. e = IF s.repeat THEN top[s.dir] ELSE s.pos + s.len
  BY <1>1
<1> HIDE DEF e
<1>5. /\ top' \in [Dirs -> Nat]
      /\ \A d \in Dirs : d # s.dir => top'[d] = top[d]
      /\ top'[s.dir] = e
  BY <1>1, <1>2, <1>3
<1>6. \A d \in Dirs : top[d] <= top'[d]
  BY <1>1, <1>3, <1>5
<1>7. Wrapped => Wrapped'
  BY <1>5, <1>6, TcpAssumption DEF Wrapped
<1> QED
  BY <1>3, <1>4, <1>5, <1>6, <1>7

LEMMA TrafficWithOf ==
  ASSUME traffic \in Traffic, NEW s
  PROVE  LET t == TrafficWith(s)
         IN /\ t \in Traffic
            /\ t.start = traffic.start /\ t.repeats = traffic.repeats /\ t.base = traffic.base
            /\ t.acked = traffic.acked /\ t.missed = traffic.missed /\ t.overtaken = traffic.overtaken
            /\ t.gap <=> traffic.gap \/ s.pos > top[s.dir]
<1> DEFINE g == traffic.gap \/ s.pos > top[s.dir]
           t == TrafficWith(s)
<1>1. t = [traffic EXCEPT !.gap = g]
  BY Zenon DEF TrafficWith
<1>2. g \in BOOLEAN
  OBVIOUS
<1> HIDE DEF g, t
<1>3. t = [start |-> traffic.start, repeats |-> traffic.repeats, base |-> traffic.base,
           acked |-> traffic.acked, gap |-> g, missed |-> traffic.missed, overtaken |-> traffic.overtaken]
  BY <1>1 DEF Traffic
<1>4. t \in Traffic
  BY <1>2, <1>3 DEF Traffic
<1>5. /\ t.start = traffic.start /\ t.repeats = traffic.repeats /\ t.base = traffic.base
      /\ t.acked = traffic.acked /\ t.missed = traffic.missed /\ t.overtaken = traffic.overtaken
  BY <1>3
<1>6. t.gap <=> g
  BY <1>3, Zenon
<1> QED
  BY <1>4, <1>5, <1>6 DEF t, g

LEMMA OvertakenOf ==
  ASSUME NEW t \in Traffic, NEW b \in BOOLEAN
  PROVE  LET u == [t EXCEPT !.overtaken = @ \/ b]
         IN /\ u \in Traffic
            /\ u.start = t.start /\ u.repeats = t.repeats /\ u.base = t.base
            /\ u.acked = t.acked /\ u.missed = t.missed /\ (u.gap <=> t.gap)
            /\ u.overtaken <=> t.overtaken \/ b
<1> DEFINE o == t.overtaken \/ b
           u == [t EXCEPT !.overtaken = @ \/ b]
<1>1. u = [t EXCEPT !.overtaken = o]
  BY Zenon DEF Traffic
<1>2. o \in BOOLEAN
  OBVIOUS
<1> HIDE DEF o, u
<1>3. u = [start |-> t.start, repeats |-> t.repeats, base |-> t.base,
           acked |-> t.acked, gap |-> t.gap, missed |-> t.missed, overtaken |-> o]
  BY <1>1 DEF Traffic
<1>4. u \in Traffic
  BY <1>2, <1>3 DEF Traffic
<1>5. /\ u.start = t.start /\ u.repeats = t.repeats /\ u.base = t.base
      /\ u.acked = t.acked /\ u.missed = t.missed /\ u.gap = t.gap
  BY <1>3
<1>6. u.overtaken <=> o
  BY <1>3, Zenon
<1> QED
  BY <1>4, <1>5, <1>6 DEF u, o

-----------------------------------------------------------------------------
(* The inductive invariant is kept. *)

LEMMA CapturedKeeps ==
  ASSUME TcpInv, NEW s \in SegmentsNow, Captured(s)
  PROVE  TcpInv'
<1> DEFINE d0 == s.dir
           seq == s.pos % Modulus
<1>1. /\ analytics \in Analytics \union {NoAnalytics} /\ traffic \in Traffic
      /\ top \in [Dirs -> Nat] /\ una \in Nat /\ held \in Segment \union {NoSegment}
      /\ HeldOnWire /\ NothingYet /\ AcksPaid
  BY DEF TcpInv, TcpTyped
<1>2. traffic.start \in [Dirs -> Nat]
  BY <1>1 DEF Traffic
<1>3. /\ s \in Segment
      /\ s.repeat <=> s.pos < top[s.dir]
      /\ s.repeat => s.len > 0 /\ s.pos + s.len <= top[s.dir]
      /\ ~s.repeat /\ s.dir = "out" => s.pos = top[s.dir]
      /\ s.len = 0 => s.dir = "in" /\ s.pos = top["in"]
  BY <1>1, <1>2, ShapeOf
<1>4. /\ s.pos \in Nat /\ s.len \in Nat /\ d0 \in Dirs /\ s.repeat \in BOOLEAN /\ seq \in Nat
      /\ EndOf(seq, s.len) \in Nat
  BY <1>3, EndTyped
<1>5. /\ top' \in [Dirs -> Nat]
      /\ \A d \in Dirs : d # d0 => top'[d] = top[d]
      /\ top'[d0] = IF s.repeat THEN top[d0] ELSE s.pos + s.len
      /\ \A d \in Dirs : top[d] <= top'[d]
      /\ s.pos + s.len <= top'[d0]
      /\ Wrapped => Wrapped'
  BY <1>1, <1>3, OnWireGrows DEF Captured
<1>6. held' = held /\ una' = una
  BY DEF Captured
<1>7. PICK t \in Traffic :
        /\ Apply(s, t)
        /\ t.start = traffic.start /\ t.repeats = traffic.repeats /\ t.base = traffic.base
        /\ t.acked = traffic.acked /\ t.missed = traffic.missed
        /\ t.gap <=> traffic.gap \/ s.pos > top[d0]
        /\ t.overtaken <=> traffic.overtaken \/ held # NoSegment
  <2> DEFINE w == TrafficWith(s)
             b == held # NoSegment
             u == [w EXCEPT !.overtaken = @ \/ b]
  <2>1. /\ w \in Traffic
        /\ w.start = traffic.start /\ w.repeats = traffic.repeats /\ w.base = traffic.base
        /\ w.acked = traffic.acked /\ w.missed = traffic.missed /\ w.overtaken = traffic.overtaken
        /\ w.gap <=> traffic.gap \/ s.pos > top[s.dir]
    BY <1>1, TrafficWithOf
  <2>2. b \in BOOLEAN
    OBVIOUS
  <2>3. Apply(s, u)
    BY Zenon DEF Captured
  <2> HIDE DEF w, b
  <2>4. /\ u \in Traffic
        /\ u.start = w.start /\ u.repeats = w.repeats /\ u.base = w.base
        /\ u.acked = w.acked /\ u.missed = w.missed /\ (u.gap <=> w.gap)
        /\ u.overtaken <=> w.overtaken \/ b
    BY <2>1, <2>2, OvertakenOf
  <2> HIDE DEF u
  <2>5. u.gap <=> traffic.gap \/ s.pos > top[d0]
    BY <2>1, <2>4, Zenon
  <2>6. u.overtaken <=> traffic.overtaken \/ held # NoSegment
    BY <2>1, <2>4, Zenon DEF b
  <2>7. /\ u.start = traffic.start /\ u.repeats = traffic.repeats /\ u.base = traffic.base
        /\ u.acked = traffic.acked /\ u.missed = traffic.missed
    BY <2>1, <2>4
  <2> QED
    BY <2>3, <2>4, <2>5, <2>6, <2>7
<1>8. Tracked => AcksOf(analytics, t.acked)
  BY <1>1, <1>7 DEF AcksPaid, Tracked
<1>9. /\ analytics' \in Analytics /\ traffic' \in Traffic
      /\ AcksOf(analytics', traffic'.acked)
      /\ traffic'.missed = traffic.missed
      /\ \A d \in Dirs : ~Tracked \/ d # d0 \/ s.len = 0 =>
           /\ Expected(d)' = Expected(d) /\ CountOf(d)' = CountOf(d)
           /\ traffic'.base[d] = traffic.base[d]
      /\ \A d \in Dirs : ~Tracked \/ d # d0 => traffic'.repeats[d] = traffic.repeats[d]
      /\ Tracked => traffic'.repeats[d0] = traffic.repeats[d0] + (IF s.repeat THEN 1 ELSE 0)
      /\ Tracked /\ s.len > 0 =>
           /\ CountOf(d0)' = CountOf(d0) + (IF Behind(d0, seq) THEN 1 ELSE 0)
           /\ Expected(d0)' = IF Behind(d0, seq) \/ Beyond(d0, seq) THEN Expected(d0)
                              ELSE EndOf(seq, s.len)
           /\ traffic'.base[d0] = IF traffic.base[d0] = "none" THEN BaseKind(s) ELSE traffic.base[d0]
  BY <1>1, <1>3, <1>7, <1>8, Applied
<1>10. /\ traffic'.gap <=> traffic.gap \/ s.pos > top[d0]
       /\ traffic'.overtaken <=> traffic.overtaken \/ held # NoSegment
  <2>1. traffic'.gap = t.gap /\ traffic'.overtaken = t.overtaken
    BY <1>1, <1>3, <1>7, <1>8, Applied
  <2> QED
    BY <1>7, <2>1, Zenon
<1>11. \A d : Pending(d)' <=> Pending(d)
  BY <1>6 DEF Pending
<1>12. \A d \in Dirs : /\ Expected(d) \in Nat /\ CountOf(d) \in Nat
                       /\ Expected(d)' \in Nat /\ CountOf(d)' \in Nat
                       /\ traffic.repeats[d] \in Nat /\ top[d] \in Nat /\ top'[d] \in Nat
                       /\ traffic.base[d] \in {"none", "repeat", "ahead", "new"}
  <2>1. \A d \in Dirs : Expected(d) \in Nat /\ CountOf(d) \in Nat
    BY <1>1, ExpectedTyped
  <2>2. \A d \in Dirs : Expected(d)' \in Nat /\ CountOf(d)' \in Nat
    BY <1>9 DEF Expected, CountOf, Awaited, Tally, Analytics
  <2> QED
    BY <1>1, <1>5, <2>1, <2>2 DEF Traffic
<1>13. held # NoSegment =>
         /\ held \in Segment /\ held.pos \in Nat /\ held.len \in Nat /\ held.dir \in Dirs
         /\ held.pos + held.len <= top[held.dir]
  BY <1>1, EndTyped DEF HeldOnWire
<1>14. \A d \in Dirs : traffic.base[d] = "none" => CountOf(d) = 0 /\ traffic.repeats[d] = 0
  BY <1>1 DEF NothingYet
<1>15. BaseKind(s) \in {"repeat", "ahead", "new"}
         /\ (BaseKind(s) = "repeat" <=> s.repeat)
         /\ (BaseKind(s) = "ahead" <=> ~s.repeat /\ held # NoSegment /\ held.dir = d0 /\ held.pos < s.pos)
  BY BaseKindOf
<1> HIDE DEF d0, seq
<1>20. TcpTyped'
  BY <1>1, <1>5, <1>6, <1>9 DEF TcpTyped
<1>21. HeldOnWire'
  <2> SUFFICES ASSUME held' # NoSegment
               PROVE  /\ held'.pos + held'.len <= top'[held'.dir]
                      /\ held'.len = 0 => held'.dir = "in" /\ ~held'.repeat
    BY DEF HeldOnWire
  <2>1. held.len = 0 => held.dir = "in" /\ ~held.repeat
    BY <1>1, <1>6 DEF HeldOnWire
  <2>2. held.pos + held.len <= top'[held.dir]
    BY <1>5, <1>6, <1>12, <1>13
  <2> QED
    BY <1>6, <2>1, <2>2
<1>22. NothingYet'
  <2>1. analytics' # NoAnalytics
    BY <1>9, NoneAssumption
  <2>2. ASSUME NEW d \in Dirs, traffic'.base[d] = "none"
        PROVE  CountOf(d)' = 0 /\ traffic'.repeats[d] = 0
    <3>1. CASE ~Tracked \/ d # d0
      BY <1>9, <1>14, <2>2, <3>1
    <3>2. CASE Tracked /\ d = d0 /\ s.len > 0
      BY <1>9, <1>15, <2>2, <3>2
    <3>3. CASE Tracked /\ d = d0 /\ s.len = 0
      BY <1>3, <1>9, <1>12, <1>14, <2>2, <3>3
    <3> QED
      BY <1>4, <3>1, <3>2, <3>3
  <2> QED
    BY <2>1, <2>2 DEF NothingYet
<1>23. AcksPaid'
  BY <1>9 DEF AcksPaid
<1>24. ASSUME ~Wrapped'
       PROVE  Reached' /\ OutboundPaid' /\ InboundPaid' /\ Exact'
  <2>1. Reached /\ OutboundPaid /\ InboundPaid /\ Exact
    BY <1>5, <1>24 DEF TcpInv
  <2>2. top'[d0] < Modulus
    BY <1>4, <1>12, <1>24, TcpAssumption DEF Wrapped
  <2>3. seq = s.pos /\ EndOf(seq, s.len) = s.pos + s.len
    BY <1>3, <1>4, <1>5, <1>12, <2>2, PlainPosition DEF seq
  <2>4. \A d \in Dirs : Expected(d) <= top[d] /\ (Expected(d) = 0 <=> traffic.base[d] = "none")
    BY <2>1 DEF Reached
  <2>5. ASSUME Tracked, s.len > 0
        PROVE  /\ CountOf(d0)' = CountOf(d0) + (IF Expected(d0) # 0 /\ s.pos < Expected(d0) THEN 1 ELSE 0)
               /\ Expected(d0)' = IF Expected(d0) # 0
                                       /\ (s.pos < Expected(d0) \/ (d0 = "out" /\ s.pos > Expected(d0)))
                                  THEN Expected(d0) ELSE s.pos + s.len
               /\ traffic'.base[d0] = IF traffic.base[d0] = "none" THEN BaseKind(s) ELSE traffic.base[d0]
               /\ traffic'.repeats[d0] = traffic.repeats[d0] + (IF s.repeat THEN 1 ELSE 0)
    BY <1>9, <2>3, <2>5 DEF Behind, Beyond
  <2>6. Reached'
    <3> SUFFICES ASSUME NEW d \in Dirs
                 PROVE  Expected(d)' <= top'[d] /\ (Expected(d)' = 0 <=> traffic'.base[d] = "none")
      BY DEF Reached
    <3>1. CASE ~Tracked \/ d # d0 \/ s.len = 0
      BY <1>5, <1>9, <1>12, <2>4, <3>1
    <3>2. CASE Tracked /\ d = d0 /\ s.len > 0
      BY <1>4, <1>5, <1>12, <1>15, <2>4, <2>5, <3>2
    <3> QED
      BY <1>4, <3>1, <3>2
  <2>7. OutboundPaid'
    <3> SUFFICES ASSUME traffic'.base["out"] # "ahead"
                 PROVE  CountOf("out")' + (IF Pending("out") /\ held.pos < Expected("out")' THEN 1 ELSE 0)
                          <= traffic'.repeats["out"]
      BY <1>6, <1>11 DEF OutboundPaid
    <3>0. "out" \in Dirs
      BY DEF Dirs
    <3>1. CASE ~Tracked \/ "out" # d0
      BY <1>9, <2>1, <3>1, <3>0 DEF OutboundPaid
    <3>2. CASE Tracked /\ "out" = d0
      <4>1. s.len > 0
        BY <1>3, <1>4, <3>2 DEF d0
      <4>2. traffic.base["out"] # "ahead"
        BY <2>5, <3>2, <4>1
      <4>3. CountOf("out") + (IF Pending("out") /\ held.pos < Expected("out") THEN 1 ELSE 0)
              <= traffic.repeats["out"]
        BY <2>1, <4>2 DEF OutboundPaid
      <4>4. Pending("out") => held # NoSegment /\ held.dir = "out" /\ held.pos \in Nat /\ held.pos < top["out"]
        BY <1>12, <1>13, <3>0 DEF Pending
      <4>5. ~s.repeat => s.pos = top["out"]
        BY <1>3, <3>2 DEF d0
      <4>6. CASE s.repeat
        BY <1>4, <1>12, <2>4, <2>5, <3>0, <3>2, <4>1, <4>3, <4>4, <4>6
      <4>7. CASE ~s.repeat /\ traffic.base["out"] = "none"
        BY <1>4, <1>12, <1>15, <2>4, <2>5, <3>0, <3>2, <4>1, <4>3, <4>4, <4>5, <4>7
      <4>8. CASE ~s.repeat /\ traffic.base["out"] # "none"
        BY <1>4, <1>12, <2>4, <2>5, <3>0, <3>2, <4>1, <4>3, <4>4, <4>5, <4>8
      <4> QED
        BY <1>4, <4>6, <4>7, <4>8
    <3> QED
      BY <3>1, <3>2
  <2>8. InboundPaid'
    <3> SUFFICES ASSUME ~traffic'.overtaken
                 PROVE  /\ CountOf("in")' <= traffic'.repeats["in"]
                        /\ Pending("in") => Expected("in")' <= held.pos
      BY <1>6, <1>11 DEF InboundPaid
    <3>0. "in" \in Dirs
      BY DEF Dirs
    <3>1. ~traffic.overtaken /\ held = NoSegment
      BY <1>10, Zenon
    <3>2. ~Pending("in")
      BY <3>1 DEF Pending
    <3>3. CountOf("in") <= traffic.repeats["in"]
      BY <2>1, <3>1 DEF InboundPaid
    <3>4. CASE ~Tracked \/ "in" # d0
      BY <1>9, <3>0, <3>2, <3>3, <3>4
    <3>5. CASE Tracked /\ "in" = d0 /\ s.len = 0
      BY <1>9, <1>12, <3>0, <3>2, <3>3, <3>5
    <3>6. CASE Tracked /\ "in" = d0 /\ s.len > 0
      <4>1. ~s.repeat => ~(s.pos < top["in"])
        BY <1>3, <3>6 DEF d0
      <4> QED
        BY <1>4, <1>12, <2>4, <2>5, <3>0, <3>2, <3>3, <3>6, <4>1
    <3> QED
      BY <1>4, <3>4, <3>5, <3>6
  <2>9. Exact'
    <3> SUFFICES ASSUME ~traffic'.overtaken, ~traffic'.missed, NEW d \in Dirs, ~Pending(d)
                 PROVE  traffic'.base[d] = "new" =>
                          CountOf(d)' = traffic'.repeats[d] /\ Expected(d)' = top'[d]
      <4>1. ~traffic'.overtaken => held = NoSegment
        BY <1>10, Zenon
      <4>2. ~traffic'.overtaken => \A d \in Dirs : ~Pending(d)
        BY <4>1 DEF Pending
      <4> QED
        BY <1>11, <4>2 DEF Exact
    <3>1. ~traffic.overtaken /\ held = NoSegment
      BY <1>10, Zenon
    <3>2. ~traffic.missed
      BY <1>9
    <3>3. traffic.base[d] = "new" => CountOf(d) = traffic.repeats[d] /\ Expected(d) = top[d]
      BY <2>1, <3>1, <3>2 DEF Exact
    <3>4. CASE d # d0
      BY <1>5, <1>9, <3>3, <3>4
    <3>5. CASE d = d0 /\ ~Tracked
      <4>1. traffic.base[d] = "none"
        BY <1>1, <3>5 DEF NothingYet, Tracked
      <4> QED
        BY <1>9, <3>5, <4>1
    <3>6. CASE d = d0 /\ Tracked /\ s.len = 0
      <4>1. ~s.repeat /\ s.pos = top[d0] /\ s.len = 0
        BY <1>3, <1>5, <3>6 DEF d0
      <4>2. top'[d0] = top[d0]
        BY <1>4, <1>5, <1>12, <4>1
      <4>3. /\ Expected(d)' = Expected(d) /\ CountOf(d)' = CountOf(d)
            /\ traffic'.base[d] = traffic.base[d] /\ traffic'.repeats[d] = traffic.repeats[d]
        BY <1>4, <1>9, <1>12, <3>6, <4>1
      <4> QED
        BY <3>3, <3>6, <4>2, <4>3
    <3>7. CASE d = d0 /\ Tracked /\ s.len > 0
      <4>1. /\ s.repeat => s.pos + s.len <= top[d]
            /\ ~s.repeat => ~(s.pos < top[d])
            /\ ~s.repeat /\ d = "out" => s.pos = top[d]
        BY <1>3, <3>7 DEF d0
      <4> QED
        BY <1>4, <1>5, <1>12, <1>14, <1>15, <2>4, <2>5, <3>1, <3>3, <3>7, <4>1
    <3> QED
      BY <1>4, <3>4, <3>5, <3>6, <3>7
  <2> QED
    BY <2>6, <2>7, <2>8, <2>9
<1>25. ASSUME Orderly'
       PROVE  Followed'
  <2>1. /\ traffic'.repeats = [d \in Dirs |-> 0]
        /\ ~traffic'.gap /\ ~traffic'.missed /\ ~traffic'.overtaken
    BY <1>25, Zenon DEF Orderly
  <2>2. ~traffic.gap /\ ~(s.pos > top[d0]) /\ ~traffic.overtaken /\ held = NoSegment
    BY <1>10, <2>1, Zenon
  <2>3. ~traffic.missed
    BY <1>9, <2>1, Zenon
  <2>4. \A d \in Dirs : traffic.repeats[d] = 0 /\ traffic'.repeats[d] = 0
    <3>1. \A d \in Dirs : traffic'.repeats[d] = 0
      BY <2>1
    <3> QED
      BY <1>9, <1>12, <3>1
  <2>5. Tracked => ~s.repeat
    BY <1>4, <1>9, <2>4
  <2>6. Orderly
    <3>1. traffic.repeats = [d \in Dirs |-> 0]
      BY <1>1, <2>4 DEF Traffic
    <3> QED
      BY <2>2, <2>3, <3>1, Zenon DEF Orderly
  <2>7. \A d : ~Pending(d)
    BY <2>2 DEF Pending
  <2>8. \A d \in Dirs :
          CountOf(d) = 0 /\ Expected(d) = IF traffic.base[d] = "none" THEN 0 ELSE top[d] % Modulus
    BY <2>6, <2>7 DEF TcpInv, Followed
  <2> SUFFICES ASSUME NEW d \in Dirs
               PROVE  /\ CountOf(d)' = 0
                      /\ Expected(d)' = IF traffic'.base[d] = "none" THEN 0 ELSE top'[d] % Modulus
    BY <1>11, <2>7 DEF Followed
  <2>9. CASE ~Tracked
    <3>1. traffic.base[d] = "none"
      BY <1>1, <2>9 DEF NothingYet, Tracked
    <3> QED
      BY <1>9, <2>8, <2>9, <3>1
  <2>10. CASE d # d0
    BY <1>5, <1>9, <2>8, <2>10
  <2>11. CASE Tracked /\ d = d0
    <3>1. s.pos = top[d]
      BY <1>3, <1>4, <1>12, <2>2, <2>5, <2>11 DEF d0
    <3>2. top'[d] = top[d] + s.len
      BY <1>5, <2>5, <2>11, <3>1
    <3>3. CASE s.len = 0
      <4>1. top'[d] = top[d]
        BY <1>12, <3>2, <3>3
      <4> QED
        BY <1>9, <2>8, <3>3, <4>1
    <3>4. CASE s.len > 0
      <4>1. seq = top[d] % Modulus
        BY <3>1 DEF seq
      <4>2. EndOf(seq, s.len) = top'[d] % Modulus
        BY <1>4, <1>12, <3>2, <4>1, EndPosition
      <4>3. ~Behind(d, seq) /\ ~Beyond(d, seq)
        BY <1>4, <2>8, <4>1 DEF Behind, Beyond
      <4>4. traffic'.base[d] # "none"
        BY <1>9, <1>15, <2>11, <3>4
      <4> QED
        BY <1>9, <1>12, <2>8, <2>11, <3>4, <4>2, <4>3, <4>4
    <3> QED
      BY <1>4, <3>3, <3>4
  <2> QED
    BY <2>9, <2>10, <2>11
<1> QED
  BY <1>20, <1>21, <1>22, <1>23, <1>24, <1>25 DEF TcpInv

LEMMA ReleaseKeeps ==
  ASSUME TcpInv, Release
  PROVE  TcpInv'
<1>0. PICK s : s = held
  OBVIOUS
<1> DEFINE d0 == s.dir
           seq == s.pos % Modulus
<1>1. /\ analytics \in Analytics \union {NoAnalytics} /\ traffic \in Traffic
      /\ top \in [Dirs -> Nat] /\ una \in Nat /\ held \in Segment \union {NoSegment}
      /\ HeldOnWire /\ NothingYet /\ AcksPaid
  BY DEF TcpInv, TcpTyped
<1>2. /\ held # NoSegment /\ held' = NoSegment /\ top' = top /\ una' = una
      /\ s \in Segment /\ Apply(s, traffic)
  BY <1>0, <1>1 DEF Release
<1>3. /\ s.pos + s.len <= top[d0]
      /\ s.len = 0 => d0 = "in" /\ ~s.repeat
  BY <1>0, <1>1, <1>2 DEF HeldOnWire
<1>4. /\ s.pos \in Nat /\ s.len \in Nat /\ d0 \in Dirs /\ s.repeat \in BOOLEAN /\ seq \in Nat
      /\ EndOf(seq, s.len) \in Nat
  BY <1>2, EndTyped
<1>5. Tracked => AcksOf(analytics, traffic.acked)
  BY <1>1 DEF AcksPaid, Tracked
<1>6. /\ analytics' \in Analytics /\ traffic' \in Traffic
      /\ AcksOf(analytics', traffic'.acked)
      /\ traffic'.missed = traffic.missed /\ traffic'.gap = traffic.gap
      /\ traffic'.overtaken = traffic.overtaken
      /\ \A d \in Dirs : ~Tracked \/ d # d0 \/ s.len = 0 =>
           /\ Expected(d)' = Expected(d) /\ CountOf(d)' = CountOf(d)
           /\ traffic'.base[d] = traffic.base[d]
      /\ \A d \in Dirs : ~Tracked \/ d # d0 => traffic'.repeats[d] = traffic.repeats[d]
      /\ Tracked => traffic'.repeats[d0] = traffic.repeats[d0] + (IF s.repeat THEN 1 ELSE 0)
      /\ Tracked /\ s.len > 0 =>
           /\ CountOf(d0)' = CountOf(d0) + (IF Behind(d0, seq) THEN 1 ELSE 0)
           /\ Expected(d0)' = IF Behind(d0, seq) \/ Beyond(d0, seq) THEN Expected(d0)
                              ELSE EndOf(seq, s.len)
           /\ traffic'.base[d0] = IF traffic.base[d0] = "none" THEN BaseKind(s) ELSE traffic.base[d0]
  BY <1>1, <1>2, <1>5, Applied
<1>7. \A d : ~Pending(d)'
  BY <1>2 DEF Pending
<1>8. \A d \in Dirs : /\ Expected(d) \in Nat /\ CountOf(d) \in Nat
                      /\ Expected(d)' \in Nat /\ CountOf(d)' \in Nat
                      /\ traffic.repeats[d] \in Nat /\ top[d] \in Nat
                      /\ traffic.base[d] \in {"none", "repeat", "ahead", "new"}
  <2>1. \A d \in Dirs : Expected(d) \in Nat /\ CountOf(d) \in Nat
    BY <1>1, ExpectedTyped
  <2>2. \A d \in Dirs : Expected(d)' \in Nat /\ CountOf(d)' \in Nat
    BY <1>6 DEF Expected, CountOf, Awaited, Tally, Analytics
  <2> QED
    BY <1>1, <2>1, <2>2 DEF Traffic
<1>9. \A d \in Dirs : traffic.base[d] = "none" => CountOf(d) = 0 /\ traffic.repeats[d] = 0
  BY <1>1 DEF NothingYet
<1>10. /\ BaseKind(s) \in {"repeat", "ahead", "new"}
       /\ BaseKind(s) = "repeat" <=> s.repeat
       /\ BaseKind(s) # "ahead"
  <2>1. /\ BaseKind(s) \in {"repeat", "ahead", "new"}
        /\ BaseKind(s) = "repeat" <=> s.repeat
        /\ BaseKind(s) = "ahead" => held.pos < s.pos
    BY BaseKindOf
  <2>2. held.pos = s.pos /\ ~(s.pos < s.pos)
    BY <1>0, <1>4
  <2> QED
    BY <2>1, <2>2
<1>11. Pending(d0) <=> ~s.repeat /\ s.len > 0
  BY <1>0, <1>2 DEF Pending
<1>12. \A d : d # d0 => ~Pending(d)
  BY <1>0 DEF Pending
<1> HIDE DEF d0, seq
<1>20. TcpTyped'
  BY <1>1, <1>2, <1>6 DEF TcpTyped
<1>21. HeldOnWire'
  BY <1>2 DEF HeldOnWire
<1>22. NothingYet'
  <2>1. analytics' # NoAnalytics
    BY <1>6, NoneAssumption
  <2>2. ASSUME NEW d \in Dirs, traffic'.base[d] = "none"
        PROVE  CountOf(d)' = 0 /\ traffic'.repeats[d] = 0
    <3>1. CASE ~Tracked \/ d # d0
      BY <1>6, <1>9, <2>2, <3>1
    <3>2. CASE Tracked /\ d = d0 /\ s.len > 0
      BY <1>6, <1>10, <2>2, <3>2
    <3>3. CASE Tracked /\ d = d0 /\ s.len = 0
      BY <1>3, <1>6, <1>8, <1>9, <2>2, <3>3
    <3> QED
      BY <1>4, <3>1, <3>2, <3>3
  <2> QED
    BY <2>1, <2>2 DEF NothingYet
<1>23. AcksPaid'
  BY <1>6 DEF AcksPaid
<1>24. ASSUME ~Wrapped'
       PROVE  Reached' /\ OutboundPaid' /\ InboundPaid' /\ Exact'
  <2>0. ~Wrapped
    BY <1>2, <1>24 DEF Wrapped
  <2>1. Reached /\ OutboundPaid /\ InboundPaid /\ Exact
    BY <2>0 DEF TcpInv
  <2>2. top[d0] < Modulus
    BY <1>4, <1>8, <2>0, TcpAssumption DEF Wrapped
  <2>3. seq = s.pos /\ EndOf(seq, s.len) = s.pos + s.len
    BY <1>0, <1>2, <1>3, <1>4, <1>8, <2>2, PlainPosition DEF seq
  <2>4. \A d \in Dirs : Expected(d) <= top[d] /\ (Expected(d) = 0 <=> traffic.base[d] = "none")
    BY <2>1 DEF Reached
  <2>5. ASSUME Tracked, s.len > 0
        PROVE  /\ CountOf(d0)' = CountOf(d0) + (IF Expected(d0) # 0 /\ s.pos < Expected(d0) THEN 1 ELSE 0)
               /\ Expected(d0)' = IF Expected(d0) # 0
                                       /\ (s.pos < Expected(d0) \/ (d0 = "out" /\ s.pos > Expected(d0)))
                                  THEN Expected(d0) ELSE s.pos + s.len
               /\ traffic'.base[d0] = IF traffic.base[d0] = "none" THEN BaseKind(s) ELSE traffic.base[d0]
               /\ traffic'.repeats[d0] = traffic.repeats[d0] + (IF s.repeat THEN 1 ELSE 0)
    BY <1>6, <2>3, <2>5 DEF Behind, Beyond
  <2>6. Reached'
    <3> SUFFICES ASSUME NEW d \in Dirs
                 PROVE  Expected(d)' <= top[d] /\ (Expected(d)' = 0 <=> traffic'.base[d] = "none")
      BY <1>2 DEF Reached
    <3>1. CASE ~Tracked \/ d # d0 \/ s.len = 0
      BY <1>6, <1>8, <2>4, <3>1
    <3>2. CASE Tracked /\ d = d0 /\ s.len > 0
      BY <1>3, <1>4, <1>8, <1>10, <2>4, <2>5, <3>2
    <3> QED
      BY <1>4, <3>1, <3>2
  <2>7. OutboundPaid'
    <3> SUFFICES ASSUME traffic'.base["out"] # "ahead"
                 PROVE  CountOf("out")' <= traffic'.repeats["out"]
      <4>1. CountOf("out")' \in Nat
        BY <1>8 DEF Dirs
      <4> QED
        BY <1>7, <4>1 DEF OutboundPaid
    <3>0. "out" \in Dirs
      BY DEF Dirs
    <3>1. CASE ~Tracked \/ "out" # d0
      BY <1>6, <1>8, <2>1, <3>1, <3>0 DEF OutboundPaid
    <3>2. CASE Tracked /\ "out" = d0
      <4>1. s.len > 0
        BY <1>3, <1>4, <3>2
      <4>2. traffic.base["out"] # "ahead"
        BY <2>5, <3>2, <4>1
      <4>3. CountOf("out") + (IF ~s.repeat /\ s.pos < Expected("out") THEN 1 ELSE 0)
              <= traffic.repeats["out"]
        BY <1>0, <1>11, <2>1, <3>2, <4>1, <4>2 DEF OutboundPaid
      <4> QED
        BY <1>4, <1>8, <2>5, <3>0, <3>2, <4>1, <4>3
    <3> QED
      BY <3>1, <3>2
  <2>8. InboundPaid'
    <3> SUFFICES ASSUME ~traffic'.overtaken
                 PROVE  CountOf("in")' <= traffic'.repeats["in"]
      BY <1>7 DEF InboundPaid
    <3>0. "in" \in Dirs
      BY DEF Dirs
    <3>1. ~traffic.overtaken
      BY <1>6
    <3>2. CountOf("in") <= traffic.repeats["in"] /\ (Pending("in") => Expected("in") <= s.pos)
      BY <1>0, <2>1, <3>1 DEF InboundPaid
    <3>4. CASE ~Tracked \/ "in" # d0
      BY <1>6, <3>0, <3>2, <3>4
    <3>5. CASE Tracked /\ "in" = d0 /\ s.len = 0
      BY <1>6, <1>8, <3>0, <3>2, <3>5
    <3>6. CASE Tracked /\ "in" = d0 /\ s.len > 0
      BY <1>4, <1>8, <1>11, <2>5, <3>0, <3>2, <3>6
    <3> QED
      BY <1>4, <3>4, <3>5, <3>6
  <2>9. Exact'
    <3> SUFFICES ASSUME ~traffic'.overtaken, ~traffic'.missed, NEW d \in Dirs
                 PROVE  traffic'.base[d] = "new" =>
                          CountOf(d)' = traffic'.repeats[d] /\ Expected(d)' = top[d]
      BY <1>2, <1>7 DEF Exact
    <3>1. ~traffic.overtaken /\ ~traffic.missed
      BY <1>6
    <3>2. /\ Pending(d) => s.pos + s.len = top[d]
          /\ traffic.base[d] = "new" =>
               /\ CountOf(d) = traffic.repeats[d]
               /\ IF Pending(d) THEN Expected(d) <= s.pos /\ (d = "out" => Expected(d) = s.pos)
                  ELSE Expected(d) = top[d]
      BY <1>0, <2>1, <3>1 DEF Exact
    <3>3. CASE d # d0
      BY <1>6, <1>12, <3>2, <3>3
    <3>4. CASE d = d0 /\ ~Tracked
      <4>1. traffic.base[d] = "none"
        BY <1>1, <3>4 DEF NothingYet, Tracked
      <4> QED
        BY <1>6, <3>4, <4>1
    <3>5. CASE d = d0 /\ Tracked /\ s.len = 0
      BY <1>3, <1>6, <1>8, <1>11, <3>2, <3>5
    <3>6. CASE d = d0 /\ Tracked /\ s.len > 0 /\ s.repeat
      BY <1>3, <1>4, <1>8, <1>9, <1>10, <1>11, <2>4, <2>5, <3>2, <3>6
    <3>7. CASE d = d0 /\ Tracked /\ s.len > 0 /\ ~s.repeat
      BY <1>4, <1>8, <1>9, <1>10, <1>11, <2>4, <2>5, <3>2, <3>7
    <3> QED
      BY <1>4, <3>3, <3>4, <3>5, <3>6, <3>7
  <2> QED
    BY <2>6, <2>7, <2>8, <2>9
<1>25. ASSUME Orderly'
       PROVE  Followed'
  <2>1. /\ traffic'.repeats = [d \in Dirs |-> 0]
        /\ ~traffic'.gap /\ ~traffic'.missed /\ ~traffic'.overtaken
    BY <1>25, Zenon DEF Orderly
  <2>2. ~traffic.gap /\ ~traffic.missed /\ ~traffic.overtaken
    BY <1>6, <2>1, Zenon
  <2>4. \A d \in Dirs : traffic.repeats[d] = 0 /\ traffic'.repeats[d] = 0
    <3>1. \A d \in Dirs : traffic'.repeats[d] = 0
      BY <2>1
    <3> QED
      BY <1>6, <1>8, <3>1
  <2>5. Tracked => ~s.repeat
    BY <1>4, <1>6, <2>4
  <2>6. Orderly
    <3>1. traffic.repeats = [d \in Dirs |-> 0]
      BY <1>1, <2>4 DEF Traffic
    <3> QED
      BY <2>2, <3>1, Zenon DEF Orderly
  <2>8. \A d \in Dirs :
          /\ CountOf(d) = 0
          /\ Pending(d) => s.pos + s.len = top[d]
          /\ Expected(d) = IF traffic.base[d] = "none" THEN 0
                           ELSE (IF Pending(d) THEN s.pos ELSE top[d]) % Modulus
    BY <1>0, <2>6 DEF TcpInv, Followed
  <2> SUFFICES ASSUME NEW d \in Dirs
               PROVE  /\ CountOf(d)' = 0
                      /\ Expected(d)' = IF traffic'.base[d] = "none" THEN 0 ELSE top[d] % Modulus
    BY <1>2, <1>7 DEF Followed
  <2>9. CASE ~Tracked
    <3>1. traffic.base[d] = "none"
      BY <1>1, <2>9 DEF NothingYet, Tracked
    <3> QED
      BY <1>6, <2>8, <2>9, <3>1
  <2>10. CASE d # d0
    BY <1>6, <1>12, <2>8, <2>10
  <2>11. CASE Tracked /\ d = d0
    <3>3. CASE s.len = 0
      BY <1>6, <1>11, <2>8, <2>11, <3>3
    <3>4. CASE s.len > 0
      <4>0. s.pos + s.len = top[d] /\ Pending(d)
        BY <1>11, <2>5, <2>8, <2>11, <3>4
      <4>2. EndOf(seq, s.len) = top[d] % Modulus
        BY <1>4, <4>0, EndPosition DEF seq
      <4>3. ~Behind(d, seq) /\ ~Beyond(d, seq)
        BY <1>4, <2>8, <4>0 DEF Behind, Beyond, seq
      <4>4. traffic'.base[d] # "none"
        BY <1>6, <1>10, <2>11, <3>4
      <4> QED
        BY <1>6, <1>8, <2>8, <2>11, <3>4, <4>2, <4>3, <4>4
    <3> QED
      BY <1>4, <3>3, <3>4
  <2> QED
    BY <2>9, <2>10, <2>11
<1> QED
  BY <1>20, <1>21, <1>22, <1>23, <1>24, <1>25 DEF TcpInv

LEMMA HoldKeeps ==
  ASSUME TcpInv, NEW s \in SegmentsNow, Hold(s)
  PROVE  TcpInv'
<1>1. /\ analytics \in Analytics \union {NoAnalytics} /\ traffic \in Traffic
      /\ top \in [Dirs -> Nat] /\ una \in Nat /\ held \in Segment \union {NoSegment}
      /\ HeldOnWire /\ NothingYet /\ AcksPaid
  BY DEF TcpInv, TcpTyped
<1>2. traffic.start \in [Dirs -> Nat]
  BY <1>1 DEF Traffic
<1>3. /\ s \in Segment
      /\ s.repeat <=> s.pos < top[s.dir]
      /\ s.repeat => s.len > 0 /\ s.pos + s.len <= top[s.dir]
      /\ ~s.repeat /\ s.dir = "out" => s.pos = top[s.dir]
      /\ s.len = 0 => s.dir = "in" /\ s.pos = top["in"]
  BY <1>1, <1>2, ShapeOf
<1>4. s.pos \in Nat /\ s.len \in Nat /\ s.dir \in Dirs /\ s.repeat \in BOOLEAN
  BY <1>3, EndTyped
<1>5. /\ top' \in [Dirs -> Nat]
      /\ \A d \in Dirs : d # s.dir => top'[d] = top[d]
      /\ top'[s.dir] = IF s.repeat THEN top[s.dir] ELSE s.pos + s.len
      /\ \A d \in Dirs : top[d] <= top'[d]
      /\ s.pos + s.len <= top'[s.dir]
      /\ Wrapped => Wrapped'
  BY <1>1, <1>3, OnWireGrows DEF Hold
<1>6. held = NoSegment /\ held' = s /\ una' = una /\ analytics' = analytics /\ traffic' = TrafficWith(s)
  BY DEF Hold
<1>7. s # NoSegment
  BY <1>3, NoneAssumption
<1>8. /\ traffic' \in Traffic
      /\ traffic'.repeats = traffic.repeats /\ traffic'.base = traffic.base
      /\ traffic'.acked = traffic.acked /\ traffic'.missed = traffic.missed
      /\ traffic'.overtaken = traffic.overtaken
      /\ traffic'.gap <=> traffic.gap \/ s.pos > top[s.dir]
  BY <1>1, <1>6, TrafficWithOf
<1>9. \A d \in Dirs : /\ Expected(d)' = Expected(d) /\ CountOf(d)' = CountOf(d)
                      /\ Expected(d) \in Nat /\ CountOf(d) \in Nat
                      /\ traffic.repeats[d] \in Nat /\ top[d] \in Nat /\ top'[d] \in Nat
  <2>1. \A d : Expected(d)' = Expected(d) /\ CountOf(d)' = CountOf(d)
    BY <1>6 DEF Expected, CountOf
  <2>2. \A d \in Dirs : Expected(d) \in Nat /\ CountOf(d) \in Nat
    BY <1>1, ExpectedTyped
  <2> QED
    BY <1>1, <1>5, <2>1, <2>2 DEF Traffic
<1>10. \A d : ~Pending(d) /\ (Pending(d)' <=> s.dir = d /\ ~s.repeat /\ s.len > 0)
  BY <1>6, <1>7 DEF Pending
<1>20. TcpTyped'
  BY <1>1, <1>3, <1>5, <1>6, <1>8 DEF TcpTyped
<1>21. HeldOnWire'
  BY <1>3, <1>5, <1>6 DEF HeldOnWire
<1>22. NothingYet'
  BY <1>1, <1>6, <1>8, <1>9 DEF NothingYet
<1>23. AcksPaid'
  BY <1>1, <1>6, <1>8 DEF AcksPaid
<1>24. ASSUME ~Wrapped'
       PROVE  Reached' /\ OutboundPaid' /\ InboundPaid' /\ Exact'
  <2>1. Reached /\ OutboundPaid /\ InboundPaid /\ Exact
    BY <1>5, <1>24 DEF TcpInv
  <2>2. \A d \in Dirs : Expected(d) <= top[d] /\ (Expected(d) = 0 <=> traffic.base[d] = "none")
    BY <2>1 DEF Reached
  <2>3. Reached'
    BY <1>5, <1>8, <1>9, <2>2 DEF Reached
  <2>4. OutboundPaid'
    <3>0. "out" \in Dirs
      BY DEF Dirs
    <3>1. Pending("out")' => s.pos = top["out"] /\ ~(s.pos < Expected("out"))
      BY <1>3, <1>9, <1>10, <2>2, <3>0
    <3>2. traffic.base["out"] # "ahead" => CountOf("out") <= traffic.repeats["out"]
      BY <1>9, <1>10, <2>1, <3>0 DEF OutboundPaid
    <3>3. ~(Pending("out")' /\ held'.pos < Expected("out")')
      BY <1>6, <1>9, <3>0, <3>1
    <3> QED
      BY <1>8, <1>9, <3>0, <3>2, <3>3 DEF OutboundPaid
  <2>5. InboundPaid'
    <3>0. "in" \in Dirs
      BY DEF Dirs
    <3>1. Pending("in")' => Expected("in") <= s.pos
      BY <1>3, <1>4, <1>9, <1>10, <2>2, <3>0
    <3>2. ~traffic.overtaken => CountOf("in") <= traffic.repeats["in"]
      BY <2>1 DEF InboundPaid
    <3> QED
      BY <1>6, <1>8, <1>9, <3>0, <3>1, <3>2 DEF InboundPaid
  <2>6. Exact'
    <3> SUFFICES ASSUME ~traffic'.overtaken, ~traffic'.missed, NEW d \in Dirs
                 PROVE  /\ Pending(d)' => s.pos + s.len = top'[d]
                        /\ traffic.base[d] = "new" =>
                             /\ CountOf(d) = traffic.repeats[d]
                             /\ IF Pending(d)' THEN Expected(d) <= s.pos /\ (d = "out" => Expected(d) = s.pos)
                                ELSE Expected(d) = top'[d]
      BY <1>6, <1>8, <1>9 DEF Exact
    <3>1. traffic.base[d] = "new" => CountOf(d) = traffic.repeats[d] /\ Expected(d) = top[d]
      BY <1>8, <1>10, <2>1 DEF Exact
    <3>2. CASE Pending(d)'
      <4>1. d = s.dir /\ ~s.repeat /\ s.pos + s.len = top'[d]
        BY <1>5, <1>10, <3>2
      <4>2. ~(s.pos < top[d]) /\ (d = "out" => s.pos = top[d])
        BY <1>3, <4>1
      <4> QED
        BY <1>4, <1>9, <3>1, <3>2, <4>1, <4>2
    <3>3. CASE ~Pending(d)'
      <4>1. top'[d] = top[d]
        <5>1. CASE d # s.dir \/ s.repeat
          BY <1>5, <5>1
        <5>2. CASE d = s.dir /\ ~s.repeat
          <6>1. s.len = 0 /\ s.pos = top[d]
            BY <1>3, <1>4, <1>10, <3>3, <5>2
          <6> QED
            BY <1>4, <1>5, <1>9, <5>2, <6>1
        <5> QED
          BY <5>1, <5>2
      <4> QED
        BY <3>1, <3>3, <4>1
    <3> QED
      BY <3>2, <3>3
  <2> QED
    BY <2>3, <2>4, <2>5, <2>6
<1>25. ASSUME Orderly'
       PROVE  Followed'
  <2>1. ~(s.pos > top[s.dir]) /\ Orderly
    BY <1>8, <1>25, Zenon DEF Orderly
  <2>2. \A d \in Dirs :
          CountOf(d) = 0 /\ Expected(d) = IF traffic.base[d] = "none" THEN 0 ELSE top[d] % Modulus
    BY <1>10, <2>1 DEF TcpInv, Followed
  <2> SUFFICES ASSUME NEW d \in Dirs
               PROVE  /\ CountOf(d) = 0
                      /\ Pending(d)' => s.pos + s.len = top'[d]
                      /\ Expected(d) = IF traffic.base[d] = "none" THEN 0
                                       ELSE (IF Pending(d)' THEN s.pos ELSE top'[d]) % Modulus
    BY <1>6, <1>8, <1>9 DEF Followed
  <2>3. CASE Pending(d)'
    <3>1. d = s.dir /\ ~s.repeat /\ s.pos + s.len = top'[d]
      BY <1>5, <1>10, <2>3
    <3>2. s.pos = top[d]
      BY <1>3, <1>4, <1>9, <2>1, <3>1
    <3> QED
      BY <2>2, <2>3, <3>1, <3>2
  <2>4. CASE ~Pending(d)'
    <3>1. top'[d] = top[d]
      <4>1. CASE d # s.dir \/ s.repeat
        BY <1>5, <4>1
      <4>2. CASE d = s.dir /\ ~s.repeat
        <5>1. s.len = 0 /\ s.pos = top[d]
          BY <1>3, <1>4, <1>10, <2>4, <4>2
        <5> QED
          BY <1>4, <1>5, <1>9, <4>2, <5>1
      <4> QED
        BY <4>1, <4>2
    <3> QED
      BY <2>2, <2>4, <3>1
  <2> QED
    BY <2>3, <2>4
<1> QED
  BY <1>20, <1>21, <1>22, <1>23, <1>24, <1>25 DEF TcpInv

\* A missed segment moves the end of its stream only.
LEMMA MissedKeeps ==
  ASSUME TcpInv, NEW s \in SegmentsNow, Missed(s)
  PROVE  TcpInv'
<1>1. /\ analytics \in Analytics \union {NoAnalytics} /\ traffic \in Traffic
      /\ top \in [Dirs -> Nat] /\ una \in Nat /\ held \in Segment \union {NoSegment}
      /\ HeldOnWire /\ NothingYet /\ AcksPaid
  BY DEF TcpInv, TcpTyped
<1>2. /\ s \in Segment
      /\ s.repeat <=> s.pos < top[s.dir]
      /\ s.repeat => s.len > 0 /\ s.pos + s.len <= top[s.dir]
  <2>1. traffic.start \in [Dirs -> Nat]
    BY <1>1 DEF Traffic
  <2> QED
    BY <1>1, <2>1, ShapeOf
<1>3. /\ top' \in [Dirs -> Nat] /\ (\A d \in Dirs : top[d] <= top'[d]) /\ (Wrapped => Wrapped')
  BY <1>1, <1>2, OnWireGrows DEF Missed
<1>4. held' = held /\ una' = una /\ analytics' = analytics
      /\ traffic' = [TrafficWith(s) EXCEPT !.missed = TRUE]
  BY DEF Missed
<1>5. /\ traffic' \in Traffic /\ traffic'.missed
      /\ traffic'.repeats = traffic.repeats /\ traffic'.base = traffic.base
      /\ traffic'.acked = traffic.acked /\ traffic'.overtaken = traffic.overtaken
  <2> DEFINE t == TrafficWith(s)
  <2>1. /\ t \in Traffic
        /\ t.start = traffic.start /\ t.repeats = traffic.repeats /\ t.base = traffic.base
        /\ t.acked = traffic.acked /\ t.missed = traffic.missed /\ t.overtaken = traffic.overtaken
    BY <1>1, TrafficWithOf
  <2> HIDE DEF t
  <2>2. traffic' = [t EXCEPT !.missed = TRUE]
    BY <1>4 DEF t
  <2>3. /\ traffic' \in Traffic /\ traffic'.missed = TRUE
        /\ traffic'.repeats = t.repeats /\ traffic'.base = t.base
        /\ traffic'.acked = t.acked /\ traffic'.overtaken = t.overtaken
    BY <2>1, <2>2 DEF Traffic
  <2> QED
    BY <2>1, <2>3
<1>6. \A d \in Dirs : /\ Expected(d)' = Expected(d) /\ CountOf(d)' = CountOf(d)
                      /\ Pending(d)' <=> Pending(d)
                      /\ Expected(d) \in Nat /\ top[d] \in Nat /\ top'[d] \in Nat
  <2>1. \A d : Expected(d)' = Expected(d) /\ CountOf(d)' = CountOf(d) /\ (Pending(d)' <=> Pending(d))
    BY <1>4 DEF Expected, CountOf, Pending
  <2>2. \A d \in Dirs : Expected(d) \in Nat
    BY <1>1, ExpectedTyped
  <2> QED
    BY <1>1, <1>3, <2>1, <2>2
<1>7. TcpTyped'
  BY <1>1, <1>3, <1>4, <1>5 DEF TcpTyped
<1>8. HeldOnWire'
  <2>1. held # NoSegment => held.pos \in Nat /\ held.len \in Nat /\ held.dir \in Dirs
    BY <1>1, EndTyped
  <2> QED
    BY <1>1, <1>4, <1>6, <1>3, <2>1 DEF HeldOnWire
<1>9. NothingYet' /\ AcksPaid'
  BY <1>1, <1>4, <1>5, <1>6 DEF NothingYet, AcksPaid
<1>10. ASSUME ~Wrapped'
       PROVE  Reached' /\ OutboundPaid' /\ InboundPaid' /\ Exact'
  <2>1. Reached /\ OutboundPaid /\ InboundPaid
    BY <1>3, <1>10 DEF TcpInv
  <2>2. Reached'
    BY <1>3, <1>5, <1>6, <2>1 DEF Reached
  <2>3. OutboundPaid'
    BY <1>4, <1>5, <1>6, <2>1 DEF OutboundPaid, Dirs
  <2>4. InboundPaid'
    BY <1>4, <1>5, <1>6, <2>1 DEF InboundPaid, Dirs
  <2>5. Exact'
    BY <1>5 DEF Exact
  <2> QED
    BY <2>2, <2>3, <2>4, <2>5
<1>11. ~Orderly'
  BY <1>5 DEF Orderly
<1> QED
  BY <1>7, <1>8, <1>9, <1>10, <1>11 DEF TcpInv

LEMMA AcknowledgeKeeps ==
  ASSUME TcpInv, UNCHANGED <<analytics, top, held, traffic>>, una' \in Nat
  PROVE  TcpInv'
<1>1. \A d : /\ Expected(d)' = Expected(d) /\ CountOf(d)' = CountOf(d)
             /\ Pending(d)' <=> Pending(d)
  BY DEF Expected, CountOf, Pending
<1>2. TcpTyped' /\ HeldOnWire' /\ NothingYet' /\ AcksPaid'
  BY <1>1 DEF TcpInv, TcpTyped, HeldOnWire, NothingYet, AcksPaid
<1>3. (Wrapped' <=> Wrapped) /\ (Orderly' <=> Orderly)
  BY DEF Wrapped, Orderly
<1>4. Reached => Reached'
  BY <1>1 DEF Reached
<1>5. OutboundPaid => OutboundPaid'
  BY <1>1 DEF OutboundPaid
<1>6. InboundPaid => InboundPaid'
  BY <1>1 DEF InboundPaid
<1>7. Exact => Exact'
  BY <1>1 DEF Exact
<1>8. Followed => Followed'
  BY <1>1 DEF Followed
<1> QED
  BY <1>2, <1>3, <1>4, <1>5, <1>6, <1>7, <1>8 DEF TcpInv

LEMMA TcpAlways == Spec => []TcpInv
<1>1. Init => TcpInv
  <2> SUFFICES ASSUME Init PROVE TcpInv
    OBVIOUS
  <2>1. /\ analytics = NoAnalytics /\ top \in [Dirs -> FirstPos] /\ una = top["out"]
        /\ held = NoSegment /\ traffic = NoTraffic(top)
    BY DEF Init, TcpInit
  <2>2. top \in [Dirs -> Nat] /\ una \in Nat
    <3>1. FirstPos \subseteq Nat
      BY TcpAssumption
    <3>2. top \in [Dirs -> Nat]
      BY <2>1, <3>1
    <3> QED
      BY <2>1, <3>2 DEF Dirs
  <2>3. traffic \in Traffic /\ traffic.base = [d \in Dirs |-> "none"] /\ traffic.repeats = [d \in Dirs |-> 0]
    <3> DEFINE r == [d \in Dirs |-> 0]
               b == [d \in Dirs |-> "none"]
    <3>1. r \in [Dirs -> Nat] /\ b \in [Dirs -> {"none", "repeat", "ahead", "new"}]
      OBVIOUS
    <3> HIDE DEF r, b
    <3>2. traffic = [start |-> top, repeats |-> r, base |-> b, acked |-> 0, gap |-> FALSE,
                     missed |-> FALSE, overtaken |-> FALSE]
      BY <2>1 DEF NoTraffic, r, b
    <3>3. traffic \in Traffic /\ traffic.base = b /\ traffic.repeats = r
      BY <2>2, <3>1, <3>2 DEF Traffic
    <3> QED
      BY <3>3 DEF r, b
  <2>4. \A d : Expected(d) = 0 /\ CountOf(d) = 0 /\ ~Pending(d)
    BY <2>1 DEF Expected, CountOf, Pending
  <2>5. TcpTyped /\ HeldOnWire /\ NothingYet /\ AcksPaid
    BY <2>1, <2>2, <2>3, <2>4 DEF TcpTyped, HeldOnWire, NothingYet, AcksPaid
  <2>6. Reached /\ OutboundPaid /\ InboundPaid /\ Exact /\ Followed
    BY <2>2, <2>3, <2>4 DEF Reached, OutboundPaid, InboundPaid, Exact, Followed, Dirs
  <2> QED
    BY <2>5, <2>6 DEF TcpInv
<1>2. TcpInv /\ [Next]_mergeVars => TcpInv'
  <2> SUFFICES ASSUME TcpInv, [Next]_mergeVars PROVE TcpInv'
    OBVIOUS
  <2>1. una \in Nat /\ top["out"] \in Nat
    BY DEF TcpInv, TcpTyped, Dirs
  <2>2. CASE UNCHANGED tcpVars
    BY <2>1, <2>2, AcknowledgeKeeps DEF tcpVars
  <2>3. CASE TcpNext
    <3>1. CASE \E s \in SegmentsNow : Captured(s) \/ Hold(s) \/ Missed(s)
      BY <3>1, CapturedKeeps, HoldKeeps, MissedKeeps
    <3>2. CASE Release
      BY <3>2, ReleaseKeeps
    <3>3. CASE Acknowledge
      BY <2>1, <3>3, AcknowledgeKeeps DEF Acknowledge
    <3> QED
      BY <2>3, <3>1, <3>2, <3>3 DEF TcpNext
  <2> QED
    BY <2>2, <2>3 DEF Next, MergeTcp, MergeUdp, mergeVars
<1> QED
  BY <1>1, <1>2, PTL DEF Spec

\* For every modulus, every initial sequence number, and streams of any length: the counters
\* claim what happened, whatever the capture misses and the processors reorder.
THEOREM CountersAreReal == Spec => []CountsReal
<1>1. TcpInv => CountsReal
  <2> SUFFICES ASSUME TcpInv, analytics # NoAnalytics PROVE
        /\ ~Wrapped \/ Orderly =>
             /\ traffic.base["out"] # "ahead" => Counted("out") <= traffic.repeats["out"]
             /\ ~traffic.overtaken => Counted("in") <= traffic.repeats["in"]
        /\ ~Wrapped /\ ~traffic.overtaken /\ ~traffic.missed =>
             \A d \in Dirs : traffic.base[d] = "new" => Counted(d) = traffic.repeats[d]
        /\ 4 * analytics.fast_retransmit_count <= traffic.acked
    BY DEF CountsReal
  <2>1. /\ analytics \in Analytics /\ traffic \in Traffic
        /\ \A d \in Dirs : traffic.repeats[d] \in Nat
    BY DEF TcpInv, TcpTyped, Traffic
  <2>2. \A d \in Dirs : Counted(d) = CountOf(d) /\ CountOf(d) \in Nat
    BY <2>1 DEF Counted, CountOf, Tally, Analytics
  <2>3. "out" \in Dirs /\ "in" \in Dirs
    BY DEF Dirs
  <2>4. ASSUME ~Wrapped
        PROVE  /\ traffic.base["out"] # "ahead" => CountOf("out") <= traffic.repeats["out"]
               /\ ~traffic.overtaken => CountOf("in") <= traffic.repeats["in"]
    <3>1. OutboundPaid /\ InboundPaid
      BY <2>4 DEF TcpInv
    <3> QED
      BY <2>1, <2>2, <2>3, <3>1 DEF OutboundPaid, InboundPaid
  <2>5. ASSUME Orderly
        PROVE  CountOf("out") <= traffic.repeats["out"] /\ CountOf("in") <= traffic.repeats["in"]
    <3>1. Followed
      BY <2>5 DEF TcpInv
    <3> QED
      BY <2>1, <2>3, <3>1 DEF Followed
  <2>6. ASSUME ~Wrapped, ~traffic.overtaken, ~traffic.missed
        PROVE  \A d \in Dirs : traffic.base[d] = "new" => CountOf(d) = traffic.repeats[d]
    <3>1. Exact
      BY <2>6 DEF TcpInv
    <3> QED
      BY <2>6, <3>1 DEF Exact
  <2>7. 4 * analytics.fast_retransmit_count <= traffic.acked
    <3>1. AcksOf(analytics, traffic.acked)
      BY DEF TcpInv, AcksPaid
    <3>2. /\ analytics.duplicate_ack_count \in Nat /\ analytics.fast_retransmit_count \in Nat
          /\ traffic.acked \in Nat
      BY <2>1 DEF Analytics, Traffic
    <3> QED
      BY <3>1, <3>2 DEF AcksOf
  <2> QED
    BY <2>2, <2>3, <2>4, <2>5, <2>6, <2>7
<1> QED
  BY <1>1, TcpAlways, PTL

=============================================================================
