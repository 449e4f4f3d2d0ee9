-------------------------- MODULE TcpTrackerProofs --------------------------
(***************************************************************************)
(* Theorems about the tracked TCP state.  That it only moves forward needs *)
(* nothing of the endpoints: it holds for every sequence of segments,      *)
(* applied in every order.  What it says of the connection rests on what   *)
(* the endpoints can have sent, whatever is lost, resent or under way:     *)
(* EndpointInv, the first part of this module.                             *)
(***************************************************************************)
EXTENDS TcpTrackerProps, SequenceTheorems, TLAPS

-----------------------------------------------------------------------------
(* What the endpoints have sent.  Flagged are the segments they send; who   *)
(* sends a SYN or a SYN+ACK is settled by the active open, and a FIN or an  *)
(* RST has been recorded when it is sent.                                   *)

Flagged == {{"syn"}, {"syn", "ack"}, {"ack"}, {"fin", "ack"}, {"rst"}}

Uttered(e, f) ==
  /\ f \in Flagged
  /\ f = {"syn"} => e = initiator
  /\ f = {"syn", "ack"} => e # initiator
  /\ "fin" \in f => e \in finSent
  /\ "rst" \in f => reset

OnWire(e) == Range(wire[e])
Noticed == Range(seen)
Sender(c) == IF c.is_outgoing THEN "local" ELSE "remote"

EndpointTyped ==
  /\ initiator \in Ends
  /\ est \in [Ends -> EndpointStates]
  /\ wire \in [Ends -> Seq(Segment)]
  /\ finSent \subseteq Ends
  /\ reset \in BOOLEAN
  /\ budget \in [data : Nat, losses : Nat, resends : Nat]
  /\ seen \in Seq(Captured)

(* Only the initiator opens, only the other end listens.                    *)
Roles ==
  \A e \in Ends :
    IF e = initiator THEN est[e] \notin {"LISTEN", "SYN_RECV"}
                     ELSE est[e] \notin {"UNOPENED", "SYN_SENT"}

WireUttered ==
  \A e \in Ends : \A g \in OnWire(e) :
    /\ Uttered(Peer(e), g.flags)
    /\ g.flags = {"syn", "ack"} => ~g.finAcked
    /\ g.finAcked => e \in finSent

NoticedUttered == \A c \in Noticed : Uttered(Sender(c), c.flags)

(* Until the SYN+ACK arrives nothing but the handshake is under way.        *)
Opening(e) == est[e] \in {"UNOPENED", "SYN_SENT"}
HandshakeFirst ==
  \A e \in Ends : Opening(e) =>
    /\ est[Peer(e)] \in {"LISTEN", "SYN_RECV"}
    /\ \A g \in OnWire(e) : g.flags = {"syn", "ack"}
    /\ \A g \in OnWire(Peer(e)) : g.flags = {"syn"}

(* Which states come with and after a FIN.                                  *)
FinsKnown ==
  \A e \in Ends :
    /\ e \in finSent =>
         est[e] \in {"FIN_WAIT1", "FIN_WAIT2", "CLOSING", "LAST_ACK", "TIME_WAIT", "CLOSED"}
    /\ est[e] \in GotFin => Peer(e) \in finSent

(* Who sent a FIN that acknowledged none, and whose FIN has been answered   *)
(* by a FIN or will be, closed first: it is on the side of the active close *)
(* for good.                                                                *)
ActiveStates == {"FIN_WAIT1", "FIN_WAIT2", "CLOSING", "TIME_WAIT", "CLOSED"}
ClosedFirst(e) ==
  \/ \E g \in OnWire(Peer(e)) : "fin" \in g.flags /\ ~g.finAcked
  \/ est[Peer(e)] \in {"CLOSING", "CLOSE_WAIT", "LAST_ACK"}
  \/ \E g \in OnWire(e) : "fin" \in g.flags /\ g.finAcked
ActiveStaysActive == \A e \in Ends : ClosedFirst(e) => est[e] \in ActiveStates

EndpointInv ==
  /\ EndpointTyped
  /\ Roles
  /\ WireUttered
  /\ NoticedUttered
  /\ HandshakeFirst
  /\ FinsKnown
  /\ ActiveStaysActive

-----------------------------------------------------------------------------
(* Each action of an endpoint is a move: it enters state s and sends a      *)
(* segment with the flags f, or none.                                       *)

NoReply == {}
Reply(s, f) == [flags |-> f, finAcked |-> s \in GotFin]

Effect(e, s, f) ==
  /\ initiator' = initiator
  /\ est' = [est EXCEPT ![e] = s]
  /\ \A g \in OnWire(e)' : g \in OnWire(e)
  /\ \A g \in OnWire(Peer(e))' : g \in OnWire(Peer(e)) \/ (f # NoReply /\ g = Reply(s, f))
  /\ finSent' = IF "fin" \in f THEN finSent \union {e} ELSE finSent
  /\ reset' = (reset \/ "rst" \in f)

(* By its own will, or on the receipt of g.                                 *)
Own(e, s, f) ==
  \/ s = est[e] /\ f = NoReply
  \/ est[e] = "UNOPENED" /\ s = "SYN_SENT" /\ f = {"syn"}
  \/ est[e] \in Synchronized /\ s = est[e] /\ f = {"ack"}
  \/ est[e] = "ESTABLISHED" /\ s = "FIN_WAIT1" /\ f = {"fin", "ack"}
  \/ est[e] = "CLOSE_WAIT" /\ s = "LAST_ACK" /\ f = {"fin", "ack"}
  \/ est[e] \in Synchronized /\ s = "CLOSED" /\ f = {"rst"}
  \/ est[e] = "TIME_WAIT" /\ s = "CLOSED" /\ f = NoReply
  \/ s = est[e] /\ f = Unacknowledged(s)
Receipt(e, g, s, f) ==
  s = After(est[e], g) /\ (f = NoReply \/ Answers(est[e], g) = <<f>>)

Move(e, s, f) == Own(e, s, f) \/ \E g \in OnWire(e) : Receipt(e, g, s, f)

(* The captured segments: what the local endpoint takes from the wire, then *)
(* what it sends.                                                           *)
OfWire(g, out) == [flags |-> g.flags, is_outgoing |-> out]
CaptureOf(n, f) ==
  LET got == IF n = 0 THEN seen ELSE Append(seen, OfWire(Head(wire["local"]), FALSE)) IN
  IF f = NoReply THEN got ELSE Append(got, [flags |-> f, is_outgoing |-> TRUE])

Captures(e, s, f) ==
  IF e = "remote" THEN seen' = seen
  ELSE \/ seen' = CaptureOf(0, f) /\ Own(e, s, f)
       \/ seen' = CaptureOf(1, f) /\ wire[e] # <<>> /\ Receipt(e, Head(wire[e]), s, f)

LEMMA PeerOther == \A e \in Ends : Peer(e) \in Ends /\ Peer(e) # e /\ Peer(Peer(e)) = e
BY DEF Ends, Peer

LEMMA FlaggedFlags == \A f \in Flagged \union {NoReply} : f \subseteq Flags
BY DEF Flagged, Flags, NoReply

(* The segments of a sequence after the usual operations.                   *)
LEMMA AfterTaking ==
  ASSUME NEW S, NEW q \in Seq(S), NEW n \in {0, 1}, n <= Len(q)
  PROVE  /\ SubSeq(q, n + 1, Len(q)) \in Seq(S)
         /\ SubSeq(q, 1, n) \in Seq(S)
         /\ Range(SubSeq(q, n + 1, Len(q))) \subseteq Range(q)
         /\ Range(SubSeq(q, 1, n)) \subseteq Range(q)
BY DEF Range

LEMMA RangeOfOne ==
  ASSUME NEW x
  PROVE  Range(<<x>>) = {x}
BY DEF Range

LEMMA RangeOfNone == Range(<<>>) = {}
BY DEF Range

LEMMA SegmentsJoined ==
  \A p, q \in Seq(Segment) : Range(p \o q) = Range(p) \union Range(q)
<1> SUFFICES ASSUME NEW p \in Seq(Segment), NEW q \in Seq(Segment)
    PROVE Range(p \o q) = Range(p) \union Range(q)
  OBVIOUS
<1> QED BY RangeConcatenation, Zenon

LEMMA AnswersShape ==
  \A s, g : \E f \in Flagged \union {NoReply} :
    Answers(s, g) = IF f = NoReply THEN <<>> ELSE <<f>>
BY DEF Answers, Flagged, NoReply

Sends(f) == IF f = NoReply THEN <<>> ELSE <<f>>

LEMMA AfterTyped == \A s \in EndpointStates : \A g : After(s, g) \in EndpointStates
BY DEF After, EndpointStates, TcpStates

LEMMA MoveTyped ==
  ASSUME EndpointTyped, NEW e \in Ends, NEW s, NEW f, Move(e, s, f)
  PROVE  s \in EndpointStates
<1>1. est[e] \in EndpointStates
  BY DEF EndpointTyped
<1> QED BY <1>1, AfterTyped DEF Move, Own, Receipt, EndpointStates, TcpStates

(* What a step of the model changes, with the segment it sends.             *)
LEMMA StepEffect ==
  ASSUME EndpointTyped, NEW e \in Ends, NEW n \in {0, 1}, n <= Len(wire[e]),
         NEW s \in EndpointStates, NEW f \in Flagged \union {NoReply},
         Step(e, n, s, Sends(f)), initiator' = initiator,
         budget' \in [data : Nat, losses : Nat, resends : Nat]
  PROVE  Effect(e, s, f) /\ EndpointTyped'
<1> DEFINE sent == [i \in DOMAIN Sends(f) |->
                      [flags |-> Sends(f)[i], finAcked |-> s \in GotFin]]
<1>1. /\ sent = IF f = NoReply THEN <<>> ELSE <<Reply(s, f)>>
      /\ sent \in Seq(Segment)
  <2>1. CASE f = NoReply
    BY <2>1 DEF Sends
  <2>2. CASE f # NoReply
    <3>1. DOMAIN <<f>> = {1} /\ <<f>>[1] = f
      OBVIOUS
    <3>2. sent = [i \in {1} |-> Reply(s, f)]
      BY <3>1, <2>2 DEF Sends, Reply
    <3>3. Reply(s, f) \in Segment
      BY FlaggedFlags DEF Reply, Segment
    <3> HIDE DEF sent
    <3>4. sent = <<Reply(s, f)>>
      BY <3>2
    <3> QED BY <2>2, <3>3, <3>4
  <2> QED BY <2>1, <2>2
<1>2. wire[e] \in Seq(Segment) /\ wire[Peer(e)] \in Seq(Segment) /\ seen \in Seq(Captured)
  BY PeerOther DEF EndpointTyped
<1>3. /\ est' = [est EXCEPT ![e] = s]
      /\ wire' = [wire EXCEPT ![e] = SubSeq(@, n + 1, Len(@)), ![Peer(e)] = @ \o sent]
      /\ seen' = IF e = "local"
           THEN seen \o Capture(SubSeq(wire[e], 1, n), FALSE) \o Capture(sent, TRUE)
           ELSE seen
      /\ finSent' = IF \E i \in DOMAIN Sends(f) : "fin" \in Sends(f)[i]
                      THEN finSent \union {e} ELSE finSent
      /\ reset' = (reset \/ \E i \in DOMAIN Sends(f) : "rst" \in Sends(f)[i])
  BY DEF Step
<1>4. /\ (\E i \in DOMAIN Sends(f) : "fin" \in Sends(f)[i]) <=> "fin" \in f
      /\ (\E i \in DOMAIN Sends(f) : "rst" \in Sends(f)[i]) <=> "rst" \in f
  BY DEF Sends, NoReply
<1> HIDE DEF sent
<1>5. /\ wire'[e] = SubSeq(wire[e], n + 1, Len(wire[e]))
      /\ wire'[Peer(e)] = wire[Peer(e)] \o sent
      /\ wire' \in [Ends -> Seq(Segment)]
  <2>1. SubSeq(wire[e], n + 1, Len(wire[e])) \in Seq(Segment)
    BY <1>2, AfterTaking
  <2>2. wire[Peer(e)] \o sent \in Seq(Segment)
    BY <1>1, <1>2
  <2>3. wire \in [Ends -> Seq(Segment)]
    BY DEF EndpointTyped
  <2> QED BY <1>3, <2>1, <2>2, <2>3, PeerOther
<1>6. \A g \in OnWire(e)' : g \in OnWire(e)
  BY <1>2, <1>5, AfterTaking DEF OnWire
<1>7. \A g \in OnWire(Peer(e))' : g \in OnWire(Peer(e)) \/ (f # NoReply /\ g = Reply(s, f))
  <2>1. OnWire(Peer(e))' = Range(wire[Peer(e)] \o sent)
    BY <1>5 DEF OnWire
  <2>2. Range(wire[Peer(e)] \o sent) = OnWire(Peer(e)) \union Range(sent)
    <3> DEFINE w == wire[Peer(e)]
    <3>1. w \in Seq(Segment) /\ OnWire(Peer(e)) = Range(w)
      BY <1>2 DEF OnWire
    <3> HIDE DEF w
    <3>2. Range(w \o sent) = Range(w) \union Range(sent)
      BY <3>1, <1>1, SegmentsJoined
    <3> QED BY <3>1, <3>2 DEF w
  <2>3. \A g \in Range(sent) : f # NoReply /\ g = Reply(s, f)
    BY <1>1, RangeOfOne, RangeOfNone
  <2> QED BY <2>1, <2>2, <2>3
<1>8. seen' \in Seq(Captured)
  <2>1. \A q \in Seq(Segment), out \in BOOLEAN : Capture(q, out) \in Seq(Captured)
    <3> SUFFICES ASSUME NEW q \in Seq(Segment), NEW out \in BOOLEAN
        PROVE Capture(q, out) \in Seq(Captured)
      OBVIOUS
    <3>1. DOMAIN q = 1..Len(q) /\ Len(q) \in Nat /\ \A i \in 1..Len(q) : q[i] \in Segment
      OBVIOUS
    <3>2. \A i \in 1..Len(q) : [flags |-> q[i].flags, is_outgoing |-> out] \in Captured
      BY <3>1 DEF Segment, Captured
    <3>3. Capture(q, out) \in [1..Len(q) -> Captured]
      BY <3>1, <3>2 DEF Capture
    <3> QED BY <3>1, <3>3
  <2>2. SubSeq(wire[e], 1, n) \in Seq(Segment)
    BY <1>2, AfterTaking
  <2>3. /\ Capture(SubSeq(wire[e], 1, n), FALSE) \in Seq(Captured)
        /\ Capture(sent, TRUE) \in Seq(Captured)
    BY <1>1, <2>1, <2>2
  <2> DEFINE got == Capture(SubSeq(wire[e], 1, n), FALSE)
             gone == Capture(sent, TRUE)
  <2>4. got \in Seq(Captured) /\ gone \in Seq(Captured)
    BY <2>3
  <2> HIDE DEF got, gone
  <2>5. seen \o got \in Seq(Captured)
    BY <1>2, <2>4
  <2>6. (seen \o got) \o gone \in Seq(Captured)
    BY <2>4, <2>5
  <2> QED BY <1>2, <1>3, <2>6 DEF got, gone
<1>9. Effect(e, s, f)
  BY <1>3, <1>4, <1>6, <1>7 DEF Effect
<1>10. EndpointTyped'
  BY <1>3, <1>5, <1>8 DEF EndpointTyped
<1> QED BY <1>9, <1>10

(* The captured segments of a step.                                         *)
LEMMA SingleFunction ==
  ASSUME NEW x, NEW h, h = [i \in {1} |-> x]
  PROVE  h = <<x>>
OBVIOUS

LEMMA TakeOne ==
  ASSUME NEW S, NEW q \in Seq(S), q # <<>>
  PROVE  SubSeq(q, 1, 1) = <<Head(q)>> /\ Head(q) \in S
<1>1. Head(q) \in S
  BY HeadTailProperties
<1>2. Len(q) >= 1 /\ Head(q) = q[1]
  OBVIOUS
<1>3. SubSeq(q, 1, 1) \in Seq(S) /\ Len(SubSeq(q, 1, 1)) = 1 /\ SubSeq(q, 1, 1)[1] = q[1]
  BY <1>2, SubSeqProperties
<1>4. SubSeq(q, 1, 1) = [i \in {1} |-> q[1]]
  <2> DEFINE p == SubSeq(q, 1, 1)
  <2>1. p \in Seq(S) /\ Len(p) = 1 /\ p[1] = q[1]
    BY <1>3
  <2> HIDE DEF p
  <2>2. DOMAIN p = {1} /\ p = [i \in DOMAIN p |-> p[i]]
    BY <2>1
  <2>3. p = [i \in {1} |-> q[1]]
    BY <2>1, <2>2
  <2> QED BY <2>3 DEF p
<1> QED BY <1>1, <1>2, <1>4, SingleFunction

LEMMA JoinOne ==
  ASSUME NEW S, NEW q \in Seq(S), NEW x \in S
  PROVE  /\ q \o <<x>> = Append(q, x)
         /\ Append(q, x) \in Seq(S)
         /\ Range(Append(q, x)) = Range(q) \union {x}
<1>1. /\ q \o <<x>> = Append(q, x)
      /\ Append(q, x) \in Seq(S)
      /\ <<x>> \in Seq(S)
  OBVIOUS
<1>2. Range(q \o <<x>>) = Range(q) \union Range(<<x>>)
  BY <1>1, RangeConcatenation, Zenon
<1> QED BY <1>1, <1>2, RangeOfOne

LEMMA JoinNone ==
  ASSUME NEW S, NEW q \in Seq(S)
  PROVE  q \o <<>> = q
OBVIOUS

LEMMA CaptureOne ==
  ASSUME NEW g, NEW out
  PROVE  Capture(<<g>>, out) = <<OfWire(g, out)>>
<1>1. DOMAIN <<g>> = {1} /\ <<g>>[1] = g
  OBVIOUS
<1>2. Capture(<<g>>, out) = [i \in {1} |-> OfWire(g, out)]
  BY <1>1 DEF Capture, OfWire
<1> QED BY <1>2, SingleFunction

LEMMA CaptureNone == \A out : Capture(<<>>, out) = <<>>
BY DEF Capture

LEMMA TakeNone ==
  ASSUME NEW S, NEW q \in Seq(S)
  PROVE  SubSeq(q, 1, 0) = <<>>
OBVIOUS

(* What is captured of a step of the local endpoint.                        *)
LEMMA StepCaptures ==
  ASSUME EndpointTyped, NEW n \in {0, 1}, n <= Len(wire["local"]), NEW s,
         NEW f \in Flagged \union {NoReply}, Step("local", n, s, Sends(f))
  PROVE  seen' = CaptureOf(n, f)
<1> DEFINE w == wire["local"]
           sent == [i \in DOMAIN Sends(f) |->
                      [flags |-> Sends(f)[i], finAcked |-> s \in GotFin]]
           got == Capture(SubSeq(w, 1, n), FALSE)
           gone == Capture(sent, TRUE)
<1>1. seen' = (seen \o got) \o gone
  BY DEF Step
<1>2. w \in Seq(Segment) /\ seen \in Seq(Captured)
  BY DEF EndpointTyped, Ends
<1>3. got = IF n = 0 THEN <<>> ELSE <<OfWire(Head(w), FALSE)>>
  <2> HIDE DEF w
  <2>1. CASE n = 0
    BY <1>2, <2>1, TakeNone, CaptureNone
  <2>2. CASE n = 1
    <3>1. w # <<>>
      BY <1>2, <2>2 DEF w
    <3>2. SubSeq(w, 1, 1) = <<Head(w)>>
      BY <1>2, <3>1, TakeOne
    <3>3. got = Capture(<<Head(w)>>, FALSE)
      BY <2>2, <3>2
    <3>4. Capture(<<Head(w)>>, FALSE) = <<OfWire(Head(w), FALSE)>>
      BY CaptureOne, Zenon
    <3> HIDE DEF got
    <3>5. got = <<OfWire(Head(w), FALSE)>>
      BY <3>3, <3>4, Zenon
    <3> QED BY <2>2, <3>5
  <2> QED BY <2>1, <2>2
<1>4. gone = IF f = NoReply THEN <<>> ELSE <<[flags |-> f, is_outgoing |-> TRUE]>>
  <2>1. CASE f = NoReply
    <3>1. sent = <<>>
      BY <2>1 DEF Sends
    <3> HIDE DEF sent
    <3> QED BY <2>1, <3>1, CaptureNone
  <2>2. CASE f # NoReply
    <3>1. DOMAIN <<f>> = {1} /\ <<f>>[1] = f
      OBVIOUS
    <3>2. sent = [i \in {1} |-> Reply(s, f)]
      BY <2>2, <3>1 DEF Sends, Reply
    <3> HIDE DEF sent
    <3>3. sent = <<Reply(s, f)>>
      BY <3>2, SingleFunction
    <3>4. OfWire(Reply(s, f), TRUE) = [flags |-> f, is_outgoing |-> TRUE]
      BY DEF OfWire, Reply
    <3> QED BY <2>2, <3>3, <3>4, CaptureOne
  <2> QED BY <2>1, <2>2
<1> HIDE DEF got, gone
<1>5. (seen \o got) \in Seq(Captured) /\
      seen \o got = IF n = 0 THEN seen ELSE Append(seen, OfWire(Head(w), FALSE))
  <2>1. CASE n = 0
    BY <1>2, <1>3, <2>1, JoinNone
  <2>2. CASE n = 1
    <3>1. w # <<>>
      BY <1>2, <2>2
    <3> HIDE DEF w
    <3>2. Head(w) \in Segment
      BY <1>2, <3>1, TakeOne
    <3>3. OfWire(Head(w), FALSE) \in Captured
      BY <3>2 DEF OfWire, Segment, Captured
    <3>4. got = <<OfWire(Head(w), FALSE)>>
      BY <1>3, <2>2
    <3>5. /\ seen \o <<OfWire(Head(w), FALSE)>> = Append(seen, OfWire(Head(w), FALSE))
          /\ Append(seen, OfWire(Head(w), FALSE)) \in Seq(Captured)
      BY <1>2, <3>3, JoinOne
    <3>6. seen \o got = Append(seen, OfWire(Head(w), FALSE))
      BY <3>4, <3>5, Zenon
    <3>7. n # 0
      BY <2>2
    <3> QED BY <3>5, <3>6, <3>7, Zenon
  <2> QED BY <2>1, <2>2
<1> DEFINE have == seen \o got
<1> HIDE DEF have
<1>6. have \in Seq(Captured)
  BY <1>5 DEF have
<1>7. have \o gone = IF f = NoReply THEN have ELSE Append(have, [flags |-> f, is_outgoing |-> TRUE])
  <2>1. CASE f = NoReply
    BY <1>4, <1>6, <2>1, JoinNone
  <2>2. CASE f # NoReply
    <3>1. [flags |-> f, is_outgoing |-> TRUE] \in Captured
      BY <2>2, FlaggedFlags DEF Captured
    <3> QED BY <1>4, <1>6, <2>2, <3>1, JoinOne
  <2> QED BY <2>1, <2>2
<1> QED BY <1>1, <1>5, <1>7 DEF CaptureOf, have

Budgets == [data : Nat, losses : Nat, resends : Nat]

LEMMA StepMoves ==
  ASSUME EndpointTyped, NEW e \in Ends, NEW n \in {0, 1}, n <= Len(wire[e]),
         NEW s, NEW f \in Flagged \union {NoReply},
         Step(e, n, s, Sends(f)), initiator' = initiator, budget' \in Budgets,
         n = 0 => Own(e, s, f),
         n = 1 => wire[e] # <<>> /\ Receipt(e, Head(wire[e]), s, f)
  PROVE  EndpointTyped' /\ \E t \in EndpointStates, h \in Flagged \union {NoReply} :
                              Effect(e, t, h) /\ Move(e, t, h) /\ Captures(e, t, h)
<1>1. wire[e] # <<>> => Head(wire[e]) \in OnWire(e)
  <2>1. wire[e] \in Seq(Segment)
    BY DEF EndpointTyped
  <2>2. wire[e] # <<>> => 1 \in DOMAIN wire[e] /\ Head(wire[e]) = wire[e][1]
    BY <2>1
  <2> QED BY <2>2 DEF OnWire, Range
<1>2. Move(e, s, f)
  BY <1>1 DEF Move
<1>3. s \in EndpointStates
  BY <1>2, MoveTyped
<1>4. Effect(e, s, f) /\ EndpointTyped'
  BY <1>3, StepEffect DEF Budgets
<1>5. Captures(e, s, f)
  <2>1. CASE e = "remote"
    BY <2>1 DEF Step, Captures
  <2>2. CASE e = "local"
    BY <2>2, StepCaptures DEF Captures
  <2> QED BY <2>1, <2>2 DEF Ends
<1> QED BY <1>2, <1>3, <1>4, <1>5

LEMMA SpendingTyped ==
  ASSUME budget \in Budgets
  PROVE  /\ budget.data > 0 => [budget EXCEPT !.data = @ - 1] \in Budgets
         /\ budget.losses > 0 => [budget EXCEPT !.losses = @ - 1] \in Budgets
         /\ budget.resends > 0 => [budget EXCEPT !.resends = @ - 1] \in Budgets
BY DEF Budgets

LEMMA EndpointMoves ==
  ASSUME EndpointTyped, NEW e \in Ends, Endpoint(e)
  PROVE  EndpointTyped' /\ \E s \in EndpointStates, f \in Flagged \union {NoReply} :
                              Effect(e, s, f) /\ Move(e, s, f) /\ Captures(e, s, f)
<1>1. wire[e] \in Seq(Segment) /\ Len(wire[e]) >= 0 /\ budget \in Budgets
  BY DEF EndpointTyped, Budgets
<1>2. \A f \in Flagged : <<f>> = Sends(f)
  BY DEF Sends, Flagged, NoReply
<1>3. CASE Open(e)
  <2>1. Step(e, 0, "SYN_SENT", Sends({"syn"})) /\ Own(e, "SYN_SENT", {"syn"})
    BY <1>2, <1>3 DEF Open, Own, Flagged
  <2> QED BY <1>1, <1>3, <2>1, StepMoves DEF Open, Flagged
<1>4. CASE Receive(e)
  <2> DEFINE g == Head(wire[e])
             to == After(est[e], g)
  <2>1. wire[e] # <<>> /\ Len(wire[e]) >= 1 /\ g \in OnWire(e)
    <3>1. wire[e] # <<>>
      BY <1>4 DEF Receive
    <3> QED BY <1>1, <3>1 DEF OnWire, Range
  <2>2. PICK f \in Flagged \union {NoReply} : Answers(est[e], g) = Sends(f)
    BY AnswersShape DEF Sends
  <2>3. Step(e, 1, to, Sends(f)) \/ Step(e, 1, to, Sends(NoReply))
    BY <1>4, <2>2 DEF Receive, Sends
  <2>4. Receipt(e, g, to, f) /\ Receipt(e, g, to, NoReply)
    BY <2>1, <2>2 DEF Receipt, Sends
  <2>5. initiator' = initiator /\ budget' \in Budgets
    BY <1>1, <1>4 DEF Receive
  <2> HIDE DEF to
  <2> QED BY <1>1, <2>1, <2>3, <2>4, <2>5, StepMoves
<1>5. CASE Send(e)
  <2>1. Step(e, 0, est[e], Sends({"ack"})) /\ Own(e, est[e], {"ack"})
    BY <1>2, <1>5 DEF Send, Own, Flagged
  <2>2. budget' \in Budgets /\ initiator' = initiator
    BY <1>1, <1>5, SpendingTyped DEF Send
  <2> QED BY <1>1, <2>1, <2>2, StepMoves DEF Flagged
<1>6. CASE Close(e)
  <2>1. \E s : Step(e, 0, s, Sends({"fin", "ack"})) /\ Own(e, s, {"fin", "ack"})
    BY <1>2, <1>6 DEF Close, Own, Flagged
  <2> QED BY <1>1, <1>6, <2>1, StepMoves DEF Close, Flagged
<1>7. CASE Abort(e)
  <2>1. Step(e, 0, "CLOSED", Sends({"rst"})) /\ Own(e, "CLOSED", {"rst"})
    BY <1>2, <1>7 DEF Abort, Own, Flagged
  <2> QED BY <1>1, <1>7, <2>1, StepMoves DEF Abort, Flagged
<1>8. CASE TimeWaitOver(e)
  <2>1. Step(e, 0, "CLOSED", Sends(NoReply)) /\ Own(e, "CLOSED", NoReply)
    BY <1>8 DEF TimeWaitOver, Own, Sends
  <2> QED BY <1>1, <1>8, <2>1, StepMoves DEF TimeWaitOver
<1>9. CASE Resend(e)
  <2> DEFINE f == Unacknowledged(est[e])
  <2>1. f \in Flagged /\ f # NoReply
    BY <1>9 DEF Resend, Unacknowledged, Flagged, NoReply
  <2>2. Step(e, 0, est[e], Sends(f)) /\ Own(e, est[e], f)
    BY <1>9, <2>1 DEF Resend, Own, Sends
  <2>3. budget' \in Budgets /\ initiator' = initiator
    BY <1>1, <1>9, SpendingTyped DEF Resend
  <2> QED BY <1>1, <2>1, <2>2, <2>3, StepMoves
<1>10. CASE Lose(e)
  <2>1. est[e] \in EndpointStates /\ Own(e, est[e], NoReply)
    BY DEF EndpointTyped, Own
  <2>2. wire[e] # <<>> /\ wire' = [wire EXCEPT ![e] = Tail(wire[e])]
        /\ UNCHANGED <<initiator, est, finSent, reset, seen>>
    BY <1>10 DEF Lose
  <2>3. Tail(wire[e]) \in Seq(Segment) /\ Range(Tail(wire[e])) \subseteq Range(wire[e])
    BY <1>1, <2>2, HeadTailProperties DEF Range
  <2>4. wire \in [Ends -> Seq(Segment)]
    BY DEF EndpointTyped
  <2>5. /\ wire' \in [Ends -> Seq(Segment)]
        /\ wire'[e] = Tail(wire[e]) /\ wire'[Peer(e)] = wire[Peer(e)]
    BY <2>2, <2>3, <2>4, PeerOther
  <2>6. Effect(e, est[e], NoReply)
    <3>1. est' = [est EXCEPT ![e] = est[e]]
      BY <2>2 DEF EndpointTyped
    <3>2. /\ \A g \in OnWire(e)' : g \in OnWire(e)
          /\ \A g \in OnWire(Peer(e))' : g \in OnWire(Peer(e))
      BY <2>3, <2>5 DEF OnWire
    <3> QED BY <2>2, <3>1, <3>2 DEF Effect, NoReply, EndpointTyped
  <2>7. EndpointTyped'
    BY <1>1, <1>10, <2>2, <2>5, SpendingTyped DEF Lose, EndpointTyped, Budgets
  <2>8. Captures(e, est[e], NoReply) /\ Move(e, est[e], NoReply)
    BY <2>1, <2>2 DEF Captures, CaptureOf, Move
  <2> QED BY <2>1, <2>6, <2>7, <2>8
<1> QED BY <1>3, <1>4, <1>5, <1>6, <1>7, <1>8, <1>9, <1>10 DEF Endpoint

-----------------------------------------------------------------------------
(* Every move keeps the invariant.                                          *)

(* A received segment, by what is known of those on the wire.               *)
LEMMA AfterReceipt ==
  ASSUME NEW s \in EndpointStates, NEW g \in Segment
  PROVE  LET to == After(s, g) IN
         /\ to # s /\ "rst" \notin g.flags =>
              \/ s = "LISTEN" /\ g.flags = {"syn"} /\ to = "SYN_RECV"
              \/ s = "SYN_SENT" /\ g.flags = {"syn", "ack"} /\ to = "ESTABLISHED"
              \/ s = "SYN_RECV" /\ "syn" \notin g.flags /\ "fin" \notin g.flags /\ to = "ESTABLISHED"
              \/ s \in {"SYN_RECV", "ESTABLISHED"} /\ "fin" \in g.flags /\ to = "CLOSE_WAIT"
              \/ s = "FIN_WAIT1" /\ "fin" \in g.flags /\ g.finAcked /\ to = "TIME_WAIT"
              \/ s = "FIN_WAIT1" /\ "fin" \in g.flags /\ ~g.finAcked /\ to = "CLOSING"
              \/ s = "FIN_WAIT1" /\ g.finAcked /\ to = "FIN_WAIT2"
              \/ s = "FIN_WAIT2" /\ "fin" \in g.flags /\ to = "TIME_WAIT"
              \/ s = "CLOSING" /\ g.finAcked /\ to = "TIME_WAIT"
              \/ s = "LAST_ACK" /\ g.finAcked /\ to = "CLOSED"
         /\ "rst" \in g.flags => to = "CLOSED"
<1>1. g.finAcked \in BOOLEAN
  BY DEF Segment
<1>2. CASE "rst" \in g.flags
  BY <1>2 DEF After
<1>3. CASE "rst" \notin g.flags /\ s \in {"LISTEN", "SYN_SENT", "SYN_RECV", "ESTABLISHED"}
  BY <1>3 DEF After
<1>4. CASE "rst" \notin g.flags /\ s \in {"FIN_WAIT1", "FIN_WAIT2", "CLOSING", "LAST_ACK"}
  BY <1>1, <1>4 DEF After
<1>5. CASE "rst" \notin g.flags /\ s \in {"UNOPENED", "CLOSE_WAIT", "TIME_WAIT", "CLOSED"}
  BY <1>5 DEF After
<1> QED BY <1>2, <1>3, <1>4, <1>5 DEF EndpointStates, TcpStates

LEMMA FlagsApart ==
  /\ {"syn"} # {"ack"} /\ {"syn"} # {"syn", "ack"} /\ {"syn"} # {"fin", "ack"}
  /\ {"syn"} # {"rst"} /\ {"ack"} # {"syn", "ack"} /\ {"ack"} # {"fin", "ack"}
  /\ {"ack"} # {"rst"} /\ {"syn", "ack"} # {"fin", "ack"} /\ {"syn", "ack"} # {"rst"}
  /\ {"fin", "ack"} # {"rst"}
  /\ NoReply \notin Flagged
  /\ \A f \in Flagged : /\ "fin" \in f <=> f = {"fin", "ack"}
                        /\ "rst" \in f <=> f = {"rst"}
                        /\ "syn" \in f <=> f \in {{"syn"}, {"syn", "ack"}}
BY DEF Flagged, NoReply

(* What a move sends, by the state it leaves and the one it enters.         *)
LEMMA MoveSends ==
  ASSUME EndpointInv, NEW e \in Ends, NEW s \in EndpointStates,
         NEW f \in Flagged \union {NoReply}, Move(e, s, f)
  PROVE  /\ f = {"syn"} => s = "SYN_SENT" /\ est[e] \in {"UNOPENED", "SYN_SENT"}
         /\ f = {"syn", "ack"} => s = "SYN_RECV" /\ est[e] \in {"LISTEN", "SYN_RECV"}
         /\ f = {"fin", "ack"} =>
              \/ est[e] = "ESTABLISHED" /\ s = "FIN_WAIT1"
              \/ est[e] = "CLOSE_WAIT" /\ s = "LAST_ACK"
              \/ est[e] \in {"FIN_WAIT1", "CLOSING", "LAST_ACK"} /\ s = est[e]
         /\ f = {"rst"} => s = "CLOSED" /\ est[e] \in Synchronized
         /\ f = {"ack"} => est[e] \in {"SYN_SENT"} \union Synchronized
<1>1. est[e] \in EndpointStates
  BY DEF EndpointInv, EndpointTyped
<1>2. ASSUME NEW g \in OnWire(e), s = After(est[e], g), Answers(est[e], g) = <<f>>
      PROVE  \/ f = {"syn", "ack"} /\ s = "SYN_RECV" /\ est[e] \in {"LISTEN", "SYN_RECV"}
             \/ f = {"ack"} /\ est[e] \in {"SYN_SENT"} \union Synchronized
  <2>1. \/ f = {"syn", "ack"} /\ est[e] \in {"LISTEN", "SYN_RECV"} /\ g.flags = {"syn"}
        \/ f = {"ack"} /\ est[e] \in {"SYN_SENT"} \union Synchronized
    BY <1>2 DEF Answers
  <2>2. g.flags = {"syn"} /\ est[e] \in {"LISTEN", "SYN_RECV"} => s = "SYN_RECV"
    BY <1>2 DEF After
  <2> QED BY <2>1, <2>2
<1>3. f = Unacknowledged(est[e]) =>
        \/ f = {"syn"} /\ est[e] = "SYN_SENT"
        \/ f = {"syn", "ack"} /\ est[e] = "SYN_RECV"
        \/ f = {"fin", "ack"} /\ est[e] \in {"FIN_WAIT1", "CLOSING", "LAST_ACK"}
        \/ f = NoReply
  BY DEF Unacknowledged, NoReply
<1>4. CASE f = NoReply
  BY <1>4, FlagsApart DEF Flagged
<1>5. CASE f # NoReply
  <2>1. \/ est[e] = "UNOPENED" /\ s = "SYN_SENT" /\ f = {"syn"}
        \/ f = {"syn", "ack"} /\ s = "SYN_RECV" /\ est[e] \in {"LISTEN", "SYN_RECV"}
        \/ f = {"ack"} /\ est[e] \in {"SYN_SENT"} \union Synchronized
        \/ est[e] = "ESTABLISHED" /\ s = "FIN_WAIT1" /\ f = {"fin", "ack"}
        \/ est[e] = "CLOSE_WAIT" /\ s = "LAST_ACK" /\ f = {"fin", "ack"}
        \/ est[e] \in Synchronized /\ s = "CLOSED" /\ f = {"rst"}
        \/ s = est[e] /\ f = Unacknowledged(est[e])
    BY <1>2, <1>5 DEF Move, Own, Receipt
  <2> QED BY <1>3, <1>5, <2>1, FlagsApart
<1> QED BY <1>4, <1>5

(* A move changes the state in one of these ways.                           *)
LEMMA MoveEnters ==
  ASSUME EndpointInv, NEW e \in Ends, NEW s \in EndpointStates,
         NEW f \in Flagged \union {NoReply}, Move(e, s, f), s # est[e]
  PROVE  \/ est[e] = "UNOPENED" /\ s = "SYN_SENT" /\ f = {"syn"}
         \/ est[e] = "ESTABLISHED" /\ s = "FIN_WAIT1" /\ f = {"fin", "ack"}
         \/ est[e] = "CLOSE_WAIT" /\ s = "LAST_ACK" /\ f = {"fin", "ack"}
         \/ est[e] \in Synchronized /\ s = "CLOSED" /\ f = {"rst"}
         \/ est[e] = "TIME_WAIT" /\ s = "CLOSED" /\ f = NoReply
         \/ \E g \in OnWire(e) : s = After(est[e], g) /\ f \in {NoReply, {"ack"}, {"syn", "ack"}}
<1>1. \A g \in OnWire(e) : Answers(est[e], g) = <<f>> => f \in {{"ack"}, {"syn", "ack"}}
  BY DEF Answers
<1> QED BY <1>1 DEF Move, Own, Receipt, Unacknowledged, NoReply

(* What holds of a move, whoever makes it.                                  *)
Moves(e, s, f) ==
  /\ e \in Ends /\ s \in EndpointStates /\ f \in Flagged \union {NoReply}
  /\ Effect(e, s, f) /\ Move(e, s, f) /\ Captures(e, s, f)

LEMMA StatesAfter ==
  ASSUME EndpointInv, NEW e, NEW s, NEW f, Moves(e, s, f)
  PROVE  est'[e] = s /\ est'[Peer(e)] = est[Peer(e)] /\ est[e] \in EndpointStates
BY PeerOther DEF Moves, Effect, EndpointInv, EndpointTyped

(* What is on the wire is a segment that was uttered.                       *)
LEMMA WireKnown ==
  ASSUME EndpointInv, NEW e \in Ends, NEW g \in OnWire(e)
  PROVE  g \in Segment /\ Uttered(Peer(e), g.flags) /\ g.flags \in Flagged
<1>1. wire[e] \in Seq(Segment)
  BY DEF EndpointInv, EndpointTyped
<1>2. g \in Segment
  BY <1>1, RangeOfSeq DEF OnWire
<1> QED BY <1>2 DEF EndpointInv, WireUttered, Uttered

(* The received segment of a move, in the terms of AfterReceipt.            *)
LEMMA ReceiptOf ==
  ASSUME EndpointInv, NEW e, NEW s, NEW f, Moves(e, s, f), NEW g \in OnWire(e),
         s = After(est[e], g), s # est[e]
  PROVE  \/ "rst" \in g.flags /\ s = "CLOSED" /\ ~Opening(e)
         \/ est[e] = "LISTEN" /\ g.flags = {"syn"} /\ s = "SYN_RECV"
         \/ est[e] = "SYN_SENT" /\ g.flags = {"syn", "ack"} /\ s = "ESTABLISHED"
         \/ est[e] = "SYN_RECV" /\ "fin" \notin g.flags /\ s = "ESTABLISHED"
         \/ est[e] \in {"SYN_RECV", "ESTABLISHED"} /\ "fin" \in g.flags /\ s = "CLOSE_WAIT"
         \/ est[e] = "FIN_WAIT1" /\ "fin" \in g.flags /\ g.finAcked /\ s = "TIME_WAIT"
         \/ est[e] = "FIN_WAIT1" /\ "fin" \in g.flags /\ ~g.finAcked /\ s = "CLOSING"
         \/ est[e] = "FIN_WAIT1" /\ g.finAcked /\ s = "FIN_WAIT2"
         \/ est[e] = "FIN_WAIT2" /\ "fin" \in g.flags /\ s = "TIME_WAIT"
         \/ est[e] = "CLOSING" /\ g.finAcked /\ s = "TIME_WAIT"
         \/ est[e] = "LAST_ACK" /\ g.finAcked /\ s = "CLOSED"
<1>1. e \in Ends /\ est[e] \in EndpointStates
  BY StatesAfter DEF Moves
<1>2. g \in Segment
  BY <1>1, WireKnown
<1>3. "rst" \in g.flags => ~Opening(e)
  BY <1>1 DEF EndpointInv, HandshakeFirst
<1> QED BY <1>1, <1>2, <1>3, AfterReceipt

LEMMA RolesKept ==
  ASSUME EndpointInv, NEW e, NEW s, NEW f, Moves(e, s, f)
  PROVE  Roles'
<1>1. e \in Ends
  BY DEF Moves
<1>2. s # est[e] => s \notin {"UNOPENED", "LISTEN"}
  BY <1>1, MoveEnters, ReceiptOf DEF Moves
<1>3. s # est[e] /\ s = "SYN_SENT" => est[e] = "UNOPENED"
  BY <1>1, MoveEnters, ReceiptOf DEF Moves
<1>4. s # est[e] /\ s = "SYN_RECV" => est[e] = "LISTEN"
  BY <1>1, MoveEnters, ReceiptOf DEF Moves
<1>5. initiator' = initiator
  BY DEF Moves, Effect
<1>6. \A d \in Ends : d = e \/ d = Peer(e)
  BY <1>1 DEF Ends, Peer
<1> QED BY <1>1, <1>2, <1>3, <1>4, <1>5, <1>6, StatesAfter DEF EndpointInv, Roles

LEMMA UtteredKept ==
  ASSUME NEW e, NEW s, NEW f, Effect(e, s, f), NEW d, NEW h, Uttered(d, h)
  PROVE  Uttered(d, h)'
BY DEF Effect, Uttered

LEMMA ReplyUttered ==
  ASSUME EndpointInv, NEW e, NEW s, NEW f, Moves(e, s, f), f # NoReply
  PROVE  Uttered(e, f)'
<1>1. e \in Ends /\ f \in Flagged
  BY DEF Moves
<1>2. f = {"syn"} => e = initiator
  BY <1>1, MoveSends DEF Moves, EndpointInv, Roles
<1>3. f = {"syn", "ack"} => e # initiator
  BY <1>1, MoveSends DEF Moves, EndpointInv, Roles
<1> QED BY <1>1, <1>2, <1>3 DEF Moves, Effect, Uttered

LEMMA FinsKnownKept ==
  ASSUME EndpointInv, NEW e, NEW s, NEW f, Moves(e, s, f)
  PROVE  FinsKnown'
<1> DEFINE Late == {"FIN_WAIT1", "FIN_WAIT2", "CLOSING", "LAST_ACK", "TIME_WAIT", "CLOSED"}
<1>1. e \in Ends /\ \A d \in Ends : d = e \/ d = Peer(e)
  BY DEF Moves, Ends, Peer
<1>2. /\ est'[e] = s /\ est'[Peer(e)] = est[Peer(e)]
      /\ finSent' = IF "fin" \in f THEN finSent \union {e} ELSE finSent
  BY StatesAfter DEF Moves, Effect
<1>3. "fin" \in f => s \in Late
  BY <1>1, FlagsApart, MoveSends DEF Moves, NoReply
<1>4. est[e] \in Late => s \in Late
  BY <1>1, MoveEnters, ReceiptOf DEF Moves
<1>5. s \in GotFin => Peer(e) \in finSent
  <2>1. est[e] \in GotFin => Peer(e) \in finSent
    BY <1>1 DEF EndpointInv, FinsKnown
  <2>2. \A g \in OnWire(e) : "fin" \in g.flags => Peer(e) \in finSent
    BY <1>1, WireKnown DEF Uttered
  <2>3. s \in GotFin /\ est[e] \notin GotFin => \E g \in OnWire(e) : "fin" \in g.flags
    BY <1>1, MoveEnters, ReceiptOf DEF Moves, GotFin
  <2> QED BY <2>1, <2>2, <2>3
<1>6. e \in finSent' => s \in Late
  BY <1>1, <1>2, <1>3, <1>4 DEF EndpointInv, FinsKnown
<1>7. Peer(e) \in finSent' => est[Peer(e)] \in Late
  BY <1>1, <1>2, PeerOther DEF EndpointInv, FinsKnown
<1>8. est[Peer(e)] \in GotFin => e \in finSent
  BY <1>1, PeerOther DEF EndpointInv, FinsKnown
<1> QED BY <1>1, <1>2, <1>5, <1>6, <1>7, <1>8, PeerOther DEF FinsKnown

LEMMA WireUtteredKept ==
  ASSUME EndpointInv, NEW e, NEW s, NEW f, Moves(e, s, f)
  PROVE  WireUttered'
<1>1. e \in Ends /\ \A d \in Ends : d = e \/ d = Peer(e)
  BY DEF Moves, Ends, Peer
<1> DEFINE Fine(d, g) == /\ Uttered(Peer(d), g.flags)
                         /\ g.flags = {"syn", "ack"} => ~g.finAcked
                         /\ g.finAcked => d \in finSent
<1>2. \A d \in Ends : \A g \in OnWire(d) : Fine(d, g)'
  <2> SUFFICES ASSUME NEW d \in Ends, NEW g \in OnWire(d)
      PROVE Fine(d, g)'
    OBVIOUS
  <2>1. Fine(d, g)
    BY DEF EndpointInv, WireUttered
  <2> QED BY <2>1, UtteredKept DEF Moves, Effect
<1>3. f # NoReply => Fine(Peer(e), Reply(s, f))'
  <2> SUFFICES ASSUME f # NoReply PROVE Fine(Peer(e), Reply(s, f))'
    OBVIOUS
  <2>1. Uttered(e, f)'
    BY ReplyUttered
  <2>2. f = {"syn", "ack"} => s \notin GotFin
    BY <1>1, MoveSends DEF Moves, GotFin
  <2>3. s \in GotFin => Peer(e) \in finSent'
    BY <1>1, FinsKnownKept, StatesAfter DEF FinsKnown
  <2> QED BY <1>1, <2>1, <2>2, <2>3, PeerOther DEF Reply
<1>4. /\ \A g \in OnWire(e)' : g \in OnWire(e)
      /\ \A g \in OnWire(Peer(e))' : g \in OnWire(Peer(e)) \/ (f # NoReply /\ g = Reply(s, f))
  BY DEF Moves, Effect
<1>5. \A d \in Ends : \A g \in OnWire(d)' : Fine(d, g)'
  BY <1>1, <1>2, <1>3, <1>4, PeerOther
<1> QED BY <1>5 DEF WireUttered

LEMMA HandshakeKept ==
  ASSUME EndpointInv, NEW e, NEW s, NEW f, Moves(e, s, f)
  PROVE  HandshakeFirst'
<1>1. e \in Ends /\ Peer(e) \in Ends /\ \A d \in Ends : d = e \/ d = Peer(e)
  BY PeerOther DEF Moves, Ends, Peer
<1>2. /\ \A g \in OnWire(e)' : g \in OnWire(e)
      /\ \A g \in OnWire(Peer(e))' : g \in OnWire(Peer(e)) \/ (f # NoReply /\ g = Reply(s, f))
  BY DEF Moves, Effect
<1>3. s \in {"UNOPENED", "SYN_SENT"} =>
        Opening(e) /\ (f # NoReply => f = {"syn"})
  <2> SUFFICES ASSUME s \in {"UNOPENED", "SYN_SENT"}
      PROVE  Opening(e) /\ (f # NoReply => f = {"syn"})
    OBVIOUS
  <2>1. Opening(e)
    BY <1>1, MoveEnters, ReceiptOf DEF Moves, Opening
  <2>2. f # {"ack"}
    <3>1. \A g \in OnWire(e) : g.flags = {"syn", "ack"}
      BY <1>1, <2>1 DEF EndpointInv, HandshakeFirst
    <3>2. \A g \in OnWire(e) : est[e] = "SYN_SENT" => After(est[e], g) = "ESTABLISHED"
      BY <3>1 DEF After
    <3>3. \A g \in OnWire(e) : est[e] = "UNOPENED" => Answers(est[e], g) = <<>>
      BY <3>1 DEF Answers, Synchronized, GotFin
    <3>4. est[e] \notin Synchronized
      BY <2>1 DEF Opening, Synchronized, GotFin
    <3>5. ~\E g \in OnWire(e) : s = After(est[e], g) /\ Answers(est[e], g) = <<{"ack"}>>
      BY <2>1, <3>2, <3>3 DEF Opening
    <3>6. {"ack"} # Unacknowledged(est[e])
      BY FlagsApart DEF Unacknowledged
    <3> QED BY <3>4, <3>5, <3>6, FlagsApart DEF Moves, Move, Own, Receipt, NoReply
  <2> QED BY <1>1, <2>1, <2>2, MoveSends DEF Moves, Opening, Synchronized, GotFin, Flagged
<1>4. Opening(Peer(e)) =>
        s \in {"LISTEN", "SYN_RECV"} /\ (f # NoReply => f = {"syn", "ack"})
  <2> SUFFICES ASSUME Opening(Peer(e))
      PROVE s \in {"LISTEN", "SYN_RECV"} /\ (f # NoReply => f = {"syn", "ack"})
    OBVIOUS
  <2>1. est[e] \in {"LISTEN", "SYN_RECV"} /\ \A g \in OnWire(e) : g.flags = {"syn"}
    BY <1>1, PeerOther DEF EndpointInv, HandshakeFirst
  <2>2. \A g \in OnWire(e) : After(est[e], g) \in {"LISTEN", "SYN_RECV"}
    BY <2>1 DEF After
  <2>3. s \in {"LISTEN", "SYN_RECV"}
    BY <1>1, <2>1, <2>2, MoveEnters DEF Moves, Synchronized, GotFin
  <2> QED BY <1>1, <2>1, <2>3, MoveSends DEF Moves, Synchronized, GotFin, Flagged
<1>5. Opening(e)' <=> s \in {"UNOPENED", "SYN_SENT"}
  BY StatesAfter DEF Opening
<1>6. Opening(Peer(e))' <=> Opening(Peer(e))
  BY StatesAfter DEF Opening
<1>7. CASE Opening(e)'
  <2>1. /\ est[Peer(e)] \in {"LISTEN", "SYN_RECV"}
        /\ \A g \in OnWire(e) : g.flags = {"syn", "ack"}
        /\ \A g \in OnWire(Peer(e)) : g.flags = {"syn"}
    BY <1>1, <1>3, <1>5, <1>7 DEF EndpointInv, HandshakeFirst
  <2>2. ~Opening(Peer(e))'
    BY <1>6, <2>1 DEF Opening
  <2>3. \A g \in OnWire(Peer(e))' : g.flags = {"syn"}
    BY <1>2, <1>3, <1>5, <1>7, <2>1 DEF Reply
  <2> QED BY <1>1, <1>2, <2>1, <2>2, <2>3, StatesAfter DEF HandshakeFirst
<1>8. CASE Opening(Peer(e))'
  <2>1. /\ \A g \in OnWire(Peer(e)) : g.flags = {"syn", "ack"}
        /\ \A g \in OnWire(e) : g.flags = {"syn"}
    BY <1>1, <1>6, <1>8, PeerOther DEF EndpointInv, HandshakeFirst
  <2>2. s \in {"LISTEN", "SYN_RECV"} /\ ~Opening(e)'
    BY <1>4, <1>5, <1>6, <1>8
  <2>3. \A g \in OnWire(Peer(e))' : g.flags = {"syn", "ack"}
    BY <1>2, <1>4, <1>6, <1>8, <2>1 DEF Reply
  <2> QED BY <1>1, <1>2, <2>1, <2>2, <2>3, StatesAfter, PeerOther DEF HandshakeFirst
<1>9. CASE ~Opening(e)' /\ ~Opening(Peer(e))'
  BY <1>1, <1>9 DEF HandshakeFirst
<1> QED BY <1>7, <1>8, <1>9

(* An end on the side of the active close stays there.                      *)
LEMMA ActiveForGood ==
  ASSUME EndpointInv, NEW e, NEW s, NEW f, Moves(e, s, f), est[e] \in ActiveStates
  PROVE  s \in ActiveStates
BY MoveEnters, ReceiptOf DEF Moves, ActiveStates

(* How an end comes to have closed first: with its own FIN, or the peer     *)
(* takes that FIN, or answers it.                                           *)
LEMMA ActiveKept ==
  ASSUME EndpointInv, NEW e, NEW s, NEW f, Moves(e, s, f)
  PROVE  ActiveStaysActive'
<1>1. e \in Ends /\ Peer(e) \in Ends /\ Peer(Peer(e)) = e /\ \A d \in Ends : d = e \/ d = Peer(e)
  BY PeerOther DEF Moves, Ends, Peer
<1>2. /\ \A g \in OnWire(e)' : g \in OnWire(e)
      /\ \A g \in OnWire(Peer(e))' : g \in OnWire(Peer(e)) \/ (f # NoReply /\ g = Reply(s, f))
  BY DEF Moves, Effect
<1>3. est'[e] = s /\ est'[Peer(e)] = est[Peer(e)] /\ est[e] \in EndpointStates
  BY StatesAfter
<1>4. /\ ClosedFirst(e) => est[e] \in ActiveStates
      /\ ClosedFirst(Peer(e)) => est[Peer(e)] \in ActiveStates
  BY <1>1 DEF EndpointInv, ActiveStaysActive
<1>5. "fin" \in f /\ s \notin GotFin => s \in ActiveStates
  BY <1>1, FlagsApart, MoveSends DEF Moves, NoReply, GotFin, ActiveStates
<1>6. "fin" \in f /\ s \in GotFin =>
        est[e] \in {"CLOSE_WAIT", "CLOSING", "LAST_ACK"}
  BY <1>1, FlagsApart, MoveSends DEF Moves, NoReply, GotFin
<1>7. s \in {"CLOSING", "CLOSE_WAIT", "LAST_ACK"} => ClosedFirst(Peer(e))
  <2> SUFFICES ASSUME s \in {"CLOSING", "CLOSE_WAIT", "LAST_ACK"}, s # est[e],
                      est[e] \notin {"CLOSING", "CLOSE_WAIT", "LAST_ACK"}
      PROVE  ClosedFirst(Peer(e))
    <3>1. est[e] \in {"CLOSING", "CLOSE_WAIT", "LAST_ACK"} => ClosedFirst(Peer(e))
      BY <1>1 DEF ClosedFirst
    <3> QED BY <3>1
  <2>1. PICK g \in OnWire(e) : "fin" \in g.flags /\
          \/ est[e] \in {"SYN_RECV", "ESTABLISHED"}
          \/ est[e] = "FIN_WAIT1" /\ ~g.finAcked
    BY <1>1, MoveEnters, ReceiptOf DEF Moves
  <2>2. ~g.finAcked
    <3>1. g.finAcked => e \in finSent
      BY <1>1 DEF EndpointInv, WireUttered
    <3>2. est[e] \in {"SYN_RECV", "ESTABLISHED"} => e \notin finSent
      BY <1>1 DEF EndpointInv, FinsKnown
    <3> QED BY <2>1, <3>1, <3>2
  <2> QED BY <1>1, <2>1, <2>2 DEF ClosedFirst
<1> DEFINE Plain == f # NoReply /\ "fin" \in f /\ s \notin GotFin
           Answering == f # NoReply /\ "fin" \in f /\ s \in GotFin
<1>r. Reply(s, f).flags = f /\ (Reply(s, f).finAcked <=> s \in GotFin)
  BY DEF Reply
<1>s. /\ ClosedFirst(e)' <=>
           \/ \E g \in OnWire(Peer(e))' : "fin" \in g.flags /\ ~g.finAcked
           \/ est[Peer(e)] \in {"CLOSING", "CLOSE_WAIT", "LAST_ACK"}
           \/ \E g \in OnWire(e)' : "fin" \in g.flags /\ g.finAcked
      /\ ClosedFirst(Peer(e))' <=>
           \/ \E g \in OnWire(e)' : "fin" \in g.flags /\ ~g.finAcked
           \/ s \in {"CLOSING", "CLOSE_WAIT", "LAST_ACK"}
           \/ \E g \in OnWire(Peer(e))' : "fin" \in g.flags /\ g.finAcked
  BY <1>1, <1>3 DEF ClosedFirst
<1>8. ClosedFirst(e)' => s \in ActiveStates
  <2>1. ClosedFirst(e)' => ClosedFirst(e) \/ Plain
    BY <1>2, <1>r, <1>s DEF ClosedFirst
  <2> QED BY <1>4, <1>5, <2>1, ActiveForGood
<1>9. ClosedFirst(Peer(e))' => est[Peer(e)] \in ActiveStates
  <2>1. ClosedFirst(Peer(e))' =>
          \/ ClosedFirst(Peer(e))
          \/ s \in {"CLOSING", "CLOSE_WAIT", "LAST_ACK"}
          \/ Answering
    BY <1>1, <1>2, <1>r, <1>s DEF ClosedFirst
  <2>2. "fin" \in f /\ s \in GotFin => ClosedFirst(Peer(e))
    BY <1>1, <1>6 DEF ClosedFirst
  <2> QED BY <1>4, <1>7, <2>1, <2>2
<1> QED BY <1>1, <1>3, <1>8, <1>9 DEF ActiveStaysActive


LEMMA NoticedKept ==
  ASSUME EndpointInv, NEW e, NEW s, NEW f, Moves(e, s, f)
  PROVE  NoticedUttered'
<1>1. e \in Ends /\ seen \in Seq(Captured)
  BY DEF Moves, EndpointInv, EndpointTyped
<1>2. \A c \in Noticed : Uttered(Sender(c), c.flags)'
  <2>1. \A c \in Noticed : Uttered(Sender(c), c.flags)
    BY DEF EndpointInv, NoticedUttered
  <2> QED BY <2>1, UtteredKept DEF Moves, Sender
<1>3. CASE e = "remote"
  BY <1>2, <1>3 DEF Moves, Captures, NoticedUttered, Noticed
<1>4. CASE e = "local"
  <2> DEFINE sent == [flags |-> f, is_outgoing |-> TRUE]
             g == Head(wire[e])
             took == OfWire(g, FALSE)
             Said(c) == \A d : d = c => Uttered(Sender(d), d.flags)'
             with(n) == IF n = 0 THEN seen ELSE Append(seen, took)
  <2>1. f # NoReply => sent \in Captured /\ Said(sent)
    BY <1>4, FlaggedFlags, ReplyUttered DEF Moves, Captured, Sender
  <2>2. wire[e] # <<>> => took \in Captured /\ Said(took)
    <3> SUFFICES ASSUME wire[e] # <<>> PROVE took \in Captured /\ Said(took)
      OBVIOUS
    <3>1. g \in OnWire(e)
      <4>1. wire[e] \in Seq(Segment)
        BY <1>1 DEF EndpointInv, EndpointTyped
      <4>2. 1 \in DOMAIN wire[e] /\ g = wire[e][1]
        BY <4>1
      <4> QED BY <4>2 DEF OnWire, Range
    <3> HIDE DEF g
    <3>2. g \in Segment /\ Uttered(Peer(e), g.flags)
      BY <1>1, <3>1, WireKnown
    <3>3. \A h : h = g.flags => Uttered(Peer(e), h)'
      BY <3>2, UtteredKept DEF Moves
    <3>4. took \in Captured /\ took.flags = g.flags /\ ~took.is_outgoing
      BY <3>2 DEF OfWire, Segment, Captured
    <3>5. Peer(e) = "remote"
      BY <1>4 DEF Peer
    <3> QED BY <3>3, <3>4, <3>5 DEF Sender
  <2> DEFINE Fine(q) == \A c \in Range(q) : Uttered(Sender(c), c.flags)'
  <2>3. Fine(seen) /\ \A q \in Seq(Captured), c \in Captured :
          Fine(q) /\ Said(c) => Append(q, c) \in Seq(Captured) /\ Fine(Append(q, c))
    BY <1>2, JoinOne DEF Noticed
  <2>4. \A n \in {0, 1} : n = 0 \/ wire[e] # <<>> => with(n) \in Seq(Captured) /\ Fine(with(n))
    <3>1. Fine(seen) /\ with(0) = seen /\ with(1) = Append(seen, took)
      BY <2>3
    <3> HIDE DEF took, Said, Fine, with
    <3>2. wire[e] # <<>> => Append(seen, took) \in Seq(Captured) /\ Fine(Append(seen, took))
      BY <1>1, <2>2, <2>3, <3>1
    <3> QED BY <1>1, <3>1, <3>2
  <2>5. \E n \in {0, 1} : (n = 0 \/ wire[e] # <<>>) /\
          seen' = IF f = NoReply THEN with(n) ELSE Append(with(n), sent)
    <3>1. \E n \in {0, 1} : (n = 0 \/ wire[e] # <<>>) /\ seen' = CaptureOf(n, f)
      BY <1>4 DEF Moves, Captures
    <3> QED BY <1>4, <3>1 DEF CaptureOf
  <2> HIDE DEF with, sent, Fine, Said
  <2>6. Fine(seen')
    BY <2>1, <2>3, <2>4, <2>5
  <2> QED BY <2>6 DEF Fine, NoticedUttered, Noticed
<1> QED BY <1>1, <1>3, <1>4 DEF Ends

(* The endpoints keep their invariant, whatever the network does.           *)
LEMMA EndpointKept ==
  ASSUME EndpointInv, NEW e \in Ends, Endpoint(e)
  PROVE  EndpointInv' /\ \E s \in EndpointStates, f \in Flagged \union {NoReply} : Moves(e, s, f)
<1>1. EndpointTyped' /\ \E s \in EndpointStates, f \in Flagged \union {NoReply} :
        Effect(e, s, f) /\ Move(e, s, f) /\ Captures(e, s, f)
  BY EndpointMoves DEF EndpointInv
<1>2. PICK s \in EndpointStates, f \in Flagged \union {NoReply} : Moves(e, s, f)
  BY <1>1 DEF Moves
<1>3. Roles' /\ WireUttered' /\ NoticedUttered' /\ HandshakeFirst' /\ FinsKnown' /\ ActiveStaysActive'
  BY <1>2, RolesKept, WireUtteredKept, NoticedKept, HandshakeKept, FinsKnownKept, ActiveKept
<1> QED BY <1>1, <1>2, <1>3 DEF EndpointInv

LEMMA EndpointInitially == EndpointsInit => EndpointInv
<1> SUFFICES ASSUME EndpointsInit PROVE EndpointInv
  OBVIOUS
<1>1. initiator \in Ends /\ est = [e \in Ends |-> IF e = initiator THEN "UNOPENED" ELSE "LISTEN"]
      /\ finSent = {} /\ reset = FALSE /\ seen = <<>> /\ wire = [e \in Ends |-> <<>>]
      /\ budget \in Budgets
  BY EndpointsAssumption DEF EndpointsInit, Budgets
<1>2. Noticed = {} /\ \A e \in Ends : OnWire(e) = {}
  BY <1>1, RangeOfNone DEF Noticed, OnWire
<1>3. EndpointTyped
  <2>1. wire \in [Ends -> Seq(Segment)] /\ seen \in Seq(Captured)
    BY <1>1
  <2>2. est \in [Ends -> EndpointStates]
    BY <1>1 DEF EndpointStates
  <2> QED BY <1>1, <2>1, <2>2 DEF EndpointTyped, Budgets
<1>4. Roles /\ FinsKnown /\ WireUttered /\ NoticedUttered
  BY <1>1, <1>2 DEF Roles, FinsKnown, WireUttered, NoticedUttered, GotFin
<1>5. HandshakeFirst
  BY <1>1, <1>2 DEF HandshakeFirst, Opening, Ends, Peer
<1>6. ActiveStaysActive
  BY <1>1, <1>2, PeerOther DEF ActiveStaysActive, ClosedFirst
<1> QED BY <1>3, <1>4, <1>5, <1>6 DEF EndpointInv

(* Taking captured segments away disturbs nothing.                          *)
LEMMA EndpointAside ==
  ASSUME EndpointInv, UNCHANGED endpoint_vars,
         seen' \in Seq(Captured), Range(seen') \subseteq Noticed
  PROVE  EndpointInv'
<1>1. \A e : OnWire(e)' = OnWire(e) /\ Opening(e)' = Opening(e)
  BY DEF OnWire, Opening, endpoint_vars
<1>2. \A e : ClosedFirst(e)' <=> ClosedFirst(e)
  BY <1>1 DEF ClosedFirst, endpoint_vars
<1>3. \A e, f : Uttered(e, f)' <=> Uttered(e, f)
  BY DEF Uttered, endpoint_vars
<1>4. EndpointTyped' /\ Roles' /\ FinsKnown'
  BY DEF EndpointInv, EndpointTyped, Roles, FinsKnown, endpoint_vars
<1>5. WireUttered'
  BY <1>1, <1>3 DEF EndpointInv, WireUttered, endpoint_vars
<1>6. NoticedUttered'
  BY <1>3 DEF EndpointInv, NoticedUttered, Noticed, Sender
<1>7. HandshakeFirst'
  BY <1>1 DEF EndpointInv, HandshakeFirst, endpoint_vars
<1>8. ActiveStaysActive'
  BY <1>2 DEF EndpointInv, ActiveStaysActive, endpoint_vars
<1> QED BY <1>4, <1>5, <1>6, <1>7, <1>8 DEF EndpointInv

-----------------------------------------------------------------------------
(* The transition table: every rule leads to a later phase.                *)

Forward(r) ==
  r.from \in TrackedStates /\ r.to \in TrackedStates /\ Phase(r.to) >= Phase(r.from)

LEMMA PhaseType == \A s \in TrackedStates : Phase(s) \in 0..6
BY DEF TrackedStates, TcpStates, Phase

LEMMA RulesForward == \A r \in Rules : Forward(r)
<1> USE DEF Forward, Rule, TrackedStates, TcpStates, Phase
<1>1. \A r \in OpeningRules : Forward(r)
  BY DEF OpeningRules
<1>2. \A r \in MidstreamRules : Forward(r)
  BY DEF MidstreamRules
<1>3. \A r \in ClosingRules : Forward(r)
  BY DEF ClosingRules, Fin
<1> QED BY <1>1, <1>2, <1>3 DEF Rules

LEMMA UpdateForward ==
  ASSUME NEW s \in TrackedStates, NEW g
  PROVE  /\ update_tcp_state(s, g) \in TrackedStates
         /\ Phase(update_tcp_state(s, g)) >= Phase(s)
<1>1. CASE "rst" \in g.flags
  BY <1>1, PhaseType DEF update_tcp_state, TrackedStates, TcpStates, Phase
<1>2. CASE "rst" \notin g.flags /\ Matching(s, g) = {}
  BY <1>2, PhaseType DEF update_tcp_state
<1>3. CASE "rst" \notin g.flags /\ Matching(s, g) # {}
  <2> DEFINE r == CHOOSE m \in Matching(s, g) : TRUE
  <2>1. r \in Matching(s, g)
    BY <1>3
  <2>2. Forward(r) /\ r.from = s
    BY <2>1, RulesForward DEF Matching
  <2>3. update_tcp_state(s, g) = r.to
    BY <1>3 DEF update_tcp_state
  <2> QED BY <2>2, <2>3 DEF Forward
<1> QED BY <1>1, <1>2, <1>3

-----------------------------------------------------------------------------
EntryTyped == entry \in Entry \union {NoEntry}

(* What a segment makes of the entry.                                      *)
LEMMA ApplyForward ==
  ASSUME EntryTyped, NEW i \in 1..Window, Apply(i)
  PROVE  /\ EntryTyped'
         /\ entry # NoEntry =>
              /\ Phase(entry'.state) >= Phase(entry.state)
              /\ entry'.direction = entry.direction
<1>1. PICK app \in Apps \union {"none"} :
        entry' = IF entry = NoEntry THEN Created(seen[i], app) ELSE Merged(seen[i], app)
  BY DEF Apply, Inspected
<1>2. CASE entry = NoEntry
  <2>1. update_tcp_state("UNKNOWN", seen[i]) \in TrackedStates
    BY UpdateForward DEF TrackedStates
  <2>2. DirectionOf(seen[i]) \in {"outgoing", "incoming", "unknown"}
    BY DEF DirectionOf
  <2> QED BY <1>1, <1>2, <2>1, <2>2 DEF EntryTyped, Entry, Created
<1>3. CASE entry # NoEntry
  <2>1. entry \in Entry
    BY <1>3 DEF EntryTyped
  <2>2. /\ update_tcp_state(entry.state, seen[i]) \in TrackedStates
        /\ Phase(update_tcp_state(entry.state, seen[i])) >= Phase(entry.state)
    BY <2>1, UpdateForward DEF Entry
  <2>3. entry' = [entry EXCEPT !.state = update_tcp_state(entry.state, seen[i]),
                               !.app = IF entry.app = "none" THEN app ELSE entry.app]
    BY <1>1, <1>3 DEF Merged
  <2>4. /\ entry' \in Entry
        /\ entry'.state = update_tcp_state(entry.state, seen[i])
        /\ entry'.direction = entry.direction
    BY <2>1, <2>2, <2>3 DEF Entry
  <2> QED BY <2>2, <2>4 DEF EntryTyped
<1> QED BY <1>2, <1>3

LEMMA OthersForward ==
  ASSUME EntryTyped,
         (\E e \in Ends : EndpointStep(e)) \/ (\E i \in Idle : Cleanup(i)) \/ UNCHANGED vars
  PROVE  EntryTyped' /\ (entry' = entry \/ entry' = NoEntry)
BY DEF EntryTyped, Entry, EndpointStep, Cleanup, vars, tracker_vars

LEMMA StepForward ==
  EntryTyped /\ [Next]_vars =>
    /\ EntryTyped'
    /\ [entry # NoEntry /\ entry' # NoEntry =>
          /\ Phase(entry'.state) >= Phase(entry.state)
          /\ entry'.direction = entry.direction]_entry
<1> SUFFICES ASSUME EntryTyped, [Next]_vars
    PROVE  /\ EntryTyped'
           /\ [entry # NoEntry /\ entry' # NoEntry =>
                 /\ Phase(entry'.state) >= Phase(entry.state)
                 /\ entry'.direction = entry.direction]_entry
  OBVIOUS
<1>1. CASE \E i \in 1..Window : Apply(i)
  BY <1>1, ApplyForward
<1>2. CASE (\E e \in Ends : EndpointStep(e)) \/ (\E i \in Idle : Cleanup(i)) \/ UNCHANGED vars
  BY <1>2, OthersForward
<1> QED BY <1>1, <1>2 DEF Next

LEMMA InitEntryTyped == Init => EntryTyped
BY DEF Init, EntryTyped

(* The state of an entry only moves forward and its direction stays, for   *)
(* every sequence of segments of any flags: nothing that arrives late or   *)
(* twice brings a closed connection back.                                  *)
THEOREM TcpPhaseMonotone == Spec => PhaseMonotone
<1>1. Init => EntryTyped
  BY InitEntryTyped
<1>2. EntryTyped /\ [Next]_vars =>
        /\ EntryTyped'
        /\ [entry # NoEntry /\ entry' # NoEntry =>
              /\ Phase(entry'.state) >= Phase(entry.state)
              /\ entry'.direction = entry.direction]_entry
  BY StepForward
<1> QED BY <1>1, <1>2, PTL DEF Spec, PhaseMonotone

-----------------------------------------------------------------------------
(* The transition table as a function.  Goal(s, f, out) is where a segment  *)
(* without RST leads.                                                       *)

Goal(s, f, out) ==
  CASE s = "UNKNOWN" /\ f = {"syn"} -> IF out THEN "SYN_SENT" ELSE "SYN_RECV"
    [] s = "UNKNOWN" /\ f \in {{"ack"}, {"fin", "ack"}} -> "ESTABLISHED"
    [] s = "SYN_SENT" /\ f = {"syn", "ack"} /\ ~out -> "ESTABLISHED"
    [] s = "SYN_RECV" /\ f = {"ack"} /\ out -> "ESTABLISHED"
    [] s = "ESTABLISHED" /\ f = {"fin", "ack"} -> IF out THEN "FIN_WAIT1" ELSE "CLOSE_WAIT"
    [] s = "FIN_WAIT1" /\ f = {"fin", "ack"} /\ ~out -> "CLOSING"
    [] s = "FIN_WAIT1" /\ f = {"ack"} /\ ~out -> "FIN_WAIT2"
    [] s = "FIN_WAIT2" /\ f = {"fin", "ack"} /\ ~out -> "TIME_WAIT"
    [] s = "CLOSE_WAIT" /\ f = {"fin", "ack"} /\ out -> "LAST_ACK"
    [] s = "LAST_ACK" /\ f = {"ack"} /\ ~out -> "CLOSED"
    [] s = "CLOSING" /\ f = {"ack"} /\ ~out -> "TIME_WAIT"
    [] OTHER -> s

LEMMA RuleFields ==
  ASSUME NEW s, NEW f, NEW out, NEW to
  PROVE  LET r == Rule(s, f, out, to) IN
         r.from = s /\ r.flags = f /\ r.out = out /\ r.to = to
BY DEF Rule

LEMMA RulesLead ==
  ASSUME NEW r \in Rules, r.flags \in Flagged
  PROVE  r.to = Goal(r.from, r.flags, r.out) /\ r.to # r.from
<1> USE DEF Rule, Goal
<1>1. r \in OpeningRules => r.to = Goal(r.from, r.flags, r.out) /\ r.to # r.from
  BY FlagsApart DEF OpeningRules
<1>2. r \in MidstreamRules => r.to = Goal(r.from, r.flags, r.out) /\ r.to # r.from
  BY FlagsApart DEF MidstreamRules
<1>3. r \in ClosingRules => r.to = Goal(r.from, r.flags, r.out) /\ r.to # r.from
  <2>1. {"fin"} \notin Flagged
    BY DEF Flagged
  <2> QED BY <2>1, FlagsApart DEF ClosingRules, Fin
<1> QED BY <1>1, <1>2, <1>3 DEF Rules

LEMMA RulesSuffice ==
  ASSUME NEW s, NEW f \in Flagged, NEW out \in BOOLEAN, Goal(s, f, out) # s
  PROVE  \E r \in Rules : r.from = s /\ r.flags = f /\ r.out = out
<1>1. \E to : Rule(s, f, out, to) \in Rules
  <2>1. CASE s = "UNKNOWN"
    <3>1. f \in {{"syn"}, {"ack"}, {"fin", "ack"}}
      BY <2>1 DEF Goal
    <3>2. \E to : Rule(s, f, out, to) \in OpeningRules \union MidstreamRules
      <4>1. f = {"syn"} => Rule(s, f, out, Goal(s, f, out)) \in OpeningRules
        BY <2>1 DEF Goal, OpeningRules
      <4>2. f # {"syn"} => Rule(s, f, out, "ESTABLISHED") \in MidstreamRules
        BY <2>1, <3>1 DEF MidstreamRules
      <4> QED BY <4>1, <4>2
    <3> QED BY <3>2 DEF Rules
  <2>2. CASE s \in {"SYN_SENT", "SYN_RECV"}
    <3>1. \E to : Rule(s, f, out, to) \in OpeningRules
      BY <2>2 DEF Goal, OpeningRules
    <3> QED BY <3>1 DEF Rules
  <2>3. CASE s \notin {"UNKNOWN", "SYN_SENT", "SYN_RECV"}
    <3>1. \A from, o, to : Rule(from, {"fin", "ack"}, o, to) \in Fin(from, o, to)
      BY DEF Fin
    <3>2. \E to : Rule(s, f, out, to) \in ClosingRules
      BY <2>3, <3>1 DEF Goal, ClosingRules
    <3> QED BY <3>2 DEF Rules
  <2> QED BY <2>1, <2>2, <2>3
<1> QED BY <1>1, RuleFields

LEMMA UpdateIs ==
  ASSUME NEW s, NEW g, g.flags \in Flagged, g.is_outgoing \in BOOLEAN
  PROVE  update_tcp_state(s, g) =
           IF g.flags = {"rst"} THEN "CLOSED" ELSE Goal(s, g.flags, g.is_outgoing)
<1>1. "rst" \in g.flags <=> g.flags = {"rst"}
  BY FlagsApart
<1>2. CASE Matching(s, g) = {}
  <2>1. Goal(s, g.flags, g.is_outgoing) = s
    BY <1>2, RulesSuffice DEF Matching
  <2> QED BY <1>1, <1>2, <2>1 DEF update_tcp_state
<1>3. CASE Matching(s, g) # {}
  <2> DEFINE r == CHOOSE m \in Matching(s, g) : TRUE
  <2>1. r \in Matching(s, g)
    BY <1>3
  <2> HIDE DEF r
  <2>2. r \in Rules /\ r.from = s /\ r.flags = g.flags /\ r.out = g.is_outgoing
    BY <2>1 DEF Matching
  <2>3. r.to = Goal(s, g.flags, g.is_outgoing)
    BY <2>2, RulesLead
  <2>4. update_tcp_state(s, g) = IF "rst" \in g.flags THEN "CLOSED" ELSE r.to
    BY <1>3 DEF update_tcp_state, r
  <2> QED BY <1>1, <2>3, <2>4
<1> QED BY <1>2, <1>3

(* What the tracker has before the direction is of use: an entry in         *)
(* UNKNOWN was made by a SYN+ACK, which tells the direction.                *)
DirectionKnown ==
  entry # NoEntry =>
    /\ entry.state = "SYN_SENT" => entry.direction = "outgoing"
    /\ entry.state = "SYN_RECV" => entry.direction = "incoming"
    /\ entry.state = "UNKNOWN" =>
         entry.direction = IF initiator = "local" THEN "outgoing" ELSE "incoming"

-----------------------------------------------------------------------------
(* What the entry says of the connection.                                   *)

LEMMA SegmentAtHand ==
  ASSUME EndpointInv, NEW i \in 1..Window, Apply(i)
  PROVE  /\ seen[i] \in Noticed /\ seen[i] \in Captured
         /\ Uttered(Sender(seen[i]), seen[i].flags)
         /\ seen' \in Seq(Captured) /\ Range(seen') \subseteq Noticed
<1>1. seen \in Seq(Captured) /\ i \in 1..Len(seen) /\ seen' = RemoveAt(seen, i)
  BY TrackerAssumption DEF Apply, EndpointInv, EndpointTyped
<1>2. seen[i] \in Noticed /\ seen[i] \in Captured
  BY <1>1 DEF Noticed, Range
<1>3. seen' = SubSeq(seen, 1, i - 1) \o SubSeq(seen, i + 1, Len(seen))
  BY <1>1 DEF RemoveAt
<1> DEFINE front == SubSeq(seen, 1, i - 1)
           back == SubSeq(seen, i + 1, Len(seen))
<1>4. /\ front \in Seq(Captured) /\ back \in Seq(Captured)
      /\ Range(front) \subseteq Noticed /\ Range(back) \subseteq Noticed
  <2>1. \A m \in 1..(Len(seen) + 1), n \in 0..Len(seen) :
          SubSeq(seen, m, n) \in Seq(Captured) /\ Range(SubSeq(seen, m, n)) \subseteq Noticed
    BY <1>1 DEF Noticed, Range
  <2> QED BY <1>1, <2>1
<1> HIDE DEF front, back
<1>5. Range(front \o back) = Range(front) \union Range(back) /\ front \o back \in Seq(Captured)
  BY <1>4, RangeConcatenation
<1>6. seen' = front \o back
  BY <1>3 DEF front, back
<1> QED BY <1>2, <1>4, <1>5, <1>6 DEF EndpointInv, NoticedUttered

(* Everything that is said of the entry and the endpoints together.         *)
TruthInv == EndpointInv /\ TrackerTypeOK /\ DirectionKnown /\ DirectionTruthful /\ CloseIsReal

LEMMA NewEntryTrue ==
  ASSUME TruthInv, NEW i \in 1..Window, Apply(i), entry = NoEntry
  PROVE  DirectionKnown' /\ DirectionTruthful' /\ CloseIsReal'
<1> DEFINE c == seen[i]
<1>1. PICK app : entry' = Created(c, app)
  BY DEF Apply
<1>2. /\ c \in Captured /\ c.flags \in Flagged /\ c.is_outgoing \in BOOLEAN
      /\ Uttered(Sender(c), c.flags)
  BY SegmentAtHand DEF TruthInv, Captured, Uttered
<1> HIDE DEF c
<1>3. initiator' = initiator /\ finSent' = finSent /\ reset' = reset /\ initiator \in Ends
  BY DEF Apply, endpoint_vars, TruthInv, EndpointInv, EndpointTyped
<1>4. entry'.state = IF c.flags = {"rst"} THEN "CLOSED" ELSE Goal("UNKNOWN", c.flags, c.is_outgoing)
  BY <1>1, <1>2, UpdateIs DEF Created
<1>5. entry'.direction = DirectionOf(c)
  BY <1>1 DEF Created
<1>6. CASE c.flags = {"syn"}
  BY <1>2, <1>3, <1>4, <1>5, <1>6, FlagsApart
  DEF Goal, DirectionOf, Uttered, Sender, DirectionKnown, DirectionTruthful, CloseIsReal
<1>7. CASE c.flags = {"syn", "ack"}
  BY <1>2, <1>3, <1>4, <1>5, <1>7, FlagsApart
  DEF Goal, DirectionOf, Uttered, Sender, DirectionKnown, DirectionTruthful, CloseIsReal, Ends
<1>8. CASE c.flags \in {{"ack"}, {"fin", "ack"}, {"rst"}}
  <2>1. entry'.direction = "unknown" /\ entry'.state \in {"ESTABLISHED", "CLOSED"}
    BY <1>4, <1>5, <1>8, FlagsApart DEF Goal, DirectionOf
  <2>2. entry'.state = "CLOSED" => reset
    BY <1>2, <1>4, <1>8, FlagsApart DEF Goal, Uttered
  <2> QED BY <1>3, <2>1, <2>2 DEF DirectionKnown, DirectionTruthful, CloseIsReal
<1> QED BY <1>2, <1>6, <1>7, <1>8 DEF Flagged

LEMMA EntryStaysTrue ==
  ASSUME TruthInv, NEW i \in 1..Window, Apply(i), entry # NoEntry, entry' # NoEntry
  PROVE  DirectionKnown' /\ DirectionTruthful' /\ CloseIsReal'
<1> DEFINE c == seen[i]
           s == entry.state
<1>1. /\ c \in Captured /\ c.flags \in Flagged /\ c.is_outgoing \in BOOLEAN
      /\ Uttered(Sender(c), c.flags)
  BY SegmentAtHand DEF TruthInv, Captured, Uttered
<1>2. initiator' = initiator /\ finSent' = finSent /\ reset' = reset
      /\ initiator \in Ends /\ finSent \subseteq Ends
  BY DEF Apply, endpoint_vars, TruthInv, EndpointInv, EndpointTyped
<1>3. entry \in Entry
  BY DEF TruthInv, TrackerTypeOK
<1>4. entry'.direction = entry.direction /\ entry'.state = update_tcp_state(s, c)
  <2>1. PICK app : entry' = Merged(c, app)
    BY DEF Apply
  <2> HIDE DEF c
  <2> QED BY <1>3, <2>1 DEF Merged, Entry
<1> HIDE DEF c
<1>5. entry'.state = IF c.flags = {"rst"} THEN "CLOSED" ELSE Goal(s, c.flags, c.is_outgoing)
  BY <1>1, <1>4, UpdateIs
<1>6. DirectionTruthful'
  BY <1>2, <1>4 DEF TruthInv, DirectionTruthful
<1>7. DirectionKnown'
  <2>1. s = "UNKNOWN" => entry.direction = IF initiator = "local" THEN "outgoing" ELSE "incoming"
    BY DEF TruthInv, DirectionKnown
  <2>2. c.flags = {"syn"} => (c.is_outgoing <=> initiator = "local")
    BY <1>1, <1>2 DEF Uttered, Sender, Ends
  <2>3. /\ s = "SYN_SENT" => entry.direction = "outgoing"
        /\ s = "SYN_RECV" => entry.direction = "incoming"
    BY DEF TruthInv, DirectionKnown
  <2>4. entry'.state = "SYN_SENT" => s = "SYN_SENT" \/ (s = "UNKNOWN" /\ c.flags = {"syn"} /\ c.is_outgoing)
    BY <1>5 DEF Goal
  <2>5. entry'.state = "SYN_RECV" => s = "SYN_RECV" \/ (s = "UNKNOWN" /\ c.flags = {"syn"} /\ ~c.is_outgoing)
    BY <1>1, <1>5 DEF Goal
  <2>6. entry'.state = "UNKNOWN" => s = "UNKNOWN"
    BY <1>5 DEF Goal
  <2> QED BY <1>2, <1>4, <2>1, <2>2, <2>3, <2>4, <2>5, <2>6 DEF DirectionKnown
<1>8. CloseIsReal'
  <2>1. c.flags = {"fin", "ack"} =>
          /\ c.is_outgoing => "local" \in finSent
          /\ ~c.is_outgoing => "remote" \in finSent
    BY <1>1, FlagsApart DEF Uttered, Sender
  <2>2. c.flags = {"rst"} => reset
    BY <1>1, FlagsApart DEF Uttered
  <2>3. /\ s \in {"FIN_WAIT1", "FIN_WAIT2"} => "local" \in finSent
        /\ s = "CLOSE_WAIT" => "remote" \in finSent
        /\ s \in {"CLOSING", "LAST_ACK", "TIME_WAIT"} => finSent = Ends
        /\ s = "CLOSED" => finSent = Ends \/ reset
    BY DEF TruthInv, CloseIsReal
  <2>4. "local" \in finSent /\ "remote" \in finSent => finSent = Ends
    BY <1>2 DEF Ends
  <2> DEFINE t == entry'.state
  <2>5. /\ t \in {"FIN_WAIT1", "FIN_WAIT2"} => "local" \in finSent
        /\ t = "CLOSE_WAIT" => "remote" \in finSent
        /\ t \in {"CLOSING", "LAST_ACK", "TIME_WAIT"} => finSent = Ends
        /\ t = "CLOSED" => finSent = Ends \/ reset
    BY <1>1, <1>5, <2>1, <2>2, <2>3, <2>4 DEF Goal
  <2> QED BY <1>2, <2>5 DEF CloseIsReal
<1> QED BY <1>6, <1>7, <1>8

(* DirectionKnown holds the part of TrackerTypeOK that is not a type.       *)
LEMMA TypesOfTracker ==
  TrackerTypeOK <=> EntryTyped /\ idle \in Idle /\ upset \in BOOLEAN
                      /\ (entry # NoEntry =>
                            /\ entry.state = "SYN_SENT" => entry.direction = "outgoing"
                            /\ entry.state = "SYN_RECV" => entry.direction = "incoming")
BY DEF TrackerTypeOK, EntryTyped

LEMMA ApplyTrue ==
  ASSUME TruthInv, NEW i \in 1..Window, Apply(i)
  PROVE  TruthInv'
<1>1. EntryTyped'
  BY ApplyForward, TypesOfTracker DEF TruthInv
<1>2. EndpointInv'
  BY SegmentAtHand, EndpointAside DEF TruthInv, Apply
<1>3. DirectionKnown' /\ DirectionTruthful' /\ CloseIsReal'
  BY NewEntryTrue, EntryStaysTrue DEF DirectionKnown, DirectionTruthful, CloseIsReal
<1>4. idle' \in Idle /\ upset' \in BOOLEAN
  BY DEF Apply, Idle, Seconds
<1>5. TrackerTypeOK'
  BY <1>1, <1>3, <1>4 DEF TrackerTypeOK, EntryTyped, DirectionKnown
<1> QED BY <1>2, <1>3, <1>5 DEF TruthInv

LEMMA CleanupTrue ==
  ASSUME TruthInv, NEW i \in Idle, Cleanup(i)
  PROVE  TruthInv'
<1>1. entry' = NoEntry /\ idle' = i /\ upset' = upset /\ UNCHANGED <<endpoint_vars, seen>>
  BY DEF Cleanup
<1>2. seen \in Seq(Captured)
  BY DEF TruthInv, EndpointInv, EndpointTyped
<1>3. EndpointInv'
  BY <1>1, <1>2, EndpointAside DEF TruthInv, Noticed
<1> QED BY <1>1, <1>3
    DEF TruthInv, TrackerTypeOK, DirectionKnown, DirectionTruthful, CloseIsReal

LEMMA EndpointTrue ==
  ASSUME TruthInv, NEW e \in Ends, EndpointStep(e)
  PROVE  TruthInv'
<1>1. Endpoint(e) /\ entry' = entry /\ idle' = idle /\ upset' \in BOOLEAN
  BY DEF EndpointStep
<1>2. EndpointInv'
  BY <1>1, EndpointKept DEF TruthInv
<1>3. initiator' = initiator /\ finSent \subseteq finSent' /\ (reset => reset')
      /\ finSent' \subseteq Ends
  BY <1>1, <1>2, EndpointKept DEF TruthInv, Moves, Effect, EndpointInv, EndpointTyped
<1>4. TrackerTypeOK' /\ DirectionKnown' /\ DirectionTruthful'
  BY <1>1, <1>3 DEF TruthInv, TrackerTypeOK, DirectionKnown, DirectionTruthful
<1>5. CloseIsReal'
  BY <1>1, <1>3 DEF TruthInv, CloseIsReal
<1> QED BY <1>2, <1>4, <1>5 DEF TruthInv

LEMMA TruthInitially == Init => TruthInv
<1> SUFFICES ASSUME Init PROVE TruthInv
  OBVIOUS
<1>1. entry = NoEntry /\ idle = 0 /\ upset = FALSE /\ EndpointInv
  BY EndpointInitially DEF Init
<1>2. 0 \in Idle
  BY DEF Idle, Seconds
<1> QED BY <1>1, <1>2
    DEF TruthInv, TrackerTypeOK, DirectionKnown, DirectionTruthful, CloseIsReal

LEMMA TruthStep == TruthInv /\ [Next]_vars => TruthInv'
<1> SUFFICES ASSUME TruthInv, [Next]_vars PROVE TruthInv'
  OBVIOUS
<1>1. CASE UNCHANGED vars
  <2>1. UNCHANGED <<endpoint_vars, seen, entry, idle, upset>>
    BY <1>1 DEF vars, tracker_vars
  <2>2. seen \in Seq(Captured)
    BY DEF TruthInv, EndpointInv, EndpointTyped
  <2>3. EndpointInv'
    BY <2>1, <2>2, EndpointAside DEF TruthInv, Noticed
  <2>4. initiator' = initiator /\ finSent' = finSent /\ reset' = reset
    BY <2>1 DEF endpoint_vars
  <2> QED BY <2>1, <2>3, <2>4
      DEF TruthInv, TrackerTypeOK, DirectionKnown, DirectionTruthful, CloseIsReal
<1> QED BY <1>1, ApplyTrue, CleanupTrue, EndpointTrue DEF Next

LEMMA TruthHolds == Spec => []TruthInv
BY TruthInitially, TruthStep, PTL DEF Spec

(* The tracker's variables keep their types and an entry in a state of the  *)
(* handshake knows its direction, for any bounds and any Window.            *)
THEOREM TrackerTyped == Spec => []TrackerTypeOK
<1>1. TruthInv => TrackerTypeOK
  BY DEF TruthInv
<1> QED BY <1>1, TruthHolds, PTL

(* A direction that is shown is the true one, however many segments were    *)
(* lost, repeated, overtaken, or applied before there was an entry.         *)
THEOREM DirectionIsTruthful == Spec => []DirectionTruthful
<1>1. TruthInv => DirectionTruthful
  BY DEF TruthInv
<1> QED BY <1>1, TruthHolds, PTL

(* An entry shows the end of a connection only when the endpoints have      *)
(* begun it, under loss, repetition and any overtaking.                     *)
THEOREM CloseIsAlwaysReal == Spec => []CloseIsReal
<1>1. TruthInv => CloseIsReal
  BY DEF TruthInv
<1> QED BY <1>1, TruthHolds, PTL

(* Good(t, s): the entry may show t when the local endpoint is in s.        *)
Good(t, s) == t = "none" \/ <<t, s>> \in Agreeing

(* A captured segment takes the local endpoint from s to t: wherever the    *)
(* entry was good for s, it is good for t once the segment is applied.      *)
(* Without an entry only a SYN is of interest, anything else upsets.        *)
Explains(s, c, t) ==
  \A x : Good(x, s) /\ (x = "none" => c.flags = {"syn"}) =>
    Good(update_tcp_state(IF x = "none" THEN "UNKNOWN" ELSE x, c), t)

(* The states the local endpoint was in when each of the segments of q was  *)
(* captured, up to its present state s; x is what the entry shows.          *)
Replays(past, q, s, x) ==
  /\ past \in Seq(EndpointStates)
  /\ Len(past) = Len(q) + 1
  /\ past[Len(past)] = s
  /\ \A i \in 1..Len(q) : Explains(past[i], q[i], past[i + 1])
  /\ Good(x, past[1])

Shown == IF entry = NoEntry THEN "none" ELSE entry.state

(* With nothing upset the segments still to be applied lead the entry to    *)
(* where the local endpoint is.                                             *)
FollowInv ==
  initiator = "local" /\ ~upset => \E past : Replays(past, seen, est["local"], Shown)

(* The two steps that Explains is about.                                    *)
LEMMA SentExplained ==
  ASSUME EndpointInv, initiator = "local", NEW s, NEW f, Moves("local", s, f), f # NoReply,
         Own("local", s, f)
  PROVE  Explains(est["local"], [flags |-> f, is_outgoing |-> TRUE], s)
<1> DEFINE c == [flags |-> f, is_outgoing |-> TRUE]
           o == est["local"]
<1>1. f \in Flagged /\ o \in EndpointStates /\ c.flags = f /\ c.is_outgoing = TRUE
  BY StatesAfter DEF Moves
<1>2. o \notin {"LISTEN", "SYN_RECV"}
  BY DEF EndpointInv, Roles, Ends
<1>3. \/ o \in {"UNOPENED", "SYN_SENT"} /\ s = "SYN_SENT" /\ f = {"syn"}
      \/ o \in Synchronized /\ s = o /\ f = {"ack"}
      \/ o = "ESTABLISHED" /\ s = "FIN_WAIT1" /\ f = {"fin", "ack"}
      \/ o = "CLOSE_WAIT" /\ s = "LAST_ACK" /\ f = {"fin", "ack"}
      \/ o \in {"FIN_WAIT1", "CLOSING", "LAST_ACK"} /\ s = o /\ f = {"fin", "ack"}
      \/ s = "CLOSED" /\ f = {"rst"}
  BY <1>1, <1>2, FlagsApart DEF Own, Unacknowledged, NoReply
<1> HIDE DEF c, o
<1> SUFFICES ASSUME NEW x, Good(x, o), x = "none" => f = {"syn"}
    PROVE  Good(update_tcp_state(IF x = "none" THEN "UNKNOWN" ELSE x, c), s)
  BY <1>1 DEF Explains, c, o
<1> DEFINE y == IF x = "none" THEN "UNKNOWN" ELSE x
<1>4. update_tcp_state(y, c) = IF f = {"rst"} THEN "CLOSED" ELSE Goal(y, f, TRUE)
  BY <1>1, UpdateIs
<1>5. Good(IF f = {"rst"} THEN "CLOSED" ELSE Goal(y, f, TRUE), s)
  BY <1>3, FlagsApart DEF Good, Goal, Agreeing, Ahead, Behind, TcpStates, Synchronized, GotFin
<1> QED BY <1>4, <1>5

LEMMA AckExplained ==
  ASSUME NEW s \in EndpointStates, s # "SYN_RECV"
  PROVE  Explains(s, [flags |-> {"ack"}, is_outgoing |-> TRUE], s)
<1> DEFINE c == [flags |-> {"ack"}, is_outgoing |-> TRUE]
<1>1. c.flags = {"ack"} /\ c.flags \in Flagged /\ c.is_outgoing = TRUE
  BY DEF Flagged
<1> HIDE DEF c
<1> SUFFICES ASSUME NEW x, Good(x, s), x # "none"
    PROVE  Good(update_tcp_state(x, c), s)
  BY <1>1, FlagsApart DEF Explains, c
<1>2. update_tcp_state(x, c) = Goal(x, {"ack"}, TRUE)
  BY <1>1, UpdateIs, FlagsApart
<1>3. x # "UNKNOWN" /\ x # "SYN_RECV"
  BY DEF Good, Agreeing, Ahead, Behind, TcpStates
<1> QED BY <1>2, <1>3, FlagsApart DEF Goal

LEMMA ReceivedExplained ==
  ASSUME EndpointInv, initiator = "local", NEW g \in OnWire("local")
  PROVE  Explains(est["local"], OfWire(g, FALSE), After(est["local"], g))
<1> DEFINE c == OfWire(g, FALSE)
           o == est["local"]
           s == After(o, g)
           f == g.flags
<1>1. /\ f \in Flagged /\ o \in EndpointStates /\ g \in Segment /\ g.finAcked \in BOOLEAN
      /\ c.flags = f /\ c.is_outgoing = FALSE
  BY WireKnown DEF EndpointInv, EndpointTyped, Ends, OfWire, Segment
<1>2. o \notin {"LISTEN", "SYN_RECV"}
  BY DEF EndpointInv, Roles, Ends
<1>3. f # {"syn"} /\ (f = {"syn", "ack"} => ~g.finAcked)
  BY FlagsApart DEF EndpointInv, WireUttered, Uttered, Ends, Peer
<1>4. o \in {"UNOPENED", "SYN_SENT"} => f = {"syn", "ack"}
  BY DEF EndpointInv, HandshakeFirst, Opening, Ends
<1>5. o \in {"CLOSE_WAIT", "LAST_ACK"} => ~(f = {"fin", "ack"} /\ g.finAcked)
  <2>1. f = {"fin", "ack"} /\ g.finAcked => ClosedFirst("local")
    BY DEF ClosedFirst
  <2> QED BY <2>1 DEF EndpointInv, ActiveStaysActive, ActiveStates, Ends
<1>6. s = CASE f = {"rst"} -> "CLOSED"
            [] f # {"rst"} /\ o = "SYN_SENT" /\ f = {"syn", "ack"} -> "ESTABLISHED"
            [] f # {"rst"} /\ o = "ESTABLISHED" /\ f = {"fin", "ack"} -> "CLOSE_WAIT"
            [] f # {"rst"} /\ o = "FIN_WAIT1" /\ f = {"fin", "ack"} ->
                 IF g.finAcked THEN "TIME_WAIT" ELSE "CLOSING"
            [] f # {"rst"} /\ o = "FIN_WAIT1" /\ f # {"fin", "ack"} /\ g.finAcked -> "FIN_WAIT2"
            [] f # {"rst"} /\ o = "FIN_WAIT2" /\ f = {"fin", "ack"} -> "TIME_WAIT"
            [] f # {"rst"} /\ o = "CLOSING" /\ g.finAcked -> "TIME_WAIT"
            [] f # {"rst"} /\ o = "LAST_ACK" /\ g.finAcked -> "CLOSED"
            [] OTHER -> o
  <2>1. ("rst" \in f <=> f = {"rst"}) /\ ("fin" \in f <=> f = {"fin", "ack"})
    BY <1>1, FlagsApart
  <2> HIDE DEF f, o
  <2>2. s = IF "rst" \in f THEN "CLOSED" ELSE
         CASE o = "SYN_SENT" /\ f = {"syn", "ack"} -> "ESTABLISHED"
           [] o = "ESTABLISHED" /\ "fin" \in f -> "CLOSE_WAIT"
           [] o = "FIN_WAIT1" /\ "fin" \in f -> IF g.finAcked THEN "TIME_WAIT" ELSE "CLOSING"
           [] o = "FIN_WAIT1" /\ "fin" \notin f /\ g.finAcked -> "FIN_WAIT2"
           [] o = "FIN_WAIT2" /\ "fin" \in f -> "TIME_WAIT"
           [] o = "CLOSING" /\ g.finAcked -> "TIME_WAIT"
           [] o = "LAST_ACK" /\ g.finAcked -> "CLOSED"
           [] OTHER -> o
    BY <1>2 DEF After, f
  <2> QED BY <2>1, <2>2
<1> HIDE DEF c, o, f, s
<1> SUFFICES ASSUME NEW x, Good(x, o), x # "none"
    PROVE  Good(update_tcp_state(x, c), s)
  BY <1>1, <1>3 DEF Explains, c, o, f, s
<1>7. update_tcp_state(x, c) = IF f = {"rst"} THEN "CLOSED" ELSE Goal(x, f, FALSE)
  BY <1>1, UpdateIs
<1>8. <<x, o>> \in Agreeing
  BY DEF Good
<1>9. o \in TcpStates \ {"SYN_RECV"}
  BY <1>2, <1>8 DEF Agreeing, Ahead, Behind, TcpStates
<1>10. CASE f = {"rst"}
  BY <1>6, <1>7, <1>10 DEF Good, Agreeing, TcpStates
<1>11. CASE f = {"syn", "ack"}
  BY <1>2, <1>3, <1>6, <1>7, <1>8, <1>11, FlagsApart DEF Good, Goal, Agreeing, Ahead, Behind, TcpStates
<1>12. CASE f = {"ack"}
  BY <1>1, <1>4, <1>6, <1>7, <1>8, <1>9, <1>12, FlagsApart
  DEF Good, Goal, Agreeing, Ahead, Behind, TcpStates
<1>13. CASE f = {"fin", "ack"}
  BY <1>1, <1>4, <1>5, <1>6, <1>7, <1>8, <1>9, <1>13, FlagsApart
  DEF Good, Goal, Agreeing, Ahead, Behind, TcpStates
<1> QED BY <1>1, <1>3, <1>10, <1>11, <1>12, <1>13 DEF Flagged

(* A segment more at the end, one less at the front, and a change of state  *)
(* that is not captured.                                                    *)
LEMMA ReplayMore ==
  ASSUME NEW q \in Seq(Captured), NEW c \in Captured, NEW s, NEW t \in EndpointStates, NEW x,
         NEW past, Replays(past, q, s, x), Explains(s, c, t)
  PROVE  Replays(Append(past, t), Append(q, c), t, x)
<1> DEFINE p == Append(past, t)
           r == Append(q, c)
<1>1. past \in Seq(EndpointStates) /\ Len(past) = Len(q) + 1 /\ past[Len(past)] = s
  BY DEF Replays
<1>2. /\ p \in Seq(EndpointStates) /\ Len(p) = Len(past) + 1 /\ p[Len(p)] = t
      /\ \A i \in 1..Len(past) : p[i] = past[i]
  BY <1>1
<1>3. /\ Len(r) = Len(q) + 1 /\ r[Len(r)] = c
      /\ \A i \in 1..Len(q) : r[i] = q[i]
  OBVIOUS
<1>4. Len(q) \in Nat
  OBVIOUS
<1> HIDE DEF p, r
<1>5. \A i \in 1..Len(r) : Explains(p[i], r[i], p[i + 1])
  <2> SUFFICES ASSUME NEW i \in 1..Len(r) PROVE Explains(p[i], r[i], p[i + 1])
    OBVIOUS
  <2>1. CASE i \in 1..Len(q)
    <3>1. p[i] = past[i] /\ p[i + 1] = past[i + 1] /\ r[i] = q[i]
      BY <1>1, <1>2, <1>3, <1>4, <2>1
    <3> QED BY <2>1, <3>1 DEF Replays
  <2>2. CASE i = Len(q) + 1
    <3>1. p[i] = s /\ p[i + 1] = t /\ r[i] = c
      BY <1>1, <1>2, <1>3, <1>4, <2>2
    <3> QED BY <3>1
  <2> QED BY <1>3, <1>4, <2>1, <2>2
<1>6. p[1] = past[1]
  BY <1>1, <1>2, <1>4
<1>7. Replays(p, r, t, x)
  BY <1>1, <1>2, <1>3, <1>5, <1>6 DEF Replays
<1> QED BY <1>7 DEF p, r

LEMMA ReplayTo ==
  ASSUME NEW q \in Seq(Captured), NEW s, NEW t \in EndpointStates, NEW x,
         NEW past, Replays(past, q, s, x), \A y : Good(y, s) => Good(y, t)
  PROVE  \E then : Replays(then, q, t, x)
<1> DEFINE p == [past EXCEPT ![Len(past)] = t]
<1>1. past \in Seq(EndpointStates) /\ Len(past) = Len(q) + 1 /\ past[Len(past)] = s
      /\ Len(q) \in Nat
  BY DEF Replays
<1>2. /\ p \in Seq(EndpointStates) /\ Len(p) = Len(past) /\ p[Len(p)] = t
      /\ \A i \in 1..Len(past) : i # Len(past) => p[i] = past[i]
  BY <1>1
<1> HIDE DEF p
<1>3. \A i \in 1..Len(q) : Explains(p[i], q[i], p[i + 1])
  <2> SUFFICES ASSUME NEW i \in 1..Len(q) PROVE Explains(p[i], q[i], p[i + 1])
    OBVIOUS
  <2>1. Explains(past[i], q[i], past[i + 1])
    BY DEF Replays
  <2>2. p[i] = past[i]
    BY <1>1, <1>2
  <2>3. CASE i = Len(q)
    <3>1. past[i + 1] = s /\ p[i + 1] = t
      BY <1>1, <1>2, <2>3
    <3> QED BY <2>1, <2>2, <3>1 DEF Explains
  <2>4. CASE i # Len(q)
    <3>1. p[i + 1] = past[i + 1]
      BY <1>1, <1>2, <2>4
    <3> QED BY <2>1, <2>2, <3>1
  <2> QED BY <2>3, <2>4
<1>4. Good(x, p[1])
  <2>1. Good(x, past[1])
    BY DEF Replays
  <2>2. CASE Len(q) = 0
    BY <1>1, <1>2, <2>1, <2>2
  <2>3. CASE Len(q) # 0
    BY <1>1, <1>2, <2>1, <2>3
  <2> QED BY <2>2, <2>3
<1>5. Replays(p, q, t, x)
  BY <1>1, <1>2, <1>3, <1>4 DEF Replays
<1> QED BY <1>5

LEMMA ReplayLess ==
  ASSUME NEW q \in Seq(Captured), q # <<>>, NEW s, NEW x,
         NEW past, Replays(past, q, s, x), x = "none" => q[1].flags = {"syn"}
  PROVE  Replays(Tail(past), Tail(q), s,
                 update_tcp_state(IF x = "none" THEN "UNKNOWN" ELSE x, q[1]))
<1> DEFINE p == Tail(past)
           r == Tail(q)
<1>1. past \in Seq(EndpointStates) /\ Len(past) = Len(q) + 1 /\ past[Len(past)] = s
      /\ Len(q) \in Nat /\ Len(q) >= 1
  BY DEF Replays
<1>2. past # <<>>
  BY <1>1
<1>3. /\ p \in Seq(EndpointStates) /\ Len(p) = Len(q)
      /\ \A i \in 1..Len(q) : p[i] = past[i + 1]
  BY <1>1, <1>2, HeadTailProperties
<1>4. Len(r) = Len(q) - 1 /\ \A i \in 1..(Len(q) - 1) : r[i] = q[i + 1]
  BY HeadTailProperties
<1> HIDE DEF p, r
<1>5. \A i \in 1..Len(r) : Explains(p[i], r[i], p[i + 1])
  <2> SUFFICES ASSUME NEW i \in 1..Len(r) PROVE Explains(p[i], r[i], p[i + 1])
    OBVIOUS
  <2>1. Explains(past[i + 1], q[i + 1], past[i + 1 + 1])
    BY <1>1, <1>4 DEF Replays
  <2>2. p[i] = past[i + 1] /\ r[i] = q[i + 1] /\ p[i + 1] = past[i + 1 + 1]
    BY <1>1, <1>3, <1>4
  <2> QED BY <2>1, <2>2
<1>6. Good(update_tcp_state(IF x = "none" THEN "UNKNOWN" ELSE x, q[1]), p[1])
  <2>1. Explains(past[1], q[1], past[2]) /\ Good(x, past[1])
    BY <1>1 DEF Replays
  <2>2. p[1] = past[2]
    BY <1>1, <1>3
  <2> QED BY <2>1, <2>2 DEF Explains
<1>7. p[Len(p)] = s
  BY <1>1, <1>3
<1>8. Replays(p, r, s, update_tcp_state(IF x = "none" THEN "UNKNOWN" ELSE x, q[1]))
  BY <1>1, <1>3, <1>4, <1>5, <1>6, <1>7 DEF Replays
<1> QED BY <1>8 DEF p, r

LEMMA ReplayAnew ==
  ASSUME NEW q, NEW s, NEW x, NEW past, Replays(past, q, s, x)
  PROVE  Replays(past, q, s, "none")
BY DEF Replays, Good

LEMMA ApplyFollows ==
  ASSUME TruthInv, FollowInv, NEW i \in 1..Window, Apply(i)
  PROVE  FollowInv'
<1> SUFFICES ASSUME initiator' = "local", ~upset'
    PROVE  \E past : Replays(past, seen', est'["local"], Shown')
  BY DEF FollowInv
<1>1. /\ initiator = "local" /\ est' = est /\ ~upset /\ i = 1
      /\ entry = NoEntry => seen[i].flags = {"syn"}
  <2>1. upset' = (upset \/ i > 1 \/ (entry = NoEntry /\ seen[i].flags # {"syn"}))
    BY DEF Apply
  <2>2. ~upset /\ ~(i > 1) /\ ~(entry = NoEntry /\ seen[i].flags # {"syn"})
    BY <2>1
  <2>3. initiator' = initiator /\ est' = est
    BY DEF Apply, endpoint_vars
  <2>4. i = 1
    BY <2>2, TrackerAssumption
  <2> QED BY <2>2, <2>3, <2>4
<1>2. seen \in Seq(Captured) /\ Len(seen) >= 1 /\ seen' = RemoveAt(seen, 1)
  BY <1>1 DEF Apply, TruthInv, EndpointInv, EndpointTyped
<1>3. seen' = Tail(seen) /\ seen # <<>>
  BY <1>2 DEF RemoveAt
<1>4. PICK past : Replays(past, seen, est["local"], Shown)
  BY <1>1 DEF FollowInv
<1>5. entry # NoEntry => entry.state \notin {"none"} /\ entry \in Entry
  BY DEF TruthInv, TrackerTypeOK, Entry, TrackedStates, TcpStates
<1>6. Replays(Tail(past), seen', est["local"],
              update_tcp_state(IF Shown = "none" THEN "UNKNOWN" ELSE Shown, seen[1]))
  <2>1. Shown = "none" => seen[1].flags = {"syn"}
    BY <1>1, <1>5 DEF Shown
  <2> QED BY <1>2, <1>3, <1>4, <2>1, ReplayLess
<1>7. CASE entry' = NoEntry
  BY <1>1, <1>6, <1>7, ReplayAnew DEF Shown
<1>8. CASE entry' # NoEntry
  <2>1. PICK app : entry' = IF entry = NoEntry THEN Created(seen[1], app) ELSE Merged(seen[1], app)
    BY <1>1 DEF Apply
  <2>2. entry'.state = update_tcp_state(IF Shown = "none" THEN "UNKNOWN" ELSE Shown, seen[1])
    <3>1. CASE entry = NoEntry
      BY <2>1, <3>1 DEF Created, Shown
    <3>2. CASE entry # NoEntry
      BY <1>5, <2>1, <3>2 DEF Merged, Shown, Entry
    <3> QED BY <3>1, <3>2
  <2>3. Shown' = entry'.state
    BY <1>8 DEF Shown
  <2> QED BY <1>1, <1>6, <2>2, <2>3
<1> QED BY <1>7, <1>8

LEMMA CleanupFollows ==
  ASSUME FollowInv, NEW i \in Idle, Cleanup(i)
  PROVE  FollowInv'
<1>1. entry' = NoEntry /\ upset' = upset /\ seen' = seen /\ initiator' = initiator /\ est' = est
  BY DEF Cleanup, endpoint_vars
<1> QED BY <1>1, ReplayAnew DEF FollowInv, Shown

LEMMA EndpointFollows ==
  ASSUME TruthInv, FollowInv, NEW e \in Ends, EndpointStep(e)
  PROVE  FollowInv'
<1> SUFFICES ASSUME initiator' = "local", ~upset'
    PROVE  \E past : Replays(past, seen', est'["local"], Shown')
  BY DEF FollowInv
<1>1. Endpoint(e) /\ ~upset /\ Shown' = Shown /\ EndpointInv
  BY DEF EndpointStep, Shown, TruthInv
<1>2. PICK s \in EndpointStates, f \in Flagged \union {NoReply} : Moves(e, s, f)
  BY <1>1, EndpointKept
<1>3. initiator = "local" /\ est'[e] = s /\ est'[Peer(e)] = est[Peer(e)]
  BY <1>1, <1>2, StatesAfter DEF Moves, Effect
<1>4. PICK past : Replays(past, seen, est["local"], Shown)
  BY <1>1, <1>3 DEF FollowInv
<1>5. CASE e = "remote"
  <2>1. seen' = seen /\ est'["local"] = est["local"]
    BY <1>2, <1>3, <1>5 DEF Moves, Captures, Peer
  <2> QED BY <1>1, <1>4, <2>1
<1>6. CASE e = "local"
  <2> DEFINE c == [flags |-> f, is_outgoing |-> TRUE]
  <2>1. seen \in Seq(Captured) /\ est'["local"] = s
    BY <1>1, <1>3, <1>6 DEF EndpointInv, EndpointTyped
  <2>2. f # NoReply => c \in Captured
    BY <1>2, FlaggedFlags DEF Captured
  <2>3. CASE seen' = CaptureOf(0, f) /\ Own(e, s, f) /\ f = NoReply
    <3>1. seen' = seen
      BY <2>3 DEF CaptureOf
    <3>2. \/ s = est["local"]
          \/ est["local"] = "TIME_WAIT" /\ s = "CLOSED"
      BY <1>6, <2>3 DEF Own, NoReply
    <3>3. \A y : Good(y, est["local"]) => Good(y, s)
      BY <3>2 DEF Good, Agreeing, Ahead, Behind, TcpStates
    <3> QED BY <1>1, <1>4, <2>1, <3>1, <3>3, ReplayTo
  <2>4. CASE seen' = CaptureOf(0, f) /\ Own(e, s, f) /\ f # NoReply
    <3>1. seen' = Append(seen, c)
      BY <2>4 DEF CaptureOf
    <3>2. Explains(est["local"], c, s)
      BY <1>1, <1>2, <1>3, <1>6, <2>4, SentExplained
    <3> QED BY <1>1, <1>4, <2>1, <2>2, <2>4, <3>1, <3>2, ReplayMore
  <2>5. CASE seen' = CaptureOf(1, f) /\ wire[e] # <<>> /\ Receipt(e, Head(wire[e]), s, f)
    <3> DEFINE g == Head(wire["local"])
               took == OfWire(g, FALSE)
               got == Append(seen, took)
    <3>1. g \in OnWire("local")
      <4>1. wire["local"] \in Seq(Segment) /\ wire["local"] # <<>>
        BY <1>1, <1>6, <2>5 DEF EndpointInv, EndpointTyped, Ends
      <4>2. 1 \in DOMAIN wire["local"] /\ g = wire["local"][1]
        BY <4>1
      <4> QED BY <4>2 DEF OnWire, Range
    <3>2. s = After(est["local"], g) /\ (f = NoReply \/ Answers(est["local"], g) = <<f>>)
      BY <1>6, <2>5 DEF Receipt
    <3>3. seen' = IF f = NoReply THEN got ELSE Append(got, c)
      BY <2>5 DEF CaptureOf
    <3> HIDE DEF g
    <3>4. took \in Captured
      <4>1. g \in Segment
        BY <1>1, <3>1, WireKnown DEF Ends
      <4> QED BY <4>1 DEF OfWire, Segment, Captured
    <3>5. Explains(est["local"], took, s)
      BY <1>1, <1>3, <3>1, <3>2, ReceivedExplained
    <3> HIDE DEF took
    <3>6. Replays(Append(past, s), got, s, Shown) /\ got \in Seq(Captured)
      BY <1>4, <2>1, <3>4, <3>5, ReplayMore
    <3> HIDE DEF got, c
    <3>7. CASE f = NoReply
      BY <1>1, <2>1, <3>3, <3>6, <3>7
    <3>8. CASE f # NoReply
      <4>1. f = {"ack"} /\ s # "SYN_RECV"
        <5>1. est["local"] \notin {"LISTEN", "SYN_RECV"}
          BY <1>1, <1>3 DEF EndpointInv, Roles, Ends
        <5>2. f = {"ack"}
          BY <3>2, <3>8, <5>1 DEF Answers
        <5>3. s # "SYN_RECV"
          BY <1>1, <1>2, <1>3, <1>6, RolesKept DEF Roles, Ends
        <5> QED BY <5>2, <5>3
      <4>2. Explains(s, c, s)
        BY <4>1, AckExplained DEF c
      <4>3. Replays(Append(Append(past, s), s), Append(got, c), s, Shown)
        BY <2>2, <3>6, <3>8, <4>2, ReplayMore
      <4> QED BY <1>1, <2>1, <3>3, <3>8, <4>3
    <3> QED BY <3>7, <3>8
  <2> QED BY <1>2, <1>6, <2>3, <2>4, <2>5 DEF Moves, Captures
<1> QED BY <1>5, <1>6 DEF Ends

LEMMA FollowInitially == Init => FollowInv
<1> SUFFICES ASSUME Init, initiator = "local" PROVE \E past : Replays(past, seen, est["local"], Shown)
  BY DEF FollowInv
<1>1. seen = <<>> /\ est["local"] = "UNOPENED" /\ Shown = "none"
  BY DEF Init, EndpointsInit, Ends, Shown
<1> DEFINE past == <<"UNOPENED">>
<1>2. past \in Seq(EndpointStates) /\ Len(past) = 1 /\ past[1] = "UNOPENED"
  BY DEF EndpointStates
<1>3. Len(seen) = 0
  BY <1>1
<1> HIDE DEF past
<1>4. Replays(past, seen, est["local"], Shown)
  BY <1>1, <1>2, <1>3 DEF Replays, Good
<1> QED BY <1>4

LEMMA FollowStep == TruthInv /\ FollowInv /\ [Next]_vars => FollowInv'
<1> SUFFICES ASSUME TruthInv, FollowInv, [Next]_vars PROVE FollowInv'
  OBVIOUS
<1>1. CASE UNCHANGED vars
  BY <1>1 DEF vars, tracker_vars, endpoint_vars, FollowInv, Shown
<1> QED BY <1>1, ApplyFollows, CleanupFollows, EndpointFollows DEF Next

LEMMA FollowHolds == Spec => []FollowInv
BY FollowInitially, FollowStep, TruthHolds, PTL DEF Spec

(* Once everything captured is applied, the entry and the local endpoint of *)
(* a connection opened locally agree, as long as nothing was lost or        *)
(* overtaken.                                                               *)
LEMMA FollowAgrees ==
  ASSUME TruthInv, FollowInv, ~upset, seen = <<>>, entry # NoEntry, initiator = "local"
  PROVE  <<entry.state, est["local"]>> \in Agreeing
<1>1. PICK past : Replays(past, seen, est["local"], Shown)
  BY DEF FollowInv
<1>2. Len(past) = 1 /\ past[1] = est["local"]
  BY <1>1 DEF Replays
<1>3. Good(entry.state, est["local"])
  BY <1>1, <1>2 DEF Replays, Shown
<1>4. entry.state # "none"
  BY DEF TruthInv, TrackerTypeOK, Entry, TrackedStates, TcpStates
<1> QED BY <1>3, <1>4 DEF Good

(* For any bounds, with repetition and with any lag between capture and     *)
(* application: the entry of a connection that was opened locally agrees    *)
(* with the local endpoint.                                                 *)
THEOREM ActiveOpenFollowed == Spec => []FollowsActiveOpen
<1>1. TruthInv /\ FollowInv => FollowsActiveOpen
  BY FollowAgrees DEF FollowsActiveOpen
<1> QED BY <1>1, TruthHolds, FollowHolds, PTL

-----------------------------------------------------------------------------
(* The timeouts, in steps of idle time.                                     *)
LEMMA StepsOfTime ==
  Passed(60) = 3 /\ Passed(300) = 5 /\ Passed(600) = 6 /\ Passed(1800) = 7
<1>1. DOMAIN Seconds = 1..7
  BY DEF Seconds
<1>2. /\ Seconds[1] = 5 /\ Seconds[2] = 30 /\ Seconds[3] = 60 /\ Seconds[4] = 120
      /\ Seconds[5] = 300 /\ Seconds[6] = 600 /\ Seconds[7] = 1800
  BY DEF Seconds
<1>3. \A i \in 1..7 : i \in {1, 2, 3, 4, 5, 6, 7}
  OBVIOUS
<1> HIDE DEF Seconds
<1>4. /\ \A i \in DOMAIN Seconds : Seconds[i] = 60 <=> i = 3
      /\ \A i \in DOMAIN Seconds : Seconds[i] = 300 <=> i = 5
      /\ \A i \in DOMAIN Seconds : Seconds[i] = 600 <=> i = 6
      /\ \A i \in DOMAIN Seconds : Seconds[i] = 1800 <=> i = 7
  BY <1>1, <1>2, <1>3
<1> QED BY <1>1, <1>4 DEF Passed

LEMMA KeptLongEnough ==
  ASSUME TruthInv, FollowInv, [Next]_vars, entry' # entry,
         RemovesEstablished, ~upset, initiator = "local"
  PROVE  idle' >= Passed(CASE entry.app = "ssh" -> 1800 [] entry.app = "http" -> 600
                           [] OTHER -> 300)
<1>1. entry # NoEntry /\ entry' = NoEntry /\ seen = <<>> /\ est["local"] = "ESTABLISHED"
  BY DEF RemovesEstablished
<1>2. entry.state = "ESTABLISHED"
  <2>1. <<entry.state, "ESTABLISHED">> \in Agreeing
    BY <1>1, FollowAgrees
  <2> QED BY <2>1 DEF Agreeing, Ahead, Behind, TcpStates
<1>3. ~\E i \in 1..Window : Apply(i)
  BY <1>1, TrackerAssumption DEF Apply
<1>4. PICK i \in Idle : Cleanup(i)
  BY <1>3 DEF Next, EndpointStep, vars, tracker_vars
<1>5. idle' = i /\ i \in Int /\ i >= TcpTimeout(entry, i)
  BY <1>4 DEF Cleanup, should_cleanup, Idle, Seconds
<1>6. TcpTimeout(entry, i) =
        CASE entry.app = "ssh" -> 7
          [] entry.app = "http" -> 6
          [] OTHER -> IF i < 3 THEN 6 ELSE 5
  BY <1>2, StepsOfTime DEF TcpTimeout
<1>7. CASE entry.app = "ssh"
  BY <1>5, <1>6, <1>7, StepsOfTime
<1>8. CASE entry.app = "http"
  BY <1>5, <1>6, <1>8, StepsOfTime
<1>9. CASE entry.app \notin {"ssh", "http"}
  BY <1>5, <1>6, <1>9, StepsOfTime
<1> QED BY <1>7, <1>8, <1>9

(* A connection that was opened locally and is established stays in the     *)
(* table for the time the documentation gives its protocol, unless its      *)
(* segments were lost or overtaken.                                         *)
THEOREM ActiveOpenStays == Spec => ActiveOpenKept
<1>1. TruthInv /\ FollowInv /\ [Next]_vars =>
        [RemovesEstablished /\ ~upset /\ initiator = "local" =>
           idle' >= Passed(CASE entry.app = "ssh" -> 1800 [] entry.app = "http" -> 600
                             [] OTHER -> 300)]_entry
  BY KeptLongEnough
<1> QED BY <1>1, TruthHolds, FollowHolds, PTL DEF Spec, ActiveOpenKept

=============================================================================
