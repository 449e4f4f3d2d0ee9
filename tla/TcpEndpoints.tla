---------------------------- MODULE TcpEndpoints ----------------------------
(***************************************************************************)
(* The environment of rustnet's TCP tracking: the two endpoints of one     *)
(* connection, as RFC 793 describes them, the network between them, and    *)
(* what a capture at the local endpoint records of their segments.         *)
(*                                                                         *)
(* The endpoints are not part of the repository: merge.rs says that its    *)
(* tracker follows RFC 793, and this module is what it follows.  Outgoing  *)
(* segments are captured when they are sent, incoming ones when they       *)
(* arrive.  Simultaneous opens and the reuse of the ports by a second      *)
(* connection are left out.                                                *)
(***************************************************************************)
EXTENDS Naturals, SequencesExt

CONSTANTS
  Initiators,       \* the endpoints that may open the connection
  MaxData,          \* bound: segments sent without a change of state
  MaxLosses,        \* bound: segments lost in the network
  MaxResends,       \* bound: retransmitted SYNs and FINs
  MaxWire,          \* bound: segments in flight in one direction
  MaxLag            \* bound: captured segments the tracker has not seen

Ends == {"local", "remote"}

ASSUME EndpointsAssumption ==
  /\ Initiators \subseteq Ends
  /\ MaxData \in Nat /\ MaxLosses \in Nat /\ MaxResends \in Nat
  /\ MaxWire \in Nat \ {0} /\ MaxLag \in Nat \ {0}

VARIABLES
  initiator,        \* the endpoint with the active open
  est,              \* state of each endpoint
  wire,             \* segments on their way to each endpoint
  finSent,          \* history: endpoints that have sent a FIN
  reset,            \* history: a reset has been sent
  budget,           \* what is left of the bounds
  seen              \* captured segments, in the order of their capture

endpoint_vars == <<initiator, est, wire, finSent, reset, budget>>

Peer(e) == IF e = "local" THEN "remote" ELSE "local"

Flags == {"syn", "ack", "fin", "rst"}

(* finAcked: the segment acknowledges the FIN of the one who receives it.  *)
Segment == [flags : SUBSET Flags, finAcked : BOOLEAN]

(* What the capture adds: outgoing or incoming. *)
Captured == [flags : SUBSET Flags, is_outgoing : BOOLEAN]

TcpStates ==
  {"SYN_SENT", "SYN_RECV", "ESTABLISHED", "FIN_WAIT1", "FIN_WAIT2",
   "CLOSE_WAIT", "LAST_ACK", "CLOSING", "TIME_WAIT", "CLOSED"}
EndpointStates == TcpStates \union {"UNOPENED", "LISTEN"}

GotFin == {"CLOSE_WAIT", "LAST_ACK", "CLOSING", "TIME_WAIT"}
Synchronized == {"ESTABLISHED", "FIN_WAIT1", "FIN_WAIT2"} \union GotFin

EndpointsInit ==
  /\ initiator \in Initiators
  /\ est = [e \in Ends |-> IF e = initiator THEN "UNOPENED" ELSE "LISTEN"]
  /\ wire = [e \in Ends |-> <<>>]
  /\ finSent = {}
  /\ reset = FALSE
  /\ budget = [data |-> MaxData, losses |-> MaxLosses, resends |-> MaxResends]
  /\ seen = <<>>

-----------------------------------------------------------------------------
Capture(segments, out) ==
  [i \in DOMAIN segments |-> [flags |-> segments[i].flags, is_outgoing |-> out]]

(* Endpoint e takes the first n segments of its wire, enters state s and   *)
(* sends a segment for each set of flags in replies.                       *)
Step(e, n, s, replies) ==
  LET sent == [i \in DOMAIN replies |->
                 [flags |-> replies[i], finAcked |-> s \in GotFin]] IN
  /\ est' = [est EXCEPT ![e] = s]
  /\ wire' = [wire EXCEPT ![e] = SubSeq(@, n + 1, Len(@)), ![Peer(e)] = @ \o sent]
  /\ seen' = IF e = "local"
       THEN seen \o Capture(SubSeq(wire[e], 1, n), FALSE) \o Capture(sent, TRUE)
       ELSE seen
  /\ finSent' = IF \E i \in DOMAIN replies : "fin" \in replies[i]
       THEN finSent \union {e} ELSE finSent
  /\ reset' = (reset \/ \E i \in DOMAIN replies : "rst" \in replies[i])

(* The state after segment g arrives in state s.                           *)
After(s, g) ==
  LET fin == "fin" \in g.flags IN
  IF "rst" \in g.flags THEN "CLOSED" ELSE
  CASE s = "LISTEN" /\ g.flags = {"syn"} -> "SYN_RECV"
    [] s = "SYN_SENT" /\ g.flags = {"syn", "ack"} -> "ESTABLISHED"
    [] s = "SYN_RECV" /\ "syn" \notin g.flags -> IF fin THEN "CLOSE_WAIT" ELSE "ESTABLISHED"
    [] s = "ESTABLISHED" /\ fin -> "CLOSE_WAIT"
    [] s = "FIN_WAIT1" /\ fin -> IF g.finAcked THEN "TIME_WAIT" ELSE "CLOSING"
    [] s = "FIN_WAIT1" /\ ~fin /\ g.finAcked -> "FIN_WAIT2"
    [] s = "FIN_WAIT2" /\ fin -> "TIME_WAIT"
    [] s = "CLOSING" /\ g.finAcked -> "TIME_WAIT"
    [] s = "LAST_ACK" /\ g.finAcked -> "CLOSED"
    [] OTHER -> s

(* SYNs and FINs, also repeated ones, are answered.                        *)
Answers(s, g) ==
  IF "rst" \in g.flags THEN <<>> ELSE
  CASE s \in {"LISTEN", "SYN_RECV"} /\ g.flags = {"syn"} -> <<{"syn", "ack"}>>
    [] s \in {"SYN_SENT"} \union Synchronized /\ g.flags \intersect {"syn", "fin"} # {} ->
         <<{"ack"}>>
    [] OTHER -> <<>>

-----------------------------------------------------------------------------
Open(e) ==
  /\ est[e] = "UNOPENED"
  /\ Step(e, 0, "SYN_SENT", <<{"syn"}>>)
  /\ UNCHANGED <<initiator, budget>>

(* The acknowledgement of a FIN may wait for the next segment.             *)
Receive(e) ==
  /\ wire[e] # <<>>
  /\ LET g == Head(wire[e])
         to == After(est[e], g)
         answer == Answers(est[e], g) IN
     \/ Step(e, 1, to, answer)
     \/ /\ est[e] = "ESTABLISHED" /\ to = "CLOSE_WAIT"
        /\ Step(e, 1, to, <<>>)
  /\ UNCHANGED <<initiator, budget>>

(* Data, or an acknowledgement of it.                                      *)
Send(e) ==
  /\ est[e] \in Synchronized
  /\ budget.data > 0
  /\ Len(wire[Peer(e)]) < MaxWire
  /\ Step(e, 0, est[e], <<{"ack"}>>)
  /\ budget' = [budget EXCEPT !.data = @ - 1]
  /\ UNCHANGED initiator

Close(e) ==
  /\ est[e] \in {"ESTABLISHED", "CLOSE_WAIT"}
  /\ Step(e, 0, IF est[e] = "ESTABLISHED" THEN "FIN_WAIT1" ELSE "LAST_ACK", <<{"fin", "ack"}>>)
  /\ UNCHANGED <<initiator, budget>>

Abort(e) ==
  /\ est[e] \in Synchronized \ {"TIME_WAIT"}
  /\ Step(e, 0, "CLOSED", <<{"rst"}>>)
  /\ UNCHANGED <<initiator, budget>>

TimeWaitOver(e) ==
  /\ est[e] = "TIME_WAIT"
  /\ Step(e, 0, "CLOSED", <<>>)
  /\ UNCHANGED <<initiator, budget>>

Unacknowledged(s) ==
  CASE s = "SYN_SENT" -> {"syn"}
    [] s = "SYN_RECV" -> {"syn", "ack"}
    [] s \in {"FIN_WAIT1", "CLOSING", "LAST_ACK"} -> {"fin", "ack"}
    [] OTHER -> {}

Resend(e) ==
  /\ Unacknowledged(est[e]) # {}
  /\ budget.resends > 0
  /\ Len(wire[Peer(e)]) < MaxWire
  /\ Step(e, 0, est[e], <<Unacknowledged(est[e])>>)
  /\ budget' = [budget EXCEPT !.resends = @ - 1]
  /\ UNCHANGED initiator

Lose(e) ==
  /\ wire[e] # <<>>
  /\ budget.losses > 0
  /\ wire' = [wire EXCEPT ![e] = Tail(@)]
  /\ budget' = [budget EXCEPT !.losses = @ - 1]
  /\ UNCHANGED <<initiator, est, finSent, reset, seen>>

Endpoint(e) ==
  /\ Len(seen) < MaxLag
  /\ \/ Open(e) \/ Receive(e) \/ Send(e) \/ Close(e) \/ Abort(e)
     \/ TimeWaitOver(e) \/ Resend(e) \/ Lose(e)

=============================================================================
