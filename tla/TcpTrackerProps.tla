-------------------------- MODULE TcpTrackerProps --------------------------
(***************************************************************************)
(* What must hold of the tracked TCP state, and what the repository says   *)
(* of it that does not.                                                    *)
(***************************************************************************)
EXTENDS TcpTracker

-----------------------------------------------------------------------------
(* Types of the tracker's own state; an entry in a state of the handshake  *)
(* knows its direction.                                                    *)
TrackerTypeOK ==
  /\ entry \in Entry \union {NoEntry}
  /\ entry # NoEntry =>
       /\ entry.state = "SYN_SENT" => entry.direction = "outgoing"
       /\ entry.state = "SYN_RECV" => entry.direction = "incoming"
  /\ idle \in Idle
  /\ upset \in BOOLEAN

(* How far a connection has come.                                          *)
Phase(s) ==
  CASE s = "UNKNOWN" -> 0
    [] s \in {"SYN_SENT", "SYN_RECV"} -> 1
    [] s = "ESTABLISHED" -> 2
    [] s \in {"FIN_WAIT1", "CLOSE_WAIT"} -> 3
    [] s \in {"FIN_WAIT2", "CLOSING", "LAST_ACK"} -> 4
    [] s = "TIME_WAIT" -> 5
    [] s = "CLOSED" -> 6

(* The state of an entry never goes back to an earlier phase, and its      *)
(* direction never changes, whatever segments arrive late, twice, out of   *)
(* order or not at all.                                                    *)
PhaseMonotone ==
  [][entry # NoEntry /\ entry' # NoEntry =>
       /\ Phase(entry'.state) >= Phase(entry.state)
       /\ entry'.direction = entry.direction]_entry

(* The direction shown is the true one: an outgoing connection was opened  *)
(* by the local endpoint, an incoming one by the remote endpoint, even     *)
(* when the SYN was applied after the SYN+ACK or was not captured.         *)
DirectionTruthful ==
  entry # NoEntry =>
    /\ entry.direction = "outgoing" => initiator = "local"
    /\ entry.direction = "incoming" => initiator = "remote"

(* An entry shows the end of a connection only when the endpoints have     *)
(* begun it: a state of the active or the passive close needs the FIN of   *)
(* that side, one past both FINs needs both, CLOSED needs both or a reset. *)
CloseIsReal ==
  entry # NoEntry =>
    /\ entry.state \in {"FIN_WAIT1", "FIN_WAIT2"} => "local" \in finSent
    /\ entry.state = "CLOSE_WAIT" => "remote" \in finSent
    /\ entry.state \in {"CLOSING", "LAST_ACK", "TIME_WAIT"} => finSent = Ends
    /\ entry.state = "CLOSED" => finSent = Ends \/ reset

(* With nothing lost or overtaken, the entry of a connection that was      *)
(* opened locally agrees with the local endpoint once all that was         *)
(* captured is applied, with three exceptions: it is an acknowledgement    *)
(* ahead, because any ACK is taken for the one of the FIN; it is in        *)
(* CLOSING where the peer's FIN acknowledged ours; and it stays in         *)
(* TIME_WAIT or CLOSING when the endpoint's wait is over.                  *)
Ahead == {<<"FIN_WAIT2", "FIN_WAIT1">>, <<"TIME_WAIT", "CLOSING">>, <<"CLOSED", "LAST_ACK">>}
Behind == {<<"CLOSING", "TIME_WAIT">>, <<"CLOSING", "CLOSED">>, <<"TIME_WAIT", "CLOSED">>}
Agreeing == {<<s, s>> : s \in TcpStates} \union Ahead \union Behind
FollowsActiveOpen ==
  ~upset /\ seen = <<>> /\ entry # NoEntry /\ initiator = "local" =>
    <<entry.state, est["local"]>> \in Agreeing

(* The removal of an entry while its connection is established: idle' is   *)
(* how long nothing of the connection was captured.                        *)
RemovesEstablished ==
  entry # NoEntry /\ entry' = NoEntry /\ seen = <<>> /\ est["local"] = "ESTABLISHED"

(* A locally opened connection stays tracked, as long as it is             *)
(* established, for the time the documentation gives (USAGE.md:819): half  *)
(* an hour for SSH, ten minutes for HTTP, five minutes else.               *)
ActiveOpenKept ==
  [][RemovesEstablished /\ ~upset /\ initiator = "local" =>
       idle' >= Passed(CASE entry.app = "ssh" -> 1800 [] entry.app = "http" -> 600
                         [] OTHER -> 300)]_entry

-----------------------------------------------------------------------------
(* What the repository says and the code does not do.                      *)

(* USAGE.md:822: an idle established connection stays for five minutes.    *)
EstablishedKept ==
  [][RemovesEstablished /\ ~upset => idle' >= Passed(300)]_entry

=============================================================================
