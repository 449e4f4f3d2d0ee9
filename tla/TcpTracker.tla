----------------------------- MODULE TcpTracker -----------------------------
(***************************************************************************)
(* What rustnet makes of the captured segments of one TCP connection: the  *)
(* state and the direction of its entry (src/network/merge.rs) and the     *)
(* timeout after which the cleanup thread takes the entry out of the table *)
(* (src/network/types.rs).                                                 *)
(*                                                                         *)
(* The processor threads take batches of packets from one channel and      *)
(* apply them to the table independently, so a segment may be applied      *)
(* before another that was captured earlier: the tracker picks any of the  *)
(* first Window segments it has not applied.  Window = 1 is a single       *)
(* processor.                                                              *)
(***************************************************************************)
EXTENDS TcpEndpoints

CONSTANTS
  Window,           \* how far segments overtake each other between processors
  Apps,             \* protocols the packet inspection may find: "http", "ssh"
  NoEntry           \* the connection is not in the table

ASSUME TrackerAssumption == Window \in Nat \ {0} /\ Apps \subseteq {"http", "ssh"}

VARIABLES
  entry,            \* the connection's entry in the table
  idle,             \* how long the entry had been idle when it was removed
  upset             \* history: segments lost, overtaken or seen without an entry

tracker_vars == <<entry, idle, upset>>
vars == <<endpoint_vars, seen, tracker_vars>>

TrackedStates == TcpStates \union {"UNKNOWN"}

(* Idle time in steps: the number of these seconds that have passed since  *)
(* last_activity.                                                          *)
Seconds == <<5, 30, 60, 120, 300, 600, 1800>>
Passed(s) == CHOOSE i \in DOMAIN Seconds : Seconds[i] = s
Idle == 0..Len(Seconds)

Entry == [state : TrackedStates, direction : {"outgoing", "incoming", "unknown"},
          app : Apps \union {"none"}]

Init ==
  /\ EndpointsInit
  /\ entry = NoEntry
  /\ idle = 0
  /\ upset = FALSE

-----------------------------------------------------------------------------
Rule(from, flags, out, to) == [from |-> from, flags |-> flags, out |-> out, to |-> to]

(* Mutant: the SYN+ACK is expected in the direction of the SYN.            *)
OpeningRulesTurned ==
  {Rule("UNKNOWN", {"syn"}, FALSE, "SYN_RECV"),
   Rule("UNKNOWN", {"syn"}, TRUE, "SYN_SENT"),
   Rule("SYN_SENT", {"syn", "ack"}, TRUE, "ESTABLISHED"),
   Rule("SYN_RECV", {"ack"}, FALSE, "ESTABLISHED")}

OpeningRules ==
  {Rule("UNKNOWN", {"syn"}, FALSE, "SYN_RECV"),
   Rule("UNKNOWN", {"syn"}, TRUE, "SYN_SENT"),
   Rule("SYN_SENT", {"syn", "ack"}, FALSE, "ESTABLISHED"),
   Rule("SYN_RECV", {"ack"}, TRUE, "ESTABLISHED")}

(* A connection that is first seen after its handshake.                    *)
MidstreamRules ==
  {Rule("UNKNOWN", f, out, "ESTABLISHED") :
     f \in {{"ack"}, {"fin", "ack"}}, out \in BOOLEAN}

(* A FIN counts with and without the ACK flag.                             *)
Fin(from, out, to) == {Rule(from, f, out, to) : f \in {{"fin"}, {"fin", "ack"}}}

(* Mutant: a FIN ends the passive close from either side.                  *)
ClosingRulesUndirected ==
  Fin("ESTABLISHED", TRUE, "FIN_WAIT1")
    \union Fin("ESTABLISHED", FALSE, "CLOSE_WAIT")
    \union UNION {Fin("CLOSE_WAIT", out, "LAST_ACK") : out \in BOOLEAN}
    \union {Rule("LAST_ACK", {"ack"}, FALSE, "CLOSED")}

ClosingRules ==
  Fin("ESTABLISHED", TRUE, "FIN_WAIT1")
    \union Fin("ESTABLISHED", FALSE, "CLOSE_WAIT")
    \union Fin("FIN_WAIT1", FALSE, "CLOSING")
    \union Fin("FIN_WAIT2", FALSE, "TIME_WAIT")
    \union Fin("CLOSE_WAIT", TRUE, "LAST_ACK")
    \union {Rule("FIN_WAIT1", {"ack"}, FALSE, "FIN_WAIT2"),
            Rule("LAST_ACK", {"ack"}, FALSE, "CLOSED"),
            Rule("CLOSING", {"ack"}, FALSE, "TIME_WAIT")}

Rules == OpeningRules \union MidstreamRules \union ClosingRules

(* The rules that match segment g in state s; there is at most one.        *)
Matching(s, g) ==
  {r \in Rules : r.from = s /\ r.flags = g.flags /\ r.out = g.is_outgoing}

(* Mutant: a SYN always starts over.                                       *)
SynStartsOver(s, g) ==
  LET from == IF g.flags = {"syn"} THEN "UNKNOWN" ELSE s IN
  IF "rst" \in g.flags THEN "CLOSED"
  ELSE IF Matching(from, g) = {} THEN s
  ELSE (CHOOSE r \in Matching(from, g) : TRUE).to

update_tcp_state(s, g) ==
  IF "rst" \in g.flags THEN "CLOSED"
  ELSE IF Matching(s, g) = {} THEN s
  ELSE (CHOOSE r \in Matching(s, g) : TRUE).to

-----------------------------------------------------------------------------
(* Mutants: only the SYN+ACK tells; it tells the direction it goes in.     *)
DirectionFromSynAck(g) ==
  IF {"syn", "ack"} \subseteq g.flags
    THEN IF g.is_outgoing THEN "incoming" ELSE "outgoing"
    ELSE "unknown"
DirectionAsSent(g) ==
  IF "syn" \in g.flags THEN IF g.is_outgoing THEN "outgoing" ELSE "incoming" ELSE "unknown"

(* The direction, known only from a SYN or a SYN+ACK as the first segment. *)
DirectionOf(g) ==
  CASE g.flags = {"syn"} -> IF g.is_outgoing THEN "outgoing" ELSE "incoming"
    [] {"syn", "ack"} \subseteq g.flags -> IF g.is_outgoing THEN "incoming" ELSE "outgoing"
    [] OTHER -> "unknown"

Created(g, app) ==
  [state |-> update_tcp_state("UNKNOWN", g), direction |-> DirectionOf(g),
   app |-> app]

(* The application found first is kept (merge_dpi_info).                   *)
Merged(g, app) ==
  [entry EXCEPT !.state = update_tcp_state(@, g),
                !.app = IF @ = "none" THEN app ELSE @]

(* What the packet inspection may find in a segment: only data has a       *)
(* payload to inspect.                                                     *)
Inspected(g) == {"none"} \union IF g.flags = {"ack"} THEN Apps ELSE {}

(* A processor applies the i-th of the captured segments.                  *)
Apply(i) ==
  /\ i <= Len(seen)
  /\ seen' = RemoveAt(seen, i)
  /\ \E app \in Inspected(seen[i]) :
       entry' = IF entry = NoEntry THEN Created(seen[i], app) ELSE Merged(seen[i], app)
  /\ idle' = 0
  /\ upset' = (upset \/ i > 1 \/ (entry = NoEntry /\ seen[i].flags # {"syn"}))
  /\ UNCHANGED endpoint_vars

(* Mutant: established connections have the timeout of a handshake.        *)
SameTimeout(c, i) ==
  CASE c.state = "CLOSED" -> Passed(5)
    [] c.state \in {"TIME_WAIT", "CLOSING"} -> Passed(30)
    [] OTHER -> Passed(60)

(* get_tcp_timeout after i steps of idle time.                             *)
TcpTimeout(c, i) ==
  CASE c.state = "ESTABLISHED" ->
         (CASE c.app = "ssh" -> Passed(1800)
            [] c.app = "http" -> Passed(600)
            [] OTHER -> IF i < Passed(60) THEN Passed(600) ELSE Passed(300))
    [] c.state \in {"TIME_WAIT", "CLOSING"} -> Passed(30)
    [] c.state = "CLOSED" -> Passed(5)
    [] c.state = "UNKNOWN" -> Passed(120)
    [] OTHER -> Passed(60)

should_cleanup(c, i) == i >= TcpTimeout(c, i)

(* No segment has been applied for i steps, and the cleanup thread takes   *)
(* the entry out of the table, in the first step that lets it: a pass      *)
(* comes every five seconds.                                        *)
Cleanup(i) ==
  /\ entry # NoEntry
  /\ should_cleanup(entry, i)
  /\ \A j \in Idle : j < i => ~should_cleanup(entry, j)
  /\ entry' = NoEntry
  /\ idle' = i
  /\ UNCHANGED <<endpoint_vars, seen, upset>>

EndpointStep(e) ==
  /\ Endpoint(e)
  /\ upset' = (upset \/ budget'.losses < budget.losses)
  /\ UNCHANGED <<entry, idle>>

Next ==
  \/ \E e \in Ends : EndpointStep(e)
  \/ \E i \in 1..Window : Apply(i)
  \/ \E i \in Idle : Cleanup(i)

Spec == Init /\ [][Next]_vars

=============================================================================
