---------------------------- MODULE ProcessLookup ----------------------------
(***************************************************************************)
(* The process-enrichment thread: run_process_enrichment of app.rs with    *)
(* EnhancedLinuxProcessLookup (enhanced.rs), which asks the eBPF tracker   *)
(* first, and LinuxProcessLookup (process.rs), its fallback, a cache of    *)
(* /proc that is rebuilt in two steps: the file descriptors of every       *)
(* process, then the kernel's tables of sockets.                           *)
(*                                                                         *)
(* The thread runs in passes over the tracked connections; the capture and *)
(* cleanup threads add and remove connections meanwhile, except the one    *)
(* whose entry iter_mut holds.  The unified cache of enhanced.rs is left   *)
(* out: a refresh empties it, it serves for two seconds after a refresh,   *)
(* and a pass, which asks about each connection once, sleeps two seconds.  *)
(* Without eBPF there is no map: MAX_ENTRIES = 0.                          *)
(*                                                                         *)
(* A connection of the table is known by its flow, but one of ICMP by its  *)
(* two addresses only: the echo identifier by which its process is looked  *)
(* up is that of the last packet, whichever program sent it.               *)
(***************************************************************************)
EXTENDS SocketTracker

CONSTANT MaxTracked  \* bound: connections tracked at a time

ASSUME MaxTrackedAssumption == MaxTracked \in Nat

VARIABLES
    conns,        \* tracked connection -> the pid shown with it, or NoPid
    asks,         \* tracked connection -> the flow it is looked up as (protocol_state's icmp_id)
    epc,          \* the thread: at the "top" of its loop, before the "tables", in a "pass"
    passed,       \* the connections whose place (shard) the pass has already come by
    inodes,       \* refresh: the sockets found among the file descriptors
    cache         \* LinuxProcessLookup's cache: /proc/net row -> pid

enrichVars == <<conns, asks, epc, passed, inodes, cache>>
vars == <<trackerVars, enrichVars>>

\* The connection that the packets of flow f belong to.
ConnOf(f) == IF f.proto = "ICMP" THEN [f EXCEPT !.lport = Zero] ELSE f

-----------------------------------------------------------------------------
(* /proc, and the lookup in it *)

\* A server that has accepted holds two sockets, and so two inodes.
Descriptors(c) == IF sock[c] = "accepted" THEN {"socket", "child"} ELSE {"socket"}

\* A dual-stack socket stands in tcp6 or udp6, with mapped addresses.
Row(c, laddr, raddr, rport) ==
    LET Shown(w) == IF desc[c].family = "dual" THEN Mapped(w) ELSE w IN
    [proto |-> desc[c].proto, family |-> IF desc[c].family = "inet" THEN "inet" ELSE "inet6",
     laddr |-> Shown(laddr), lport |-> desc[c].num, raddr |-> Shown(raddr), rport |-> rport]
PeerRow(c) == Row(c, desc[c].local, desc[c].remote, desc[c].rport)
\* A listener's or an unconnected datagram socket's row has no peer.
WildcardRow(c) == Row(c, IF desc[c].bound THEN desc[c].local ELSE Zero, Zero, Zero)

\* The rows of /proc/net/{tcp,tcp6,udp,udp6} that carry the inode of c's descriptor.
Rows(c, fd) ==
    IF desc[c].proto = "ICMP" \/ c \notin Live THEN {}
    ELSE IF desc[c].role = "server" THEN
        {IF fd = "child" THEN PeerRow(c) ELSE WildcardRow(c)}
    ELSE IF sock[c] # "called" THEN
        IF desc[c].proto = "UDP" /\ desc[c].bound THEN {WildcardRow(c)} ELSE {}
    ELSE IF desc[c].proto = "TCP" \/ desc[c].dest = "connected" THEN {PeerRow(c)}
    ELSE {WildcardRow(c)}

(* Mutant: the relaxed key forgets the local port. *)
AnyPort(f) ==
    LET found == {cache[k] : k \in {r \in DOMAIN cache : r.proto = f.proto /\ r.raddr = Zero}} IN
    IF f.proto \in {"TCP", "UDP"} /\ Cardinality(found) = 1
    THEN CHOOSE p \in found : TRUE ELSE NoPid

(* Mutant: the key with a wildcard local address and no peer is not tried. *)
TwoCandidates(f) ==
    LET candidates == {[f EXCEPT !.raddr = Zero, !.rport = Zero], [f EXCEPT !.laddr = Zero]}
        found == {cache[k] : k \in candidates \cap DOMAIN cache}
    IN  IF f.proto \in {"TCP", "UDP"} /\ Cardinality(found) = 1
        THEN CHOOSE p \in found : TRUE ELSE NoPid

\* The three relaxed keys; two that lead to different processes are no answer.
fallback_lookup(f) ==
    LET candidates == {[f EXCEPT !.raddr = Zero, !.rport = Zero],
                       [f EXCEPT !.laddr = Zero],
                       [f EXCEPT !.laddr = Zero, !.raddr = Zero, !.rport = Zero]}
        found == {cache[k] : k \in candidates \cap DOMAIN cache}
    IN  IF f.proto \in {"TCP", "UDP"} /\ Cardinality(found) = 1
        THEN CHOOSE p \in found : TRUE ELSE NoPid

procfs_lookup(f) == IF f \in DOMAIN cache THEN cache[f] ELSE fallback_lookup(f)

-----------------------------------------------------------------------------
(* The thread *)

\* The loop's head, when five seconds have passed since the last refresh: it begins
\* with build_inode_map, which process holds which socket.
Refresh ==
    /\ epc = "top"
    /\ epc' = "tables"
    /\ inodes' = UNION {{<<c, fd>> : fd \in Descriptors(c)} : c \in Live}
    /\ UNCHANGED <<trackerVars, conns, asks, passed, cache>>

\* ... and when they have not.
NoRefresh ==
    /\ epc = "top"
    /\ epc' = "pass"
    /\ UNCHANGED <<trackerVars, conns, asks, passed, inodes, cache>>

\* parse_and_map of the tables: a row counts when its inode was seen in build_inode_map.
ReadTables ==
    LET RowsOf(i) == Rows(i[1], i[2])
        Holder(r) == (CHOOSE i \in inodes : r \in RowsOf(i))[1]
    IN  /\ epc = "tables"
        /\ cache' = [r \in UNION {RowsOf(i) : i \in inodes} |-> desc[Holder(r)].pid]
        /\ epc' = "pass" /\ inodes' = {}
        /\ UNCHANGED <<trackerVars, conns, asks, passed>>

\* get_process_for_connection begins.
Visit(r) ==
    /\ epc = "pass" /\ r \in DOMAIN conns \ passed
    /\ Call(asks[r])
    /\ UNCHANGED enrichVars

\* ... and returns: an eBPF miss is tried in the cache; only a missing pid is filled in.
Fill ==
    /\ Return
    /\ LET found == IF answer # NoPid THEN answer ELSE procfs_lookup(flow) IN
       conns' = [conns EXCEPT ![ConnOf(flow)] = IF @ = NoPid THEN found ELSE @]
    /\ passed' = passed \cup {ConnOf(flow)}
    /\ UNCHANGED <<asks, epc, inodes, cache>>

Sleep ==
    /\ epc = "pass" /\ DOMAIN conns \subseteq passed /\ tpc = "idle"
    /\ epc' = "top" /\ passed' = {}
    /\ UNCHANGED <<trackerVars, conns, asks, inodes, cache>>

Enrichment ==
    \/ Refresh \/ NoRefresh \/ ReadTables \/ Fill \/ Sleep
    \/ \E r \in DOMAIN conns : Visit(r)
    \/ (Cleanup \/ Lookup) /\ UNCHANGED enrichVars

-----------------------------------------------------------------------------
(* The threads around it *)

\* iter_mut has locked the entry of the connection it asks about.
Locked(r) == tpc # "idle" /\ ConnOf(flow) = r

\* The capture threads track a connection once its packets are seen; the handshake of a
\* listener's connection ends before accept is called.  DashMap's iterator comes by
\* an entry added during a pass when it has its place still before it.
Appear(c) ==
    /\ sock[c] \in IF desc[c].role = "server" THEN {"open", "called", "accepted"} ELSE {"called"}
    /\ ConnOf(FlowOf(c)) \notin DOMAIN conns /\ Cardinality(DOMAIN conns) < MaxTracked
    /\ \E f \in FlowsOf(c) :
          /\ conns' = [r \in DOMAIN conns \cup {ConnOf(f)} |->
                          IF r = ConnOf(f) THEN NoPid ELSE conns[r]]
          /\ asks' = [r \in DOMAIN asks \cup {ConnOf(f)} |->
                         IF r = ConnOf(f) THEN f ELSE asks[r]]
          /\ passed' \in {passed, passed \cup {ConnOf(f)}}
    /\ UNCHANGED <<trackerVars, epc, inodes, cache>>

\* A later ICMP packet between the two addresses replaces the protocol state, and the
\* identifier in it.
Echo(c) ==
    /\ desc[c].proto = "ICMP" /\ sock[c] = "called"
    /\ \E f \in FlowsOf(c) :
          /\ ConnOf(f) \in DOMAIN conns /\ ~Locked(ConnOf(f))
          /\ asks' = [asks EXCEPT ![ConnOf(f)] = f]
    /\ UNCHANGED <<trackerVars, conns, epc, passed, inodes, cache>>

\* The cleanup thread removes a connection.
Leave(r) ==
    /\ ~Locked(r)
    /\ conns' = [s \in DOMAIN conns \ {r} |-> conns[s]]
    /\ asks' = [s \in DOMAIN asks \ {r} |-> asks[s]]
    /\ UNCHANGED <<trackerVars, epc, passed, inodes, cache>>

-----------------------------------------------------------------------------
\* No program has opened a socket before LinuxProcessLookup::new fills the cache.
Init ==
    /\ TrackerInit
    /\ conns = [r \in {} |-> NoPid] /\ asks = [r \in {} |-> NoFlow]
    /\ epc = "top" /\ passed = {}
    /\ inodes = {} /\ cache = [r \in {} |-> 0]

Next ==
    \/ Enrichment
    \/ Programs /\ UNCHANGED enrichVars
    \/ \E c \in Sockets : Appear(c) \/ Echo(c)
    \/ \E r \in DOMAIN conns : Leave(r)

\* The thread runs, and five seconds pass again and again.
Fairness == WF_vars(Enrichment) /\ SF_vars(Refresh)

Spec == Init /\ [][Next]_vars
LiveSpec == Spec /\ Fairness
=============================================================================
