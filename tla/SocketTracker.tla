---------------------------- MODULE SocketTracker ----------------------------
(***************************************************************************)
(* The eBPF socket tracker: the kernel hooks of socket_tracker.bpf.c that  *)
(* note which process uses a socket, the hash map they share with user     *)
(* space, and the user side of it (maps_libbpf.rs, tracker_libbpf.rs) that *)
(* asks the map for the owner of a flow and removes old entries.           *)
(*                                                                         *)
(* Sockets are opened, used and closed by other programs.  What a hook can *)
(* read of a socket depends on when the kernel calls it: tcp_connect once  *)
(* the addresses are set, tcp_v6_connect and inet_csk_accept on entry,     *)
(* before there is a peer.  A number of two bytes <<high, low>> stands for *)
(* an address word or a port, so that the two sides' byte orders on a      *)
(* little-endian machine can be told apart.                                *)
(*                                                                         *)
(* A "dual" socket is an AF_INET6 one with an IPv4 peer (a client of a     *)
(* [::] listener): its packets are IPv4, its own IPv6 addresses are        *)
(* ::ffff:a.b.c.d, and the kernel hands its calls on to the IPv4 code.     *)
(***************************************************************************)
EXTENDS Naturals, FiniteSets

CONSTANTS
    Sockets, desc,   \* the sockets the programs of the machine may open, and their descriptions
    MaxOpens,        \* bound: how many of them a behaviour opens
    MAX_ENTRIES,     \* capacity of socket_map
    StaleThreshold,  \* age beyond which an entry is meant to be stale (ticks)
    BootEpoch,       \* time from the Unix epoch to the boot of the machine (ticks)
    MaxAge,          \* bound: older entries are not told apart
    NoPid, NoFlow    \* the None of an answer, and no flow being looked up

Byte == Nat
Word == Byte \X Byte
Zero == <<0, 0>>

(***************************************************************************)
(* pid: the process; role: a TCP "server" listens on local:num and accepts *)
(* a connection from remote:rport; bound: the local address was given to   *)
(* bind (else it is the wildcard until connect picks local); dest: a       *)
(* datagram socket is "connected", or gets its destination by "name" with  *)
(* every send.  A ping socket's num is its echo identifier.                *)
(***************************************************************************)
SocketDesc == [pid : Nat, proto : {"TCP", "UDP", "ICMP"}, family : {"inet", "inet6", "dual"},
               role : {"client", "server"}, dest : {"connected", "name"}, bound : BOOLEAN,
               local : Word \ {Zero}, num : Word \ {Zero}, remote : Word \ {Zero}, rport : Word]

ASSUME SocketsAssumption == desc \in [Sockets -> SocketDesc]
\* ping_v6_sendmsg refuses an IPv4 destination.
ASSUME PingAssumption == \A c \in Sockets : desc[c].family = "dual" => desc[c].proto # "ICMP"
ASSUME BoundsAssumption == MAX_ENTRIES \in Nat /\ StaleThreshold \in Nat /\ MaxOpens \in Nat /\ MaxAge \in Nat
\* The machine booted longer after 1970 than an entry may live.
ASSUME ClockAssumption == BootEpoch \in Nat /\ BootEpoch > StaleThreshold
ASSUME NoneAssumption == NoPid \notin Nat

VARIABLES
    sock,            \* Sockets -> what its program has done with it so far
    socket_map,      \* the BPF hash map: conn_key -> [pid, age]
    tpc,             \* where the (only) user-side caller is: idle, scan, delete, exact, zero, answered
    flow,            \* the flow it asks about
    answer,          \* what the lookup returned: a pid or NoPid
    scan,            \* cleanup: the keys the iterator has still to return
    keys_to_delete,  \* cleanup: the keys found stale
    dropped          \* history: keys that were deleted, or refused by a full map, and not stored since

hookVars == <<sock, socket_map, dropped>>
userVars == <<tpc, flow, answer, keys_to_delete>>
trackerVars == <<hookVars, userVars, scan>>

-----------------------------------------------------------------------------
(* The kernel's side: keys and the map *)

Swap(w) == <<w[2], w[1]>>
(* Mutant: bpf_ntohs dropped: the port stays in network order. *)
NoNtohs(w) == w
bpf_ntohs(w) == Swap(w)

\* ::ffff:a.b.c.d for address a.b.c.d, :: for none; it is the address of no IPv6 packet.
Mapped(w) == IF w = Zero THEN Zero ELSE <<w[1], w[2], 0>>
Address == Word \cup (Byte \X Byte \X {0})

\* c's packets are IPv4 ones.
SpeaksIPv4(c) == desc[c].family # "inet6"

\* What the packets of socket c show.
FlowOf(c) ==
    [proto |-> desc[c].proto, family |-> IF SpeaksIPv4(c) THEN "inet" ELSE "inet6",
     laddr |-> desc[c].local, lport |-> desc[c].num,
     raddr |-> desc[c].remote, rport |-> IF desc[c].proto = "ICMP" THEN Zero ELSE desc[c].rport]
\* An ICMP error about them shows no identifier.
FlowsOf(c) ==
    {FlowOf(c)} \cup IF desc[c].proto = "ICMP" THEN {[FlowOf(c) EXCEPT !.lport = Zero]} ELSE {}
Flows == UNION {FlowsOf(c) : c \in Sockets}

\* struct sock_common of c while a hook runs: `conn` says that the kernel has
\* stored the peer, `named` that a local port has been picked.
sock_common(c, conn, named) ==
    LET saddr == IF desc[c].bound \/ conn THEN desc[c].local ELSE Zero
        daddr == IF conn THEN desc[c].remote ELSE Zero
        V4(w) == IF SpeaksIPv4(c) THEN w ELSE Zero
        V6(w) == CASE desc[c].family = "inet6" -> w
                   [] desc[c].family = "dual"  -> Mapped(w)
                   [] desc[c].family = "inet"  -> Zero
    IN  [skc_rcv_saddr |-> V4(saddr),    skc_daddr |-> V4(daddr),
         skc_v6_rcv_saddr |-> V6(saddr), skc_v6_daddr |-> V6(daddr),
         skc_num |-> IF named THEN desc[c].num ELSE Zero,
         skc_dport |-> IF conn THEN Swap(desc[c].rport) ELSE Zero]

\* msg->msg_name of a send on c: the address the program passed, none when connected;
\* udpv6_sendmsg always passes one on to udp_sendmsg.
msg_name(c) ==
    IF desc[c].dest = "name" \/ desc[c].family = "dual"
    THEN {[addr |-> desc[c].remote, port |-> Swap(desc[c].rport)]} ELSE {}

conn_key(saddr, daddr, sport, dport, proto, family) ==
    [saddr |-> saddr, daddr |-> daddr, sport |-> sport, dport |-> dport,
     proto |-> proto, family |-> family]

\* The key both TCP hooks for IPv4 build from a socket's IPv4 fields.
V4Key(sk) ==
    conn_key(sk.skc_rcv_saddr, sk.skc_daddr, sk.skc_num, bpf_ntohs(sk.skc_dport), "TCP", "inet")

V6Key(sk, proto) ==
    conn_key(sk.skc_v6_rcv_saddr, sk.skc_v6_daddr, sk.skc_num, bpf_ntohs(sk.skc_dport),
             proto, "inet6")

DatagramKey(c, sk) ==
    LET dest == IF msg_name(c) # {} THEN CHOOSE m \in msg_name(c) : TRUE
                ELSE [addr |-> sk.skc_daddr, port |-> sk.skc_dport]
    IN  conn_key(sk.skc_rcv_saddr, dest.addr, sk.skc_num, bpf_ntohs(dest.port), "UDP", "inet")

PingKey(c, sk) ==
    LET dest == IF msg_name(c) # {} THEN desc[c].remote
                ELSE IF desc[c].family = "inet" THEN sk.skc_daddr ELSE sk.skc_v6_daddr
    IN  IF desc[c].family = "inet"
        THEN conn_key(sk.skc_rcv_saddr, dest, sk.skc_num, Zero, "ICMP", "inet")
        ELSE conn_key(sk.skc_v6_rcv_saddr, dest, sk.skc_num, Zero, "ICMPv6", "inet6")

\* The pid of the process inside the call, and the time, as the entry's age.
get_process_info(c) == [pid |-> desc[c].pid, age |-> 0]

(* Mutant: BPF_NOEXIST instead of BPF_ANY: an entry is never replaced. *)
UpdateNoExist(key, info) ==
    IF key \notin DOMAIN socket_map /\ Cardinality(DOMAIN socket_map) < MAX_ENTRIES
    THEN /\ socket_map' = [k \in DOMAIN socket_map \cup {key} |->
                              IF k = key THEN info ELSE socket_map[k]]
         /\ dropped' = dropped \ {key}
         /\ UNCHANGED scan
    ELSE UNCHANGED <<socket_map, dropped, scan>>

\* bpf_map_update_elem with BPF_ANY: replaces the value of a key it has, adds a
\* key while there is room, and fails otherwise; the hooks only print the failure.
\* An iterator under way may or may not come by a key added behind its back.
UpdateElem(key, info) ==
    IF key \in DOMAIN socket_map \/ Cardinality(DOMAIN socket_map) < MAX_ENTRIES
    THEN /\ socket_map' = [k \in DOMAIN socket_map \cup {key} |->
                              IF k = key THEN info ELSE socket_map[k]]
         /\ dropped' = dropped \ {key}
         /\ \/ UNCHANGED scan
            \/ tpc = "scan" /\ key \notin DOMAIN socket_map /\ scan' = scan \cup {key}
    ELSE dropped' = dropped \cup {key} /\ UNCHANGED <<socket_map, scan>>

Hook(c, key, next) ==
    /\ UpdateElem(key, get_process_info(c))
    /\ sock' = [sock EXCEPT ![c] = next]
    /\ UNCHANGED userVars

-----------------------------------------------------------------------------
(* The hooks *)

trace_tcp_connect(c) ==
    /\ desc[c].proto = "TCP" /\ desc[c].role = "client"
    /\ sock[c] = IF desc[c].family = "inet" THEN "open" ELSE "connecting"
    /\ Hook(c, V4Key(sock_common(c, TRUE, TRUE)), "called")

\* On entry: the peer is stored, and a port picked, only later in the call.
trace_tcp_v6_connect(c) ==
    /\ desc[c].proto = "TCP" /\ desc[c].role = "client" /\ desc[c].family # "inet"
    /\ sock[c] = "open"
    /\ Hook(c, V6Key(sock_common(c, FALSE, desc[c].bound), "TCP"), "connecting")

\* On entry: sk is the listening socket, whatever its family, and has no peer.
trace_tcp_accept(c) ==
    /\ desc[c].proto = "TCP" /\ desc[c].role = "server"
    /\ sock[c] \in {"open", "accepted"}
    /\ Hook(c, V4Key(sock_common(c, FALSE, TRUE)), IF sock[c] = "open" THEN "called" ELSE "accepted")

trace_udp_sendmsg(c) ==
    LET key == DatagramKey(c, sock_common(c, desc[c].dest = "connected", TRUE)) IN
    /\ desc[c].proto = "UDP" /\ SpeaksIPv4(c)
    /\ sock[c] \in {IF desc[c].family = "dual" THEN "connecting" ELSE "open", "called"}
    /\ key.daddr # Zero
    /\ Hook(c, key, "called")

\* Unlike its IPv4 twin this hook does not look at msg_name.  A dual-stack socket's
\* send goes on to that twin ("connecting" stands for between the two).
trace_udp_v6_sendmsg(c) ==
    /\ desc[c].proto = "UDP" /\ desc[c].family # "inet"
    /\ sock[c] \in {"open", "called"}
    /\ Hook(c, V6Key(sock_common(c, desc[c].dest = "connected", TRUE), "UDP"),
            IF desc[c].family = "dual" /\ sock[c] = "open" THEN "connecting" ELSE "called")

trace_ping_v4_sendmsg(c) ==
    LET key == PingKey(c, sock_common(c, desc[c].dest = "connected", TRUE)) IN
    /\ desc[c].proto = "ICMP" /\ desc[c].family = "inet"
    /\ sock[c] \in {"open", "called"}
    /\ key.daddr # Zero
    /\ Hook(c, key, "called")

trace_ping_v6_sendmsg(c) ==
    /\ desc[c].proto = "ICMP" /\ desc[c].family = "inet6"
    /\ sock[c] \in {"open", "called"}
    /\ Hook(c, PingKey(c, sock_common(c, desc[c].dest = "connected", TRUE)), "called")

-----------------------------------------------------------------------------
(* The programs and the kernel around them *)

Used == {c \in Sockets : sock[c] # "unused"}
Live == {c \in Used : sock[c] # "closed"}

\* [::] is every address of either family to an unbound dual-stack socket.
AnyFamily(c) == desc[c].family = "dual" /\ ~desc[c].bound

Overlap(c, d) ==
    \/ SpeaksIPv4(c) = SpeaksIPv4(d) /\ (desc[c].local = desc[d].local \/ ~desc[c].bound \/ ~desc[d].bound)
    \/ AnyFamily(c) \/ AnyFamily(d)

\* Two sockets the kernel does not let exist together: one port, overlapping
\* local addresses, and not two TCP clients with different peers.
Conflict(c, d) ==
    /\ desc[c].proto = desc[d].proto /\ desc[c].num = desc[d].num /\ Overlap(c, d)
    /\ desc[c].proto # "TCP" \/ "server" \in {desc[c].role, desc[d].role} \/ FlowOf(c) = FlowOf(d)

Open(c) ==
    /\ sock[c] = "unused" /\ Cardinality(Used) < MaxOpens
    /\ \A d \in Live : ~Conflict(c, d)
    /\ sock' = [sock EXCEPT ![c] = "open"]
    /\ UNCHANGED <<socket_map, dropped, userVars, scan>>

\* accept returns: the kernel made the child socket; no hook sees it.
Accept(c) ==
    /\ desc[c].role = "server" /\ sock[c] = "called"
    /\ sock' = [sock EXCEPT ![c] = "accepted"]
    /\ UNCHANGED <<socket_map, dropped, userVars, scan>>

\* Nothing is attached to the end of a socket: its entries stay.
Close(c) ==
    /\ c \in Live
    /\ sock' = [sock EXCEPT ![c] = "closed"]
    /\ UNCHANGED <<socket_map, dropped, userVars, scan>>

\* bpf_ktime_get_ns moves on.
Tick ==
    /\ socket_map' = [k \in DOMAIN socket_map |-> [socket_map[k] EXCEPT !.age =
                         IF @ < MaxAge THEN @ + 1 ELSE @]]
    /\ UNCHANGED <<sock, dropped, userVars, scan>>

-----------------------------------------------------------------------------
(* The user's side: lookup and cleanup *)

\* ConnKey::new and ConnKey::new_icmp.  from_le_bytes leaves an IPv4 address's
\* bytes as they are in memory, from_be_bytes turns an IPv6 word's bytes round.
ConnKey_new(f) ==
    LET Addr(w) == IF f.family = "inet" THEN w ELSE Swap(w) IN
    conn_key(Addr(f.laddr), Addr(f.raddr), f.lport, f.rport,
             IF f.proto = "ICMP" /\ f.family = "inet6" THEN "ICMPv6" ELSE f.proto, f.family)

(* Mutant: the second attempt drops the peer too. *)
ZeroPeer(f) == [f EXCEPT !.laddr = Zero, !.raddr = Zero, !.rport = Zero]

ZeroSource(f) == [f EXCEPT !.laddr = Zero]
\* lookup_v6 has no second attempt; lookup_v4 and lookup_icmp have one.
TriesZeroSource(f) == f.family = "inet" \/ f.proto = "ICMP"

lookup_connection(key) ==
    IF key \in DOMAIN socket_map THEN socket_map[key].pid ELSE NoPid

\* A call about flow f begins (without an identifier, which is no key's, the code skips
\* the lookup's attempts); first a cleanup, when the interval since the last
\* one has passed (the times are left open).
Call(f) ==
    /\ tpc = "idle"
    /\ flow' = f /\ answer' = NoPid
    /\ \/ tpc' = "exact" /\ UNCHANGED scan
       \/ tpc' = "scan" /\ scan' = DOMAIN socket_map
    /\ UNCHANGED <<hookVars, keys_to_delete>>

LookupExact ==
    /\ tpc = "exact"
    /\ answer' = lookup_connection(ConnKey_new(flow))
    /\ tpc' = IF answer' = NoPid /\ TriesZeroSource(flow) THEN "zero" ELSE "answered"
    /\ UNCHANGED <<hookVars, flow, scan, keys_to_delete>>

LookupZeroSource ==
    /\ tpc = "zero"
    /\ answer' = lookup_connection(ConnKey_new(ZeroSource(flow)))
    /\ tpc' = "answered"
    /\ UNCHANGED <<hookVars, flow, scan, keys_to_delete>>

Return ==
    /\ tpc = "answered"
    /\ tpc' = "idle" /\ flow' = NoFlow /\ answer' = NoPid
    /\ UNCHANGED <<hookVars, scan, keys_to_delete>>

\* current_time_ns.saturating_sub(timestamp) > stale_threshold_ns, where the
\* first counts from the Unix epoch and the second from the boot.
IsStale(k) == socket_map[k].age + BootEpoch > StaleThreshold

CleanupVisit(k) ==
    /\ tpc = "scan" /\ k \in scan
    /\ keys_to_delete' = IF IsStale(k) THEN keys_to_delete \cup {k} ELSE keys_to_delete
    /\ scan' = scan \ {k}
    /\ UNCHANGED <<hookVars, tpc, flow, answer>>

CleanupScanned ==
    /\ tpc = "scan" /\ scan = {}
    /\ tpc' = "delete"
    /\ UNCHANGED <<hookVars, flow, answer, scan, keys_to_delete>>

(* Mutant: a deleted key stays in the vector. *)
DeleteAndKeep(k) ==
    /\ tpc = "delete" /\ k \in keys_to_delete
    /\ socket_map' = [j \in DOMAIN socket_map \ {k} |-> socket_map[j]]
    /\ dropped' = dropped \cup {k}
    /\ UNCHANGED <<sock, tpc, flow, answer, scan, keys_to_delete>>

\* The value is not looked at again: an entry renewed since the visit goes too.
CleanupDelete(k) ==
    /\ tpc = "delete" /\ k \in keys_to_delete
    /\ socket_map' = [j \in DOMAIN socket_map \ {k} |-> socket_map[j]]
    /\ dropped' = dropped \cup {k}
    /\ keys_to_delete' = keys_to_delete \ {k}
    /\ UNCHANGED <<sock, tpc, flow, answer, scan>>

CleanupEnd ==
    /\ tpc = "delete" /\ keys_to_delete = {}
    /\ tpc' = "exact"
    /\ UNCHANGED <<hookVars, flow, answer, scan, keys_to_delete>>

-----------------------------------------------------------------------------
TrackerInit ==
    /\ sock = [c \in Sockets |-> "unused"]
    /\ socket_map = [k \in {} |-> [pid |-> 0, age |-> 0]]
    /\ tpc = "idle" /\ flow = NoFlow /\ answer = NoPid
    /\ scan = {} /\ keys_to_delete = {} /\ dropped = {}

\* Steps of the programs and the kernel, and steps of the user-side thread.
Hooks(c) ==
    \/ trace_tcp_connect(c) \/ trace_tcp_v6_connect(c) \/ trace_tcp_accept(c)
    \/ trace_udp_sendmsg(c) \/ trace_udp_v6_sendmsg(c)
    \/ trace_ping_v4_sendmsg(c) \/ trace_ping_v6_sendmsg(c)
Programs == Tick \/ \E c \in Sockets : Open(c) \/ Accept(c) \/ Close(c) \/ Hooks(c)
Cleanup ==
    \/ CleanupScanned \/ CleanupEnd
    \/ \E k \in scan : CleanupVisit(k)
    \/ \E k \in keys_to_delete : CleanupDelete(k)
Lookup == LookupExact \/ LookupZeroSource

TrackerNext ==
    \/ Programs \/ Cleanup \/ Lookup \/ Return
    \/ \E c \in Used : \E f \in FlowsOf(c) : Call(f)

TrackerSpec == TrackerInit /\ [][TrackerNext]_trackerVars
=============================================================================
