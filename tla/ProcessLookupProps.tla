------------------------- MODULE ProcessLookupProps -------------------------
(***************************************************************************)
(* What the enrichment of connections with processes promises.             *)
(***************************************************************************)
EXTENDS ProcessLookup, SocketTrackerProps

\* At some time c's row of /proc, or its key in the map, has no peer: it listens, names
\* a destination with every send, or is a UDP socket that is bound first and connected later.
WithoutPeer(c) ==
    desc[c].role = "server" \/ desc[c].dest = "name" \/ (desc[c].proto = "UDP" /\ desc[c].bound)

\* Connection r could be meant by a row or an entry of socket c: c has had r's local
\* port ([::] is of either family), and r's peer or none of its own.  One of ICMP has no
\* port, and every entry has the peer.
Served(c, r) ==
    LET own == ConnOf(FlowOf(c)) IN
    /\ c \in Used /\ own.proto = r.proto /\ own.lport = r.lport
    /\ own.family = r.family \/ (AnyFamily(c) /\ r.family = "inet6")
    /\ desc[c].local = r.laddr \/ ~desc[c].bound
    /\ own = r \/ WithoutPeer(c)
    /\ r.proto = "ICMP" => own.raddr = r.raddr

\* A pid shown with a connection is that of a process that held a socket on the
\* connection's local port (of ICMP: one that sent to its peer), whatever sockets were
\* closed and opened between the scan of the descriptors, the reading of the tables,
\* the eBPF lookup and the fill.
\* (The socket may be a later one than the connection's own: a UDP socket of another
\* process that is bound to the port has a row without a peer until it connects.)
ShownServed ==
    \A r \in DOMAIN conns :
        conns[r] # NoPid => \E c \in Sockets : desc[c].pid = conns[r] /\ Served(c, r)

\* c's flow is tracked and its socket open and in use, but no pid is shown yet.
Unidentified(c) ==
    /\ desc[c].proto # "ICMP" /\ desc[c].family # "dual"
    /\ c \in Live /\ (desc[c].role = "client" => sock[c] = "called")
    /\ FlowOf(c) \in DOMAIN conns /\ conns[FlowOf(c)] = NoPid

\* A tracked TCP or UDP flow whose socket stays open gets a pid, whether or not its
\* entry in the eBPF map was refused, removed or unreadable (IPv6): the fallback
\* finds the socket's row in a later refresh.  (Stated for one tracked flow at a time.)
\* Not so the IPv4 flow of a dual-stack AF_INET6 socket, such as a client of a [::]
\* listener: its row has ::ffff:a.b.c.d addresses, which no key of an IPv4 flow matches
\* (process.rs:199, platform/mod.rs:223), so only the eBPF map can identify it.
OpenFlowsIdentified ==
    (\E c \in Sockets : Unidentified(c)) ~> (\A c \in Sockets : ~Unidentified(c))
=============================================================================
