------------------------- MODULE SocketTrackerProps -------------------------
(***************************************************************************)
(* What the socket tracker promises about the answers of its map.          *)
(***************************************************************************)
EXTENDS SocketTracker

SocketStates == {"unused", "open", "connecting", "called", "accepted", "closed"}

ConnKeys == [saddr : Address, daddr : Address, sport : Word, dport : Word,
             proto : {"TCP", "UDP", "ICMP", "ICMPv6"}, family : {"inet", "inet6"}]
ConnInfos == [pid : Nat, age : Nat]

\* The types of the tracker's state; the iterator's and the cleanup's keys are
\* keys of the map, and a flow is looked up exactly while a call is under way.
SocketTypeOK ==
    /\ sock \in [Sockets -> SocketStates]
    /\ DOMAIN socket_map \subseteq ConnKeys
    /\ \A k \in DOMAIN socket_map : socket_map[k] \in ConnInfos
    /\ tpc \in {"idle", "scan", "delete", "exact", "zero", "answered"}
    /\ flow \in IF tpc = "idle" THEN {NoFlow} ELSE Flows
    /\ answer \in Nat \cup {NoPid}
    /\ scan \subseteq DOMAIN socket_map /\ keys_to_delete \subseteq DOMAIN socket_map
    /\ dropped \subseteq ConnKeys

\* What a lookup of flow f (both attempts at once) finds in the map as it is.
MapAnswer(f) ==
    LET exact == lookup_connection(ConnKey_new(f)) IN
    IF exact = NoPid /\ TriesZeroSource(f) THEN lookup_connection(ConnKey_new(ZeroSource(f)))
    ELSE exact

\* While a TCP client socket, dual-stack or not, is connected over IPv4, the map
\* answers its flow with the process that connected it or not at all: never with an
\* earlier user of the same four-tuple, whose entry the connect hook overwrites
\* (BPF_ANY), and never, by the zero-source attempt, with a listener.
TcpAnswerIsOwner ==
    \A c \in Sockets :
        desc[c].proto = "TCP" /\ desc[c].role = "client" /\ SpeaksIPv4(c) /\ sock[c] = "called"
        => MapAnswer(FlowOf(c)) \in {NoPid, desc[c].pid}

\* c has used the port and the peer of flow f, from f's address or from any.
UserOf(c, f) ==
    /\ c \in Used /\ desc[c].proto = f.proto /\ FlowOf(c).family = f.family
    /\ desc[c].num = f.lport /\ desc[c].remote = f.raddr
    /\ desc[c].proto # "ICMP" => desc[c].rport = f.rport
    /\ desc[c].local = f.laddr \/ ~desc[c].bound

\* An answer about an IPv4 flow names a process that used that very port and peer,
\* though it may have gone since: entries outlive their sockets, keys are built
\* from what each hook can see, and the second attempt asks with a zero source.
AnswersAreUsers ==
    answer # NoPid /\ flow.family = "inet" => \E c \in Sockets : UserOf(c, flow) /\ desc[c].pid = answer

\* The two sides agree on the key: an IPv4 flow whose program a hook has noted, through
\* an AF_INET or a dual-stack AF_INET6 socket, is found by one of the two attempts,
\* unless its entry was refused by a full map or removed by a cleanup.
CalledIsFound ==
    \A c \in Sockets :
        desc[c].role = "client" /\ SpeaksIPv4(c) /\ sock[c] = "called"
        => \/ MapAnswer(FlowOf(c)) # NoPid
           \/ {ConnKey_new(FlowOf(c)), ConnKey_new(ZeroSource(FlowOf(c)))} \cap dropped # {}

\* The cleanup only marks entries older than the threshold ("Clean up stale
\* entries from the map based on timestamp").
OnlyStaleMarked ==
    [][\A k \in keys_to_delete' \ keys_to_delete : socket_map[k].age > StaleThreshold]_trackerVars
=============================================================================
