------------------------- MODULE SocketTrackerProofs -------------------------
(***************************************************************************)
(* Proofs about the socket tracker and the enrichment thread that uses it. *)
(*                                                                         *)
(* The argument: every entry of the map carries the pid and one of the     *)
(* keys of a socket that has been opened (EntriesHaveUsers); the entry     *)
(* under a connected TCP client's own key is its own, because no two live  *)
(* sockets share a four-tuple (NoConflicts) and a later connect overwrites *)
(* (TcpEntriesCurrent); so what a lookup returns is about a user of the    *)
(* flow.  The enrichment thread's steps are steps of the tracker.          *)
(*                                                                         *)
(* An IPv4 client, dual-stack or not, has one IPv4 key, which a lookup of  *)
(* its flow tries and which is in the map or was dropped (CalledNoted).    *)
(* What a connection shows has come through the cache or an answer, and    *)
(* each holds only what a socket that the connection could mean has put    *)
(* there (ThreadInv).                                                      *)
(***************************************************************************)
EXTENDS ProcessLookupProps, FiniteSetTheorems, TLAPS

\* The keys the hooks may store for socket c.
HookKeys(c) ==
    IF desc[c].proto = "TCP" THEN
        IF desc[c].role = "server" THEN {V4Key(sock_common(c, FALSE, TRUE))}
        ELSE IF desc[c].family = "inet" THEN {V4Key(sock_common(c, TRUE, TRUE))}
        ELSE {V4Key(sock_common(c, TRUE, TRUE)), V6Key(sock_common(c, FALSE, desc[c].bound), "TCP")}
    ELSE IF desc[c].proto = "UDP" THEN
        {k \in {DatagramKey(c, sock_common(c, desc[c].dest = "connected", TRUE))} : SpeaksIPv4(c)}
        \cup {k \in {V6Key(sock_common(c, desc[c].dest = "connected", TRUE), "UDP")} : desc[c].family # "inet"}
    ELSE {PingKey(c, sock_common(c, desc[c].dest = "connected", TRUE))}

MapTyped ==
    /\ sock \in [Sockets -> SocketStates]
    /\ DOMAIN socket_map \subseteq ConnKeys
    /\ \A k \in DOMAIN socket_map : socket_map[k] \in ConnInfos
    /\ dropped \subseteq ConnKeys

CallTyped ==
    /\ tpc \in {"idle", "scan", "delete", "exact", "zero", "answered"}
    /\ flow \in IF tpc = "idle" THEN {NoFlow} ELSE Flows
    /\ answer \in Nat \cup {NoPid}
    /\ scan \subseteq DOMAIN socket_map /\ keys_to_delete \subseteq DOMAIN socket_map

\* The iterator has keys to return, and keys are marked, only inside a cleanup.
CleanupPhases ==
    /\ tpc # "scan" => scan = {}
    /\ tpc \notin {"scan", "delete"} => keys_to_delete = {}

EntriesHaveUsers ==
    \A k \in DOMAIN socket_map :
        \E c \in Sockets : c \in Used /\ k \in HookKeys(c) /\ socket_map[k].pid = desc[c].pid

NoConflicts == \A c, d \in Live : c # d => ~Conflict(c, d)

IsTcp4Client(c) ==
    desc[c].proto = "TCP" /\ desc[c].role = "client" /\ SpeaksIPv4(c)

TcpEntriesCurrent ==
    \A c \in Sockets :
        IsTcp4Client(c) /\ sock[c] = "called" /\ ConnKey_new(FlowOf(c)) \in DOMAIN socket_map
        => socket_map[ConnKey_new(FlowOf(c))].pid = desc[c].pid

TrackerInv ==
    /\ MapTyped /\ CallTyped /\ CleanupPhases
    /\ EntriesHaveUsers /\ NoConflicts /\ TcpEntriesCurrent /\ AnswersAreUsers

-----------------------------------------------------------------------------
(* Keys *)

\* A socket's description has its type.
LEMMA DescTyped ==
    ASSUME NEW c \in Sockets
    PROVE  /\ desc[c] \in SocketDesc
           /\ desc[c].pid \in Nat
           /\ desc[c].proto \in {"TCP", "UDP", "ICMP"}
           /\ desc[c].family \in {"inet", "inet6", "dual"}
           /\ desc[c].family = "dual" => desc[c].proto # "ICMP"
           /\ desc[c].role \in {"client", "server"}
           /\ desc[c].dest \in {"connected", "name"}
           /\ desc[c].bound \in BOOLEAN
           /\ desc[c].local \in Word /\ desc[c].local # Zero
           /\ desc[c].num \in Word /\ desc[c].num # Zero
           /\ desc[c].remote \in Word /\ desc[c].remote # Zero
           /\ desc[c].rport \in Word
BY SocketsAssumption, PingAssumption DEF SocketDesc

\* Turning a word round twice gives the word.
LEMMA SwapTwice ==
    ASSUME NEW w \in Word
    PROVE  Swap(w) \in Word /\ Swap(Swap(w)) = w
BY DEF Word, Byte, Swap

LEMMA ZeroIsWord == Zero \in Word
BY DEF Zero, Word, Byte

\* A mapped address is an address, and not that of an IPv6 packet.
LEMMA MappedTyped ==
    ASSUME NEW w \in Word
    PROVE  /\ Mapped(w) \in Address
           /\ w # Zero => Mapped(w) \notin Word
BY DEF Mapped, Address, Word, Byte, Zero

\* A flow is of IPv4 or IPv6, has two addresses, and is that of a socket but for the identifier.
LEMMA FlowTyped ==
    ASSUME NEW f \in Flows
    PROVE  /\ f.family \in {"inet", "inet6"} /\ f.proto \in {"TCP", "UDP", "ICMP"}
           /\ f.laddr \in Word /\ f.laddr # Zero /\ f.raddr \in Word /\ f.raddr # Zero
           /\ \E c \in Sockets : f \in FlowsOf(c)
           /\ f = [proto |-> f.proto, family |-> f.family, laddr |-> f.laddr, lport |-> f.lport,
                   raddr |-> f.raddr, rport |-> f.rport]
           /\ f.proto = "ICMP" => f.rport = Zero
<1>1. PICK c \in Sockets : f \in FlowsOf(c)
  BY DEF Flows
<1>2. CASE f = FlowOf(c)
  BY <1>1, <1>2, DescTyped DEF FlowOf
<1>3. CASE desc[c].proto = "ICMP" /\ f = [FlowOf(c) EXCEPT !.lport = Zero]
  BY <1>1, <1>3, DescTyped DEF FlowOf
<1> QED
  BY <1>1, <1>2, <1>3 DEF FlowsOf

\* The fields a hook reads are words and addresses.
LEMMA SockTyped ==
    ASSUME NEW c \in Sockets, NEW conn \in BOOLEAN, NEW named \in BOOLEAN
    PROVE  /\ sock_common(c, conn, named).skc_rcv_saddr \in Word
           /\ sock_common(c, conn, named).skc_daddr \in Word
           /\ sock_common(c, conn, named).skc_v6_rcv_saddr \in Address
           /\ sock_common(c, conn, named).skc_v6_daddr \in Address
           /\ sock_common(c, conn, named).skc_num \in Word
           /\ sock_common(c, conn, named).skc_dport \in Word
<1>1. Word \subseteq Address
  BY DEF Address
<1> QED
  BY <1>1, DescTyped, SwapTwice, ZeroIsWord, MappedTyped DEF sock_common

\* The source a datagram hook reads of an IPv4 socket.
DatagramSource(c) ==
    IF desc[c].bound \/ desc[c].dest = "connected" THEN desc[c].local ELSE Zero

\* What the destination's two sources, msg_name and the socket, come to.
LEMMA DatagramKeyValue ==
    ASSUME NEW c \in Sockets, desc[c].proto = "UDP", SpeaksIPv4(c)
    PROVE  DatagramKey(c, sock_common(c, desc[c].dest = "connected", TRUE))
           = conn_key(DatagramSource(c), desc[c].remote, desc[c].num, desc[c].rport, "UDP", "inet")
<1>1. CASE desc[c].dest = "connected" /\ desc[c].family # "dual"
  <2>1. msg_name(c) = {}
    BY <1>1 DEF msg_name
  <2> QED
    BY <1>1, <2>1, DescTyped, SwapTwice DEF DatagramKey, sock_common, DatagramSource, bpf_ntohs
<1>2. CASE desc[c].dest = "name" \/ desc[c].family = "dual"
  <2> DEFINE m == [addr |-> desc[c].remote, port |-> Swap(desc[c].rport)]
  <2>1. msg_name(c) = {m}
    BY <1>2 DEF msg_name
  <2>2. (CHOOSE x \in {m} : TRUE) = m
    OBVIOUS
  <2>3. /\ m.addr = desc[c].remote
        /\ bpf_ntohs(m.port) = desc[c].rport
    BY DescTyped, SwapTwice DEF bpf_ntohs
  <2> HIDE DEF m
  <2>4. msg_name(c) # {} /\ (CHOOSE x \in msg_name(c) : TRUE) = m
    BY <2>1, <2>2
  <2> QED
    BY <1>2, <2>3, <2>4, DescTyped DEF DatagramKey, sock_common, DatagramSource
<1> QED
  BY <1>1, <1>2, DescTyped

LEMMA PingKeyValue ==
    ASSUME NEW c \in Sockets, desc[c].family = "inet"
    PROVE  PingKey(c, sock_common(c, desc[c].dest = "connected", TRUE))
           = conn_key(DatagramSource(c), desc[c].remote, desc[c].num, Zero, "ICMP", "inet")
BY DescTyped DEF PingKey, sock_common, DatagramSource, msg_name, SpeaksIPv4

LEMMA ClientKeyValue ==
    ASSUME NEW c \in Sockets, IsTcp4Client(c)
    PROVE  /\ V4Key(sock_common(c, TRUE, TRUE))
              = conn_key(desc[c].local, desc[c].remote, desc[c].num, desc[c].rport, "TCP", "inet")
           /\ ConnKey_new(FlowOf(c)) = V4Key(sock_common(c, TRUE, TRUE))
BY DescTyped, SwapTwice
DEF V4Key, sock_common, bpf_ntohs, IsTcp4Client, ConnKey_new, FlowOf, conn_key

\* Keys of listeners and of IPv6 sockets have no destination, or are IPv6 keys.
LEMMA OtherKeyShape ==
    ASSUME NEW c \in Sockets, NEW k \in HookKeys(c),
           desc[c].family = "inet6" \/ (desc[c].proto = "TCP" /\ desc[c].role = "server")
    PROVE  k.family = "inet6" \/ k.daddr = Zero
BY DescTyped DEF HookKeys, V4Key, V6Key, PingKey, sock_common, conn_key, SpeaksIPv4

\* Every key a hook stores is a key of the map's type.
LEMMA HookKeysTyped ==
    ASSUME NEW c \in Sockets
    PROVE  HookKeys(c) \subseteq ConnKeys
<1> SUFFICES ASSUME NEW k \in HookKeys(c) PROVE k \in ConnKeys
  OBVIOUS
<1> Word \subseteq Address
  BY DEF Address
<1>1. CASE desc[c].proto = "TCP"
  <2>1. \A n, m \in BOOLEAN :
           /\ V4Key(sock_common(c, n, m)) \in ConnKeys
           /\ V6Key(sock_common(c, n, m), "TCP") \in ConnKeys
    BY SockTyped, SwapTwice DEF V4Key, V6Key, ConnKeys, conn_key, bpf_ntohs
  <2> QED
    BY <1>1, <2>1, DescTyped DEF HookKeys
<1>2. CASE desc[c].proto = "UDP"
  <2>1. SpeaksIPv4(c) => DatagramKey(c, sock_common(c, desc[c].dest = "connected", TRUE)) \in ConnKeys
    <3>1. DatagramSource(c) \in Word
      BY DescTyped, ZeroIsWord DEF DatagramSource
    <3>2. conn_key(DatagramSource(c), desc[c].remote, desc[c].num, desc[c].rport, "UDP", "inet") \in ConnKeys
      BY <3>1, DescTyped DEF ConnKeys, conn_key
    <3> QED
      BY <1>2, <3>2, DatagramKeyValue
  <2>2. \A n, m \in BOOLEAN : V6Key(sock_common(c, n, m), "UDP") \in ConnKeys
    BY SockTyped, SwapTwice DEF V6Key, ConnKeys, conn_key, bpf_ntohs
  <2>3. V6Key(sock_common(c, desc[c].dest = "connected", TRUE), "UDP") \in ConnKeys
    BY <2>2
  <2> QED
    BY <1>2, <2>1, <2>3 DEF HookKeys
<1>4. CASE desc[c].proto = "ICMP" /\ desc[c].family = "inet"
  <2>1. k = conn_key(DatagramSource(c), desc[c].remote, desc[c].num, Zero, "ICMP", "inet")
    BY <1>4, PingKeyValue DEF HookKeys
  <2>2. DatagramSource(c) \in Word
    BY DescTyped, ZeroIsWord DEF DatagramSource
  <2> QED
    BY <2>1, <2>2, DescTyped, ZeroIsWord DEF ConnKeys, conn_key
<1>5. CASE desc[c].proto = "ICMP" /\ desc[c].family = "inet6"
  <2>1. PingKey(c, sock_common(c, desc[c].dest = "connected", TRUE)) \in ConnKeys
    BY <1>5, SockTyped, DescTyped, ZeroIsWord DEF PingKey, ConnKeys, conn_key, msg_name
  <2> QED
    BY <1>5, <2>1 DEF HookKeys
<1> QED
  BY <1>1, <1>2, <1>4, <1>5, DescTyped

\* The source in the IPv4 key of a socket that is no TCP listener.
Source4(c) == IF desc[c].proto = "TCP" THEN desc[c].local ELSE DatagramSource(c)

\* An IPv4 key with a peer is that of one socket's own addresses and ports.
LEMMA Key4Value ==
    ASSUME NEW c \in Sockets, NEW k \in HookKeys(c), k.family = "inet", k.daddr # Zero
    PROVE  /\ SpeaksIPv4(c) /\ ~(desc[c].proto = "TCP" /\ desc[c].role = "server")
           /\ k = conn_key(Source4(c), desc[c].remote, desc[c].num, FlowOf(c).rport, desc[c].proto, "inet")
<1>1. SpeaksIPv4(c) /\ ~(desc[c].proto = "TCP" /\ desc[c].role = "server")
  BY OtherKeyShape, DescTyped DEF SpeaksIPv4
<1>2. \A proto, n, m : V6Key(sock_common(c, n, m), proto).family = "inet6"
  BY DEF V6Key, conn_key
<1>3. CASE desc[c].proto = "TCP"
  <2>1. IsTcp4Client(c)
    BY <1>1, <1>3, DescTyped DEF IsTcp4Client
  <2>2. k = V4Key(sock_common(c, TRUE, TRUE))
    BY <1>1, <1>2, <1>3, DescTyped DEF HookKeys
  <2> QED
    BY <1>1, <1>3, <2>1, <2>2, ClientKeyValue DEF Source4, FlowOf
<1>4. CASE desc[c].proto = "UDP"
  <2> DEFINE key4 == DatagramKey(c, sock_common(c, desc[c].dest = "connected", TRUE))
             key6 == V6Key(sock_common(c, desc[c].dest = "connected", TRUE), "UDP")
  <2>1. k = key4
    <3>1. key6.family = "inet6"
      BY DEF V6Key, conn_key
    <3>2. k = key4 \/ k = key6
      BY <1>4 DEF HookKeys
    <3> HIDE DEF key6
    <3> QED
      BY <3>1, <3>2
  <2> QED
    BY <1>1, <1>4, <2>1, DatagramKeyValue DEF Source4, FlowOf
<1>5. CASE desc[c].proto = "ICMP"
  <2>1. desc[c].family = "inet"
    BY <1>1, <1>5, DescTyped DEF SpeaksIPv4
  <2>2. k = PingKey(c, sock_common(c, desc[c].dest = "connected", TRUE))
    BY <1>5 DEF HookKeys
  <2> QED
    BY <1>1, <1>5, <2>1, <2>2, PingKeyValue DEF Source4, FlowOf
<1> QED
  BY <1>3, <1>4, <1>5, DescTyped

\* The fields of the two keys by which IPv4 flow f is looked up.
LEMMA LookupKey4 ==
    ASSUME NEW f \in Flows, f.family = "inet", NEW k,
           k = ConnKey_new(f) \/ k = ConnKey_new(ZeroSource(f))
    PROVE  /\ k.family = "inet" /\ k.daddr = f.raddr /\ k.daddr # Zero /\ k.sport = f.lport
           /\ k.dport = f.rport /\ k.proto = f.proto
           /\ k.saddr = f.laddr \/ k.saddr = Zero
BY FlowTyped DEF ConnKey_new, ZeroSource, conn_key

\* A key by which IPv4 flow f is looked up is stored only by users of f.
LEMMA LookupKeyIsUse ==
    ASSUME NEW c \in Used, c \in Sockets, NEW k \in HookKeys(c), NEW f \in Flows, f.family = "inet",
           k = ConnKey_new(f) \/ k = ConnKey_new(ZeroSource(f))
    PROVE  UserOf(c, f)
<1>1. /\ k.family = "inet" /\ k.daddr = f.raddr /\ k.daddr # Zero /\ k.sport = f.lport
      /\ k.dport = f.rport /\ k.proto = f.proto
      /\ k.saddr = f.laddr \/ k.saddr = Zero
  BY LookupKey4
<1>2. /\ SpeaksIPv4(c)
      /\ k = conn_key(Source4(c), desc[c].remote, desc[c].num, FlowOf(c).rport, desc[c].proto, "inet")
  BY <1>1, Key4Value
<1>3. /\ FlowOf(c).family = "inet"
      /\ desc[c].proto # "ICMP" => desc[c].rport = FlowOf(c).rport
  BY <1>2 DEF FlowOf
<1>4. Source4(c) = desc[c].local \/ (Source4(c) = Zero /\ ~desc[c].bound)
  BY DescTyped DEF Source4, DatagramSource
<1>5. f.laddr # Zero
  BY FlowTyped
<1> QED
  BY <1>1, <1>2, <1>3, <1>4, <1>5, DescTyped DEF UserOf, conn_key

\* Only connected IPv4 clients store the key under which such a client is looked up.
LEMMA ClientKeyIsTuple ==
    ASSUME NEW c \in Sockets, IsTcp4Client(c), NEW d \in Sockets,
           ConnKey_new(FlowOf(c)) \in HookKeys(d)
    PROVE  IsTcp4Client(d) /\ Conflict(c, d) /\ Conflict(d, c)
<1> DEFINE k == ConnKey_new(FlowOf(c))
<1>1. k = conn_key(desc[c].local, desc[c].remote, desc[c].num, desc[c].rport, "TCP", "inet")
  BY ClientKeyValue
<1>2. k.family = "inet" /\ k.daddr # Zero /\ k.proto = "TCP"
  BY <1>1, DescTyped DEF conn_key
<1>3. /\ SpeaksIPv4(d) /\ ~(desc[d].proto = "TCP" /\ desc[d].role = "server")
      /\ k = conn_key(Source4(d), desc[d].remote, desc[d].num, FlowOf(d).rport, desc[d].proto, "inet")
  BY <1>2, Key4Value
<1>4. desc[d].proto = "TCP"
  BY <1>2, <1>3 DEF conn_key
<1>5. IsTcp4Client(d)
  BY <1>3, <1>4, DescTyped DEF IsTcp4Client
<1>6. /\ desc[c].local = desc[d].local /\ desc[c].remote = desc[d].remote /\ desc[c].num = desc[d].num
      /\ desc[c].rport = desc[d].rport
  BY <1>1, <1>3, <1>4 DEF conn_key, Source4, FlowOf
<1>7. FlowOf(c) = FlowOf(d)
  BY <1>4, <1>5, <1>6 DEF FlowOf, IsTcp4Client
<1> QED
  BY <1>5, <1>6, <1>7 DEF Conflict, Overlap, IsTcp4Client

-----------------------------------------------------------------------------
(* The kernel's steps *)

ActiveStates == {"open", "connecting", "called", "accepted"}

\* A hook that runs on a live socket and stores one of its keys preserves the invariant.
LEMMA HookStep ==
    ASSUME TrackerInv, NEW c \in Sockets, sock[c] \in ActiveStates, NEW key \in HookKeys(c),
           NEW next \in ActiveStates, Hook(c, key, next),
           IsTcp4Client(c) /\ next = "called" => key = ConnKey_new(FlowOf(c))
    PROVE  TrackerInv'
<1> USE DEF TrackerInv
<1>1. /\ sock' = [sock EXCEPT ![c] = next]
      /\ sock \in [Sockets -> SocketStates] /\ sock' \in [Sockets -> SocketStates]
      /\ UNCHANGED userVars /\ UpdateElem(key, get_process_info(c))
      /\ key \in ConnKeys
  BY HookKeysTyped DEF Hook, MapTyped, SocketStates, ActiveStates
<1>2. /\ c \in Live /\ Used' = Used /\ Live' = Live
  BY <1>1 DEF Used, Live, ActiveStates, SocketStates
<1>3. \/ /\ socket_map' = [k \in DOMAIN socket_map \cup {key} |->
                            IF k = key THEN get_process_info(c) ELSE socket_map[k]]
         /\ dropped' = dropped \ {key}
         /\ scan' = scan \/ (tpc = "scan" /\ scan' = scan \cup {key})
      \/ /\ key \notin DOMAIN socket_map /\ dropped' = dropped \cup {key}
         /\ socket_map' = socket_map /\ scan' = scan
  BY <1>1 DEF UpdateElem
<1>4. DOMAIN socket_map \subseteq DOMAIN socket_map' /\ DOMAIN socket_map' \subseteq DOMAIN socket_map \cup {key}
  BY <1>3
<1>5. \A k \in DOMAIN socket_map' :
         \/ k = key /\ socket_map'[k] = get_process_info(c)
         \/ k \in DOMAIN socket_map /\ k # key /\ socket_map'[k] = socket_map[k]
  BY <1>3
<1>6. MapTyped'
  <2>1. get_process_info(c) \in ConnInfos
    BY DescTyped DEF get_process_info, ConnInfos
  <2>2. \A k \in DOMAIN socket_map' : socket_map'[k] \in ConnInfos
    BY <1>5, <2>1 DEF MapTyped
  <2>3. dropped' \subseteq ConnKeys
    BY <1>1, <1>3 DEF MapTyped
  <2> QED
    BY <1>1, <1>4, <2>2, <2>3 DEF MapTyped
<1>7. CallTyped'
  BY <1>1, <1>3, <1>4 DEF CallTyped, userVars
<1>8. CleanupPhases'
  BY <1>1, <1>3 DEF CleanupPhases, userVars
<1>9. EntriesHaveUsers'
  BY <1>2, <1>5 DEF EntriesHaveUsers, Live, get_process_info
<1>10. NoConflicts'
  BY <1>2 DEF NoConflicts
<1>11. TcpEntriesCurrent'
  <2> SUFFICES ASSUME NEW e \in Sockets, IsTcp4Client(e), sock'[e] = "called",
                      ConnKey_new(FlowOf(e)) \in DOMAIN socket_map'
               PROVE  socket_map'[ConnKey_new(FlowOf(e))].pid = desc[e].pid
    BY DEF TcpEntriesCurrent
  <2>1. CASE e = c
    <3>1. key = ConnKey_new(FlowOf(c))
      BY <1>1, <2>1
    <3> QED
      BY <1>5, <2>1, <3>1 DEF get_process_info
  <2>2. CASE e # c
    <3>1. sock[e] = "called"
      BY <1>1, <2>2
    <3>2. ConnKey_new(FlowOf(e)) # key
      BY <1>2, <2>2, <3>1, ClientKeyIsTuple DEF NoConflicts, Live, Used
    <3> QED
      BY <1>5, <3>1, <3>2 DEF TcpEntriesCurrent
  <2> QED
    BY <2>1, <2>2
<1>12. AnswersAreUsers'
  BY <1>1, <1>2 DEF AnswersAreUsers, UserOf, userVars
<1> QED
  BY <1>6, <1>7, <1>8, <1>9, <1>10, <1>11, <1>12

\* Every hook stores one of its socket's keys, on a live socket.
LEMMA HooksStep ==
    ASSUME TrackerInv, NEW c \in Sockets, Hooks(c)
    PROVE  TrackerInv'
<1>1. ASSUME trace_tcp_connect(c) PROVE TrackerInv'
  <2>1. V4Key(sock_common(c, TRUE, TRUE)) \in HookKeys(c)
    BY <1>1 DEF trace_tcp_connect, HookKeys
  <2>2. sock[c] \in ActiveStates /\ "called" \in ActiveStates
    BY <1>1 DEF trace_tcp_connect, ActiveStates
  <2>3. IsTcp4Client(c) => V4Key(sock_common(c, TRUE, TRUE)) = ConnKey_new(FlowOf(c))
    BY ClientKeyValue
  <2> QED
    BY <1>1, <2>1, <2>2, <2>3, HookStep DEF trace_tcp_connect
<1>2. ASSUME trace_tcp_v6_connect(c) PROVE TrackerInv'
  <2>1. V6Key(sock_common(c, FALSE, desc[c].bound), "TCP") \in HookKeys(c)
    BY <1>2 DEF trace_tcp_v6_connect, HookKeys
  <2>2. sock[c] \in ActiveStates /\ "connecting" \in ActiveStates
    BY <1>2 DEF trace_tcp_v6_connect, ActiveStates
  <2> QED
    BY <1>2, <2>1, <2>2, HookStep DEF trace_tcp_v6_connect
<1>3. ASSUME trace_tcp_accept(c) PROVE TrackerInv'
  <2>1. V4Key(sock_common(c, FALSE, TRUE)) \in HookKeys(c)
    BY <1>3 DEF trace_tcp_accept, HookKeys
  <2>2. sock[c] \in ActiveStates /\ (IF sock[c] = "open" THEN "called" ELSE "accepted") \in ActiveStates
    BY <1>3 DEF trace_tcp_accept, ActiveStates
  <2> QED
    BY <1>3, <2>1, <2>2, HookStep DEF trace_tcp_accept, IsTcp4Client
<1>4. ASSUME trace_udp_sendmsg(c) PROVE TrackerInv'
  <2>1. DatagramKey(c, sock_common(c, desc[c].dest = "connected", TRUE)) \in HookKeys(c)
    BY <1>4 DEF trace_udp_sendmsg, HookKeys
  <2>2. sock[c] \in ActiveStates /\ "called" \in ActiveStates
    BY <1>4 DEF trace_udp_sendmsg, ActiveStates
  <2> QED
    BY <1>4, <2>1, <2>2, HookStep DEF trace_udp_sendmsg, IsTcp4Client
<1>5. ASSUME trace_udp_v6_sendmsg(c) PROVE TrackerInv'
  <2>1. V6Key(sock_common(c, desc[c].dest = "connected", TRUE), "UDP") \in HookKeys(c)
    BY <1>5 DEF trace_udp_v6_sendmsg, HookKeys
  <2> DEFINE next == IF desc[c].family = "dual" /\ sock[c] = "open" THEN "connecting" ELSE "called"
  <2>2. sock[c] \in ActiveStates /\ next \in ActiveStates
    BY <1>5 DEF trace_udp_v6_sendmsg, ActiveStates
  <2>3. Hook(c, V6Key(sock_common(c, desc[c].dest = "connected", TRUE), "UDP"), next) /\ ~IsTcp4Client(c)
    BY <1>5 DEF trace_udp_v6_sendmsg, IsTcp4Client
  <2> HIDE DEF next
  <2> QED
    BY <2>1, <2>2, <2>3, HookStep
<1>6. ASSUME trace_ping_v4_sendmsg(c) \/ trace_ping_v6_sendmsg(c) PROVE TrackerInv'
  <2>1. PingKey(c, sock_common(c, desc[c].dest = "connected", TRUE)) \in HookKeys(c)
    BY <1>6 DEF trace_ping_v4_sendmsg, trace_ping_v6_sendmsg, HookKeys
  <2>2. sock[c] \in ActiveStates /\ "called" \in ActiveStates
    BY <1>6 DEF trace_ping_v4_sendmsg, trace_ping_v6_sendmsg, ActiveStates
  <2> QED
    BY <1>6, <2>1, <2>2, HookStep DEF trace_ping_v4_sendmsg, trace_ping_v6_sendmsg, IsTcp4Client
<1> QED
  BY <1>1, <1>2, <1>3, <1>4, <1>5, <1>6 DEF Hooks

LEMMA ConflictSymmetric ==
    ASSUME NEW c \in Sockets, NEW d \in Sockets
    PROVE  Conflict(c, d) => Conflict(d, c)
BY DescTyped DEF Conflict, Overlap

\* Opening, accepting and closing leave the map alone.
LEMMA LifeStep ==
    ASSUME TrackerInv, NEW c \in Sockets, Open(c) \/ Accept(c) \/ Close(c)
    PROVE  TrackerInv'
<1> USE DEF TrackerInv
<1>1. /\ UNCHANGED <<socket_map, dropped, userVars, scan>>
      /\ sock \in [Sockets -> SocketStates]
      /\ \E n \in {"open", "accepted", "closed"} : sock' = [sock EXCEPT ![c] = n]
  BY DEF Open, Accept, Close, MapTyped
<1>2. sock' \in [Sockets -> SocketStates]
  BY <1>1 DEF SocketStates
<1>3. Used \subseteq Used' /\ Used' \subseteq Used \cup {c}
  BY <1>1 DEF Used
<1>4. MapTyped' /\ CallTyped' /\ CleanupPhases'
  BY <1>1, <1>2 DEF MapTyped, CallTyped, CleanupPhases, userVars
<1>5. EntriesHaveUsers'
  BY <1>1, <1>3 DEF EntriesHaveUsers
<1>6. NoConflicts'
  <2>1. CASE Open(c)
    <3>1. Live' \subseteq Live \cup {c}
      BY <1>1, <2>1 DEF Live, Used, Open
    <3>2. \A d \in Live : ~Conflict(c, d) /\ ~Conflict(d, c)
      BY <2>1, ConflictSymmetric DEF Open, Live, Used
    <3> QED
      BY <3>1, <3>2 DEF NoConflicts
  <2>2. CASE Accept(c) \/ Close(c)
    <3>1. Live' \subseteq Live
      BY <1>1, <2>2 DEF Live, Used, Accept, Close
    <3> QED
      BY <3>1 DEF NoConflicts
  <2> QED
    BY <2>1, <2>2
<1>7. TcpEntriesCurrent'
  BY <1>1 DEF TcpEntriesCurrent
<1>8. AnswersAreUsers'
  BY <1>1, <1>3 DEF AnswersAreUsers, UserOf, userVars
<1> QED
  BY <1>4, <1>5, <1>6, <1>7, <1>8

LEMMA TickStep ==
    ASSUME TrackerInv, Tick
    PROVE  TrackerInv'
<1> USE DEF TrackerInv
<1>1. /\ UNCHANGED <<sock, dropped, userVars, scan>>
      /\ DOMAIN socket_map' = DOMAIN socket_map
  BY DEF Tick
<1>2. \A k \in DOMAIN socket_map : /\ socket_map'[k] \in ConnInfos
                                  /\ socket_map'[k].pid = socket_map[k].pid
  BY DEF Tick, MapTyped, ConnInfos
<1>3. MapTyped' /\ CallTyped' /\ CleanupPhases'
  BY <1>1, <1>2 DEF MapTyped, CallTyped, CleanupPhases, userVars
<1>4. EntriesHaveUsers' /\ TcpEntriesCurrent'
  BY <1>1, <1>2 DEF EntriesHaveUsers, TcpEntriesCurrent, Used
<1>5. NoConflicts' /\ AnswersAreUsers'
  BY <1>1 DEF NoConflicts, AnswersAreUsers, UserOf, Used, Live, userVars
<1> QED
  BY <1>3, <1>4, <1>5

-----------------------------------------------------------------------------
(* The user's steps *)

\* A pid found under a key of the flow asked about is the pid of one of its users.
LEMMA FoundIsUser ==
    ASSUME MapTyped, EntriesHaveUsers, NEW f \in Flows, NEW key,
           key = ConnKey_new(f) \/ key = ConnKey_new(ZeroSource(f)), lookup_connection(key) # NoPid
    PROVE  /\ lookup_connection(key) \in Nat
           /\ f.family = "inet" => \E c \in Sockets : UserOf(c, f) /\ desc[c].pid = lookup_connection(key)
<1>1. key \in DOMAIN socket_map /\ lookup_connection(key) = socket_map[key].pid
  BY DEF lookup_connection
<1>2. PICK c \in Sockets : c \in Used /\ key \in HookKeys(c) /\ socket_map[key].pid = desc[c].pid
  BY <1>1 DEF EntriesHaveUsers
<1> QED
  BY <1>1, <1>2, DescTyped, LookupKeyIsUse

LEMMA LookupStep ==
    ASSUME TrackerInv, Lookup
    PROVE  TrackerInv'
<1> USE DEF TrackerInv
<1> DEFINE key == IF tpc = "exact" THEN ConnKey_new(flow) ELSE ConnKey_new(ZeroSource(flow))
<1>1. /\ UNCHANGED <<hookVars, flow, scan, keys_to_delete>>
      /\ answer' = lookup_connection(key) /\ tpc \in {"exact", "zero"}
      /\ tpc' \in {"zero", "answered"}
  BY DEF Lookup, LookupExact, LookupZeroSource
<1>2. flow \in Flows
  BY <1>1 DEF CallTyped
<1>3. key = ConnKey_new(flow) \/ key = ConnKey_new(ZeroSource(flow))
  OBVIOUS
<1> HIDE DEF key
<1>4. MapTyped' /\ EntriesHaveUsers' /\ NoConflicts' /\ TcpEntriesCurrent'
  BY <1>1 DEF MapTyped, EntriesHaveUsers, NoConflicts, TcpEntriesCurrent, Used, Live, hookVars
<1>5. CallTyped' /\ CleanupPhases'
  <2>1. answer' \in Nat \cup {NoPid}
    BY <1>1, <1>2, <1>3, FoundIsUser
  <2> QED
    BY <1>1, <1>2, <2>1 DEF CallTyped, CleanupPhases, hookVars
<1>6. AnswersAreUsers'
  <2>1. \A c \in Sockets : UserOf(c, flow) => UserOf(c, flow)'
    BY <1>1 DEF UserOf, Used, hookVars
  <2>2. ASSUME answer' # NoPid, flow.family = "inet"
        PROVE  \E c \in Sockets : UserOf(c, flow) /\ desc[c].pid = answer'
    BY <1>1, <1>2, <1>3, <2>2, FoundIsUser
  <2> QED
    BY <1>1, <2>1, <2>2 DEF AnswersAreUsers
<1> QED
  BY <1>4, <1>5, <1>6

LEMMA CallStep ==
    ASSUME TrackerInv, NEW f \in Flows, Call(f)
    PROVE  TrackerInv'
<1> USE DEF TrackerInv
<1>1. UNCHANGED hookVars /\ answer' = NoPid /\ flow' = f /\ tpc' \in {"exact", "scan"}
  BY DEF Call
<1>2. MapTyped' /\ EntriesHaveUsers' /\ NoConflicts' /\ TcpEntriesCurrent' /\ AnswersAreUsers'
  BY <1>1 DEF MapTyped, EntriesHaveUsers, NoConflicts, TcpEntriesCurrent, AnswersAreUsers, Used,
              Live, hookVars
<1>3. CallTyped' /\ CleanupPhases'
  BY DEF Call, CallTyped, CleanupPhases, hookVars
<1> QED
  BY <1>2, <1>3

LEMMA ReturnStep ==
    ASSUME TrackerInv, Return
    PROVE  TrackerInv'
<1> USE DEF TrackerInv
<1>1. MapTyped' /\ EntriesHaveUsers' /\ NoConflicts' /\ TcpEntriesCurrent' /\ AnswersAreUsers'
  BY DEF Return, MapTyped, EntriesHaveUsers, NoConflicts, TcpEntriesCurrent, AnswersAreUsers, Used,
         Live, hookVars
<1>2. CallTyped' /\ CleanupPhases'
  BY DEF Return, CallTyped, CleanupPhases, hookVars
<1> QED
  BY <1>1, <1>2

LEMMA CleanupStep ==
    ASSUME TrackerInv, Cleanup
    PROVE  TrackerInv'
<1> USE DEF TrackerInv
<1>1. ASSUME CleanupScanned \/ CleanupEnd \/ \E k \in scan : CleanupVisit(k)
      PROVE  TrackerInv'
  <2>1. UNCHANGED <<hookVars, flow, answer>>
    BY <1>1 DEF CleanupScanned, CleanupEnd, CleanupVisit
  <2>2. MapTyped' /\ EntriesHaveUsers' /\ NoConflicts' /\ TcpEntriesCurrent' /\ AnswersAreUsers'
    BY <2>1 DEF MapTyped, EntriesHaveUsers, NoConflicts, TcpEntriesCurrent, AnswersAreUsers,
                UserOf, Used, Live, hookVars
  <2>3. CallTyped' /\ CleanupPhases'
    BY <1>1, <2>1 DEF CleanupScanned, CleanupEnd, CleanupVisit, CallTyped, CleanupPhases, hookVars
  <2> QED
    BY <2>2, <2>3
<1>2. ASSUME NEW k \in keys_to_delete, CleanupDelete(k)
      PROVE  TrackerInv'
  <2>1. /\ UNCHANGED <<sock, tpc, flow, answer, scan>> /\ tpc = "delete"
        /\ dropped' = dropped \cup {k} /\ keys_to_delete' = keys_to_delete \ {k}
        /\ socket_map' = [j \in DOMAIN socket_map \ {k} |-> socket_map[j]]
    BY <1>2 DEF CleanupDelete
  <2>2. /\ DOMAIN socket_map' = DOMAIN socket_map \ {k}
        /\ \A j \in DOMAIN socket_map' : socket_map'[j] = socket_map[j]
    BY <2>1
  <2>3. MapTyped'
    <3>1. k \in ConnKeys
      BY DEF MapTyped, CallTyped
    <3> QED
      BY <2>1, <2>2, <3>1 DEF MapTyped
  <2>4. CallTyped' /\ CleanupPhases'
    BY <2>1, <2>2 DEF CallTyped, CleanupPhases
  <2>5. EntriesHaveUsers' /\ TcpEntriesCurrent'
    BY <2>1, <2>2 DEF EntriesHaveUsers, TcpEntriesCurrent, Used
  <2>6. NoConflicts' /\ AnswersAreUsers'
    BY <2>1 DEF NoConflicts, AnswersAreUsers, UserOf, Used, Live
  <2> QED
    BY <2>3, <2>4, <2>5, <2>6
<1> QED
  BY <1>1, <1>2 DEF Cleanup

-----------------------------------------------------------------------------
(* The tracker *)

LEMMA TrackerInitInv ==
    ASSUME TrackerInit
    PROVE  TrackerInv
<1>1. Used = {} /\ Live = {}
  BY DEF TrackerInit, Used, Live
<1>2. DOMAIN socket_map = {}
  BY DEF TrackerInit
<1>3. MapTyped /\ CallTyped /\ CleanupPhases
  BY <1>2 DEF TrackerInit, MapTyped, CallTyped, CleanupPhases, SocketStates
<1> QED
  BY <1>1, <1>2, <1>3
  DEF TrackerInit, TrackerInv, EntriesHaveUsers, NoConflicts, TcpEntriesCurrent, AnswersAreUsers

LEMMA TrackerNextInv ==
    ASSUME TrackerInv, [TrackerNext]_trackerVars
    PROVE  TrackerInv'
<1>1. ASSUME Programs PROVE TrackerInv'
  BY <1>1, TickStep, LifeStep, HooksStep DEF Programs
<1>2. ASSUME NEW c \in Used, NEW f \in FlowsOf(c), Call(f) PROVE TrackerInv'
  BY <1>2, CallStep DEF Flows, Used
<1>3. ASSUME UNCHANGED trackerVars PROVE TrackerInv'
  BY <1>3 DEF trackerVars, hookVars, userVars, TrackerInv, MapTyped, CallTyped, CleanupPhases,
      EntriesHaveUsers, NoConflicts, TcpEntriesCurrent, AnswersAreUsers, UserOf, Used, Live
<1> QED
  BY <1>1, <1>2, <1>3, CleanupStep, LookupStep, ReturnStep DEF TrackerNext

\* The map's answer to a connected IPv4 client is the client's process or none.
LEMMA InvImpliesOwner ==
    ASSUME TrackerInv
    PROVE  TcpAnswerIsOwner
<1> SUFFICES ASSUME NEW c \in Sockets, IsTcp4Client(c), sock[c] = "called"
             PROVE  MapAnswer(FlowOf(c)) \in {NoPid, desc[c].pid}
  BY DEF TcpAnswerIsOwner, IsTcp4Client
<1>1. ConnKey_new(ZeroSource(FlowOf(c))) \notin DOMAIN socket_map
  <2> SUFFICES ASSUME ConnKey_new(ZeroSource(FlowOf(c))) \in DOMAIN socket_map PROVE FALSE
    OBVIOUS
  <2> DEFINE k == ConnKey_new(ZeroSource(FlowOf(c)))
  <2>1. k.saddr = Zero /\ k.daddr # Zero /\ k.family = "inet" /\ k.proto = "TCP"
    BY DescTyped DEF ConnKey_new, ZeroSource, FlowOf, conn_key, IsTcp4Client
  <2>2. PICK d \in Sockets : k \in HookKeys(d)
    BY DEF TrackerInv, EntriesHaveUsers
  <2>3. k = conn_key(Source4(d), desc[d].remote, desc[d].num, FlowOf(d).rport, desc[d].proto, "inet")
    BY <2>1, <2>2, Key4Value
  <2> QED
    BY <2>1, <2>3, DescTyped DEF conn_key, Source4
<1>2. lookup_connection(ConnKey_new(FlowOf(c))) \in {NoPid, desc[c].pid}
  BY DEF lookup_connection, TrackerInv, TcpEntriesCurrent
<1> QED
  BY <1>1, <1>2 DEF MapAnswer, lookup_connection

\* The tracker by itself: its state keeps its types, the answers about IPv4 flows are
\* pids of their users, and those about connected IPv4 TCP clients of their owners.
THEOREM TrackerSafe == TrackerSpec => [](SocketTypeOK /\ AnswersAreUsers /\ TcpAnswerIsOwner)
<1>1. TrackerInv => SocketTypeOK /\ AnswersAreUsers /\ TcpAnswerIsOwner
  BY InvImpliesOwner DEF TrackerInv, MapTyped, CallTyped, SocketTypeOK
<1> QED
  BY <1>1, TrackerInitInv, TrackerNextInv, PTL DEF TrackerSpec

-----------------------------------------------------------------------------
(* The enrichment thread *)

\* Only flows of sockets that have been opened are asked about, each for its connection.
TrackedAreUsed ==
    /\ DOMAIN asks = DOMAIN conns
    /\ \A r \in DOMAIN conns : ConnOf(asks[r]) = r /\ \E c \in Used : asks[r] \in FlowsOf(c)

\* The packets of a socket, an error about them included, belong to one connection.
LEMMA OneConnection ==
    ASSUME NEW c \in Sockets, NEW f \in FlowsOf(c)
    PROVE  ConnOf(f) = ConnOf(FlowOf(c))
BY DEF FlowsOf, FlowOf, ConnOf

LEMMA EnrichmentStep ==
    ASSUME TrackerInv, TrackedAreUsed, [Next]_vars
    PROVE  [TrackerNext]_trackerVars /\ TrackedAreUsed'
<1>2. CASE Refresh \/ NoRefresh \/ ReadTables \/ Sleep
  <2>1. UNCHANGED <<trackerVars, conns, asks>>
    BY <1>2 DEF Refresh, NoRefresh, ReadTables, Sleep
  <2> QED
    BY <2>1 DEF TrackedAreUsed, Used, trackerVars, hookVars
<1>3. ASSUME NEW r \in DOMAIN conns, Visit(r)
      PROVE  TrackerNext /\ TrackedAreUsed'
  <2>1. Call(asks[r]) /\ UNCHANGED <<conns, asks, sock>>
    BY <1>3 DEF Visit, Call, enrichVars, hookVars
  <2>2. PICK c \in Used : asks[r] \in FlowsOf(c)
    BY DEF TrackedAreUsed
  <2> QED
    BY <2>1, <2>2 DEF TrackerNext, TrackedAreUsed, Used
<1>4. CASE Fill
  <2>1. Return /\ UNCHANGED <<sock, asks>> /\ DOMAIN conns' = DOMAIN conns
    BY <1>4 DEF Fill, Return, hookVars
  <2> QED
    BY <2>1 DEF TrackerNext, TrackedAreUsed, Used
<1>5. CASE (Cleanup \/ Lookup) /\ UNCHANGED enrichVars
  <2>1. UNCHANGED <<sock, conns, asks>>
    BY <1>5 DEF Cleanup, CleanupScanned, CleanupEnd, CleanupVisit, CleanupDelete, Lookup,
                LookupExact, LookupZeroSource, enrichVars, hookVars
  <2> QED
    BY <1>5, <2>1 DEF TrackerNext, TrackedAreUsed, Used
<1>6. CASE Programs /\ UNCHANGED enrichVars
  <2>1. ASSUME Tick PROVE Used \subseteq Used'
    BY <2>1 DEF Tick, Used
  <2>2. ASSUME NEW c \in Sockets, Open(c) \/ Accept(c) \/ Close(c) PROVE Used \subseteq Used'
    BY <2>2 DEF Open, Accept, Close, Used, TrackerInv, MapTyped
  <2>3. ASSUME NEW c \in Sockets, Hooks(c) PROVE Used \subseteq Used'
    <3>1. \E n \in ActiveStates : sock' = [sock EXCEPT ![c] = n]
      BY <2>3 DEF Hooks, Hook, ActiveStates, trace_tcp_connect, trace_tcp_v6_connect, trace_tcp_accept,
                  trace_udp_sendmsg, trace_udp_v6_sendmsg, trace_ping_v4_sendmsg, trace_ping_v6_sendmsg
    <3> QED
      BY <3>1 DEF Used, ActiveStates, TrackerInv, MapTyped
  <2>4. Used \subseteq Used' /\ UNCHANGED <<conns, asks>>
    BY <1>6, <2>1, <2>2, <2>3 DEF Programs, enrichVars
  <2> QED
    BY <1>6, <2>4 DEF TrackerNext, TrackedAreUsed
<1>7. ASSUME NEW c \in Sockets, Appear(c)
      PROVE  UNCHANGED trackerVars /\ TrackedAreUsed'
  <2>1. c \in Used /\ UNCHANGED trackerVars
    BY <1>7 DEF Appear, Used
  <2>2. PICK f \in FlowsOf(c) :
           /\ conns' = [r \in DOMAIN conns \cup {ConnOf(f)} |-> IF r = ConnOf(f) THEN NoPid ELSE conns[r]]
           /\ asks' = [r \in DOMAIN asks \cup {ConnOf(f)} |-> IF r = ConnOf(f) THEN f ELSE asks[r]]
    BY <1>7 DEF Appear
  <2>3. Used' = Used
    BY <2>1 DEF Used, trackerVars, hookVars
  <2> QED
    BY <2>1, <2>2, <2>3 DEF TrackedAreUsed
<1>8. ASSUME NEW r \in DOMAIN conns, Leave(r)
      PROVE  UNCHANGED trackerVars /\ TrackedAreUsed'
  <2>1. /\ UNCHANGED trackerVars
        /\ conns' = [s \in DOMAIN conns \ {r} |-> conns[s]] /\ asks' = [s \in DOMAIN asks \ {r} |-> asks[s]]
    BY <1>8 DEF Leave
  <2> QED
    BY <2>1 DEF TrackedAreUsed, Used, trackerVars, hookVars
<1>10. ASSUME NEW c \in Sockets, Echo(c)
       PROVE  UNCHANGED trackerVars /\ TrackedAreUsed'
  <2>1. c \in Used /\ UNCHANGED <<trackerVars, conns>>
    BY <1>10 DEF Echo, Used
  <2>2. PICK f \in FlowsOf(c) : asks' = [asks EXCEPT ![ConnOf(f)] = f]
    BY <1>10 DEF Echo
  <2>3. Used' = Used
    BY <2>1 DEF Used, trackerVars, hookVars
  <2> QED
    BY <2>1, <2>2, <2>3 DEF TrackedAreUsed
<1>9. CASE UNCHANGED vars
  BY <1>9 DEF vars, trackerVars, hookVars, enrichVars, TrackedAreUsed, Used
<1> QED
  BY <1>2, <1>3, <1>4, <1>5, <1>6, <1>7, <1>8, <1>9, <1>10 DEF Next, Enrichment, trackerVars

LEMMA EnrichmentInv == Spec => [](TrackerInv /\ TrackedAreUsed)
<1>1. Init => TrackerInv /\ TrackedAreUsed
  BY TrackerInitInv DEF Init, TrackedAreUsed
<1>2. TrackerInv /\ TrackedAreUsed /\ [Next]_vars => (TrackerInv /\ TrackedAreUsed)'
  BY EnrichmentStep, TrackerNextInv
<1> QED
  BY <1>1, <1>2, PTL DEF Spec

\* The enrichment thread uses the tracker as the tracker's specification allows: it
\* asks only about flows of sockets that were opened, one call at a time.
THEOREM EnrichmentUsesTracker == Spec => TrackerSpec
<1>1. Init => TrackerInit
  BY DEF Init
<1>2. TrackerInv /\ TrackedAreUsed /\ [Next]_vars => [TrackerNext]_trackerVars
  BY EnrichmentStep
<1> QED
  BY <1>1, <1>2, EnrichmentInv, PTL DEF Spec, TrackerSpec

\* The types of the tracker's state, under the thread.
THEOREM EnrichmentTypes == Spec => []SocketTypeOK
BY EnrichmentUsesTracker, TrackerSafe, PTL

\* What the thread is told of an IPv4 flow is the pid of a process that used it.
THEOREM AnswersAboutUsers == Spec => []AnswersAreUsers
BY EnrichmentUsesTracker, TrackerSafe, PTL

\* A connected IPv4 TCP client is never attributed to another process by the map.
THEOREM OwnersOnly == Spec => []TcpAnswerIsOwner
BY EnrichmentUsesTracker, TrackerSafe, PTL

-----------------------------------------------------------------------------
(* The two sides agree on the key *)

IsClient4(c) == desc[c].role = "client" /\ SpeaksIPv4(c)

\* The IPv4 key that a client's hook stores.
ClientKey4(c) == conn_key(Source4(c), desc[c].remote, desc[c].num, FlowOf(c).rport, desc[c].proto, "inet")

\* What the hook stored for an IPv4 client in use is in the map, or was dropped.
CalledNoted ==
    \A c \in Sockets : IsClient4(c) /\ sock[c] = "called" => ClientKey4(c) \in DOMAIN socket_map \cup dropped

\* An IPv4 client's key is one that a lookup of its flow tries.
LEMMA ClientKeyIsTried ==
    ASSUME NEW c \in Sockets, IsClient4(c)
    PROVE  ClientKey4(c) \in {ConnKey_new(FlowOf(c)), ConnKey_new(ZeroSource(FlowOf(c)))}
<1>1. Source4(c) \in {desc[c].local, Zero}
  BY DescTyped DEF Source4, DatagramSource
<1> QED
  BY <1>1 DEF ClientKey4, ConnKey_new, ZeroSource, FlowOf, conn_key, IsClient4

\* A key that is stored, or was dropped, stays one or the other.
LEMMA KeysKept ==
    ASSUME CallTyped, [TrackerNext]_trackerVars
    PROVE  DOMAIN socket_map \cup dropped \subseteq (DOMAIN socket_map \cup dropped)'
<1>1. ASSUME NEW c \in Sockets, Hooks(c)
      PROVE  DOMAIN socket_map \cup dropped \subseteq (DOMAIN socket_map \cup dropped)'
  <2>1. \E key, next : Hook(c, key, next)
    BY <1>1 DEF Hooks, trace_tcp_connect, trace_tcp_v6_connect, trace_tcp_accept, trace_udp_sendmsg,
                trace_udp_v6_sendmsg, trace_ping_v4_sendmsg, trace_ping_v6_sendmsg
  <2> QED
    BY <2>1 DEF Hook, UpdateElem
<1>2. ASSUME NEW c \in Sockets, Open(c) \/ Accept(c) \/ Close(c)
      PROVE  DOMAIN socket_map \cup dropped \subseteq (DOMAIN socket_map \cup dropped)'
  BY <1>2 DEF Open, Accept, Close
<1>3. ASSUME Tick
      PROVE  DOMAIN socket_map \cup dropped \subseteq (DOMAIN socket_map \cup dropped)'
  BY <1>3 DEF Tick
<1>4. ASSUME Cleanup
      PROVE  DOMAIN socket_map \cup dropped \subseteq (DOMAIN socket_map \cup dropped)'
  BY <1>4 DEF Cleanup, CleanupScanned, CleanupEnd, CleanupVisit, CleanupDelete, hookVars
<1>5. ASSUME Lookup \/ Return \/ \E c \in Used : \E f \in FlowsOf(c) : Call(f)
      PROVE  DOMAIN socket_map \cup dropped \subseteq (DOMAIN socket_map \cup dropped)'
  BY <1>5 DEF Lookup, LookupExact, LookupZeroSource, Return, Call, hookVars
<1>6. ASSUME UNCHANGED trackerVars
      PROVE  DOMAIN socket_map \cup dropped \subseteq (DOMAIN socket_map \cup dropped)'
  BY <1>6 DEF trackerVars, hookVars
<1> QED
  BY <1>1, <1>2, <1>3, <1>4, <1>5, <1>6 DEF TrackerNext, Programs

\* An IPv4 client gets in use by a hook, which stores its key or is refused.
LEMMA CalledByHook ==
    ASSUME MapTyped, [TrackerNext]_trackerVars, NEW c \in Sockets, IsClient4(c),
           sock[c] # "called", sock'[c] = "called"
    PROVE  ClientKey4(c) \in (DOMAIN socket_map \cup dropped)'
<1>1. PICK d \in Sockets : Hooks(d)
  <2>1. sock' # sock
    OBVIOUS
  <2>2. ~Cleanup /\ ~Lookup /\ ~Return /\ ~(\E d \in Used : \E f \in FlowsOf(d) : Call(f)) /\ ~Tick /\ ~UNCHANGED trackerVars
    BY <2>1 DEF Cleanup, CleanupScanned, CleanupEnd, CleanupVisit, CleanupDelete, Lookup, LookupExact,
                LookupZeroSource, Return, Call, Tick, trackerVars, hookVars
  <2>3. ASSUME NEW d \in Sockets PROVE ~(Open(d) \/ Accept(d) \/ Close(d))
    BY DEF Open, Accept, Close, MapTyped
  <2> QED
    BY <2>2, <2>3 DEF TrackerNext, Programs
<1>2. PICK key, next : Hook(d, key, next)
  BY <1>1 DEF Hooks, trace_tcp_connect, trace_tcp_v6_connect, trace_tcp_accept, trace_udp_sendmsg,
              trace_udp_v6_sendmsg, trace_ping_v4_sendmsg, trace_ping_v6_sendmsg
<1>3. d = c
  BY <1>2 DEF Hook, MapTyped
<1>4. UpdateElem(ClientKey4(c), get_process_info(c))
  <2>1. CASE trace_tcp_connect(c)
    <3>1. IsTcp4Client(c) /\ Source4(c) = desc[c].local /\ FlowOf(c).rport = desc[c].rport
      BY <2>1 DEF trace_tcp_connect, IsClient4, IsTcp4Client, Source4, FlowOf
    <3>2. ClientKey4(c) = V4Key(sock_common(c, TRUE, TRUE))
      BY <3>1, ClientKeyValue DEF ClientKey4, IsTcp4Client
    <3> QED
      BY <2>1, <3>2 DEF trace_tcp_connect, Hook
  <2>2. CASE trace_udp_sendmsg(c)
    <3>1. desc[c].proto = "UDP" /\ SpeaksIPv4(c) /\ Source4(c) = DatagramSource(c)
      BY <2>2 DEF trace_udp_sendmsg, Source4
    <3>2. ClientKey4(c) = DatagramKey(c, sock_common(c, desc[c].dest = "connected", TRUE))
      BY <3>1, DatagramKeyValue DEF ClientKey4, FlowOf
    <3> QED
      BY <2>2, <3>2 DEF trace_udp_sendmsg, Hook
  <2>3. CASE trace_ping_v4_sendmsg(c)
    <3>1. desc[c].proto = "ICMP" /\ desc[c].family = "inet" /\ Source4(c) = DatagramSource(c)
      BY <2>3 DEF trace_ping_v4_sendmsg, Source4
    <3>2. ClientKey4(c) = PingKey(c, sock_common(c, desc[c].dest = "connected", TRUE))
      BY <3>1, PingKeyValue DEF ClientKey4, FlowOf
    <3> QED
      BY <2>3, <3>2 DEF trace_ping_v4_sendmsg, Hook
  <2>4. ~trace_tcp_v6_connect(c) /\ ~trace_tcp_accept(c)
    <3>1. ASSUME trace_tcp_v6_connect(c) PROVE sock'[c] = "connecting"
      BY <3>1 DEF trace_tcp_v6_connect, Hook, MapTyped
    <3> QED
      BY <3>1 DEF IsClient4, trace_tcp_accept
  <2>5. ~trace_udp_v6_sendmsg(c)
    <3>1. ASSUME trace_udp_v6_sendmsg(c) PROVE desc[c].family = "dual" /\ sock[c] = "open" /\ sock'[c] = "connecting"
      BY <3>1, DescTyped DEF trace_udp_v6_sendmsg, Hook, MapTyped, IsClient4, SpeaksIPv4
    <3> QED
      BY <3>1
  <2>6. ~trace_ping_v6_sendmsg(c)
    BY DEF IsClient4, trace_ping_v6_sendmsg, SpeaksIPv4
  <2> QED
    BY <1>1, <1>3, <2>1, <2>2, <2>3, <2>4, <2>5, <2>6 DEF Hooks
<1> QED
  BY <1>4 DEF UpdateElem

LEMMA CalledNotedStep ==
    ASSUME TrackerInv, CalledNoted, [TrackerNext]_trackerVars
    PROVE  CalledNoted'
<1> SUFFICES ASSUME NEW c \in Sockets, IsClient4(c), sock'[c] = "called"
             PROVE  ClientKey4(c) \in (DOMAIN socket_map \cup dropped)'
  BY DEF CalledNoted
<1>1. CASE sock[c] = "called"
  BY <1>1, KeysKept DEF CalledNoted, TrackerInv
<1>2. CASE sock[c] # "called"
  BY <1>2, CalledByHook DEF TrackerInv
<1> QED
  BY <1>1, <1>2

LEMMA NotedImpliesFound ==
    ASSUME MapTyped, CalledNoted
    PROVE  CalledIsFound
<1> SUFFICES ASSUME NEW c \in Sockets, IsClient4(c), sock[c] = "called",
                    {ConnKey_new(FlowOf(c)), ConnKey_new(ZeroSource(FlowOf(c)))} \cap dropped = {}
             PROVE  MapAnswer(FlowOf(c)) # NoPid
  BY DEF CalledIsFound, IsClient4
<1>1. ClientKey4(c) \in {ConnKey_new(FlowOf(c)), ConnKey_new(ZeroSource(FlowOf(c)))}
  BY ClientKeyIsTried
<1>2. ClientKey4(c) \in DOMAIN socket_map
  BY <1>1 DEF CalledNoted
<1>3. lookup_connection(ClientKey4(c)) # NoPid
  BY <1>2, NoneAssumption DEF lookup_connection, MapTyped, ConnInfos
<1>4. TriesZeroSource(FlowOf(c))
  BY DEF TriesZeroSource, FlowOf, IsClient4
<1> QED
  BY <1>1, <1>3, <1>4 DEF MapAnswer

\* Kernel and user space build the same key: for any sockets and any size of the map, the
\* flow of an IPv4 client in use is found, unless its entry was refused or cleaned up.
THEOREM CalledFound == Spec => []CalledIsFound
<1>1. Init => CalledNoted
  BY DEF Init, TrackerInit, CalledNoted
<1>2. TrackerInv /\ TrackedAreUsed /\ CalledNoted /\ [Next]_vars => CalledNoted'
  BY EnrichmentStep, CalledNotedStep
<1>3. TrackerInv /\ CalledNoted => CalledIsFound
  BY NotedImpliesFound DEF TrackerInv
<1> QED
  BY <1>1, <1>2, <1>3, EnrichmentInv, PTL DEF Spec

-----------------------------------------------------------------------------
(* The pid that is shown *)

\* The words of an IPv6 peer are not another one's with the bytes turned round, and if they
\* are the same so, neither are the local ones'.  ConnKey::new turns IPv6 words round and
\* the hooks do not, so a lookup can find an IPv6 entry only under the mirrored addresses of
\* its flow; TLC finds ShownServed violated by two such sockets.
NoMirroredFlows ==
    \A c, d \in Sockets :
        desc[c].family = "inet6" /\ desc[d].family = "inet6" /\ desc[c].remote = Swap(desc[d].remote)
        => /\ desc[c].remote = desc[d].remote
           /\ desc[c].local = Swap(desc[d].local) => desc[c].local = desc[d].local

\* What the thread has found so far: sockets that were opened, rows with the pid of a
\* socket that had such a row, an answer and shown pids that Served allows.
CacheServed ==
    \A r \in DOMAIN cache :
        \E c \in Used : /\ cache[r] = desc[c].pid /\ desc[c].proto # "ICMP"
                        /\ r = PeerRow(c) \/ (r = WildcardRow(c) /\ WithoutPeer(c))
InodesUsed == \A i \in inodes : i[1] \in Used
AnswerServed == answer # NoPid => \E c \in Sockets : desc[c].pid = answer /\ Served(c, ConnOf(flow))
ThreadInv == CacheServed /\ InodesUsed /\ AnswerServed /\ ShownServed

\* A user of a flow from its own address, or one without a peer, could be meant by it.
LEMMA UserIsServed ==
    ASSUME NEW c \in Sockets, NEW f \in Flows, UserOf(c, f), WithoutPeer(c) \/ desc[c].local = f.laddr
    PROVE  Served(c, ConnOf(f))
<1>1. /\ c \in Used /\ desc[c].proto = f.proto /\ FlowOf(c).family = f.family
      /\ desc[c].num = f.lport /\ desc[c].remote = f.raddr
      /\ desc[c].proto # "ICMP" => desc[c].rport = f.rport
      /\ desc[c].local = f.laddr \/ ~desc[c].bound
  BY DEF UserOf
<1>2. /\ f = [proto |-> f.proto, family |-> f.family, laddr |-> f.laddr, lport |-> f.lport,
             raddr |-> f.raddr, rport |-> f.rport]
      /\ f.proto = "ICMP" => f.rport = Zero
  BY FlowTyped
<1>3. CASE desc[c].local = f.laddr
  <2>1. FlowOf(c) = f
    BY <1>1, <1>2, <1>3 DEF FlowOf
  <2> QED
    BY <1>1, <2>1 DEF Served, ConnOf
<1>4. CASE WithoutPeer(c)
  BY <1>1, <1>2, <1>4 DEF Served, ConnOf, FlowOf
<1> QED
  BY <1>3, <1>4

\* A socket that stored a key by which IPv4 flow f is looked up could be meant by f.
LEMMA LookupKeyIsServed4 ==
    ASSUME NEW c \in Used, c \in Sockets, NEW k \in HookKeys(c), NEW f \in Flows, f.family = "inet",
           k = ConnKey_new(f) \/ k = ConnKey_new(ZeroSource(f))
    PROVE  Served(c, ConnOf(f))
<1>1. k.family = "inet" /\ k.daddr # Zero /\ (k.saddr = f.laddr \/ k.saddr = Zero)
  BY LookupKey4
<1>2. k.saddr = Source4(c)
  BY <1>1, Key4Value DEF conn_key
<1>3. WithoutPeer(c) \/ desc[c].local = f.laddr
  BY <1>1, <1>2, DescTyped DEF Source4, DatagramSource, WithoutPeer
<1> QED
  BY <1>3, LookupKeyIsUse, UserIsServed

\* What an IPv6 key with an unmapped peer tells of the socket that stored it.
LEMMA KeyOf6 ==
    ASSUME NEW c \in Sockets, NEW k \in HookKeys(c), k.family = "inet6", k.daddr # Zero, k.daddr \in Word
    PROVE  /\ desc[c].family = "inet6" /\ k.daddr = desc[c].remote /\ k.sport = desc[c].num
           /\ \/ k.proto = "UDP" /\ desc[c].proto = "UDP" /\ k.dport = desc[c].rport
                                 /\ k.saddr = desc[c].local
              \/ /\ k.proto = "ICMPv6" /\ desc[c].proto = "ICMP"
                 /\ k.saddr = desc[c].local \/ (k.saddr = Zero /\ ~desc[c].bound /\ desc[c].dest = "name")
<1>1. CASE desc[c].proto = "TCP"
  <2>1. \A n, m \in BOOLEAN : V4Key(sock_common(c, n, m)).family = "inet"
    BY DEF V4Key, conn_key
  <2>2. \A m \in BOOLEAN : V6Key(sock_common(c, FALSE, m), "TCP").daddr = Zero
    BY DescTyped DEF V6Key, conn_key, sock_common, Mapped
  <2> QED
    BY <1>1, <2>1, <2>2, DescTyped DEF HookKeys
<1>2. CASE desc[c].proto = "UDP"
  <2> DEFINE key4 == DatagramKey(c, sock_common(c, desc[c].dest = "connected", TRUE))
             key6 == V6Key(sock_common(c, desc[c].dest = "connected", TRUE), "UDP")
  <2>1. desc[c].family # "inet" /\ k = key6
    <3>1. ASSUME SpeaksIPv4(c), k = key4 PROVE FALSE
      <4>1. key4 = conn_key(DatagramSource(c), desc[c].remote, desc[c].num, desc[c].rport, "UDP", "inet")
        BY <1>2, <3>1, DatagramKeyValue
      <4> HIDE DEF key4, key6
      <4> QED
        BY <3>1, <4>1 DEF conn_key
    <3>2. (SpeaksIPv4(c) /\ k = key4) \/ (desc[c].family # "inet" /\ k = key6)
      BY <1>2 DEF HookKeys
    <3> HIDE DEF key4, key6
    <3> QED
      BY <3>1, <3>2
  <2>2. desc[c].dest = "connected"
    BY <2>1, DescTyped DEF V6Key, conn_key, sock_common, Mapped
  <2>3. desc[c].family = "inet6"
    BY <2>1, <2>2, DescTyped, MappedTyped DEF V6Key, conn_key, sock_common
  <2> QED
    BY <1>2, <2>1, <2>2, <2>3, DescTyped, SwapTwice DEF V6Key, conn_key, sock_common, bpf_ntohs
<1>3. CASE desc[c].proto = "ICMP" /\ desc[c].family = "inet"
  <2>1. k = conn_key(DatagramSource(c), desc[c].remote, desc[c].num, Zero, "ICMP", "inet")
    BY <1>3, PingKeyValue DEF HookKeys
  <2> QED
    BY <2>1 DEF conn_key
<1>4. CASE desc[c].proto = "ICMP" /\ desc[c].family = "inet6"
  <2>1. k = PingKey(c, sock_common(c, desc[c].dest = "connected", TRUE))
    BY <1>4 DEF HookKeys
  <2> QED
    BY <1>4, <2>1, DescTyped DEF PingKey, conn_key, sock_common, msg_name
<1> QED
  BY <1>1, <1>2, <1>3, <1>4, DescTyped

\* The same for IPv6 flows, of which none mirrors another.
LEMMA LookupKeyIsServed6 ==
    ASSUME NoMirroredFlows,
           NEW c \in Used, c \in Sockets, NEW k \in HookKeys(c), NEW f \in Flows, f.family = "inet6",
           k = ConnKey_new(f) \/ k = ConnKey_new(ZeroSource(f))
    PROVE  Served(c, ConnOf(f))
<1>1. PICK d \in Sockets : f \in FlowsOf(d)
  BY DEF Flows
<1>2. /\ f.laddr = desc[d].local /\ f.raddr = desc[d].remote /\ f.family = FlowOf(d).family
      /\ f.laddr \in Word /\ f.laddr # Zero /\ f.raddr \in Word /\ f.raddr # Zero
      /\ f.proto \in {"TCP", "UDP", "ICMP"}
  BY <1>1, FlowTyped DEF FlowsOf, FlowOf
<1>3. desc[d].family = "inet6"
  BY <1>2, DescTyped DEF FlowOf, SpeaksIPv4
<1>4. \A w \in Word : Swap(w) \in Word /\ Swap(Swap(w)) = w /\ (w # Zero => Swap(w) # Zero)
  BY DEF Word, Byte, Zero, Swap
<1>5. Swap(Zero) = Zero
  BY DEF Zero, Swap
<1>6. /\ k.family = "inet6" /\ k.daddr = Swap(f.raddr) /\ k.daddr # Zero /\ k.daddr \in Word
      /\ k.sport = f.lport /\ k.dport = f.rport
      /\ k.proto = (IF f.proto = "ICMP" THEN "ICMPv6" ELSE f.proto)
      /\ k.saddr = Swap(f.laddr) \/ k.saddr = Zero
  BY <1>2, <1>4, <1>5, FlowTyped DEF ConnKey_new, ZeroSource, conn_key
<1>7. /\ desc[c].family = "inet6" /\ desc[c].remote = Swap(desc[d].remote) /\ desc[c].num = f.lport
      /\ desc[c].proto = f.proto
      /\ desc[c].proto = "ICMP" \/ k.dport = desc[c].rport
      /\ k.saddr = desc[c].local \/ (~desc[c].bound /\ desc[c].dest = "name")
  BY <1>2, <1>6, KeyOf6, DescTyped
<1>8. desc[c].remote = f.raddr /\ FlowOf(c).family = f.family
  BY <1>2, <1>3, <1>7 DEF NoMirroredFlows, FlowOf, SpeaksIPv4
<1>9. CASE k.saddr = desc[c].local
  <2>1. desc[c].local = f.laddr
    BY <1>2, <1>3, <1>6, <1>7, <1>9, DescTyped DEF NoMirroredFlows
  <2>2. UserOf(c, f)
    BY <1>6, <1>7, <1>8, <2>1 DEF UserOf
  <2> QED
    BY <2>1, <2>2, UserIsServed
<1>10. CASE ~desc[c].bound /\ desc[c].dest = "name"
  <2>1. UserOf(c, f) /\ WithoutPeer(c)
    BY <1>6, <1>7, <1>8, <1>10 DEF UserOf, WithoutPeer
  <2> QED
    BY <2>1, UserIsServed
<1> QED
  BY <1>7, <1>9, <1>10

\* A pid found under a key of the flow asked about is one of a socket that it could mean.
LEMMA FoundIsServed ==
    ASSUME NoMirroredFlows, EntriesHaveUsers, NEW f \in Flows, NEW key,
           key = ConnKey_new(f) \/ key = ConnKey_new(ZeroSource(f)), lookup_connection(key) # NoPid
    PROVE  \E c \in Sockets : desc[c].pid = lookup_connection(key) /\ Served(c, ConnOf(f))
<1>1. key \in DOMAIN socket_map /\ lookup_connection(key) = socket_map[key].pid
  BY DEF lookup_connection
<1>2. PICK c \in Sockets : c \in Used /\ key \in HookKeys(c) /\ socket_map[key].pid = desc[c].pid
  BY <1>1 DEF EntriesHaveUsers
<1>3. f.family \in {"inet", "inet6"}
  BY FlowTyped
<1>4. Served(c, ConnOf(f))
  BY <1>2, <1>3, LookupKeyIsServed4, LookupKeyIsServed6
<1> QED
  BY <1>1, <1>2, <1>4

\* A row of the cache by which flow f is looked up has the pid of a socket f could mean.
LEMMA RowIsServed ==
    ASSUME CacheServed, NEW f \in Flows, NEW r \in DOMAIN cache,
           r \in {f, [f EXCEPT !.raddr = Zero, !.rport = Zero], [f EXCEPT !.laddr = Zero],
                  [f EXCEPT !.laddr = Zero, !.raddr = Zero, !.rport = Zero]}
    PROVE  \E c \in Sockets : desc[c].pid = cache[r] /\ Served(c, ConnOf(f))
<1>1. PICK c \in Used : /\ cache[r] = desc[c].pid /\ desc[c].proto # "ICMP"
                        /\ r = PeerRow(c) \/ (r = WildcardRow(c) /\ WithoutPeer(c))
  BY DEF CacheServed
<1>2. c \in Sockets
  BY DEF Used
<1>3. /\ f.laddr # Zero /\ f.laddr \in Word /\ f.raddr # Zero /\ f.raddr \in Word
      /\ f = [proto |-> f.proto, family |-> f.family, laddr |-> f.laddr, lport |-> f.lport,
              raddr |-> f.raddr, rport |-> f.rport]
  BY FlowTyped
<1>4. /\ r.proto = f.proto /\ r.family = f.family /\ r.lport = f.lport
      /\ r.laddr \in {f.laddr, Zero} /\ r.laddr \in Word
      /\ r.laddr # Zero /\ r.raddr # Zero => r = f
  BY <1>3, ZeroIsWord
<1>5. CASE r = PeerRow(c)
  <2>1. desc[c].family # "dual"
    BY <1>2, <1>4, <1>5, MappedTyped, DescTyped DEF PeerRow, Row
  <2>2. r = FlowOf(c) /\ r.laddr # Zero /\ r.raddr # Zero
    BY <1>1, <1>2, <1>5, <2>1, DescTyped DEF PeerRow, Row, FlowOf, SpeaksIPv4
  <2>3. f = FlowOf(c) /\ f.proto # "ICMP"
    BY <1>1, <1>4, <2>2 DEF FlowOf
  <2> QED
    BY <1>1, <1>2, <2>3 DEF Served, ConnOf, FlowOf
<1>6. CASE r = WildcardRow(c) /\ WithoutPeer(c)
  <2>1. /\ desc[c].proto = f.proto /\ desc[c].num = f.lport
        /\ f.family = (IF desc[c].family = "inet" THEN "inet" ELSE "inet6")
    BY <1>4, <1>6 DEF WildcardRow, Row
  <2>2. CASE desc[c].bound
    <3>1. desc[c].family # "dual"
      BY <1>2, <1>4, <1>6, <2>2, MappedTyped, DescTyped DEF WildcardRow, Row
    <3>2. desc[c].local = f.laddr
      BY <1>2, <1>4, <1>6, <2>2, <3>1, DescTyped DEF WildcardRow, Row
    <3>3. FlowOf(c).family = f.family
      BY <1>2, <2>1, <3>1, DescTyped DEF FlowOf, SpeaksIPv4
    <3> QED
      BY <1>1, <1>2, <1>6, <2>1, <3>2, <3>3 DEF Served, ConnOf, FlowOf
  <2>3. CASE ~desc[c].bound
    <3>1. FlowOf(c).family = f.family \/ (AnyFamily(c) /\ f.family = "inet6")
      BY <1>2, <2>1, <2>3, DescTyped DEF FlowOf, SpeaksIPv4, AnyFamily
    <3> QED
      BY <1>1, <1>2, <1>6, <2>1, <2>3, <3>1 DEF Served, ConnOf, FlowOf
  <2> QED
    BY <1>2, <2>2, <2>3, DescTyped
<1> QED
  BY <1>1, <1>5, <1>6

\* So what the fallback finds for a flow is the pid of a socket that the flow could mean.
LEMMA ProcfsIsServed ==
    ASSUME CacheServed, NEW f \in Flows, procfs_lookup(f) # NoPid
    PROVE  \E c \in Sockets : desc[c].pid = procfs_lookup(f) /\ Served(c, ConnOf(f))
<1>3. ASSUME NEW r \in DOMAIN cache,
             r \in {f, [f EXCEPT !.raddr = Zero, !.rport = Zero], [f EXCEPT !.laddr = Zero],
                    [f EXCEPT !.laddr = Zero, !.raddr = Zero, !.rport = Zero]}
      PROVE  \E c \in Sockets : desc[c].pid = cache[r] /\ Served(c, ConnOf(f))
  BY <1>3, RowIsServed
<1> DEFINE candidates == {[f EXCEPT !.raddr = Zero, !.rport = Zero], [f EXCEPT !.laddr = Zero],
                          [f EXCEPT !.laddr = Zero, !.raddr = Zero, !.rport = Zero]}
           found == {cache[k] : k \in candidates \cap DOMAIN cache}
<1>1. CASE f \in DOMAIN cache
  BY <1>1, <1>3 DEF procfs_lookup
<1>2. CASE f \notin DOMAIN cache
  <2>1. procfs_lookup(f) = fallback_lookup(f)
    BY <1>2 DEF procfs_lookup
  <2>2. Cardinality(found) = 1 /\ fallback_lookup(f) = CHOOSE p \in found : TRUE
    BY <2>1 DEF fallback_lookup
  <2> HIDE DEF found
  <2>3. Cardinality({}) # 1
    BY FS_EmptySet
  <2>4. fallback_lookup(f) \in found
    BY <2>2, <2>3
  <2>5. PICK k \in candidates \cap DOMAIN cache : fallback_lookup(f) = cache[k]
    BY <2>4 DEF found
  <2> QED
    BY <2>1, <2>5, <1>3
<1> QED
  BY <1>1, <1>2

-----------------------------------------------------------------------------
(* The thread's steps *)

\* Sockets stay used, and a socket that a flow could mean stays one.
LEMMA UsedGrows ==
    ASSUME MapTyped, [TrackerNext]_trackerVars
    PROVE  Used \subseteq Used' /\ \A c \in Sockets : \A f : Served(c, f) => Served(c, f)'
<1>1. Used \subseteq Used'
  <2>1. ASSUME NEW c \in Sockets, Hooks(c) PROVE Used \subseteq Used'
    <3>1. \E n \in ActiveStates : sock' = [sock EXCEPT ![c] = n]
      BY <2>1 DEF Hooks, Hook, ActiveStates, trace_tcp_connect, trace_tcp_v6_connect, trace_tcp_accept,
                  trace_udp_sendmsg, trace_udp_v6_sendmsg, trace_ping_v4_sendmsg, trace_ping_v6_sendmsg
    <3> QED
      BY <3>1 DEF Used, ActiveStates, MapTyped
  <2>2. ASSUME NEW c \in Sockets, Open(c) \/ Accept(c) \/ Close(c) PROVE Used \subseteq Used'
    BY <2>2 DEF Open, Accept, Close, Used, MapTyped
  <2>3. ASSUME Cleanup \/ Lookup \/ Return \/ Tick \/ (\E c \in Used : \E f \in FlowsOf(c) : Call(f)) \/ UNCHANGED trackerVars
        PROVE  Used \subseteq Used'
    <3>1. sock' = sock
      BY <2>3 DEF Cleanup, CleanupScanned, CleanupEnd, CleanupVisit, CleanupDelete, Lookup, LookupExact,
                  LookupZeroSource, Return, Call, Tick, trackerVars, hookVars
    <3> QED
      BY <3>1 DEF Used
  <2> QED
    BY <2>1, <2>2, <2>3 DEF TrackerNext, Programs
<1>2. ASSUME NEW c \in Sockets, NEW f, Served(c, f)
      PROVE  Served(c, f)'
  BY <1>1, <1>2 DEF Served
<1> QED
  BY <1>1, <1>2

\* The answer and the flow change only when a call begins, an attempt is made, or it returns.
LEMMA AnswerStep ==
    ASSUME NoMirroredFlows, TrackerInv, AnswerServed, [TrackerNext]_trackerVars
    PROVE  AnswerServed'
<1>1. CASE Lookup
  <2> DEFINE key == IF tpc = "exact" THEN ConnKey_new(flow) ELSE ConnKey_new(ZeroSource(flow))
  <2>1. /\ tpc \in {"exact", "zero"} /\ flow' = flow
        /\ answer' = lookup_connection(key)
    BY <1>1 DEF Lookup, LookupExact, LookupZeroSource
  <2>2. flow \in Flows
    BY <2>1 DEF TrackerInv, CallTyped
  <2>3. key = ConnKey_new(flow) \/ key = ConnKey_new(ZeroSource(flow))
    OBVIOUS
  <2> HIDE DEF key
  <2>4. answer' # NoPid => \E c \in Sockets : desc[c].pid = answer' /\ Served(c, ConnOf(flow))
    BY <2>1, <2>2, <2>3, FoundIsServed DEF TrackerInv
  <2> QED
    BY <2>1, <2>4, UsedGrows DEF AnswerServed, TrackerInv
<1>2. CASE Return \/ \E c \in Used : \E f \in FlowsOf(c) : Call(f)
  BY <1>2 DEF Return, Call, AnswerServed
<1>3. CASE Cleanup \/ Programs \/ UNCHANGED trackerVars
  <2>1. ASSUME NEW c \in Sockets, Hooks(c) PROVE UNCHANGED userVars
    BY <2>1 DEF Hooks, Hook, trace_tcp_connect, trace_tcp_v6_connect, trace_tcp_accept, trace_udp_sendmsg,
                trace_udp_v6_sendmsg, trace_ping_v4_sendmsg, trace_ping_v6_sendmsg
  <2>2. UNCHANGED <<answer, flow>>
    BY <1>3, <2>1 DEF Cleanup, CleanupScanned, CleanupEnd, CleanupVisit, CleanupDelete, Programs, Tick,
                      Open, Accept, Close, trackerVars, userVars
  <2> QED
    BY <2>2, UsedGrows DEF AnswerServed, TrackerInv
<1> QED
  BY <1>1, <1>2, <1>3 DEF TrackerNext

\* Reading the tables: every row belongs to a socket that was found among the descriptors.
LEMMA ReadTablesStep ==
    ASSUME InodesUsed, ReadTables
    PROVE  CacheServed'
<1> DEFINE RowsOf(i) == Rows(i[1], i[2])
           Holder(r) == (CHOOSE i \in inodes : r \in RowsOf(i))[1]
<1>1. /\ DOMAIN cache' = UNION {RowsOf(i) : i \in inodes}
      /\ \A r \in DOMAIN cache' : cache'[r] = desc[Holder(r)].pid
      /\ sock' = sock
  BY DEF ReadTables, trackerVars, hookVars
<1>2. ASSUME NEW i \in inodes, NEW r \in RowsOf(i)
      PROVE  /\ desc[i[1]].proto # "ICMP"
             /\ r = PeerRow(i[1]) \/ (r = WildcardRow(i[1]) /\ WithoutPeer(i[1]))
  <2>1. i[1] \in Sockets
    BY DEF InodesUsed, Used
  <2> QED
    BY <1>2, <2>1, DescTyped DEF Rows, WithoutPeer
<1> SUFFICES ASSUME NEW r \in DOMAIN cache'
             PROVE  \E c \in Used : /\ cache'[r] = desc[c].pid /\ desc[c].proto # "ICMP"
                                    /\ r = PeerRow(c) \/ (r = WildcardRow(c) /\ WithoutPeer(c))
  BY <1>1 DEF CacheServed, Used
<1>3. \E i \in inodes : r \in RowsOf(i)
  BY <1>1
<1> DEFINE h == CHOOSE i \in inodes : r \in RowsOf(i)
<1>4. h \in inodes /\ r \in RowsOf(h) /\ Holder(r) = h[1]
  BY <1>3
<1> HIDE DEF h, RowsOf, Holder
<1>5. h[1] \in Used
  BY <1>4 DEF InodesUsed
<1> QED
  BY <1>1, <1>2, <1>4, <1>5

LEMMA ThreadStep ==
    ASSUME NoMirroredFlows, TrackerInv, TrackedAreUsed, ThreadInv, [Next]_vars
    PROVE  ThreadInv'
<1>1. [TrackerNext]_trackerVars
  BY EnrichmentStep
<1>2. Used \subseteq Used' /\ \A c \in Sockets : \A f : Served(c, f) => Served(c, f)'
  BY <1>1, UsedGrows DEF TrackerInv
<1>3. AnswerServed'
  BY <1>1, AnswerStep DEF ThreadInv
<1>4. ASSUME UNCHANGED cache PROVE CacheServed'
  BY <1>2, <1>4 DEF ThreadInv, CacheServed
<1>5. ASSUME inodes' = inodes \/ inodes' = {} PROVE InodesUsed'
  BY <1>2, <1>5 DEF ThreadInv, InodesUsed
<1>6. ASSUME DOMAIN conns' \subseteq DOMAIN conns, \A f \in DOMAIN conns' : conns'[f] = conns[f]
      PROVE  ShownServed'
  BY <1>2, <1>6 DEF ThreadInv, ShownServed
<1>7. CASE Refresh
  <2>1. \A i \in inodes' : i[1] \in Live
    BY <1>7 DEF Refresh
  <2>2. InodesUsed'
    BY <1>2, <2>1 DEF InodesUsed, Live
  <2> QED
    BY <1>3, <1>4, <1>6, <1>7, <2>2 DEF ThreadInv, Refresh
<1>8. CASE ReadTables
  <2>1. CacheServed'
    BY <1>8, ReadTablesStep DEF ThreadInv
  <2> QED
    BY <1>3, <1>5, <1>6, <1>8, <2>1 DEF ThreadInv, ReadTables
<1>9. CASE Fill
  <2>1. /\ Return /\ UNCHANGED <<inodes, cache>>
        /\ conns' = [conns EXCEPT ![ConnOf(flow)] = IF @ = NoPid
                        THEN IF answer # NoPid THEN answer ELSE procfs_lookup(flow) ELSE @]
    BY <1>9 DEF Fill
  <2>2. flow \in Flows
    BY <2>1 DEF Return, TrackerInv, CallTyped
  <2>3. ASSUME NEW r \in DOMAIN conns', conns'[r] # NoPid
        PROVE  \E c \in Sockets : desc[c].pid = conns'[r] /\ Served(c, r)
    <3>1. r \in DOMAIN conns
      BY <2>1
    <3>2. CASE conns'[r] = conns[r]
      BY <2>3, <3>1, <3>2 DEF ThreadInv, ShownServed
    <3>3. CASE conns'[r] # conns[r]
      <4>1. r = ConnOf(flow) /\ conns'[r] = IF answer # NoPid THEN answer ELSE procfs_lookup(flow)
        BY <2>1, <3>1, <3>3
      <4>2. CASE answer # NoPid
        BY <4>1, <4>2 DEF ThreadInv, AnswerServed
      <4>3. CASE answer = NoPid
        BY <2>2, <2>3, <4>1, <4>3, ProcfsIsServed DEF ThreadInv
      <4> QED
        BY <4>2, <4>3
    <3> QED
      BY <3>2, <3>3
  <2>4. ShownServed'
    BY <1>2, <2>3 DEF ShownServed
  <2> QED
    BY <1>3, <1>4, <1>5, <2>1, <2>4 DEF ThreadInv
<1>10. ASSUME NEW c \in Sockets, Appear(c)
       PROVE  ThreadInv'
  <2>1. /\ UNCHANGED <<inodes, cache>>
        /\ \E f \in FlowsOf(c) :
              conns' = [r \in DOMAIN conns \cup {ConnOf(f)} |-> IF r = ConnOf(f) THEN NoPid ELSE conns[r]]
    BY <1>10 DEF Appear
  <2>2. ASSUME NEW r \in DOMAIN conns', conns'[r] # NoPid
        PROVE  r \in DOMAIN conns /\ conns'[r] = conns[r]
    BY <2>1, <2>2
  <2>3. ShownServed'
    BY <1>2, <2>2 DEF ThreadInv, ShownServed
  <2> QED
    BY <1>3, <1>4, <1>5, <2>1, <2>3 DEF ThreadInv
<1>11. ASSUME NEW r \in DOMAIN conns, Leave(r)
       PROVE  ThreadInv'
  <2>1. /\ UNCHANGED <<inodes, cache>>
        /\ conns' = [g \in DOMAIN conns \ {r} |-> conns[g]]
    BY <1>11 DEF Leave
  <2> QED
    BY <1>3, <1>4, <1>5, <1>6, <2>1 DEF ThreadInv
<1>12. CASE UNCHANGED <<conns, inodes, cache>>
  BY <1>3, <1>4, <1>5, <1>6, <1>12 DEF ThreadInv
<1> QED
  BY <1>7, <1>8, <1>9, <1>10, <1>11, <1>12
  DEF Next, Enrichment, NoRefresh, Sleep, Visit, Echo, enrichVars, vars

\* For any sockets of which no two mirror each other's IPv6 peers, and any size of the
\* map: whatever is opened, closed and reused between the scan of the descriptors, the
\* reading of the tables, the lookup and the fill, a pid that is shown is served.
THEOREM ShownAreServed == NoMirroredFlows => (Spec => []ShownServed)
<1> SUFFICES ASSUME NoMirroredFlows PROVE Spec => []ShownServed
  OBVIOUS
<1>1. Init => ThreadInv
  BY DEF Init, TrackerInit, ThreadInv, CacheServed, InodesUsed, AnswerServed, ShownServed
<1>2. TrackerInv /\ TrackedAreUsed /\ ThreadInv /\ [Next]_vars => ThreadInv'
  BY ThreadStep
<1>3. ThreadInv => ShownServed
  BY DEF ThreadInv
<1> QED
  BY <1>1, <1>2, <1>3, EnrichmentInv, PTL DEF Spec
=============================================================================
