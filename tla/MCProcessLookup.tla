--------------------------- MODULE MCProcessLookup ---------------------------
(***************************************************************************)
(* Sockets for TLC: two processes, sockets that share ports and peers so   *)
(* that a port is used again by the other process, IPv4, IPv6 and both     *)
(* (dual-stack), the three protocols, and each way of giving a             *)
(* destination.  udp1 is bound first and connected later, so for a while   *)
(* its row has no peer; the two IPv4 pings share a connection.             *)
(***************************************************************************)
EXTENDS ProcessLookupProps

Socket(pid, proto, family, role, dest, bound) ==
    [pid |-> pid, proto |-> proto, family |-> family, role |-> role, dest |-> dest,
     bound |-> bound, local |-> <<1, 2>>, num |-> IF role = "server" THEN <<0, 8>> ELSE <<5, 6>>,
     remote |-> <<3, 4>>, rport |-> IF role = "server" THEN <<7, 9>> ELSE <<0, 8>>]

Names == {"tcp1", "tcp2", "listener", "tcp6", "udp1", "udp2", "udp6", "ping", "ping6",
          "dual", "tcp46", "udp46", "pong", "listener6"}
Table == [c \in Names |->
    CASE c = "tcp1"     -> Socket(1, "TCP", "inet", "client", "connected", FALSE)
      [] c = "tcp2"     -> Socket(2, "TCP", "inet", "client", "connected", FALSE)
      [] c = "listener" -> Socket(1, "TCP", "inet", "server", "connected", FALSE)
      [] c = "tcp6"     -> Socket(2, "TCP", "inet6", "client", "connected", TRUE)
      [] c = "udp1"     -> [Socket(1, "UDP", "inet", "client", "connected", TRUE)
                               EXCEPT !.remote = <<3, 5>>]
      [] c = "udp2"     -> Socket(2, "UDP", "inet", "client", "name", FALSE)
      [] c = "udp6"     -> Socket(1, "UDP", "inet6", "client", "name", FALSE)
      [] c = "ping"     -> Socket(1, "ICMP", "inet", "client", "name", FALSE)
      [] c = "ping6"    -> Socket(2, "ICMP", "inet6", "client", "connected", TRUE)
      [] c = "pong"     -> [Socket(2, "ICMP", "inet", "client", "connected", FALSE) EXCEPT !.num = <<5, 7>>]
      [] c = "listener6" -> Socket(1, "TCP", "inet6", "server", "connected", FALSE)
      [] c = "dual"     -> Socket(2, "TCP", "dual", "server", "connected", FALSE)
      [] c = "tcp46"    -> Socket(2, "TCP", "dual", "client", "connected", FALSE)
      [] c = "udp46"    -> Socket(2, "UDP", "dual", "client", "connected", TRUE)]

\* For the owners of flows: an IPv4 and a dual-stack client with one four-tuple, listeners
\* on one port for IPv6 and for an IPv4 client of [::], UDP with and without a peer, and
\* two pings with one connection.
Kinds == {"tcp1", "tcp46", "listener6", "dual", "udp1", "udp2", "ping", "pong"}
KindTable == [c \in Kinds |-> Table[c]]

\* TLC evaluates the tables once, and these wherever the constants occur.
MCSockets == Names
MCdesc == Table
OwnerSockets == Kinds
OwnerDesc == KindTable
=============================================================================
