---------------------------- MODULE PacketMerge ----------------------------
(***************************************************************************)
(* merge_packet_into_connection of src/src/network/merge.rs: what later    *)
(* packets add to a tracked connection.  A connection is a TCP connection, *)
(* whose segments go into its analytics, or a UDP flow recognised as QUIC, *)
(* whose datagrams go into its QuicInfo.  The state of the TCP machine is  *)
(* in module TcpTracker.                                                   *)
(***************************************************************************)
EXTENDS TcpAnalytics, QuicMerge

VARIABLES
  protocol  \* of the connection

mergeVars == <<tcpVars, quicVars, protocol>>

Init ==
  /\ protocol \in {"TCP", "UDP"}
  /\ TcpInit
  /\ QuicInit

MergeTcp ==
  /\ protocol = "TCP"
  /\ TcpNext
  /\ UNCHANGED <<quicVars, protocol>>

MergeUdp ==
  /\ protocol = "UDP"
  /\ QuicNext
  /\ UNCHANGED <<tcpVars, protocol>>

Next == MergeTcp \/ MergeUdp

Spec == Init /\ [][Next]_mergeVars

=============================================================================
