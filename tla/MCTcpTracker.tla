---------------------------- MODULE MCTcpTracker ----------------------------
(***************************************************************************)
(* Small instances of TcpTracker for TLC.                                  *)
(***************************************************************************)
EXTENDS TcpTrackerProps

=============================================================================
