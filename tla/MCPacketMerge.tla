--------------------------- MODULE MCPacketMerge ---------------------------
(***************************************************************************)
(* Small instance of PacketMerge for TLC.                                  *)
(***************************************************************************)
EXTENDS PacketMergeProps

=============================================================================
