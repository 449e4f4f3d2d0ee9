------------------------- MODULE MCCapturePipeline -------------------------
(***************************************************************************)
(* Small instances of CapturePipeline for TLC.                             *)
(***************************************************************************)
EXTENDS CapturePipelineProps

=============================================================================
