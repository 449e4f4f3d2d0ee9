-------------------------- MODULE MCSnapshotView --------------------------
(***************************************************************************)
(* Small instances of SnapshotView for TLC.                                *)
(***************************************************************************)
EXTENDS SnapshotViewProps, TLC

(* What the invariants of the safety run, and the steps, depend on: known, *)
(* missed and clearedUpTo are only remembered for the other properties.    *)
SafetyView == <<vars, view_vars, steady>>

=============================================================================
