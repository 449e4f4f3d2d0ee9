---------------------------- MODULE MCConnTable ----------------------------
(***************************************************************************)
(* Small instances of ConnTable for TLC.                                   *)
(***************************************************************************)
EXTENDS ConnTableProps, TLC

Symmetry == Permutations(Procs) \union Permutations(Keys) \union Permutations(Cids)

=============================================================================
