-------------------------- MODULE MCPgTransaction --------------------------
(***************************************************************************)
(* Instances of PgTransaction for TLC.                                     *)
(***************************************************************************)
EXTENDS PgTransaction, TLC

Symmetry == Permutations(Sessions)
=============================================================================
