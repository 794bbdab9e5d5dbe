------------------------------ MODULE MCPgPool ------------------------------
(* Small instances of PgPool for TLC.                                      *)
EXTENDS PgPool, TLC

\* Callers and permits are interchangeable; only for runs without liveness.
Symmetry == Permutations(Callers) \cup Permutations(Permits)
=============================================================================
