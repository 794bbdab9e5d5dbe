---------------------------- MODULE MCPgSession ----------------------------
(***************************************************************************)
(* Small instances of PgStatementCache and PgTransaction for TLC: what the *)
(* server keeps for one connection between requests, the statements it has *)
(* prepared and the transaction it is in.  Neither looks at the other: a   *)
(* behaviour is one of either, and the other one stays as it begins.       *)
(***************************************************************************)
EXTENDS PgStatementCache, PgTransaction, TLC

VARIABLE unit

\* Four statements, two of which have the same hash.
FourSqls == {"a", "b", "c", "d"}
CollidingHash == [q \in FourSqls |-> IF q = "d" THEN "a" ELSE q]

Symmetry == Permutations(Sessions)

SessionInit ==
  \/ unit = "statements" /\ CacheInit /\ Init
  \/ unit = "transactions" /\ CacheInit /\ size = 0 /\ Init

SessionNext ==
  \/ unit = "statements" /\ CacheNext /\ UNCHANGED <<unit, vars>>
  \/ unit = "transactions" /\ Next /\ UNCHANGED <<unit, cacheVars>>

SessionSpec == SessionInit /\ [][SessionNext]_<<unit, cacheVars, vars>>
=============================================================================
