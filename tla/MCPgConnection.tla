--------------------------- MODULE MCPgConnection ---------------------------
(***************************************************************************)
(* Instances of PgConnection for TLC.                                      *)
(***************************************************************************)
EXTENDS PgConnection, TLC

Symmetry == Permutations(Requests)

\* Scripts without a COPY, with each kind of COPY, and with an error.
PlainScripts == {<<"ok">>, <<"ok", "err">>, <<"copyout">>, <<"ok", "copyin">>}

-----------------------------------------------------------------------------

OneRow ==
  /\ \A i \in DOMAIN down : i > 1 /\ down[i].t \in {"row", "data"} => down[i - 1].t # down[i].t
  /\ \A r \in Requests : kind[r] = "copyin" => Len(seen[r]) < MaxRows

OneKind ==
  \A r, s \in Requests : r # s => {kind[r], kind[s]} \cap {None, "execute"} # {}

\* The states explored further: those before a fault, with requests of any kinds
\* and up to MaxRows rows; those of a COPY that has lost a chunk with a dropped
\* write, on its own; and those after one fault, a lost link or an odd message,
\* with one row or one chunk of a writer and a request of any kind next to a plain
\* execute, which finds whatever the other left behind.
OneFault ==
  \/ linked /\ extra = 0 /\ \A r \in Requests : lost[r] > 0 => \A s \in Requests \ {r} : kind[s] = None
  \/ /\ OneRow /\ OneKind /\ (linked \/ extra = 0)
     /\ \A r \in Requests : lost[r] = 0
=============================================================================
