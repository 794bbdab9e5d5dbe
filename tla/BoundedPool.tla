---------------------------- MODULE BoundedPool ----------------------------
(***************************************************************************)
(* What postgresql::Pool promises its users, without the machinery: a      *)
(* fixed set of permits, each free, parked with an idle connection or      *)
(* owned by one user; a user owns at most one; once the pool is drained    *)
(* nothing is parked any more, so nothing is reused.                       *)
(***************************************************************************)
CONSTANTS Users, Permits

VARIABLES
  owner,    \* "free", "idle" or the user that owns the permit
  drained   \* close has emptied the pool

vars == <<owner, drained>>

Init == owner = [p \in Permits |-> "free"] /\ drained = FALSE

Owned(u) == {p \in Permits : owner[p] = u}

\* The owner map with the permits of F freed.
Freeing(F) == [p \in Permits |-> IF p \in F THEN "free" ELSE owner[p]]

\* The pool opens a connection ahead of demand, or takes one back.
Park(p) ==
  /\ owner[p] # "idle" /\ ~drained
  /\ owner' = [owner EXCEPT ![p] = "idle"]
  /\ UNCHANGED drained

\* A user that owns nothing takes a free permit to open a connection.
Reserve(u, p) ==
  /\ Owned(u) = {} /\ owner[p] = "free"
  /\ owner' = [owner EXCEPT ![p] = u]
  /\ UNCHANGED drained

\* A user is lent an idle connection.  The permit it had reserved, and idle
\* connections found broken on the way, are freed.
Lend(u, p) ==
  /\ owner[p] = "idle" /\ ~drained
  /\ \E F \in SUBSET (Owned("idle") \ {p}) :
       owner' = [Freeing(F \cup Owned(u)) EXCEPT ![p] = u]
  /\ UNCHANGED drained

\* A user gives its permit up: its connection was never opened or is dropped.
Discard(u) ==
  /\ owner' = Freeing(Owned(u))
  /\ UNCHANGED drained

\* Idle connections are dropped.
Evict ==
  /\ \E F \in SUBSET Owned("idle") : owner' = Freeing(F)
  /\ UNCHANGED drained

Drain ==
  /\ owner' = Freeing(Owned("idle"))
  /\ drained' = TRUE

Next ==
  \/ \E p \in Permits :
       Park(p) \/ \E u \in Users : Reserve(u, p) \/ Lend(u, p)
  \/ \E u \in Users : Discard(u)
  \/ Evict \/ Drain

Spec == Init /\ [][Next]_vars
=============================================================================
