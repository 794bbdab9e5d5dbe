------------------------------ MODULE MCCalls ------------------------------
(***************************************************************************)
(* Small instances of SingleFlight and PgCancel for TLC: what becomes of   *)
(* the others when the future of one call is dropped.  They do not use     *)
(* each other: a behaviour is one of either, and the other one stays as it *)
(* begins.                                                                 *)
(***************************************************************************)
EXTENDS SingleFlight, PgCancel

VARIABLE unit

CallsInit == unit \in {"singleflight", "cancel"} /\ FlightInit /\ CancelInit

CallsNext ==
  \/ unit = "singleflight" /\ FlightNext /\ UNCHANGED <<unit, cancelVars>>
  \/ unit = "cancel" /\ CancelNext /\ UNCHANGED <<unit, flightVars>>

\* The fairness of either specification: nothing it asks for is enabled in the
\* one that stays as it begins.
CallsSpec ==
  /\ CallsInit /\ [][CallsNext]_<<unit, flightVars, cancelVars>>
  /\ FlightFairness /\ CancelFairness
=============================================================================
