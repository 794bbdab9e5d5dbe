------------------------------- MODULE MCTasks ------------------------------
(***************************************************************************)
(* Small instances of Scheduler and ErrGroup for TLC, the two crates that  *)
(* spawn tasks, bound how many of them run, and wait for them.  They do    *)
(* not use each other: a behaviour is one of either; the other one is idle *)
(* (no jobs) or over (an empty group was awaited).                         *)
(***************************************************************************)
EXTENDS Scheduler, ErrGroup

VARIABLE unit

GroupOver ==
  /\ limit = NoLimit /\ permits = 0 /\ queue = <<>> /\ holds = {} /\ set = <<>>
  /\ pc = [t \in Members |-> "new"] /\ fate = [t \in Members |-> "none"]
  /\ waiter = "returned" /\ first = None /\ failed = <<>>

TasksInit ==
  \/ unit = "scheduler" /\ Init /\ GroupOver
  \/ unit = "errgroup" /\ Init /\ GroupInit

TasksNext ==
  \/ unit = "scheduler" /\ Next /\ UNCHANGED <<unit, groupVars>>
  \/ unit = "errgroup" /\ GroupNext /\ UNCHANGED <<unit, vars>>

\* The fairness of either specification: nothing of the idle one is enabled.
TasksSpec ==
  /\ TasksInit /\ [][TasksNext]_<<unit, vars, groupVars>>
  /\ Fairness /\ GroupFairness
=============================================================================
