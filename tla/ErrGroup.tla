------------------------------ MODULE ErrGroup ------------------------------
(***************************************************************************)
(* errgroup::Group (errgroup/errgroup.rs): a JoinSet of tasks behind a     *)
(* mutex, a semaphore when a limit is set, and wait, which consumes the    *)
(* group and returns the first error.                                      *)
(*                                                                         *)
(* Calls run concurrently: try_spawn takes its permit before it takes the  *)
(* lock.  A task of spawn takes its permit inside the task.  The permit is *)
(* dropped with the task's future, before the task can be joined.          *)
(* tokio's semaphore hands a permit that is released to the task that has  *)
(* waited longest; its JoinSet yields tasks in the order they complete.    *)
(***************************************************************************)
EXTENDS Naturals, Sequences, FiniteSets

CONSTANTS
  Members,  \* the closures that may be handed to the group
  Limits,   \* the limits set_limit is called with
  NoLimit,  \* sem is None
  None      \* no error (yet)

ASSUME ErrGroupAssumption ==
  /\ Limits \subseteq Nat
  /\ NoLimit \notin Nat
  /\ None \notin Members

VARIABLES
  limit,    \* what the semaphore was created with, or NoLimit
  permits,  \* its available permits
  queue,    \* the tasks waiting in acquire_owned, longest first
  pc,       \* where each task is
  holds,    \* the tasks that own a permit
  fate,     \* how a task's function ended
  set,      \* the completed tasks of the JoinSet, in order
  waiter,   \* the call of wait
  first,    \* first_error, named by its task
  failed    \* history: the tasks that completed with an error, in order

groupVars == <<limit, permits, queue, pc, holds, fate, set, waiter, first, failed>>

Outcomes == {"ok", "err", "panic"}

GroupTypeOK ==
  /\ limit \in Limits \cup {NoLimit}
  /\ permits \in Nat
  /\ queue \in Seq(Members)
  /\ pc \in [Members -> {"new", "try", "spawned", "queued", "run", "ended",
                         "complete", "joined", "aborted"}]
  /\ holds \subseteq Members
  /\ fate \in [Members -> Outcomes \cup {"none"}]
  /\ set \in Seq(Members)
  /\ waiter \in {"none", "waiting", "returned", "dropped"}
  /\ first \in Members \cup {None}
  /\ failed \in Seq(Members)

GroupInit ==
  /\ limit = NoLimit
  /\ permits = 0
  /\ queue = <<>>
  /\ pc = [t \in Members |-> "new"]
  /\ holds = {}
  /\ fate = [t \in Members |-> "none"]
  /\ set = <<>>
  /\ waiter = "none"
  /\ first = None
  /\ failed = <<>>

\* Tasks of the JoinSet that have not been joined.
InSet == {t \in Members : pc[t] \in {"spawned", "queued", "run", "ended", "complete"}}

\* Tasks that are still at work, for set_limit's "while any tasks are active".
Active == {t \in Members : pc[t] \in {"try", "spawned", "queued", "run"}}

-----------------------------------------------------------------------------

\* set_limit: &mut self, and the caller keeps to its doc.
SetLimit(n) ==
  /\ waiter = "none" /\ Active = {}
  /\ limit' = n /\ permits' = n
  /\ UNCHANGED <<queue, pc, holds, fate, set, waiter, first, failed>>

Spawn(t) ==
  /\ waiter = "none"
  /\ pc[t] = "new"
  /\ pc' = [pc EXCEPT ![t] = "spawned"]
  /\ UNCHANGED <<limit, permits, queue, holds, fate, set, waiter, first, failed>>

\* The first poll of the task: acquire_owned, in turn.
Acquire(t) ==
  /\ pc[t] = "spawned"
  /\ IF limit # NoLimit /\ permits = 0
     THEN /\ pc' = [pc EXCEPT ![t] = "queued"]
          /\ queue' = Append(queue, t)
          /\ UNCHANGED <<permits, holds>>
     ELSE /\ pc' = [pc EXCEPT ![t] = "run"]
          /\ permits' = IF limit = NoLimit THEN permits ELSE permits - 1
          /\ holds' = IF limit = NoLimit THEN holds ELSE holds \cup {t}
          /\ UNCHANGED queue
  /\ UNCHANGED <<limit, fate, set, waiter, first, failed>>

\* try_spawn: try_acquire_owned; it returns false, and nothing changes, if
\* there is no permit.
TryAcquire(t) ==
  /\ waiter = "none"
  /\ pc[t] = "new"
  /\ limit # NoLimit => permits > 0
  /\ pc' = [pc EXCEPT ![t] = "try"]
  /\ permits' = IF limit = NoLimit THEN permits ELSE permits - 1
  /\ holds' = IF limit = NoLimit THEN holds ELSE holds \cup {t}
  /\ UNCHANGED <<limit, queue, fate, set, waiter, first, failed>>

\* try_spawn: the task joins the set with its permit.
TrySpawn(t) ==
  /\ pc[t] = "try"
  /\ pc' = [pc EXCEPT ![t] = "run"]
  /\ UNCHANGED <<limit, permits, queue, holds, fate, set, waiter, first, failed>>

-----------------------------------------------------------------------------

\* The future of task t is dropped, and with it the permit it owns, which goes
\* to the task at the head of the queue.
Release(t) ==
  LET next == Head(queue) IN
  IF t \in holds /\ queue # <<>>
  THEN /\ pc' = [pc EXCEPT ![t] = "ended", ![next] = "run"]
       /\ holds' = (holds \ {t}) \cup {next}
       /\ queue' = Tail(queue)
       /\ UNCHANGED permits
  ELSE /\ pc' = [pc EXCEPT ![t] = "ended"]
       /\ holds' = holds \ {t}
       /\ permits' = IF t \in holds THEN permits + 1 ELSE permits
       /\ UNCHANGED queue

\* Mutant: a task that panics keeps its permit.
FinishUnlessPanic(t, o) ==
  /\ pc[t] = "run"
  /\ fate' = [fate EXCEPT ![t] = o]
  /\ IF o = "panic"
     THEN pc' = [pc EXCEPT ![t] = "ended"] /\ UNCHANGED <<permits, holds, queue>>
     ELSE Release(t)
  /\ UNCHANGED <<limit, set, waiter, first, failed>>

\* f().await is over: a result, or a panic.
Finish(t, o) ==
  /\ pc[t] = "run"
  /\ fate' = [fate EXCEPT ![t] = o]
  /\ Release(t)
  /\ UNCHANGED <<limit, set, waiter, first, failed>>

\* tokio reports the task to its JoinSet.
Complete(t) ==
  /\ pc[t] = "ended"
  /\ pc' = [pc EXCEPT ![t] = "complete"]
  /\ set' = Append(set, t)
  /\ failed' = IF fate[t] = "err" THEN Append(failed, t) ELSE failed
  /\ UNCHANGED <<limit, permits, queue, holds, fate, waiter, first>>

-----------------------------------------------------------------------------

\* wait takes the group: no other call is under way.
Wait ==
  /\ waiter = "none"
  /\ \A t \in Members : pc[t] # "try"
  /\ waiter' = "waiting"
  /\ UNCHANGED <<limit, permits, queue, pc, holds, fate, set, first, failed>>

\* Mutant: the last error wins.
JoinNextLast ==
  /\ waiter = "waiting" /\ set # <<>>
  /\ first' = IF fate[Head(set)] = "err" THEN Head(set) ELSE first
  /\ pc' = [pc EXCEPT ![Head(set)] = "joined"]
  /\ set' = Tail(set)
  /\ UNCHANGED <<limit, permits, queue, holds, fate, waiter, failed>>

\* Mutant: the loop stops joining once it holds an error.
JoinNextUntilError ==
  /\ waiter = "waiting" /\ set # <<>> /\ first = None
  /\ first' = IF fate[Head(set)] = "err" THEN Head(set) ELSE first
  /\ pc' = [pc EXCEPT ![Head(set)] = "joined"]
  /\ set' = Tail(set)
  /\ UNCHANGED <<limit, permits, queue, holds, fate, waiter, failed>>

\* One round of wait's loop.
JoinNext ==
  /\ waiter = "waiting" /\ set # <<>>
  /\ first' = IF fate[Head(set)] = "err" /\ first = None THEN Head(set) ELSE first
  /\ pc' = [pc EXCEPT ![Head(set)] = "joined"]
  /\ set' = Tail(set)
  /\ UNCHANGED <<limit, permits, queue, holds, fate, waiter, failed>>

\* join_next returns None: the set is empty.
Return ==
  /\ waiter = "waiting" /\ InSet = {}
  /\ waiter' = "returned"
  /\ UNCHANGED <<limit, permits, queue, pc, holds, fate, set, first, failed>>

\* The group, or the future of wait, is dropped: the JoinSet aborts its tasks
\* and their permits are dropped with them.
Drop ==
  /\ waiter \in {"none", "waiting"}
  /\ \A t \in Members : pc[t] # "try"
  /\ waiter' = "dropped"
  /\ pc' = [t \in Members |-> IF t \in InSet THEN "aborted" ELSE pc[t]]
  /\ permits' = IF limit = NoLimit THEN permits ELSE limit
  /\ holds' = {} /\ queue' = <<>> /\ set' = <<>>
  /\ UNCHANGED <<limit, fate, first, failed>>

-----------------------------------------------------------------------------

GroupTaskStep(t) == Acquire(t) \/ TrySpawn(t) \/ Complete(t) \/ \E o \in Outcomes : Finish(t, o)

GroupNext ==
  \/ \E n \in Limits : SetLimit(n)
  \/ \E t \in Members : Spawn(t) \/ TryAcquire(t) \/ GroupTaskStep(t)
  \/ Wait \/ JoinNext \/ Return \/ Drop

GroupSpec == GroupInit /\ [][GroupNext]_groupVars

\* The runtime runs every task that can run, and the tasks' functions end.
GroupFairness ==
  /\ \A t \in Members : WF_groupVars(GroupTaskStep(t))
  /\ WF_groupVars(JoinNext \/ Return)

GroupFairSpec == GroupSpec /\ GroupFairness

-----------------------------------------------------------------------------

\* At most limit functions run at a time, and no slot is lost: every permit is
\* free or owned by a task whose function has yet to end, so a success, a
\* failure and a panic alike have given theirs back (errgroup.rs:129-136,
\* 159-163).
LimitHolds ==
  /\ limit # NoLimit => permits + Cardinality(holds) = limit
  /\ \A t \in Members : pc[t] = "run" /\ limit # NoLimit => t \in holds
  /\ \A t \in holds : pc[t] \in {"try", "run"}

\* "When all tasks finish, [`wait`] returns that error" (errgroup.rs:4): when
\* wait returns, every task of the group is over, and its result is the error
\* of the first task that completed with one, Ok if none did; a panic counts
\* for nothing.
FirstErrorReturned ==
  waiter = "returned" =>
    /\ \A t \in Members : pc[t] \in {"new", "joined"}
    /\ first = IF failed = <<>> THEN None ELSE Head(failed)

\* wait returns, unless the limit is 0 or its future is dropped.
WaitReturns == (waiter = "waiting") ~> (waiter # "waiting" \/ limit = 0)
=============================================================================
