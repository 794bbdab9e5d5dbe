------------------------------ MODULE TasksProofs ----------------------------
(***************************************************************************)
(* Theorems about Scheduler, ErrGroup and SingleFlight, the crates that    *)
(* run tasks side by side, bound how many of them run, and wait for them.  *)
(*                                                                         *)
(* Scheduler, for every number of jobs, loops, tasks, callers of stop and  *)
(* retries: FlagHasOwner is inductive once every task is known to be one   *)
(* of a job and every loop to stand at one (IInv); NoOverlap follows from  *)
(* it, and so does, with WInv, that a graceful stop waits.                 *)
(*                                                                         *)
(* ErrGroup, for every set of tasks and limits: that the permits are       *)
(* accounted for is inductive once it is known who may own one (Owners)    *)
(* and who waits for one (Waiting): a permit that is handed on goes to a   *)
(* task that has none (GInv).                                              *)
(*                                                                         *)
(* SingleFlight, for every number of callers and keys: FlightInv.          *)
(***************************************************************************)
EXTENDS Scheduler, ErrGroup, SingleFlight, FiniteSetTheorems, TLAPS

\* A task has a job, and a loop that scans the jobs stands at one of them.
InRange ==
  /\ \A t \in Tasks : task[t].pc # "none" => task[t].job \in Jobs
  /\ \A l \in Loops : IF loop[l].pc \in Scanning THEN loop[l].at \in 1..jobs
                                                 ELSE loop[l].at = 1

IInv == TypeOK /\ InRange /\ FlagHasOwner

LEMMA InitIInv == Init => IInv
<1> SUFFICES ASSUME Init PROVE IInv
  OBVIOUS
<1> USE SchedulerAssumption
<1>1. TypeOK
  <2>1. /\ Idle \in [pc : {"none", "sleep"} \cup Scanning, at : Nat]
        /\ Idle \in [pc : {"none", "poll", "nap"}, at : Nat]
    BY DEF Idle
  <2>2. NoTask \in [pc : {"none", "spawned", "exec", "clear", "resched"},
                    job : 0..MaxJobs, tries : 0..Retries]
    BY DEF NoTask
  <2>3. jobs \in 0..MaxJobs /\ due \in SUBSET Jobs /\ flag \in [Jobs -> BOOLEAN]
    BY DEF Init
  <2> QED
    BY <2>1, <2>2, <2>3 DEF Init, TypeOK
<1>2. InRange
  BY DEF Init, InRange, Idle, NoTask, Scanning, Jobs, Loops, Tasks
<1>3. FlagHasOwner
  BY DEF Init, FlagHasOwner, Marked, NoTask
<1> QED
  BY <1>1, <1>2, <1>3 DEF IInv

-----------------------------------------------------------------------------
(* The steps that leave the tasks and the flags alone. *)

LEMMA OwnersUnchanged ==
  ASSUME FlagHasOwner, UNCHANGED <<task, flag>> PROVE FlagHasOwner'
  BY DEF FlagHasOwner, Marked

LEMMA AddJobStep == ASSUME IInv, AddJob PROVE IInv'
<1> USE SchedulerAssumption
<1>1. TypeOK'
  BY DEF IInv, TypeOK, AddJob
<1>2. InRange'
  BY DEF IInv, TypeOK, InRange, AddJob
<1> QED
  BY <1>1, <1>2, OwnersUnchanged DEF IInv, AddJob

LEMMA RunStep == ASSUME IInv, NEW l \in Loops, Run(l) PROVE IInv'
<1>1. TypeOK'
  BY DEF IInv, TypeOK, Run
<1>2. InRange'
  BY DEF IInv, TypeOK, InRange, Run, Scanning
<1> QED
  BY <1>1, <1>2, OwnersUnchanged DEF IInv, Run

LEMMA TestStep == ASSUME IInv, NEW l \in Loops, Test(l) PROVE IInv'
<1> USE SchedulerAssumption
<1>1. TypeOK'
  BY DEF IInv, TypeOK, Test, Scanning
<1>2. InRange'
  BY DEF IInv, TypeOK, InRange, Test, Scanning
<1> QED
  BY <1>1, <1>2, OwnersUnchanged DEF IInv, Test

\* Where a loop goes after a job is a place it may be.
LEMMA OnwardInRange ==
  ASSUME IInv, NEW l \in Loops, loop[l].pc \in Scanning
  PROVE  /\ Onward(l) \in [pc : {"none", "sleep"} \cup Scanning, at : Nat]
         /\ IF Onward(l).pc \in Scanning THEN Onward(l).at \in 1..jobs ELSE Onward(l).at = 1
  BY SchedulerAssumption DEF IInv, TypeOK, InRange, Onward, Scanning

LEMMA IsPendingStep == ASSUME IInv, NEW l \in Loops, IsPending(l) PROVE IInv'
<1>0. loop[l].pc \in Scanning
  BY DEF IsPending, Scanning
<1>1. TypeOK'
  BY <1>0, OnwardInRange DEF IInv, TypeOK, IsPending, Scanning
<1>2. InRange'
  BY <1>0, OnwardInRange DEF IInv, TypeOK, InRange, IsPending, Scanning
<1> QED
  BY <1>1, <1>2, OwnersUnchanged DEF IInv, IsPending

LEMMA TickStep == ASSUME IInv, NEW j \in Jobs, Tick(j) PROVE IInv'
<1>1. TypeOK'
  BY DEF IInv, TypeOK, Tick
<1>2. InRange'
  BY DEF IInv, InRange, Tick
<1> QED
  BY <1>1, <1>2, OwnersUnchanged DEF IInv, Tick

LEMMA StopStep ==
  ASSUME IInv, NEW u \in Users, NEW graceful \in BOOLEAN, Stop(u, graceful) PROVE IInv'
<1> USE SchedulerAssumption
<1>1. TypeOK'
  <2>1. PollFrom(1) \in [pc : {"none", "poll", "nap"}, at : Nat]
    BY DEF PollFrom, Idle
  <2>2. UNION {Executing(j) : j \in Jobs} \subseteq Tasks
    BY DEF Executing
  <2>3. user' \in [Users -> [pc : {"none", "poll", "nap"}, at : Nat]]
    BY <2>1 DEF IInv, TypeOK, Stop
  <2>4. owed' \in [Users -> SUBSET Tasks]
    BY <2>2 DEF IInv, TypeOK, Stop
  <2> QED
    BY <2>3, <2>4 DEF IInv, TypeOK, Stop
<1>2. InRange'
  BY DEF IInv, InRange, Stop
<1> QED
  BY <1>1, <1>2, OwnersUnchanged DEF IInv, Stop

LEMMA UserStepStep == ASSUME IInv, NEW u \in Users, UserStep(u) PROVE IInv'
<1>1. TypeOK'
  BY DEF IInv, TypeOK, UserStep, Poll, Nap, PollFrom, Idle
<1>2. InRange'
  BY DEF IInv, InRange, UserStep, Poll, Nap
<1> QED
  BY <1>1, <1>2, OwnersUnchanged DEF IInv, UserStep, Poll, Nap

-----------------------------------------------------------------------------
(* The steps of a loop that spawns and of the tasks. *)

LEMMA CheckStep == ASSUME IInv, NEW l \in Loops, Check(l) PROVE IInv'
<1> USE SchedulerAssumption
<1>0. loop[l].pc \in Scanning
  BY DEF Check, Scanning
<1>1. loop[l].at \in Jobs
  BY <1>0 DEF IInv, TypeOK, InRange, Jobs
<1>2. CASE flag[loop[l].at]
  <2>1. UNCHANGED <<running, jobs, due, flag, user, task, owed>>
    BY <1>2 DEF Check
  <2>2. TypeOK'
    BY <1>0, <2>1, OnwardInRange DEF IInv, TypeOK, Check
  <2>3. InRange'
    BY <1>0, <2>1, OnwardInRange DEF IInv, TypeOK, InRange, Check
  <2> QED
    BY <2>1, <2>2, <2>3, OwnersUnchanged DEF IInv
<1>3. CASE ~flag[loop[l].at]
  <2>1. PICK t \in Tasks :
          /\ task[t].pc = "none"
          /\ task' = [task EXCEPT ![t] = [pc |-> "spawned", job |-> loop[l].at, tries |-> 0]]
    BY <1>3 DEF Check
  <2> DEFINE new == [pc |-> "spawned", job |-> loop[l].at, tries |-> 0]
  <2>2. new \in [pc : {"none", "spawned", "exec", "clear", "resched"},
                 job : 0..MaxJobs, tries : 0..Retries]
        /\ new.pc = "spawned" /\ new.job = loop[l].at
    BY <1>1 DEF Jobs
  <2>3. task' = [task EXCEPT ![t] = new]
    BY <2>1
  <2> HIDE DEF new
  <2>4. TypeOK'
    BY <1>0, <2>2, <2>3, OnwardInRange DEF IInv, TypeOK, Check
  <2>5. InRange'
    <3>1. \A s \in Tasks : task'[s].pc # "none" => task'[s].job \in Jobs
      BY <1>1, <2>2, <2>3 DEF IInv, TypeOK, InRange
    <3> QED
      BY <1>0, <3>1, OnwardInRange DEF IInv, TypeOK, InRange, Check
  <2>6. \A j \in Jobs : Marked(j)' = Marked(j)
    BY <2>1, <2>2, <2>3 DEF IInv, TypeOK, Marked
  <2>7. FlagHasOwner'
    BY <2>6 DEF IInv, FlagHasOwner, Check
  <2> QED
    BY <2>4, <2>5, <2>7 DEF IInv
<1> QED
  BY <1>2, <1>3

LEMMA SetRunningStep == ASSUME IInv, NEW t \in Tasks, SetRunning(t) PROVE IInv'
<1>0. task[t].job \in Jobs
  BY DEF IInv, InRange, SetRunning
<1>1. TypeOK'
  BY <1>0 DEF IInv, TypeOK, SetRunning
<1>2. InRange'
  BY <1>0 DEF IInv, TypeOK, InRange, SetRunning
<1>3. FlagHasOwner'
  <2> SUFFICES ASSUME NEW j \in Jobs
               PROVE  (Marked(j)' # {} => flag'[j]) /\ \A r, s \in Marked(j)' : r = s
    BY DEF FlagHasOwner
  <2>1. CASE j # task[t].job
    <3>1. Marked(j)' = Marked(j) /\ flag'[j] = flag[j]
      BY <2>1 DEF IInv, TypeOK, SetRunning, Marked
    <3> QED
      BY <3>1 DEF IInv, FlagHasOwner
  <2>2. CASE j = task[t].job /\ flag[j]
    <3>1. Marked(j)' = Marked(j)
      BY <2>2 DEF IInv, TypeOK, SetRunning, Marked
    <3>2. flag'[j]
      BY <2>2 DEF IInv, TypeOK, SetRunning
    <3> QED
      BY <3>1, <3>2 DEF IInv, FlagHasOwner
  <2>3. CASE j = task[t].job /\ ~flag[j]
    <3>1. Marked(j) = {}
      BY <2>3 DEF IInv, FlagHasOwner
    <3>2. Marked(j)' \subseteq {t}
      BY <2>3, <3>1 DEF IInv, TypeOK, SetRunning, Marked
    <3>3. flag'[j]
      BY <2>3 DEF IInv, TypeOK, SetRunning
    <3> QED
      BY <3>2, <3>3
  <2> QED
    BY <2>1, <2>2, <2>3
<1> QED
  BY <1>1, <1>2, <1>3 DEF IInv

\* Executions end; the flag is still set, and so is its owner.
LEMMA FunctionStep ==
  ASSUME IInv, NEW t \in Tasks, Succeed(t) \/ Fail(t) \/ Panic(t) PROVE IInv'
<1> USE SchedulerAssumption
<1>1. TypeOK'
  <2>1. CASE Succeed(t)
    <3>1. owed' \in [Users -> SUBSET Tasks]
      BY <2>1 DEF IInv, TypeOK, Succeed, Ended, Over
    <3>2. task' \in [Tasks -> [pc : {"none", "spawned", "exec", "clear", "resched"},
                               job : 0..MaxJobs, tries : 0..Retries]]
      BY <2>1 DEF IInv, TypeOK, Succeed, Ended
    <3> QED
      BY <2>1, <3>1, <3>2 DEF IInv, TypeOK, Succeed, Ended
  <2>2. CASE Fail(t)
    <3>1. owed' \in [Users -> SUBSET Tasks]
      BY <2>2 DEF IInv, TypeOK, Fail, Ended, Over
    <3>2. task' \in [Tasks -> [pc : {"none", "spawned", "exec", "clear", "resched"},
                               job : 0..MaxJobs, tries : 0..Retries]]
      BY <2>2 DEF IInv, TypeOK, Fail, Ended
    <3> QED
      BY <2>2, <3>1, <3>2 DEF IInv, TypeOK, Fail, Ended
  <2>3. CASE Panic(t)
    BY <2>3 DEF IInv, TypeOK, Panic, Over, NoTask
  <2> QED
    BY <2>1, <2>2, <2>3
<1>2. InRange'
  <2>1. CASE Succeed(t)
    BY <2>1 DEF IInv, TypeOK, InRange, Succeed, Ended, NoTask
  <2>2. CASE Fail(t)
    <3>1. \A u \in Tasks : task'[u].job = task[u].job /\ (task'[u].pc # "none" => task[u].pc # "none")
      BY <2>2 DEF IInv, TypeOK, Fail, Ended
    <3> QED
      BY <2>2, <3>1 DEF IInv, InRange, Fail
  <2>3. CASE Panic(t)
    BY <2>3 DEF IInv, TypeOK, InRange, Panic, NoTask
  <2> QED
    BY <2>1, <2>2, <2>3
<1>3. /\ \A j \in Jobs : Marked(j)' \subseteq Marked(j)
      /\ flag' = flag
  BY DEF IInv, TypeOK, Succeed, Fail, Panic, Ended, Marked, NoTask
<1>4. FlagHasOwner'
  BY <1>3 DEF IInv, FlagHasOwner
<1> QED
  BY <1>1, <1>2, <1>4 DEF IInv

\* The flag is reset by its owner, and nobody else is marked then.
LEMMA ClearStep == ASSUME IInv, NEW t \in Tasks, Clear(t) PROVE IInv'
<1>0. task[t].job \in Jobs /\ t \in Marked(task[t].job)
  BY DEF IInv, InRange, Clear, Marked
<1>1. TypeOK'
  BY <1>0 DEF IInv, TypeOK, Clear
<1>2. InRange'
  BY <1>0 DEF IInv, TypeOK, InRange, Clear
<1>3. FlagHasOwner'
  <2> SUFFICES ASSUME NEW j \in Jobs
               PROVE  (Marked(j)' # {} => flag'[j]) /\ \A r, s \in Marked(j)' : r = s
    BY DEF FlagHasOwner
  <2>1. Marked(j)' = Marked(j) \ {t}
    BY DEF IInv, TypeOK, Clear, Marked
  <2>2. CASE j # task[t].job
    <3>1. flag'[j] = flag[j]
      BY <2>2 DEF IInv, TypeOK, Clear
    <3> QED
      BY <2>1, <3>1 DEF IInv, FlagHasOwner
  <2>3. CASE j = task[t].job
    <3>1. Marked(j)' = {}
      BY <1>0, <2>1, <2>3 DEF IInv, FlagHasOwner
    <3> QED
      BY <3>1
  <2> QED
    BY <2>2, <2>3
<1> QED
  BY <1>1, <1>2, <1>3 DEF IInv

LEMMA RescheduleStep == ASSUME IInv, NEW t \in Tasks, Reschedule(t) PROVE IInv'
<1> USE SchedulerAssumption
<1>1. TypeOK'
  BY DEF IInv, TypeOK, Reschedule, NoTask
<1>2. InRange'
  BY DEF IInv, TypeOK, InRange, Reschedule, NoTask
<1>3. \A j \in Jobs : Marked(j)' \subseteq Marked(j)
  BY DEF IInv, TypeOK, Reschedule, Marked, NoTask
<1>4. FlagHasOwner'
  BY <1>3 DEF IInv, FlagHasOwner, Reschedule
<1> QED
  BY <1>1, <1>2, <1>4 DEF IInv

-----------------------------------------------------------------------------

LEMMA NextIInv == IInv /\ [Next]_vars => IInv'
<1> SUFFICES ASSUME IInv, [Next]_vars PROVE IInv'
  OBVIOUS
<1>1. CASE AddJob
  BY <1>1, AddJobStep
<1>2. ASSUME NEW j \in Jobs, Tick(j) PROVE IInv'
  BY <1>2, TickStep
<1>3. ASSUME NEW l \in Loops, Run(l) \/ LoopStep(l) PROVE IInv'
  BY <1>3, RunStep, TestStep, IsPendingStep, CheckStep DEF LoopStep
<1>4. ASSUME NEW t \in Tasks, TaskStep(t) \/ Panic(t) PROVE IInv'
  BY <1>4, SetRunningStep, FunctionStep, ClearStep, RescheduleStep DEF TaskStep
<1>5. ASSUME NEW u \in Users, UserStep(u) PROVE IInv'
  BY <1>5, UserStepStep
<1>6. ASSUME NEW u \in Users, NEW graceful \in BOOLEAN, Stop(u, graceful) PROVE IInv'
  BY <1>6, StopStep
<1>7. CASE UNCHANGED vars
  BY <1>7 DEF vars, IInv, TypeOK, InRange, FlagHasOwner, Marked
<1> QED
  BY <1>1, <1>2, <1>3, <1>4, <1>5, <1>6, <1>7 DEF Next

\* Every reachable state is well-typed: in particular a job's function is
\* repeated at most Retries times (job.rs:126-137).
THEOREM Typed == Spec => []TypeOK
<1>1. IInv => TypeOK
  BY DEF IInv
<1> QED
  BY <1>1, InitIInv, NextIInv, PTL DEF Spec

\* Whatever the number of loops, tasks and jobs, is_running has at most one
\* owner and is set while it has one (job.rs:124-146).
THEOREM FlagOwned == Spec => []FlagHasOwner
<1>1. IInv => FlagHasOwner
  BY DEF IInv
<1> QED
  BY <1>1, InitIInv, NextIInv, PTL DEF Spec

\* A job never runs beside itself, however many loops check it and however
\* many tasks were spawned for it (lib.rs:93, job.rs:158).
THEOREM NeverOverlaps == Spec => []NoOverlap
<1>1. IInv => NoOverlap
  BY DEF IInv, FlagHasOwner, NoOverlap, Executing, Marked
<1> QED
  BY <1>1, InitIInv, NextIInv, PTL DEF Spec

-----------------------------------------------------------------------------
(* Graceful stop.  While a stop polls, the executions it still waits for   *)
(* belong to the jobs it has not passed: it passes a job whose flag is not *)
(* set, and then, by FlagHasOwner, no task executes that job.              *)

\* Every task is one of a job that was added, and a stop polls such a job.
AddedJobs ==
  /\ \A t \in Tasks : task[t].pc # "none" => task[t].job \in 1..jobs
  /\ \A u \in Users : user[u].pc = "poll" => user[u].at \in 1..jobs

\* What a stop waits for is being executed, ahead of where it polls.
Awaited ==
  \A u \in Users : \A t \in owed[u] :
    /\ task[t].pc = "exec" /\ user[u].pc # "none"
    /\ user[u].pc = "poll" => user[u].at <= task[t].job

WInv == AddedJobs /\ Awaited

LEMMA InitWInv == Init => WInv
  BY DEF Init, WInv, AddedJobs, Awaited, NoTask, Idle

\* The steps that change neither the tasks nor the stops.
LEMMA WInvUnchanged ==
  ASSUME WInv, jobs' = jobs, UNCHANGED <<task, user, owed>> PROVE WInv'
  BY DEF WInv, AddedJobs, Awaited

LEMMA AddJobWInv == ASSUME IInv, WInv, AddJob PROVE WInv'
<1>1. jobs \in Nat /\ jobs' = jobs + 1 /\ UNCHANGED <<task, user, owed>>
  BY SchedulerAssumption DEF IInv, TypeOK, AddJob
<1>2. 1..jobs \subseteq 1..jobs'
  BY <1>1
<1> QED
  BY <1>1, <1>2 DEF WInv, AddedJobs, Awaited

\* A task is spawned for a job under a loop; nobody waits for that task.
LEMMA CheckWInv == ASSUME IInv, WInv, NEW l \in Loops, Check(l) PROVE WInv'
<1>0. loop[l].at \in 1..jobs
  BY DEF IInv, InRange, Check, Scanning
<1>1. CASE flag[loop[l].at]
  BY <1>1, WInvUnchanged DEF Check
<1>2. CASE ~flag[loop[l].at]
  <2>1. PICK t \in Tasks :
          /\ task[t].pc = "none"
          /\ task' = [task EXCEPT ![t] = [pc |-> "spawned", job |-> loop[l].at, tries |-> 0]]
    BY <1>2 DEF Check
  <2>2. \A u \in Users : t \notin owed[u]
    BY <2>1 DEF WInv, Awaited
  <2>3. AddedJobs'
    BY <1>0, <2>1 DEF IInv, TypeOK, WInv, AddedJobs, Check
  <2>4. Awaited'
    BY <2>1, <2>2 DEF IInv, TypeOK, WInv, Awaited, Check
  <2> QED
    BY <2>3, <2>4 DEF WInv
<1> QED
  BY <1>1, <1>2

\* A task that is not executed, or goes on being executed, takes a step.
LEMMA TaskWInv ==
  ASSUME IInv, WInv, NEW t \in Tasks,
         SetRunning(t) \/ Clear(t) \/ Reschedule(t)
  PROVE  WInv'
<1>1. task[t].pc # "exec" /\ task[t].pc # "none"
  BY DEF SetRunning, Clear, Reschedule
<1>2. \A u \in Users : t \notin owed[u]
  BY <1>1 DEF WInv, Awaited
<1>3. /\ \A s \in Tasks : s # t => task'[s] = task[s]
      /\ task'[t].pc # "none" => task'[t].job = task[t].job
      /\ UNCHANGED <<jobs, user, owed>>
  BY DEF IInv, TypeOK, SetRunning, Clear, Reschedule, NoTask
<1>4. AddedJobs'
  BY <1>1, <1>3 DEF WInv, AddedJobs
<1>5. Awaited'
  BY <1>2, <1>3 DEF IInv, TypeOK, WInv, Awaited
<1> QED
  BY <1>4, <1>5 DEF WInv

\* An execution that goes on, or ends and is taken off every stop's account.
LEMMA FunctionWInv ==
  ASSUME IInv, WInv, NEW t \in Tasks, Succeed(t) \/ Fail(t) \/ Panic(t) PROVE WInv'
<1>1. /\ \A s \in Tasks : s # t => task'[s] = task[s]
      /\ task'[t].pc # "none" => task'[t].job = task[t].job
      /\ task[t].pc = "exec"
      /\ UNCHANGED <<jobs, user>>
  BY DEF IInv, TypeOK, Succeed, Fail, Panic, Ended, NoTask
<1>2. \/ owed' = owed /\ task'[t].pc = "exec" /\ task'[t].job = task[t].job
      \/ owed' = [u \in Users |-> owed[u] \ {t}]
  BY DEF IInv, TypeOK, Succeed, Fail, Panic, Ended, Over
<1>3. AddedJobs'
  BY <1>1 DEF WInv, AddedJobs
<1>4. Awaited'
  <2>1. CASE owed' = owed /\ task'[t].pc = "exec" /\ task'[t].job = task[t].job
    BY <1>1, <2>1 DEF IInv, TypeOK, WInv, Awaited
  <2>2. CASE owed' = [u \in Users |-> owed[u] \ {t}]
    BY <1>1, <2>2 DEF IInv, TypeOK, WInv, Awaited
  <2> QED
    BY <1>2, <2>1, <2>2
<1> QED
  BY <1>3, <1>4 DEF WInv

LEMMA StopWInv ==
  ASSUME IInv, WInv, NEW u \in Users, NEW graceful \in BOOLEAN, Stop(u, graceful) PROVE WInv'
<1> USE SchedulerAssumption
<1>0. jobs \in Nat /\ UNCHANGED <<jobs, task>> /\ user[u].pc = "none"
  BY DEF IInv, TypeOK, Stop
<1>1. AddedJobs'
  BY <1>0 DEF IInv, TypeOK, WInv, AddedJobs, Stop, PollFrom, Idle
<1>2. ASSUME NEW v \in Users, NEW t \in owed'[v]
      PROVE  /\ task'[t].pc = "exec" /\ user'[v].pc # "none"
             /\ user'[v].pc = "poll" => user'[v].at <= task'[t].job
  <2>1. CASE v # u
    BY <1>0, <1>2, <2>1 DEF IInv, TypeOK, WInv, Awaited, Stop
  <2>2. CASE v = u /\ graceful
    <3>1. owed'[u] = UNION {Executing(j) : j \in Jobs} /\ user'[u] = PollFrom(1)
      BY <2>2 DEF IInv, TypeOK, Stop
    <3>2. t \in Tasks /\ task[t].pc = "exec"
      BY <1>2, <2>2, <3>1 DEF Executing
    <3>3. task[t].job \in 1..jobs
      BY <3>2 DEF WInv, AddedJobs
    <3>4. user'[u] = [pc |-> "poll", at |-> 1]
      BY <1>0, <3>1, <3>3 DEF PollFrom
    <3> QED
      BY <1>0, <2>2, <3>2, <3>3, <3>4
  <2>3. CASE v = u /\ ~graceful
    BY <1>2, <2>3 DEF IInv, TypeOK, Stop
  <2> QED
    BY <2>1, <2>2, <2>3
<1> QED
  BY <1>1, <1>2 DEF WInv, Awaited

\* A job is passed while its flag is not set: no task executes it.  The last
\* job is passed only when nothing is awaited any more.
LEMMA PollWInv == ASSUME IInv, WInv, NEW u \in Users, Poll(u) PROVE WInv'
<1> USE SchedulerAssumption
<1>0. /\ jobs \in 0..MaxJobs /\ user[u].at \in 1..jobs /\ user[u].at \in Jobs
      /\ UNCHANGED <<jobs, task, owed>>
      /\ \A v \in Users : v # u => user'[v] = user[v]
  BY DEF IInv, TypeOK, WInv, AddedJobs, Poll, Jobs
<1>1. \A t \in owed[u] : /\ t \in Tasks /\ task[t].pc = "exec"
                         /\ task[t].job \in 1..jobs /\ user[u].at <= task[t].job
  BY DEF IInv, TypeOK, WInv, AddedJobs, Awaited, Poll
<1>2. CASE flag[user[u].at]
  <2>1. user'[u] = [pc |-> "nap", at |-> 1]
    BY <1>2 DEF IInv, TypeOK, Poll
  <2> QED
    BY <1>0, <2>1 DEF WInv, AddedJobs, Awaited
<1>3. CASE ~flag[user[u].at]
  <2>1. user'[u] = PollFrom(user[u].at + 1)
    BY <1>3 DEF IInv, TypeOK, Poll
  <2>2. Marked(user[u].at) = {}
    BY <1>0, <1>3 DEF IInv, FlagHasOwner
  <2>3. \A t \in owed[u] : user[u].at + 1 <= task[t].job /\ task[t].job <= jobs
    <3> TAKE t \in owed[u]
    <3>1. task[t].job # user[u].at
      BY <1>1, <2>2 DEF Marked
    <3> QED
      BY <1>0, <1>1, <3>1
  <2>4. CASE user[u].at + 1 <= jobs
    <3>1. user'[u] = [pc |-> "poll", at |-> user[u].at + 1] /\ user[u].at + 1 \in 1..jobs
      BY <1>0, <2>1, <2>4 DEF PollFrom
    <3> QED
      BY <1>0, <1>1, <2>3, <3>1 DEF WInv, AddedJobs, Awaited
  <2>5. CASE ~(user[u].at + 1 <= jobs)
    <3>1. owed[u] = {}
      BY <1>0, <1>1, <2>3, <2>5
    <3>2. user'[u].pc = "none"
      BY <2>1, <2>5 DEF PollFrom, Idle
    <3> QED
      BY <1>0, <3>1, <3>2 DEF WInv, AddedJobs, Awaited
  <2> QED
    BY <2>4, <2>5
<1> QED
  BY <1>2, <1>3

LEMMA NapWInv == ASSUME IInv, WInv, NEW u \in Users, Nap(u) PROVE WInv'
<1> USE SchedulerAssumption
<1>0. /\ jobs \in 0..MaxJobs /\ user'[u] = PollFrom(1)
      /\ UNCHANGED <<jobs, task, owed>>
      /\ \A v \in Users : v # u => user'[v] = user[v]
  BY DEF IInv, TypeOK, Nap
<1>1. \A t \in owed[u] : task[t].pc = "exec" /\ task[t].job \in 1..jobs
  BY DEF IInv, TypeOK, WInv, AddedJobs, Awaited
<1>2. CASE 1 <= jobs
  <2>1. user'[u] = [pc |-> "poll", at |-> 1] /\ 1 \in 1..jobs
    BY <1>0, <1>2 DEF PollFrom
  <2> QED
    BY <1>0, <1>1, <2>1 DEF WInv, AddedJobs, Awaited
<1>3. CASE ~(1 <= jobs)
  <2>1. owed[u] = {}
    BY <1>0, <1>1, <1>3
  <2>2. user'[u].pc = "none"
    BY <1>0, <1>3 DEF PollFrom, Idle
  <2> QED
    BY <1>0, <2>1, <2>2 DEF WInv, AddedJobs, Awaited
<1> QED
  BY <1>2, <1>3

LEMMA NextWInv == IInv /\ WInv /\ [Next]_vars => WInv'
<1> SUFFICES ASSUME IInv, WInv, [Next]_vars PROVE WInv'
  OBVIOUS
<1>1. CASE AddJob
  BY <1>1, AddJobWInv
<1>2. ASSUME NEW j \in Jobs, Tick(j) PROVE WInv'
  BY <1>2, WInvUnchanged DEF Tick
<1>3. ASSUME NEW l \in Loops, Run(l) \/ LoopStep(l) PROVE WInv'
  BY <1>3, WInvUnchanged, CheckWInv DEF LoopStep, Run, Test, IsPending
<1>4. ASSUME NEW t \in Tasks, TaskStep(t) \/ Panic(t) PROVE WInv'
  BY <1>4, TaskWInv, FunctionWInv DEF TaskStep
<1>5. ASSUME NEW u \in Users, UserStep(u) PROVE WInv'
  BY <1>5, PollWInv, NapWInv DEF UserStep
<1>6. ASSUME NEW u \in Users, NEW graceful \in BOOLEAN, Stop(u, graceful) PROVE WInv'
  BY <1>6, StopWInv
<1>7. CASE UNCHANGED vars
  BY <1>7, WInvUnchanged DEF vars
<1> QED
  BY <1>1, <1>2, <1>3, <1>4, <1>5, <1>6, <1>7 DEF Next

\* When a graceful stop returns, every execution that was under way when it was
\* called is over, although the flags are read one after the other, while
\* tasks start and end and jobs are added (lib.rs:217-233).
THEOREM StopWaitsForJobs == Spec => []GracefulStopWaits
<1>1. IInv /\ WInv => GracefulStopWaits
  BY DEF WInv, Awaited, GracefulStopWaits
<1> QED
  BY <1>1, InitIInv, NextIInv, InitWInv, NextWInv, PTL DEF Spec

-----------------------------------------------------------------------------
(* ErrGroup. *)

\* A permit belongs to a task between its acquire and its end.
Owners ==
  /\ IsFiniteSet(holds)
  /\ \A t \in holds : pc[t] \in {"try", "run"}
  /\ limit # NoLimit => \A t \in Members : pc[t] \in {"try", "run"} => t \in holds
  /\ limit = NoLimit => holds = {} /\ queue = <<>>

\* Whoever is in the queue waits there, once.
Waiting ==
  /\ \A i \in 1..Len(queue) : pc[queue[i]] = "queued"
  /\ \A i, j \in 1..Len(queue) : queue[i] = queue[j] => i = j

\* Whoever is in the JoinSet's list of completed tasks is complete, once.
Reported ==
  /\ \A i \in 1..Len(set) : pc[set[i]] = "complete"
  /\ \A i, j \in 1..Len(set) : set[i] = set[j] => i = j

\* Every permit is free or owned, and a task runs on one.
Accounted ==
  /\ limit # NoLimit => permits + Cardinality(holds) = limit
  /\ \A t \in Members : pc[t] = "run" /\ limit # NoLimit => t \in holds

\* Nobody queues while a permit is free: whoever takes one finds no queue.
NoIdleSlot == queue # <<>> => permits = 0

GInv == GroupTypeOK /\ Owners /\ Waiting /\ Reported /\ Accounted /\ NoIdleSlot

LEMMA InitGInv == GroupInit => GInv
  BY FS_EmptySet, ErrGroupAssumption
     DEF GroupInit, GInv, GroupTypeOK, Owners, Waiting, Reported, Accounted, NoIdleSlot, Outcomes

\* Taking a permit adds one owner, giving it back removes one, and handing it
\* on leaves their number as it is.
LEMMA TakePermit ==
  ASSUME Owners, NEW t, t \notin holds
  PROVE  /\ IsFiniteSet(holds \cup {t})
         /\ Cardinality(holds \cup {t}) = Cardinality(holds) + 1
         /\ Cardinality(holds) \in Nat
  BY FS_AddElement, FS_CardinalityType DEF Owners

LEMMA GivePermit ==
  ASSUME Owners, NEW t, t \in holds
  PROVE  /\ IsFiniteSet(holds \ {t})
         /\ Cardinality(holds \ {t}) = Cardinality(holds) - 1
         /\ Cardinality(holds) \in Nat /\ Cardinality(holds) # 0
         /\ Cardinality(holds \ {t}) \in Nat
  BY FS_RemoveElement, FS_CardinalityType, FS_EmptySet DEF Owners

LEMMA HandPermit ==
  ASSUME Owners, NEW t, t \in holds, NEW next, next \notin holds
  PROVE  /\ IsFiniteSet((holds \ {t}) \cup {next})
         /\ Cardinality((holds \ {t}) \cup {next}) = Cardinality(holds)
<1>1. /\ IsFiniteSet(holds \ {t}) /\ Cardinality(holds \ {t}) = Cardinality(holds) - 1
      /\ Cardinality(holds) \in Nat
  BY GivePermit
<1>2. /\ IsFiniteSet((holds \ {t}) \cup {next})
      /\ Cardinality((holds \ {t}) \cup {next}) = Cardinality(holds \ {t}) + 1
  BY <1>1, FS_AddElement
<1> QED
  BY <1>1, <1>2

LEMMA ReportedKept ==
  ASSUME GroupTypeOK, Reported, set' = set,
         \A t \in Members : pc[t] = "complete" => pc'[t] = "complete"
  PROVE  Reported'
<1>1. \A i \in 1..Len(set) : set[i] \in Members
  BY DEF GroupTypeOK
<1> QED
  BY <1>1 DEF Reported

-----------------------------------------------------------------------------
(* Steps that move no permit. *)

LEMMA SetLimitStep == ASSUME GInv, NEW n \in Limits, SetLimit(n) PROVE GInv'
<1>1. holds = {}
  BY DEF GInv, Owners, GroupTypeOK, SetLimit, Active
<1>2. queue = <<>>
  <2> SUFFICES ASSUME queue # <<>> PROVE FALSE
    OBVIOUS
  <2>1. 1 \in 1..Len(queue) /\ queue[1] \in Members
    BY DEF GInv, GroupTypeOK
  <2>2. pc[queue[1]] = "queued"
    BY <2>1 DEF GInv, Waiting
  <2> QED
    BY <2>1, <2>2 DEF SetLimit, Active
<1>3. GroupTypeOK'
  BY ErrGroupAssumption DEF GInv, GroupTypeOK, SetLimit
<1>4. Owners' /\ Waiting' /\ NoIdleSlot'
  BY <1>1, <1>2, ErrGroupAssumption DEF GInv, Active, Owners, Waiting, NoIdleSlot, SetLimit
<1>5. Accounted'
  BY <1>1, FS_EmptySet, ErrGroupAssumption DEF GInv, Accounted, SetLimit, Active
<1>6. Reported'
  BY ReportedKept DEF GInv, SetLimit
<1> QED
  BY <1>3, <1>4, <1>5, <1>6 DEF GInv

\* A task that is neither an owner nor waiting goes on, and none begins to run.
LEMMA SpawnStep == ASSUME GInv, NEW t \in Members, Spawn(t) PROVE GInv'
<1>1. GroupTypeOK'
  BY DEF GInv, GroupTypeOK, Spawn
<1>2. Owners' /\ Waiting'
  BY DEF GInv, GroupTypeOK, Owners, Waiting, Spawn
<1>3. Accounted' /\ NoIdleSlot'
  BY DEF GInv, GroupTypeOK, Accounted, NoIdleSlot, Spawn
<1>4. Reported'
  BY ReportedKept DEF GInv, GroupTypeOK, Spawn
<1> QED
  BY <1>1, <1>2, <1>3, <1>4 DEF GInv

LEMMA TrySpawnStep == ASSUME GInv, NEW t \in Members, TrySpawn(t) PROVE GInv'
<1>1. GroupTypeOK'
  BY DEF GInv, GroupTypeOK, TrySpawn
<1>2. Owners' /\ Waiting'
  BY DEF GInv, GroupTypeOK, Owners, Waiting, TrySpawn
<1>3. Accounted' /\ NoIdleSlot'
  BY DEF GInv, GroupTypeOK, Owners, Accounted, NoIdleSlot, TrySpawn
<1>4. Reported'
  BY ReportedKept DEF GInv, GroupTypeOK, TrySpawn
<1> QED
  BY <1>1, <1>2, <1>3, <1>4 DEF GInv

\* The rest of a task's life and of wait: no permit moves, nobody is queued.
LEMMA PermitsKept ==
  ASSUME GInv, GroupTypeOK', Reported', UNCHANGED <<limit, permits, queue, holds>>,
         \A t \in Members : pc'[t] # pc[t] =>
           pc[t] \in {"ended", "complete"} /\ pc'[t] \in {"complete", "joined"}
  PROVE  GInv'
<1>1. Owners'
  BY DEF GInv, GroupTypeOK, Owners
<1>2. Waiting'
  <2>1. \A i \in 1..Len(queue) : queue[i] \in Members
    BY DEF GInv, GroupTypeOK
  <2> QED
    BY <2>1 DEF GInv, Waiting
<1>3. Accounted' /\ NoIdleSlot'
  BY DEF GInv, GroupTypeOK, Accounted, NoIdleSlot
<1> QED
  BY <1>1, <1>2, <1>3 DEF GInv

\* What Append and Tail do to the completed tasks.
LEMMA CompleteStep == ASSUME GInv, NEW t \in Members, Complete(t) PROVE GInv'
<1>1. GroupTypeOK'
  <2>1. failed' \in Seq(Members) /\ set' \in Seq(Members)
    BY DEF GInv, GroupTypeOK, Complete
  <2> QED
    BY <2>1 DEF GInv, GroupTypeOK, Complete
<1>2. \A s \in Members : pc'[s] # pc[s] => pc[s] = "ended" /\ pc'[s] = "complete"
  BY DEF GInv, GroupTypeOK, Complete
<1>3. Reported'
  <2>1. \A i \in 1..Len(set) : set[i] \in Members /\ set[i] # t
    BY DEF GInv, GroupTypeOK, Reported, Complete
  <2>2. /\ set \in Seq(Members) /\ set' = Append(set, t)
        /\ pc' = [pc EXCEPT ![t] = "complete"] /\ pc = [r \in Members |-> pc[r]]
    BY DEF GInv, GroupTypeOK, Complete
  <2>3. /\ Len(set') = Len(set) + 1 /\ Len(set) \in Nat
        /\ \A i \in 1..Len(set) : set'[i] = set[i]
        /\ set'[Len(set) + 1] = t
    BY <2>2
  <2> QED
    BY <2>1, <2>2, <2>3 DEF GInv, Reported
<1> QED
  BY <1>1, <1>2, <1>3, PermitsKept DEF Complete

LEMMA JoinNextStep == ASSUME GInv, JoinNext PROVE GInv'
<1>0. /\ set \in Seq(Members) /\ set # <<>>
  BY DEF GInv, GroupTypeOK, JoinNext
<1>1. /\ Head(set) = set[1] /\ Head(set) \in Members /\ Tail(set) \in Seq(Members)
      /\ Len(Tail(set)) = Len(set) - 1 /\ Len(set) \in Nat /\ 1 \in 1..Len(set)
      /\ \A i \in 1..Len(Tail(set)) : Tail(set)[i] = set[i + 1] /\ i + 1 \in 1..Len(set) /\ i + 1 # 1
  BY <1>0
<1>2. pc[Head(set)] = "complete"
  BY <1>1 DEF GInv, Reported
<1>3. GroupTypeOK'
  BY <1>1 DEF GInv, GroupTypeOK, JoinNext
<1>4. pc' = [pc EXCEPT ![Head(set)] = "joined"] /\ set' = Tail(set) /\ pc = [r \in Members |-> pc[r]]
  BY DEF GInv, GroupTypeOK, JoinNext
<1>5. \A s \in Members : pc'[s] # pc[s] => pc[s] = "complete" /\ pc'[s] = "joined"
  BY <1>1, <1>2, <1>4
<1>6. \A i \in 1..Len(set') : set'[i] # Head(set) /\ set'[i] \in Members /\ pc[set'[i]] = "complete"
  <2> SUFFICES ASSUME NEW i \in 1..Len(set')
               PROVE  set'[i] # Head(set) /\ set'[i] \in Members /\ pc[set'[i]] = "complete"
    OBVIOUS
  <2>1. set'[i] = set[i + 1] /\ i + 1 \in 1..Len(set) /\ i + 1 # 1
    BY <1>1, <1>4
  <2>2. set[i + 1] \in Members
    BY <1>0, <2>1
  <2> QED
    BY <1>1, <2>1, <2>2 DEF GInv, Reported
<1>7. Reported'
  BY <1>1, <1>4, <1>6 DEF GInv, Reported
<1> QED
  BY <1>3, <1>5, <1>7, PermitsKept DEF JoinNext

LEMMA WaitSteps == ASSUME GInv, Wait \/ Return PROVE GInv'
<1>1. GroupTypeOK'
  BY DEF GInv, GroupTypeOK, Wait, Return
<1>2. Reported'
  BY ReportedKept DEF GInv, Wait, Return
<1> QED
  BY <1>1, <1>2, PermitsKept DEF Wait, Return

-----------------------------------------------------------------------------
(* Steps that take a permit, wait for one, give it back or hand it on. *)

\* Task t starts on its way, with a permit if there is a limit.
LEMMA TakeStep ==
  ASSUME GInv, NEW t \in Members, NEW place \in {"try", "run"},
         t \notin holds, pc[t] \in {"new", "spawned"},
         limit # NoLimit => permits > 0,
         pc' = [pc EXCEPT ![t] = place],
         permits' = IF limit = NoLimit THEN permits ELSE permits - 1,
         holds' = IF limit = NoLimit THEN holds ELSE holds \cup {t},
         UNCHANGED <<limit, queue, fate, set, waiter, first, failed>>
  PROVE  GInv'
<1>1. GroupTypeOK'
  <2>1. permits' \in Nat
    BY DEF GInv, GroupTypeOK
  <2> QED
    BY <2>1 DEF GInv, GroupTypeOK
<1>2. queue = <<>> \/ limit = NoLimit
  BY DEF GInv, GroupTypeOK, NoIdleSlot
<1>3. queue = <<>>
  BY <1>2 DEF GInv, Owners
<1>4. Owners'
  BY TakePermit DEF GInv, GroupTypeOK, Owners
<1>5. Waiting' /\ NoIdleSlot'
  BY <1>3 DEF Waiting, NoIdleSlot
<1>6. Accounted'
  <2>1. limit # NoLimit => permits' + Cardinality(holds') = permits + Cardinality(holds)
    <3>1. permits \in Nat
      BY DEF GInv, GroupTypeOK
    <3>2. Cardinality(holds \cup {t}) = Cardinality(holds) + 1 /\ Cardinality(holds) \in Nat
      BY TakePermit DEF GInv
    <3> QED
      BY <3>1, <3>2
  <2>2. limit # NoLimit => \A s \in Members : pc'[s] = "run" => s \in holds'
    BY DEF GInv, GroupTypeOK, Accounted
  <2> QED
    BY <2>1, <2>2 DEF GInv, Accounted
<1>7. Reported'
  BY ReportedKept DEF GInv, GroupTypeOK
<1> QED
  BY <1>1, <1>4, <1>5, <1>6, <1>7 DEF GInv

LEMMA TryAcquireStep == ASSUME GInv, NEW t \in Members, TryAcquire(t) PROVE GInv'
<1>1. t \notin holds
  BY DEF GInv, Owners, TryAcquire
<1> QED
  BY <1>1, TakeStep DEF TryAcquire

LEMMA AcquireStep == ASSUME GInv, NEW t \in Members, Acquire(t) PROVE GInv'
<1>0. t \notin holds /\ \A i \in 1..Len(queue) : queue[i] # t
  BY DEF GInv, Owners, Waiting, Acquire
<1>1. CASE limit # NoLimit /\ permits = 0
  <2>0. /\ queue \in Seq(Members) /\ queue' = Append(queue, t)
        /\ pc' = [pc EXCEPT ![t] = "queued"] /\ pc = [r \in Members |-> pc[r]]
        /\ UNCHANGED <<permits, holds, limit, fate, set, waiter, first, failed>>
    BY <1>1 DEF GInv, GroupTypeOK, Acquire
  <2>1. /\ Len(queue') = Len(queue) + 1 /\ Len(queue) \in Nat /\ queue' \in Seq(Members)
        /\ \A i \in 1..Len(queue) : queue'[i] = queue[i] /\ queue[i] \in Members
        /\ queue'[Len(queue) + 1] = t
    BY <2>0
  <2>2. GroupTypeOK'
    BY <2>0, <2>1 DEF GInv, GroupTypeOK
  <2>3. Owners'
    BY <1>0, <1>1, <2>0 DEF GInv, Owners
  <2>4. Waiting'
    BY <1>0, <2>0, <2>1 DEF GInv, Waiting
  <2>5. Accounted' /\ NoIdleSlot'
    BY <1>1, <2>0 DEF GInv, Accounted, NoIdleSlot
  <2>6. pc[t] = "spawned"
    BY DEF Acquire
  <2>7. Reported'
    BY <2>0, <2>6, ReportedKept DEF GInv
  <2> QED
    BY <2>2, <2>3, <2>4, <2>5, <2>7 DEF GInv
<1>2. CASE ~(limit # NoLimit /\ permits = 0)
  <2>1. limit # NoLimit => permits > 0
    BY <1>2 DEF GInv, GroupTypeOK
  <2> QED
    BY <1>0, <1>2, <2>1, TakeStep DEF Acquire
<1> QED
  BY <1>1, <1>2

LEMMA FinishStep ==
  ASSUME GInv, NEW t \in Members, NEW o \in Outcomes, Finish(t, o) PROVE GInv'
<1>0. pc[t] = "run" /\ UNCHANGED <<limit, set, waiter, first, failed>>
      /\ fate' \in [Members -> Outcomes \cup {"none"}]
  BY DEF GInv, GroupTypeOK, Finish
<1>r. ASSUME \A r \in Members : pc[r] = "complete" => pc'[r] = "complete" PROVE Reported'
  BY <1>0, <1>r, ReportedKept DEF GInv
<1>1. CASE t \in holds /\ queue # <<>>
  <2> DEFINE next == Head(queue)
  <2>1. /\ 1 \in 1..Len(queue) /\ next = queue[1] /\ next \in Members
        /\ Len(Tail(queue)) = Len(queue) - 1 /\ Len(queue) \in Nat
        /\ \A i \in 1..Len(Tail(queue)) : Tail(queue)[i] = queue[i + 1]
        /\ Tail(queue) \in Seq(Members)
    BY <1>1 DEF GInv, GroupTypeOK
  <2>2. pc[next] = "queued" /\ next \notin holds /\ next # t
    BY <1>0, <2>1 DEF GInv, Owners, Waiting
  <2>3. /\ pc' = [pc EXCEPT ![t] = "ended", ![next] = "run"]
        /\ holds' = (holds \ {t}) \cup {next} /\ queue' = Tail(queue) /\ permits' = permits
    BY <1>1 DEF Finish, Release
  <2>4. IsFiniteSet(holds') /\ Cardinality(holds') = Cardinality(holds)
    BY <1>1, <2>2, <2>3, HandPermit DEF GInv
  <2> HIDE DEF next
  <2>5. GroupTypeOK'
    BY <1>0, <2>1, <2>3 DEF GInv, GroupTypeOK
  <2>6. Owners'
    BY <1>0, <1>1, <2>1, <2>2, <2>3, <2>4 DEF GInv, GroupTypeOK, Owners
  <2>7. \A i \in 1..Len(queue') : /\ i + 1 \in 1..Len(queue) /\ i + 1 # 1
                                  /\ queue'[i] = queue[i + 1]
    BY <2>1, <2>3
  <2>8. \A i \in 1..Len(queue') : queue'[i] # next /\ queue'[i] # t /\ queue'[i] \in Members
    BY <1>0, <2>1, <2>2, <2>7 DEF GInv, GroupTypeOK, Waiting
  <2>9. Waiting'
    BY <2>1, <2>3, <2>7, <2>8 DEF GInv, GroupTypeOK, Waiting
  <2>10. Accounted' /\ NoIdleSlot'
    BY <1>0, <1>1, <2>1, <2>2, <2>3, <2>4 DEF GInv, GroupTypeOK, Accounted, NoIdleSlot
  <2>11. Reported'
    BY <1>0, <1>r, <2>1, <2>2, <2>3 DEF GInv, GroupTypeOK
  <2> QED
    BY <2>5, <2>6, <2>9, <2>10, <2>11 DEF GInv
<1>2. CASE ~(t \in holds /\ queue # <<>>)
  <2>1. /\ pc' = [pc EXCEPT ![t] = "ended"] /\ holds' = holds \ {t} /\ queue' = queue
        /\ permits' = IF t \in holds THEN permits + 1 ELSE permits
    BY <1>2 DEF Finish, Release
  <2>2. IsFiniteSet(holds')
    BY <2>1, GivePermit, FS_Subset DEF GInv, Owners
  <2>3. GroupTypeOK'
    BY <1>0, <2>1 DEF GInv, GroupTypeOK
  <2>4. Owners' /\ Waiting'
    BY <1>0, <2>1, <2>2 DEF GInv, GroupTypeOK, Owners, Waiting
  <2>5. NoIdleSlot'
    BY <1>0, <1>2, <2>1 DEF GInv, NoIdleSlot
  <2>6. Accounted'
    <3>1. CASE t \in holds
      <4>1. permits' + Cardinality(holds') = permits + Cardinality(holds)
        <5>1. permits \in Nat /\ permits' = permits + 1 /\ holds' = holds \ {t}
          BY <2>1, <3>1 DEF GInv, GroupTypeOK
        <5>2. Cardinality(holds \ {t}) = Cardinality(holds) - 1 /\ Cardinality(holds) \in Nat
          BY <3>1, GivePermit DEF GInv
        <5> QED
          BY <5>1, <5>2
      <4>2. limit # NoLimit => \A r \in Members : pc'[r] = "run" => r \in holds'
        BY <1>0, <2>1 DEF GInv, GroupTypeOK, Accounted
      <4> QED
        BY <1>0, <4>1, <4>2 DEF GInv, Accounted
    <3>2. CASE t \notin holds
      <4>1. holds' = holds
        BY <2>1, <3>2
      <4> QED
        BY <1>0, <2>1, <3>2, <4>1 DEF GInv, GroupTypeOK, Accounted
    <3> QED
      BY <3>1, <3>2
  <2>7. Reported'
    BY <1>0, <1>r, <2>1 DEF GInv, GroupTypeOK
  <2> QED
    BY <2>3, <2>4, <2>5, <2>6, <2>7 DEF GInv
<1> QED
  BY <1>1, <1>2

LEMMA DropStep == ASSUME GInv, Drop PROVE GInv'
<1>1. holds' = {} /\ queue' = <<>> /\ limit' = limit
  BY DEF Drop
<1>2. GroupTypeOK'
  BY ErrGroupAssumption DEF GInv, GroupTypeOK, Drop
<1>3. \A t \in Members : pc'[t] \notin {"try", "run"}
  BY DEF GInv, GroupTypeOK, Drop, InSet
<1>4. Owners' /\ Waiting' /\ NoIdleSlot'
  BY <1>1, <1>3, FS_EmptySet DEF Owners, Waiting, NoIdleSlot
<1>5. Accounted'
  <2>1. limit' # NoLimit => permits' = limit' /\ limit' \in Nat
    BY ErrGroupAssumption DEF GInv, GroupTypeOK, Drop
  <2> QED
    BY <1>1, <1>3, <2>1, FS_EmptySet DEF Accounted
<1>6. Reported'
  BY DEF Drop, Reported
<1> QED
  BY <1>2, <1>4, <1>5, <1>6 DEF GInv

-----------------------------------------------------------------------------

LEMMA NextGInv == GInv /\ [GroupNext]_groupVars => GInv'
<1> SUFFICES ASSUME GInv, [GroupNext]_groupVars PROVE GInv'
  OBVIOUS
<1>1. ASSUME NEW n \in Limits, SetLimit(n) PROVE GInv'
  BY <1>1, SetLimitStep
<1>2. ASSUME NEW t \in Members, Spawn(t) \/ TryAcquire(t) \/ GroupTaskStep(t) PROVE GInv'
  BY <1>2, SpawnStep, TryAcquireStep, AcquireStep, TrySpawnStep, CompleteStep, FinishStep
     DEF GroupTaskStep
<1>3. CASE Wait \/ JoinNext \/ Return
  BY <1>3, WaitSteps, JoinNextStep
<1>4. CASE Drop
  BY <1>4, DropStep
<1>5. CASE UNCHANGED groupVars
  BY <1>5 DEF groupVars, GInv, GroupTypeOK, Owners, Waiting, Reported, Accounted, NoIdleSlot
<1> QED
  BY <1>1, <1>2, <1>3, <1>4, <1>5 DEF GroupNext

\* For every set of tasks and every limit no more functions run than the limit
\* allows, and no permit outlives its function, whether that succeeds, fails,
\* panics or is aborted (errgroup.rs:129-136, 159-163).
THEOREM LimitAlwaysHolds == GroupSpec => []LimitHolds
<1>1. GInv => LimitHolds
  BY DEF GInv, Owners, Accounted, LimitHolds
<1> QED
  BY <1>1, InitGInv, NextGInv, PTL DEF GroupSpec

-----------------------------------------------------------------------------
(* What wait returns. *)

\* wait is not called during a call of try_spawn, tasks are only aborted with
\* the group, and when wait has returned they are all over.
WaitEnds ==
  /\ waiter \in {"waiting", "returned"} => \A t \in Members : pc[t] # "try"
  /\ waiter # "dropped" => \A t \in Members : pc[t] # "aborted"
  /\ waiter = "returned" => \A t \in Members : pc[t] \in {"new", "joined"}

\* The first error is what wait holds, or it is the first one among the
\* completed tasks wait has not joined yet.
FirstError ==
  waiter # "dropped" =>
    /\ first # None => failed # <<>> /\ first = Head(failed)
    /\ first = None /\ failed = <<>> => \A i \in 1..Len(set) : fate[set[i]] # "err"
    /\ first = None /\ failed # <<>> =>
         \E i \in 1..Len(set) :
           /\ set[i] = Head(failed) /\ fate[set[i]] = "err"
           /\ \A j \in 1..Len(set) : j < i => fate[set[j]] # "err"

FInv == GInv /\ WaitEnds /\ FirstError

LEMMA InitFInv == GroupInit => FInv
  BY InitGInv DEF FInv, GroupInit, WaitEnds, FirstError

\* The steps that leave the completed tasks, and what is known of them, alone.
LEMMA FirstErrorKept ==
  ASSUME FirstError, waiter' # "dropped", waiter # "dropped", UNCHANGED <<set, first, failed>>,
         \A i \in 1..Len(set) : fate'[set[i]] = fate[set[i]]
  PROVE  FirstError'
  BY DEF FirstError

LEMMA WaitEndsStep == ASSUME FInv, GroupNext PROVE WaitEnds'
<1>1. ASSUME NEW n \in Limits, SetLimit(n) PROVE WaitEnds'
  BY <1>1 DEF FInv, WaitEnds, SetLimit
<1>2. ASSUME NEW t \in Members, Spawn(t) \/ TryAcquire(t) PROVE WaitEnds'
  BY <1>2 DEF FInv, GInv, GroupTypeOK, WaitEnds, Spawn, TryAcquire
<1>3. ASSUME NEW t \in Members, Acquire(t) \/ TrySpawn(t) \/ Complete(t) PROVE WaitEnds'
  BY <1>3 DEF FInv, GInv, GroupTypeOK, WaitEnds, Acquire, TrySpawn, Complete
<1>4. ASSUME NEW t \in Members, NEW o \in Outcomes, Finish(t, o) PROVE WaitEnds'
  BY <1>4 DEF FInv, GInv, GroupTypeOK, WaitEnds, Finish, Release
<1>5. CASE JoinNext
  BY <1>5 DEF FInv, GInv, GroupTypeOK, WaitEnds, JoinNext
<1>6. CASE Wait
  BY <1>6 DEF FInv, WaitEnds, Wait
<1>7. CASE Return
  BY <1>7 DEF FInv, GInv, GroupTypeOK, WaitEnds, Return, InSet
<1>8. CASE Drop
  BY <1>8 DEF FInv, WaitEnds, Drop
<1> QED
  BY <1>1, <1>2, <1>3, <1>4, <1>5, <1>6, <1>7, <1>8 DEF GroupNext, GroupTaskStep

LEMMA CompleteFirstError ==
  ASSUME FInv, NEW t \in Members, Complete(t) PROVE FirstError'
<1> SUFFICES ASSUME waiter # "dropped" PROVE FirstError'
  BY DEF FirstError, Complete
<1>1. /\ set \in Seq(Members) /\ set' = Append(set, t) /\ failed \in Seq(Members)
      /\ failed' = (IF fate[t] = "err" THEN Append(failed, t) ELSE failed)
      /\ first' = first /\ fate' = fate /\ waiter' = waiter
  BY DEF FInv, GInv, GroupTypeOK, Complete
<1>2. /\ Len(set') = Len(set) + 1 /\ Len(set) \in Nat
      /\ \A i \in 1..Len(set) : set'[i] = set[i]
      /\ set'[Len(set) + 1] = t
  BY <1>1
<1>3. /\ failed # <<>> => failed' # <<>> /\ Head(failed') = Head(failed)
      /\ failed = <<>> /\ fate[t] = "err" => failed' # <<>> /\ Head(failed') = t
      /\ failed = <<>> /\ fate[t] # "err" => failed' = <<>>
  BY <1>1
<1>4. CASE first # None
  BY <1>1, <1>3, <1>4 DEF FInv, FirstError
<1>5. CASE first = None /\ failed = <<>> /\ fate[t] # "err"
  BY <1>1, <1>2, <1>3, <1>5 DEF FInv, FirstError
<1>6. CASE first = None /\ failed = <<>> /\ fate[t] = "err"
  <2>1. \A j \in 1..Len(set) : fate'[set'[j]] # "err"
    BY <1>1, <1>2, <1>6 DEF FInv, FirstError
  <2>2. Len(set) + 1 \in 1..Len(set') /\ \A j \in 1..Len(set') : j < Len(set) + 1 => j \in 1..Len(set)
    BY <1>2
  <2> QED
    BY <1>1, <1>2, <1>3, <1>6, <2>1, <2>2 DEF FirstError
<1>7. CASE first = None /\ failed # <<>>
  <2>1. PICK i \in 1..Len(set) :
          /\ set[i] = Head(failed) /\ fate[set[i]] = "err"
          /\ \A j \in 1..Len(set) : j < i => fate[set[j]] # "err"
    BY <1>7 DEF FInv, FirstError
  <2>2. i \in 1..Len(set') /\ \A j \in 1..Len(set') : j < i => j \in 1..Len(set)
    BY <1>2
  <2>3. /\ set'[i] = Head(failed') /\ fate'[set'[i]] = "err"
        /\ \A j \in 1..Len(set') : j < i => fate'[set'[j]] # "err"
    BY <1>1, <1>2, <1>3, <1>7, <2>1, <2>2
  <2>4. first' = None /\ failed' # <<>>
    BY <1>1, <1>3, <1>7
  <2> QED
    BY <2>2, <2>3, <2>4 DEF FirstError
<1> QED
  BY <1>4, <1>5, <1>6, <1>7

LEMMA JoinFirstError == ASSUME FInv, JoinNext PROVE FirstError'
<1>1. /\ set \in Seq(Members) /\ set # <<>> /\ set' = Tail(set)
      /\ first' = (IF fate[Head(set)] = "err" /\ first = None THEN Head(set) ELSE first)
      /\ failed' = failed /\ fate' = fate /\ waiter' = waiter /\ waiter = "waiting"
  BY DEF FInv, GInv, GroupTypeOK, JoinNext
<1>2. /\ Head(set) = set[1] /\ Head(set) \in Members /\ 1 \in 1..Len(set)
      /\ Len(set') = Len(set) - 1 /\ Len(set) \in Nat
      /\ \A i \in 1..Len(set') : set'[i] = set[i + 1] /\ i + 1 \in 1..Len(set)
  BY <1>1
<1>3. first # None => first' = first
  BY <1>1
<1>4. CASE first # None
  BY <1>1, <1>3, <1>4 DEF FInv, FirstError
<1>5. CASE first = None /\ failed = <<>>
  <2>1. fate[Head(set)] # "err"
    BY <1>1, <1>2, <1>5 DEF FInv, FirstError
  <2>2. \A i \in 1..Len(set') : fate'[set'[i]] # "err"
    BY <1>1, <1>2, <1>5 DEF FInv, FirstError
  <2> QED
    BY <1>1, <1>5, <2>1, <2>2 DEF FirstError
<1>6. CASE first = None /\ failed # <<>>
  <2>1. PICK i \in 1..Len(set) :
          /\ set[i] = Head(failed) /\ fate[set[i]] = "err"
          /\ \A j \in 1..Len(set) : j < i => fate[set[j]] # "err"
    BY <1>1, <1>6 DEF FInv, FirstError
  <2>2. CASE fate[Head(set)] = "err"
    <3>1. i = 1
      BY <1>2, <2>1, <2>2
    <3>2. first' = Head(failed) /\ first' # None
      BY <1>1, <1>2, <1>6, <2>1, <2>2, <3>1, ErrGroupAssumption
    <3> QED
      BY <1>1, <1>6, <3>2 DEF FirstError
  <2>3. CASE fate[Head(set)] # "err"
    <3>1. /\ i - 1 \in 1..Len(set') /\ set'[i - 1] = set[i]
          /\ \A j \in 1..Len(set') : j < i - 1 => set'[j] = set[j + 1] /\ j + 1 \in 1..Len(set) /\ j + 1 < i
      BY <1>2, <2>1, <2>3
    <3>2. first' = None
      BY <1>1, <1>6, <2>3
    <3>3. \A j \in 1..Len(set') : j < i - 1 => fate'[set'[j]] # "err"
      BY <1>1, <2>1, <3>1
    <3> QED
      BY <1>1, <1>6, <2>1, <3>1, <3>2, <3>3 DEF FirstError
  <2> QED
    BY <2>2, <2>3
<1> QED
  BY <1>4, <1>5, <1>6

LEMMA FirstErrorStep == ASSUME FInv, GroupNext PROVE FirstError'
<1>0. CASE waiter = "dropped" \/ waiter' = "dropped"
  <2>1. waiter' = "dropped"
    BY <1>0 DEF GroupNext, GroupTaskStep, SetLimit, Spawn, TryAcquire, Acquire, TrySpawn,
                Complete, Finish, Wait, JoinNext, Return, Drop
  <2> QED
    BY <2>1 DEF FirstError
<1>1. CASE waiter # "dropped" /\ waiter' # "dropped"
  <2>0. \A i \in 1..Len(set) : set[i] \in Members /\ pc[set[i]] = "complete"
    BY DEF FInv, GInv, GroupTypeOK, Reported
  <2>1. ASSUME NEW n \in Limits, SetLimit(n) PROVE FirstError'
    BY <1>1, <2>1, FirstErrorKept DEF FInv, SetLimit
  <2>2. ASSUME NEW t \in Members, Spawn(t) \/ TryAcquire(t) \/ Acquire(t) \/ TrySpawn(t)
        PROVE  FirstError'
    <3>1. UNCHANGED <<fate, set, first, failed>>
      BY <2>2 DEF Spawn, TryAcquire, Acquire, TrySpawn
    <3> QED
      BY <1>1, <3>1, FirstErrorKept DEF FInv
  <2>3. ASSUME NEW t \in Members, NEW o \in Outcomes, Finish(t, o) PROVE FirstError'
    <3>1. /\ fate' = [fate EXCEPT ![t] = o] /\ fate = [r \in Members |-> fate[r]]
          /\ pc[t] = "run" /\ UNCHANGED <<set, first, failed>>
      BY <2>3 DEF FInv, GInv, GroupTypeOK, Finish
    <3>2. \A i \in 1..Len(set) : fate'[set[i]] = fate[set[i]]
      BY <2>0, <3>1
    <3> QED
      BY <1>1, <3>1, <3>2, FirstErrorKept DEF FInv
  <2>4. CASE Wait \/ Return
    BY <1>1, <2>4, FirstErrorKept DEF FInv, Wait, Return
  <2>5. CASE Drop
    BY <1>1, <2>5 DEF Drop
  <2> QED
    BY <2>1, <2>2, <2>3, <2>4, <2>5, CompleteFirstError, JoinFirstError
       DEF GroupNext, GroupTaskStep
<1> QED
  BY <1>0, <1>1

LEMMA NextFInv == FInv /\ [GroupNext]_groupVars => FInv'
<1>1. ASSUME FInv, GroupNext PROVE FInv'
  BY <1>1, NextGInv, WaitEndsStep, FirstErrorStep DEF FInv
<1>2. ASSUME FInv, UNCHANGED groupVars PROVE FInv'
  <2>1. GInv'
    BY <1>2, NextGInv DEF FInv
  <2> QED
    BY <1>2, <2>1 DEF groupVars, FInv, WaitEnds, FirstError
<1> QED
  BY <1>1, <1>2

\* "When all tasks finish, [`wait`] returns that error" (errgroup.rs:4): for
\* every set of tasks, wait returns once all of them are over, and with the
\* error of the first that completed with one.
THEOREM WaitReturnsFirstError == GroupSpec => []FirstErrorReturned
<1>1. FInv => FirstErrorReturned
  <2> SUFFICES ASSUME FInv, waiter = "returned" PROVE FirstErrorReturned
    BY DEF FirstErrorReturned
  <2>1. set = <<>>
    <3> SUFFICES ASSUME set # <<>> PROVE FALSE
      OBVIOUS
    <3>1. 1 \in 1..Len(set) /\ set[1] \in Members
      BY DEF FInv, GInv, GroupTypeOK
    <3>2. pc[set[1]] = "complete"
      BY <3>1 DEF FInv, GInv, Reported
    <3> QED
      BY <3>1, <3>2 DEF FInv, WaitEnds
  <2>2. first = None => failed = <<>>
    BY <2>1 DEF FInv, FirstError
  <2> QED
    BY <2>2 DEF FInv, WaitEnds, FirstError, FirstErrorReturned
<1> QED
  BY <1>1, InitFInv, NextFInv, PTL DEF GroupSpec

-----------------------------------------------------------------------------
(* SingleFlight. *)

\* A call past its lookup has a key, and a duplicate an entry.
Recorded ==
  \A c \in Calls :
    /\ stage[c] # "start" => key[c] \in Keys
    /\ stage[c] \in Sharing \cup {"shared"} => entry[c] \in Calls

\* An entry a duplicate holds was inserted by an execution of the same key.
EntryOfSameKey ==
  \A c \in Calls : entry[c] # NoEntry =>
    /\ key[entry[c]] = key[c]
    /\ stage[entry[c]] \in InFlight \cup {"returned", "gone"}

\* A value is stored exactly by the executions that got past the store.
ValStored == \A c \in Calls : c \in val <=> stage[c] \in {"notify", "remove", "returned"}

FlightInv ==
  /\ FlightTypeOK
  /\ Recorded
  /\ EntryOfSameKey
  /\ ValStored
  /\ MapEntryInFlight
  /\ SharedResult
  /\ NoLostWakeup

-----------------------------------------------------------------------------

LEMMA FlightInitInv == FlightInit => FlightInv
  BY CallsAssumption DEF FlightInit, FlightInv, FlightTypeOK, Stages, InFlight, Sharing, Recorded,
     EntryOfSameKey, ValStored, MapEntryInFlight, SharedResult, NoLostWakeup

LEMMA LookupInv ==
  ASSUME FlightInv, NEW c \in Calls, NEW k \in Keys, Lookup(c, k)
  PROVE  FlightInv'
<1> USE CallsAssumption DEF FlightInv, FlightTypeOK, Stages, InFlight, Sharing, Lookup, Goto
<1>1. FlightTypeOK'
  OBVIOUS
<1>2. Recorded'
  BY DEF Recorded
<1>3. EntryOfSameKey'
  BY DEF EntryOfSameKey, MapEntryInFlight
<1>4. ValStored'
  BY DEF ValStored
<1>5. MapEntryInFlight'
  BY DEF MapEntryInFlight
<1>6. SharedResult'
  BY DEF SharedResult, Recorded, EntryOfSameKey
<1>7. NoLostWakeup'
  BY DEF NoLostWakeup, Recorded, EntryOfSameKey
<1> QED
  BY <1>1, <1>2, <1>3, <1>4, <1>5, <1>6, <1>7

\* The steps of the call that executes f.
LEMMA ExecuteInv ==
  ASSUME FlightInv, NEW c \in Calls, Insert(c) \/ Store(c) \/ Notify(c) \/ Remove(c)
  PROVE  FlightInv'
<1> USE CallsAssumption DEF FlightInv, FlightTypeOK, Stages, InFlight, Sharing, Goto,
        Insert, Store, Notify, Remove
<1>1. FlightTypeOK'
  BY DEF Recorded
<1>2. Recorded'
  BY DEF Recorded
<1>3. EntryOfSameKey'
  BY DEF EntryOfSameKey
<1>4. ValStored'
  BY DEF ValStored
<1>5. MapEntryInFlight'
  BY DEF MapEntryInFlight, Recorded
<1>6. SharedResult'
  BY DEF SharedResult, Recorded, EntryOfSameKey
<1>7. NoLostWakeup'
  BY DEF NoLostWakeup, Recorded, EntryOfSameKey
<1> QED
  BY <1>1, <1>2, <1>3, <1>4, <1>5, <1>6, <1>7

\* The steps of a duplicate.
LEMMA ShareInv ==
  ASSUME FlightInv, NEW c \in Calls, Arm(c) \/ LookForValue(c) \/ Wake(c)
  PROVE  FlightInv'
<1> USE CallsAssumption DEF FlightInv, FlightTypeOK, Stages, InFlight, Sharing, Goto, Arm, LookForValue, Wake
<1>1. FlightTypeOK'
  OBVIOUS
<1>2. Recorded'
  BY DEF Recorded
<1>3. EntryOfSameKey'
  BY DEF EntryOfSameKey
<1>4. ValStored'
  BY DEF ValStored
<1>5. MapEntryInFlight'
  BY DEF MapEntryInFlight
<1>6. SharedResult'
  BY DEF SharedResult, Recorded, EntryOfSameKey, ValStored
<1>7. NoLostWakeup'
  BY DEF NoLostWakeup, Recorded, EntryOfSameKey, ValStored
<1> QED
  BY <1>1, <1>2, <1>3, <1>4, <1>5, <1>6, <1>7

LEMMA ForgetInv ==
  ASSUME FlightInv, NEW k \in Keys, Forget(k)
  PROVE  FlightInv'
  BY CallsAssumption DEF FlightInv, FlightTypeOK, Forget, Recorded, EntryOfSameKey,
     ValStored, MapEntryInFlight, SharedResult, NoLostWakeup

LEMMA AbandonInv ==
  ASSUME FlightInv, NEW c \in Calls, Abandon(c)
  PROVE  FlightInv'
<1> USE CallsAssumption DEF FlightInv, FlightTypeOK, Stages, InFlight, Sharing, Goto, Abandon
<1>1. FlightTypeOK' /\ Recorded' /\ EntryOfSameKey'
  BY DEF Recorded, EntryOfSameKey
<1>2. ValStored' /\ MapEntryInFlight'
  BY DEF ValStored, MapEntryInFlight
<1>3. SharedResult' /\ NoLostWakeup'
  BY DEF SharedResult, NoLostWakeup, Recorded, EntryOfSameKey
<1> QED
  BY <1>1, <1>2, <1>3

LEMMA FlightStepInv == FlightInv /\ [FlightNext]_flightVars => FlightInv'
<1> SUFFICES ASSUME FlightInv, [FlightNext]_flightVars PROVE FlightInv'
  OBVIOUS
<1>1. ASSUME NEW c \in Calls, Progress(c)
      PROVE  FlightInv'
  BY <1>1, ExecuteInv, ShareInv DEF Progress
<1>2. ASSUME NEW c \in Calls, Abandon(c)
      PROVE  FlightInv'
  BY <1>2, AbandonInv
<1>3. ASSUME NEW c \in Calls, NEW k \in Keys, Lookup(c, k)
      PROVE  FlightInv'
  BY <1>3, LookupInv
<1>4. ASSUME NEW k \in Keys, Forget(k)
      PROVE  FlightInv'
  BY <1>4, ForgetInv
<1>5. CASE UNCHANGED flightVars
  BY <1>5 DEF flightVars, FlightInv, FlightTypeOK, Recorded, EntryOfSameKey, ValStored,
              MapEntryInFlight, SharedResult, NoLostWakeup
<1> QED
  BY <1>1, <1>2, <1>3, <1>4, <1>5 DEF FlightNext, AllOver

THEOREM FlightInvariance == FlightSpec => []FlightInv
  BY FlightInitInv, FlightStepInv, PTL DEF FlightSpec

\* A Group never serves a value from the past: the entry a new call can join is
\* an execution that has not returned (call_async's removal, with any races of
\* removals, insertions and forget).
THEOREM NothingCached == FlightSpec => []MapEntryInFlight
<1>1. FlightInv => MapEntryInFlight
  BY DEF FlightInv
<1> QED
  BY <1>1, FlightInvariance, PTL

\* A duplicate returns the stored value of an execution of its own key.
THEOREM SharesItsKey == FlightSpec => []SharedResult
<1>1. FlightInv => SharedResult
  BY DEF FlightInv
<1> QED
  BY <1>1, FlightInvariance, PTL

\* Creating the Notified before looking at the value leaves no window in which
\* notify_waiters can be missed.
THEOREM NoWakeupLost == FlightSpec => []NoLostWakeup
<1>1. FlightInv => NoLostWakeup
  BY DEF FlightInv
<1> QED
  BY <1>1, FlightInvariance, PTL
=============================================================================
