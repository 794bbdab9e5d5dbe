----------------------------- MODULE Scheduler -----------------------------
(***************************************************************************)
(* scheduler::JobExecutor (scheduler/lib.rs, job.rs): a loop looks at every *)
(* job once per period and spawns a task for each one that is due and not  *)
(* marked running; run and stop switch the loop on and off.                *)
(*                                                                         *)
(* An action is what happens between two awaits.  There is no clock: a job *)
(* is not due until Tick, if ever (next_run_at may be None), and the time  *)
(* between two checks has any length.                                      *)
(***************************************************************************)
EXTENDS Naturals

CONSTANTS
  MaxJobs,  \* bound on the jobs added
  Users,    \* callers of stop
  MaxLoops, \* bound on the loops of successive runs that are alive at once
  MaxTasks, \* bound on the tasks spawned for jobs that are alive at once
  Retries   \* retries_after_failure

ASSUME SchedulerAssumption ==
  /\ MaxJobs \in Nat /\ MaxLoops \in Nat /\ MaxTasks \in Nat
  /\ Retries \in Nat

VARIABLES
  running,  \* JobExecutorInternal.running
  jobs,     \* the length of jobs: a job is its position
  due,      \* the jobs whose next_run_at has passed
  flag,     \* Job.is_running
  loop,     \* where each loop is, and at which job
  user,     \* likewise for the polling of a graceful stop
  task,     \* the job of each task, where it is, and its failed attempts
  owed      \* per stop: executions under way when it was called, and not over

vars == <<running, jobs, due, flag, loop, user, task, owed>>

Jobs == 1..MaxJobs
Loops == 1..MaxLoops
Tasks == 1..MaxTasks

\* The places of a loop that holds jobs.read().
Scanning == {"pending", "check"}
Idle == [pc |-> "none", at |-> 1]
NoTask == [pc |-> "none", job |-> 0, tries |-> 0]

TypeOK ==
  /\ running \in BOOLEAN
  /\ jobs \in 0..MaxJobs
  /\ due \in SUBSET Jobs
  /\ flag \in [Jobs -> BOOLEAN]
  /\ loop \in [Loops -> [pc : {"none", "sleep"} \cup Scanning, at : Nat]]
  /\ user \in [Users -> [pc : {"none", "poll", "nap"}, at : Nat]]
  /\ task \in [Tasks -> [pc : {"none", "spawned", "exec", "clear", "resched"},
                         job : 0..MaxJobs, tries : 0..Retries]]
  /\ owed \in [Users -> SUBSET Tasks]

Init ==
  /\ running = FALSE
  /\ jobs = 0
  /\ due = {}
  /\ flag = [j \in Jobs |-> FALSE]
  /\ loop = [l \in Loops |-> Idle]
  /\ user = [u \in Users |-> Idle]
  /\ task = [t \in Tasks |-> NoTask]
  /\ owed = [u \in Users |-> {}]

\* The tasks that are inside the job's function.
Executing(j) == {t \in Tasks : task[t].job = j /\ task[t].pc = "exec"}

\* The tasks between set_running(true) and set_running(false).
Marked(j) == {t \in Tasks : task[t].job = j /\ task[t].pc \in {"exec", "clear"}}

\* A task for the job panicked: nobody will reset the flag.
Stuck(j) == flag[j] /\ Marked(j) = {}

-----------------------------------------------------------------------------
(* The executor. *)

\* add_job_with_scheduler: needs the write lock of jobs.
AddJob ==
  /\ jobs < MaxJobs
  /\ \A l \in Loops : loop[l].pc \notin Scanning
  /\ \A u \in Users : user[u].pc # "poll"
  /\ jobs' = jobs + 1
  /\ UNCHANGED <<running, due, flag, loop, user, task, owed>>

\* JobExecutor::run: an error if the flag was set (nothing changes), else a
\* new loop, even if the loop of an earlier run still sleeps.
Run(l) ==
  /\ ~running
  /\ loop[l].pc = "none" /\ \A k \in Loops : k < l => loop[k].pc # "none"
  /\ running' = TRUE
  /\ loop' = [loop EXCEPT ![l].pc = "sleep"]
  /\ UNCHANGED <<jobs, due, flag, user, task, owed>>

\* The sleep between two checks is over, or the loop has just been spawned:
\* while executor.is_running(), and the read lock of run_pending_jobs.
Test(l) ==
  /\ loop[l].pc = "sleep"
  /\ loop' = [loop EXCEPT ![l].pc =
       CASE ~running -> "none"
         [] running /\ jobs = 0 -> "sleep"
         [] OTHER -> "pending"]
  /\ UNCHANGED <<running, jobs, due, flag, user, task, owed>>

\* On to the next job, or to the sleep after the last one.
Onward(l) ==
  IF loop[l].at < jobs THEN [pc |-> "pending", at |-> loop[l].at + 1]
                            ELSE [pc |-> "sleep", at |-> 1]

IsPending(l) ==
  /\ loop[l].pc = "pending"
  /\ loop' = [loop EXCEPT ![l] = IF loop[l].at \in due
                                 THEN [@ EXCEPT !.pc = "check"] ELSE Onward(l)]
  /\ UNCHANGED <<running, jobs, due, flag, user, task, owed>>

\* Mutant: the branches are swapped, a job that is not running is skipped.
CheckSwapped(l) ==
  /\ loop[l].pc = "check"
  /\ loop' = [loop EXCEPT ![l] = Onward(l)]
  /\ UNCHANGED <<running, jobs, due, flag, user, task, owed>>

\* The job's is_running, and tokio::spawn if it is not set.
Check(l) ==
  LET j == loop[l].at IN
  /\ loop[l].pc = "check"
  /\ loop' = [loop EXCEPT ![l] = Onward(l)]
  /\ IF flag[j] THEN UNCHANGED task
     ELSE \E t \in Tasks :
            /\ task[t].pc = "none" /\ \A s \in Tasks : s < t => task[s].pc # "none"
            /\ task' = [task EXCEPT ![t] = [pc |-> "spawned", job |-> j, tries |-> 0]]
  /\ UNCHANGED <<running, jobs, due, flag, user, owed>>

-----------------------------------------------------------------------------
(* JobScheduler::run and Job::run, in the spawned task. *)

\* Mutant: set_running(true) does not look at what is there.
SetRunningBlindly(t) ==
  /\ task[t].pc = "spawned"
  /\ flag' = [flag EXCEPT ![task[t].job] = TRUE]
  /\ task' = [task EXCEPT ![t].pc = "exec"]
  /\ UNCHANGED <<running, jobs, due, loop, user, owed>>

\* set_running(true): an error, and no execution, if the flag was set.
SetRunning(t) ==
  /\ task[t].pc = "spawned"
  /\ flag' = [flag EXCEPT ![task[t].job] = TRUE]
  /\ task' = [task EXCEPT ![t].pc = IF flag[task[t].job] THEN "resched" ELSE "exec"]
  /\ UNCHANGED <<running, jobs, due, loop, user, owed>>

\* Execution t is over, for every stop that waits for it.
Over(t) == owed' = [u \in Users |-> owed[u] \ {t}]

\* The loop over the retries is left.
Ended(t) ==
  /\ task' = [task EXCEPT ![t] = [pc |-> "clear", job |-> task[t].job, tries |-> 0]]
  /\ Over(t)

\* One call of the function succeeds ...
Succeed(t) ==
  /\ task[t].pc = "exec"
  /\ Ended(t)
  /\ UNCHANGED <<running, jobs, due, flag, loop, user>>

\* Mutant: the attempts start over when they are used up.
FailForever(t) ==
  /\ task[t].pc = "exec"
  /\ task' = [task EXCEPT ![t].tries = (@ + 1) % (Retries + 1)]
  /\ UNCHANGED <<running, jobs, due, flag, loop, user, owed>>

\* ... or fails, and is repeated while there are retries left ...
Fail(t) ==
  /\ task[t].pc = "exec"
  /\ IF task[t].tries < Retries
     THEN task' = [task EXCEPT ![t].tries = @ + 1] /\ UNCHANGED owed
     ELSE Ended(t)
  /\ UNCHANGED <<running, jobs, due, flag, loop, user>>

\* ... or panics: the task is gone and the flag stays set.
Panic(t) ==
  /\ task[t].pc = "exec"
  /\ task' = [task EXCEPT ![t] = NoTask]
  /\ Over(t)
  /\ UNCHANGED <<running, jobs, due, flag, loop, user>>

\* set_running(false).
Clear(t) ==
  /\ task[t].pc = "clear"
  /\ flag' = [flag EXCEPT ![task[t].job] = FALSE]
  /\ task' = [task EXCEPT ![t].pc = "resched"]
  /\ UNCHANGED <<running, jobs, due, loop, user, owed>>

\* schedule.next and last_run_at, under the locks; after an error too.
Reschedule(t) ==
  /\ task[t].pc = "resched"
  /\ due' = due \ {task[t].job}
  /\ task' = [task EXCEPT ![t] = NoTask]
  /\ UNCHANGED <<running, jobs, flag, loop, user, owed>>

\* next_run_at is in the past now.
Tick(j) ==
  /\ j \in 1..jobs
  /\ due' = due \cup {j}
  /\ UNCHANGED <<running, jobs, flag, loop, user, task, owed>>

-----------------------------------------------------------------------------
(* JobExecutor::stop. *)

\* Where the polling of is_running_job stands after position i.
PollFrom(i) == IF i <= jobs THEN [pc |-> "poll", at |-> i]
                                 ELSE Idle

\* An error if the flag was not set (nothing changes).  A graceful stop goes
\* on to wait for the jobs.
Stop(u, graceful) ==
  /\ running
  /\ user[u].pc = "none"
  /\ running' = FALSE
  /\ user' = [user EXCEPT ![u] = IF graceful THEN PollFrom(1) ELSE @]
  /\ owed' = [owed EXCEPT ![u] = IF graceful THEN UNION {Executing(j) : j \in Jobs} ELSE {}]
  /\ UNCHANGED <<jobs, due, flag, loop, task>>

\* Mutant: only the first job is looked at again.
PollOne(u) ==
  /\ user[u].pc = "poll"
  /\ user' = [user EXCEPT ![u] =
       IF flag[1] THEN [pc |-> "nap", at |-> 1] ELSE PollFrom(jobs + 1)]
  /\ UNCHANGED <<running, jobs, due, flag, loop, task, owed>>

\* is_running_job: one flag after the other, until one is set.
Poll(u) ==
  /\ user[u].pc = "poll"
  /\ user' = [user EXCEPT ![u] =
       IF flag[user[u].at] THEN [pc |-> "nap", at |-> 1] ELSE PollFrom(user[u].at + 1)]
  /\ UNCHANGED <<running, jobs, due, flag, loop, task, owed>>

\* The sleep between two looks is over.
Nap(u) ==
  /\ user[u].pc = "nap"
  /\ user' = [user EXCEPT ![u] = PollFrom(1)]
  /\ UNCHANGED <<running, jobs, due, flag, loop, task, owed>>

-----------------------------------------------------------------------------

LoopStep(l) == Test(l) \/ IsPending(l) \/ Check(l)
TaskStep(t) == SetRunning(t) \/ Succeed(t) \/ Fail(t) \/ Clear(t) \/ Reschedule(t)
UserStep(u) == Poll(u) \/ Nap(u)

Next ==
  \/ AddJob \/ \E j \in Jobs : Tick(j)
  \/ \E l \in Loops : Run(l) \/ LoopStep(l)
  \/ \E t \in Tasks : TaskStep(t) \/ Panic(t)
  \/ \E u \in Users : UserStep(u) \/ \E graceful \in BOOLEAN : Stop(u, graceful)

Spec == Init /\ [][Next]_vars

\* The runtime runs every task that can run, and the jobs' functions end.
Fairness ==
  /\ \A l \in Loops : WF_vars(LoopStep(l))
  /\ \A t \in Tasks : WF_vars(TaskStep(t))
  /\ \A u \in Users : WF_vars(UserStep(u))

FairSpec == Spec /\ Fairness

-----------------------------------------------------------------------------

\* A job never runs beside itself, although the loop reads is_running before
\* the task that sets it exists, the next check may come first, and a restart
\* may leave two loops at work (lib.rs:93, job.rs:158).
NoOverlap == \A j \in Jobs : \A s, t \in Executing(j) : s = t

\* The flag has an owner: it is set exactly while one task is between its two
\* set_running calls, or after a panic; a task that lost the race neither sets
\* nor resets it (job.rs:124-146).
FlagHasOwner ==
  \A j \in Jobs : (Marked(j) # {} => flag[j]) /\ \A s, t \in Marked(j) : s = t

\* "Wait for all Jobs to complete" (lib.rs:221): when a graceful stop returns,
\* every execution that was under way when it was called is over.
GracefulStopWaits == \A u \in Users : user[u].pc = "none" => owed[u] = {}

\* A graceful stop returns, unless a job that panicked holds its flag or
\* somebody starts the executor again.
GracefulStopReturns ==
  \A u \in Users : (user[u].pc = "poll") ~>
    (user[u].pc = "none" \/ running \/ \E j \in Jobs : Stuck(j))

\* While the executor runs, a job that is due gets executed (or is being
\* executed), unless it panicked before.
DueJobRuns ==
  \A j \in Jobs : (running /\ j \in due) ~>
    (flag[j] \/ j \notin due \/ ~running)
=============================================================================
