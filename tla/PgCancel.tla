------------------------------ MODULE PgCancel ------------------------------
(***************************************************************************)
(* Cancelling abandoned queries (postgresql/connection.rs: CancelToken,    *)
(* CancelSlot, QueryGuard, cancel_when_stuck and Drop for RowStream).      *)
(*                                                                         *)
(* Queries run one after the other on one connection.  A query whose       *)
(* future or stream is dropped may get a job, which waits and then asks    *)
(* the server, over a connection of its own, to cancel whatever the        *)
(* connection is running.  Jobs are limited by PENDING_CANCELS and by a    *)
(* semaphore; every atomic operation on them is a step.                    *)
(***************************************************************************)
EXTENDS Naturals, Sequences, FiniteSets

CONSTANTS
  MaxQueries,  \* bound on the queries made; they are numbered as they are made
  Capacity,    \* CANCEL_QUEUE_CAPACITY
  Concurrency  \* CANCEL_CONCURRENCY

ASSUME CancelAssumption ==
  /\ MaxQueries \in Nat
  /\ Capacity \in Nat \ {0}
  /\ Concurrency \in Nat \ {0}

VARIABLES
  caller,     \* "new", "waiting", then "dropped" or "returned"
  conn,       \* "up", "broken" (is_broken), or "gone" with the actor's task
  backlog,    \* the requests in the actor's channel
  taken,      \* the request handle_query is at work on
  active,     \* the query the server is running
  completed,  \* the queries whose completed flag is set
  refused,    \* history: the queries that end without handle_query's answer
  job,        \* where each query's cancellation is
  pending,    \* PENDING_CANCELS
  free,       \* the semaphore's free permits
  requests    \* CancelRequests on their way

Queries == 1..MaxQueries
NoQuery == 0

slots == <<job, pending, free>>
backend == <<conn, backlog, taken, active>>

cancelVars == <<caller, backend, completed, refused, slots, requests>>

\* A job between the increment of PENDING_CANCELS and its decrement, and one
\* that has its permit.
Counted == {"acquire", "undo", "sleep", "send", "release", "sub"}
Permitted == {"sleep", "send", "release"}
JobPlaces == Counted \cup {"none", "drop", "gone"}

CancelTypeOK ==
  /\ caller \in [Queries -> {"new", "waiting", "dropped", "returned"}]
  /\ conn \in {"up", "broken", "gone"}
  /\ backlog \in Seq(Queries)
  /\ taken \in Queries \cup {NoQuery}
  /\ active \in Queries \cup {NoQuery}
  /\ completed \subseteq Queries /\ refused \subseteq Queries
  /\ job \in [Queries -> JobPlaces]
  /\ pending \in Nat
  /\ free \in 0..Concurrency
  /\ requests \subseteq Queries

CancelInit ==
  /\ caller = [q \in Queries |-> "new"]
  /\ conn = "up" /\ backlog = <<>>
  /\ taken = NoQuery /\ active = NoQuery
  /\ completed = {} /\ refused = {}
  /\ job = [q \in Queries |-> "none"]
  /\ pending = 0 /\ free = Concurrency
  /\ requests = {}

-----------------------------------------------------------------------------
(* Callers, the actor and the server.                                      *)

\* cancel_when_stuck: outside a runtime, and for a query that stops itself,
\* there is no job.
Schedule(q) == UNCHANGED job \/ job' = [job EXCEPT ![q] = "drop"]

\* The next query to be made.
Fresh(q) == caller[q] = "new" /\ \A r \in Queries : r < q => caller[r] # "new"

\* execute, or fetch_rows: the request is sent ...
Submit(q) ==
  /\ Fresh(q) /\ conn # "gone"
  /\ caller' = [caller EXCEPT ![q] = "waiting"]
  /\ backlog' = Append(backlog, q)
  /\ UNCHANGED <<conn, taken, active, completed, refused, slots, requests>>

\* ... or nobody is there to receive it: an error, with completed unset.
\* execute drops its guard, fetch_rows has built no stream yet.
SubmitFails(q) ==
  /\ Fresh(q) /\ conn = "gone"
  /\ caller' = [caller EXCEPT ![q] = "returned"]
  /\ refused' = refused \cup {q}
  /\ Schedule(q)
  /\ UNCHANGED <<backend, completed, pending, free, requests>>

\* The actor receives a request and hands it to handle_query; the server runs
\* it, unless it cannot be prepared ...
Take ==
  /\ conn = "up" /\ taken = NoQuery /\ backlog # <<>>
  /\ taken' = Head(backlog) /\ backlog' = Tail(backlog)
  /\ active' \in {Head(backlog), NoQuery}
  /\ UNCHANGED <<caller, conn, completed, refused, slots, requests>>

\* ... or to fail_request, which answers done alone and never sets completed.
FailRequest ==
  /\ conn = "broken" /\ taken = NoQuery /\ backlog # <<>>
  /\ refused' = refused \cup {Head(backlog)} /\ backlog' = Tail(backlog)
  /\ UNCHANGED <<caller, conn, taken, active, completed, slots, requests>>

\* The connection is lost.
Break ==
  /\ conn = "up"
  /\ conn' = "broken"
  /\ UNCHANGED <<caller, backlog, taken, active, completed, refused, slots, requests>>

\* The actor's task is dropped with its runtime, or panics: its channel closes.
ActorGone ==
  /\ conn # "gone"
  /\ conn' = "gone"
  /\ refused' = refused \cup {q \in Queries : q = taken \/ \E i \in DOMAIN backlog : backlog[i] = q}
  /\ backlog' = <<>> /\ taken' = NoQuery
  /\ UNCHANGED <<caller, active, completed, slots, requests>>

\* The server is done with what it was running.
ServerFinishes ==
  /\ active # NoQuery
  /\ active' = NoQuery
  /\ UNCHANGED <<caller, conn, backlog, taken, completed, refused, slots, requests>>

\* handle_query has its result (the server's last reply, an error before the
\* query ran, or the loss of the connection) and sets completed before it
\* answers.
MarkCompleted ==
  /\ taken # NoQuery
  /\ taken # active \/ conn = "broken"
  /\ completed' = completed \cup {taken}
  /\ taken' = NoQuery
  /\ UNCHANGED <<caller, conn, backlog, active, refused, slots, requests>>

\* The QueryGuard of an execute is dropped; it does not look at completed.
DropGuard(q, p) ==
  /\ caller' = [caller EXCEPT ![q] = p]
  /\ Schedule(q)
  /\ UNCHANGED <<backend, refused, pending, free, requests>>

\* A RowStream is dropped; it does.
DropStream(q, p) ==
  /\ caller' = [caller EXCEPT ![q] = p]
  /\ IF q \in completed THEN UNCHANGED job ELSE Schedule(q)
  /\ UNCHANGED <<backend, completed, refused, pending, free, requests>>

\* The request is over: execute has a result or an error and sets completed
\* itself, or the stream is read to its end, with completed set or not.
CallerReturns(q) ==
  /\ caller[q] = "waiting" /\ q \in completed \cup refused
  /\ \/ completed' = completed \cup {q} /\ DropGuard(q, "returned")
     \/ DropStream(q, "returned")

\* The future or the stream is dropped before that.
CallerDrops(q) ==
  /\ caller[q] = "waiting"
  /\ \/ UNCHANGED completed /\ DropGuard(q, "dropped")
     \/ DropStream(q, "dropped")

-----------------------------------------------------------------------------
(* cancel_when_stuck and CancelSlot.                                       *)

Step(q, from, to) == job[q] = from /\ job' = [job EXCEPT ![q] = to]
JobKeeps == UNCHANGED <<caller, backend, completed, refused>>

\* CancelSlot::acquire: fetch_add, and the check of what was there before.
Add(q) ==
  /\ Step(q, "drop", IF pending >= Capacity THEN "undo" ELSE "acquire")
  /\ pending' = pending + 1
  /\ UNCHANGED <<free, requests>> /\ JobKeeps

\* try_acquire_owned; with a permit the job is spawned.
TakePermit(q) ==
  /\ \/ free > 0 /\ Step(q, "acquire", "sleep") /\ free' = free - 1
     \/ free = 0 /\ Step(q, "acquire", "undo") /\ UNCHANGED free
  /\ UNCHANGED <<pending, requests>> /\ JobKeeps

\* Mutant: a refused reservation stays counted.
UndoNothing(q) ==
  /\ Step(q, "undo", "gone")
  /\ UNCHANGED <<pending, free, requests>> /\ JobKeeps

\* There is no slot: fetch_sub, and the cancellation is skipped.
Undo(q) ==
  /\ Step(q, "undo", "gone")
  /\ pending' = pending - 1
  /\ UNCHANGED <<free, requests>> /\ JobKeeps

\* Mutant: the job waits for the query.
WakeWhenComplete(q) ==
  /\ q \in completed
  /\ Step(q, "sleep", "release")
  /\ UNCHANGED <<pending, free, requests>> /\ JobKeeps

\* Mutant: completed is not looked at after the delay.
WakeAnyway(q) ==
  /\ Step(q, "sleep", "send")
  /\ UNCHANGED <<pending, free, requests>> /\ JobKeeps

\* The delay is over: the job ends if the query is complete by now.
WakeUp(q) ==
  /\ Step(q, "sleep", IF q \in completed THEN "release" ELSE "send")
  /\ UNCHANGED <<pending, free, requests>> /\ JobKeeps

\* CancelToken::cancel_with_timeout: the request is sent, or it fails or times
\* out; the result is ignored.
Send(q) ==
  /\ Step(q, "send", "release")
  /\ \E ok \in BOOLEAN : requests' = IF ok THEN requests \cup {q} ELSE requests
  /\ UNCHANGED <<pending, free>> /\ JobKeeps

\* The runtime shuts down and drops the job.
ShutDown(q) ==
  /\ \/ Step(q, "sleep", "release")
     \/ Step(q, "send", "release")
  /\ UNCHANGED <<pending, free, requests>> /\ JobKeeps

\* Drop for CancelSlot: the permit, ...
GivePermit(q) ==
  /\ Step(q, "release", "sub")
  /\ free' = free + 1
  /\ UNCHANGED <<pending, requests>> /\ JobKeeps

\* ... then the count.
Sub(q) ==
  /\ Step(q, "sub", "gone")
  /\ pending' = pending - 1
  /\ UNCHANGED <<free, requests>> /\ JobKeeps

\* The server gets a CancelRequest: it stops what the connection is running.
CancelArrives(q) ==
  /\ q \in requests
  /\ requests' = requests \ {q}
  /\ active' = NoQuery
  /\ UNCHANGED <<caller, conn, backlog, taken, completed, refused, slots>>

Job(q) ==
  \/ Add(q) \/ TakePermit(q) \/ Undo(q) \/ WakeUp(q) \/ Send(q)
  \/ GivePermit(q) \/ Sub(q)

\* Every query is over and so is every job.
Quiet ==
  /\ \A q \in Queries : caller[q] \in {"dropped", "returned"} /\ job[q] \in {"none", "gone"}
  /\ backlog = <<>> /\ taken = NoQuery /\ active = NoQuery /\ requests = {}
  /\ UNCHANGED cancelVars

CancelNext ==
  \/ Take \/ FailRequest \/ Break \/ ActorGone
  \/ ServerFinishes \/ MarkCompleted
  \/ \E q \in Queries :
       \/ Submit(q) \/ SubmitFails(q) \/ CallerReturns(q) \/ CallerDrops(q)
       \/ Job(q) \/ ShutDown(q) \/ CancelArrives(q)
  \/ Quiet

CancelSpec == CancelInit /\ [][CancelNext]_cancelVars

\* The runtime runs every job.
CancelFairness == \A q \in Queries : WF_cancelVars(Job(q))

CancelFairSpec == CancelSpec /\ CancelFairness

-----------------------------------------------------------------------------

CountedJobs == {q \in Queries : job[q] \in Counted}
PermittedJobs == {q \in Queries : job[q] \in Permitted}

\* No slot is lost or counted twice: PENDING_CANCELS is the number of
\* reservations being made, held or given back, and the free permits are those
\* no job has (connection.rs:158-161, "a dead runtime cannot leak slots").
SlotsAccounted ==
  /\ pending = Cardinality(CountedJobs)
  /\ free + Cardinality(PermittedJobs) = Concurrency

\* Every slot comes back: whatever becomes of the query, the server and the
\* runtime, the jobs end and the next abandoned query finds all slots free.
SlotsComeBack ==
  \A q \in Queries : (job[q] \in Counted) ~> (job[q] = "gone")

\* "Cancels a query when dropped before it completes" (connection.rs:195): a
\* query whose caller got its answer never sends a CancelRequest, although its
\* guard schedules a job like any other.  The refused are left out: fail_request
\* and a closed channel end them with completed unset, and dropping their stream
\* or the guard of a failed send does schedule one (connection.rs:654-663, 937,
\* 1664-1668).
CancelsOnlyAbandoned == \A q \in requests : caller[q] = "dropped" \/ q \in refused
=============================================================================
