# A TLA+ verification of stdx

stdx is a collection of Rust crates meant to extend the standard library. Most
of them are pure and sequential (encodings, hashes, parsers, big numbers) or are
vendored. The logic that is hard to get right and hard to test is in the crates
that run concurrently with their callers, first of all the PostgreSQL client:
an actor per connection, a pool, transactions that clean up in `Drop`, a
statement cache shared with the server, best-effort cancellation. Next come the
crates that spawn tasks for their callers (`scheduler`, `errgroup`,
`singleflight`), and sequential code whose environment cuts its work at
arbitrary points (the csv reader, batched UDP sends, the incremental BLAKE3
hasher). This project models those, checks them with TLC on small instances and
proves the central safety properties with TLAPS for every size.

Every definition is written from the source lines that `PROJECT.json` ("map")
names. Paths below are relative to `src/`.

## Contents

1. Inventory of the system
2. Modules, and how they correspond to the code
3. What the runs check
4. Fairness
5. What is proved
6. Where the code and its documentation differ
7. What is not modelled
8. Plan

## 1. Inventory of the system

### Modelled

| Component | State it keeps | Operations | What makes it correct |
|---|---|---|---|
| connection pool, `postgresql/pool.rs` | stack of idle connections under a mutex, semaphore of `pool_size` permits, `Notify`, `closed` flag | `from_config`, `get`, drop of a `Checkout`, `close`, reaper | a connection has one owner; no permit is lost on any path; a closed pool stays empty and ends every wait; nobody waits in a pool nobody uses |
| connection actor, `postgresql/connection.rs` | request queue, per-request channels, read and write buffers, `broken` flag | `fetch_rows`, `execute`, `execute_script`, `copy_in`, `copy_out`; the actor's handlers and read loops | the connection is in step between requests; no success is reported that did not happen; streams are complete or end with an error; a COPY is committed only when finished, and then whole; every request is answered |
| statement cache, same file | `IndexMap` from statement hash to name, `pending_closes`, name counter | hit, miss, evict, displace, re-prepare | a Bind reaches its own statement; the server's statements stay bounded and are not leaked |
| transactions, `postgresql/transaction.rs` | the server's transaction, the checkout and who holds it | `begin`, `commit`, `rollback`, statements, streams, `Drop` | a transaction ends with its handle; only committed work stays |
| query cancellation, `postgresql/connection.rs` | `PENDING_CANCELS`, a semaphore, `completed` flags | drop of a guard or stream, `CancelSlot`, the delayed job | slots are neither lost nor counted twice; they come back; an answered query sends no CancelRequest |
| singleflight, `singleflight/singleflight.rs` | map of in-flight entries, each with a value and a `Notify` | `call_async`, `forget` | nothing is cached; results are those of the caller's key; no wake-up is lost; every call returns |
| scheduler, `scheduler/lib.rs`, `job.rs` | list of jobs under a lock, `running` flag, one `is_running` flag per job | `add_job`, `run`, `stop`, the executor's loop, a task per execution | a job never runs beside itself; a graceful stop waits and returns; what is due is run |
| errgroup, `errgroup/errgroup.rs` | a `JoinSet` under a mutex, an optional semaphore | `set_limit`, `spawn`, `try_spawn`, `wait` | the limit holds; no slot is lost; `wait` returns the first error, once every task is over |
| csv reader, `csv/reader.rs` | buffer, scratch, field ranges, parser state, line counters | the iterator over rows, `fill_buf`, `compact` | the rows depend on the input only, never on how it was split |
| batched UDP sends, `tokio_fast_udp/socket.rs` | `SendState` across retries | `send_many`: GSO, `sendmmsg`, segmentation in user space | every datagram at most once and in order; the count is what was sent |
| BLAKE3 hasher, `crypto/src/blake3/hasher.rs` | an open chunk, a stack of chaining values, the output position | `update`, `finalize_xof`, `fill`, one-shot `hash` | the tree depends on the input only, never on how it was split or on the SIMD degree |

### How they interact

A caller takes a `PooledConnection` or a `Transaction` from the pool. Both hold
an `Arc<Checkout>`, and every row stream holds another clone; the connection is
returned when the last clone is dropped. A handle sends requests into the
unbounded queue of the connection's actor, which serves them one at a time. It
reports through a oneshot (`done`) and, for rows and COPY, a bounded channel.
When the actor meets an error after which the byte stream cannot be trusted it
sets `broken`, which the pool looks at when it pops or takes back a connection.
A transaction that is dropped queues `ROLLBACK` and lets the connection go
without waiting; that this is safe depends on the order of the queue. A dropped
query schedules a job that may cancel, over another connection, whatever its
connection is running by then.

`scheduler`, `errgroup`, the csv reader, the UDP socket and the hasher use
neither the client nor each other; each is modelled with its own environment
(the runtime, the source of bytes, the kernel, the caller).

### What is hard here

* Interleavings between two critical sections: `get` re-checks the idle list,
  registers with `Notify` and waits on the semaphore in separate steps; `close`
  and the reaper run in between; `call_async` unlocks between lookup and insert.
* Futures and handles dropped at any await.
* A protocol with modes: after an error the server skips to Sync, inside COPY it
  ignores Sync, and whatever is left unread belongs to the next request.
* Retries after part of the result was delivered (stale plans).
* Counters and limits kept in two places (pending count and semaphore, permit
  and connection, cache and server).
* A flag that is read in one task and set in another (`scheduler`), permits that
  travel with a task and must come back when it fails or panics (`errgroup`).
* Work that is cut short by the environment: a read that ends between `\r` and
  `\n` or behind a quote, a system call that accepts half a batch, an update that
  ends inside a chunk.

`PROJECT.json` ("hazards") lists these at their lines, with the properties that
cover them.

## 2. Modules, and how they correspond to the code

| Module | Stands for | Notes |
|---|---|---|
| `BoundedPool` | what a pool promises | each permit is free, parked or with one user; a drained pool parks nothing |
| `PgPool` | `pool.rs` | one action per critical section, atomic operation or await |
| `PgConnection` | `connection.rs`, requests and actor, with the server | one action per message read or batch written |
| `PgStatementCache` | `attempt_query`, `prepare`, `evict_statements`, `write_pending_closes`, with the server's statements | one action per part of a query up to a flush |
| `PgTransaction` | `transaction.rs` composed with checkout, queue and server | sessions share one pooled connection |
| `PgCancel` | `CancelSlot`, `QueryGuard`, `cancel_when_stuck`, `Drop for RowStream` | one action per atomic operation |
| `SingleFlight` | `singleflight.rs` | one action per critical section or await |
| `Scheduler` | `scheduler/lib.rs`, `job.rs` | one action per part between two awaits |
| `ErrGroup` | `errgroup.rs` | one action per critical section, poll or join |
| `CsvReader` | `csv/reader.rs` | one action per round of `read_row`'s loop; a byte-by-byte reference definition of the rows |
| `FastUdp` | `send_many`, `send_batch`, `sendmmsg_batch` of `tokio_fast_udp/socket.rs` (Linux) | one action per system call |
| `Blake3Hasher` | `crypto/src/blake3/hasher.rs` | one action per call or round of `update`'s loop; a recursive reference definition of the tree |
| `*Proofs` | theorems about the module of that name | for the pool, the connection (its streams in `PgConnectionRowsProofs`), the statement cache, transactions and cancellation; `TasksProofs` for scheduler, errgroup and singleflight, `SplitsProofs` for the csv reader and the UDP sends |
| `MC*` | instances for TLC: symmetry sets, scripts, hashes | `MCPgConnection` bounds what follows a fault (`OneFault`); `MCPgSession` holds `PgStatementCache` and `PgTransaction`, `MCCalls` `SingleFlight` and `PgCancel`, `MCTasks` `Scheduler` and `ErrGroup`, `MCSplits` the last three; a variable `unit` says whose behaviour it is, the others stay idle |

**PgPool.** The permit travels with the connection opened under it, so a
connection is named by its permit. `pc` says where each caller is in `get`
(`pop1`, `create`, `pop2`, `poll`, `wait`, `permit`, `connect`), in the use of
its checkout, or in `Checkout::drop` (`drop`, `push`, `notify`, `discard`). A
connection that is not parked is dropped after its permit (`pool.rs:135-136`, and
`push_idle`'s return on a closed pool, `pool.rs:64`): `discard` is between the two,
when the permit is free and the connection still exists. `Notify` is
modelled as tokio documents it, because the code depends on its details: a
notification is stored when nobody is registered, a `Notified` counts as
registered for `notify_one` only once polled, for `notify_waiters` once
created, and a notified future that is dropped passes the notification on. The
semaphore grants in queue order. Which idle connections have expired is any set
(`Reap`), and `alive` may become false at any time (`Break`). There is no clock:
a waiting getter may time out at any moment. The refinement of `BoundedPool` maps a permit
to the semaphore, to the caller whose local it is, or to the idle list.

**PgConnection.** `act` is the actor: which loop it is in and the locals that
survive an await. `up` and `down` are the two directions of the socket, buffers
included. Messages carry the request they belong to as a ghost field that no
action of the actor reads. The server is modelled from the message flow the
client is written against: it answers in order, skips to Sync after an error,
ignores Sync in COPY mode, runs a script up to its first error or COPY. Faults
are constants: `Losing` (the link may go down), `Garbled` and `MaxExtra` (frames
the decoder rejects, rows that do not parse, asynchronous messages),
`Unencodable` (a message that cannot be encoded). A COPY writer's `write` takes the
shared buffer first and then waits for room in the channel; `DropWrite` is its
future dropped there, which loses the chunk (`lost`) and leaves the writer usable.
`done` tells `fail_request`'s answer ("refused") from a handler's.

**PgStatementCache.** The cache is a sequence in `IndexMap` order, with
`swap_remove` and replacement in place as in `indexmap/src/inner.rs`. `Hash` may
collide. `size` is a variable fixed at the start, so that one run covers the
disabled cache too. `lost` and `dropped` are history: names whose `Close` was
drained for a request that was then not sent, and names the server dropped.
`PrepareBreaksOff` is `prepare`'s return on a reply it cannot decode
(`connection.rs:1615`), which does not mark the connection broken: the statement it
parsed stays on the server without an owner (`orphans`), and from then on the actor
may read any answer (`inStep`).

**PgTransaction.** `holds` is the set of holders of the checkout; the connection
is free when it is empty, however much is still queued. The server has one
transaction, whose opener is recorded. `NotRun` is a request answered with an error
and not run: the server refuses it (a late cancel, `statement_timeout`), which aborts
an open transaction, or `prepare` breaks off, after which replies and requests are
no longer `aligned`. `commit` and `rollback` are done all the same
(`transaction.rs:59`, 71). `Aborted` is `handle_query`'s second attempt after a stale
plan: inside a transaction the first refusal has aborted it. `ran`, `begun`, `asked`
and `left` are history variables for the properties.

**PgCancel.** A job goes through `drop`, `acquire`, `sleep`, `send`,
`release`, `sub`, `gone`; each is one atomic operation on `PENDING_CANCELS`, the
semaphore or the network. `ShutDown` drops a sleeping or sending job. Queries are
numbered as they are made, on one connection that is up, broken, or gone with its
actor. `completed` is set by `handle_query` only: a request that `fail_request` ends,
one whose actor is gone and one that could not be sent (`connection.rs:654-663`,
950-952, 1664-1668) end with it unset, and `refused` remembers them.

**SingleFlight.** A call creates at most one entry, so entry, execution and value
are named by the call. `Abandon` is a dropped future or a panic in the function.

**Scheduler.** A loop is the task `run` spawns; several are alive when `stop` and
`run` follow each other within one sleep, which is why `MaxLoops` is not 1.
`loop[l].at` is the job the loop stands at, under the read lock of `jobs` (which
keeps `AddJob` out). `Check` reads the job's flag and spawns; the flag is set
later, by the task (`SetRunning`). There is no clock: `Tick` makes a job due, and
sleeps have any length. `owed` is history: the executions a graceful stop found
under way. `MaxTasks` bounds the tasks alive at once: at the bound a loop waits
where the code would spawn one more.

**ErrGroup.** A task of `spawn` takes its permit when it is first polled, one of
`try_spawn` brings it. `Release` is the drop of the permit with the task's
future: tokio hands it to the task that has waited longest. `Complete` is the
moment the `JoinSet` learns of the task, so that `set` is the order `join_next`
yields. `Drop` is the group, or `wait`'s future, going away. `failed` is history.

**CsvReader.** A byte is what the parser tells apart. `rd` has the fields of
`Reader`, positions count from 0 as in the code, and field ranges point into the
buffer or the scratch space, so that a wrong position reads wrong bytes.
`CompactFrom` is `compact`'s 4096, a parameter so that small inputs reach it. The
source hands out any number of bytes at each `fill_buf`, or fails. `Expected` is
the definition the rows are compared with: it reads the input once, byte by
byte, and knows no buffer (`Reference[n]` is its state after n bytes, a recursive
function, so that it can be proved about). It is the code's parser without its
buffer and not a specification of CSV: the column limit and a record's line are
those of the code where the docs say otherwise (section 6).

**FastUdp.** `wire` is what the kernel accepted. Each system call may succeed,
accept part (`sendmmsg`), block, fail, or (with GSO) be refused with `EINVAL`.
`at = "ready"` is where `async_io` calls `send_batch` again.

**Blake3Hasher.** A chunk's output is the record of its counter and blocks, a
parent's that of its children, a byte is its position: equal trees are equal
hashes whatever the bytes are. The code's constants (64, 1024, 54) are
parameters.

External parts, modelled from how the code uses them: tokio's `Notify`,
`Semaphore`, channels and timeouts, the network, the PostgreSQL server.

## 3. What the runs check

| Run | Instance | Properties |
|---|---|---|
| `pool_safety` | 4 callers, 2 permits, 1 warm-up connection, 1 stream per checkout | `NoSharing`, `NoLeak`, `NoOrphanConnection`, `ClosedPoolIsEmpty`, `NoStall` |
| `pool_live` | 3 callers, 1 permit, 1 warm-up connection | `ImplementsBoundedPool`, `CloseEndsWaits`, `ConnectReturns` |
| `conn_faults` | 2 requests of all five kinds, channel capacity 1, unexpected COPY in and out, unencodable messages; 2 rows; then at most one fault, with 1 row and one of the two requests a plain execute: a lost link, a rejected frame, an unparsable row or an asynchronous message | `InStep`, `NoFalseSuccess`, `NoSilentTruncation`, `RowsInOrder`, `CopyAllOrNothing` |
| `conn_live` | 2 requests (fetch, script, copy in), 1 row, lost link | `EveryRequestAnswered` |
| `conn_outofstep` | 2 executes, a rejected frame inside `prepare` | `NoFalseSuccess`, violated |
| `conn_emptystream` | 2 requests (fetch, execute), 1 row, lost link | `NeverSilentlyWrong`, violated |
| `session_safety` | 4 statements, 2 with one hash, cache of 0, 1 or 2, 4 names; 3 sessions, at most 3 requests queued, refused requests, stale plans, `prepare` breaking off | `BindsItsStatement`, `ServerStaysBounded`, `NoLeakedStatement`; `EndsWithItsHandle`, `OnlyCommittedSurvives` |
| `txn_begin` | 2 sessions, the future of `begin` may be dropped | `NoInheritedTransaction`, violated |
| `dropped_calls` | singleflight: 3 calls, 2 keys, with `forget` and dropped futures; cancellation: 3 queries, capacity 2, concurrency 1 | `MapEntryInFlight`, `NoLostWakeup`, `EveryCallReturns`; `SlotsAccounted`, `CancelsOnlyAbandoned`, `SlotsComeBack` |
| `background_tasks` | scheduler: 2 jobs, 2 loops, 2 tasks, 1 retry, 1 caller of `stop`; errgroup: 3 tasks, limits 0, 1, 2 and none | `NoOverlap`, `GracefulStopWaits`, `GracefulStopReturns`, `DueJobRuns`; `LimitHolds`, `FirstErrorReturned`, `WaitReturns` |
| `splits` | csv: all inputs of up to 5 bytes, 3 settings, `CompactFrom` 2; UDP: all batches of up to 4 items of 4 kinds, cut to 3; BLAKE3: up to 32 bytes in chunks of 4 and blocks of 2, SIMD degree 1, 2, 4 | `RowsOfTheInput`, `Terminates`; `InOrderOnce`, `CountIsSent`; `StackFits`, `HashOfTheInput` |
| `csv_columns` | csv inputs of up to 3 bytes, no failing reads | `ColumnsWithinLimit`, violated |

Why the bounds are enough to be interesting:

* *Pool.* Four callers on two permits are the least with which two getters can
  wait while two connections come back, which is where notifications fold into
  one. One warm-up connection makes the reaper's choice of what to keep real.
  `MaxStreams` 1 lets a stream outlive its handle. In `pool_live` three callers
  share one permit, so that two wait, one of them notified or not, when the pool is
  closed; and there are as many warm-up connections as permits, the boundary at
  which `from_config` still returns.
* *Connection.* The interesting cases need a request and its successor: what the
  first leaves behind is what the second finds. A channel of capacity 1 is full
  after one row, so that the actor blocks, readers vanish while it blocks and a
  COPY writer's `Fail` finds no room. Two rows are enough to tell a prefix from
  the whole and order from disorder. `MaxExtra` 1 puts one rejected frame or
  asynchronous message at every position. The state constraint
  `OneFault` keeps the run small: up to a lost link or an odd message any two
  kinds of requests run with two rows; what comes after is one row or chunk, no
  second fault, and a request of any kind before or after an execute, which shows
  whether it finds the connection in step.
* *Statement cache.* Four statements overflow a cache of two twice, and the pair
  with one hash displaces in place. Four names let a statement be evicted and
  prepared again.
* *Transactions.* Three sessions: one that leaves something behind, one that
  finds it and one that runs after both. Three queued requests let a rollback
  wait behind a statement while the next session queues its own.
* *Cancellation.* Three queries with capacity 2 and concurrency 1 reach both
  refusals, that of the counter and that of the semaphore.
* *Singleflight.* Three calls: two executions of one key that overwrite each
  other's entry, and a duplicate.
* *Scheduler.* Two loops are what a restart leaves, two tasks of one job are the
  race for its flag, two jobs let a graceful stop look at one while the other
  changes. One retry tells the last attempt from the others.
* *ErrGroup.* Three tasks at limit 1 or 2: one runs, one waits, one is spawned or
  tried while a permit changes hands. Limit 0 is the boundary the doc names.
* *CSV.* Five bytes hold every case at a buffer's end: a quoted field, its closing
  quote, `\r`, `\n` and a byte of the next row, each in a read of its own, and a
  byte-order mark (two bytes here) in front of a row. The second setting has
  limits of one byte and one column, the third of none, so that both are exceeded
  at the first byte and after some. With `CompactFrom` 2 a buffer is compacted both
  for the half and for the threshold.
* *UDP.* Three items are the least for which `sendmmsg`, at two per call, sends a
  full chunk and is called again; a fourth is cut by `max_batch`.
* *BLAKE3.* Eight chunks are three levels of the tree; a degree of 4 makes the
  wide path reach one, two and four chunks, and odd counts.

What the properties say, beyond the comment each has in its module:

* `NoStall` is deadlock freedom of the pool: when nobody is about to take a step
  and nobody uses or opens a connection, nobody waits. It needs the whole notify
  and semaphore protocol, the discard of dead connections and the reaper.
* `InStep` is what makes a connection reusable: the idle actor of an unbroken
  connection has read everything that was sent for earlier requests, sent
  everything the server expects, and the server is out of COPY mode.
* `NoOrphanConnection` is the bound on connections: one beyond `pool_size` exists
  only on its way out, in a pool that has been closed.
* `CopyAllOrNothing` covers the drop of a writer at every moment, with its
  channel full or not, against the actor's own progress. What is missing from a
  committed COPY is exactly what dropped writes lost.
* `EndsWithItsHandle` is that the unawaited `ROLLBACK` of `Drop` always comes
  before the next session's statements, and that in a transaction whose `COMMIT` or
  `ROLLBACK` the server refused those statements have no effect.
* `ServerStaysBounded` also says which statements may be left over: none but those
  of queries that could not be encoded, until a `prepare` breaks off.
* `LimitHolds` has three parts: every permit is free or owned, who runs owns one,
  and who is over owns none. The last is what a task that panics or fails could
  break.
* `BindsItsStatement` is that the `Close` messages sent ahead of a Bind never
  close what it binds, whatever collided, was evicted or was prepared again.
* `NoOverlap` holds because whoever loses the race for a job's flag neither sets
  it nor resets it on the way out (`FlagHasOwner`, which section 5 proves).
* `RowsOfTheInput` and `HashOfTheInput` compare the incremental code with a definition
  that sees the whole input at once, so every boundary case of every split is
  covered by one equation.
* `InOrderOnce` is about the retries of `async_io`: a round that has sent
  something must not report `WouldBlock`, or what it sent is sent again.

The type invariants have no line of their own in the table. Those of `PgPool`,
`PgCancel` and `Scheduler` are theorems, those of `SingleFlight` and `ErrGroup`
are part of a proved inductive invariant, and those of `PgConnection`,
`PgStatementCache`, `PgTransaction`, `CsvReader` and `FastUdp` are the first
conjunct of `InStep`, `BindsItsStatement`, `EndsWithItsHandle`, `RowsOfTheInput`
and `InOrderOnce`, which are proved. `SharedResult`, `FlagHasOwner` and `RowsSoFar` are
likewise stated by theorems rather than checked by a run.

Deadlock checking is on in every run but `background_tasks` and `splits`, whose
calls come to their end (a group that was awaited, a csv iterator that returned
`None`, a batch that was sent); there `WaitReturns`, `GracefulStopReturns` and
`Terminates` say that they get there. In the other runs behaviours that really
end do so in an explicit stuttering step (`AllOver`, the actor stopped, the names
of the model used up).

Every property of a passing run has a mutant: a definition next to the one it
replaces, commented "Mutant:", that changes the code in a plausible way and
makes the property fail under the same configuration.

## 4. Fairness

* `PgPool`: weak fairness on the steps of a runnable task, on `from_config`, on
  the rest of a `close` that has begun, and on a connection attempt, which
  `connect_timeout` ends. Nothing is assumed of the application: a checkout may
  be kept forever, and no timeout need ever fire.
* `PgConnection`: weak fairness on the actor, on the server, and on each handle:
  a stream that is kept is read and a COPY writer that is kept is finished. The
  last is what the API asks of its callers; a caller that keeps an unread stream
  and waits for another request of the same connection waits for itself. No
  fairness on dropping, writing, losing the link or submitting.
* `PgCancel`: weak fairness on each job; the delay ends and the request has a
  timeout. `SlotsComeBack` needs nothing of the server.
* `SingleFlight`: weak fairness on each call, which includes that the caller's
  function returns.
* `Scheduler`: weak fairness on each loop, task and poller: the runtime runs what
  can run, sleeps end, and the jobs' functions return. None on `Tick`, `run`,
  `stop` or a panic.
* `ErrGroup`: weak fairness on each task and on `wait`'s loop. None on the drop of
  the group.
* `CsvReader`: weak fairness on the iterator, which is the caller asking for the
  next row until there is none; the source answers every read.

## 5. What is proved

TLAPS proves, for every value of the constants that satisfies the named
assumptions:

| Module | Theorem | States |
|---|---|---|
| `PgPoolProofs` | `TypeCorrect` | `Spec => []TypeOK` |
| | `ExclusiveUse` | `Spec => []NoSharing` |
| | `PermitsKept` | `Spec => []NoLeak` |
| | `ConnectionsBounded` | `Spec => []NoOrphanConnection` |
| | `ClosedStaysEmpty` | `Spec => []ClosedPoolIsEmpty` |
| | `PoolIsBoundedPool` | `Spec => ImplementsBoundedPool` |
| | `PoolNeverStalls` | `Spec => []NoStall`, if there is a permit |
| `PgConnectionProofs` | `ConnectionInStep` | `Spec => []InStep`, if `PrepareIntact` |
| | `SuccessIsTrue` | `Spec => []NoFalseSuccess`, if `PrepareIntact` |
| | `CopyIsWhole` | `Spec => []CopyAllOrNothing`, if `PrepareIntact` |
| `PgConnectionRowsProofs` | `RowsAreInOrder` | `Spec => []RowsInOrder`, if `PrepareIntact` |
| | `StreamsAreWhole` | `Spec => []NoSilentTruncation`, if `PrepareIntact` |
| `PgStatementCacheProofs` | `BindsReachTheirStatement` | `CacheSpec => []BindsItsStatement` |
| | `NoStatementLeaks` | `CacheSpec => []NoLeakedStatement` |
| | `ServerIsBounded` | `CacheSpec => []ServerStaysBounded` |
| `PgTransactionProofs` | `TransactionsEndWithTheirHandles` | `Spec => []EndsWithItsHandle` |
| | `DroppedIsRolledBack` | `Spec => []OnlyCommittedSurvives` |
| `PgCancelProofs` | `SlotsNeverLeak` | `CancelSpec => []SlotsAccounted` |
| | `CancelTypeCorrect` | `CancelSpec => []CancelTypeOK` |
| | `NeverCancelsAnswered` | `CancelSpec => []CancelsOnlyAbandoned` |
| `TasksProofs` | `Typed` | `Spec => []TypeOK` |
| | `FlagOwned` | `Spec => []FlagHasOwner` |
| | `NeverOverlaps` | `Spec => []NoOverlap` |
| | `StopWaitsForJobs` | `Spec => []GracefulStopWaits` |
| | `LimitAlwaysHolds` | `GroupSpec => []LimitHolds` |
| | `WaitReturnsFirstError` | `GroupSpec => []FirstErrorReturned` |
| | `NothingCached` | `FlightSpec => []MapEntryInFlight` |
| | `SharesItsKey` | `FlightSpec => []SharedResult` |
| | `NoWakeupLost` | `FlightSpec => []NoLostWakeup` |
| `SplitsProofs` | `RowsAreThoseOfTheInput` | `CsvSpec => []RowsOfTheInput` |
| | `RowsAreRightAsTheyCome` | `CsvSpec => []RowsSoFar` |
| | `DatagramsInOrderOnce` | `UdpSpec => []InOrderOnce` |
| | `CountIsTruthful` | `UdpSpec => []CountIsSent` |

Assumptions. `PgPool`: the counts are natural numbers, "no permit" is not a
permit and callers are not called "free" or "idle"; the sets may be of any size.
`PoolNeverStalls` also assumes that there is a permit: with `pool_size` 0, which
`pool.rs:214` accepts, every `get` waits for its timeout. `PgConnection`: the
kinds and statements are those of the code, a script has one or two statements,
a channel has room for at least one item; any number of requests, rows and
faults. Its theorems assume `PrepareIntact`: no frame of the replies to Parse,
Describe and Sync is rejected by the decoder. Without it they are false, which is
the finding `conn_outofstep` (section 6). `PgStatementCache`: cache sizes are
natural numbers; `Hash` is any function. `PgTransaction`: the bound on the queue
is positive.
`PgCancel`: any number of queries, positive limits. `SingleFlight`: "no entry"
is not a call. `Scheduler`: the bounds and the retries are natural numbers.
`ErrGroup`: limits are natural numbers, "no limit" is none and "no error" is not
a task; the set of tasks may be infinite. `CsvReader`: the bytes are among the
five the parser tells apart, the mark is made of ordinary bytes, a limit is a
natural number or not set, the threshold of `compact` is any number;
`max_record_bytes` is not set; inputs of any length, any set of configurations.
`FastUdp`: an item has data, `sendmmsg` takes at least one message; batches of
any length.

Arguments.

* *Pool.* `IInv` is the conjunction of the five properties with `Places` (a
  caller owns a permit exactly at the places of `Holding`, and has streams only
  while it uses its checkout) and `CloseOrder` (`close` sets the flag first).
  `Places` is what the ownership properties lack: without it a step that gives a
  caller a permit could overwrite one it has. `CloseOrder` is what
  `ClosedPoolIsEmpty` lacks: `push_idle` re-checks `closed` under the lock, so it
  parks nothing once the flag is set. There is one lemma per action or group of
  like actions. The reaper's lemma goes through the positions it keeps, which
  are distinct because they are ordered.
* *Pool, refinement.* `OwnerFacts` turns the mapping (a permit is with the
  semaphore, with the caller whose local it is, or parked) into one fact per
  permit that `IInv` makes unique; then every action changes the owner of at most
  one permit, the way an action of `BoundedPool` does, or of none.
* *Pool, no stall.* `SInv` has three parts on top of `IInv`: `Queues` (the queues
  of `Notify` and of the semaphore hold the waiting callers, once, and a stored
  notification means nobody is registered), `CloseStages` (which waits each stage
  of `close` has already ended) and `Noticed`: in an open pool nobody is left
  unnoticed unless somebody is active, a permit is free or a notification is
  stored. Every step that makes a caller inactive must show what it leaves
  behind, which is what the order of pop, registration and wait in `get` is for.
* *Connection.* Actor and server know of each other only what the messages say.
  For every loop of the actor `IInv` says what the server has yet to take
  (`UpShape`), which modes it may be in (`ModeShape`) and what each reply not yet
  read tells about both (`DownShape`). The fact all rests on is the first line of
  `InTurn`: a ReadyForQuery is sent when everything has been taken, and nothing
  but asynchronous messages follows it. `InStep` is the case of the idle actor.
* *Connection, results.* `DInv`, on top of `IInv`, says what the messages mean: a
  request is in the queue, at work or answered, once (`Fifo`, `Posted`); while a
  request that failed is not answered, its error is with the handler, on the wire
  or about to be caused (`Told`, `Verdict`, `Settled`); of a COPY every chunk is
  that got into its channel is there, on the wire or stored (`Queued`, `Chunks`), so
  that a CopyDone means all of them (`Whole`).
* *Connection, rows.* `RInv`, on top of both, follows a row to the caller. On the
  wire each row is the one after what was taken, the one after the row in front
  of it, or it stands behind a frame at which the handler fails (`Coming`); the
  last row has been taken, is still on the wire, or such a frame is (`Tally`); in
  the channel and with the caller the i-th item is the i-th row, an error, or the
  trailer after all rows of a finished execution (`Given`). That a query retried
  after a stale plan sends no row twice is `Executes` (while an Execute is to be
  taken no row is on the wire, and what is going to be repeated has failed) with
  `Fresh` (nothing was delivered before a row was read). `Held` and `Closed` tie
  the end of a stream to the answer of its request, from which `Final` follows.
* *Statement cache.* `IInv` adds `Named` (names are given out once and count up),
  `Kept` (the server has what is cached under that name, unless it dropped it) and
  `Query` (between Parse and Bind the query's own name is neither queued for
  Close nor given to another). The bound on the server's statements maps each of
  them injectively to a place: an entry of the cache, a queued Close, or the one
  being prepared. `Straying` says where the statements without an owner come from.
  That `inStep` may end is why `Query` and `Kept` say nothing of what the actor
  has read: a Bind still reaches its own statement.
* *Transactions.* `IInv` describes the queue: what each request says of its
  session and of the requests behind it (`LinedAt`), and how the queue looks to a
  session that has its handle (`AwaitingAt`). From it follows that what is open on
  the server has its end in the queue, its handle alive, or was aborted when the
  server refused to end it (`Pending`). All of it holds while replies and requests
  are aligned; what holds in any case (`Base`) carries the proof past the end of that.
* *Cancellation.* `CancelInv` adds `OneJobEach` (no job while somebody waits for
  the query), without which dropping a guard could overwrite a job that holds a
  slot, and `ReturnedIsComplete` (a caller has its result only once `completed`
  is set or the query was refused; a job about to send belongs to an abandoned or a
  refused one). The counting rests
  on one lemma, `JobsCount`: how the number of jobs at a set of places changes
  when one job moves.
* *Singleflight.* `FlightInv` adds `Recorded`, `EntryOfSameKey` (an entry a duplicate
  holds was made by an execution of the same key) and `ValStored` (the value is
  stored exactly by the executions past the store). They are stated over entries
  rather than over the map, because the map's entry may be overwritten or removed
  by another call.
* *Scheduler.* `IInv` is `TypeOK`, `InRange` (a task is one of a job, a loop that
  scans stands at a job) and `FlagHasOwner`, which is inductive with them: a task
  becomes marked only by finding the flag reset, and then no task is marked.
  `NoOverlap` follows, as executing tasks are marked. For `GracefulStopWaits`,
  `WInv` says that what a stop waits for is being executed, by a job it has not
  passed yet: it passes a job only when it finds the flag reset.
* *ErrGroup.* `GInv` adds `Owners` (who may own a permit), `Waiting` (whoever is
  queued waits there, once) and `Reported` (likewise for completed tasks) to the
  type invariant and the count of the permits (`Accounted`): a permit that is handed
  on must go to a task that has none. The sum in `LimitHolds` rests on three lemmas about the
  cardinality of the owners. For `FirstErrorReturned` a second invariant on top of
  the first relates the error `wait` holds, the tasks still to be joined and the
  order in which tasks failed.

* *UDP sends.* `UdpInv` adds to the order of what is on the wire (`Ordered`) where
  the loops stand (`Cursor`): the datagram to be sent next, computed from the wire
  alone (`Upcoming`), is the one the counters `count` and `chunk_offset` name. That
  is what a round which blocks after part of its work must leave behind for the
  next one.
* *CSV reader.* `CsvInv` is a simulation: a reader that has consumed p bytes of the
  input stands for `Reference[p]`, the reference parser's state after p bytes
  (`Normal`). `Unread` says that the rest of the buffer and the source are the input
  from p on, `Match` what each of the code's places means in the reference: the
  fields so far are what the recorded ranges cut out of the buffer and the scratch
  space, the current field is what lies between two positions, a pending `\r` is
  one whose `\n` may be ahead. The other three parts are the look-ahead for the mark
  (`AtStart`), nothing left to read (`Over`) and a read that failed (`Broken`). A
  step is then one of three things: it moves bytes around (`fill_buf`, `compact`),
  and p stays; it takes one byte, as one step of the reference; or it takes a run of
  bytes at once after a `memchr`, as many steps of the reference, by induction over
  the run (`UnquotedRun`, `QuotedRun`, `SkipRun`). The places that had to be said
  exactly are those a test hardly reaches: the reader keeps a flag only for
  a `\r` that ended its buffer, and may drop it only when it sees that no `\n`
  follows, across the return of a row and a compaction (`SameCr`); a limit
  that a run exceeds is exceeded in the reference somewhere inside the run and
  stays so (`Stopped`); line ends inside quotes are counted once when `\r` and
  `\n` arrive in different reads (`BreaksStep`). That every position stays inside
  its buffer (`CsvTypes`, lemma `Bounded`) is proved first, on its own.
* *Induction.* The library's induction theorems take an operator as a parameter,
  which the installed provers cannot instantiate. `SplitsProofs` derives a form that
  needs none from the well-foundedness of the order on the numbers (`Least`,
  `Induction`: a set of numbers with 0 and every successor is all of them), and
  with it what the recursive function `Reference` computes (`ReferenceDef`).

Checked by TLC only: liveness (the prover does not handle fairness), and
`Blake3Hasher`. Its tree and its merging are `RECURSIVE` operators, which follow the
code's own recursion but leave the prover without its SMT backend, and the argument
is about powers of two and binary digits of the chunk counter, which that backend
does not know.

## 6. Where the code and its documentation differ

Four runs show a documented property that the code violates:

* `conn_outofstep`: `prepare` returns a decode error without marking the
  connection broken (`connection.rs:1615`). The replies left over are read by the
  next request, whose `execute` may return `Ok` before its statement ran.
* `conn_emptystream`: a row stream requested on a connection that is broken by the
  time the actor takes the request ends with no rows and no error
  (`connection.rs:1664-1668`: `fail_request` answers `done`, which `fetch_rows` does
  not keep). `hostile_server.rs:7-8` rules out a silently wrong result.
  `NoSilentTruncation` shows it is the only way a stream ends short.
* `txn_begin`: the future of `Pool::begin` dropped while `BEGIN` is under way
  (`transaction.rs:38`) returns the connection with a transaction nobody ends, and
  the next session's statements run and are kept or lost with it.
* `csv_columns`: a record may have up to two columns more than `max_columns`: the
  limit is compared before a byte is parsed, so the last columns are not counted
  (`csv/reader.rs:525`, 711, against 335).

Others are excluded or exempted where a property is stated, and named there:

* `get` does not `enable` its `Notified` before the second `pop_idle`
  (`pool.rs:256`), so with two or more permits one getter can be left waiting
  beside an idle connection until another connection comes back or it times out.
  `NoStall` is what remains true.
* `acquire_timeout` is armed in every round of the loop (`pool.rs:267`).
* `min_connections` above `pool_size` makes `from_config` wait forever
  (`pool.rs:221`); `pool_live` uses equal values.
* Between `close`'s flag and `Semaphore::close` a getter that waits may take the
  permit of a connection that is being dropped and connect beside it
  (`pool.rs:64`, 135-136); `NoOrphanConnection` says that this needs a closed pool.
* A COPY writer's `write` whose future is dropped while it waits for room loses the
  rows in the shared buffer, earlier ones that were acknowledged included, and
  `finish` still commits the rest (`connection.rs:810-824`). `CopyAllOrNothing`
  counts those chunks (`lost`) and says that nothing else is missing.
* A script with a COPY out followed by a COPY in wedges the connection
  (`connection.rs:1548`); the scripts of the runs have one COPY at most.
* A query that cannot be encoded loses the `Close` messages drained for it
  (`connection.rs:1428`), and a `prepare` that breaks off leaves its statement on the
  server (`connection.rs:1615`); the cache's bounds exempt those names (`Strays`).
* Eviction with `swap_remove` is not least-recently-used order
  (`connection.rs:1580`); the code says "approximate".
* `commit` returns `Ok` although the server rolls back when a statement of the
  transaction failed and its error was ignored, or when the cached `COMMIT` itself
  was refused as stale and run again (`transaction.rs:58`, `connection.rs:1342`):
  the command tag is not looked at. No property is stated about its answer.
* A `COMMIT` or `ROLLBACK` that the server refuses unprocessed leaves the transaction
  open, and nothing queues a `ROLLBACK` behind it (`transaction.rs:59`, 71; the doc
  says "considered finished either way", 54-55). The next session's statements
  fail in it; `EndsWithItsHandle` says that they have no effect there. After a
  `prepare` that broke off nothing is claimed.
* A `CancelRequest` stops whatever its connection runs when it arrives
  (`connection.rs:232`), and every `execute` that returns normally schedules a
  job (`connection.rs:203`). A query that was refused does send one, for nothing,
  as `completed` is never set for it (`connection.rs:937`, 1664-1668);
  `CancelsOnlyAbandoned` is about the others.
* Two singleflight callers may both find no entry and both run the function
  (`singleflight.rs:156`, 185), against "only one execution is in-flight for a
  given key at a time" (`singleflight.rs:3-4`). Its properties hold all the same.
* A singleflight leader whose future is dropped leaves its waiters, and later
  callers of the key, waiting (`singleflight.rs:191`); `EveryCallReturns`
  exempts calls that wait for an abandoned execution.
* A graceful `stop` looks at the flags only: a task that is spawned and has not
  set its flag yet runs after `stop` has returned (`scheduler/lib.rs:222`).
  `GracefulStopWaits` is about executions that were under way.
* A job that panics leaves `is_running` set (`scheduler/job.rs:124`): it never runs
  again and a graceful stop never returns; the liveness properties exempt it.
* `run` soon after `stop` leaves two loops at work (`scheduler/lib.rs:190`), and an
  occurrence that is due can be executed twice in a row: the loser of the race,
  or a loop that read `next_run_at` early, starts it again.
* An errgroup with limit 0 makes `wait` wait forever once a task was spawned
  (`errgroup.rs:131`); `WaitReturns` exempts it.
* A read that fails behind a quote, or in the look-ahead for the byte-order mark,
  is reported on a row, and what is already buffered is then parsed as if a new
  record began there (`csv/reader.rs:485`, 645). A read that fails while the tail
  of a malformed record is skipped is not reported (`csv/reader.rs:772`).
* Blank lines in front of a csv record count as its first line: its line number is
  that of the blank line (`csv/reader.rs:483`), against "the line on which the
  offending record started" (`csv/reader.rs:115`); the reference definition follows
  the code.
* `send_many` may return `Ok(n)` when it has sent the first segments of item n + 1
  (`tokio_fast_udp/socket.rs:737`); `chunk_offset` is lost with the call, so a
  caller that goes on with item n + 1 sends those segments twice. `CountIsSent`
  states what the count means. An error after part of a batch was sent does not
  say how much. Both are within one call what `InOrderOnce` allows.
* An item with a segment size and no data is one empty datagram with GSO and none
  without it; the items of the model have data.

## 7. What is not modelled

* In the PostgreSQL client: TLS, startup and SCRAM (a dialogue without
  concurrency over cryptography), the encoding of values and rows, the binary
  COPY row format, the SQL interner, the macros and derives.
* `retry`: one sequential loop around the caller's future; a property of it would
  restate its branches. (The first exponential delay is not capped at `max`, and
  jitter is added after the cap: `retry/src/delay.rs:132`.)
* `json_rpc`: dispatch without state between requests.
* Of the csv crate: `max_record_bytes`, whose check falls on the rounds of the loop
  so that its outcome depends on how the input was split; headers, decoding, the
  writer.
* Of `tokio_fast_udp`: the receive side, which reports whatever one system call
  delivers; other systems than Linux; control messages.
* BLAKE3's compression function and its SIMD versions; all other cryptography,
  hashes, encodings, parsers, number and date arithmetic: pure functions over
  domains TLC cannot enumerate, covered by test vectors.
* Clients of services, wrappers of system calls, generated data, vendored crates.

`PROJECT.json` ("components") lists every part with the reason.

## 8. Plan

The order is that of importance: the client first, from the pool inwards, then
the smaller concurrency crates, then sequential code with a hostile environment.

1. Done: `PgPool` with `BoundedPool`, `PgConnection`, `PgStatementCache`,
   `PgTransaction`, `PgCancel`, `SingleFlight`, `Scheduler`, `ErrGroup`,
   `CsvReader`, `FastUdp`, `Blake3Hasher`; proofs for all but the last.
2. Proved: every safety property of the passing runs (section 5) but those of
   `Blake3Hasher`. Left to TLC: those, and liveness.
3. A composition of pool and connection in which a COPY, which keeps no checkout,
   runs on a connection that has been handed out again.
4. `cron`: the next fire time against a reference definition over a small
   calendar, if it can be bounded.
