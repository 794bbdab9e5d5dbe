------------------------------- MODULE PgPool -------------------------------
(***************************************************************************)
(* The connection pool of the postgresql crate (postgresql/pool.rs): a     *)
(* LIFO list of idle connections under a mutex, a semaphore of pool_size   *)
(* permits, a Notify that wakes waiting getters, and a closed flag.        *)
(*                                                                         *)
(* A permit travels with the connection opened under it (acquire, connect, *)
(* Checkout, IdleConn, Checkout again, ...) and is released when that      *)
(* connection is dropped.  A connection is therefore named by its permit:  *)
(* a permit is free, held by a getter, parked in idle, or checked out.     *)
(* Only a discarded checkout outlives its permit, by the step that drops   *)
(* it: its caller is then at "discard", with a connection and no permit.   *)
(*                                                                         *)
(* Every action is one critical section, atomic operation or await point   *)
(* of the code; tasks run on several threads, so they interleave between   *)
(* any two of them.                                                        *)
(***************************************************************************)
EXTENDS Naturals, Sequences, FiniteSets

CONSTANTS
  Callers,          \* tasks that call Pool::get
  Permits,          \* the pool_size permits of the semaphore
  MinConnections,   \* settings.min_connections
  MaxStreams,       \* bound: RowStreams one checkout may have open
  NoPermit          \* "this caller holds no permit"

ASSUME ConstantsAssumption ==
  /\ MinConnections \in Nat
  /\ MaxStreams \in Nat
  /\ NoPermit \notin Permits
  /\ "free" \notin Callers /\ "idle" \notin Callers

VARIABLES
  opened,     \* from_config: warm-up connections attempted so far
  ready,      \* from_config has returned, the pool is in the callers' hands
  closed,     \* PoolInner.closed
  semClosed,  \* Semaphore::close has been called
  avail,      \* permits in the semaphore
  semQ,       \* getters queued on the semaphore, oldest first
  idle,       \* PoolInner.idle: permits of the idle connections, a stack
  alive,      \* a connection that is not broken exists under this permit
  stored,     \* Notify: a notification kept for the next notified()
  waiters,    \* Notify: registered (polled) Notified futures, oldest first
  woken,      \* Notify: who has been notified, and by which call
  pc,         \* where each caller is
  permit,     \* the permit each caller owns
  streams,    \* RowStreams holding a clone of the caller's checkout
  closer,     \* progress of Pool::close, statement by statement
  reaper      \* the background reaper

semaphore == <<semClosed, avail, semQ>>
notify == <<stored, waiters, woken>>
startup == <<opened, ready>>
vars == <<startup, closed, semaphore, idle, alive, notify, pc, permit,
          streams, closer, reaper>>

\* Places in Pool::get, the use of the checkout, and Checkout::drop.
GetPC == {"pop1", "create", "pop2", "poll", "wait", "permit", "connect"}
UsePC == {"using", "streaming"}
DropPC == {"drop", "push", "notify", "discard"}
PC == {"out"} \cup GetPC \cup UsePC \cup DropPC

\* The callers that own a permit, by where they are.
Holding == {"permit", "connect", "drop", "push"} \cup UsePC

Rng(s) == {s[i] : i \in 1..Len(s)}

\* s without its (only) occurrence of g.
Without(s, g) ==
  IF g \notin Rng(s) THEN s
  ELSE LET i == CHOOSE i \in 1..Len(s) : s[i] = g
       IN  [j \in 1..(Len(s) - 1) |-> IF j < i THEN s[j] ELSE s[j + 1]]

TypeOK ==
  /\ opened \in 0..MinConnections
  /\ ready \in BOOLEAN
  /\ closed \in BOOLEAN
  /\ semClosed \in BOOLEAN
  /\ avail \in SUBSET Permits
  /\ semQ \in Seq(Callers)
  /\ idle \in Seq(Permits)
  /\ alive \in [Permits -> BOOLEAN]
  /\ stored \in BOOLEAN
  /\ waiters \in Seq(Callers)
  /\ woken \in [Callers -> {"no", "one", "all"}]
  /\ pc \in [Callers -> PC]
  /\ permit \in [Callers -> Permits \cup {NoPermit}]
  /\ streams \in [Callers -> 0..MaxStreams]
  /\ closer \in {"no", "closed", "sem", "clear", "done"}
  /\ reaper \in {"sleep", "reap", "stop"}

Init ==
  /\ opened = 0
  /\ ready = FALSE
  /\ closed = FALSE
  /\ semClosed = FALSE
  /\ avail = Permits
  /\ semQ = <<>>
  /\ idle = <<>>
  /\ alive = [p \in Permits |-> FALSE]
  /\ stored = FALSE
  /\ waiters = <<>>
  /\ woken = [g \in Callers |-> "no"]
  /\ pc = [g \in Callers |-> "out"]
  /\ permit = [g \in Callers |-> NoPermit]
  /\ streams = [g \in Callers |-> 0]
  /\ closer = "no"
  /\ reaper = "sleep"

-----------------------------------------------------------------------------
(* tokio::sync::Notify, as the pool uses it.                               *)

\* notify_one: wake the oldest registered waiter, or keep one notification.
NotifyOne ==
  IF waiters # <<>>
  THEN /\ woken' = [woken EXCEPT ![Head(waiters)] = "one"]
       /\ waiters' = Tail(waiters)
       /\ UNCHANGED stored
  ELSE /\ stored' = TRUE
       /\ UNCHANGED <<waiters, woken>>

\* Dropping g's Notified: it leaves the list, and a notify_one it received but
\* never consumed goes to the next waiter (or is stored).
DropNotified(g) ==
  LET rest == Without(waiters, g) IN
  IF woken[g] = "one" /\ rest # <<>>
  THEN /\ woken' = [woken EXCEPT ![g] = "no", ![Head(rest)] = "one"]
       /\ waiters' = Tail(rest)
       /\ UNCHANGED stored
  ELSE /\ woken' = [woken EXCEPT ![g] = "no"]
       /\ waiters' = rest
       /\ stored' = (stored \/ woken[g] = "one")

\* notify_waiters: every Notified created so far, polled or not.
NotifyWaiters ==
  /\ woken' = [g \in Callers |->
                 IF pc[g] \in {"pop2", "poll", "wait"} /\ woken[g] = "no"
                 THEN "all" ELSE woken[g]]
  /\ waiters' = <<>>
  /\ UNCHANGED stored

\* t is the position of the topmost live connection, 0 if there is none.
IsTop(t) ==
  /\ \A i \in (t + 1)..Len(idle) : ~alive[idle[i]]
  /\ t # 0 => alive[idle[t]]

\* Mutant: the permits of the dead connections are forgotten.
PopIdleLeaky(t, extra) ==
  /\ idle' = SubSeq(idle, 1, t - 1)
  /\ avail' = avail \cup extra

\* PoolInner::pop_idle, taking position t: the dead connections above it are
\* dropped and their permits released, along with `extra'.
PopIdle(t, extra) ==
  /\ idle' = SubSeq(idle, 1, t - 1)
  /\ avail' = avail \cup {idle[i] : i \in (t + 1)..Len(idle)} \cup extra

\* Mutant: closed is not looked at again under the lock.
PushIdleUnchecked(p) ==
  /\ idle' = Append(idle, p)
  /\ UNCHANGED <<avail, alive>>

\* PoolInner::push_idle's critical section.  On a closed pool it returns, and its
\* parameters are dropped in reverse order: the permit is free, the connection
\* is dropped next (Discard).
PushIdle(p) ==
  IF closed
  THEN /\ avail' = avail \cup {p}
       /\ alive' = [alive EXCEPT ![p] = FALSE]
       /\ UNCHANGED idle
  ELSE /\ idle' = Append(idle, p)
       /\ UNCHANGED <<avail, alive>>

-----------------------------------------------------------------------------
(* Pool::from_config.  Nobody else has the pool yet.                       *)

\* One warm-up connection: acquire_owned().await (it waits while the semaphore
\* is empty), connect, push_idle and its notify_one.
StartOpen ==
  /\ ~ready /\ opened < MinConnections
  /\ \E p \in avail :
       /\ avail' = avail \ {p}
       /\ alive' = [alive EXCEPT ![p] = TRUE]
       /\ idle' = Append(idle, p)
  /\ opened' = opened + 1
  /\ NotifyOne
  /\ UNCHANGED <<ready, closed, semClosed, semQ, pc, permit, streams,
                 closer, reaper>>

\* Mutant: after the last connection the loop acquires once more.
StartReadyOneMore ==
  /\ ~ready /\ avail # {}
  /\ ready' = TRUE
  /\ UNCHANGED <<opened, closed, semaphore, idle, alive, notify, pc, permit,
                 streams, closer, reaper>>

\* All were opened, or one connect failed: break, spawn the reaper, return.
StartReady ==
  /\ ~ready
  /\ opened = MinConnections \/ avail # {}
  /\ ready' = TRUE
  /\ UNCHANGED <<opened, closed, semaphore, idle, alive, notify, pc, permit,
                 streams, closer, reaper>>

-----------------------------------------------------------------------------
(* Pool::get.                                                              *)

Goto(g, l) == pc' = [pc EXCEPT ![g] = l]

\* On a closed pool get returns PoolClosed at once, and nothing changes.
GetRefused(g) ==
  /\ ready /\ pc[g] = "out" /\ closed
  /\ UNCHANGED vars

Get(g) ==
  /\ ready /\ pc[g] = "out" /\ ~closed
  /\ Goto(g, "pop1")
  /\ UNCHANGED <<startup, closed, semaphore, idle, alive, notify, permit,
                 streams, closer, reaper>>

\* Either of the two pop_idle calls before the select.  A success drops the
\* Notified of the second one, which was never polled.
TryPop(g) ==
  /\ pc[g] \in {"pop1", "pop2"}
  /\ \E t \in 0..Len(idle) :
       /\ IsTop(t)
       /\ PopIdle(t, {})
       /\ IF t # 0
          THEN /\ permit' = [permit EXCEPT ![g] = idle[t]]
               /\ Goto(g, "using")
               /\ woken' = [woken EXCEPT ![g] = "no"]
          ELSE /\ Goto(g, IF pc[g] = "pop1" THEN "create" ELSE "poll")
               /\ UNCHANGED <<permit, woken>>
  /\ UNCHANGED <<startup, closed, semClosed, semQ, alive, stored, waiters,
                 streams, closer, reaper>>

\* Mutant: `continue' where the code returns PoolClosed.
CreateNotifiedRetry(g) ==
  /\ pc[g] = "create"
  /\ Goto(g, IF closed THEN "pop1" ELSE "pop2")
  /\ UNCHANGED <<startup, closed, semaphore, idle, alive, notify, permit,
                 streams, closer, reaper>>

\* notified() and the second is_closed.  From here on notify_waiters reaches g;
\* notify_one reaches it only once the select has polled it.
CreateNotified(g) ==
  /\ pc[g] = "create"
  /\ Goto(g, IF closed THEN "out" ELSE "pop2")
  /\ UNCHANGED <<startup, closed, semaphore, idle, alive, notify, permit,
                 streams, closer, reaper>>

\* First poll of the select with neither branch ready: register with the
\* Notify, queue on the semaphore, arm the timeout.
SelectPend(g) ==
  /\ pc[g] = "poll"
  /\ ~stored /\ woken[g] = "no" /\ ~semClosed
  /\ avail = {} \/ semQ # <<>>
  /\ waiters' = Append(waiters, g)
  /\ semQ' = Append(semQ, g)
  /\ Goto(g, "wait")
  /\ UNCHANGED <<startup, closed, semClosed, avail, idle, alive, stored, woken,
                 permit, streams, closer, reaper>>

\* The notified branch wins: continue.  The queued acquire is dropped.
SelectNotified(g) ==
  /\ \/ pc[g] = "poll" /\ (stored \/ woken[g] # "no")
     \/ pc[g] = "wait" /\ woken[g] # "no"
  /\ stored' = (stored /\ woken[g] # "no")
  /\ woken' = [woken EXCEPT ![g] = "no"]
  /\ waiters' = Without(waiters, g)
  /\ semQ' = Without(semQ, g)
  /\ Goto(g, "pop1")
  /\ UNCHANGED <<startup, closed, semClosed, avail, idle, alive, permit,
                 streams, closer, reaper>>

\* The semaphore grants permits in queue order.
Granted(g) ==
  /\ ~semClosed /\ avail # {}
  /\ \/ pc[g] = "poll" /\ semQ = <<>>
     \/ pc[g] = "wait" /\ semQ # <<>> /\ Head(semQ) = g

SelectAcquired(g) ==
  /\ Granted(g)
  /\ \E p \in avail :
       /\ avail' = avail \ {p}
       /\ permit' = [permit EXCEPT ![g] = p]
  /\ semQ' = Without(semQ, g)
  /\ DropNotified(g)
  /\ Goto(g, "permit")
  /\ UNCHANGED <<startup, closed, semClosed, idle, alive, streams,
                 closer, reaper>>

\* The select ends with no permit: g leaves the queue and the Notify.
LeaveSelect(g) ==
  /\ semQ' = Without(semQ, g)
  /\ DropNotified(g)
  /\ Goto(g, "out")
  /\ UNCHANGED <<startup, closed, semClosed, avail, idle, alive, permit,
                 streams, closer, reaper>>

\* The acquire fails: PoolClosed.
SelectClosed(g) ==
  /\ semClosed /\ pc[g] \in {"poll", "wait"}
  /\ LeaveSelect(g)

\* acquire_timeout, armed in every round, may expire whenever g waits:
\* PoolTimedOut, unless a permit is there (timeout polls the acquire first).
SelectTimedOut(g) ==
  /\ pc[g] = "wait" /\ ~Granted(g)
  /\ LeaveSelect(g)

\* The caller drops the future of get while it waits.
CancelWait(g) ==
  /\ pc[g] = "wait"
  /\ LeaveSelect(g)

\* A permit in hand: prefer a connection returned meanwhile, giving the fresh
\* permit back, else connect.
PopWithPermit(g) ==
  /\ pc[g] = "permit"
  /\ \E t \in 0..Len(idle) :
       /\ IsTop(t)
       /\ PopIdle(t, IF t = 0 THEN {} ELSE {permit[g]})
       /\ permit' = [permit EXCEPT ![g] = IF t = 0 THEN @ ELSE idle[t]]
       /\ Goto(g, IF t = 0 THEN "connect" ELSE "using")
  /\ UNCHANGED <<startup, closed, semClosed, semQ, alive, notify, streams,
                 closer, reaper>>

ConnectOk(g) ==
  /\ pc[g] = "connect"
  /\ alive' = [alive EXCEPT ![permit[g]] = TRUE]
  /\ Goto(g, "using")
  /\ UNCHANGED <<startup, closed, semaphore, idle, notify, permit, streams,
                 closer, reaper>>

\* connect_with_config fails or times out, or the get future is dropped.
ConnectFailed(g) ==
  /\ pc[g] = "connect"
  /\ avail' = avail \cup {permit[g]}
  /\ permit' = [permit EXCEPT ![g] = NoPermit]
  /\ Goto(g, "out")
  /\ UNCHANGED <<startup, closed, semClosed, semQ, idle, alive, notify,
                 streams, closer, reaper>>

-----------------------------------------------------------------------------
(* The checkout: an Arc shared by the handle and the streams taken from it.*)

OpenStream(g) ==
  /\ pc[g] = "using" /\ streams[g] < MaxStreams
  /\ streams' = [streams EXCEPT ![g] = @ + 1]
  /\ UNCHANGED <<startup, closed, semaphore, idle, alive, notify, pc, permit,
                 closer, reaper>>

\* A stream ends or is dropped; the last reference runs Checkout::drop.
CloseStream(g) ==
  /\ pc[g] \in UsePC /\ streams[g] > 0
  /\ streams' = [streams EXCEPT ![g] = @ - 1]
  /\ Goto(g, IF pc[g] = "streaming" /\ streams[g] = 1 THEN "drop" ELSE pc[g])
  /\ UNCHANGED <<startup, closed, semaphore, idle, alive, notify, permit,
                 closer, reaper>>

\* Mutant: the handle returns the connection whatever streams are open.
DropHandleAlways(g) ==
  /\ pc[g] = "using"
  /\ Goto(g, "drop")
  /\ UNCHANGED <<startup, closed, semaphore, idle, alive, notify, permit,
                 streams, closer, reaper>>

DropHandle(g) ==
  /\ pc[g] = "using"
  /\ Goto(g, IF streams[g] = 0 THEN "drop" ELSE "streaming")
  /\ UNCHANGED <<startup, closed, semaphore, idle, alive, notify, permit,
                 streams, closer, reaper>>

\* Mutant: the permit is released but the connection stays under it.
DropCheckoutKeeping(g) ==
  /\ pc[g] = "drop"
  /\ IF closed \/ ~alive[permit[g]]
     THEN /\ avail' = avail \cup {permit[g]}
          /\ permit' = [permit EXCEPT ![g] = NoPermit]
          /\ Goto(g, IF alive[permit[g]] THEN "discard" ELSE "out")
     ELSE /\ Goto(g, "push")
          /\ UNCHANGED <<avail, permit>>
  /\ UNCHANGED <<startup, closed, semClosed, semQ, idle, alive, notify, streams,
                 closer, reaper>>

\* Checkout::drop: discard when the pool is closed or the connection broken.
\* drop(permit) comes first, and a getter may run before drop(conn).
DropCheckout(g) ==
  /\ pc[g] = "drop"
  /\ IF closed \/ ~alive[permit[g]]
     THEN /\ avail' = avail \cup {permit[g]}
          /\ alive' = [alive EXCEPT ![permit[g]] = FALSE]
          /\ permit' = [permit EXCEPT ![g] = NoPermit]
          /\ Goto(g, IF alive[permit[g]] THEN "discard" ELSE "out")
     ELSE /\ Goto(g, "push")
          /\ UNCHANGED <<avail, alive, permit>>
  /\ UNCHANGED <<startup, closed, semClosed, semQ, idle, notify, streams,
                 closer, reaper>>

Push(g) ==
  /\ pc[g] = "push"
  /\ PushIdle(permit[g])
  /\ permit' = [permit EXCEPT ![g] = NoPermit]
  /\ Goto(g, IF ~closed THEN "notify"
             ELSE IF alive[permit[g]] THEN "discard" ELSE "out")
  /\ UNCHANGED <<startup, closed, semClosed, semQ, notify, streams,
                 closer, reaper>>

\* The discarded connection goes after its permit: drop(conn).
Discard(g) ==
  /\ pc[g] = "discard"
  /\ Goto(g, "out")
  /\ UNCHANGED <<startup, closed, semaphore, idle, alive, notify, permit,
                 streams, closer, reaper>>

\* Mutant: the returned connection is announced to nobody.
PushNotifyNobody(g) ==
  /\ pc[g] = "notify"
  /\ Goto(g, "out")
  /\ UNCHANGED <<startup, closed, semaphore, idle, alive, notify, permit,
                 streams, closer, reaper>>

\* notify_one, after the lock is released.
PushNotify(g) ==
  /\ pc[g] = "notify"
  /\ NotifyOne
  /\ Goto(g, "out")
  /\ UNCHANGED <<startup, closed, semaphore, idle, alive, permit, streams,
                 closer, reaper>>

-----------------------------------------------------------------------------
(* Pool::close, the reaper, broken connections and time.                   *)

CloseFlag ==
  /\ ready /\ closer = "no"
  /\ closed' = TRUE
  /\ closer' = "closed"
  /\ UNCHANGED <<startup, semaphore, idle, alive, notify, pc, permit, streams,
                 reaper>>

CloseSemaphore ==
  /\ closer = "closed"
  /\ semClosed' = TRUE
  /\ closer' = "sem"
  /\ UNCHANGED <<startup, closed, avail, semQ, idle, alive, notify, pc, permit,
                 streams, reaper>>

CloseClear ==
  /\ closer = "sem"
  /\ idle' = <<>>
  /\ avail' = avail \cup Rng(idle)
  /\ alive' = [p \in Permits |-> alive[p] /\ p \notin Rng(idle)]
  /\ closer' = "clear"
  /\ UNCHANGED <<startup, closed, semClosed, semQ, notify, pc, permit, streams,
                 reaper>>

CloseNotify ==
  /\ closer = "clear"
  /\ NotifyWaiters
  /\ closer' = "done"
  /\ UNCHANGED <<startup, closed, semaphore, idle, alive, pc, permit, streams,
                 reaper>>

\* The 30 s sleep is over: stop on a closed pool, else go and lock idle.
ReaperWakes ==
  /\ ready /\ reaper = "sleep"
  /\ reaper' = IF closed THEN "stop" ELSE "reap"
  /\ UNCHANGED <<startup, closed, semaphore, idle, alive, notify, pc, permit,
                 streams, closer>>

\* The order in which a pass of the reaper keeps positions i and j of the list,
\* X being the expired ones: unexpired in order, then expired from the end.
KeptBefore(i, j, X) ==
  \/ i \notin X /\ j \notin X /\ i < j
  \/ i \notin X /\ j \in X
  \/ i \in X /\ j \in X /\ i > j

\* keep[k] is the old position of the k-th connection the reaper keeps: all the
\* unexpired ones, and the latest expired ones while there are too few.
IsKept(keep, n, X) ==
  LET fresh == Cardinality((1..Len(idle)) \ X) IN
  /\ \A k, l \in 1..n : k < l => KeptBefore(keep[k], keep[l], X)
  /\ \A i \in (1..Len(idle)) \ X : \E k \in 1..n : keep[k] = i
  /\ \A k \in 1..n, j \in X :
       keep[k] \in X /\ keep[k] < j => \E l \in 1..n : keep[l] = j
  /\ n = IF fresh >= MinConnections THEN fresh
         ELSE IF Len(idle) < MinConnections THEN Len(idle)
         ELSE MinConnections

\* One pass of the reaper under the idle lock.  Which connections have passed
\* idle_timeout or max_lifetime depends on the clock: any set of them.
Reap ==
  /\ reaper = "reap"
  /\ \E X \in SUBSET (1..Len(idle)), n \in 0..Len(idle) :
       \E keep \in [1..n -> 1..Len(idle)] :
         LET kept == [k \in 1..n |-> idle[keep[k]]]
             dropped == Rng(idle) \ Rng(kept) IN
         /\ IsKept(keep, n, X)
         /\ idle' = kept
         /\ avail' = avail \cup dropped
         /\ alive' = [p \in Permits |-> alive[p] /\ p \notin dropped]
  /\ reaper' = "sleep"
  /\ UNCHANGED <<startup, closed, semClosed, semQ, notify, pc, permit, streams,
                 closer>>

\* The actor of a connection marks it broken at any time.
Break(p) ==
  /\ alive[p]
  /\ alive' = [alive EXCEPT ![p] = FALSE]
  /\ UNCHANGED <<startup, closed, semaphore, idle, notify, pc, permit, streams,
                 closer, reaper>>

-----------------------------------------------------------------------------

\* The steps of g that the runtime takes on its own once g is runnable.
Run(g) ==
  \/ TryPop(g) \/ CreateNotified(g) \/ SelectPend(g) \/ SelectNotified(g)
  \/ SelectAcquired(g) \/ SelectClosed(g) \/ PopWithPermit(g)
  \/ DropCheckout(g) \/ Push(g) \/ PushNotify(g) \/ Discard(g)

Connect(g) == ConnectOk(g) \/ ConnectFailed(g)

\* The steps the application or a timeout decides on.
Environment(g) ==
  \/ GetRefused(g) \/ Get(g) \/ SelectTimedOut(g) \/ CancelWait(g)
  \/ OpenStream(g) \/ CloseStream(g) \/ DropHandle(g)

Start == StartOpen \/ StartReady

\* close runs to its end once it has started.
CloseRest == CloseSemaphore \/ CloseClear \/ CloseNotify

Next ==
  \/ Start
  \/ \E g \in Callers : Run(g) \/ Connect(g) \/ Environment(g)
  \/ CloseFlag \/ CloseRest
  \/ ReaperWakes \/ Reap
  \/ \E p \in Permits : Break(p)

Spec == Init /\ [][Next]_vars

\* Runnable tasks run, a connection attempt ends (connect_timeout), and the
\* bodies of from_config and close are not abandoned.  Nothing is assumed of
\* the application: a checkout may be held forever.
Fairness ==
  /\ WF_vars(Start)
  /\ WF_vars(CloseRest)
  /\ \A g \in Callers : WF_vars(Run(g)) /\ WF_vars(Connect(g))

FairSpec == Spec /\ Fairness

-----------------------------------------------------------------------------
(* Properties.                                                             *)

\* A permit, and the connection under it, has one owner: the semaphore, the
\* idle list or one caller, and an open stream keeps its caller the owner.
\* (Checkout returns the connection on the last drop only, pool.rs:81-87.)
NoSharing ==
  /\ \A i, j \in 1..Len(idle) : idle[i] = idle[j] => i = j
  /\ \A i \in 1..Len(idle) : idle[i] \notin avail
  /\ \A g \in Callers :
       /\ permit[g] # NoPermit =>
            /\ permit[g] \notin avail
            /\ \A i \in 1..Len(idle) : idle[i] # permit[g]
            /\ \A h \in Callers : permit[h] = permit[g] => h = g
       /\ streams[g] > 0 => permit[g] # NoPermit

\* No permit is lost on any path (error, cancellation, close, discard): each is
\* in the semaphore, in the idle list or with a caller.
NoLeak ==
  \A p \in Permits :
    \/ p \in avail
    \/ \E i \in 1..Len(idle) : idle[i] = p
    \/ \E g \in Callers : permit[g] = p

\* At most pool_size connections exist, except while the pool is being closed:
\* a live connection is never under a free permit or under one a getter is about
\* to open another with, and one that has lost its permit (drop(permit) before
\* drop(conn), pool.rs:135-136, and push_idle's return, pool.rs:64) belongs to a
\* closed pool.  Between close's flag and Semaphore::close a getter that waits
\* may take that permit and connect while the old connection is still there.
NoOrphanConnection ==
  /\ \A p \in Permits : alive[p] =>
       /\ p \notin avail
       /\ \A g \in Callers : permit[g] = p => pc[g] \in UsePC \cup DropPC
  /\ \A g \in Callers : pc[g] = "discard" => closed

\* Once close has cleared the idle list nothing is parked in it again, whatever
\* was being returned or reaped meanwhile (push_idle re-checks under the lock).
ClosedPoolIsEmpty == closer \in {"clear", "done"} => idle = <<>>

\* close ends every wait: a getter inside the pool gets out, with an error or
\* with a connection it was already opening.
CloseEndsWaits ==
  \A g \in Callers : (closed /\ pc[g] \in GetPC) ~> (pc[g] \in {"out"} \cup UsePC)

\* Nobody is about to take a step on its own: every task is outside the pool,
\* waits un-notified, connects or uses its connection.
AtRest ==
  /\ closer \in {"no", "done"}
  /\ \A g \in Callers :
       /\ pc[g] \in {"out", "wait", "connect"} \cup UsePC
       /\ woken[g] = "no" /\ ~Granted(g)

\* The pool never stalls: when everyone is at rest and nobody uses or opens a
\* connection, nobody waits for one.  (A notification that is lost because
\* notified() is not enabled before the second pop_idle, pool.rs:256-262, is
\* made good by the return of the connection that was taken instead.)
NoStall ==
  AtRest /\ (\A g \in Callers : pc[g] \in {"out", "wait"}) =>
    \A g \in Callers : pc[g] # "wait"

\* The pool implements BoundedPool, every caller a user: a permit is free, with
\* the caller that holds it, or parked.
Owner(p) ==
  IF p \in avail THEN "free"
  ELSE IF \E g \in Callers : permit[g] = p
  THEN CHOOSE g \in Callers : permit[g] = p
  ELSE "idle"

Abstract == INSTANCE BoundedPool WITH
  Users <- Callers,
  owner <- [p \in Permits |-> Owner(p)],
  drained <- closer \in {"clear", "done"}

\* Exclusive use, no reuse after close and no lost permit, step by step, over
\* every interleaving of get, drop, close and the reaper.
ImplementsBoundedPool == Abstract!Spec

\* Pool::connect returns (opening min_connections is "best-effort",
\* pool.rs:193-196).
ConnectReturns == <>ready
=============================================================================
