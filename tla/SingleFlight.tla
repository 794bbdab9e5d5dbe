---------------------------- MODULE SingleFlight ----------------------------
(***************************************************************************)
(* singleflight::Group (singleflight/singleflight.rs): concurrent calls    *)
(* for one key share the execution of one of them.                         *)
(*                                                                         *)
(* A call creates at most one Entry, so an entry, the execution that fills *)
(* it and the value it produces are all named by the call.  Every action   *)
(* is one critical section or await point of call_async.                   *)
(***************************************************************************)
EXTENDS Naturals, FiniteSets

CONSTANTS
  Calls,      \* invocations of call_async
  Keys,
  NoEntry,    \* no entry
  Forgetting, \* whether anybody calls Group::forget
  Abandoning  \* whether the future of a call may be dropped, or f panic

ASSUME CallsAssumption ==
  /\ NoEntry \notin Calls
  /\ Forgetting \in BOOLEAN
  /\ Abandoning \in BOOLEAN

VARIABLES
  map,       \* Group.inner: the entry of each key
  val,       \* the entries whose val is Some
  stage,
  key,       \* the key of each call, once it is made
  entry,     \* the entry a duplicate waits on
  notified   \* duplicates whose Notified was woken by notify_waiters

flightVars == <<map, val, stage, key, entry, notified>>

\* The places of the caller that executes f, then those of a duplicate.
InFlight == {"run", "notify", "remove"}
Sharing == {"arm", "check", "wait"}
Stages == {"start", "insert", "returned", "shared", "gone"} \cup InFlight \cup Sharing

FlightTypeOK ==
  /\ map \in [Keys -> Calls \cup {NoEntry}]
  /\ val \in SUBSET Calls
  /\ stage \in [Calls -> Stages]
  /\ key \in [Calls -> Keys \cup {NoEntry}]
  /\ entry \in [Calls -> Calls \cup {NoEntry}]
  /\ notified \in SUBSET Calls

FlightInit ==
  /\ map = [k \in Keys |-> NoEntry]
  /\ val = {}
  /\ stage = [c \in Calls |-> "start"]
  /\ key = [c \in Calls |-> NoEntry]
  /\ entry = [c \in Calls |-> NoEntry]
  /\ notified = {}

Goto(c, l) == stage' = [stage EXCEPT ![c] = l]

-----------------------------------------------------------------------------

\* The first critical section: look the key up, and join its entry if any.
Lookup(c, k) ==
  /\ stage[c] = "start"
  /\ key' = [key EXCEPT ![c] = k]
  /\ entry' = [entry EXCEPT ![c] = map[k]]
  /\ Goto(c, IF map[k] = NoEntry THEN "insert" ELSE "arm")
  /\ UNCHANGED <<map, val, notified>>

\* The second one: insert an entry of its own, then start f.
Insert(c) ==
  /\ stage[c] = "insert"
  /\ map' = [map EXCEPT ![key[c]] = c]
  /\ Goto(c, "run")
  /\ UNCHANGED <<val, key, entry, notified>>

\* f().await is over: store the value.
Store(c) ==
  /\ stage[c] = "run"
  /\ val' = val \cup {c}
  /\ Goto(c, "notify")
  /\ UNCHANGED <<map, key, entry, notified>>

\* Mutant: notify_one, which wakes a single duplicate.
NotifyOne(c) ==
  /\ stage[c] = "notify"
  /\ LET armed == {d \in Calls : entry[d] = c /\ stage[d] \in {"check", "wait"}}
     IN IF armed = {} THEN notified' = notified
        ELSE \E d \in armed : notified' = notified \cup {d}
  /\ Goto(c, "remove")
  /\ UNCHANGED <<map, val, key, entry>>

\* notify_waiters: reaches every Notified created so far, awaited or not.
Notify(c) ==
  /\ stage[c] = "notify"
  /\ notified' = notified \cup {d \in Calls : entry[d] = c /\ stage[d] \in {"check", "wait"}}
  /\ Goto(c, "remove")
  /\ UNCHANGED <<map, val, key, entry>>

\* Mutant: the finished entry stays in the map.
RemoveNothing(c) ==
  /\ stage[c] = "remove"
  /\ Goto(c, "returned")
  /\ UNCHANGED <<map, val, key, entry, notified>>

\* map.remove(&entry.key): removes the key, whoever's entry is there.
Remove(c) ==
  /\ stage[c] = "remove"
  /\ map' = [map EXCEPT ![key[c]] = NoEntry]
  /\ Goto(c, "returned")
  /\ UNCHANGED <<val, key, entry, notified>>

\* A duplicate creates its Notified ...
Arm(c) ==
  /\ stage[c] = "arm"
  /\ notified' = notified \ {c}
  /\ Goto(c, "check")
  /\ UNCHANGED <<map, val, key, entry>>

\* ... looks for the value, which it returns with shared = true ...
LookForValue(c) ==
  /\ stage[c] = "check"
  /\ Goto(c, IF entry[c] \in val THEN "shared" ELSE "wait")
  /\ UNCHANGED <<map, val, key, entry, notified>>

\* ... and else awaits, and loops.
Wake(c) ==
  /\ stage[c] = "wait" /\ c \in notified
  /\ Goto(c, "arm")
  /\ UNCHANGED <<map, val, key, entry, notified>>

\* Group::forget.
Forget(k) ==
  /\ Forgetting
  /\ map' = [map EXCEPT ![k] = NoEntry]
  /\ UNCHANGED <<val, stage, key, entry, notified>>

\* f panics, or the caller drops the future at an await: nothing is stored,
\* nobody is notified, and the entry stays in the map.
Abandon(c) ==
  /\ Abandoning
  /\ stage[c] \in {"run", "wait"}
  /\ Goto(c, "gone")
  /\ UNCHANGED <<map, val, key, entry, notified>>

\* Every call has returned or was dropped.
AllOver ==
  /\ \A c \in Calls : stage[c] \in {"returned", "shared", "gone"}
  /\ UNCHANGED flightVars

Progress(c) ==
  \/ Insert(c) \/ Store(c) \/ Notify(c) \/ Remove(c)
  \/ Arm(c) \/ LookForValue(c) \/ Wake(c)

FlightNext ==
  \/ \E c \in Calls : Progress(c) \/ Abandon(c) \/ \E k \in Keys : Lookup(c, k)
  \/ \E k \in Keys : Forget(k)
  \/ AllOver

FlightSpec == FlightInit /\ [][FlightNext]_flightVars

\* The runtime runs every call that can run, and f comes to an end.
FlightFairness == \A c \in Calls : WF_flightVars(Progress(c))

FlightFairSpec == FlightSpec /\ FlightFairness

-----------------------------------------------------------------------------

\* Nothing is cached: the entry in the map is an execution of that key which is
\* in flight (or was abandoned), so no call is ever given a value whose
\* execution had returned before the call was made (singleflight.rs:197-201).
MapEntryInFlight ==
  \A k \in Keys : map[k] # NoEntry =>
    key[map[k]] = k /\ stage[map[k]] \in InFlight \cup {"gone"}

\* A duplicate returns the stored value of an execution of its own key, and
\* never one of a call that itself was a duplicate.
SharedResult ==
  \A c \in Calls : stage[c] = "shared" =>
    /\ entry[c] \in val
    /\ key[entry[c]] = key[c]
    /\ stage[entry[c]] \in {"notify", "remove", "returned"}

\* No lost wakeup: a duplicate that awaits after its execution has notified has
\* been notified itself.
NoLostWakeup ==
  \A c \in Calls :
    stage[c] = "wait" /\ stage[entry[c]] \in {"remove", "returned"} => c \in notified

\* "Duplicate callers wait for the original to finish and receive the same
\* result" (singleflight.rs:4-5): every call that was made returns, unless the
\* execution it waits for was abandoned.
EveryCallReturns ==
  \A c \in Calls : (stage[c] # "start") ~>
    \/ stage[c] \in {"returned", "shared", "gone"}
    \/ entry[c] # NoEntry /\ stage[entry[c]] = "gone"
=============================================================================
