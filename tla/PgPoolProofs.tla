---------------------------- MODULE PgPoolProofs ----------------------------
(***************************************************************************)
(* Safety of the connection pool for every number of callers and permits:  *)
(* who owns a permit (IInv), that the pool implements BoundedPool, and     *)
(* that nobody waits while nothing is under way (SInv).                    *)
(***************************************************************************)
EXTENDS PgPool, TLAPS

\* Where a caller owns a permit, and where it may have streams open.
Places ==
  \A g \in Callers :
    /\ permit[g] # NoPermit <=> pc[g] \in Holding
    /\ streams[g] > 0 => pc[g] \in UsePC

\* close only starts on a finished pool, by setting the flag.
CloseOrder == closer # "no" => closed /\ ready

\* The inductive invariant.
IInv ==
  /\ TypeOK
  /\ NoSharing
  /\ NoLeak
  /\ Places
  /\ NoOrphanConnection
  /\ CloseOrder
  /\ ClosedPoolIsEmpty

-----------------------------------------------------------------------------

\* Removing a caller from a queue leaves a queue of callers.
LEMMA WithoutType ==
  ASSUME NEW S, NEW s \in Seq(S), NEW g
  PROVE  Without(s, g) \in Seq(S)
<1>1. CASE g \notin Rng(s)
  BY <1>1 DEF Without
<1>2. CASE g \in Rng(s)
  <2> DEFINE i == CHOOSE i \in 1..Len(s) : s[i] = g
             t == [j \in 1..(Len(s) - 1) |-> IF j < i THEN s[j] ELSE s[j + 1]]
  <2>1. i \in 1..Len(s)
    BY <1>2 DEF Rng
  <2> HIDE DEF i
  <2>2. \A j \in 1..(Len(s) - 1) : (IF j < i THEN s[j] ELSE s[j + 1]) \in S
    BY <2>1
  <2>3. Len(s) - 1 \in Nat
    BY <2>1
  <2>4. t \in Seq(S)
    BY <2>2, <2>3
  <2> QED
    BY <1>2, <2>4 DEF Without, i
<1> QED
  BY <1>1, <1>2

\* The actions that change no variable of the invariant but the queues of the
\* semaphore and of the Notify leave those well typed.
LEMMA NotifyOneType ==
  ASSUME TypeOK, NotifyOne
  PROVE  /\ stored' \in BOOLEAN
         /\ waiters' \in Seq(Callers)
         /\ woken' \in [Callers -> {"no", "one", "all"}]
<1>1. stored' \in BOOLEAN
  BY Zenon DEF TypeOK, NotifyOne
<1>2. CASE waiters = <<>>
  BY <1>1, <1>2 DEF TypeOK, NotifyOne
<1>3. CASE waiters # <<>>
  <2>1. Head(waiters) \in Callers /\ Tail(waiters) \in Seq(Callers)
    BY <1>3 DEF TypeOK
  <2> QED
    BY <1>1, <1>3, <2>1 DEF TypeOK, NotifyOne
<1> QED
  BY <1>2, <1>3

LEMMA DropNotifiedType ==
  ASSUME TypeOK, NEW g \in Callers, DropNotified(g)
  PROVE  /\ stored' \in BOOLEAN
         /\ waiters' \in Seq(Callers)
         /\ woken' \in [Callers -> {"no", "one", "all"}]
<1> DEFINE rest == Without(waiters, g)
<1>1. rest \in Seq(Callers)
  BY WithoutType DEF TypeOK
<1>2. stored' \in BOOLEAN
  BY Zenon DEF TypeOK, DropNotified
<1> HIDE DEF rest
<1>3. CASE woken[g] = "one" /\ rest # <<>>
  <2>1. Head(rest) \in Callers /\ Tail(rest) \in Seq(Callers)
    BY <1>1, <1>3
  <2>2. waiters' = Tail(rest) /\ woken' = [woken EXCEPT ![g] = "no", ![Head(rest)] = "one"]
    BY <1>3 DEF DropNotified, rest
  <2> QED
    BY <1>2, <2>1, <2>2 DEF TypeOK
<1>4. CASE ~(woken[g] = "one" /\ rest # <<>>)
  <2>1. waiters' = rest /\ woken' = [woken EXCEPT ![g] = "no"]
    BY <1>4 DEF DropNotified, rest
  <2> QED
    BY <1>1, <1>2, <2>1 DEF TypeOK
<1> QED
  BY <1>3, <1>4

LEMMA InitInv == Init => IInv
<1> SUFFICES ASSUME Init PROVE IInv
  OBVIOUS
<1> USE ConstantsAssumption DEF Init
<1>1. TypeOK
  <2>1. /\ ready \in BOOLEAN /\ closed \in BOOLEAN /\ semClosed \in BOOLEAN
        /\ stored \in BOOLEAN
    BY Zenon
  <2>2. alive \in [Permits -> BOOLEAN]
    BY Zenon
  <2> QED
    BY <2>1, <2>2 DEF TypeOK, PC
<1>2. NoSharing /\ NoLeak
  BY DEF NoSharing, NoLeak
<1>3. Places /\ NoOrphanConnection
  BY DEF Places, Holding, UsePC, NoOrphanConnection
<1>4. CloseOrder /\ ClosedPoolIsEmpty
  BY DEF CloseOrder, ClosedPoolIsEmpty
<1> QED
  BY <1>1, <1>2, <1>3, <1>4 DEF IInv

\* pop_idle leaves the part of the list below the position it takes.
LEMMA PopIdleFacts ==
  ASSUME TypeOK, NEW t \in 0..Len(idle), NEW E, PopIdle(t, E)
  PROVE  /\ idle' \in Seq(Permits)
         /\ Len(idle') = IF t = 0 THEN 0 ELSE t - 1
         /\ \A i \in 1..Len(idle') : i < t /\ idle'[i] = idle[i]
<1>1. idle' = SubSeq(idle, 1, t - 1) /\ idle \in Seq(Permits)
  BY DEF PopIdle, TypeOK
<1>2. CASE t = 0
  <2>1. idle' = <<>>
    BY <1>1, <1>2
  <2> QED
    BY <1>2, <2>1
<1>3. CASE t # 0
  <2>1. t - 1 \in 0..Len(idle)
    BY <1>1, <1>3
  <2> QED
    BY <1>1, <1>3, <2>1
<1> QED
  BY <1>2, <1>3

\* Taking position t from the list: what is left of it, the freed permits and
\* the permit at t are disjoint.
LEMMA PopIdleOwners ==
  ASSUME TypeOK, NoSharing, NEW t \in 0..Len(idle), NEW E, PopIdle(t, E)
  PROVE  /\ \A i, j \in 1..Len(idle') : idle'[i] = idle'[j] => i = j
         /\ \A i \in 1..Len(idle') : idle'[i] \notin E => idle'[i] \notin avail'
         /\ t # 0 => /\ idle[t] \in Permits
                     /\ idle[t] \notin E => idle[t] \notin avail'
                     /\ \A i \in 1..Len(idle') : idle'[i] # idle[t]
                     /\ \A g \in Callers : permit[g] # idle[t]
         /\ \A p \in Permits :
              p \in avail \/ (\E i \in 1..Len(idle) : idle[i] = p)
              => \/ p \in avail'
                 \/ \E i \in 1..Len(idle') : idle'[i] = p
                 \/ t # 0 /\ p = idle[t]
<1>1. /\ idle' \in Seq(Permits)
      /\ Len(idle') = IF t = 0 THEN 0 ELSE t - 1
      /\ \A i \in 1..Len(idle') : i < t /\ idle'[i] = idle[i]
  BY PopIdleFacts
<1>2. avail' = avail \cup {idle[i] : i \in (t + 1)..Len(idle)} \cup E
  BY DEF PopIdle
<1>3. idle \in Seq(Permits) /\ avail \in SUBSET Permits
      /\ permit \in [Callers -> Permits \cup {NoPermit}]
  BY DEF TypeOK
<1>4. \A i, j \in 1..Len(idle') : idle'[i] = idle'[j] => i = j
  BY <1>1, <1>3 DEF NoSharing
<1>5. \A i \in 1..Len(idle') : idle'[i] \notin E => idle'[i] \notin avail'
  <2> SUFFICES ASSUME NEW i \in 1..Len(idle'), idle'[i] \notin E
               PROVE  idle'[i] \notin avail'
    OBVIOUS
  <2>1. i \in 1..Len(idle) /\ i < t /\ idle'[i] = idle[i]
    BY <1>1, <1>3
  <2>2. idle[i] \notin avail
    BY <2>1 DEF NoSharing
  <2>3. \A j \in (t + 1)..Len(idle) : idle[j] # idle[i]
    BY <2>1, <1>3 DEF NoSharing
  <2> QED
    BY <1>2, <2>1, <2>2, <2>3
<1>6. ASSUME t # 0
      PROVE  /\ idle[t] \in Permits
             /\ idle[t] \notin E => idle[t] \notin avail'
             /\ \A i \in 1..Len(idle') : idle'[i] # idle[t]
             /\ \A g \in Callers : permit[g] # idle[t]
  <2>1. t \in 1..Len(idle) /\ idle[t] \in Permits
    BY <1>3, <1>6
  <2>2. idle[t] \notin avail
    BY <2>1 DEF NoSharing
  <2>3. \A j \in (t + 1)..Len(idle) : idle[j] # idle[t]
    BY <2>1, <1>3 DEF NoSharing
  <2>4. \A i \in 1..Len(idle') : idle'[i] # idle[t]
    BY <1>1, <1>3, <2>1 DEF NoSharing
  <2>5. \A g \in Callers : permit[g] # idle[t]
    BY <2>1, ConstantsAssumption DEF NoSharing
  <2> QED
    BY <1>2, <2>1, <2>2, <2>3, <2>4, <2>5
<1>7. ASSUME NEW p \in Permits, p \in avail \/ (\E i \in 1..Len(idle) : idle[i] = p)
      PROVE  \/ p \in avail'
             \/ \E i \in 1..Len(idle') : idle'[i] = p
             \/ t # 0 /\ p = idle[t]
  <2>1. CASE p \in avail
    BY <1>2, <2>1
  <2>2. ASSUME NEW i \in 1..Len(idle), idle[i] = p
        PROVE  \/ p \in avail'
               \/ \E k \in 1..Len(idle') : idle'[k] = p
               \/ t # 0 /\ p = idle[t]
    <3>1. CASE i > t
      BY <1>2, <1>3, <2>2, <3>1
    <3>2. CASE i = t
      BY <2>2, <3>2
    <3>3. CASE i < t
      <4>1. i \in 1..Len(idle') /\ idle'[i] = idle[i]
        BY <1>1, <1>3, <3>3
      <4> QED
        BY <2>2, <4>1
    <3> QED
      BY <3>1, <3>2, <3>3
  <2> QED
    BY <1>7, <2>1, <2>2
<1> QED
  BY <1>4, <1>5, <1>6, <1>7

\* A step that moves callers only between places where they own nothing.
LEMMA QuietStep ==
  ASSUME IInv, TypeOK',
         UNCHANGED <<ready, closed, avail, idle, alive, permit, streams, closer>>,
         \A g \in Callers : \/ pc'[g] = pc[g]
                            \/ /\ pc[g] \notin Holding /\ pc'[g] \notin Holding
                               /\ pc'[g] # "discard"
  PROVE  IInv'
<1>1. NoSharing' /\ NoLeak' /\ CloseOrder' /\ ClosedPoolIsEmpty'
  BY DEF IInv, NoSharing, NoLeak, CloseOrder, ClosedPoolIsEmpty
<1>2. Places'
  BY DEF IInv, Places, Holding
<1>3. NoOrphanConnection'
  <2>0. \A g \in Callers : pc'[g] = "discard" => closed'
    BY DEF IInv, NoOrphanConnection
  <2> SUFFICES ASSUME NEW p \in Permits, alive[p], NEW g \in Callers, permit[g] = p
               PROVE  pc'[g] \in UsePC \cup DropPC
    BY <2>0 DEF IInv, NoOrphanConnection
  <2>1. pc[g] \in Holding /\ pc[g] \in UsePC \cup DropPC
    BY ConstantsAssumption DEF IInv, Places, NoOrphanConnection
  <2> QED
    BY <2>1
<1> QED
  BY <1>1, <1>2, <1>3 DEF IInv

\* The steps of get that take or give no permit.
LEMMA WaitingInv ==
  ASSUME IInv, NEW g \in Callers,
         \/ Get(g) \/ GetRefused(g) \/ CreateNotified(g) \/ SelectPend(g)
         \/ SelectNotified(g)
         \/ LeaveSelect(g) /\ pc[g] \in {"poll", "wait"}
  PROVE  IInv'
<1> USE ConstantsAssumption
<1>1. CASE Get(g)
  <2>1. TypeOK'
    BY <1>1 DEF IInv, Get, Goto, TypeOK, PC, GetPC, startup, semaphore, notify
  <2> QED
    BY <1>1, <2>1, QuietStep
    DEF IInv, TypeOK, Get, Goto, Holding, UsePC, startup, semaphore, notify
<1>2. CASE GetRefused(g)
  <2>1. TypeOK'
    BY <1>2 DEF IInv, GetRefused, TypeOK, vars, startup, semaphore, notify
  <2> QED
    BY <1>2, <2>1, QuietStep
    DEF GetRefused, vars, startup, semaphore, notify
<1>3. CASE CreateNotified(g)
  <2>1. TypeOK'
    BY <1>3 DEF IInv, CreateNotified, Goto, TypeOK, PC, GetPC, startup, semaphore,
                notify
  <2> QED
    BY <1>3, <2>1, QuietStep
    DEF IInv, TypeOK, CreateNotified, Goto, Holding, UsePC, startup, semaphore, notify
<1>4. CASE SelectPend(g)
  <2>1. waiters' \in Seq(Callers) /\ semQ' \in Seq(Callers)
    BY <1>4 DEF IInv, TypeOK, SelectPend
  <2>2. pc' \in [Callers -> PC]
    BY <1>4 DEF IInv, TypeOK, SelectPend, Goto, PC, GetPC
  <2>3. TypeOK'
    BY <1>4, <2>1, <2>2 DEF IInv, TypeOK, SelectPend, startup
  <2> QED
    BY <1>4, <2>3, QuietStep
    DEF IInv, TypeOK, SelectPend, Goto, Holding, UsePC, startup
<1>5. CASE SelectNotified(g)
  <2>1. waiters' \in Seq(Callers) /\ semQ' \in Seq(Callers)
    BY <1>5, WithoutType DEF IInv, TypeOK, SelectNotified
  <2>2. stored' \in BOOLEAN
    BY <1>5, Zenon DEF SelectNotified
  <2>3. TypeOK'
    BY <1>5, <2>1, <2>2 DEF IInv, TypeOK, SelectNotified, Goto, PC, GetPC, startup
  <2> QED
    BY <1>5, <2>3, QuietStep
    DEF IInv, TypeOK, SelectNotified, Goto, Holding, UsePC, startup
<1>6. CASE LeaveSelect(g) /\ pc[g] \in {"poll", "wait"}
  <2>1. semQ' \in Seq(Callers)
    BY <1>6, WithoutType DEF IInv, TypeOK, LeaveSelect
  <2>2. /\ stored' \in BOOLEAN
        /\ waiters' \in Seq(Callers)
        /\ woken' \in [Callers -> {"no", "one", "all"}]
    BY <1>6, DropNotifiedType DEF IInv, LeaveSelect
  <2>3. TypeOK'
    BY <1>6, <2>1, <2>2 DEF IInv, TypeOK, LeaveSelect, Goto, PC, startup
  <2> QED
    BY <1>6, <2>3, QuietStep
    DEF IInv, TypeOK, LeaveSelect, Goto, Holding, UsePC, startup
<1> QED
  BY <1>1, <1>2, <1>3, <1>4, <1>5, <1>6

\* notify_one after a connection was parked.
LEMMA PushNotifyInv ==
  ASSUME IInv, NEW g \in Callers, PushNotify(g)
  PROVE  IInv'
<1>1. /\ stored' \in BOOLEAN
      /\ waiters' \in Seq(Callers)
      /\ woken' \in [Callers -> {"no", "one", "all"}]
  BY NotifyOneType DEF IInv, PushNotify
<1>2. TypeOK'
  BY <1>1 DEF IInv, TypeOK, PushNotify, Goto, PC, startup, semaphore
<1> QED
  BY <1>2, QuietStep
  DEF IInv, TypeOK, PushNotify, Goto, Holding, UsePC, startup, semaphore

\* A discarded connection goes after its permit.
LEMMA DiscardInv ==
  ASSUME IInv, NEW g \in Callers, Discard(g)
  PROVE  IInv'
<1>1. TypeOK'
  BY DEF IInv, TypeOK, Discard, Goto, PC, startup, semaphore, notify
<1> QED
  BY <1>1, QuietStep
  DEF IInv, TypeOK, Discard, Goto, Holding, UsePC, startup, semaphore, notify

\* A caller without a connection pops one, or finds none: its fresh permit, if
\* it has one, is released in exchange.
Pops(g, t, l) ==
  /\ pc[g] \in {"pop1", "pop2", "permit"}
  /\ IsTop(t)
  /\ PopIdle(t, IF t # 0 /\ permit[g] # NoPermit THEN {permit[g]} ELSE {})
  /\ permit' = [permit EXCEPT ![g] = IF t = 0 THEN @ ELSE idle[t]]
  /\ pc' = [pc EXCEPT ![g] = l]
  /\ IF t # 0 THEN l = "using" ELSE IF pc[g] = "permit" THEN l = "connect"
                               ELSE l \in {"create", "poll"}
  /\ UNCHANGED <<ready, closed, alive, streams, closer>>

LEMMA PopInv ==
  ASSUME IInv, TypeOK', NEW g \in Callers, NEW t \in 0..Len(idle), NEW l,
         Pops(g, t, l)
  PROVE  IInv'
<1> DEFINE E == IF t # 0 /\ permit[g] # NoPermit THEN {permit[g]} ELSE {}
<1>a. PopIdle(t, E)
  BY DEF Pops
<1> USE ConstantsAssumption
<1>1. /\ idle \in Seq(Permits) /\ avail \in SUBSET Permits
      /\ permit \in [Callers -> Permits \cup {NoPermit}]
      /\ pc \in [Callers -> PC] /\ streams \in [Callers -> 0..MaxStreams]
  BY DEF IInv, TypeOK
<1> HIDE DEF E
<1>2. streams[g] = 0 /\ (permit[g] # NoPermit <=> pc[g] = "permit")
  BY <1>1 DEF Pops, IInv, Places, Holding, UsePC
<1> USE DEF Pops
<1>3. /\ idle' \in Seq(Permits)
      /\ Len(idle') = IF t = 0 THEN 0 ELSE t - 1
      /\ \A i \in 1..Len(idle') : i < t /\ idle'[i] = idle[i]
  BY <1>a, PopIdleFacts DEF IInv
<1>4. /\ \A i, j \in 1..Len(idle') : idle'[i] = idle'[j] => i = j
      /\ \A i \in 1..Len(idle') : idle'[i] \notin E => idle'[i] \notin avail'
      /\ t # 0 => /\ idle[t] \in Permits
                  /\ idle[t] \notin E => idle[t] \notin avail'
                  /\ \A i \in 1..Len(idle') : idle'[i] # idle[t]
                  /\ \A h \in Callers : permit[h] # idle[t]
      /\ \A p \in Permits :
           p \in avail \/ (\E i \in 1..Len(idle) : idle[i] = p)
           => \/ p \in avail'
              \/ \E i \in 1..Len(idle') : idle'[i] = p
              \/ t # 0 /\ p = idle[t]
  <2>1. TypeOK /\ NoSharing
    BY DEF IInv
  <2> QED
    BY <1>a, <2>1, PopIdleOwners
<1>5. avail' = avail \cup {idle[i] : i \in (t + 1)..Len(idle)} \cup E
  BY <1>a DEF PopIdle
<1>6. \A i \in 1..Len(idle) : permit[g] # idle[i]
  BY <1>1 DEF IInv, NoSharing
<1>7. \A h \in Callers : h # g => permit'[h] = permit[h] /\ pc'[h] = pc[h]
  BY <1>1
<1>8. /\ t # 0 => permit'[g] = idle[t] /\ pc'[g] = "using"
      /\ t = 0 => permit'[g] = permit[g]
      /\ t = 0 => IF pc[g] = "permit" THEN pc'[g] = "connect"
                                      ELSE pc'[g] \in {"create", "poll"}
  BY <1>1
<1>9. \A i \in 1..Len(idle') : idle'[i] \notin avail'
  BY <1>3, <1>4, <1>6, <1>1 DEF E
<1>10. NoSharing'
  <2>1. ASSUME NEW h \in Callers, permit'[h] # NoPermit
        PROVE  /\ permit'[h] \notin avail'
               /\ \A i \in 1..Len(idle') : idle'[i] # permit'[h]
               /\ \A k \in Callers : permit'[k] = permit'[h] => k = h
    <3>1. CASE h = g /\ t # 0
      BY <2>1, <3>1, <1>4, <1>7, <1>8 DEF E
    <3>2. CASE h # g \/ t = 0
      <4>1. permit'[h] = permit[h] /\ permit[h] # NoPermit
        BY <2>1, <3>2, <1>7, <1>8
      <4>2. /\ permit[h] \notin avail
            /\ \A i \in 1..Len(idle) : idle[i] # permit[h]
            /\ \A k \in Callers : permit[k] = permit[h] => k = h
        BY <4>1 DEF IInv, NoSharing
      <4>3. permit[h] \notin E
        BY <4>2, <3>2 DEF E
      <4>4. permit[h] \notin {idle[i] : i \in (t + 1)..Len(idle)}
        <5>1. \A i \in (t + 1)..Len(idle) : i \in 1..Len(idle)
          BY <1>1
        <5> QED
          BY <4>2, <5>1
      <4>5. permit[h] \notin avail'
        BY <1>5, <4>2, <4>3, <4>4
      <4>6. \A i \in 1..Len(idle') : idle'[i] # permit[h]
        <5>1. \A i \in 1..Len(idle') : i \in 1..Len(idle) /\ idle'[i] = idle[i]
          BY <1>1, <1>3
        <5> QED
          BY <4>2, <5>1
      <4>7. \A k \in Callers : permit'[k] = permit'[h] => k = h
        BY <1>4, <1>7, <1>8, <4>1, <4>2
      <4> QED
        BY <4>1, <4>5, <4>6, <4>7
    <3> QED
      BY <3>1, <3>2
  <2>2. \A h \in Callers : streams'[h] > 0 => permit'[h] # NoPermit
    BY <1>2, <1>7 DEF IInv, NoSharing
  <2> QED
    BY <1>4, <1>9, <2>1, <2>2 DEF NoSharing
<1>11. NoLeak'
  <2> SUFFICES ASSUME NEW p \in Permits
               PROVE  \/ p \in avail'
                      \/ \E i \in 1..Len(idle') : idle'[i] = p
                      \/ \E h \in Callers : permit'[h] = p
    BY DEF NoLeak
  <2>1. ASSUME NEW h \in Callers, permit[h] = p
        PROVE  p \in avail' \/ \E k \in Callers : permit'[k] = p
    <3>1. CASE h # g \/ t = 0
      BY <2>1, <3>1, <1>7, <1>8
    <3>2. CASE h = g /\ t # 0
      BY <2>1, <3>2, <1>5 DEF E
    <3> QED
      BY <3>1, <3>2
  <2>2. CASE p \in avail \/ (\E i \in 1..Len(idle) : idle[i] = p)
    BY <2>2, <1>4, <1>8
  <2> QED
    BY <2>1, <2>2 DEF IInv, NoLeak
<1>12. Places'
  BY <1>2, <1>4, <1>7, <1>8 DEF IInv, Places, Holding, UsePC
<1>13. NoOrphanConnection'
  <2> SUFFICES ASSUME NEW p \in Permits, alive[p]
               PROVE  /\ p \notin avail'
                      /\ \A h \in Callers : permit'[h] = p => pc'[h] \in UsePC \cup DropPC
    <3>1. \A h \in Callers : pc'[h] = "discard" => closed'
      BY <1>8 DEF IInv, NoOrphanConnection
    <3> QED
      BY <3>1 DEF NoOrphanConnection
  <2>1. permit[g] # p
    BY DEF IInv, NoOrphanConnection, UsePC, DropPC
  <2>2. p \notin avail'
    BY <1>5, <2>1 DEF IInv, NoOrphanConnection, IsTop, E
  <2>3. \A h \in Callers : permit'[h] = p => pc'[h] \in UsePC \cup DropPC
    BY <1>7, <1>8, <2>1 DEF IInv, NoOrphanConnection, UsePC
  <2> QED
    BY <2>2, <2>3
<1>14. CloseOrder'
  BY DEF IInv, CloseOrder
<1>15. ClosedPoolIsEmpty'
  BY <1>1, <1>3 DEF IInv, ClosedPoolIsEmpty
<1> QED
  BY <1>10, <1>11, <1>12, <1>13, <1>14, <1>15 DEF IInv

LEMMA TryPopInv ==
  ASSUME IInv, NEW g \in Callers, TryPop(g)
  PROVE  IInv'
<1>1. PICK t \in 0..Len(idle) :
        /\ IsTop(t)
        /\ PopIdle(t, {})
        /\ IF t # 0
           THEN /\ permit' = [permit EXCEPT ![g] = idle[t]]
                /\ Goto(g, "using")
                /\ woken' = [woken EXCEPT ![g] = "no"]
           ELSE /\ Goto(g, IF pc[g] = "pop1" THEN "create" ELSE "poll")
                /\ UNCHANGED <<permit, woken>>
  BY DEF TryPop
<1>2. /\ UNCHANGED <<opened, ready, closed, semClosed, semQ, alive, stored, waiters,
                     streams, closer, reaper>>
      /\ pc[g] \in {"pop1", "pop2"}
  BY DEF TryPop, startup
<1>3. permit[g] = NoPermit
  BY <1>2 DEF IInv, Places, Holding, UsePC
<1>4. t # 0 => idle[t] \in Permits
  BY DEF IInv, TypeOK
<1>5. permit' = [permit EXCEPT ![g] = IF t = 0 THEN @ ELSE idle[t]]
  BY <1>1 DEF IInv, TypeOK
<1>6. PICK l \in {"using", "create", "poll"} :
        /\ pc' = [pc EXCEPT ![g] = l]
        /\ IF t # 0 THEN l = "using" ELSE l \in {"create", "poll"}
  BY <1>1 DEF Goto
<1>7. idle' \in Seq(Permits)
  BY <1>1, PopIdleFacts DEF IInv
<1>8. avail' \in SUBSET Permits
  BY <1>1 DEF IInv, TypeOK, PopIdle
<1>9. TypeOK'
  BY <1>1, <1>2, <1>4, <1>5, <1>6, <1>7, <1>8 DEF IInv, TypeOK, PC, GetPC, UsePC
<1>10. Pops(g, t, l)
  BY <1>1, <1>2, <1>3, <1>4, <1>5, <1>6 DEF Pops
<1> QED
  BY <1>9, <1>10, PopInv

LEMMA PopWithPermitInv ==
  ASSUME IInv, NEW g \in Callers, PopWithPermit(g)
  PROVE  IInv'
<1>1. PICK t \in 0..Len(idle) :
        /\ IsTop(t)
        /\ PopIdle(t, IF t = 0 THEN {} ELSE {permit[g]})
        /\ permit' = [permit EXCEPT ![g] = IF t = 0 THEN @ ELSE idle[t]]
        /\ Goto(g, IF t = 0 THEN "connect" ELSE "using")
  BY DEF PopWithPermit
<1>2. /\ UNCHANGED <<opened, ready, closed, semClosed, semQ, alive, stored, waiters,
                     woken, streams, closer, reaper>>
      /\ pc[g] = "permit"
  BY DEF PopWithPermit, startup, notify
<1>3. permit[g] \in Permits
  BY <1>2 DEF IInv, TypeOK, Places, Holding
<1>4. permit[g] # NoPermit
  BY <1>3, ConstantsAssumption
<1>5. t # 0 => idle[t] \in Permits
  BY DEF IInv, TypeOK
<1>6. PICK l \in {"using", "connect"} :
        /\ pc' = [pc EXCEPT ![g] = l]
        /\ IF t # 0 THEN l = "using" ELSE l = "connect"
  BY <1>1 DEF Goto
<1>7. idle' \in Seq(Permits)
  BY <1>1, PopIdleFacts DEF IInv
<1>8. avail' \in SUBSET Permits
  BY <1>1, <1>3 DEF IInv, TypeOK, PopIdle
<1>9. TypeOK'
  BY <1>1, <1>2, <1>5, <1>6, <1>7, <1>8 DEF IInv, TypeOK, PC, GetPC, UsePC
<1>10. Pops(g, t, l)
  BY <1>1, <1>2, <1>3, <1>4, <1>5, <1>6 DEF Pops
<1> QED
  BY <1>9, <1>10, PopInv

\* The semaphore grants a permit.
LEMMA SelectAcquiredInv ==
  ASSUME IInv, NEW g \in Callers, SelectAcquired(g)
  PROVE  IInv'
<1> USE ConstantsAssumption
<1>1. PICK p \in avail : avail' = avail \ {p} /\ permit' = [permit EXCEPT ![g] = p]
  BY DEF SelectAcquired
<1>2. /\ UNCHANGED <<opened, ready, closed, semClosed, idle, alive, streams, closer, reaper>>
      /\ pc[g] \in {"poll", "wait"} /\ pc' = [pc EXCEPT ![g] = "permit"]
  BY DEF SelectAcquired, Granted, Goto, startup
<1>3. semQ' \in Seq(Callers)
  BY WithoutType DEF IInv, TypeOK, SelectAcquired
<1>4. /\ stored' \in BOOLEAN
      /\ waiters' \in Seq(Callers)
      /\ woken' \in [Callers -> {"no", "one", "all"}]
  BY DropNotifiedType DEF IInv, SelectAcquired
<1>5. TypeOK'
  BY <1>1, <1>2, <1>3, <1>4 DEF IInv, TypeOK, PC, GetPC
<1>6. permit[g] = NoPermit /\ p \in Permits
  BY <1>1, <1>2 DEF IInv, TypeOK, Places, Holding, UsePC
<1>7. NoSharing'
  BY <1>1, <1>2, <1>6 DEF IInv, TypeOK, NoSharing
<1>8. NoLeak'
  BY <1>1, <1>2, <1>6 DEF IInv, TypeOK, NoLeak
<1>9. Places'
  BY <1>1, <1>2, <1>6 DEF IInv, TypeOK, Places, Holding, UsePC
<1>10. NoOrphanConnection'
  BY <1>1, <1>2, <1>6 DEF IInv, TypeOK, NoOrphanConnection
<1>11. CloseOrder' /\ ClosedPoolIsEmpty'
  BY <1>2 DEF IInv, CloseOrder, ClosedPoolIsEmpty
<1> QED
  BY <1>5, <1>7, <1>8, <1>9, <1>10, <1>11 DEF IInv

LEMMA ConnectOkInv ==
  ASSUME IInv, NEW g \in Callers, ConnectOk(g)
  PROVE  IInv'
<1> USE ConstantsAssumption DEF IInv, ConnectOk, Goto, startup, semaphore, notify
<1>1. TypeOK'
  BY DEF TypeOK, PC, UsePC
<1>2. NoSharing' /\ NoLeak' /\ CloseOrder' /\ ClosedPoolIsEmpty'
  BY DEF NoSharing, NoLeak, CloseOrder, ClosedPoolIsEmpty
<1>3. Places'
  BY DEF TypeOK, Places, Holding, UsePC
<1>4. NoOrphanConnection'
  <2>1. permit[g] \in Permits
    BY DEF TypeOK, Places, Holding
  <2>2. ASSUME NEW p \in Permits, alive'[p]
        PROVE  /\ p \notin avail
               /\ \A h \in Callers : permit[h] = p => pc'[h] \in UsePC \cup DropPC
    <3>1. CASE p = permit[g]
      BY <2>1, <3>1 DEF TypeOK, NoSharing, UsePC
    <3>2. CASE p # permit[g]
      BY <2>2, <3>2 DEF TypeOK, NoOrphanConnection, UsePC
    <3> QED
      BY <3>1, <3>2
  <2> QED
    BY <2>2 DEF NoOrphanConnection
<1> QED
  BY <1>1, <1>2, <1>3, <1>4

\* A caller gives its permit back to the semaphore; its connection, if there
\* was one, is gone, or is about to be on a closed pool.
GivesUp(g) ==
  /\ pc[g] \in {"connect", "drop", "push"}
  /\ avail' = avail \cup {permit[g]}
  /\ permit' = [permit EXCEPT ![g] = NoPermit]
  /\ \/ pc' = [pc EXCEPT ![g] = "out"]
     \/ closed /\ pc' = [pc EXCEPT ![g] = "discard"]
  /\ \/ alive' = [alive EXCEPT ![permit[g]] = FALSE]
     \/ pc[g] = "connect" /\ alive' = alive
  /\ UNCHANGED <<ready, closed, idle, streams, closer>>
  /\ UNCHANGED <<opened, semClosed, semQ, stored, waiters, woken, reaper>>

LEMMA GivesUpInv ==
  ASSUME IInv, NEW g \in Callers, GivesUp(g)
  PROVE  IInv'
<1> USE ConstantsAssumption DEF IInv, GivesUp
<1>1. permit[g] \in Permits /\ permit[g] # NoPermit
  BY DEF TypeOK, Places, Holding
<1>2. alive' \in [Permits -> BOOLEAN]
  BY <1>1, Zenon DEF TypeOK
<1>3. TypeOK'
  <2>1. pc' \in [Callers -> PC]
    BY DEF TypeOK, PC, DropPC
  <2> QED
    BY <1>1, <1>2, <2>1 DEF TypeOK
<1>4. streams[g] = 0
  <2>1. streams[g] \in 0..MaxStreams
    BY DEF TypeOK
  <2>2. ~(streams[g] > 0)
    BY DEF Places, UsePC
  <2> QED
    BY <2>1, <2>2
<1>5. NoSharing'
  <2>1. \A i \in 1..Len(idle) : idle[i] \notin avail'
    BY <1>1 DEF NoSharing
  <2>2. \A h \in Callers : h # g => permit'[h] = permit[h] /\ permit[h] # permit[g]
    BY <1>1 DEF TypeOK, NoSharing
  <2>3. permit'[g] = NoPermit
    BY DEF TypeOK
  <2> QED
    BY <1>1, <1>4, <2>1, <2>2, <2>3 DEF NoSharing
<1>6. NoLeak'
  BY <1>1 DEF TypeOK, NoLeak
<1>7. Places'
  BY <1>1, <1>4 DEF TypeOK, Places, Holding, UsePC
<1>8. NoOrphanConnection'
  <2>1. ~alive'[permit[g]]
    BY <1>1 DEF TypeOK, NoOrphanConnection, UsePC, DropPC
  <2>2. \A p \in Permits : alive'[p] => alive[p]
    BY <1>1 DEF TypeOK
  <2>3. \A h \in Callers : pc'[h] = "discard" => closed'
    BY DEF TypeOK, NoOrphanConnection
  <2>4. \A h \in Callers : h # g => pc'[h] = pc[h] /\ permit'[h] = permit[h]
    BY DEF TypeOK
  <2> QED
    BY <1>1, <2>1, <2>2, <2>3, <2>4 DEF TypeOK, NoOrphanConnection, NoSharing
<1>9. CloseOrder' /\ ClosedPoolIsEmpty'
  BY DEF CloseOrder, ClosedPoolIsEmpty
<1> QED
  BY <1>3, <1>5, <1>6, <1>7, <1>8, <1>9

LEMMA ConnectFailedInv ==
  ASSUME IInv, NEW g \in Callers, ConnectFailed(g)
  PROVE  IInv'
<1>1. GivesUp(g)
  BY DEF ConnectFailed, GivesUp, Goto, startup, notify
<1> QED
  BY <1>1, GivesUpInv

\* The handle and the streams of a checkout come and go.
LEMMA CheckoutInv ==
  ASSUME IInv, NEW g \in Callers, OpenStream(g) \/ CloseStream(g) \/ DropHandle(g)
  PROVE  IInv'
<1> USE ConstantsAssumption DEF IInv, Goto, startup, semaphore, notify
<1>1. UNCHANGED <<ready, closed, avail, idle, alive, permit, closer>>
  BY DEF OpenStream, CloseStream, DropHandle
<1>2. pc[g] \in UsePC /\ permit[g] # NoPermit
  BY DEF OpenStream, CloseStream, DropHandle, Places, Holding, UsePC
<1>3. /\ \A h \in Callers : h # g => pc'[h] = pc[h] /\ streams'[h] = streams[h]
      /\ pc'[g] \in UsePC \cup {"drop"}
      /\ streams'[g] \in 0..MaxStreams
      /\ streams'[g] > 0 => pc'[g] \in UsePC
  <2>1. CASE OpenStream(g)
    BY <1>2, <2>1 DEF OpenStream, TypeOK
  <2>2. CASE CloseStream(g)
    BY <1>2, <2>2 DEF CloseStream, TypeOK, UsePC
  <2>3. CASE DropHandle(g)
    BY <1>2, <2>3 DEF DropHandle, TypeOK, UsePC
  <2> QED
    BY <2>1, <2>2, <2>3
<1>4. /\ pc' \in [Callers -> PC] /\ streams' \in [Callers -> 0..MaxStreams]
  <2>1. /\ pc' = [pc EXCEPT ![g] = pc'[g]]
        /\ streams' = [streams EXCEPT ![g] = streams'[g]]
    BY DEF OpenStream, CloseStream, DropHandle, TypeOK
  <2>2. pc'[g] \in PC
    BY <1>3 DEF PC, UsePC, DropPC
  <2> QED
    BY <1>3, <2>1, <2>2 DEF TypeOK
<1>5. TypeOK'
  BY <1>1, <1>4 DEF OpenStream, CloseStream, DropHandle, TypeOK
<1>6. NoSharing' /\ NoLeak' /\ CloseOrder' /\ ClosedPoolIsEmpty'
  BY <1>1, <1>2, <1>3 DEF NoSharing, NoLeak, CloseOrder, ClosedPoolIsEmpty
<1>7. Places'
  BY <1>1, <1>2, <1>3 DEF Places, Holding, UsePC
<1>8. NoOrphanConnection'
  BY <1>1, <1>2, <1>3 DEF NoOrphanConnection, UsePC, DropPC
<1> QED
  BY <1>5, <1>6, <1>7, <1>8

LEMMA DropCheckoutInv ==
  ASSUME IInv, NEW g \in Callers, DropCheckout(g)
  PROVE  IInv'
<1> USE ConstantsAssumption
<1>1. CASE closed \/ ~alive[permit[g]]
  <2>1. GivesUp(g)
    BY <1>1 DEF DropCheckout, GivesUp, Goto, startup, notify
  <2> QED
    BY <2>1, GivesUpInv
<1>2. CASE ~(closed \/ ~alive[permit[g]])
  <2> USE DEF IInv, DropCheckout, Goto, startup, notify
  <2>1. /\ pc[g] = "drop" /\ pc' = [pc EXCEPT ![g] = "push"]
        /\ UNCHANGED <<ready, closed, avail, idle, alive, permit, streams, closer>>
    BY <1>2
  <2>2. TypeOK'
    BY <1>2, <2>1 DEF TypeOK, PC, DropPC
  <2>3. NoSharing' /\ NoLeak' /\ CloseOrder' /\ ClosedPoolIsEmpty'
    BY <2>1 DEF NoSharing, NoLeak, CloseOrder, ClosedPoolIsEmpty
  <2>4. Places'
    BY <2>1 DEF TypeOK, Places, Holding, UsePC
  <2>5. NoOrphanConnection'
    BY <2>1 DEF TypeOK, NoOrphanConnection, DropPC
  <2> QED
    BY <2>2, <2>3, <2>4, <2>5
<1> QED
  BY <1>1, <1>2

\* A permit that was in nobody's hands but a caller's, or in the semaphore, is
\* appended to the idle list.
LEMMA AppendOwners ==
  ASSUME TypeOK, NEW p \in Permits, idle' = Append(idle, p)
  PROVE  /\ idle' \in Seq(Permits)
         /\ Len(idle') = Len(idle) + 1
         /\ \A i \in 1..Len(idle) : idle'[i] = idle[i]
         /\ idle'[Len(idle) + 1] = p
  BY DEF TypeOK

\* Checkout::drop parks a live connection, or drops it on a closed pool.
LEMMA PushInv ==
  ASSUME IInv, NEW g \in Callers, Push(g)
  PROVE  IInv'
<1> USE ConstantsAssumption
<1>1. CASE closed
  <2>1. GivesUp(g)
    BY <1>1 DEF Push, PushIdle, GivesUp, Goto, startup, notify
  <2> QED
    BY <2>1, GivesUpInv
<1>2. CASE ~closed
  <2>1. permit[g] \in Permits /\ permit[g] # NoPermit
    BY DEF IInv, TypeOK, Places, Holding, Push
  <2>2. /\ pc[g] = "push" /\ pc' = [pc EXCEPT ![g] = "notify"]
        /\ permit' = [permit EXCEPT ![g] = NoPermit]
        /\ UNCHANGED <<ready, closed, avail, alive, streams, closer>>
        /\ UNCHANGED <<opened, semClosed, semQ, stored, waiters, woken, reaper>>
        /\ idle' = Append(idle, permit[g])
    BY <1>2 DEF Push, PushIdle, Goto, startup, notify
  <2>3. /\ idle' \in Seq(Permits)
        /\ Len(idle') = Len(idle) + 1
        /\ \A i \in 1..Len(idle) : idle'[i] = idle[i]
        /\ idle'[Len(idle) + 1] = permit[g]
    BY <2>1, <2>2, AppendOwners DEF IInv
  <2>4. Len(idle) \in Nat
    BY DEF IInv, TypeOK
  <2>5. TypeOK'
    BY <2>2, <2>3 DEF IInv, TypeOK, PC, DropPC
  <2>6. streams[g] = 0
    <3>1. streams[g] \in 0..MaxStreams
      BY DEF IInv, TypeOK
    <3>2. ~(streams[g] > 0)
      BY <2>2 DEF IInv, Places, UsePC
    <3> QED
      BY <3>1, <3>2
  <2>7. /\ \A h \in Callers : h # g => permit'[h] = permit[h] /\ pc'[h] = pc[h]
        /\ permit'[g] = NoPermit /\ pc'[g] = "notify"
    BY <2>2 DEF IInv, TypeOK
  <2>8. NoSharing'
    <3>1. /\ permit[g] \notin avail
          /\ \A i \in 1..Len(idle) : idle[i] # permit[g]
          /\ \A h \in Callers : permit[h] = permit[g] => h = g
      BY <2>1 DEF IInv, NoSharing
    <3>2. \A i, j \in 1..Len(idle') : idle'[i] = idle'[j] => i = j
      BY <2>3, <2>4, <3>1 DEF IInv, NoSharing
    <3>3. \A i \in 1..Len(idle') : idle'[i] \notin avail'
      BY <2>2, <2>3, <2>4, <3>1 DEF IInv, NoSharing
    <3>4. ASSUME NEW h \in Callers, permit'[h] # NoPermit
          PROVE  /\ permit'[h] \notin avail'
                 /\ \A i \in 1..Len(idle') : idle'[i] # permit'[h]
                 /\ \A k \in Callers : permit'[k] = permit'[h] => k = h
      BY <2>2, <2>3, <2>4, <2>7, <3>1, <3>4 DEF IInv, NoSharing
    <3> QED
      BY <2>2, <2>6, <2>7, <3>2, <3>3, <3>4 DEF IInv, NoSharing
  <2>9. NoLeak'
    <3> SUFFICES ASSUME NEW p \in Permits
                 PROVE  \/ p \in avail'
                        \/ \E i \in 1..Len(idle') : idle'[i] = p
                        \/ \E h \in Callers : permit'[h] = p
      BY DEF NoLeak
    <3>1. CASE p = permit[g]
      BY <2>3, <2>4, <3>1
    <3>2. CASE p # permit[g]
      BY <2>2, <2>3, <2>4, <2>7, <3>2 DEF IInv, NoLeak
    <3> QED
      BY <3>1, <3>2
  <2>10. Places'
    BY <2>2, <2>6, <2>7 DEF IInv, Places, Holding, UsePC
  <2>11. NoOrphanConnection'
    BY <2>2, <2>7 DEF IInv, NoOrphanConnection
  <2>12. CloseOrder' /\ ClosedPoolIsEmpty'
    BY <1>2, <2>2 DEF IInv, CloseOrder, ClosedPoolIsEmpty
  <2> QED
    BY <2>5, <2>8, <2>9, <2>10, <2>11, <2>12 DEF IInv
<1> QED
  BY <1>1, <1>2

\* from_config parks a warm-up connection.
LEMMA StartOpenInv ==
  ASSUME IInv, StartOpen
  PROVE  IInv'
<1> USE ConstantsAssumption
<1>1. PICK p \in avail : /\ avail' = avail \ {p}
                         /\ alive' = [alive EXCEPT ![p] = TRUE]
                         /\ idle' = Append(idle, p)
  BY DEF StartOpen
<1>2. /\ ~ready /\ opened < MinConnections /\ opened' = opened + 1
      /\ UNCHANGED <<ready, closed, semClosed, semQ, pc, permit, streams, closer, reaper>>
  BY DEF StartOpen
<1>3. p \in Permits /\ opened' \in 0..MinConnections
  BY <1>1, <1>2 DEF IInv, TypeOK
<1>4. /\ idle' \in Seq(Permits)
      /\ Len(idle') = Len(idle) + 1
      /\ \A i \in 1..Len(idle) : idle'[i] = idle[i]
      /\ idle'[Len(idle) + 1] = p
  BY <1>1, <1>3, AppendOwners DEF IInv
<1>5. Len(idle) \in Nat
  BY DEF IInv, TypeOK
<1>6. /\ stored' \in BOOLEAN
      /\ waiters' \in Seq(Callers)
      /\ woken' \in [Callers -> {"no", "one", "all"}]
  BY NotifyOneType DEF IInv, StartOpen
<1>7. alive' \in [Permits -> BOOLEAN]
  BY <1>1, <1>3 DEF IInv, TypeOK
<1>8. TypeOK'
  BY <1>1, <1>2, <1>3, <1>4, <1>6, <1>7 DEF IInv, TypeOK
<1>9. /\ \A i \in 1..Len(idle) : idle[i] # p
      /\ \A g \in Callers : permit[g] # p
  BY <1>1, <1>3 DEF IInv, NoSharing
<1>10. NoSharing'
  <2>1. \A i, j \in 1..Len(idle') : idle'[i] = idle'[j] => i = j
    BY <1>4, <1>5, <1>9 DEF IInv, NoSharing
  <2>2. \A i \in 1..Len(idle') : idle'[i] \notin avail'
    BY <1>1, <1>4, <1>5, <1>9 DEF IInv, NoSharing
  <2>3. ASSUME NEW h \in Callers, permit[h] # NoPermit
        PROVE  /\ permit[h] \notin avail'
               /\ \A i \in 1..Len(idle') : idle'[i] # permit[h]
               /\ \A k \in Callers : permit[k] = permit[h] => k = h
    BY <1>1, <1>4, <1>5, <1>9, <2>3 DEF IInv, NoSharing
  <2> QED
    BY <1>2, <2>1, <2>2, <2>3 DEF IInv, NoSharing
<1>11. NoLeak'
  BY <1>1, <1>2, <1>4, <1>5 DEF IInv, NoLeak
<1>12. Places'
  BY <1>2 DEF IInv, Places
<1>13. NoOrphanConnection'
  BY <1>1, <1>2, <1>3, <1>9 DEF IInv, TypeOK, NoOrphanConnection
<1>14. CloseOrder' /\ ClosedPoolIsEmpty'
  BY <1>2 DEF IInv, CloseOrder, ClosedPoolIsEmpty
<1> QED
  BY <1>8, <1>10, <1>11, <1>12, <1>13, <1>14 DEF IInv

\* from_config returns, the first two statements of close, its last one, the
\* reaper wakes up, a connection breaks.
LEMMA BackgroundInv ==
  ASSUME IInv,
         \/ StartReady \/ CloseFlag \/ CloseSemaphore \/ CloseNotify \/ ReaperWakes
         \/ \E p \in Permits : Break(p)
  PROVE  IInv'
<1> USE ConstantsAssumption DEF IInv, vars, startup, semaphore, notify
<1>1. /\ UNCHANGED <<avail, idle, pc, permit, streams>>
      /\ alive' \in [Permits -> BOOLEAN] /\ \A p \in Permits : alive'[p] => alive[p]
  BY DEF StartReady, CloseFlag, CloseSemaphore, CloseNotify, ReaperWakes, Break,
         TypeOK
<1>2. ready' \in BOOLEAN /\ closed' \in BOOLEAN /\ semClosed' \in BOOLEAN
      /\ stored' \in BOOLEAN
  BY Zenon DEF StartReady, CloseFlag, CloseSemaphore, CloseNotify, NotifyWaiters,
               ReaperWakes, Break, TypeOK
<1>3. waiters' \in Seq(Callers) /\ woken' \in [Callers -> {"no", "one", "all"}]
  <2>1. CASE CloseNotify
    <3>1. /\ waiters' = <<>>
          /\ woken' = [g \in Callers |->
                         IF pc[g] \in {"pop2", "poll", "wait"} /\ woken[g] = "no"
                         THEN "all" ELSE woken[g]]
      BY <2>1 DEF CloseNotify, NotifyWaiters
    <3> QED
      BY <3>1 DEF TypeOK
  <2>2. CASE ~CloseNotify
    BY <2>2 DEF StartReady, CloseFlag, CloseSemaphore, ReaperWakes, Break, TypeOK
  <2> QED
    BY <2>1, <2>2
<1>4. /\ UNCHANGED <<opened, semQ>>
      /\ closer' \in {"no", "closed", "sem", "clear", "done"}
      /\ reaper' \in {"sleep", "reap", "stop"}
  BY DEF StartReady, CloseFlag, CloseSemaphore, CloseNotify, ReaperWakes, Break,
         TypeOK
<1>5. TypeOK'
  BY <1>1, <1>2, <1>3, <1>4 DEF TypeOK
<1>6. NoSharing' /\ NoLeak' /\ Places'
  BY <1>1 DEF NoSharing, NoLeak, Places
<1>7. NoOrphanConnection'
  <2>1. closed => closed'
    BY DEF StartReady, CloseFlag, CloseSemaphore, CloseNotify, ReaperWakes, Break
  <2> QED
    BY <1>1, <2>1 DEF NoOrphanConnection
<1>8. CloseOrder'
  BY DEF StartReady, CloseFlag, CloseSemaphore, CloseNotify, ReaperWakes, Break,
         TypeOK, CloseOrder
<1>9. ClosedPoolIsEmpty'
  BY <1>1 DEF StartReady, CloseFlag, CloseSemaphore, CloseNotify, ReaperWakes,
              Break, ClosedPoolIsEmpty
<1> QED
  BY <1>5, <1>6, <1>7, <1>8, <1>9

\* close discards the idle connections.
LEMMA CloseClearInv ==
  ASSUME IInv, CloseClear
  PROVE  IInv'
<1> USE ConstantsAssumption
<1>1. /\ idle' = <<>> /\ avail' = avail \cup Rng(idle)
      /\ alive' = [p \in Permits |-> alive[p] /\ p \notin Rng(idle)]
      /\ closer = "sem" /\ closer' = "clear"
      /\ UNCHANGED <<opened, ready, closed, semClosed, semQ, stored, waiters, woken, pc,
                     permit, streams, reaper>>
  BY DEF CloseClear, startup, notify
<1>2. /\ avail' \in SUBSET Permits
      /\ \A p \in Permits : p \in Rng(idle) <=> \E i \in 1..Len(idle) : idle[i] = p
  BY <1>1 DEF IInv, TypeOK, Rng
<1>3. alive' \in [Permits -> BOOLEAN]
  BY <1>1, Zenon
<1>4. idle' \in Seq(Permits) /\ Len(idle') = 0
  BY <1>1
<1>5. TypeOK'
  BY <1>1, <1>2, <1>3, <1>4 DEF IInv, TypeOK
<1>6. \A g \in Callers : permit[g] # NoPermit =>
        permit[g] \in Permits /\ permit[g] \notin avail'
  <2> SUFFICES ASSUME NEW g \in Callers, permit[g] # NoPermit
               PROVE  permit[g] \in Permits /\ permit[g] \notin avail'
    OBVIOUS
  <2>1. permit[g] \in Permits
    BY DEF IInv, TypeOK
  <2>2. permit[g] \notin avail /\ \A i \in 1..Len(idle) : idle[i] # permit[g]
    BY DEF IInv, NoSharing
  <2> QED
    BY <1>1, <1>2, <2>1, <2>2
<1>7. NoSharing'
  <2>1. \A i \in 1..Len(idle') : FALSE
    BY <1>4
  <2> QED
    BY <1>1, <1>6, <2>1 DEF IInv, NoSharing
<1>8. NoLeak'
  BY <1>1, <1>2 DEF IInv, NoLeak
<1>9. Places'
  BY <1>1 DEF IInv, Places
<1>10. NoOrphanConnection'
  BY <1>1, <1>2 DEF IInv, TypeOK, NoOrphanConnection
<1>11. CloseOrder' /\ ClosedPoolIsEmpty'
  BY <1>1 DEF IInv, CloseOrder, ClosedPoolIsEmpty
<1> QED
  BY <1>5, <1>7, <1>8, <1>9, <1>10, <1>11 DEF IInv

\* The reaper keeps a rearranged part of the idle list and frees the rest.
LEMMA ReapInv ==
  ASSUME IInv, Reap
  PROVE  IInv'
<1> USE ConstantsAssumption
<1>1. PICK X \in SUBSET (1..Len(idle)), n \in 0..Len(idle) :
        \E keep \in [1..n -> 1..Len(idle)] :
          LET kept == [k \in 1..n |-> idle[keep[k]]]
              dropped == Rng(idle) \ Rng(kept) IN
          /\ IsKept(keep, n, X)
          /\ idle' = kept
          /\ avail' = avail \cup dropped
          /\ alive' = [p \in Permits |-> alive[p] /\ p \notin dropped]
  BY DEF Reap
<1>2. PICK keep \in [1..n -> 1..Len(idle)] :
        /\ IsKept(keep, n, X)
        /\ idle' = [k \in 1..n |-> idle[keep[k]]]
        /\ avail' = avail \cup (Rng(idle) \ Rng(idle'))
        /\ alive' = [p \in Permits |-> alive[p] /\ p \notin Rng(idle) \ Rng(idle')]
  BY <1>1
<1>3. /\ UNCHANGED <<opened, ready, closed, semClosed, semQ, stored, waiters, woken, pc,
                     permit, streams, closer>>
      /\ reaper' = "sleep"
  BY DEF Reap, startup, notify
<1>4. idle \in Seq(Permits) /\ Len(idle) \in Nat /\ n \in Nat
  BY DEF IInv, TypeOK
<1>5. idle' \in Seq(Permits) /\ Len(idle') = n
  <2>1. \A k \in 1..n : idle[keep[k]] \in Permits
    BY <1>2, <1>4
  <2> QED
    BY <1>2, <1>4, <2>1
<1>6. \A k \in 1..n : keep[k] \in 1..Len(idle) /\ idle'[k] = idle[keep[k]]
  BY <1>2
<1>7. \A k, l \in 1..n : k # l => keep[k] # keep[l]
  <2>1. \A k, l \in 1..n : k < l => KeptBefore(keep[k], keep[l], X)
    BY <1>2 DEF IsKept
  <2>2. \A k, l \in 1..n : k < l => keep[k] # keep[l]
    <3>1. \A i \in 1..Len(idle) : ~KeptBefore(i, i, X)
      BY <1>4 DEF KeptBefore
    <3> QED
      BY <1>6, <2>1, <3>1
  <2> QED
    BY <1>4, <2>2
<1>8. /\ \A p \in Permits : p \in Rng(idle) <=> \E i \in 1..Len(idle) : idle[i] = p
      /\ \A p \in Permits : p \in Rng(idle') <=> \E i \in 1..Len(idle') : idle'[i] = p
      /\ Rng(idle) \subseteq Permits /\ Rng(idle') \subseteq Rng(idle)
  <2>1. \A i \in 1..Len(idle) : idle[i] \in Permits
    BY <1>4
  <2>2. Rng(idle) \subseteq Permits
    BY <2>1 DEF Rng
  <2>3. Rng(idle') \subseteq Rng(idle)
    BY <1>5, <1>6 DEF Rng
  <2> QED
    BY <2>2, <2>3 DEF Rng
<1>9. alive' \in [Permits -> BOOLEAN]
  BY <1>2, Zenon
<1>10. TypeOK'
  BY <1>2, <1>3, <1>5, <1>8, <1>9 DEF IInv, TypeOK
<1>11. NoSharing'
  <2>1. \A i, j \in 1..Len(idle') : idle'[i] = idle'[j] => i = j
    BY <1>5, <1>6, <1>7 DEF IInv, NoSharing
  <2>2. \A i \in 1..Len(idle') : idle'[i] \notin avail'
    <3> SUFFICES ASSUME NEW i \in 1..Len(idle') PROVE idle'[i] \notin avail'
      OBVIOUS
    <3>1. idle'[i] \notin avail
      BY <1>5, <1>6 DEF IInv, NoSharing
    <3>2. idle'[i] \in Rng(idle')
      BY DEF Rng
    <3> QED
      BY <1>2, <3>1, <3>2
  <2>3. ASSUME NEW g \in Callers, permit[g] # NoPermit
        PROVE  /\ permit[g] \notin avail'
               /\ \A i \in 1..Len(idle') : idle'[i] # permit[g]
               /\ \A h \in Callers : permit[h] = permit[g] => h = g
    <3>1. /\ permit[g] \notin avail
          /\ \A i \in 1..Len(idle) : idle[i] # permit[g]
          /\ \A h \in Callers : permit[h] = permit[g] => h = g
      BY <2>3 DEF IInv, NoSharing
    <3>2. permit[g] \notin Rng(idle)
      BY <3>1 DEF Rng
    <3> QED
      BY <1>2, <1>5, <1>6, <3>1, <3>2
  <2> QED
    BY <1>3, <2>1, <2>2, <2>3 DEF IInv, NoSharing
<1>12. NoLeak'
  <2> SUFFICES ASSUME NEW p \in Permits
               PROVE  \/ p \in avail'
                      \/ \E i \in 1..Len(idle') : idle'[i] = p
                      \/ \E h \in Callers : permit'[h] = p
    BY DEF NoLeak
  <2> QED
    BY <1>2, <1>3, <1>8 DEF IInv, NoLeak
<1>13. Places'
  BY <1>3 DEF IInv, Places
<1>14. NoOrphanConnection'
  BY <1>2, <1>3 DEF IInv, NoOrphanConnection
<1>15. CloseOrder'
  BY <1>3 DEF IInv, CloseOrder
<1>16. ClosedPoolIsEmpty'
  <2> SUFFICES ASSUME idle = <<>> PROVE idle' = <<>>
    BY <1>3 DEF IInv, ClosedPoolIsEmpty
  <2>1. n = 0
    BY <1>4
  <2> QED
    BY <1>5, <2>1
<1> QED
  BY <1>10, <1>11, <1>12, <1>13, <1>14, <1>15, <1>16 DEF IInv

-----------------------------------------------------------------------------

\* Every step of the pool, or a stuttering step, preserves the invariant.
LEMMA StepInv == IInv /\ [Next]_vars => IInv'
<1> SUFFICES ASSUME IInv, [Next]_vars PROVE IInv'
  OBVIOUS
<1>1. CASE Start
  BY <1>1, StartOpenInv, BackgroundInv DEF Start
<1>2. ASSUME NEW g \in Callers, Run(g)
      PROVE  IInv'
  <2>1. CASE CreateNotified(g) \/ SelectPend(g) \/ SelectNotified(g) \/ SelectClosed(g)
    BY <2>1, WaitingInv DEF SelectClosed
  <2>2. CASE TryPop(g) \/ PopWithPermit(g)
    BY <2>2, TryPopInv, PopWithPermitInv
  <2>3. CASE SelectAcquired(g)
    BY <2>3, SelectAcquiredInv
  <2>4. CASE DropCheckout(g) \/ Push(g) \/ PushNotify(g) \/ Discard(g)
    BY <2>4, DropCheckoutInv, PushInv, PushNotifyInv, DiscardInv
  <2> QED
    BY <1>2, <2>1, <2>2, <2>3, <2>4 DEF Run
<1>3. ASSUME NEW g \in Callers, Connect(g)
      PROVE  IInv'
  BY <1>3, ConnectOkInv, ConnectFailedInv DEF Connect
<1>4. ASSUME NEW g \in Callers, Environment(g)
      PROVE  IInv'
  BY <1>4, WaitingInv, CheckoutInv DEF Environment, SelectTimedOut, CancelWait
<1>5. CASE CloseFlag \/ CloseRest \/ ReaperWakes \/ \E p \in Permits : Break(p)
  BY <1>5, BackgroundInv, CloseClearInv DEF CloseRest
<1>6. CASE Reap
  BY <1>6, ReapInv
<1>7. CASE UNCHANGED vars
  <2>1. TypeOK'
    BY <1>7 DEF IInv, TypeOK, vars, startup, semaphore, notify
  <2> QED
    BY <1>7, <2>1, QuietStep DEF vars, startup, semaphore, notify
<1> QED
  BY <1>1, <1>2, <1>3, <1>4, <1>5, <1>6, <1>7 DEF Next

THEOREM Invariance == Spec => []IInv
  BY InitInv, StepInv, PTL DEF Spec

\* The state of the pool keeps its shape: in particular warm-up and
\* streams stay within their bounds (from_config, fetch_rows).
THEOREM TypeCorrect == Spec => []TypeOK
<1>1. IInv => TypeOK
  BY DEF IInv
<1> QED
  BY <1>1, Invariance, PTL

\* Exclusive use: at no time is a connection in the idle list, in two callers'
\* hands or under a free permit while a handle or a stream still holds it.
THEOREM ExclusiveUse == Spec => []NoSharing
<1>1. IInv => NoSharing
  BY DEF IInv
<1> QED
  BY <1>1, Invariance, PTL

\* No path of get, Checkout::drop, close or the reaper loses a permit.
THEOREM PermitsKept == Spec => []NoLeak
<1>1. IInv => NoLeak
  BY DEF IInv
<1> QED
  BY <1>1, Invariance, PTL

\* The pool is bounded: every live connection is under a permit of its own, or is
\* one a closed pool has just discarded, on the step between drop(permit) and
\* drop(conn) in Checkout::drop, or at the return of push_idle.
THEOREM ConnectionsBounded == Spec => []NoOrphanConnection
<1>1. IInv => NoOrphanConnection
  BY DEF IInv
<1> QED
  BY <1>1, Invariance, PTL

\* A closed pool stays empty whatever was being returned when it was closed.
THEOREM ClosedStaysEmpty == Spec => []ClosedPoolIsEmpty
<1>1. IInv => ClosedPoolIsEmpty
  BY DEF IInv
<1> QED
  BY <1>1, Invariance, PTL

-----------------------------------------------------------------------------
(* The pool implements BoundedPool.                                        *)

Drained == closer \in {"clear", "done"}

\* The refinement mapping, permit by permit: who owns it is determined.
OwnerFacts ==
  \A p \in Permits :
    /\ Owner(p) \in {"free", "idle"} \cup Callers
    /\ Owner(p) = "free" <=> p \in avail
    /\ Owner(p) = "idle" <=> p \notin avail /\ \A g \in Callers : permit[g] # p
    /\ \A g \in Callers : Owner(p) = g <=> permit[g] = p

LEMMA OwnerIs == IInv => OwnerFacts
<1> SUFFICES ASSUME IInv, NEW p \in Permits
             PROVE  /\ Owner(p) \in {"free", "idle"} \cup Callers
                    /\ Owner(p) = "free" <=> p \in avail
                    /\ Owner(p) = "idle" <=> p \notin avail /\ \A g \in Callers : permit[g] # p
                    /\ \A g \in Callers : Owner(p) = g <=> permit[g] = p
  BY DEF OwnerFacts
<1> USE ConstantsAssumption
<1>1. \A g \in Callers : permit[g] = p => p \notin avail /\ \A h \in Callers : permit[h] = p => h = g
  BY DEF IInv, NoSharing
<1>2. CASE p \in avail
  BY <1>1, <1>2 DEF Owner
<1>3. CASE p \notin avail /\ \E g \in Callers : permit[g] = p
  <2>1. PICK g \in Callers : permit[g] = p
    BY <1>3
  <2>2. Owner(p) = CHOOSE h \in Callers : permit[h] = p
    BY <1>3 DEF Owner
  <2>3. Owner(p) = g
    BY <1>1, <2>1, <2>2
  <2> QED
    BY <1>1, <1>3, <2>1, <2>3
<1>4. CASE p \notin avail /\ \A g \in Callers : permit[g] # p
  BY <1>4 DEF Owner
<1> QED
  BY <1>2, <1>3, <1>4

LEMMA OwnerIsNext == IInv' => OwnerFacts'
  BY OwnerIs, PTL

\* What is parked is in the list.
LEMMA IdleIsParked ==
  ASSUME IInv
  PROVE  \A p \in Permits : Owner(p) = "idle" <=> \E i \in 1..Len(idle) : idle[i] = p
<1>1. OwnerFacts
  BY OwnerIs
<1>2. idle \in Seq(Permits)
  BY DEF IInv, TypeOK
<1>3. ASSUME NEW p \in Permits, NEW i \in 1..Len(idle), idle[i] = p
      PROVE  p \notin avail /\ \A g \in Callers : permit[g] # p
  BY <1>3, ConstantsAssumption DEF IInv, NoSharing
<1> QED
  BY <1>1, <1>3 DEF IInv, NoLeak, OwnerFacts

LEMMA OwnerKept ==
  ASSUME OwnerFacts, OwnerFacts', NEW p \in Permits, p \in avail' <=> p \in avail,
         \A g \in Callers : permit'[g] = p <=> permit[g] = p
  PROVE  Owner(p)' = Owner(p)
<1>1. /\ Owner(p)' \in {"free", "idle"} \cup Callers
      /\ Owner(p)' = "free" <=> p \in avail'
      /\ Owner(p)' = "idle" <=> p \notin avail' /\ \A g \in Callers : permit'[g] # p
      /\ \A g \in Callers : Owner(p)' = g <=> permit'[g] = p
  BY DEF OwnerFacts
<1>2. /\ Owner(p) \in {"free", "idle"} \cup Callers
      /\ Owner(p) = "free" <=> p \in avail
      /\ Owner(p) = "idle" <=> p \notin avail /\ \A g \in Callers : permit[g] # p
      /\ \A g \in Callers : Owner(p) = g <=> permit[g] = p
  BY DEF OwnerFacts
<1> QED
  BY <1>1, <1>2

\* Nothing BoundedPool speaks of has changed.
LEMMA Unseen ==
  ASSUME UNCHANGED <<avail, permit>>, Drained' <=> Drained
  PROVE  UNCHANGED Abstract!vars
<1>1. \A p \in Permits : Owner(p)' = Owner(p)
  BY DEF Owner
<1>2. (closer \in {"clear", "done"})' = (closer \in {"clear", "done"})
  BY DEF Drained
<1> QED
  BY <1>1, <1>2 DEF Abstract!vars

\* Connections are dropped from the idle list.
LEMMA Evicts ==
  ASSUME IInv, IInv', NEW F \in SUBSET Permits, \A p \in F : \E i \in 1..Len(idle) : idle[i] = p,
         avail' = avail \cup F, permit' = permit, closer' = closer
  PROVE  Abstract!Evict
<1>1. OwnerFacts /\ OwnerFacts'
  BY OwnerIs, OwnerIsNext
<1>2. \A p \in F : Owner(p) = "idle" /\ Owner(p)' = "free"
  BY <1>1, IdleIsParked DEF OwnerFacts
<1>3. \A p \in Permits : p \notin F => Owner(p)' = Owner(p)
  BY <1>1, OwnerKept
<1> QED
  BY <1>2, <1>3 DEF Abstract!Evict, Abstract!Owned, Abstract!Freeing

\* A connection is put into the idle list.
LEMMA Parks ==
  ASSUME IInv, IInv', NEW p \in Permits, ~Drained, closer' = closer,
         p \in avail \/ \E g \in Callers : permit[g] = p,
         p \notin avail' /\ \A g \in Callers : permit'[g] # p,
         \A q \in Permits : q # p => /\ q \in avail' <=> q \in avail
                                     /\ \A g \in Callers : permit'[g] = q <=> permit[g] = q
  PROVE  Abstract!Park(p)
<1>1. OwnerFacts /\ OwnerFacts'
  BY OwnerIs, OwnerIsNext
<1>2. Owner(p) # "idle" /\ Owner(p)' = "idle"
  BY <1>1 DEF OwnerFacts
<1>3. \A q \in Permits : q # p => Owner(q)' = Owner(q)
  BY <1>1, OwnerKept
<1> QED
  BY <1>2, <1>3 DEF Abstract!Park, Drained

\* A caller is lent the connection at position t of the idle list.
LEMMA Lends ==
  ASSUME IInv, IInv', NEW g \in Callers, NEW t \in 1..Len(idle), NEW p \in Permits, p = idle[t],
         PopIdle(t, IF permit[g] # NoPermit THEN {permit[g]} ELSE {}),
         permit' = [permit EXCEPT ![g] = p], closer' = closer
  PROVE  Abstract!Lend(g, p)
<1> USE ConstantsAssumption
<1> DEFINE F == {idle[i] : i \in (t + 1)..Len(idle)}
           E == IF permit[g] # NoPermit THEN {permit[g]} ELSE {}
           own == {q \in Permits : Owner(q) = g}
           parked == {q \in Permits : Owner(q) = "idle"}
<1>1. OwnerFacts /\ OwnerFacts'
  BY OwnerIs, OwnerIsNext
<1>2. /\ idle \in Seq(Permits) /\ Len(idle) \in Nat
      /\ permit \in [Callers -> Permits \cup {NoPermit}]
      /\ avail' = avail \cup F \cup E
  BY DEF IInv, TypeOK, PopIdle
<1>3. \A i \in (t + 1)..Len(idle) : i \in 1..Len(idle) /\ i # t
  BY <1>2
<1>4. F \subseteq parked \ {p} /\ p \in parked
  <2>1. \A i \in 1..Len(idle) : idle[i] \in parked
    BY <1>2, IdleIsParked
  <2>2. \A i \in 1..Len(idle) : i # t => idle[i] # p
    BY DEF IInv, NoSharing
  <2> QED
    BY <1>3, <2>1, <2>2
<1>5. own = E
  BY <1>1, <1>2 DEF OwnerFacts
<1>6. ~Drained
  BY DEF IInv, ClosedPoolIsEmpty, Drained
<1>7. \A q \in Permits : q \notin avail =>
        \A h \in Callers : permit[h] = q => Owner(q) = h
  BY <1>1 DEF OwnerFacts
<1> HIDE DEF F, E
<1>8. \A q \in Permits : q # p /\ q \in F \cup E => Owner(q)' = "free"
  BY <1>1, <1>2 DEF OwnerFacts
<1>9. Owner(p)' = g
  BY <1>1, <1>2 DEF OwnerFacts
<1>10. \A q \in Permits : q # p /\ q \notin F \cup E => Owner(q)' = Owner(q)
  <2> SUFFICES ASSUME NEW q \in Permits, q # p, q \notin F \cup E PROVE Owner(q)' = Owner(q)
    OBVIOUS
  <2>1. permit[g] # q
    BY DEF E
  <2>2. \A h \in Callers : permit'[h] = q <=> permit[h] = q
    BY <1>2, <2>1
  <2> QED
    BY <1>1, <1>2, <2>2, OwnerKept
<1>11. [q \in Permits |-> Owner(q)]'
         = [[q \in Permits |-> IF q \in F \cup own THEN "free" ELSE Owner(q)] EXCEPT ![p] = g]
  BY <1>2, <1>5, <1>8, <1>9, <1>10
<1>12. F \in SUBSET (parked \ {p})
  BY <1>4
<1>13. Abstract!Owned("idle") = parked /\ Abstract!Owned(g) = own
  BY DEF Abstract!Owned
<1>14. [q \in Permits |-> Owner(q)][p] = "idle"
  BY <1>4
<1> HIDE DEF own, parked
<1>15. [q \in Permits |-> IF q \in F \cup own THEN "free" ELSE Owner(q)] = Abstract!Freeing(F \cup own)
  BY DEF Abstract!Freeing
<1>16. [q \in Permits |-> Owner(q)]' = [Abstract!Freeing(F \cup Abstract!Owned(g)) EXCEPT ![p] = g]
  BY <1>11, <1>13, <1>15
<1>17. F \in SUBSET (Abstract!Owned("idle") \ {p})
  BY <1>12, <1>13
<1>18. ~(closer \in {"clear", "done"}) /\ UNCHANGED (closer \in {"clear", "done"})
  BY <1>6 DEF Drained
<1> QED
  BY <1>14, <1>16, <1>17, <1>18 DEF Abstract!Lend

\* A caller takes a free permit.
LEMMA Reserves ==
  ASSUME IInv, IInv', NEW g \in Callers, SelectAcquired(g)
  PROVE  \E p \in Permits : Abstract!Reserve(g, p)
<1> USE ConstantsAssumption
<1>1. OwnerFacts /\ OwnerFacts'
  BY OwnerIs, OwnerIsNext
<1>2. PICK p \in avail : avail' = avail \ {p} /\ permit' = [permit EXCEPT ![g] = p]
  BY DEF SelectAcquired
<1>3. /\ p \in Permits /\ permit[g] = NoPermit /\ permit \in [Callers -> Permits \cup {NoPermit}]
      /\ closer' = closer
  BY <1>2 DEF SelectAcquired, Granted, IInv, TypeOK, Places, Holding, UsePC
<1>4. Owner(p) = "free" /\ Owner(p)' = g
  BY <1>1, <1>2, <1>3 DEF OwnerFacts
<1>5. \A q \in Permits : q # p => Owner(q)' = Owner(q)
  <2> SUFFICES ASSUME NEW q \in Permits, q # p PROVE Owner(q)' = Owner(q)
    OBVIOUS
  <2>1. \A h \in Callers : permit'[h] = q <=> permit[h] = q
    BY <1>2, <1>3
  <2> QED
    BY <1>1, <1>2, <2>1, OwnerKept
<1>6. Abstract!Owned(g) = {}
  BY <1>1, <1>3 DEF Abstract!Owned, OwnerFacts
<1>7. [q \in Permits |-> Owner(q)]' = [[q \in Permits |-> Owner(q)] EXCEPT ![p] = g]
  BY <1>3, <1>4, <1>5
<1> QED
  BY <1>3, <1>4, <1>6, <1>7 DEF Abstract!Reserve

\* A caller gives its permit up.
LEMMA Discards ==
  ASSUME IInv, IInv', NEW g \in Callers, GivesUp(g)
  PROVE  Abstract!Discard(g)
<1> USE ConstantsAssumption
<1>1. OwnerFacts /\ OwnerFacts'
  BY OwnerIs, OwnerIsNext
<1>2. /\ permit[g] \in Permits /\ permit \in [Callers -> Permits \cup {NoPermit}]
      /\ avail' = avail \cup {permit[g]} /\ permit' = [permit EXCEPT ![g] = NoPermit]
      /\ closer' = closer
  BY DEF GivesUp, IInv, TypeOK, Places, Holding
<1>3. \A q \in Permits : permit[g] = q => Owner(q) = g /\ Owner(q)' = "free"
  BY <1>1, <1>2 DEF OwnerFacts
<1>4. \A q \in Permits : permit[g] # q => Owner(q)' = Owner(q) /\ Owner(q) # g
  <2> SUFFICES ASSUME NEW q \in Permits, permit[g] # q PROVE Owner(q)' = Owner(q) /\ Owner(q) # g
    OBVIOUS
  <2>1. \A h \in Callers : permit'[h] = q <=> permit[h] = q
    BY <1>2
  <2>2. q \in avail' <=> q \in avail
    BY <1>2
  <2>3. Owner(q) # g
    BY <1>1 DEF OwnerFacts
  <2> QED
    BY <1>1, <2>1, <2>2, <2>3, OwnerKept
<1>5. Abstract!Owned(g) = {q \in Permits : Owner(q) = g}
  BY DEF Abstract!Owned
<1>6. [q \in Permits |-> Owner(q)]' = Abstract!Freeing(Abstract!Owned(g))
  BY <1>3, <1>4, <1>5 DEF Abstract!Freeing
<1> QED
  BY <1>2, <1>6 DEF Abstract!Discard

LEMMA StartOpenRefines ==
  ASSUME IInv, IInv', StartOpen PROVE \E p \in Permits : Abstract!Park(p)
<1> USE ConstantsAssumption
<1>1. PICK p \in avail : avail' = avail \ {p}
  BY DEF StartOpen
<1>2. p \in Permits /\ permit' = permit /\ closer' = closer /\ ~Drained
  BY DEF StartOpen, IInv, TypeOK, CloseOrder, Drained
<1>3. p \notin avail' /\ \A g \in Callers : permit'[g] # p
  BY <1>1, <1>2 DEF IInv, NoSharing
<1> QED
  BY <1>1, <1>2, <1>3, Parks

LEMMA PushRefines ==
  ASSUME IInv, IInv', NEW g \in Callers, Push(g)
  PROVE  (\E p \in Permits : Abstract!Park(p)) \/ Abstract!Discard(g)
<1> USE ConstantsAssumption
<1>1. CASE closed
  <2>1. GivesUp(g)
    BY <1>1 DEF Push, PushIdle, GivesUp, Goto, startup, notify
  <2> QED
    BY <2>1, Discards
<1>2. CASE ~closed
  <2>1. /\ permit[g] \in Permits /\ permit \in [Callers -> Permits \cup {NoPermit}]
        /\ permit' = [permit EXCEPT ![g] = NoPermit] /\ avail' = avail /\ closer' = closer
    BY <1>2 DEF Push, PushIdle, IInv, TypeOK, Places, Holding
  <2>2. PICK p \in Permits : p = permit[g]
    BY <2>1
  <2>3. p \notin avail /\ \A h \in Callers : permit[h] = p => h = g
    BY <2>2 DEF IInv, NoSharing
  <2>4. \A h \in Callers : permit'[h] # p
    BY <2>1, <2>3
  <2>5. \A q \in Permits : q # p => \A h \in Callers : permit'[h] = q <=> permit[h] = q
    BY <2>1, <2>2
  <2>6. ~Drained
    BY <1>2 DEF IInv, CloseOrder, Drained
  <2>7. Abstract!Park(p)
    BY <2>1, <2>2, <2>3, <2>4, <2>5, <2>6, Parks
  <2> QED
    BY <2>7
<1> QED
  BY <1>1, <1>2

\* pop_idle, with or without a permit in hand.
LEMMA PopRefines ==
  ASSUME IInv, IInv', NEW g \in Callers, NEW t \in 0..Len(idle),
         PopIdle(t, IF t # 0 /\ permit[g] # NoPermit THEN {permit[g]} ELSE {}),
         permit' = [permit EXCEPT ![g] = IF t = 0 THEN @ ELSE idle[t]], closer' = closer
  PROVE  Abstract!Evict \/ \E p \in Permits : Abstract!Lend(g, p)
<1>1. idle \in Seq(Permits) /\ permit \in [Callers -> Permits \cup {NoPermit}] /\ Len(idle) \in Nat
  BY DEF IInv, TypeOK
<1>2. CASE t = 0
  <2> DEFINE F == {idle[i] : i \in (t + 1)..Len(idle)}
  <2>1. avail' = avail \cup F
    BY <1>2 DEF PopIdle
  <2>2. F \in SUBSET Permits /\ \A p \in F : \E i \in 1..Len(idle) : idle[i] = p
    BY <1>1, <1>2
  <2>3. permit' = permit
    BY <1>1, <1>2
  <2> HIDE DEF F
  <2> QED
    BY <2>1, <2>2, <2>3, Evicts
<1>3. CASE t # 0
  <2>1. t \in 1..Len(idle)
    BY <1>1, <1>3
  <2>2. PICK p \in Permits : p = idle[t]
    BY <1>1, <2>1
  <2>3. permit' = [permit EXCEPT ![g] = p]
    BY <1>3, <2>2
  <2>4. PopIdle(t, IF permit[g] # NoPermit THEN {permit[g]} ELSE {})
    BY <1>3
  <2> QED
    BY <2>1, <2>2, <2>3, <2>4, Lends
<1> QED
  BY <1>2, <1>3

LEMMA TryPopRefines ==
  ASSUME IInv, IInv', NEW g \in Callers, TryPop(g) \/ PopWithPermit(g)
  PROVE  Abstract!Evict \/ \E p \in Permits : Abstract!Lend(g, p)
<1> USE ConstantsAssumption
<1>0. permit \in [Callers -> Permits \cup {NoPermit}] /\ closer' = closer
  BY DEF IInv, TypeOK, TryPop, PopWithPermit
<1>1. CASE TryPop(g)
  <2>1. PICK t \in 0..Len(idle) :
          /\ PopIdle(t, {})
          /\ permit' = IF t # 0 THEN [permit EXCEPT ![g] = idle[t]] ELSE permit
    BY <1>1 DEF TryPop
  <2>2. permit[g] = NoPermit
    BY <1>1 DEF TryPop, IInv, Places, Holding, UsePC
  <2>3. permit' = [permit EXCEPT ![g] = IF t = 0 THEN @ ELSE idle[t]]
    BY <1>0, <2>1
  <2>4. PopIdle(t, IF t # 0 /\ permit[g] # NoPermit THEN {permit[g]} ELSE {})
    BY <2>1, <2>2
  <2> QED
    BY <1>0, <2>3, <2>4, PopRefines
<1>2. CASE PopWithPermit(g)
  <2>1. PICK t \in 0..Len(idle) :
          /\ PopIdle(t, IF t = 0 THEN {} ELSE {permit[g]})
          /\ permit' = [permit EXCEPT ![g] = IF t = 0 THEN @ ELSE idle[t]]
    BY <1>2 DEF PopWithPermit
  <2>2. permit[g] # NoPermit
    BY <1>2 DEF PopWithPermit, IInv, Places, Holding
  <2>3. (IF t # 0 /\ permit[g] # NoPermit THEN {permit[g]} ELSE {}) = IF t = 0 THEN {} ELSE {permit[g]}
    BY <2>2
  <2> QED
    BY <1>0, <2>1, <2>3, PopRefines
<1> QED
  BY <1>1, <1>2

LEMMA ReapRefines == ASSUME IInv, IInv', Reap PROVE Abstract!Evict
<1> DEFINE F == Rng(idle) \ Rng(idle')
<1>1. avail' = avail \cup F /\ permit' = permit /\ closer' = closer
  BY DEF Reap
<1>2. F \in SUBSET Permits /\ \A p \in F : \E i \in 1..Len(idle) : idle[i] = p
  BY DEF IInv, TypeOK, Rng
<1> HIDE DEF F
<1> QED
  BY <1>1, <1>2, Evicts

LEMMA CloseClearRefines == ASSUME IInv, IInv', CloseClear PROVE Abstract!Drain
<1>1. OwnerFacts /\ OwnerFacts'
  BY OwnerIs, OwnerIsNext
<1>2. avail' = avail \cup Rng(idle) /\ permit' = permit /\ closer' = "clear"
  BY DEF CloseClear
<1>3. \A p \in Permits : Owner(p) = "idle" <=> p \in Rng(idle)
  BY IdleIsParked DEF Rng
<1>4. \A p \in Permits : p \in Rng(idle) => Owner(p)' = "free"
  BY <1>1, <1>2 DEF OwnerFacts
<1>5. \A p \in Permits : p \notin Rng(idle) => Owner(p)' = Owner(p)
  BY <1>1, <1>2, OwnerKept
<1>6. [p \in Permits |-> Owner(p)]' = Abstract!Freeing(Abstract!Owned("idle"))
  BY <1>3, <1>4, <1>5 DEF Abstract!Freeing, Abstract!Owned
<1> QED
  BY <1>2, <1>6 DEF Abstract!Drain

LEMMA InitRefines == Init => Abstract!Init
  BY DEF Init, Abstract!Init, Owner

LEMMA StepRefines == IInv /\ IInv' /\ [Next]_vars => [Abstract!Next]_(Abstract!vars)
<1> SUFFICES ASSUME IInv, IInv', [Next]_vars PROVE Abstract!Next \/ UNCHANGED Abstract!vars
  OBVIOUS
<1>1. CASE Start
  <2>1. CASE StartOpen
    BY <2>1, StartOpenRefines DEF Abstract!Next
  <2>2. CASE StartReady
    BY <2>2, Unseen DEF StartReady, semaphore, Drained
  <2> QED
    BY <1>1, <2>1, <2>2 DEF Start
<1>2. ASSUME NEW g \in Callers, Run(g) \/ Connect(g) \/ Environment(g)
      PROVE  Abstract!Next \/ UNCHANGED Abstract!vars
  <2>1. CASE TryPop(g) \/ PopWithPermit(g)
    BY <2>1, TryPopRefines DEF Abstract!Next
  <2>2. CASE SelectAcquired(g)
    BY <2>2, Reserves DEF Abstract!Next
  <2>3. CASE Push(g)
    BY <2>3, PushRefines DEF Abstract!Next
  <2>4. CASE ConnectFailed(g)
    <3>1. GivesUp(g)
      BY <2>4 DEF ConnectFailed, GivesUp, Goto, startup, notify
    <3> QED
      BY <3>1, Discards DEF Abstract!Next
  <2>5. CASE DropCheckout(g)
    <3>1. CASE closed \/ ~alive[permit[g]]
      <4>1. GivesUp(g)
        BY <2>5, <3>1 DEF DropCheckout, GivesUp, Goto, startup, notify
      <4> QED
        BY <4>1, Discards DEF Abstract!Next
    <3>2. CASE ~(closed \/ ~alive[permit[g]])
      BY <2>5, <3>2, Unseen DEF DropCheckout, Drained
    <3> QED
      BY <3>1, <3>2
  <2>6. CASE \/ CreateNotified(g) \/ SelectPend(g) \/ SelectNotified(g) \/ SelectClosed(g)
             \/ SelectTimedOut(g) \/ CancelWait(g) \/ PushNotify(g) \/ Discard(g)
    <3>1. UNCHANGED <<avail, permit, closer>>
      BY <2>6 DEF CreateNotified, SelectPend, SelectNotified, SelectClosed, SelectTimedOut,
                  CancelWait, PushNotify, Discard, LeaveSelect, semaphore
    <3> QED
      BY <3>1, Unseen DEF Drained
  <2>7. CASE \/ ConnectOk(g) \/ GetRefused(g) \/ Get(g)
             \/ OpenStream(g) \/ CloseStream(g) \/ DropHandle(g)
    <3>1. UNCHANGED <<avail, permit, closer>>
      BY <2>7 DEF ConnectOk, GetRefused, Get, OpenStream, CloseStream, DropHandle, vars, semaphore
    <3> QED
      BY <3>1, Unseen DEF Drained
  <2> QED
    BY <1>2, <2>1, <2>2, <2>3, <2>4, <2>5, <2>6, <2>7 DEF Run, Connect, Environment
<1>3. CASE CloseFlag \/ CloseSemaphore \/ CloseNotify
  BY <1>3, Unseen DEF CloseFlag, CloseSemaphore, CloseNotify, semaphore, Drained
<1>4. CASE CloseClear
  BY <1>4, CloseClearRefines DEF Abstract!Next
<1>5. CASE Reap
  BY <1>5, ReapRefines DEF Abstract!Next
<1>6. CASE ReaperWakes \/ (\E p \in Permits : Break(p)) \/ UNCHANGED vars
  BY <1>6, Unseen DEF ReaperWakes, Break, vars, semaphore, Drained
<1> QED
  BY <1>1, <1>2, <1>3, <1>4, <1>5, <1>6 DEF Next, CloseRest

\* The pool with all its machinery (semaphore, idle list, Notify, reaper, close
\* in four statements) does nothing but BoundedPool's steps: permits are parked,
\* reserved, lent, given up and evicted, and nothing is parked or lent once
\* close has drained the list.
THEOREM PoolIsBoundedPool == Spec => ImplementsBoundedPool
<1>1. Spec => Abstract!Init
  BY InitRefines DEF Spec
<1> QED
  BY <1>1, Invariance, StepRefines, PTL DEF Spec, ImplementsBoundedPool, Abstract!Spec


-----------------------------------------------------------------------------
(* The pool does not stall.                                                *)

\* A caller that will look at the idle list, return or release what it holds,
\* or announce what it returned, before it waits or leaves.
Active(g) ==
  pc[g] \in {"pop1", "create", "pop2", "permit", "connect"} \cup UsePC \cup DropPC \/ woken[g] # "no"

\* A caller in the select that nobody has notified.
Unnoticed(g) == pc[g] \in {"poll", "wait"} /\ woken[g] = "no"

Once(s) == \A i, j \in 1..Len(s) : s[i] = s[j] => i = j

\* The queues hold the waiting callers, once; a notification is only kept while
\* nobody is registered, and only a waiting caller gets one.
Queues ==
  /\ \A g \in Callers : pc[g] = "wait" <=> g \in Rng(semQ)
  /\ \A g \in Callers : pc[g] = "wait" /\ woken[g] = "no" <=> g \in Rng(waiters)
  /\ Once(semQ) /\ Once(waiters)
  /\ stored => waiters = <<>>
  /\ \A g \in Callers : woken[g] = "one" => pc[g] = "wait"
  /\ \A g \in Callers : woken[g] # "no" => pc[g] \in {"pop2", "poll", "wait"}

\* close, statement by statement.
CloseStages ==
  /\ closed <=> closer # "no"
  /\ semClosed => closer \notin {"no", "closed"}
  /\ \A g \in Callers : woken[g] = "all" => closer = "done"
  /\ closer = "done" => \A g \in Callers : pc[g] \in {"pop2", "poll", "wait"} => woken[g] # "no"
  /\ ~ready => \A g \in Callers : pc[g] = "out"

\* While the pool is open, nobody is left unnoticed unless something is about
\* to happen: a caller is active, a permit is free or a notification is kept.
Noticed ==
  closer = "no" /\ (\E g \in Callers : Unnoticed(g))
    => (\E g \in Callers : Active(g)) \/ avail # {} \/ stored

SInv == Queues /\ CloseStages /\ Noticed

LEMMA TailOnce ==
  ASSUME NEW s \in Seq(Callers), s # <<>>, Once(s)
  PROVE  /\ Head(s) \in Callers /\ Head(s) \in Rng(s)
         /\ Tail(s) \in Seq(Callers) /\ Once(Tail(s)) /\ Rng(Tail(s)) = Rng(s) \ {Head(s)}
<1> DEFINE n == Len(s)
           r == Tail(s)
<1>1. /\ n \in Nat /\ n >= 1 /\ r \in Seq(Callers) /\ Len(r) = n - 1
      /\ \A i \in 1..(n - 1) : r[i] = s[i + 1]
      /\ Head(s) = s[1] /\ \A i \in 1..n : s[i] \in Callers
  OBVIOUS
<1> HIDE DEF n, r
<1>2. \A i, j \in 1..n : s[i] = s[j] => i = j
  BY DEF Once, n
<1>3. Once(r)
  BY <1>1, <1>2 DEF Once
<1>4. \A i \in 1..(n - 1) : i + 1 \in 1..n /\ i + 1 # 1
  BY <1>1
<1>5. \A i \in 1..n : i # 1 => i - 1 \in 1..(n - 1) /\ r[i - 1] = s[i]
  BY <1>1
<1>6. Rng(r) \subseteq Rng(s) \ {s[1]}
  BY <1>1, <1>2, <1>4 DEF Rng, n
<1>7. Rng(s) \ {s[1]} \subseteq Rng(r)
  BY <1>1, <1>5 DEF Rng, n
<1>8. s[1] \in Rng(s)
  BY <1>1 DEF Rng, n
<1> QED
  BY <1>1, <1>3, <1>6, <1>7, <1>8 DEF n, r

LEMMA WithoutOnce ==
  ASSUME NEW s \in Seq(Callers), NEW g, Once(s)
  PROVE  Without(s, g) \in Seq(Callers) /\ Once(Without(s, g)) /\ Rng(Without(s, g)) = Rng(s) \ {g}
<1>0. Without(s, g) \in Seq(Callers)
  BY WithoutType
<1>1. CASE g \notin Rng(s)
  BY <1>0, <1>1 DEF Without
<1>2. CASE g \in Rng(s)
  <2> DEFINE k == CHOOSE i \in 1..Len(s) : s[i] = g
             n == Len(s)
             r == [j \in 1..(n - 1) |-> IF j < k THEN s[j] ELSE s[j + 1]]
  <2>1. k \in 1..n /\ s[k] = g
    BY <1>2 DEF Rng
  <2>2. Without(s, g) = r
    BY <1>2 DEF Without
  <2>3. n \in Nat /\ \A i, j \in 1..n : s[i] = s[j] => i = j
    BY DEF Once
  <2> HIDE DEF k
  <2>4. \A j \in 1..(n - 1) : r[j] = IF j < k THEN s[j] ELSE s[j + 1]
    OBVIOUS
  <2>5. Len(r) = n - 1
    <3>1. r \in Seq(Callers)
      BY <1>0, <2>2
    <3>2. DOMAIN r = 1..(n - 1) /\ n - 1 \in Nat
      BY <2>1, <2>3
    <3> QED
      BY <3>1, <3>2
  <2> HIDE DEF r
  <2>6. Rng(s) = {s[i] : i \in 1..n} /\ Rng(r) = {r[i] : i \in 1..(n - 1)}
    BY <2>5 DEF Rng
  <2> HIDE DEF n
  <2>7. Once(r)
    BY <2>1, <2>3, <2>4, <2>5 DEF Once
  <2>8. \A j \in 1..(n - 1) : \E i \in 1..n : i # k /\ r[j] = s[i]
    <3> SUFFICES ASSUME NEW j \in 1..(n - 1) PROVE \E i \in 1..n : i # k /\ r[j] = s[i]
      OBVIOUS
    <3>1. CASE j < k
      BY <2>1, <2>3, <2>4, <3>1
    <3>2. CASE ~(j < k)
      <4>1. j + 1 \in 1..n /\ j + 1 # k /\ r[j] = s[j + 1]
        BY <2>1, <2>3, <2>4, <3>2
      <4> QED
        BY <4>1
    <3> QED
      BY <3>1, <3>2
  <2>9. \A i \in 1..n : i # k => \E j \in 1..(n - 1) : r[j] = s[i]
    <3> SUFFICES ASSUME NEW i \in 1..n, i # k PROVE \E j \in 1..(n - 1) : r[j] = s[i]
      OBVIOUS
    <3>1. CASE i < k
      BY <2>1, <2>3, <2>4, <3>1
    <3>2. CASE ~(i < k)
      <4>1. i - 1 \in 1..(n - 1) /\ r[i - 1] = s[i]
        BY <2>1, <2>3, <2>4, <3>2
      <4> QED
        BY <4>1
    <3> QED
      BY <3>1, <3>2
  <2>10. Rng(r) = Rng(s) \ {g}
    <3>1. \A i \in 1..n : s[i] = g <=> i = k
      BY <2>1, <2>3
    <3>2. \A x \in Rng(r) : x \in Rng(s) \ {g}
      BY <2>6, <2>8, <3>1
    <3>3. \A x \in Rng(s) \ {g} : x \in Rng(r)
      BY <2>6, <2>9, <3>1
    <3> QED
      BY <3>2, <3>3
  <2> QED
    BY <1>0, <2>2, <2>7, <2>10
<1> QED
  BY <1>1, <1>2

\* One notification reaches the callers of N (one of those registered, or
\* nobody); g, if it is a caller, is no longer registered.
Notifies(g, N) ==
  /\ N \subseteq Rng(waiters) \ {g}
  /\ Once(waiters') /\ Rng(waiters') = Rng(waiters) \ (N \cup {g})
  /\ \A h \in Callers : h # g => woken'[h] = IF h \in N THEN "one" ELSE woken[h]
  /\ stored' => waiters' = <<>>
  /\ stored' \in BOOLEAN /\ (stored => stored')

LEMMA NotifyOneFacts ==
  ASSUME TypeOK, Queues, NotifyOne, NEW x, x \notin Callers
  PROVE  \E N : Notifies(x, N) /\ (N # {} \/ stored')
<1> USE DEF TypeOK
<1>1. waiters \in Seq(Callers) /\ Once(waiters) /\ woken \in [Callers -> {"no", "one", "all"}]
  BY DEF Queues
<1>2. x \notin Rng(waiters)
  BY <1>1 DEF Rng
<1>3. CASE waiters = <<>>
  <2>1. stored' = TRUE /\ waiters' = waiters /\ woken' = woken
    BY <1>3 DEF NotifyOne
  <2>2. Notifies(x, {})
    BY <1>1, <1>2, <1>3, <2>1 DEF Notifies
  <2> QED
    BY <2>1, <2>2
<1>4. CASE waiters # <<>>
  <2>1. /\ woken' = [woken EXCEPT ![Head(waiters)] = "one"]
        /\ waiters' = Tail(waiters) /\ stored' = stored /\ ~stored
    BY <1>4 DEF NotifyOne, Queues
  <2>2. /\ Head(waiters) \in Callers /\ Head(waiters) \in Rng(waiters) /\ Once(waiters')
        /\ Rng(waiters') = Rng(waiters) \ {Head(waiters)}
    BY <1>1, <1>4, <2>1, TailOnce
  <2>3. Notifies(x, {Head(waiters)})
    BY <1>1, <1>2, <2>1, <2>2 DEF Notifies
  <2> QED
    BY <2>3
<1> QED
  BY <1>3, <1>4

LEMMA DropNotifiedFacts ==
  ASSUME TypeOK, Queues, NEW g \in Callers, DropNotified(g)
  PROVE  /\ woken'[g] = "no"
         /\ \E N : Notifies(g, N) /\ (woken[g] = "one" => N # {} \/ stored')
<1> DEFINE rest == Without(waiters, g)
<1>1. waiters \in Seq(Callers) /\ woken \in [Callers -> {"no", "one", "all"}] /\ stored \in BOOLEAN
  BY DEF TypeOK
<1>2. rest \in Seq(Callers) /\ Once(rest) /\ Rng(rest) = Rng(waiters) \ {g}
  BY <1>1, WithoutOnce DEF Queues
<1>3. stored => rest = <<>>
  <2>1. stored => Rng(waiters) = {}
    BY DEF Queues, Rng
  <2>2. stored => waiters = <<>> /\ rest = waiters
    BY <2>1 DEF Queues, Without
  <2> QED
    BY <2>2
<1>4. CASE woken[g] = "one" /\ rest # <<>>
  <2>1. /\ woken' = [woken EXCEPT ![g] = "no", ![Head(rest)] = "one"]
        /\ waiters' = Tail(rest) /\ stored' = stored
    BY <1>4 DEF DropNotified
  <2> HIDE DEF rest
  <2>2. /\ Head(rest) \in Callers /\ Head(rest) \in Rng(rest) /\ Once(waiters')
        /\ Rng(waiters') = Rng(rest) \ {Head(rest)}
    BY <1>2, <1>4, <2>1, TailOnce
  <2>3. Notifies(g, {Head(rest)}) /\ woken'[g] = "no"
    BY <1>1, <1>2, <1>3, <1>4, <2>1, <2>2 DEF Notifies
  <2> QED
    BY <2>3
<1>5. CASE ~(woken[g] = "one" /\ rest # <<>>)
  <2>1. woken' = [woken EXCEPT ![g] = "no"] /\ waiters' = rest /\ stored' = (stored \/ woken[g] = "one")
    BY <1>5 DEF DropNotified
  <2> HIDE DEF rest
  <2>2. stored' \in BOOLEAN
    BY <2>1, Zenon
  <2>3. (stored => stored') /\ (stored' => stored \/ woken[g] = "one") /\ (woken[g] = "one" => stored')
    BY <2>1
  <2>4. Notifies(g, {}) /\ woken'[g] = "no"
    BY <1>1, <1>2, <1>3, <1>5, <2>1, <2>2, <2>3 DEF Notifies
  <2> QED
    BY <2>3, <2>4
<1> QED
  BY <1>4, <1>5

\* A caller that is not in the select moves on, and something is still about to
\* happen.
LEMMA MoveStep ==
  ASSUME IInv, SInv, NEW g \in Callers,
         UNCHANGED <<semQ, waiters, stored, semClosed, closer, closed, ready>>, ready,
         \A h \in Callers : h # g => pc'[h] = pc[h] /\ woken'[h] = woken[h],
         pc[g] # "wait" /\ pc'[g] # "wait",
         woken'[g] \in {"no", woken[g]},
         woken'[g] # "no" => pc'[g] \in {"pop2", "poll"},
         closer = "done" /\ pc'[g] \in {"pop2", "poll"} => woken'[g] # "no",
         closer = "no" => (\E h \in Callers : Active(h)') \/ avail' # {}
  PROVE  SInv'
<1>1. Queues'
  <2>1. \A h \in Callers : woken'[h] = "one" => pc'[h] = "wait"
    BY DEF SInv, Queues
  <2>2. \A h \in Callers : woken'[h] # "no" => pc'[h] \in {"pop2", "poll", "wait"}
    BY DEF SInv, Queues
  <2> QED
    BY <2>1, <2>2 DEF SInv, Queues, Once
<1>2. CloseStages'
  <2>1. \A h \in Callers : woken'[h] = "all" => closer = "done"
    BY DEF SInv, CloseStages
  <2>2. closer = "done" => \A h \in Callers : pc'[h] \in {"pop2", "poll", "wait"} => woken'[h] # "no"
    BY DEF SInv, CloseStages
  <2> QED
    BY <2>1, <2>2 DEF SInv, CloseStages
<1>3. Noticed'
  BY DEF Noticed
<1> QED
  BY <1>1, <1>2, <1>3 DEF SInv

\* Callers are outside, in the select, or active.
LEMMA WhereActiveNext ==
  ASSUME NEW g \in Callers, pc'[g] \in PC, pc'[g] \notin {"out", "poll", "wait"} PROVE Active(g)'
  BY DEF PC, GetPC, UsePC, DropPC, Active

\* Where every permit is taken, somebody who is active has it.
TakenBySome == Permits # {} /\ avail = {} /\ idle = <<>> => \E h \in Callers : pc[h] \in Holding

LEMMA TakenByActive == IInv => TakenBySome
<1> SUFFICES ASSUME IInv, avail = {}, idle = <<>>, NEW p \in Permits
             PROVE  \E h \in Callers : pc[h] \in Holding
  BY DEF TakenBySome
<1>1. Len(idle) = 0
  OBVIOUS
<1>2. \E h \in Callers : permit[h] = p
  BY <1>1 DEF IInv, NoLeak
<1> QED
  BY <1>2, ConstantsAssumption DEF IInv, Places

LEMMA TakenByActiveNext == IInv' => TakenBySome'
  BY TakenByActive, PTL

\* get, up to the select and behind it, and the checkout.
LEMMA CallerStep ==
  ASSUME Permits # {}, IInv, IInv', SInv, NEW g \in Callers,
         \/ Get(g) \/ CreateNotified(g) \/ TryPop(g) \/ PopWithPermit(g)
         \/ ConnectOk(g) \/ ConnectFailed(g)
         \/ OpenStream(g) \/ CloseStream(g) \/ DropHandle(g) \/ DropCheckout(g) \/ Push(g)
         \/ Discard(g)
  PROVE  SInv'
<1> USE ConstantsAssumption
<1>1. /\ UNCHANGED <<semQ, waiters, stored, semClosed, closer, closed, ready>>
      /\ \A h \in Callers : h # g => pc'[h] = pc[h] /\ woken'[h] = woken[h]
      /\ woken'[g] \in {"no", woken[g]}
  <2>0. pc \in [Callers -> PC] /\ woken \in [Callers -> {"no", "one", "all"}]
    BY DEF IInv, TypeOK
  <2>1. CASE Get(g) \/ CreateNotified(g) \/ TryPop(g) \/ PopWithPermit(g)
    BY <2>0, <2>1 DEF Get, CreateNotified, TryPop, PopWithPermit, Goto, startup, semaphore, notify
  <2>2. CASE ConnectOk(g) \/ ConnectFailed(g)
    BY <2>0, <2>2 DEF ConnectOk, ConnectFailed, Goto, startup, semaphore, notify
  <2>3. CASE OpenStream(g) \/ CloseStream(g) \/ DropHandle(g)
    BY <2>0, <2>3 DEF OpenStream, CloseStream, DropHandle, Goto, startup, semaphore, notify
  <2>4. CASE DropCheckout(g) \/ Push(g) \/ Discard(g)
    BY <2>0, <2>4 DEF DropCheckout, Push, Discard, Goto, startup, semaphore, notify
  <2> QED
    BY <2>1, <2>2, <2>3, <2>4
<1>2. pc[g] # "wait" /\ pc'[g] # "wait"
  BY DEF IInv, TypeOK, Get, CreateNotified, TryPop, PopWithPermit, ConnectOk, ConnectFailed, OpenStream,
         CloseStream, DropHandle, DropCheckout, Push, Discard, Goto, UsePC
<1>3. ready
  <2>1. pc[g] # "out" \/ Get(g)
    BY DEF CreateNotified, TryPop, PopWithPermit, ConnectOk, ConnectFailed, OpenStream,
           CloseStream, DropHandle, DropCheckout, Push, Discard, UsePC
  <2> QED
    BY <2>1 DEF Get, SInv, CloseStages
<1>4. CASE TryPop(g)
  <2>1. PICK t \in 0..Len(idle) :
          /\ PopIdle(t, {})
          /\ IF t # 0
               THEN Goto(g, "using") /\ woken' = [woken EXCEPT ![g] = "no"]
               ELSE Goto(g, IF pc[g] = "pop1" THEN "create" ELSE "poll") /\ woken' = woken
    BY <1>4 DEF TryPop
  <2>2. CASE t # 0
    <3>1. pc'[g] = "using" /\ woken'[g] = "no"
      BY <2>1, <2>2 DEF IInv, TypeOK, Goto
    <3>2. Active(g)'
      BY <3>1 DEF Active, UsePC
    <3> QED
      BY <1>1, <1>2, <1>3, <3>1, <3>2, MoveStep
  <2>3. CASE t = 0 /\ pc[g] = "pop1"
    <3>1. pc'[g] = "create" /\ woken' = woken /\ woken[g] = "no"
      BY <2>1, <2>3 DEF IInv, TypeOK, Goto, SInv, Queues
    <3>2. Active(g)'
      BY <3>1 DEF Active
    <3> QED
      BY <1>1, <1>2, <1>3, <3>1, <3>2, MoveStep
  <2>4. CASE t = 0 /\ pc[g] = "pop2"
    <3>1. pc'[g] = "poll" /\ woken' = woken
      BY <2>1, <2>4 DEF IInv, TypeOK, Goto
    <3>2. idle' = <<>>
      <4>1. idle' \in Seq(Permits) /\ Len(idle') = 0
        BY <2>1, <2>4, PopIdleFacts DEF IInv
      <4> QED
        BY <4>1
    <3>3. avail' # {} \/ \E h \in Callers : Active(h)'
      <4> SUFFICES ASSUME avail' = {} PROVE \E h \in Callers : Active(h)'
        OBVIOUS
      <4>1. PICK h \in Callers : pc'[h] \in Holding
        BY <3>2, TakenByActiveNext DEF TakenBySome
      <4>2. Active(h)'
        BY <4>1 DEF Holding, UsePC, DropPC, Active
      <4> QED
        BY <4>2
    <3>4. closer = "done" => woken'[g] # "no"
      BY <2>4, <3>1 DEF SInv, CloseStages
    <3> QED
      BY <1>1, <1>2, <1>3, <3>1, <3>3, <3>4, MoveStep
  <2> QED
    BY <1>4, <2>2, <2>3, <2>4 DEF TryPop
<1>5. CASE CreateNotified(g)
  <2>1. woken' = woken /\ woken[g] = "no" /\ pc'[g] = IF closed THEN "out" ELSE "pop2"
    BY <1>5 DEF IInv, TypeOK, CreateNotified, Goto, notify, SInv, Queues
  <2>2. closed <=> closer # "no"
    BY DEF SInv, CloseStages
  <2>3. ~closed => Active(g)'
    BY <2>1 DEF Active
  <2> QED
    BY <1>1, <1>2, <1>3, <2>1, <2>2, <2>3, MoveStep
<1>6. CASE ~TryPop(g) /\ ~CreateNotified(g)
  <2>1. woken' = woken /\ pc[g] \notin {"pop2", "poll"} /\ pc'[g] \notin {"pop2", "poll"}
    BY <1>6 DEF IInv, TypeOK, Get, PopWithPermit, ConnectOk, ConnectFailed, OpenStream,
         CloseStream, DropHandle, DropCheckout, Push, Discard, Goto, UsePC, notify
  <2>2. woken'[g] = "no"
    BY <1>2, <2>1 DEF IInv, TypeOK, SInv, Queues
  <2>3. pc'[g] # "out" => Active(g)'
    <3>1. pc'[g] \in PC
      BY DEF IInv, TypeOK
    <3> QED
      BY <1>2, <2>1, <3>1, WhereActiveNext
  <2>4. pc'[g] = "out" => avail' # {} \/ closed
    BY <1>6 DEF IInv, NoOrphanConnection, TypeOK, Get, PopWithPermit, ConnectOk, ConnectFailed, OpenStream,
         CloseStream, DropHandle, DropCheckout, Push, Discard, Goto, UsePC
  <2>5. closer = "no" => ~closed
    BY DEF SInv, CloseStages
  <2> QED
    BY <1>1, <1>2, <1>3, <2>1, <2>2, <2>3, <2>4, <2>5, MoveStep
<1> QED
  BY <1>4, <1>5, <1>6

\* The first poll of the select: nobody's notification is lost, as none is kept.
LEMMA SelectPendStep == ASSUME IInv, IInv', SInv, NEW g \in Callers, SelectPend(g) PROVE SInv'
<1>1. /\ waiters' = Append(waiters, g) /\ semQ' = Append(semQ, g) /\ pc' = [pc EXCEPT ![g] = "wait"]
      /\ UNCHANGED <<ready, closed, semClosed, avail, stored, woken, closer>>
      /\ pc[g] = "poll" /\ woken[g] = "no" /\ ~stored
  BY DEF SelectPend, Goto, startup
<1>2. g \notin Rng(waiters) /\ g \notin Rng(semQ)
  BY <1>1 DEF SInv, Queues
<1>3. ASSUME NEW s \in Seq(Callers), Once(s), g \notin Rng(s)
      PROVE  Once(Append(s, g)) /\ Rng(Append(s, g)) = Rng(s) \cup {g}
  <2> DEFINE n == Len(s)
             r == Append(s, g)
  <2>1. n \in Nat /\ Len(r) = n + 1 /\ r[n + 1] = g /\ \A i \in 1..n : r[i] = s[i]
    OBVIOUS
  <2>2. Rng(s) = {s[i] : i \in 1..n} /\ Rng(r) = {r[i] : i \in 1..(n + 1)}
    BY <2>1 DEF Rng
  <2>3. \A i, j \in 1..n : s[i] = s[j] => i = j
    BY <1>3 DEF Once
  <2> HIDE DEF n, r
  <2>4. \A i \in 1..n : s[i] # g
    BY <1>3, <2>2
  <2>5. \A i \in 1..(n + 1) : i \in 1..n \/ i = n + 1
    BY <2>1
  <2>6. Once(r)
    BY <2>1, <2>3, <2>4, <2>5 DEF Once
  <2>7. \A i \in 1..n : i \in 1..(n + 1)
    BY <2>1
  <2>8. n + 1 \in 1..(n + 1)
    BY <2>1
  <2>9. Rng(r) = Rng(s) \cup {g}
    BY <2>1, <2>2, <2>5, <2>7, <2>8
  <2> QED
    BY <2>6, <2>9 DEF r
<1>4. /\ Once(waiters') /\ Rng(waiters') = Rng(waiters) \cup {g}
      /\ Once(semQ') /\ Rng(semQ') = Rng(semQ) \cup {g}
  BY <1>1, <1>2, <1>3 DEF IInv, TypeOK, SInv, Queues
<1>5. pc'[g] = "wait" /\ \A h \in Callers : h # g => pc'[h] = pc[h]
  BY <1>1 DEF IInv, TypeOK
<1>6. Queues'
  BY <1>1, <1>4, <1>5 DEF SInv, Queues
<1>7. CloseStages'
  BY <1>1, <1>5 DEF SInv, CloseStages
<1>8. Noticed'
  <2>1. \A h \in Callers : Active(h) => Active(h)'
    BY <1>1, <1>5 DEF Active, UsePC, DropPC
  <2>2. Unnoticed(g)
    BY <1>1 DEF Unnoticed
  <2> QED
    BY <1>1, <2>1, <2>2 DEF SInv, Noticed
<1> QED
  BY <1>6, <1>7, <1>8 DEF SInv

LEMMA SelectNotifiedStep == ASSUME IInv, IInv', SInv, NEW g \in Callers, SelectNotified(g) PROVE SInv'
<1>1. /\ waiters' = Without(waiters, g) /\ semQ' = Without(semQ, g) /\ pc' = [pc EXCEPT ![g] = "pop1"]
      /\ woken' = [woken EXCEPT ![g] = "no"] /\ (stored' => stored)
      /\ UNCHANGED <<ready, closed, semClosed, avail, closer>>
      /\ pc[g] \in {"poll", "wait"}
  BY DEF SelectNotified, Goto, startup
<1>2. /\ Once(waiters') /\ Rng(waiters') = Rng(waiters) \ {g}
      /\ Once(semQ') /\ Rng(semQ') = Rng(semQ) \ {g}
  BY <1>1, WithoutOnce DEF IInv, TypeOK, SInv, Queues
<1>3. pc'[g] = "pop1" /\ woken'[g] = "no" /\ \A h \in Callers : h # g => pc'[h] = pc[h] /\ woken'[h] = woken[h]
  BY <1>1 DEF IInv, TypeOK
<1>4. stored' => waiters' = <<>>
  <2>1. stored => waiters = <<>> /\ Rng(waiters) = {}
    BY DEF SInv, Queues, Rng
  <2> QED
    BY <1>1, <2>1 DEF Without
<1>5. Queues'
  BY <1>2, <1>3, <1>4 DEF SInv, Queues
<1>6. CloseStages'
  BY <1>1, <1>3 DEF SInv, CloseStages
<1>7. Noticed'
  BY <1>3 DEF Noticed, Active
<1> QED
  BY <1>5, <1>6, <1>7 DEF SInv

\* g leaves the select, with or without a permit: a notification it got and did
\* not use goes to another waiting caller, or is kept.
LEMMA LeaveStep ==
  ASSUME IInv, IInv', SInv, NEW g \in Callers, pc[g] \in {"poll", "wait"},
         semQ' = Without(semQ, g), DropNotified(g), pc'[g] \in {"out", "permit"},
         \A h \in Callers : h # g => pc'[h] = pc[h],
         avail' = avail \/ pc'[g] = "permit",
         UNCHANGED <<ready, closed, semClosed, closer>>
  PROVE  SInv'
<1>1. Once(semQ') /\ Rng(semQ') = Rng(semQ) \ {g}
  BY WithoutOnce DEF IInv, TypeOK, SInv, Queues
<1>2. woken'[g] = "no"
  BY DropNotifiedFacts DEF IInv, SInv
<1>3. PICK N : Notifies(g, N) /\ (woken[g] = "one" => N # {} \/ stored')
  BY DropNotifiedFacts DEF IInv, SInv
<1>4. \A h \in N : h \in Callers /\ h # g /\ pc[h] = "wait" /\ woken[h] = "no" /\ woken'[h] = "one" /\ pc'[h] = "wait"
  <2>1. Rng(waiters) \subseteq Callers
    BY DEF IInv, TypeOK, Rng
  <2> QED
    BY <1>3, <2>1 DEF Notifies, SInv, Queues
<1>5. \A h \in Callers : h # g /\ h \notin N => woken'[h] = woken[h]
  BY <1>3 DEF Notifies
<1>6. /\ Once(waiters') /\ Rng(waiters') = Rng(waiters) \ (N \cup {g})
      /\ stored' => waiters' = <<>>
      /\ stored => stored'
  BY <1>3 DEF Notifies
<1>7. Queues'
  <2>1. \A h \in Callers : pc'[h] = "wait" <=> h \in Rng(semQ')
    BY <1>1 DEF SInv, Queues
  <2>2. \A h \in Callers : pc'[h] = "wait" /\ woken'[h] = "no" <=> h \in Rng(waiters')
    BY <1>4, <1>5, <1>6 DEF SInv, Queues
  <2>3. \A h \in Callers : woken'[h] # "no" => pc'[h] \in {"pop2", "poll", "wait"}
    BY <1>2, <1>4, <1>5 DEF SInv, Queues
  <2>4. \A h \in Callers : woken'[h] = "one" => pc'[h] = "wait"
    BY <1>2, <1>4, <1>5 DEF SInv, Queues
  <2> QED
    BY <1>1, <1>6, <2>1, <2>2, <2>3, <2>4 DEF Queues
<1>8. CloseStages'
  <2>1. \A h \in Callers : woken'[h] = "all" => closer = "done"
    BY <1>2, <1>4, <1>5 DEF SInv, CloseStages
  <2>2. closer = "done" => \A h \in Callers : pc'[h] \in {"pop2", "poll", "wait"} => woken'[h] # "no"
    BY <1>4, <1>5 DEF SInv, CloseStages
  <2>3. ready
    BY DEF SInv, CloseStages
  <2> QED
    BY <2>1, <2>2, <2>3 DEF SInv, CloseStages
<1>9. Noticed'
  <2> SUFFICES ASSUME closer = "no", NEW u \in Callers, Unnoticed(u)'
               PROVE  (\E h \in Callers : Active(h)') \/ avail' # {} \/ stored'
    BY DEF Noticed
  <2>1. CASE pc'[g] = "permit"
    BY <2>1 DEF Active
  <2>2. CASE N # {} \/ stored'
    BY <1>4, <2>2 DEF Active
  <2>3. CASE pc'[g] = "out" /\ N = {} /\ ~stored'
    <3>1. woken[g] = "no"
      <4>1. woken[g] \in {"no", "one", "all"}
        BY DEF IInv, TypeOK
      <4> QED
        BY <1>3, <2>3, <4>1 DEF SInv, CloseStages
    <3>2. u # g /\ Unnoticed(u) /\ ~stored
      BY <1>5, <1>6, <2>3 DEF Unnoticed
    <3>3. (\E h \in Callers : Active(h)) \/ avail # {}
      BY <3>2 DEF SInv, Noticed
    <3>4. ~Active(g)
      BY <3>1 DEF Active, UsePC, DropPC
    <3>5. \A h \in Callers : Active(h) => Active(h)'
      BY <1>5, <2>3, <3>4 DEF Active
    <3> QED
      BY <2>3, <3>3, <3>5
  <2> QED
    BY <2>1, <2>2, <2>3
<1> QED
  BY <1>7, <1>8, <1>9 DEF SInv

LEMMA PushNotifyStep == ASSUME IInv, IInv', SInv, NEW g \in Callers, PushNotify(g) PROVE SInv'
<1>1. /\ pc[g] = "notify" /\ pc' = [pc EXCEPT ![g] = "out"] /\ NotifyOne
      /\ UNCHANGED <<ready, closed, semClosed, avail, semQ, closer>>
  BY DEF PushNotify, Goto, startup, semaphore
<1>2. PICK x : x \notin Callers
  <2>1. "free" \notin Callers
    BY ConstantsAssumption
  <2> QED
    BY <2>1
<1>3. PICK N : Notifies(x, N) /\ (N # {} \/ stored')
  BY <1>1, <1>2, NotifyOneFacts DEF IInv, SInv
<1>4. pc'[g] = "out" /\ woken[g] = "no" /\ \A h \in Callers : h # g => pc'[h] = pc[h]
  BY <1>1 DEF IInv, TypeOK, SInv, Queues
<1>5. Rng(waiters) \subseteq Callers
  BY DEF IInv, TypeOK, Rng
<1>6. \A h \in N : h \in Callers /\ pc[h] = "wait" /\ woken[h] = "no" /\ woken'[h] = "one" /\ h # g
  BY <1>1, <1>2, <1>3, <1>5 DEF Notifies, SInv, Queues
<1>7. \A h \in Callers : h \notin N => woken'[h] = woken[h]
  BY <1>2, <1>3 DEF Notifies
<1>8. /\ Once(waiters') /\ Rng(waiters') = Rng(waiters) \ N
      /\ stored' => waiters' = <<>>
  BY <1>2, <1>3, <1>5 DEF Notifies
<1>9. Queues'
  <2>1. \A h \in Callers : pc'[h] = "wait" /\ woken'[h] = "no" <=> h \in Rng(waiters')
    BY <1>1, <1>4, <1>6, <1>7, <1>8 DEF SInv, Queues
  <2>2. \A h \in Callers : woken'[h] # "no" => pc'[h] \in {"pop2", "poll", "wait"}
    BY <1>4, <1>6, <1>7 DEF SInv, Queues
  <2>3. \A h \in Callers : woken'[h] = "one" => pc'[h] = "wait"
    BY <1>4, <1>6, <1>7 DEF SInv, Queues
  <2> QED
    BY <1>1, <1>4, <1>8, <2>1, <2>2, <2>3 DEF SInv, Queues
<1>10. CloseStages'
  BY <1>1, <1>4, <1>6, <1>7 DEF SInv, CloseStages
<1>11. Noticed'
  BY <1>3, <1>6 DEF Noticed, Active
<1> QED
  BY <1>9, <1>10, <1>11 DEF SInv

\* A warm-up connection: nobody is in the pool yet.
LEMMA StartOpenStep == ASSUME IInv, IInv', SInv, StartOpen PROVE SInv'
<1>1. ~ready /\ NotifyOne /\ UNCHANGED <<ready, closed, semClosed, semQ, pc, closer>>
  BY DEF StartOpen
<1>2. \A g \in Callers : pc[g] = "out"
  BY <1>1 DEF SInv, CloseStages
<1>3. waiters = <<>>
  <2>1. \A g \in Callers : g \notin Rng(waiters)
    BY <1>2 DEF SInv, Queues
  <2>2. Rng(waiters) = {} /\ waiters \in Seq(Callers)
    BY <2>1 DEF IInv, TypeOK, Rng
  <2>3. Len(waiters) # 0 => waiters[1] \in Rng(waiters)
    BY <2>2 DEF Rng
  <2> QED
    BY <2>2, <2>3
<1>4. waiters' = waiters /\ woken' = woken
  BY <1>1, <1>3 DEF NotifyOne
<1>5. Queues' /\ CloseStages'
  BY <1>1, <1>3, <1>4 DEF SInv, Queues, CloseStages
<1>6. Noticed'
  BY <1>1, <1>2 DEF Noticed, Unnoticed
<1> QED
  BY <1>5, <1>6 DEF SInv

\* close, but for its last statement, the reaper and breaking connections.
LEMMA BackgroundStep ==
  ASSUME IInv, IInv', SInv,
         \/ StartReady \/ CloseFlag \/ CloseSemaphore \/ CloseClear \/ ReaperWakes \/ Reap
         \/ \E p \in Permits : Break(p)
  PROVE  SInv'
<1>1. UNCHANGED <<semQ, stored, waiters, woken, pc>> /\ (avail # {} => avail' # {})
  BY DEF StartReady, CloseFlag, CloseSemaphore, CloseClear, ReaperWakes, Reap, Break, semaphore, notify
<1>2. /\ closer' # closer => closer' \in {"closed", "sem", "clear"} /\ closer \in {"no", "closed", "sem"}
      /\ closer' = "no" => closer = "no"
  BY DEF StartReady, CloseFlag, CloseSemaphore, CloseClear, ReaperWakes, Reap, Break
<1>3. /\ closed' <=> closer' # "no"
      /\ semClosed' => closer' \notin {"no", "closed"}
      /\ ready => ready'
  BY DEF StartReady, CloseFlag, CloseSemaphore, CloseClear, ReaperWakes, Reap, Break, semaphore, startup,
         SInv, CloseStages
<1>4. Queues'
  BY <1>1 DEF SInv, Queues, Once
<1>5. CloseStages'
  BY <1>1, <1>2, <1>3 DEF SInv, CloseStages
<1>6. Noticed'
  BY <1>1, <1>2 DEF SInv, Noticed, Unnoticed, Active
<1> QED
  BY <1>4, <1>5, <1>6 DEF SInv

LEMMA CloseNotifyStep == ASSUME IInv, IInv', SInv, CloseNotify PROVE SInv'
<1>1. /\ closer = "clear" /\ closer' = "done" /\ waiters' = <<>>
      /\ UNCHANGED <<ready, closed, semClosed, semQ, pc, stored>>
      /\ \A g \in Callers : woken'[g] = IF pc[g] \in {"pop2", "poll", "wait"} /\ woken[g] = "no"
                                          THEN "all" ELSE woken[g]
  BY DEF CloseNotify, NotifyWaiters, startup, semaphore
<1>2. Once(waiters') /\ Rng(waiters') = {}
  BY <1>1 DEF Once, Rng
<1>3. Queues'
  BY <1>1, <1>2 DEF SInv, Queues
<1>4. CloseStages'
  BY <1>1 DEF SInv, CloseStages
<1>5. Noticed'
  BY <1>1 DEF Noticed
<1> QED
  BY <1>3, <1>4, <1>5 DEF SInv

LEMMA InitSInv == Init => SInv
<1> SUFFICES ASSUME Init PROVE SInv
  OBVIOUS
<1>1. Rng(semQ) = {} /\ Rng(waiters) = {} /\ Once(semQ) /\ Once(waiters)
  BY DEF Init, Rng, Once
<1> QED
  BY <1>1 DEF Init, SInv, Queues, CloseStages, Noticed, Unnoticed

LEMMA StepSInv == Permits # {} => (IInv /\ IInv' /\ SInv /\ [Next]_vars => SInv')
<1> SUFFICES ASSUME Permits # {}, IInv, IInv', SInv, [Next]_vars PROVE SInv'
  OBVIOUS
<1>1. ASSUME NEW g \in Callers, Run(g) \/ Connect(g) \/ Environment(g) PROVE SInv'
  <2>1. CASE \/ Get(g) \/ CreateNotified(g) \/ TryPop(g) \/ PopWithPermit(g)
             \/ ConnectOk(g) \/ ConnectFailed(g)
             \/ OpenStream(g) \/ CloseStream(g) \/ DropHandle(g) \/ DropCheckout(g) \/ Push(g)
             \/ Discard(g)
    BY <2>1, CallerStep
  <2>2. CASE SelectPend(g) \/ SelectNotified(g) \/ PushNotify(g)
    BY <2>2, SelectPendStep, SelectNotifiedStep, PushNotifyStep
  <2>3. CASE SelectAcquired(g)
    <3>1. /\ pc[g] \in {"poll", "wait"} /\ semQ' = Without(semQ, g) /\ DropNotified(g)
          /\ pc'[g] = "permit" /\ \A h \in Callers : h # g => pc'[h] = pc[h]
          /\ UNCHANGED <<ready, closed, semClosed, closer>>
      BY <2>3 DEF SelectAcquired, Granted, Goto, startup, IInv, TypeOK
    <3> QED
      BY <3>1, LeaveStep
  <2>4. CASE SelectClosed(g) \/ SelectTimedOut(g) \/ CancelWait(g)
    <3>1. /\ pc[g] \in {"poll", "wait"} /\ semQ' = Without(semQ, g) /\ DropNotified(g)
          /\ pc'[g] = "out" /\ \A h \in Callers : h # g => pc'[h] = pc[h]
          /\ UNCHANGED <<ready, closed, semClosed, closer, avail>>
      BY <2>4 DEF SelectClosed, SelectTimedOut, CancelWait, LeaveSelect, Goto, startup, IInv, TypeOK
    <3> QED
      BY <3>1, LeaveStep
  <2>5. CASE GetRefused(g)
    BY <2>5 DEF GetRefused, vars, startup, semaphore, notify, SInv, Queues, Once, CloseStages, Noticed,
                Unnoticed, Active
  <2> QED
    BY <1>1, <2>1, <2>2, <2>3, <2>4, <2>5 DEF Run, Connect, Environment
<1>2. CASE UNCHANGED vars
  BY <1>2 DEF vars, startup, semaphore, notify, SInv, Queues, Once, CloseStages, Noticed, Unnoticed, Active
<1> QED
  BY <1>1, <1>2, StartOpenStep, BackgroundStep, CloseNotifyStep DEF Next, Start, CloseRest

\* Where everyone is at rest and nobody has or opens a connection, the free
\* permit goes to the head of the queue: so there is no queue.
LEMMA NobodyStalls == Permits # {} => (IInv /\ SInv => NoStall)
<1> SUFFICES ASSUME Permits # {}, IInv, SInv, AtRest, \A g \in Callers : pc[g] \in {"out", "wait"},
                    NEW g \in Callers, pc[g] = "wait"
             PROVE  FALSE
  BY DEF NoStall
<1>1. woken[g] = "no" /\ closer \in {"no", "done"}
  BY DEF AtRest
<1>2. closer = "no"
  BY <1>1 DEF SInv, CloseStages
<1>3. \A h \in Callers : ~Active(h)
  BY DEF AtRest, Active, UsePC, DropPC
<1>4. ~stored
  <2>1. g \in Rng(waiters)
    BY <1>1 DEF SInv, Queues
  <2>2. waiters # <<>>
    BY <2>1 DEF Rng
  <2> QED
    BY <2>2 DEF SInv, Queues
<1>5. avail # {}
  BY <1>1, <1>2, <1>3, <1>4 DEF SInv, Noticed, Unnoticed
<1>6. semQ # <<>> /\ Head(semQ) \in Callers /\ Head(semQ) \in Rng(semQ)
  <2>1. g \in Rng(semQ) /\ semQ \in Seq(Callers) /\ Once(semQ)
    BY DEF SInv, Queues, IInv, TypeOK
  <2>2. semQ # <<>>
    BY <2>1 DEF Rng
  <2> QED
    BY <2>1, <2>2, TailOnce
<1>7. pc[Head(semQ)] = "wait" /\ ~semClosed
  BY <1>2, <1>6 DEF SInv, Queues, CloseStages
<1>8. Granted(Head(semQ))
  BY <1>5, <1>6, <1>7 DEF Granted
<1> QED
  BY <1>6, <1>8 DEF AtRest

\* A pool with at least one permit never stalls: no order of notifications,
\* timeouts, cancellations and returned connections leaves a getter waiting
\* when nobody uses or opens a connection (pool.rs, Pool::get and push_idle).
THEOREM PoolNeverStalls == ASSUME Permits # {} PROVE Spec => []NoStall
<1>1. IInv /\ IInv' /\ SInv /\ [Next]_vars => SInv'
  BY StepSInv
<1>2. IInv /\ SInv => NoStall
  BY NobodyStalls
<1> QED
  BY <1>1, <1>2, InitSInv, Invariance, PTL DEF Spec

=============================================================================
