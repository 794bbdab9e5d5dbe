------------------------- MODULE PgConnectionProofs -------------------------
(***************************************************************************)
(* Theorems about PgConnection.                                            *)
(*                                                                         *)
(* Actor and server never share a state: each knows of the other only what *)
(* the messages between them say.  The inductive invariant therefore says, *)
(* for every loop of the actor, what the server has yet to take of what    *)
(* the handler has sent (UpShape), which modes the server may be in        *)
(* (ModeShape), and what each reply that is not yet read tells about up    *)
(* and mode (DownShape).  The fact the whole connection rests on is the    *)
(* first line of InTurn: a ReadyForQuery is sent when everything has been  *)
(* taken, and nothing but asynchronous messages comes after it.            *)
(*                                                                         *)
(* DInv adds what the messages mean for the results: an error of the       *)
(* server is on its way to the handler that will report (Told, Verdict),   *)
(* and of a COPY every chunk is in its channel, on the wire or stored      *)
(* (Counted, Chunks).                                                      *)
(***************************************************************************)
EXTENDS PgConnection, TLAPS

UpTypes == {"parse", "describe", "bind", "execute", "sync", "query", "copydata", "copydone", "copyfail"}
ItemTypes == {"row", "data", "trailer"}
DownTypes == {"complete", "error", "stale", "ready", "copyin", "copyout", "async", "bad", "huge"}

Payload == [of : Requests \cup {None}, is : {"data", "err", "trailer", "done", "fail"}, n : Nat]
UpMsg == [t : UpTypes, of : Requests]
DownMsg ==
  [t : DownTypes, of : Requests \cup {None}] \cup
  [t : ItemTypes \cup {"bad", "huge"}, of : Requests, item : Payload]

Shape ==
  /\ queue \in Seq(Requests)
  /\ chan \in [Requests -> Seq(Payload)]
  /\ seen \in [Requests -> Seq(Payload)]
  /\ result \in [Requests -> [rows : Seq(Payload), end : {"none", "executed", "complete", "failed"}]]
  /\ act \in [at : Places, cur : Requests \cup {None}, err : Errors, sent : BOOLEAN,
              attempt : 0..2, item : Payload \cup {None}]
  /\ up \in Seq(UpMsg) /\ down \in Seq(DownMsg)

-----------------------------------------------------------------------------
(* The actor, its handler, and what is on the wire. *)

Resting == act.at \in {"idle", "settle", "stopped"}

\* The handler that is at work; while it sends a row it is in the loop it returns to.
Loop ==
  IF act.at = "send" THEN IF kind[act.cur] = "copyout" THEN "copyout" ELSE "exec"
  ELSE IF act.at = "abort" /\ kind[act.cur] = "script" THEN "scriptabort"
  ELSE act.at

KindOf ==
  [prepare |-> {"fetch", "execute"}, exec |-> {"fetch", "execute"}, script |-> {"script"},
   abort |-> {"fetch", "execute", "script"}, copyin |-> {"copyin"}, feed |-> {"copyin"},
   drain |-> {"copyin"}, copyout |-> {"copyout"}, send |-> {"fetch", "execute", "copyout"},
   settle |-> AllKinds]

\* Who is served.  A handler at work has not found the connection broken.
Roles ==
  /\ \A r \in Requests : caller[r] # "new" => kind[r] \in AllKinds
  /\ \A i \in DOMAIN queue : caller[queue[i]] # "new"
  /\ act.at \notin {"idle", "stopped"} =>
       act.cur \in Requests /\ caller[act.cur] # "new" /\ kind[act.cur] \in KindOf[act.at]
  /\ act.at = "send" => act.item \in Payload
  /\ ~Resting => ~broken

\* What is sent is of the request being served, and nothing is sent to a lost link.
Tagged ==
  /\ ~linked => up = <<>>
  /\ ~broken => \A i \in DOMAIN up : up[i].of = act.cur

\* s are the last of messages of types ts.
IsTail(s, ts) ==
  /\ Len(s) <= Len(ts)
  /\ \A i \in DOMAIN s : s[i].t = ts[Len(ts) - Len(s) + i]

\* What the server has yet to take of what a handler has sent: a Sync that it
\* will answer is the last of it.
UpShape ==
  ~broken =>
    /\ Resting => up = <<>>
    /\ Loop = "prepare" => IsTail(up, <<"parse", "describe", "sync">>)
    /\ Loop = "exec" => IsTail(up, <<"bind", "execute", "sync">>) /\ (mode = "copy" => Len(up) <= 1)
    /\ Loop = "copyout" => IsTail(up, <<"parse", "bind", "execute", "sync">>)
    /\ Loop = "copyin" => IsTail(up, <<"parse", "bind", "execute">>) /\ (mode = "copy" => up = <<>>)
    /\ Loop = "script" => IsTail(up, <<"query">>)
    /\ Loop = "scriptabort" => IsTail(up, <<"copyfail">>)
    /\ Loop = "abort" => IF mode = "copy" THEN IsTail(up, <<"sync", "copyfail", "sync">>)
                                          ELSE IsTail(up, <<"bind", "execute", "sync">>)
    /\ Loop = "feed" => \A i \in DOMAIN up : up[i].t = "copydata"
    /\ Loop = "drain" => \A i \in DOMAIN up : up[i].t # "query" /\ (up[i].t = "sync" => i = Len(up))

\* The modes the server may be in meanwhile.
ModeShape ==
  ~broken /\ linked =>
    /\ Resting => mode = "ready"
    /\ Loop \in {"prepare", "copyout"} => mode \in {"ready", "skip"}
    /\ Loop \in {"exec", "copyin", "drain", "abort"} => mode # "scriptcopy"
    /\ Loop = "feed" => mode \in {"copy", "skip"}
    /\ Loop \in {"script", "scriptabort"} => mode \in {"ready", "scriptcopy"}

\* What a reply that is not read yet says: the server is through with the
\* request, or in the mode the reply announces.
InTurn(i) ==
  /\ down[i].t = "ready" =>
       up = <<>> /\ mode = "ready" /\ \A j \in DOMAIN down : j > i => down[j].t = "async"
  /\ Loop = "prepare" => down[i].t \notin {"bad", "huge"}
  /\ down[i].t = "copyin" /\ Loop \in {"exec", "copyin"} => mode = "copy"
  /\ down[i].t # "async" /\ Loop = "script" => up = <<>>
  /\ down[i].t = "copyin" /\ Loop = "script" => mode = "scriptcopy"
  /\ down[i].t \in {"error", "stale"} /\ Loop = "copyin" => mode = "skip"

DownShape ==
  ~broken => \A i \in DOMAIN down : IF Resting THEN down[i].t = "async" ELSE InTurn(i)

Wire == Tagged /\ UpShape /\ ModeShape /\ DownShape

IInv == TypeOK /\ Shape /\ Roles /\ Wire

-----------------------------------------------------------------------------
(* Sequences. *)

LEMMA Popped ==
  ASSUME NEW S, NEW s \in Seq(S), s # <<>>
  PROVE  /\ Head(s) = s[1] /\ s[1] \in S /\ 1 \in DOMAIN s
         /\ Len(s) \in Nat \ {0} /\ DOMAIN s = 1..Len(s)
         /\ Tail(s) \in Seq(S) /\ Len(Tail(s)) = Len(s) - 1 /\ DOMAIN Tail(s) = 1..(Len(s) - 1)
         /\ \A i \in DOMAIN Tail(s) : i + 1 \in DOMAIN s /\ Tail(s)[i] = s[i + 1]
  OBVIOUS

LEMMA Joined ==
  ASSUME NEW S, NEW s \in Seq(S), NEW t \in Seq(S)
  PROVE  /\ s \o t \in Seq(S) /\ Len(s \o t) = Len(s) + Len(t) /\ DOMAIN (s \o t) = 1..(Len(s) + Len(t))
         /\ Len(s) \in Nat /\ Len(t) \in Nat /\ DOMAIN s = 1..Len(s) /\ DOMAIN t = 1..Len(t)
         /\ \A i \in DOMAIN s : (s \o t)[i] = s[i]
         /\ \A i \in DOMAIN t : (s \o t)[Len(s) + i] = t[i]
         /\ \A i \in DOMAIN (s \o t) :
              IF i <= Len(s) THEN i \in DOMAIN s /\ (s \o t)[i] = s[i]
                             ELSE i - Len(s) \in DOMAIN t /\ (s \o t)[i] = t[i - Len(s)]
  OBVIOUS

LEMMA Pushed ==
  ASSUME NEW S, NEW s \in Seq(S), NEW e \in S
  PROVE  /\ Append(s, e) \in Seq(S) /\ Len(Append(s, e)) = Len(s) + 1 /\ Len(s) \in Nat
         /\ DOMAIN s = 1..Len(s) /\ DOMAIN Append(s, e) = 1..(Len(s) + 1)
         /\ \A i \in DOMAIN s : Append(s, e)[i] = s[i]
         /\ Append(s, e)[Len(s) + 1] = e
  OBVIOUS

LEMMA Batched ==
  ASSUME NEW ts \in Seq(UpTypes), NEW r \in Requests
  PROVE  /\ Batch(ts, r) \in Seq(UpMsg) /\ Len(Batch(ts, r)) = Len(ts) /\ DOMAIN Batch(ts, r) = 1..Len(ts)
         /\ \A i \in 1..Len(ts) : Batch(ts, r)[i].t = ts[i] /\ Batch(ts, r)[i].of = r
<1>1. DOMAIN ts = 1..Len(ts) /\ Len(ts) \in Nat /\ \A i \in 1..Len(ts) : ts[i] \in UpTypes
  OBVIOUS
<1>2. \A i \in 1..Len(ts) : Msg(ts[i], r) \in UpMsg /\ Msg(ts[i], r).t = ts[i] /\ Msg(ts[i], r).of = r
  BY <1>1 DEF Msg, UpMsg
<1>3. Batch(ts, r) \in [1..Len(ts) -> UpMsg]
  BY <1>1, <1>2 DEF Batch
<1>4. Batch(ts, r) \in Seq(UpMsg) /\ Len(Batch(ts, r)) = Len(ts)
  BY <1>1, <1>3
<1> QED
  BY <1>1, <1>2, <1>3, <1>4 DEF Batch

LEMMA TailShorter ==
  ASSUME NEW s \in Seq(UpMsg), s # <<>>, NEW ts \in Seq(UpTypes), IsTail(s, ts)
  PROVE  IsTail(Tail(s), ts)
<1>1. Len(ts) \in Nat
  OBVIOUS
<1>2. /\ Len(s) \in Nat \ {0} /\ Len(Tail(s)) = Len(s) - 1 /\ DOMAIN s = 1..Len(s) /\ DOMAIN Tail(s) = 1..(Len(s) - 1)
      /\ \A i \in DOMAIN Tail(s) : i + 1 \in DOMAIN s /\ Tail(s)[i] = s[i + 1]
  BY Popped
<1>3. Len(Tail(s)) <= Len(ts)
  BY <1>1, <1>2 DEF IsTail
<1>4. ASSUME NEW i \in DOMAIN Tail(s) PROVE Tail(s)[i].t = ts[Len(ts) - Len(Tail(s)) + i]
  <2>1. i + 1 \in DOMAIN s /\ Tail(s)[i] = s[i + 1] /\ i \in Nat
    BY <1>2
  <2>2. Len(ts) - Len(Tail(s)) + i = Len(ts) - Len(s) + (i + 1)
    BY <1>1, <1>2, <2>1
  <2> QED
    BY <2>1, <2>2 DEF IsTail
<1> QED
  BY <1>3, <1>4 DEF IsTail

-----------------------------------------------------------------------------
(* What the server says. *)

\* b is what may be received of a reply a to m.
Echo(m, a, b) ==
  \/ b = a
  \/ m.t \in Garbled /\ b.t \in {"bad", "huge"}
  \/ a.t = "row" /\ b.t = "row" /\ b.of = a.of /\ b.item = [a.item EXCEPT !.is = "err"]

LEMMA Typeset ==
  ASSUME NEW a \in DownMsg
  PROVE  /\ a.t \in DownTypes \cup ItemTypes /\ a.of \in Requests \cup {None}
         /\ a.t \in ItemTypes => a.item \in Payload
         /\ \A b \in {"bad", "huge"} : [a EXCEPT !.t = b] \in DownMsg /\ [a EXCEPT !.t = b].t = b
         /\ a.t = "row" =>
              /\ [a EXCEPT !.item.is = "err"] \in DownMsg
              /\ [a EXCEPT !.item.is = "err"].t = "row" /\ [a EXCEPT !.item.is = "err"].of = a.of
              /\ [a EXCEPT !.item.is = "err"].item = [a.item EXCEPT !.is = "err"]
<1>1. CASE a \in [t : DownTypes, of : Requests \cup {None}]
  BY <1>1 DEF DownMsg, DownTypes, ItemTypes
<1>2. CASE a \in [t : ItemTypes \cup {"bad", "huge"}, of : Requests, item : Payload]
  <2>1. [a.item EXCEPT !.is = "err"] \in Payload
    BY <1>2 DEF Payload
  <2> QED
    BY <1>2, <2>1 DEF DownMsg, DownTypes, ItemTypes
<1> QED
  BY <1>1, <1>2 DEF DownMsg

LEMMA Said ==
  ASSUME Shape, extra \in 0..MaxExtra, NEW m \in UpMsg, NEW ms \in Seq(DownMsg), Says(m, ms)
  PROVE  /\ extra' \in 0..MaxExtra
         /\ \E xs \in Seq(DownMsg) :
              /\ down' = down \o xs /\ Len(xs) = Len(ms)
              /\ \A i \in DOMAIN ms : Echo(m, ms[i], xs[i])
<1> USE ConnectionAssumption
<1>1. CASE down' = down \o ms /\ UNCHANGED extra
  BY <1>1 DEF Echo
<1>2. CASE /\ m.t \in Garbled /\ extra < MaxExtra
           /\ \E i \in DOMAIN ms :
                \/ \E b \in {"bad", "huge"} : down' = down \o [ms EXCEPT ![i].t = b]
                \/ ms[i].t = "row" /\ down' = down \o [ms EXCEPT ![i].item.is = "err"]
           /\ extra' = extra + 1
  <2>1. extra' \in 0..MaxExtra
    BY <1>2
  <2>2. PICK i \in DOMAIN ms :
                \/ \E b \in {"bad", "huge"} : down' = down \o [ms EXCEPT ![i].t = b]
                \/ ms[i].t = "row" /\ down' = down \o [ms EXCEPT ![i].item.is = "err"]
    BY <1>2
  <2>3. ms[i] \in DownMsg
    OBVIOUS
  <2>4. ASSUME NEW b \in {"bad", "huge"}, down' = down \o [ms EXCEPT ![i].t = b]
        PROVE  \E xs \in Seq(DownMsg) :
                 /\ down' = down \o xs /\ Len(xs) = Len(ms)
                 /\ \A j \in DOMAIN ms : Echo(m, ms[j], xs[j])
    <3> DEFINE xs == [ms EXCEPT ![i].t = b]
               e == [ms[i] EXCEPT !.t = b]
    <3>1. xs = [ms EXCEPT ![i] = e]
      OBVIOUS
    <3>2. e \in DownMsg /\ e.t = b
      BY <2>3, Typeset
    <3> HIDE DEF e
    <3>3. xs \in Seq(DownMsg) /\ Len(xs) = Len(ms) /\ xs[i] = e /\ \A j \in DOMAIN ms : j # i => xs[j] = ms[j]
      BY <3>1, <3>2
    <3>4. \A j \in DOMAIN ms : Echo(m, ms[j], xs[j])
      BY <1>2, <3>2, <3>3 DEF Echo
    <3> QED
      BY <2>4, <3>3, <3>4
  <2>5. ASSUME ms[i].t = "row", down' = down \o [ms EXCEPT ![i].item.is = "err"]
        PROVE  \E xs \in Seq(DownMsg) :
                 /\ down' = down \o xs /\ Len(xs) = Len(ms)
                 /\ \A j \in DOMAIN ms : Echo(m, ms[j], xs[j])
    <3> DEFINE xs == [ms EXCEPT ![i].item.is = "err"]
               e == [ms[i] EXCEPT !.item.is = "err"]
    <3>1. xs = [ms EXCEPT ![i] = e]
      OBVIOUS
    <3>2. e \in DownMsg /\ e.t = "row" /\ e.of = ms[i].of /\ e.item = [ms[i].item EXCEPT !.is = "err"]
      BY <2>3, <2>5, Typeset
    <3> HIDE DEF e
    <3>3. xs \in Seq(DownMsg) /\ Len(xs) = Len(ms) /\ xs[i] = e /\ \A j \in DOMAIN ms : j # i => xs[j] = ms[j]
      BY <3>1, <3>2, SMTT(30)
    <3>4. \A j \in DOMAIN ms : Echo(m, ms[j], xs[j])
      BY <2>5, <3>2, <3>3 DEF Echo
    <3> QED
      BY <2>5, <3>3, <3>4
  <2> QED
    BY <2>1, <2>2, <2>4, <2>5
<1> QED
  BY <1>1, <1>2 DEF Says

-----------------------------------------------------------------------------
(* The handles change nothing on the wire. *)

Typed == TypeOK /\ Shape /\ Roles

LEMMA WireKept ==
  ASSUME Wire, Roles, UNCHANGED <<act, up, down, broken, mode, linked>>,
         act.at \notin {"idle", "stopped"} => kind'[act.cur] = kind[act.cur]
  PROVE  Wire'
<1>1. Loop' = Loop /\ Resting' = Resting
  BY DEF Loop, Resting
<1>2. UpShape' /\ ModeShape' /\ Tagged'
  BY <1>1 DEF Wire, UpShape, ModeShape, Tagged, IsTail
<1>3. \A i \in DOMAIN down : InTurn(i)' <=> InTurn(i)
  BY <1>1 DEF InTurn
<1>4. DownShape'
  BY <1>1, <1>3 DEF Wire, DownShape
<1> QED
  BY <1>2, <1>4 DEF Wire

LEMMA Payloads ==
  ASSUME NEW r \in Requests, NEW n \in Nat, NEW t \in {"err", "trailer", "done", "fail"}
  PROVE  Item(r, n) \in Payload /\ Mark(t) \in Payload
  BY DEF Item, Mark, Payload

LEMMA SubmitTyped ==
  ASSUME Typed, NEW r \in Requests, NEW k \in Kinds, Submit(r, k)
  PROVE  Typed' /\ (act.at \notin {"idle", "stopped"} => kind'[act.cur] = kind[act.cur])
<1> USE ConnectionAssumption
<1>1. Item(r, 1) \in Payload
  BY Payloads
<1>2. /\ queue' \in Seq(Requests) /\ DOMAIN queue' = 1..(Len(queue) + 1) /\ DOMAIN queue = 1..Len(queue)
      /\ \A i \in DOMAIN queue' : queue'[i] \in Requests /\ ((i \in DOMAIN queue /\ queue'[i] = queue[i]) \/ queue'[i] = r)
  <2>1. queue \in Seq(Requests) /\ queue' = Append(queue, r)
    BY DEF Typed, Shape, Submit
  <2> QED
    BY <2>1
<1>c. <<Item(r, 1)>> \in Seq(Payload) /\ Len(<<Item(r, 1)>>) = 1
  BY <1>1
<1>3. /\ chan' = chan \/ chan' = [chan EXCEPT ![r] = <<Item(r, 1)>>]
      /\ seen' = seen \/ seen' = [seen EXCEPT ![r] = <<Item(r, 1)>>]
  BY DEF Submit
<1>4. /\ chan' \in [Requests -> Seq(Payload)] /\ seen' \in [Requests -> Seq(Payload)]
      /\ \A s \in Requests : Len(chan'[s]) <= Cap
  <2> DEFINE one == <<Item(r, 1)>>
  <2>1. one \in Seq(Payload) /\ Len(one) <= Cap
    BY <1>c
  <2>2. /\ chan' = chan \/ chan' = [chan EXCEPT ![r] = one]
        /\ seen' = seen \/ seen' = [seen EXCEPT ![r] = one]
    BY <1>3
  <2>3. /\ chan \in [Requests -> Seq(Payload)] /\ seen \in [Requests -> Seq(Payload)]
        /\ \A s \in Requests : Len(chan[s]) <= Cap
    BY DEF Typed, TypeOK, Shape
  <2> HIDE DEF one
  <2>4. seen' \in [Requests -> Seq(Payload)]
    BY <2>1, <2>2, <2>3
  <2>5. chan' \in [Requests -> Seq(Payload)]
    BY <2>1, <2>2, <2>3
  <2>6. \A s \in Requests : chan'[s] = chan[s] \/ chan'[s] = one
    BY <2>2, <2>3
  <2> QED
    BY <2>1, <2>3, <2>4, <2>5, <2>6
<1>5. kind' \in [Requests -> AllKinds \cup {None}] /\ \A s \in Requests : s # r => kind'[s] = kind[s]
  BY DEF Typed, TypeOK, Submit
<1>6. caller' \in [Requests -> {"new", "open", "write", "finish", "await", "ended", "dropped"}]
      /\ (\A s \in Requests : s # r => caller'[s] = caller[s]) /\ caller'[r] = "open" /\ kind'[r] = k
  BY DEF Typed, TypeOK, Submit, Now
<1>7. act.at \notin {"idle", "stopped"} => act.cur \in Requests /\ act.cur # r
  BY DEF Typed, Roles, Submit
<1>8. TypeOK'
  BY <1>2, <1>4, <1>5, <1>6 DEF Typed, TypeOK, Submit, server, world
<1>9. Shape'
  BY <1>2, <1>4 DEF Typed, Shape, Submit, server
<1>10. Roles'
  BY <1>2, <1>5, <1>6, <1>7 DEF Typed, TypeOK, Roles, Submit, Resting
<1> QED
  BY <1>5, <1>7, <1>8, <1>9, <1>10 DEF Typed

\* CopyInWriter::append, in one step or in two, or dropped between them.
Writes(r) == Write(r) \/ WriteRest(r) \/ DropWrite(r)

LEMMA WritesFacts ==
  ASSUME Typed, NEW r \in Requests, Writes(r)
  PROVE  /\ UNCHANGED <<queue, kind, rx, tx, act, up, down, broken, mode, linked, done, result, cache, extra>>
         /\ kind[r] = "copyin" /\ caller[r] \in {"open", "write"}
         /\ \E c \in {"open", "write"} : caller' = [caller EXCEPT ![r] = c]
         /\ \/ UNCHANGED <<chan, seen>>
            \/ Len(chan[r]) < Cap /\ PutChunk(r)
         /\ lost' \in [Requests -> Nat]
<1>0. /\ caller \in [Requests -> {"new", "open", "write", "finish", "await", "ended", "dropped"}]
      /\ lost \in [Requests -> Nat]
  BY DEF Typed, TypeOK
<1>1. CASE Write(r)
  <2>1. caller' = caller => caller' = [caller EXCEPT ![r] = "open"]
    BY <1>0, <1>1 DEF Write
  <2> QED
    BY <1>0, <1>1, <2>1 DEF Write, Now, server, world
<1>2. CASE WriteRest(r)
  BY <1>0, <1>2 DEF WriteRest, Loses, Now, server, world
<1>3. CASE DropWrite(r)
  BY <1>0, <1>3 DEF DropWrite, Loses, Now, server, world
<1> QED
  BY <1>1, <1>2, <1>3 DEF Writes

\* Whatever else a caller does leaves the queue and the kinds alone.
LEMMA CallerTyped ==
  ASSUME Typed, NEW r \in Requests,
         Receive(r) \/ Answered(r) \/ Writes(r) \/ Finish(r) \/ Drop(r)
  PROVE  Typed' /\ UNCHANGED <<queue, kind, act, up, down, broken, mode, linked, done, result, cache, extra>>
<1> USE ConnectionAssumption
<1>0. UNCHANGED <<queue, kind, act, up, down, broken, mode, linked, done, result, cache, extra>>
  BY WritesFacts DEF Receive, Answered, Finish, Drop, channels, server, world
<1>1. /\ caller' \in [Requests -> {"new", "open", "write", "finish", "await", "ended", "dropped"}]
      /\ \A s \in Requests : caller'[s] = "new" => caller[s] = "new"
      /\ caller[r] # "new" /\ \A s \in Requests : caller[s] = "new" => caller'[s] = "new"
  <2>1. caller \in [Requests -> {"new", "open", "write", "finish", "await", "ended", "dropped"}]
    BY DEF Typed, TypeOK
  <2>2. \/ caller' = caller
        \/ \E c \in {"open", "write", "finish", "await", "ended", "dropped"} : caller' = [caller EXCEPT ![r] = c]
    <3>1. CASE Receive(r)
      BY <3>1 DEF Receive, Now
    <3>2. CASE Answered(r)
      BY <3>2 DEF Answered, Now
    <3>3. CASE Writes(r) \/ Finish(r)
      BY <3>3, WritesFacts DEF Finish, Now
    <3>4. CASE Drop(r)
      BY <3>4 DEF Drop, Now
    <3> QED
      BY <3>1, <3>2, <3>3, <3>4
  <2>3. caller[r] # "new"
    BY WritesFacts DEF Receive, Answered, Finish, Drop
  <2> QED
    BY <2>1, <2>2, <2>3
<1>2. rx' \subseteq Requests /\ tx' \subseteq Requests
  BY WritesFacts DEF Typed, TypeOK, Receive, Answered, Finish, Drop, channels
<1>l. lost' \in [Requests -> Nat]
  BY WritesFacts DEF Typed, TypeOK, Receive, Answered, Finish, Drop
<1>3. /\ chan' \in [Requests -> Seq(Payload)] /\ seen' \in [Requests -> Seq(Payload)]
      /\ \A s \in Requests : Len(chan'[s]) <= Cap
  <2>0. /\ chan \in [Requests -> Seq(Payload)] /\ seen \in [Requests -> Seq(Payload)]
        /\ \A s \in Requests : Len(chan[s]) <= Cap /\ Len(chan[s]) \in Nat /\ Len(seen[s]) \in Nat
    BY DEF Typed, TypeOK, Shape
  <2>m. \A t \in {"err", "trailer", "done", "fail"} : Mark(t) \in Payload
    BY Payloads
  <2>1. CASE Receive(r)
    <3>1. CASE /\ chan[r] # <<>>
               /\ chan' = [chan EXCEPT ![r] = Tail(@)]
               /\ seen' = [seen EXCEPT ![r] = Append(@, Head(chan[r]))]
      <4>1. /\ Head(chan[r]) \in Payload /\ Tail(chan[r]) \in Seq(Payload)
            /\ Len(Tail(chan[r])) <= Cap /\ Append(seen[r], Head(chan[r])) \in Seq(Payload)
        BY <2>0, <3>1
      <4> QED
        BY <2>0, <3>1, <4>1
    <3>2. CASE /\ chan' = chan
               /\ seen' = IF kind[r] = "copyout" THEN [seen EXCEPT ![r] = Append(@, Mark("err"))] ELSE seen
      <4>1. Append(seen[r], Mark("err")) \in Seq(Payload)
        BY <2>0, <2>m
      <4> QED
        BY <2>0, <3>2, <4>1
    <3> QED
      BY <2>1, <3>1, <3>2 DEF Receive
  <2>2. CASE Answered(r)
    BY <2>0, <2>2 DEF Answered, channels
  <2>6. CASE Writes(r) /\ UNCHANGED <<chan, seen>>
    BY <2>0, <2>6
  <2>3. CASE Writes(r) /\ Len(chan[r]) < Cap /\ PutChunk(r)
    <3>1. Item(r, Len(seen[r]) + 1) \in Payload
      BY <2>0, Payloads
    <3>2. /\ Append(chan[r], Item(r, Len(seen[r]) + 1)) \in Seq(Payload)
          /\ Len(Append(chan[r], Item(r, Len(seen[r]) + 1))) <= Cap
          /\ Append(seen[r], Item(r, Len(seen[r]) + 1)) \in Seq(Payload)
      BY <2>0, <2>3, <3>1
    <3> QED
      BY <2>0, <2>3, <3>2 DEF PutChunk
  <2>4. CASE Finish(r)
    <3> DEFINE item == IF caller[r] = "open" THEN Mark("trailer") ELSE Mark("done")
    <3>1. item \in Payload
      BY <2>m
    <3>2. chan' = IF r \in rx THEN [chan EXCEPT ![r] = Append(@, item)] ELSE chan
      BY <2>4 DEF Finish
    <3> HIDE DEF item
    <3>3. Append(chan[r], item) \in Seq(Payload) /\ (r \in rx => Len(Append(chan[r], item)) <= Cap)
      BY <2>0, <2>4, <3>1 DEF Finish
    <3> QED
      BY <2>0, <2>4, <3>2, <3>3 DEF Finish
  <2>5. CASE Drop(r)
    <3>1. /\ Append(chan[r], Mark("fail")) \in Seq(Payload)
          /\ Len(chan[r]) < Cap => Len(Append(chan[r], Mark("fail"))) <= Cap
          /\ <<>> \in Seq(Payload) /\ Len(<<>>) <= Cap
      BY <2>0, <2>m
    <3> QED
      BY <2>0, <2>5, <3>1 DEF Drop
  <2> QED
    BY <2>1, <2>2, <2>3, <2>4, <2>5, <2>6, WritesFacts
<1>4. TypeOK'
  BY <1>0, <1>1, <1>2, <1>3, <1>l DEF Typed, TypeOK
<1>5. Shape'
  BY <1>0, <1>3 DEF Typed, Shape
<1>6. Roles'
  BY <1>0, <1>1 DEF Typed, TypeOK, Roles, Resting
<1> QED
  BY <1>0, <1>4, <1>5, <1>6 DEF Typed

LEMMA HandleSteps ==
  ASSUME IInv, NEW r \in Requests,
         Handle(r) \/ Write(r) \/ DropWrite(r) \/ Drop(r) \/ \E k \in Kinds : Submit(r, k)
  PROVE  IInv'
<1>0. Typed /\ Wire /\ Roles
  BY DEF IInv, Typed
<1>1. ASSUME NEW k \in Kinds, Submit(r, k) PROVE IInv'
  <2>1. UNCHANGED <<act, up, down, broken, mode, linked>>
    BY <1>1 DEF Submit, server, world
  <2> QED
    BY <1>0, <1>1, <2>1, SubmitTyped, WireKept DEF IInv, Typed
<1>2. ASSUME Receive(r) \/ Answered(r) \/ Writes(r) \/ Finish(r) \/ Drop(r) PROVE IInv'
  BY <1>0, <1>2, CallerTyped, WireKept DEF IInv, Typed
<1> QED
  BY <1>1, <1>2 DEF Handle, Writes

-----------------------------------------------------------------------------
(* The end of a batch. *)

LEMMA TailOfOne ==
  ASSUME NEW s \in Seq(UpMsg), NEW a
  PROVE  IsTail(s, <<a>>) <=> s = <<>> \/ (Len(s) = 1 /\ s[1].t = a)
<1>1. Len(<<a>>) = 1 /\ <<a>>[1] = a
  OBVIOUS
<1>2. Len(s) \in Nat /\ DOMAIN s = 1..Len(s) /\ (s = <<>> <=> Len(s) = 0)
  OBVIOUS
<1> QED
  BY <1>1, <1>2 DEF IsTail

LEMMA TailOfThree ==
  ASSUME NEW s \in Seq(UpMsg), NEW a, NEW b, NEW c
  PROVE  IsTail(s, <<a, b, c>>) <=>
           \/ s = <<>>
           \/ Len(s) = 1 /\ s[1].t = c
           \/ Len(s) = 2 /\ s[1].t = b /\ s[2].t = c
           \/ Len(s) = 3 /\ s[1].t = a /\ s[2].t = b /\ s[3].t = c
<1> DEFINE ts == <<a, b, c>>
<1>1. Len(ts) = 3 /\ ts[1] = a /\ ts[2] = b /\ ts[3] = c
  OBVIOUS
<1> HIDE DEF ts
<1>2. Len(s) \in Nat /\ DOMAIN s = 1..Len(s) /\ (s = <<>> <=> Len(s) = 0)
  OBVIOUS
<1>3. IsTail(s, ts) <=> Len(s) <= 3 /\ \A i \in 1..Len(s) : s[i].t = ts[3 - Len(s) + i]
  BY <1>1, <1>2 DEF IsTail
<1>4. CASE Len(s) = 1
  BY <1>1, <1>2, <1>3, <1>4 DEF ts
<1>5. CASE Len(s) = 2
  <2>1. 1..Len(s) = {1, 2}
    BY <1>5
  <2> QED
    BY <1>1, <1>2, <1>3, <1>5, <2>1 DEF ts
<1>6. CASE Len(s) = 3
  <2>1. 1..Len(s) = {1, 2, 3}
    BY <1>6
  <2> QED
    BY <1>1, <1>2, <1>3, <1>6, <2>1 DEF ts
<1>7. CASE Len(s) = 0
  BY <1>1, <1>2, <1>3, <1>7 DEF ts
<1>8. CASE Len(s) > 3
  BY <1>1, <1>2, <1>3, <1>8 DEF ts
<1> QED
  BY <1>2, <1>4, <1>5, <1>6, <1>7, <1>8

LEMMA TailOfFour ==
  ASSUME NEW s \in Seq(UpMsg), NEW a, NEW b, NEW c, NEW d, s # <<>>, IsTail(s, <<a, b, c, d>>)
  PROVE  \/ Len(s) = 1 /\ s[1].t = d
         \/ Len(s) = 2 /\ s[1].t = c /\ s[2].t = d
         \/ Len(s) = 3 /\ s[1].t = b
         \/ Len(s) = 4 /\ s[1].t = a
<1> DEFINE ts == <<a, b, c, d>>
<1>1. Len(ts) = 4 /\ ts[1] = a /\ ts[2] = b /\ ts[3] = c /\ ts[4] = d
  OBVIOUS
<1> HIDE DEF ts
<1>2. Len(s) \in Nat \ {0} /\ DOMAIN s = 1..Len(s)
  OBVIOUS
<1>3. Len(s) <= 4 /\ \A i \in 1..Len(s) : s[i].t = ts[4 - Len(s) + i]
  BY <1>1, <1>2 DEF IsTail, ts
<1>4. s[1].t = ts[5 - Len(s)] /\ (Len(s) = 2 => s[2].t = ts[4])
  BY <1>2, <1>3
<1>5. Len(s) = 1 \/ Len(s) = 2 \/ Len(s) = 3 \/ Len(s) = 4
  <2>1. \A k \in Nat \ {0} : k <= 4 => k = 1 \/ k = 2 \/ k = 3 \/ k = 4
    OBVIOUS
  <2> QED
    BY <1>2, <1>3, <2>1
<1>6. CASE Len(s) = 1
  BY <1>1, <1>4, <1>6
<1>7. CASE Len(s) = 2
  BY <1>1, <1>4, <1>7
<1>8. CASE Len(s) = 3
  BY <1>1, <1>4, <1>8
<1>9. CASE Len(s) = 4
  BY <1>1, <1>4, <1>9
<1> QED
  BY <1>5, <1>6, <1>7, <1>8, <1>9

LEMMA EmptyTail ==
  ASSUME NEW ts \in Seq(UpTypes)
  PROVE  IsTail(<<>>, ts)
  BY DEF IsTail

LEMMA BatchIsTail ==
  ASSUME NEW ts \in Seq(UpTypes), NEW r \in Requests
  PROVE  IsTail(Batch(ts, r), ts)
<1>1. Len(ts) \in Nat
  OBVIOUS
<1> QED
  BY <1>1, Batched DEF IsTail

\* The batches the handlers write.
LEMMA Writings ==
  /\ <<"parse", "describe", "sync">> \in Seq(UpTypes) /\ <<"bind", "execute", "sync">> \in Seq(UpTypes)
  /\ <<"parse", "bind", "execute", "sync">> \in Seq(UpTypes) /\ <<"parse", "bind", "execute">> \in Seq(UpTypes)
  /\ <<"query">> \in Seq(UpTypes) /\ <<"copyfail">> \in Seq(UpTypes) /\ <<"copydata">> \in Seq(UpTypes)
  /\ <<"sync">> \in Seq(UpTypes) /\ <<"sync", "copyfail", "sync">> \in Seq(UpTypes)
  /\ <<"copyfail", "sync">> \in Seq(UpTypes) /\ <<"copydone", "sync">> \in Seq(UpTypes)
  BY DEF UpTypes

LEMMA FlushTyped ==
  ASSUME Shape, Tagged, NEW ts \in Seq(UpTypes), NEW r \in Requests, Flushed(ts, r)
  PROVE  /\ up' \in Seq(UpMsg)
         /\ linked => up' = up \o Batch(ts, r)
         /\ ~linked => up' = <<>> /\ up = <<>>
<1>1. up \in Seq(UpMsg) /\ Batch(ts, r) \in Seq(UpMsg)
  BY Batched DEF Shape
<1>2. up \o Batch(ts, r) \in Seq(UpMsg)
  BY <1>1
<1> QED
  BY <1>1, <1>2 DEF Flushed, Tagged

-----------------------------------------------------------------------------
(* How a step of the actor leaves the wire. *)

\* The handler is through, or has broken the connection.
LEMMA WireAtRest ==
  ASSUME Tagged, UNCHANGED <<mode, linked>>, up' = up \/ up' = <<>>,
         \/ broken' = TRUE
         \/ Resting' /\ up' = <<>> /\ (linked => mode = "ready")
              /\ \A i \in DOMAIN down' : down'[i].t = "async"
  PROVE  Wire'
<1>1. Tagged'
  BY DEF Tagged
<1>2. CASE broken' = TRUE
  BY <1>1, <1>2 DEF Wire, UpShape, ModeShape, DownShape
<1>3. CASE Resting' /\ up' = <<>> /\ (linked => mode = "ready") /\ \A i \in DOMAIN down' : down'[i].t = "async"
  <2>1. Loop' \in {"idle", "settle", "stopped"}
    BY <1>3 DEF Loop, Resting
  <2> QED
    BY <1>1, <1>3, <2>1 DEF Wire, UpShape, ModeShape, DownShape
<1> QED
  BY <1>2, <1>3

Sent == [prepare |-> <<"parse", "describe", "sync">>, exec |-> <<"bind", "execute", "sync">>,
         script |-> <<"query">>, copyin |-> <<"parse", "bind", "execute">>,
         copyout |-> <<"parse", "bind", "execute", "sync">>]

LEMMA SentBy ==
  /\ DOMAIN Sent = {"prepare", "exec", "script", "copyin", "copyout"}
  /\ Sent["prepare"] = <<"parse", "describe", "sync">> /\ Sent["exec"] = <<"bind", "execute", "sync">>
  /\ Sent["script"] = <<"query">> /\ Sent["copyin"] = <<"parse", "bind", "execute">>
  /\ Sent["copyout"] = <<"parse", "bind", "execute", "sync">>
  BY DEF Sent

\* A handler begins, with nothing left of what was before.
LEMMA WireAtStart ==
  ASSUME Shape, Tagged, UNCHANGED <<mode, linked>>, up = <<>>, linked => mode = "ready",
         \A i \in DOMAIN down' : down'[i].t = "async",
         act'.at \in DOMAIN Sent, act'.cur \in Requests, Flushed(Sent[act'.at], act'.cur)
  PROVE  Wire' /\ up' \in Seq(UpMsg)
<1> DEFINE ts == Sent[act'.at]
           r == act'.cur
<1>1. ts \in Seq(UpTypes)
  BY Writings, SentBy
<1>2. Loop' = act'.at /\ ~Resting' /\ act'.at \in {"prepare", "exec", "script", "copyin", "copyout"}
  BY SentBy DEF Loop, Resting
<1>3. /\ up' \in Seq(UpMsg)
      /\ linked => up' = up \o Batch(ts, r)
      /\ ~linked => up' = <<>>
  BY <1>1, FlushTyped
<1>4. <<>> \o Batch(ts, r) = Batch(ts, r)
  BY <1>1, Batched
<1>5. up' = <<>> \/ (linked /\ up' = Batch(ts, r))
  BY <1>3, <1>4
<1>6. IsTail(up', ts) /\ \A i \in DOMAIN up' : up'[i].of = r
  BY <1>1, <1>5, EmptyTail, BatchIsTail, Batched
<1>7. Tagged'
  BY <1>3, <1>6 DEF Tagged
<1>8. linked => mode' = "ready"
  OBVIOUS
<1>9. UpShape'
  <2>1. /\ ~broken' => ~Resting'
        /\ Loop' = "prepare" => IsTail(up', <<"parse", "describe", "sync">>)
        /\ Loop' = "exec" => IsTail(up', <<"bind", "execute", "sync">>)
        /\ Loop' = "copyout" => IsTail(up', <<"parse", "bind", "execute", "sync">>)
        /\ Loop' = "copyin" => IsTail(up', <<"parse", "bind", "execute">>)
        /\ Loop' = "script" => IsTail(up', <<"query">>)
    BY <1>2, <1>6, SentBy
  <2>2. mode' = "copy" => up' = <<>> /\ Len(up') <= 1
    BY <1>3, <1>8
  <2> QED
    BY <1>2, <2>1, <2>2 DEF UpShape
<1>10. ModeShape'
  BY <1>2, <1>8 DEF ModeShape
<1>11. DownShape'
  BY <1>2 DEF DownShape, InTurn
<1> QED
  BY <1>3, <1>7, <1>9, <1>10, <1>11 DEF Wire

\* The handler reads on, or passes on what it has read.
LEMMA WireReadOn ==
  ASSUME Shape, Wire, ~Resting, ~Resting', Loop' = Loop, act'.cur = act.cur,
         UNCHANGED <<up, mode, broken, linked>>, down' = down \/ (down # <<>> /\ down' = Tail(down))
  PROVE  Wire'
<1>1. Tagged' /\ UpShape' /\ ModeShape'
  BY DEF Wire, Tagged, UpShape, ModeShape
<1>2. DownShape'
  <2> SUFFICES ASSUME ~broken, NEW i \in DOMAIN down' PROVE InTurn(i)'
    BY DEF DownShape
  <2>0. \A j \in DOMAIN down : InTurn(j)
    BY DEF Wire, DownShape
  <2>1. CASE down' = down
    BY <2>0, <2>1 DEF InTurn
  <2>2. CASE down # <<>> /\ down' = Tail(down)
    <3>1. /\ i \in Nat /\ i + 1 \in DOMAIN down /\ down'[i] = down[i + 1]
          /\ \A j \in DOMAIN down' : j \in Nat /\ j + 1 \in DOMAIN down /\ down'[j] = down[j + 1]
      BY <2>2, Popped DEF Shape
    <3>2. InTurn(i + 1)
      BY <2>0, <3>1
    <3>3. down[i + 1].t = "ready" => \A j \in DOMAIN down' : j > i => down'[j].t = "async"
      <4> SUFFICES ASSUME down[i + 1].t = "ready", NEW j \in DOMAIN down', j > i PROVE down'[j].t = "async"
        OBVIOUS
      <4>1. j + 1 > i + 1 /\ j + 1 \in DOMAIN down /\ down'[j] = down[j + 1]
        BY <3>1
      <4> QED
        BY <3>2, <4>1 DEF InTurn
    <3> QED
      BY <3>1, <3>2, <3>3 DEF InTurn
  <2> QED
    BY <2>1, <2>2
<1> QED
  BY <1>1, <1>2 DEF Wire

-----------------------------------------------------------------------------
(* The steps of the actor. *)

ActType == [at : Places, cur : Requests \cup {None}, err : Errors, sent : BOOLEAN,
            attempt : 0..2, item : Payload \cup {None}]

\* What a handler's state has to be after a step.
Engaged(a) ==
  /\ a \in ActType
  /\ a.at \notin {"idle", "stopped"} =>
       a.cur \in Requests /\ caller[a.cur] # "new" /\ kind[a.cur] \in KindOf[a.at]
  /\ a.at = "send" => a.item \in Payload

LEMMA ActorTyped ==
  ASSUME Typed, UNCHANGED <<kind, caller, seen, lost, mode, result, linked, extra>>,
         queue' = queue \/ (queue # <<>> /\ queue' = Tail(queue)),
         chan' \in [Requests -> Seq(Payload)], \A r \in Requests : Len(chan'[r]) <= Cap,
         rx' \subseteq Requests, tx' \subseteq Requests,
         done' \in [Requests -> {"none", "ok", "err", "refused"}],
         cache' \in BOOLEAN, broken' \in BOOLEAN,
         up' \in Seq(UpMsg), down' = down \/ (down # <<>> /\ down' = Tail(down)),
         Engaged(act'), ~Resting' => ~broken'
  PROVE  Typed'
<1>1. /\ queue' \in Seq(Requests)
      /\ \A i \in DOMAIN queue' : queue'[i] \in Requests /\ \E j \in DOMAIN queue : queue'[i] = queue[j]
  <2>0. queue \in Seq(Requests)
    BY DEF Typed, Shape
  <2>1. CASE queue' = queue
    BY <2>0, <2>1
  <2>2. CASE queue # <<>> /\ queue' = Tail(queue)
    BY <2>0, <2>2, Popped
  <2> QED
    BY <2>1, <2>2
<1>2. down' \in Seq(DownMsg)
  <2>0. down \in Seq(DownMsg)
    BY DEF Typed, Shape
  <2> QED
    BY <2>0, Popped, ZenonT(40)
<1>3. \A i \in DOMAIN up' : up'[i].t \in MsgTypes
  <2>1. \A i \in DOMAIN up' : up'[i] \in UpMsg
    OBVIOUS
  <2> QED
    BY <2>1 DEF UpMsg, UpTypes, MsgTypes
<1>4. \A i \in DOMAIN down' : down'[i].t \in MsgTypes
  <2>1. \A i \in DOMAIN down' : down'[i] \in DownMsg
    BY <1>2
  <2>2. \A i \in DOMAIN down' : down'[i].t \in DownTypes \cup ItemTypes
    BY <2>1, Typeset
  <2> QED
    BY <2>2 DEF DownTypes, ItemTypes, MsgTypes
<1>5. /\ act'.at \in Places /\ act'.cur \in Requests \cup {None}
      /\ act'.err \in Errors /\ act'.attempt \in 0..2 /\ act'.sent \in BOOLEAN
  BY DEF Engaged, ActType
<1>6. TypeOK'
  BY <1>1, <1>3, <1>4, <1>5 DEF Typed, TypeOK
<1>7. Shape'
  BY <1>1, <1>2 DEF Typed, Shape, Engaged, ActType
<1>8. Roles'
  BY <1>1 DEF Typed, Roles, Engaged
<1> QED
  BY <1>6, <1>7, <1>8 DEF Typed

\* The facts about the actor that its steps start from.
LEMMA ActorFacts ==
  ASSUME IInv
  PROVE  /\ Typed /\ Wire /\ Shape /\ Tagged /\ act \in ActType /\ Engaged(act)
         /\ up \in Seq(UpMsg) /\ down \in Seq(DownMsg) /\ broken \in BOOLEAN /\ cache \in BOOLEAN
         /\ chan \in [Requests -> Seq(Payload)] /\ \A r \in Requests : Len(chan[r]) <= Cap
         /\ rx \subseteq Requests /\ tx \subseteq Requests
         /\ done \in [Requests -> {"none", "ok", "err", "refused"}]
         /\ ~Resting => ~broken
  BY DEF IInv, Typed, Wire, Shape, ActType, TypeOK, Roles, Engaged

LEMMA KindsOf ==
  /\ KindOf["prepare"] = {"fetch", "execute"} /\ KindOf["exec"] = {"fetch", "execute"}
  /\ KindOf["script"] = {"script"} /\ KindOf["abort"] = {"fetch", "execute", "script"}
  /\ KindOf["copyin"] = {"copyin"} /\ KindOf["feed"] = {"copyin"} /\ KindOf["drain"] = {"copyin"}
  /\ KindOf["copyout"] = {"copyout"} /\ KindOf["send"] = {"fetch", "execute", "copyout"}
  /\ KindOf["settle"] = AllKinds
  BY DEF KindOf

\* A step that reads or sends, and leaves queue, channels and results alone.
LEMMA HandlerTyped ==
  ASSUME IInv, UNCHANGED <<queue, channels, done>>, ActorKeeps,
         cache' \in BOOLEAN, broken' \in BOOLEAN,
         up' \in Seq(UpMsg), down' = down \/ (down # <<>> /\ down' = Tail(down)),
         Engaged(act'), ~Resting' => ~broken', Wire'
  PROVE  IInv'
<1>1. Typed'
  BY ActorFacts, ActorTyped DEF ActorKeeps, client, channels, server, world
<1> QED
  BY <1>1 DEF IInv, Typed

LEMMA SkipStep ==
  ASSUME IInv, Skip PROVE IInv'
<1>0. UNCHANGED <<act, up, broken, cache>> /\ ActorKeeps /\ UNCHANGED <<queue, channels, done>>
      /\ down # <<>> /\ down' = Tail(down) /\ ~Resting /\ UNCHANGED <<mode, linked, kind>>
  BY DEF Skip, ActorKeeps, client, server, world, Resting, Reading
<1>1. Loop' = Loop /\ Resting' = Resting /\ Engaged(act')
  BY <1>0, ActorFacts DEF Loop, Resting
<1>2. Wire'
  BY <1>0, <1>1, ActorFacts, WireReadOn
<1> QED
  BY <1>0, <1>1, <1>2, ActorFacts, HandlerTyped

LEMMA ReadServerErrorStep ==
  ASSUME IInv, ReadServerError PROVE IInv'
<1>0. UNCHANGED <<up, broken, cache>> /\ ActorKeeps /\ UNCHANGED <<queue, channels, done>>
      /\ down # <<>> /\ down' = Tail(down) /\ ~Resting /\ UNCHANGED <<mode, linked, kind>>
  BY DEF ReadServerError, Reads, ActorKeeps, client, server, world, Resting, Reading
<1>a. \E e \in Errors : act' = [act EXCEPT !.err = e]
  BY DEF ReadServerError, Errors
<1>1. act'.at = act.at /\ act'.cur = act.cur /\ Engaged(act')
  BY <1>a, ActorFacts DEF ActType, Engaged
<1>2. Loop' = Loop /\ Resting' = Resting
  BY <1>0, <1>1 DEF Loop, Resting
<1>3. Wire'
  BY <1>0, <1>1, <1>2, ActorFacts, WireReadOn
<1> QED
  BY <1>0, <1>1, <1>2, <1>3, ActorFacts, HandlerTyped

LEMMA ReadItemStep ==
  ASSUME IInv, ReadItem PROVE IInv'
<1>0. UNCHANGED <<up, broken, cache>> /\ ActorKeeps /\ UNCHANGED <<queue, channels, done>>
      /\ down # <<>> /\ down' = Tail(down) /\ ~Resting /\ UNCHANGED <<mode, linked, kind>>
      /\ act.at \in {"exec", "copyout"} /\ Head(down).t \in ItemTypes
  BY DEF ReadItem, Reads, ActorKeeps, client, server, world, Resting, ItemTypes
<1>1. Head(down).item \in Payload
  <2>1. Head(down) \in DownMsg
    BY <1>0, Popped, ActorFacts
  <2> QED
    BY <1>0, <2>1, Typeset
<1>2. /\ act' \in ActType /\ act'.cur = act.cur
      /\ \/ act'.at = act.at
         \/ act'.at = "send" /\ act'.item \in Payload
  BY <1>0, <1>1, ActorFacts DEF ReadItem, ActType, Places
<1>3. act.cur \in Requests /\ caller[act.cur] # "new" /\ kind[act.cur] \in KindOf[act.at]
  BY <1>0, ActorFacts DEF Engaged
<1>4. Engaged(act') /\ ~Resting' /\ Loop' = Loop
  BY <1>0, <1>2, <1>3, KindsOf DEF Engaged, Resting, Loop
<1>5. Wire'
  BY <1>0, <1>2, <1>4, ActorFacts, WireReadOn
<1> QED
  BY <1>0, <1>4, <1>5, ActorFacts, HandlerTyped

LEMMA SendStep ==
  ASSUME IInv, Send PROVE IInv'
<1>0. UNCHANGED <<queue, rx, tx, up, down, broken, cache, done, kind, caller, seen, lost, mode, result, linked, extra>>
      /\ act.at = "send" /\ ~Resting
  BY DEF Send, ActorKeeps, client, server, world, Resting
<1>1. act.cur \in Requests /\ caller[act.cur] # "new" /\ kind[act.cur] \in {"fetch", "execute", "copyout"}
      /\ act.item \in Payload
  BY <1>0, ActorFacts, KindsOf DEF Engaged
<1>2. /\ act' \in ActType /\ act'.cur = act.cur
      /\ act'.at = IF kind[act.cur] = "copyout" THEN "copyout" ELSE "exec"
  BY <1>0, <1>1, ActorFacts DEF Send, ActType, Places, Reading
<1>3. Engaged(act') /\ ~Resting' /\ Loop' = Loop
  BY <1>0, <1>1, <1>2, KindsOf DEF Engaged, Resting, Loop
<1>4. chan' \in [Requests -> Seq(Payload)] /\ \A r \in Requests : Len(chan'[r]) <= Cap
  <2>1. /\ act.cur \in rx => Len(chan[act.cur]) < Cap
        /\ chan' = IF act.cur \in rx THEN [chan EXCEPT ![act.cur] = Append(@, act.item)] ELSE chan
    BY DEF Send
  <2>2. Append(chan[act.cur], act.item) \in Seq(Payload)
        /\ Len(Append(chan[act.cur], act.item)) = Len(chan[act.cur]) + 1 /\ Len(chan[act.cur]) \in Nat
    BY <1>1, ActorFacts, Pushed
  <2>3. CASE act.cur \in rx
    BY <1>1, <2>1, <2>2, <2>3, ActorFacts, ConnectionAssumption
  <2>4. CASE act.cur \notin rx
    BY <2>1, <2>4, ActorFacts
  <2> QED
    BY <2>3, <2>4
<1>5. Wire'
  BY <1>0, <1>2, <1>3, ActorFacts, WireReadOn
<1>6. Typed'
  BY <1>0, <1>3, <1>4, ActorFacts, ActorTyped
<1> QED
  BY <1>5, <1>6 DEF IInv, Typed

\* Once ReadyForQuery is read there is nothing left of the request.
LEMMA ReadyIsLast ==
  ASSUME IInv, ~Resting, down # <<>>, Head(down).t = "ready"
  PROVE  up = <<>> /\ mode = "ready" /\ \A i \in DOMAIN Tail(down) : Tail(down)[i].t = "async"
<1>1. /\ Head(down) = down[1] /\ 1 \in DOMAIN down
      /\ \A i \in DOMAIN Tail(down) : i \in Nat /\ i > 0 /\ i + 1 \in DOMAIN down /\ Tail(down)[i] = down[i + 1]
  BY ActorFacts, Popped
<1>2. InTurn(1)
  BY <1>1, ActorFacts DEF Wire, DownShape
<1>3. \A j \in DOMAIN down : j > 1 => down[j].t = "async"
  BY <1>1, <1>2 DEF InTurn
<1>4. \A i \in DOMAIN Tail(down) : Tail(down)[i].t = "async"
  BY <1>1, <1>3
<1> QED
  BY <1>1, <1>2, <1>4 DEF InTurn

LEMMA AtRest ==
  ASSUME IInv, Resting, ~broken
  PROVE  up = <<>> /\ (linked => mode = "ready") /\ \A i \in DOMAIN down : down[i].t = "async"
  BY ActorFacts DEF Wire, UpShape, ModeShape, DownShape

LEMMA FailTyped ==
  ASSUME IInv, act.at \notin {"idle", "stopped"}, NEW e \in Errors,
         act' = [act EXCEPT !.at = "settle", !.err = e]
  PROVE  Engaged(act') /\ Resting' /\ act'.cur = act.cur
<1>1. act' \in ActType /\ act'.at = "settle" /\ act'.cur = act.cur
  BY ActorFacts DEF ActType, Places
<1>2. act.cur \in Requests /\ caller[act.cur] # "new" /\ kind[act.cur] \in AllKinds
  BY ActorFacts DEF Engaged, IInv, Roles
<1> QED
  BY <1>1, <1>2, KindsOf DEF Engaged, Resting

LEMMA ReadErrorStep ==
  ASSUME IInv, ReadError PROVE IInv'
<1>0. /\ UNCHANGED <<up, cache>> /\ ActorKeeps /\ UNCHANGED <<queue, channels, done>>
      /\ UNCHANGED <<mode, linked>> /\ act.at \in Reading /\ ~Resting
      /\ down' = down \/ (down # <<>> /\ down' = Tail(down))
      /\ broken' = (broken \/ act.at # "prepare")
      /\ act' = [act EXCEPT !.at = "settle", !.err = "err"]
  BY DEF ReadError, FailWith, ActorKeeps, server, world, Resting, Reading
<1>1. Engaged(act') /\ Resting'
  BY <1>0, FailTyped DEF Reading, Errors
<1>2. CASE act.at # "prepare"
  BY <1>0, <1>1, <1>2, ActorFacts, WireAtRest, HandlerTyped
<1>3. CASE act.at = "prepare"
  <2>1. Loop = "prepare" /\ ~broken
    BY <1>0, <1>3, ActorFacts DEF Loop
  <2>2. down # <<>> => Head(down).t \notin {"bad", "huge"}
    BY <1>0, <2>1, Popped, ActorFacts DEF Wire, DownShape, InTurn
  <2>3. down = <<>> /\ ~linked /\ down' = down
    BY <2>2 DEF ReadError
  <2>4. up = <<>> /\ broken' \in BOOLEAN
    BY <1>0, <2>3, ActorFacts DEF Tagged
  <2>e. \A i \in DOMAIN down' : down'[i].t = "async"
    BY <2>3
  <2>5. Wire'
    BY <1>0, <1>1, <2>3, <2>4, <2>e, ActorFacts, WireAtRest
  <2> QED
    BY <1>0, <1>1, <2>4, <2>5, ActorFacts, HandlerTyped
<1> QED
  BY <1>2, <1>3

LEMMA IdleReadStep ==
  ASSUME IInv, IdleRead PROVE IInv'
<1>0. /\ UNCHANGED <<act, up, cache>> /\ ActorKeeps /\ UNCHANGED <<queue, channels, done>>
      /\ UNCHANGED <<mode, linked, kind, caller>> /\ act.at = "idle" /\ ~broken /\ Resting /\ Resting'
      /\ down' = down \/ (down # <<>> /\ down' = Tail(down))
      /\ broken' \in BOOLEAN
      /\ ~broken' => down # <<>> /\ Head(down).t = "async" /\ down' = Tail(down)
  BY DEF IdleRead, MarkBroken, ActorKeeps, client, server, world, Resting
<1>1. Engaged(act')
  BY <1>0, ActorFacts DEF Engaged
<1>2. up = <<>> /\ (linked => mode = "ready") /\ \A i \in DOMAIN down : down[i].t = "async"
  BY <1>0, AtRest
<1>3. ~broken' => \A i \in DOMAIN down' : down'[i].t = "async"
  BY <1>0, <1>2, ActorFacts, Popped
<1>4. Wire'
  BY <1>0, <1>2, <1>3, ActorFacts, WireAtRest
<1> QED
  BY <1>0, <1>1, <1>4, ActorFacts, HandlerTyped

LEMMA CopyFlushFailsStep ==
  ASSUME IInv, CopyFlushFails PROVE IInv'
<1>0. /\ UNCHANGED <<up, cache>> /\ ActorKeeps /\ UNCHANGED <<queue, channels, done>>
      /\ UNCHANGED <<mode, linked>> /\ act.at \notin {"idle", "stopped"}
      /\ down' = down \/ (down # <<>> /\ down' = Tail(down))
      /\ broken' = TRUE
      /\ act' = [act EXCEPT !.at = "settle", !.err = "err"]
  BY DEF CopyFlushFails, FlushFails, Reads, FailWith, ActorKeeps, server, world
<1>1. Engaged(act') /\ Resting'
  BY <1>0, FailTyped DEF Errors
<1> QED
  BY <1>0, <1>1, ActorFacts, WireAtRest, HandlerTyped

LEMMA TerminateStep ==
  ASSUME IInv, Terminate PROVE IInv'
<1>0. /\ UNCHANGED <<up, down, broken, cache>> /\ ActorKeeps /\ UNCHANGED <<queue, channels, done>>
      /\ UNCHANGED <<mode, linked, kind>> /\ act.at = "idle" /\ Resting
      /\ act' = [act EXCEPT !.at = "stopped"]
  BY DEF Terminate, ActorKeeps, client, server, world, Resting
<1>1. Engaged(act') /\ Resting'
  BY <1>0, ActorFacts DEF Engaged, ActType, Places, Resting
<1>2. Wire'
  BY <1>0, <1>1, AtRest, ActorFacts, WireAtRest
<1> QED
  BY <1>0, <1>1, <1>2, ActorFacts, HandlerTyped

LEMMA ReleaseTyped ==
  ASSUME IInv, NEW r \in Requests, Release(r)
  PROVE  /\ chan' \in [Requests -> Seq(Payload)] /\ \A s \in Requests : Len(chan'[s]) <= Cap
         /\ rx' \subseteq Requests /\ tx' \subseteq Requests
<1>1. <<>> \in Seq(Payload) /\ Len(<<>>) <= Cap
  BY ConnectionAssumption
<1>2. chan' = chan \/ chan' = [chan EXCEPT ![r] = <<>>]
  BY DEF Release
<1>3. rx' \subseteq Requests /\ tx' \subseteq Requests
  BY ActorFacts DEF Release
<1>4. CASE chan' = chan
  BY <1>3, <1>4, ActorFacts
<1>5. CASE chan' = [chan EXCEPT ![r] = <<>>]
  BY <1>1, <1>3, <1>5, ActorFacts
<1> QED
  BY <1>2, <1>4, <1>5

LEMMA IdleTyped ==
  Idle \in ActType /\ Idle.at = "idle"
  BY DEF Idle, ActType, Places, Errors

LEMMA SettleStep ==
  ASSUME IInv, Settle PROVE IInv'
<1>0. /\ UNCHANGED <<queue, cache, broken, up, down, kind, caller, seen, lost, mode, result, linked, extra>>
      /\ act.at = "settle" /\ Resting /\ act' = Idle
  BY DEF Settle, ActorKeeps, client, server, world, Resting
<1>1. act.cur \in Requests
  BY <1>0, ActorFacts DEF Engaged
<1>2. /\ chan' \in [Requests -> Seq(Payload)] /\ \A s \in Requests : Len(chan'[s]) <= Cap
      /\ rx' \subseteq Requests /\ tx' \subseteq Requests
  <2>1. CASE Release(act.cur)
    BY <1>1, <2>1, ReleaseTyped
  <2>2. CASE /\ Len(chan[act.cur]) < Cap
             /\ chan' = [chan EXCEPT ![act.cur] = Append(@, Mark("err"))]
             /\ tx' = tx \ {act.cur} /\ UNCHANGED rx
    <3>1. Mark("err") \in Payload
      BY <1>1, Payloads
    <3>2. Append(chan[act.cur], Mark("err")) \in Seq(Payload) /\ Len(Append(chan[act.cur], Mark("err"))) <= Cap
      BY <1>1, <2>2, <3>1, ActorFacts, Pushed, ConnectionAssumption
    <3> QED
      BY <1>1, <2>2, <3>2, ActorFacts
  <2> QED
    BY <2>1, <2>2 DEF Settle
<1>3. done' \in [Requests -> {"none", "ok", "err", "refused"}]
  BY <1>1, ActorFacts DEF Settle
<1>4. Engaged(act') /\ Resting'
  BY <1>0, IdleTyped DEF Engaged, Resting
<1>5. Typed'
  BY <1>0, <1>2, <1>3, <1>4, ActorFacts, ActorTyped
<1>6. Wire'
  BY <1>0, <1>4, AtRest, ActorFacts, WireAtRest
<1> QED
  BY <1>5, <1>6 DEF IInv, Typed

LEMMA TakeRequestStep ==
  ASSUME IInv, TakeRequest PROVE IInv'
<1> DEFINE r == Head(queue)
<1>0. /\ UNCHANGED <<cache, down, kind, caller, seen, lost, mode, result, linked, extra>>
      /\ queue # <<>> /\ queue' = Tail(queue) /\ act.at = "idle" /\ Resting
  BY DEF TakeRequest, ActorKeeps, client, server, world, Resting
<1>1. r \in Requests /\ caller[r] # "new" /\ kind[r] \in AllKinds
  BY <1>0, Popped, SMTT(30) DEF IInv, Shape, Roles
<1> HIDE DEF r
<1>f. ASSUME NEW e \in {"err", "refused"}, FailRequest(r, e), up' = up, broken' = TRUE \/ broken' = broken
      PROVE  IInv'
  <2>1. UNCHANGED act /\ done' \in [Requests -> {"none", "ok", "err", "refused"}] /\ Release(r)
    BY <1>1, <1>f, ActorFacts DEF FailRequest
  <2>2. Engaged(act') /\ Resting'
    BY <1>0, <2>1, ActorFacts DEF Engaged, Resting
  <2>3. Typed'
    BY <1>0, <1>1, <1>f, <2>1, <2>2, ReleaseTyped, ActorFacts, ActorTyped
  <2>4. Wire'
    BY <1>0, <1>f, <2>2, AtRest, ActorFacts, WireAtRest
  <2> QED
    BY <2>3, <2>4 DEF IInv, Typed
<1>c. ~broken => up = <<>> /\ (linked => mode = "ready") /\ \A i \in DOMAIN down' : down'[i].t = "async"
  BY <1>0, AtRest
<1>s. ASSUME ~broken, UNCHANGED <<channels, done, broken>>, NEW p \in DOMAIN Sent, kind[r] \in KindOf[p],
             act' \in ActType, act'.at = p, act'.cur = r, Flushed(Sent[p], r)
      PROVE  IInv'
  <2>1. Engaged(act') /\ act'.at = p /\ act'.cur = r
    BY <1>1, <1>s, SentBy DEF Engaged
  <2>2. Wire' /\ up' \in Seq(UpMsg)
    BY <1>0, <1>1, <1>c, <1>s, <2>1, ActorFacts, WireAtStart
  <2>3. Typed'
    BY <1>0, <1>s, <2>1, <2>2, ActorFacts, ActorTyped DEF channels
  <2> QED
    BY <2>2, <2>3 DEF IInv, Typed
<1>e. ASSUME ~broken, UNCHANGED <<channels, done, up>>, broken' \in BOOLEAN,
             act' = [Idle EXCEPT !.at = "settle", !.cur = r, !.err = "err"]
      PROVE  IInv'
  <2>1. act' \in ActType /\ act'.at = "settle" /\ act'.cur = r
    BY <1>1, <1>e, IdleTyped DEF ActType, Places, Errors, Idle
  <2>2. Engaged(act') /\ Resting'
    BY <1>1, <2>1, KindsOf DEF Engaged, Resting
  <2>3. Wire'
    BY <1>0, <1>c, <1>e, <2>2, ActorFacts, WireAtRest
  <2>4. Typed'
    BY <1>0, <1>e, <2>2, ActorFacts, ActorTyped DEF channels
  <2> QED
    BY <2>3, <2>4 DEF IInv, Typed
<1>2. CASE broken
  BY <1>2, <1>f DEF TakeRequest, r
<1>3. CASE ~broken /\ kind[r] \in DOMAIN Opening /\ Open(r, kind[r])
  <2>1. kind[r] \in DOMAIN Sent /\ Sent[kind[r]] = Opening[kind[r]] /\ kind[r] \in KindOf[kind[r]]
    BY <1>3, KindsOf, SentBy DEF Opening
  <2>2. CASE /\ Flushed(Opening[kind[r]], r)
             /\ act' = [Idle EXCEPT !.at = kind[r], !.cur = r]
             /\ UNCHANGED <<channels, done, broken>>
    <3>1. act' \in ActType /\ act'.at = kind[r] /\ act'.cur = r
      BY <1>1, <2>1, <2>2, SentBy, IdleTyped DEF ActType, Places, Reading
    <3> QED
      BY <1>3, <2>1, <2>2, <3>1, <1>s
  <2>3. CASE FlushFails(FALSE) /\ FailRequest(r, "err")
    BY <2>3, <1>f DEF FlushFails
  <2>4. CASE NotEncoded /\ MarkBroken /\ FailRequest(r, "err")
    BY <2>4, <1>f DEF NotEncoded, MarkBroken
  <2> QED
    BY <1>3, <2>2, <2>3, <2>4 DEF Open
<1>4. CASE ~broken /\ kind[r] \notin DOMAIN Opening /\ Attempt(r, 1) /\ UNCHANGED <<channels, done>>
  <2>1. kind[r] \in KindOf["prepare"] /\ kind[r] \in KindOf["exec"]
    BY <1>1, <1>4, KindsOf DEF Opening, AllKinds, Streams
  <2>2. CASE /\ Flushed(<<"bind", "execute", "sync">>, r)
             /\ act' = [Idle EXCEPT !.at = "exec", !.cur = r, !.attempt = 1]
             /\ UNCHANGED broken
    <3>1. act' \in ActType /\ act'.at = "exec" /\ act'.cur = r
      <4> DEFINE n == 1
      <4>1. n \in 0..2 /\ act' \in {[Idle EXCEPT !.at = "prepare", !.cur = r, !.attempt = n],
                                  [Idle EXCEPT !.at = "exec", !.cur = r, !.attempt = n]}
        BY <2>2
      <4> HIDE DEF n
      <4>2. act' \in ActType
        BY <1>1, <4>1, IdleTyped DEF ActType, Places, Reading
      <4> QED
        BY <2>2, <4>2, IdleTyped DEF ActType
    <3> QED
      BY <1>4, <2>1, <2>2, <3>1, <1>s, SentBy
  <2>3. CASE /\ Flushed(<<"parse", "describe", "sync">>, r)
             /\ act' = [Idle EXCEPT !.at = "prepare", !.cur = r, !.attempt = 1]
             /\ UNCHANGED broken
    <3>1. act' \in ActType /\ act'.at = "prepare" /\ act'.cur = r
      <4> DEFINE n == 1
      <4>1. n \in 0..2 /\ act' \in {[Idle EXCEPT !.at = "prepare", !.cur = r, !.attempt = n],
                                  [Idle EXCEPT !.at = "exec", !.cur = r, !.attempt = n]}
        BY <2>3
      <4> HIDE DEF n
      <4>2. act' \in ActType
        BY <1>1, <4>1, IdleTyped DEF ActType, Places, Reading
      <4> QED
        BY <2>3, <4>2, IdleTyped DEF ActType
    <3> QED
      BY <1>4, <2>1, <2>3, <3>1, <1>s, SentBy
  <2>4. CASE /\ FlushFails(FALSE) \/ FlushFails(TRUE) \/ (NotEncoded /\ UNCHANGED broken)
             /\ act' = [Idle EXCEPT !.at = "settle", !.cur = r, !.err = "err"]
    <3>1. UNCHANGED up /\ broken' \in BOOLEAN
      BY <2>4, ActorFacts DEF FlushFails, NotEncoded
    <3> QED
      BY <1>4, <2>4, <3>1, <1>e
  <2> QED
    BY <1>4, <2>2, <2>3, <2>4 DEF Attempt
<1> QED
  BY <1>2, <1>3, <1>4 DEF TakeRequest, r

LEMMA ReadReadyStep ==
  ASSUME IInv, ReadReady PROVE IInv'
<1>0. /\ ActorKeeps /\ UNCHANGED <<queue, channels, done>> /\ UNCHANGED <<mode, linked, kind, caller>>
      /\ act.at \in Reading \ {"copyin"} /\ ~Resting /\ act.at \notin {"idle", "stopped"}
      /\ down # <<>> /\ down' = Tail(down) /\ Head(down).t = "ready"
  BY DEF ReadReady, Reads, ActorKeeps, client, server, world, Resting, Reading
<1>1. up = <<>> /\ mode = "ready" /\ \A i \in DOMAIN down' : down'[i].t = "async"
  BY <1>0, ReadyIsLast
<1>2. act.cur \in Requests /\ caller[act.cur] # "new" /\ kind[act.cur] \in KindOf[act.at] /\ ~broken
  BY <1>0, ActorFacts DEF Engaged
<1>s. ASSUME act.at \in {"prepare", "exec"}, broken' = broken, cache' \in BOOLEAN,
             NEW p \in {"prepare", "exec"}, act' \in ActType, act'.at = p, act'.cur = act.cur,
             Flushed(Sent[p], act.cur)
      PROVE  IInv'
  <2>1. Engaged(act')
    BY <1>2, <1>s, KindsOf DEF Engaged
  <2>2. Wire' /\ up' \in Seq(UpMsg)
    BY <1>0, <1>1, <1>2, <1>s, SentBy, ActorFacts, WireAtStart
  <2> QED
    BY <1>0, <1>2, <1>s, <2>1, <2>2, ActorFacts, HandlerTyped
<1>e. ASSUME up' = up, broken' \in BOOLEAN, cache' \in BOOLEAN, NEW e \in Errors,
             act' = [act EXCEPT !.at = "settle", !.err = e]
      PROVE  IInv'
  <2>1. Engaged(act') /\ Resting'
    BY <1>0, <1>e, FailTyped
  <2>2. Wire'
    BY <1>0, <1>1, <1>e, <2>1, ActorFacts, WireAtRest
  <2> QED
    BY <1>0, <1>e, <2>1, <2>2, ActorFacts, HandlerTyped
<1>3. CASE /\ act.at = "prepare" /\ act.err = "none"
           /\ cache' = TRUE
           /\ \/ /\ Flushed(<<"bind", "execute", "sync">>, act.cur)
                 /\ At("exec") /\ UNCHANGED broken
              \/ /\ FlushFails(FALSE) \/ (NotEncoded /\ UNCHANGED broken)
                 /\ FailWith("err")
  <2>1. CASE /\ Flushed(<<"bind", "execute", "sync">>, act.cur)
             /\ At("exec") /\ UNCHANGED broken
    <3>1. act' \in ActType /\ act'.at = "exec" /\ act'.cur = act.cur
      BY <2>1, ActorFacts DEF At, ActType, Places, Reading
    <3> QED
      BY <1>3, <2>1, <3>1, <1>s, SentBy
  <2>2. CASE /\ FlushFails(FALSE) \/ (NotEncoded /\ UNCHANGED broken)
             /\ FailWith("err")
    <3>1. up' = up /\ broken' \in BOOLEAN
      BY <2>2, ActorFacts DEF FlushFails, NotEncoded
    <3> QED
      BY <1>3, <2>2, <3>1, <1>e DEF FailWith, Errors
  <2> QED
    BY <1>3, <2>1, <2>2
<1>4. CASE /\ act.at \in {"prepare", "exec"} /\ ShouldRetry
           /\ cache' = FALSE
           /\ \/ /\ Flushed(<<"parse", "describe", "sync">>, act.cur)
                 /\ act' = [Idle EXCEPT !.at = "prepare", !.cur = act.cur, !.attempt = 2]
                 /\ UNCHANGED broken
              \/ FlushFails(TRUE) /\ FailWith("err")
  <2>1. CASE /\ Flushed(<<"parse", "describe", "sync">>, act.cur)
             /\ act' = [Idle EXCEPT !.at = "prepare", !.cur = act.cur, !.attempt = 2]
             /\ UNCHANGED broken
    <3>1. act' \in ActType /\ act'.at = "prepare" /\ act'.cur = act.cur
      <4> DEFINE n == 2
      <4>1. n \in 0..2 /\ act' \in {[Idle EXCEPT !.at = "prepare", !.cur = act.cur, !.attempt = n],
                                  [Idle EXCEPT !.at = "exec", !.cur = act.cur, !.attempt = n]}
        BY <2>1
      <4> HIDE DEF n
      <4>2. act' \in ActType
        BY <1>2, <4>1, IdleTyped DEF ActType, Places, Reading
      <4> QED
        BY <2>1, <4>2, IdleTyped DEF ActType
    <3> QED
      BY <1>4, <2>1, <3>1, <1>s, SentBy
  <2>2. CASE FlushFails(TRUE) /\ FailWith("err")
    <3>1. up' = up /\ broken' \in BOOLEAN
      BY <2>2, ActorFacts DEF FlushFails
    <3> QED
      BY <1>4, <2>2, <3>1, <1>e DEF FailWith, Errors
  <2> QED
    BY <1>4, <2>1, <2>2
<1>5. CASE At("settle") /\ UNCHANGED <<cache, broken, up>>
  <2>1. act' = [act EXCEPT !.at = "settle", !.err = act.err] /\ act.err \in Errors
    BY <1>5, ActorFacts DEF At, ActType
  <2> QED
    BY <1>5, <2>1, <1>e, ActorFacts
<1> QED
  BY <1>3, <1>4, <1>5 DEF ReadReady

\* The unexpected COPY: CopyFail follows what is left of the first batch.
LEMMA FailBehindSync ==
  ASSUME NEW s \in Seq(UpMsg), IsTail(s, <<"bind", "execute", "sync">>), Len(s) <= 1, NEW r \in Requests
  PROVE  IsTail(s \o Batch(<<"copyfail", "sync">>, r), <<"sync", "copyfail", "sync">>)
<1> DEFINE b == Batch(<<"copyfail", "sync">>, r)
           z == s \o b
<1>1. b \in Seq(UpMsg) /\ Len(b) = 2 /\ DOMAIN b = 1..2 /\ b[1].t = "copyfail" /\ b[2].t = "sync"
  <2> DEFINE ts == <<"copyfail", "sync">>
  <2>1. ts \in Seq(UpTypes) /\ Len(ts) = 2 /\ ts[1] = "copyfail" /\ ts[2] = "sync"
    BY Writings
  <2>2. b = Batch(ts, r)
    OBVIOUS
  <2> HIDE DEF b, ts
  <2> QED
    BY <2>1, <2>2, Batched
<1> HIDE DEF b
<1>2. s = <<>> \/ (Len(s) = 1 /\ s[1].t = "sync")
  BY TailOfThree
<1>3. CASE s = <<>>
  <2>1. z = b
    BY <1>1, <1>3
  <2>2. IsTail(b, <<"sync", "copyfail", "sync">>)
    BY <1>1, TailOfThree
  <2> QED
    BY <2>1, <2>2 DEF b
<1>4. CASE Len(s) = 1 /\ s[1].t = "sync"
  <2>1. z \in Seq(UpMsg) /\ Len(z) = 3 /\ z[1] = s[1] /\ z[1 + 1] = b[1] /\ z[1 + 2] = b[2]
    BY <1>1, <1>4, Joined, SMTT(30)
  <2> HIDE DEF z
  <2>2. IsTail(z, <<"sync", "copyfail", "sync">>)
    BY <1>1, <1>4, <2>1, TailOfThree
  <2> QED
    BY <2>2 DEF z, b
<1> QED
  BY <1>2, <1>3, <1>4

LEMMA AbortCopyStep ==
  ASSUME IInv, AbortCopy PROVE IInv'
<1>0. /\ UNCHANGED <<broken, cache>> /\ ActorKeeps /\ UNCHANGED <<queue, channels, done>>
      /\ UNCHANGED <<mode, linked, kind, caller>> /\ act.at \in {"exec", "script"} /\ ~Resting
      /\ down # <<>> /\ down' = Tail(down) /\ Head(down).t \in {"copyin", "copyout"}
      /\ act' = [act EXCEPT !.at = "abort", !.err = "err"]
  BY DEF AbortCopy, Reads, ActorKeeps, client, server, world, Resting
<1>1. act.cur \in Requests /\ caller[act.cur] # "new" /\ kind[act.cur] \in KindOf[act.at] /\ ~broken
  BY <1>0, ActorFacts DEF Engaged
<1>2. act' \in ActType /\ act'.at = "abort" /\ act'.cur = act.cur
  BY <1>0, ActorFacts DEF ActType, Places, Reading, Errors
<1>3. Engaged(act') /\ ~Resting' /\ Loop = act.at
      /\ Loop' = IF act.at = "script" THEN "scriptabort" ELSE "abort"
  BY <1>0, <1>1, <1>2, KindsOf DEF Engaged, Resting, Loop
<1>4. /\ Head(down) = down[1] /\ InTurn(1)
      /\ \A i \in DOMAIN down' : i \in Nat /\ i > 0 /\ i + 1 \in DOMAIN down /\ down'[i] = down[i + 1]
      /\ \A i \in DOMAIN down : InTurn(i)
  BY <1>0, <1>1, ActorFacts, Popped DEF Wire, DownShape
<1>5. Tagged /\ UpShape /\ ModeShape
  BY ActorFacts DEF Wire
<1>d. ASSUME up' = <<>> \/ (linked => mode # "ready") \/ up' = up PROVE DownShape'
  <2> SUFFICES ASSUME NEW i \in DOMAIN down' PROVE InTurn(i)'
    BY <1>3 DEF DownShape
  <2>1. InTurn(i + 1) /\ down'[i] = down[i + 1]
    BY <1>4
  <2>2. down'[i].t = "ready" => up' = <<>>
    <3>1. CASE ~linked
      BY <1>0, <1>1, <1>5, <3>1, FlushTyped, Writings, ActorFacts DEF AbortCopy, Tagged
    <3>2. CASE linked
      BY <1>0, <1>d, <2>1, <3>2 DEF InTurn
    <3> QED
      BY <3>1, <3>2
  <2>3. down'[i].t = "ready" => \A j \in DOMAIN down' : j > i => down'[j].t = "async"
    <3> SUFFICES ASSUME down'[i].t = "ready", NEW j \in DOMAIN down', j > i PROVE down'[j].t = "async"
      OBVIOUS
    <3>1. j + 1 > i + 1 /\ j + 1 \in DOMAIN down /\ down'[j] = down[j + 1]
      BY <1>4
    <3> QED
      BY <2>1, <3>1 DEF InTurn
  <2> QED
    BY <1>0, <1>3, <2>1, <2>2, <2>3 DEF InTurn
<1>w. ASSUME up' \in Seq(UpMsg), ~linked => up' = <<>>, \A i \in DOMAIN up' : up'[i].of = act.cur,
             UpShape', DownShape'
      PROVE  IInv'
  <2>1. ModeShape'
    BY <1>0, <1>1, <1>3, <1>5 DEF ModeShape
  <2>2. Tagged'
    BY <1>0, <1>2, <1>w DEF Tagged
  <2> QED
    BY <1>0, <1>1, <1>3, <1>w, <2>1, <2>2, ActorFacts, HandlerTyped DEF Wire
<1>6. CASE Reads("exec", "copyout") /\ UNCHANGED up
  <2>1. IsTail(up, <<"bind", "execute", "sync">>) /\ (mode = "copy" => Len(up) <= 1)
    BY <1>1, <1>3, <1>5, <1>6 DEF UpShape, Reads
  <2>2. mode = "copy" => IsTail(up, <<"sync", "copyfail", "sync">>)
    BY <2>1, ActorFacts, TailOfThree, SMTT(30)
  <2>3. UpShape'
    BY <1>0, <1>3, <1>6, <2>1, <2>2 DEF UpShape, Reads
  <2> QED
    BY <1>1, <1>5, <1>6, <1>d, <1>w, <2>3, ActorFacts DEF Tagged
<1>7. CASE Reads("script", "copyout") /\ UNCHANGED up
  <2>1. up = <<>>
    BY <1>3, <1>4, <1>7 DEF InTurn, Reads
  <2>2. UpShape'
    BY <1>3, <1>7, <2>1, EmptyTail, Writings DEF UpShape, Reads
  <2> QED
    BY <1>1, <1>5, <1>7, <1>d, <1>w, <2>2, ActorFacts DEF Tagged
<1>8. CASE Reads("exec", "copyin") /\ Flushed(<<"copyfail", "sync">>, act.cur)
  <2>1. mode = "copy"
    BY <1>3, <1>4, <1>8 DEF InTurn, Reads
  <2>2. IsTail(up, <<"bind", "execute", "sync">>) /\ Len(up) <= 1
    BY <1>1, <1>3, <1>5, <1>8, <2>1 DEF UpShape, Reads
  <2>3. /\ up' \in Seq(UpMsg)
        /\ linked => up' = up \o Batch(<<"copyfail", "sync">>, act.cur)
        /\ ~linked => up' = <<>>
    BY <1>1, <1>8, Writings, FlushTyped, ActorFacts
  <2>4. IsTail(up', <<"sync", "copyfail", "sync">>)
    BY <1>1, <2>2, <2>3, FailBehindSync, EmptyTail, Writings, ActorFacts
  <2>5. UpShape'
    BY <1>0, <1>3, <1>8, <2>1, <2>4 DEF UpShape, Reads
  <2>6. \A i \in DOMAIN up' : up'[i].of = act.cur
    <3>1. CASE ~linked
      BY <2>3, <3>1
    <3>2. CASE linked
      <4> DEFINE ts == <<"copyfail", "sync">>
                 b == Batch(ts, act.cur)
      <4>0. ts \in Seq(UpTypes)
        BY Writings
      <4>2. up' = up \o b
        BY <2>3, <3>2
      <4> HIDE DEF ts
      <4>1. b \in Seq(UpMsg) /\ \A i \in DOMAIN b : b[i].of = act.cur
        BY <1>1, <4>0, Batched
      <4> HIDE DEF b
      <4> QED
        BY <1>1, <1>5, <4>1, <4>2, Joined, ActorFacts DEF Tagged
    <3> QED
      BY <3>1, <3>2
  <2> QED
    BY <1>d, <1>w, <2>1, <2>3, <2>5, <2>6
<1>9. CASE Reads("script", "copyin") /\ Flushed(<<"copyfail">>, act.cur)
  <2>1. mode = "scriptcopy" /\ up = <<>>
    BY <1>3, <1>4, <1>9 DEF InTurn, Reads
  <2>2. /\ up' \in Seq(UpMsg)
        /\ linked => up' = up \o Batch(<<"copyfail">>, act.cur)
        /\ ~linked => up' = <<>>
    BY <1>1, <1>9, Writings, FlushTyped, ActorFacts
  <2>3. up' = <<>> \/ up' = Batch(<<"copyfail">>, act.cur)
    BY <1>1, <2>1, <2>2, Batched, Writings
  <2>4. IsTail(up', <<"copyfail">>) /\ \A i \in DOMAIN up' : up'[i].of = act.cur
    <3> DEFINE ts == <<"copyfail">>
    <3>1. ts \in Seq(UpTypes) /\ (up' = <<>> \/ up' = Batch(ts, act.cur))
      BY <2>3, Writings
    <3> HIDE DEF ts
    <3>2. IsTail(up', ts) /\ \A i \in DOMAIN up' : up'[i].of = act.cur
      BY <1>1, <3>1, Batched, BatchIsTail, EmptyTail
    <3> QED
      BY <3>2 DEF ts
  <2>5. UpShape'
    BY <1>3, <1>9, <2>4 DEF UpShape, Reads
  <2> QED
    BY <1>d, <1>w, <2>1, <2>2, <2>4, <2>5
<1> QED
  BY <1>6, <1>7, <1>8, <1>9 DEF AbortCopy

LEMMA SyncLast ==
  ASSUME NEW u \in Seq(UpMsg), NEW ts \in Seq(UpTypes), NEW r \in Requests,
         \A i \in DOMAIN ts : ts[i] # "query" /\ (ts[i] = "sync" => i = Len(ts)),
         \A i \in DOMAIN u : u[i].t \notin {"query", "sync"}
  PROVE  LET v == u \o Batch(ts, r) IN
         \A i \in DOMAIN v :
           /\ v[i].of = r \/ (\E j \in DOMAIN u : v[i] = u[j])
           /\ (\E j \in DOMAIN ts : v[i].t = ts[j]) \/ (\E j \in DOMAIN u : v[i] = u[j])
           /\ v[i].t # "query" /\ (v[i].t = "sync" => i = Len(v))
<1> DEFINE b == Batch(ts, r)
           v == u \o b
<1>1. b \in Seq(UpMsg) /\ Len(b) = Len(ts) /\ DOMAIN b = DOMAIN ts /\ DOMAIN ts = 1..Len(ts) /\ Len(ts) \in Nat
      /\ \A i \in DOMAIN ts : b[i].t = ts[i] /\ b[i].of = r
  BY Batched
<1> HIDE DEF b
<1>2. /\ Len(v) = Len(u) + Len(b) /\ Len(u) \in Nat /\ DOMAIN v = 1..(Len(u) + Len(b))
      /\ \A i \in DOMAIN v :
           IF i <= Len(u) THEN i \in DOMAIN u /\ v[i] = u[i]
                          ELSE i - Len(u) \in DOMAIN b /\ v[i] = b[i - Len(u)]
  <2>1. u \in Seq(UpMsg) /\ b \in Seq(UpMsg)
    BY <1>1
  <2> QED
    BY <2>1
<1> HIDE DEF v
<1>3. ASSUME NEW i \in DOMAIN v
      PROVE  /\ v[i].of = r \/ (\E j \in DOMAIN u : v[i] = u[j])
             /\ (\E j \in DOMAIN ts : v[i].t = ts[j]) \/ (\E j \in DOMAIN u : v[i] = u[j])
             /\ v[i].t # "query" /\ (v[i].t = "sync" => i = Len(v))
  <2>1. CASE i <= Len(u)
    BY <1>2, <2>1
  <2>2. CASE ~(i <= Len(u))
    <3>1. PICK k \in DOMAIN ts : k = i - Len(u) /\ v[i] = b[k]
      BY <1>1, <1>2, <2>2
    <3>2. i \in Nat /\ (k = Len(ts) => i = Len(v))
      BY <1>1, <1>2, <3>1
    <3> QED
      BY <1>1, <3>1, <3>2
  <2> QED
    BY <2>1, <2>2
<1> QED
  BY <1>3 DEF v, b

\* COPY ... FROM STDIN is fed or ended: there is no Sync yet that the server
\* would answer.
LEMMA FeedWire ==
  ASSUME IInv, act.at \in {"copyin", "feed"}, UNCHANGED <<mode, linked, kind, broken>>,
         act'.at \in {"feed", "drain"}, act'.cur = act.cur,
         NEW ts \in Seq(UpTypes), Flushed(ts, act.cur),
         \A i \in DOMAIN ts : ts[i] # "query" /\ (ts[i] = "sync" => i = Len(ts)),
         act'.at = "feed" => (\A i \in DOMAIN ts : ts[i] = "copydata") /\ (\A i \in DOMAIN up : up[i].t = "copydata"),
         \A i \in DOMAIN up : up[i].t \notin {"query", "sync"},
         linked => mode \in {"copy", "skip"},
         down' = down \/ (down # <<>> /\ down' = Tail(down))
  PROVE  Wire' /\ up' \in Seq(UpMsg)
<1>0. ~Resting /\ ~broken /\ act.cur \in Requests /\ Loop' = act'.at /\ ~Resting'
  BY ActorFacts DEF Resting, Engaged, Loop
<1>1. /\ up' \in Seq(UpMsg)
      /\ linked => up' = up \o Batch(ts, act.cur)
      /\ ~linked => up' = <<>> /\ up = <<>>
  BY <1>0, FlushTyped, ActorFacts
<1>2. \A i \in DOMAIN up' :
        /\ up'[i].of = act.cur \/ (\E j \in DOMAIN up : up'[i] = up[j])
        /\ (\E j \in DOMAIN ts : up'[i].t = ts[j]) \/ (\E j \in DOMAIN up : up'[i] = up[j])
        /\ up'[i].t # "query" /\ (up'[i].t = "sync" => i = Len(up'))
  <2>1. CASE linked
    <3> DEFINE v == up \o Batch(ts, act.cur)
    <3>1. up \in Seq(UpMsg) /\ up' = v
      BY <1>1, <2>1, ActorFacts
    <3>2. \A i \in DOMAIN v :
            /\ v[i].of = act.cur \/ (\E j \in DOMAIN up : v[i] = up[j])
            /\ (\E j \in DOMAIN ts : v[i].t = ts[j]) \/ (\E j \in DOMAIN up : v[i] = up[j])
            /\ v[i].t # "query" /\ (v[i].t = "sync" => i = Len(v))
      BY <1>0, <3>1, SyncLast
    <3> HIDE DEF v
    <3> QED
      BY <3>1, <3>2
  <2>2. CASE ~linked
    BY <1>1, <2>2
  <2> QED
    BY <2>1, <2>2
<1>5. Tagged'
  BY <1>0, <1>1, <1>2, ActorFacts DEF Tagged
<1>7. act'.at = "feed" => \A i \in DOMAIN up' : up'[i].t = "copydata"
  BY <1>2
<1>8. UpShape'
  BY <1>0, <1>2, <1>7 DEF UpShape
<1>9. ModeShape'
  BY <1>0 DEF ModeShape
<1>10. DownShape'
  <2> SUFFICES ASSUME NEW i \in DOMAIN down' PROVE InTurn(i)'
    BY <1>0 DEF DownShape
  <2>0. \A j \in DOMAIN down : InTurn(j)
    BY <1>0, ActorFacts DEF Wire, DownShape
  <2>1. PICK d \in {0, 1} : \A k \in DOMAIN down' : k \in Nat /\ k + d \in DOMAIN down /\ down'[k] = down[k + d]
    <3>1. CASE down' = down
      <4>1. \A k \in DOMAIN down' : k \in Nat /\ k + 0 \in DOMAIN down /\ down'[k] = down[k + 0]
        BY <3>1, ActorFacts
      <4> QED
        BY <4>1
    <3>2. CASE down # <<>> /\ down' = Tail(down)
      <4>1. \A k \in DOMAIN down' : k \in Nat /\ k + 1 \in DOMAIN down /\ down'[k] = down[k + 1]
        BY <3>2, Popped, ActorFacts
      <4> QED
        BY <4>1
    <3> QED
      BY <3>1, <3>2
  <2>a. InTurn(i + d) /\ down'[i] = down[i + d]
    BY <2>0, <2>1
  <2>2. down'[i].t = "ready" => ~linked /\ up' = <<>> /\ mode = "ready"
    BY <1>1, <2>a DEF InTurn
  <2>3. down'[i].t = "ready" => \A k \in DOMAIN down' : k > i => down'[k].t = "async"
    <3> SUFFICES ASSUME down'[i].t = "ready", NEW k \in DOMAIN down', k > i PROVE down'[k].t = "async"
      OBVIOUS
    <3>1. k + d \in DOMAIN down /\ k + d > i + d /\ down'[k] = down[k + d]
      BY <2>1
    <3> QED
      BY <2>a, <3>1 DEF InTurn
  <2> QED
    BY <1>0, <2>2, <2>3 DEF InTurn
<1> QED
  BY <1>1, <1>5, <1>8, <1>9, <1>10 DEF Wire

LEMMA CopyInBeginsStep ==
  ASSUME IInv, CopyInBegins PROVE IInv'
<1>0. /\ UNCHANGED <<broken, cache>> /\ ActorKeeps /\ UNCHANGED <<queue, channels, done>>
      /\ UNCHANGED <<mode, linked, kind, caller>> /\ act.at = "copyin" /\ ~Resting
      /\ down # <<>> /\ down' = Tail(down)
  BY DEF CopyInBegins, Reads, ActorKeeps, client, server, world, Resting
<1>1. act.cur \in Requests /\ caller[act.cur] # "new" /\ kind[act.cur] = "copyin" /\ ~broken /\ Loop = "copyin"
  BY <1>0, ActorFacts, KindsOf DEF Engaged, Loop
<1>2. Head(down) = down[1] /\ InTurn(1)
  BY <1>0, <1>1, ActorFacts, Popped DEF Wire, DownShape
<1>3. IsTail(up, <<"parse", "bind", "execute">>) /\ (mode = "copy" => up = <<>>)
  BY <1>1, ActorFacts DEF Wire, UpShape
<1>4. \A i \in DOMAIN up : up[i].t \in {"parse", "bind", "execute"}
  <2>1. DOMAIN up = 1..Len(up) /\ Len(up) \in Nat
    BY ActorFacts
  <2>2. \/ up = <<>>
        \/ Len(up) = 1 /\ up[1].t = "execute"
        \/ Len(up) = 2 /\ up[1].t = "bind" /\ up[2].t = "execute"
        \/ Len(up) = 3 /\ up[1].t = "parse" /\ up[2].t = "bind" /\ up[3].t = "execute"
    BY <1>3, TailOfThree, ActorFacts
  <2>3. 1..0 = {} /\ 1..1 = {1} /\ 1..2 = {1, 2} /\ 1..3 = {1, 2, 3}
    OBVIOUS
  <2> QED
    BY <2>1, <2>2, <2>3
<1>5. CASE Reads("copyin", "copyin") /\ At("feed") /\ UNCHANGED up
  <2>1. mode = "copy" /\ up = <<>>
    BY <1>1, <1>2, <1>3, <1>5 DEF InTurn, Reads
  <2>2. act' \in ActType /\ act'.at = "feed" /\ act'.cur = act.cur
    BY <1>5, ActorFacts DEF At, ActType, Places
  <2>3. Engaged(act') /\ ~Resting'
    BY <1>0, <1>1, <2>2, KindsOf DEF Engaged, Resting
  <2>4. Flushed(<<>>, act.cur)
    <3>1. Batch(<<>>, act.cur) = <<>>
      BY DEF Batch
    <3> QED
      BY <1>5, <2>1, <3>1 DEF Flushed
  <2>5. Wire' /\ up' \in Seq(UpMsg)
    <3> DEFINE ts == <<>>
    <3>1. ts \in Seq(UpTypes) /\ DOMAIN ts = {} /\ DOMAIN up = {} /\ Flushed(ts, act.cur)
      BY <2>1, <2>4
    <3> HIDE DEF ts
    <3> QED
      BY <1>0, <2>1, <2>2, <3>1, FeedWire
  <2> QED
    BY <1>0, <1>1, <2>3, <2>5, ActorFacts, HandlerTyped
<1>6. CASE /\ Reads("copyin", "error") \/ Reads("copyin", "stale")
           /\ Flushed(<<"sync">>, act.cur)
           /\ act' = [act EXCEPT !.at = "drain", !.err = "err"]
  <2>1. mode = "skip"
    BY <1>1, <1>2, <1>6 DEF InTurn, Reads
  <2>2. act' \in ActType /\ act'.at = "drain" /\ act'.cur = act.cur
    BY <1>6, ActorFacts DEF ActType, Places, Reading, Errors
  <2>3. Engaged(act') /\ ~Resting'
    BY <1>0, <1>1, <2>2, KindsOf DEF Engaged, Resting
  <2>4. Wire' /\ up' \in Seq(UpMsg)
    <3> DEFINE ts == <<"sync">>
    <3>1. ts \in Seq(UpTypes) /\ DOMAIN ts = {1} /\ Len(ts) = 1 /\ ts[1] = "sync" /\ Flushed(ts, act.cur)
      BY <1>6, Writings
    <3> HIDE DEF ts
    <3> QED
      BY <1>0, <1>4, <2>1, <2>2, <3>1, FeedWire
  <2> QED
    BY <1>0, <1>1, <2>3, <2>4, ActorFacts, HandlerTyped
<1> QED
  BY <1>5, <1>6 DEF CopyInBegins

LEMMA CopyInFeedsStep ==
  ASSUME IInv, CopyInFeeds PROVE IInv'
<1> DEFINE r == act.cur
<1>0. UNCHANGED <<queue, rx, tx, done, cache, broken, down, kind, caller, seen, lost, mode, result, linked, extra>>
      /\ act.at = "feed" /\ ~Resting
  BY DEF CopyInFeeds, ActorKeeps, client, server, world, Resting
<1>1. r \in Requests /\ caller[r] # "new" /\ kind[r] = "copyin" /\ ~broken /\ Loop = "feed"
  BY <1>0, ActorFacts, KindsOf DEF Engaged, Loop
<1>2. /\ \A i \in DOMAIN up : up[i].t = "copydata"
      /\ linked => mode \in {"copy", "skip"}
  BY <1>1, ActorFacts DEF Wire, UpShape, ModeShape
<1>3. chan' \in [Requests -> Seq(Payload)] /\ \A s \in Requests : Len(chan'[s]) <= Cap
  <2>1. chan' = chan \/ (chan[r] # <<>> /\ chan' = [chan EXCEPT ![r] = Tail(@)])
    BY DEF CopyInFeeds
  <2>2. chan[r] # <<>> => Tail(chan[r]) \in Seq(Payload) /\ Len(Tail(chan[r])) <= Cap
    BY <1>1, ActorFacts, Popped, ConnectionAssumption
  <2>3. CASE chan' = chan
    BY <2>3, ActorFacts
  <2>4. CASE chan[r] # <<>> /\ chan' = [chan EXCEPT ![r] = Tail(@)]
    BY <1>1, <2>2, <2>4, ActorFacts
  <2> QED
    BY <2>1, <2>3, <2>4
<1>n. <<"copydone", "sync">> # <<"copydata">> /\ <<"copyfail", "sync">> # <<"copydata">>
  OBVIOUS
<1>f. ASSUME NEW ts \in {<<"copydata">>, <<"copydone", "sync">>, <<"copyfail", "sync">>}, Flushed(ts, r),
             \/ ts = <<"copydata">> /\ act' = act
             \/ ts # <<"copydata">> /\ \E e \in Errors : act' = [act EXCEPT !.at = "drain", !.err = e]
      PROVE  IInv'
  <2>1. ts \in Seq(UpTypes)
    BY Writings
  <2>2. /\ \A i \in DOMAIN ts : ts[i] # "query" /\ (ts[i] = "sync" => i = Len(ts))
        /\ ts = <<"copydata">> => \A i \in DOMAIN ts : ts[i] = "copydata"
    <3>1. CASE ts = <<"copydata">>
      BY <3>1
    <3>2. CASE ts = <<"copydone", "sync">>
      <4>1. DOMAIN ts = {1, 2} /\ ts[1] = "copydone" /\ ts[2] = "sync" /\ Len(ts) = 2
        BY <3>2
      <4> QED
        BY <3>2, <4>1, <1>n
    <3>3. CASE ts = <<"copyfail", "sync">>
      <4>1. DOMAIN ts = {1, 2} /\ ts[1] = "copyfail" /\ ts[2] = "sync" /\ Len(ts) = 2
        BY <3>3
      <4> QED
        BY <3>3, <4>1, <1>n
    <3> QED
      BY <3>1, <3>2, <3>3
  <2>3. act' \in ActType /\ act'.at = (IF ts = <<"copydata">> THEN "feed" ELSE "drain") /\ act'.cur = act.cur
    BY <1>0, <1>f, ActorFacts, ZenonT(40) DEF ActType, Places, Reading
  <2>4. Engaged(act') /\ ~Resting'
    BY <1>0, <1>1, <2>3, KindsOf DEF Engaged, Resting
  <2>5. Wire' /\ up' \in Seq(UpMsg)
    BY <1>0, <1>2, <1>f, <2>1, <2>2, <2>3, FeedWire
  <2>6. Typed'
    BY <1>0, <1>1, <1>3, <2>4, <2>5, ActorFacts, ActorTyped
  <2> QED
    BY <2>5, <2>6 DEF IInv, Typed
<1>4. act.err \in Errors /\ "err" \in Errors /\ [act EXCEPT !.at = "drain"] = [act EXCEPT !.at = "drain", !.err = act.err]
  BY ActorFacts DEF ActType, Errors
<1>5. CASE Flushed(<<"copydata">>, r) /\ UNCHANGED act
  BY <1>5, <1>f
<1>6. CASE Flushed(<<"copydone", "sync">>, r) /\ At("drain")
  BY <1>4, <1>6, <1>n, <1>f DEF At
<1>7. CASE Flushed(<<"copyfail", "sync">>, r) /\ At("drain")
  BY <1>4, <1>7, <1>n, <1>f DEF At
<1>8. CASE Flushed(<<"copyfail", "sync">>, r) /\ act' = [act EXCEPT !.at = "drain", !.err = "err"]
  BY <1>4, <1>8, <1>n, <1>f
<1> QED
  BY <1>5, <1>6, <1>7, <1>8 DEF CopyInFeeds

LEMMA ActorSteps ==
  ASSUME IInv, Actor PROVE IInv'
  BY TakeRequestStep, IdleReadStep, ReadErrorStep, SkipStep, ReadServerErrorStep, ReadReadyStep,
     ReadItemStep, SendStep, AbortCopyStep, CopyInBeginsStep, CopyInFeedsStep, CopyFlushFailsStep,
     SettleStep, TerminateStep DEF Actor

-----------------------------------------------------------------------------
(* The steps of the server. *)

Modes == {"ready", "skip", "copy", "scriptcopy"}
ResultType == [rows : Seq(Payload), end : {"none", "executed", "complete", "failed"}]

LEMMA ServerTyped ==
  ASSUME Typed, UNCHANGED <<queue, kind, caller, seen, lost, chan, rx, tx, done, act, cache, broken>>,
         linked' \in BOOLEAN, up' \in Seq(UpMsg), down' \in Seq(DownMsg), mode' \in Modes,
         result' \in [Requests -> ResultType], extra' \in 0..MaxExtra
  PROVE  Typed'
<1>1. \A i \in DOMAIN up' : up'[i].t \in MsgTypes
  <2>1. \A i \in DOMAIN up' : up'[i] \in UpMsg
    OBVIOUS
  <2> QED
    BY <2>1 DEF UpMsg, UpTypes, MsgTypes
<1>2. \A i \in DOMAIN down' : down'[i].t \in MsgTypes
  <2>1. \A i \in DOMAIN down' : down'[i] \in DownMsg
    OBVIOUS
  <2>2. \A i \in DOMAIN down' : down'[i].t \in DownTypes \cup ItemTypes
    BY <2>1, Typeset
  <2> QED
    BY <2>2 DEF DownTypes, ItemTypes, MsgTypes
<1>3. TypeOK'
  BY <1>1, <1>2 DEF Typed, TypeOK, Modes
<1>4. Shape'
  BY DEF Typed, Shape, ResultType
<1>5. Roles'
  BY DEF Typed, Roles, Resting
<1> QED
  BY <1>3, <1>4, <1>5 DEF Typed

\* What the reply ms to the head of up has to be like, given the mode it leaves.
Fits(ms) ==
  /\ \A i \in DOMAIN ms :
       /\ ms[i].t \notin {"bad", "huge"}
       /\ ms[i].t = "ready" => i = Len(ms) /\ up' = <<>> /\ mode' = "ready"
       /\ ms[i].t = "copyin" /\ Loop \in {"exec", "copyin"} => mode' = "copy"
       /\ ms[i].t = "copyin" /\ Loop = "script" => mode' = "scriptcopy"
       /\ ms[i].t \in {"error", "stale"} /\ Loop = "copyin" => mode' = "skip"
       /\ Loop = "script" => up' = <<>>
  /\ mode = "copy" /\ Loop \in {"exec", "copyin"} => mode' = "copy"
  /\ mode = "skip" /\ Loop = "copyin" => mode' = "skip"

\* No frame of the replies to prepare is garbled.
PrepareIntact == Garbled \cap {"parse", "describe", "sync"} = {}

LEMMA ServerFacts ==
  ASSUME IInv, linked, up # <<>>
  PROVE  /\ Head(up) = up[1] /\ Head(up) \in UpMsg /\ Head(up).of \in Requests /\ Head(up).t \in UpTypes
         /\ Tail(up) \in Seq(UpMsg) /\ Len(Tail(up)) = Len(up) - 1 /\ Len(up) \in Nat \ {0}
         /\ \A i \in DOMAIN Tail(up) : i \in Nat /\ i > 0 /\ i + 1 \in DOMAIN up /\ Tail(up)[i] = up[i + 1]
         /\ ~broken => ~Resting /\ Head(up).of = act.cur /\ UpShape /\ ModeShape /\ DownShape
         /\ ~broken /\ act.cur \in Requests => Engaged(act)
         /\ result \in [Requests -> ResultType] /\ extra \in 0..MaxExtra
<1>1. /\ Head(up) = up[1] /\ Head(up) \in UpMsg /\ 1 \in DOMAIN up
      /\ Tail(up) \in Seq(UpMsg) /\ Len(Tail(up)) = Len(up) - 1 /\ Len(up) \in Nat \ {0}
      /\ \A i \in DOMAIN Tail(up) : i \in Nat /\ i > 0 /\ i + 1 \in DOMAIN up /\ Tail(up)[i] = up[i + 1]
  BY Popped, ActorFacts
<1>2. Head(up).of \in Requests /\ Head(up).t \in UpTypes
  BY <1>1 DEF UpMsg
<1>3. ~broken => ~Resting /\ Head(up).of = act.cur
  BY <1>1, ActorFacts DEF Wire, UpShape, Tagged
<1> QED
  BY <1>1, <1>2, <1>3, ActorFacts DEF IInv, Wire, Shape, ResultType, TypeOK

LEMMA ServeStep ==
  ASSUME PrepareIntact, IInv, linked, up # <<>>, up' = Tail(up), ServerKeeps,
         NEW ms \in Seq(DownMsg), Says(Head(up), ms),
         mode' \in Modes, result' \in [Requests -> ResultType],
         ~broken => UpShape' /\ ModeShape' /\ Fits(ms)
  PROVE  IInv'
<1> DEFINE m == Head(up)
<1>k. UNCHANGED <<queue, kind, caller, seen, lost, chan, rx, tx, done, act, cache, broken, linked>>
  BY DEF ServerKeeps, client, channels
<1>m. m \in UpMsg /\ up' \in Seq(UpMsg) /\ extra \in 0..MaxExtra /\ Len(up) \in Nat \ {0}
  BY ServerFacts
<1>1. extra' \in 0..MaxExtra
  BY <1>m, ActorFacts, Said
<1>2. PICK xs \in Seq(DownMsg) :
        /\ down' = down \o xs /\ Len(xs) = Len(ms)
        /\ \A i \in DOMAIN ms : Echo(m, ms[i], xs[i])
  BY <1>m, ActorFacts, Said
<1>3. /\ down' \in Seq(DownMsg) /\ DOMAIN xs = DOMAIN ms /\ DOMAIN ms = 1..Len(ms)
      /\ Len(down) \in Nat /\ Len(ms) \in Nat
      /\ \A i \in DOMAIN down' :
           IF i <= Len(down) THEN i \in DOMAIN down /\ down'[i] = down[i]
                             ELSE i - Len(down) \in DOMAIN ms /\ down'[i] = xs[i - Len(down)]
      /\ DOMAIN down' = 1..(Len(down) + Len(ms))
  <2>1. down \in Seq(DownMsg)
    BY ActorFacts
  <2>2. DOMAIN xs = 1..Len(xs) /\ DOMAIN ms = 1..Len(ms) /\ Len(ms) \in Nat
    OBVIOUS
  <2> DEFINE v == down \o xs
  <2>3. /\ v \in Seq(DownMsg) /\ DOMAIN v = 1..(Len(down) + Len(xs)) /\ Len(down) \in Nat
        /\ \A i \in DOMAIN v :
             IF i <= Len(down) THEN i \in DOMAIN down /\ v[i] = down[i]
                               ELSE i - Len(down) \in DOMAIN xs /\ v[i] = xs[i - Len(down)]
    BY <2>1
  <2>4. down' = v /\ Len(xs) = Len(ms)
    BY <1>2
  <2> HIDE DEF v
  <2> QED
    BY <2>2, <2>3, <2>4
<1>4. Typed'
  BY <1>k, <1>m, <1>1, <1>3, ActorFacts, ServerTyped
<1>5. Tagged'
  BY <1>k, ActorFacts, ServerFacts DEF Tagged
<1>6. CASE broken
  BY <1>k, <1>4, <1>5, <1>6 DEF IInv, Typed, Wire, UpShape, ModeShape, DownShape
<1>7. CASE ~broken
  <2>0. Loop' = Loop /\ ~Resting' /\ ~Resting
    BY <1>k, <1>7, ServerFacts DEF Loop, Resting
  <2>1. \A i \in DOMAIN down : InTurn(i) /\ down[i].t # "ready"
    BY <1>7, <2>0, ServerFacts DEF DownShape, InTurn
  <2>2. Loop = "prepare" => m.t \notin Garbled
    <3>1. Loop = "prepare" => IsTail(up, <<"parse", "describe", "sync">>)
      BY <1>7, ServerFacts DEF UpShape
    <3>2. ASSUME Loop = "prepare" PROVE m.t \in {"parse", "describe", "sync"}
      <4>1. up \in Seq(UpMsg) /\ m = up[1]
        BY ActorFacts, ServerFacts
      <4>2. IsTail(up, <<"parse", "describe", "sync">>)
        BY <3>1, <3>2
      <4> HIDE DEF m
      <4> QED
        BY <4>1, <4>2, TailOfThree DEF UpTypes
    <3> QED
      BY <3>2 DEF PrepareIntact
  <2>3. ASSUME NEW i \in DOMAIN ms
        PROVE  /\ Loop = "prepare" => xs[i].t \notin {"bad", "huge"}
               /\ xs[i].t \in {"ready", "copyin", "error", "stale"} => xs[i] = ms[i]
    BY <1>2, <1>7, <2>2 DEF Echo, Fits
  <2>4. DownShape'
    <3> SUFFICES ASSUME NEW i \in DOMAIN down' PROVE InTurn(i)'
      BY <2>0 DEF DownShape
    <3>1. CASE i <= Len(down)
      <4>1. i \in DOMAIN down /\ down'[i] = down[i] /\ InTurn(i) /\ down'[i].t # "ready"
        BY <1>3, <2>1, <3>1
      <4> QED
        BY <1>7, <2>0, <4>1 DEF InTurn, Fits
    <3>2. CASE ~(i <= Len(down))
      <4>1. i - Len(down) \in DOMAIN ms /\ down'[i] = xs[i - Len(down)] /\ i \in Nat
        BY <1>3, <3>2
      <4>2. down'[i].t = "ready" =>
              /\ up' = <<>> /\ mode' = "ready"
              /\ \A j \in DOMAIN down' : ~(j > i)
        BY <1>3, <1>7, <2>3, <4>1 DEF Fits
      <4> QED
        BY <1>7, <2>0, <2>3, <4>1, <4>2 DEF InTurn, Fits
    <3> QED
      BY <3>1, <3>2
  <2> QED
    BY <1>4, <1>5, <1>7, <2>4 DEF IInv, Typed, Wire
<1> QED
  BY <1>6, <1>7

\* The message the server is about to take, by the handler that has sent it.
LEMMA Heads ==
  ASSUME IInv, linked, up # <<>>, ~broken
  PROVE  /\ Loop \in {"prepare", "exec", "copyout", "copyin", "script", "scriptabort", "abort", "feed", "drain"}
         /\ Loop = "prepare" => up[1].t \in {"parse", "describe", "sync"} /\ (up[1].t = "sync" => Len(up) = 1)
         /\ Loop = "exec" =>
              /\ up[1].t \in {"bind", "execute", "sync"} /\ (up[1].t = "sync" => Len(up) = 1)
              /\ up[1].t = "execute" => Len(up) = 2
              /\ mode = "copy" => up[1].t = "sync"
         /\ Loop = "copyout" => up[1].t \in {"parse", "bind", "execute", "sync"} /\ (up[1].t = "sync" => Len(up) = 1)
         /\ Loop = "copyin" =>
              /\ up[1].t \in {"parse", "bind", "execute"} /\ (up[1].t = "execute" => Len(up) = 1)
              /\ mode # "copy"
         /\ Loop = "script" => up[1].t = "query" /\ Len(up) = 1
         /\ Loop = "scriptabort" => up[1].t = "copyfail" /\ Len(up) = 1
         /\ Loop = "abort" /\ mode = "copy" => up[1].t \in {"sync", "copyfail"} /\ (up[1].t = "copyfail" => Len(up) = 2)
         /\ Loop = "abort" /\ mode # "copy" =>
              /\ up[1].t \in {"bind", "execute", "sync"} /\ (up[1].t = "sync" => Len(up) = 1)
              /\ up[1].t = "execute" => Len(up) = 2
         /\ Loop = "feed" => up[1].t = "copydata"
         /\ Loop = "drain" => up[1].t # "query" /\ (up[1].t = "sync" => Len(up) = 1)
<1>1. up \in Seq(UpMsg) /\ UpShape /\ ~Resting /\ act.at \in Places /\ Len(up) \in Nat \ {0} /\ 1 \in DOMAIN up
  <2>1. up \in Seq(UpMsg) /\ UpShape /\ ~Resting /\ act.at \in Places
    BY ServerFacts, ActorFacts DEF ActType
  <2> QED
    BY <2>1, Popped
<1>2. Loop \in {"prepare", "exec", "copyout", "copyin", "script", "scriptabort", "abort", "feed", "drain"}
  BY <1>1 DEF Loop, Places, Reading, Resting
<1>3. CASE Loop = "prepare"
  <2>1. IsTail(up, <<"parse", "describe", "sync">>)
    BY <1>1, <1>3 DEF UpShape
  <2> QED
    BY <1>1, <1>3, <2>1, TailOfThree
<1>4. CASE Loop = "exec"
  <2>1. IsTail(up, <<"bind", "execute", "sync">>) /\ (mode = "copy" => Len(up) <= 1)
    BY <1>1, <1>4 DEF UpShape
  <2> QED
    BY <1>1, <1>4, <2>1, TailOfThree
<1>5. CASE Loop = "copyout"
  <2>1. IsTail(up, <<"parse", "bind", "execute", "sync">>)
    BY <1>1, <1>5 DEF UpShape
  <2> QED
    BY <1>1, <1>5, <2>1, TailOfFour
<1>6. CASE Loop = "copyin"
  <2>1. IsTail(up, <<"parse", "bind", "execute">>) /\ mode # "copy"
    BY <1>1, <1>6 DEF UpShape
  <2> QED
    BY <1>1, <1>6, <2>1, TailOfThree
<1>7. CASE Loop = "script"
  <2>1. IsTail(up, <<"query">>)
    BY <1>1, <1>7 DEF UpShape
  <2> QED
    BY <1>1, <1>7, <2>1, TailOfOne
<1>8. CASE Loop = "scriptabort"
  <2>1. IsTail(up, <<"copyfail">>)
    BY <1>1, <1>8 DEF UpShape
  <2> QED
    BY <1>1, <1>8, <2>1, TailOfOne
<1>9. CASE Loop = "abort" /\ mode = "copy"
  <2>1. IsTail(up, <<"sync", "copyfail", "sync">>)
    BY <1>1, <1>9 DEF UpShape
  <2> QED
    BY <1>1, <1>9, <2>1, TailOfThree
<1>10. CASE Loop = "abort" /\ mode # "copy"
  <2>1. IsTail(up, <<"bind", "execute", "sync">>)
    BY <1>1, <1>10 DEF UpShape
  <2> QED
    BY <1>1, <1>10, <2>1, TailOfThree
<1>11. CASE Loop \in {"feed", "drain"}
  BY <1>1, <1>11 DEF UpShape
<1> QED
  BY <1>2, <1>3, <1>4, <1>5, <1>6, <1>7, <1>8, <1>9, <1>10, <1>11

\* What is left after the server has taken a message.
LEMMA UpKept ==
  ASSUME IInv, linked, up # <<>>, up' = Tail(up), ServerKeeps, ~broken,
         mode' = "copy" /\ Loop = "exec" => Len(up) <= 2,
         mode' = "copy" /\ Loop = "copyin" => Len(up) = 1,
         Loop = "abort" => (mode' = mode \/ (mode # "copy" /\ mode' # "copy") \/ Len(up) = 2)
  PROVE  UpShape'
<1>1. Loop' = Loop /\ ~Resting' /\ broken' = broken
  BY ServerFacts DEF Loop, Resting, ServerKeeps, client
<1>2. /\ up \in Seq(UpMsg) /\ UpShape /\ up' \in Seq(UpMsg) /\ Len(up') = Len(up) - 1 /\ Len(up) \in Nat \ {0}
      /\ \A i \in DOMAIN up' : i \in Nat /\ i > 0 /\ i + 1 \in DOMAIN up /\ up'[i] = up[i + 1]
  BY ServerFacts, ActorFacts
<1>t. \A ts \in Seq(UpTypes) : IsTail(up, ts) => IsTail(up', ts)
  BY <1>2, TailShorter
<1>e. Len(up) = 1 => up' = <<>>
  BY <1>2
<1>3. ASSUME Loop = "prepare" PROVE IsTail(up', <<"parse", "describe", "sync">>)
  <2>1. IsTail(up, <<"parse", "describe", "sync">>)
    BY <1>2, <1>3 DEF UpShape
  <2> QED
    BY <1>t, <2>1, Writings
<1>4. ASSUME Loop = "exec" PROVE IsTail(up', <<"bind", "execute", "sync">>) /\ (mode' = "copy" => Len(up') <= 1)
  <2>1. IsTail(up, <<"bind", "execute", "sync">>)
    BY <1>2, <1>4 DEF UpShape
  <2>2. mode' = "copy" => Len(up') <= 1
    BY <1>2, <1>4
  <2> QED
    BY <1>t, <2>1, <2>2, Writings
<1>5. ASSUME Loop = "copyout" PROVE IsTail(up', <<"parse", "bind", "execute", "sync">>)
  <2>1. IsTail(up, <<"parse", "bind", "execute", "sync">>)
    BY <1>2, <1>5 DEF UpShape
  <2> QED
    BY <1>t, <2>1, Writings
<1>6. ASSUME Loop = "copyin" PROVE IsTail(up', <<"parse", "bind", "execute">>) /\ (mode' = "copy" => up' = <<>>)
  <2>1. IsTail(up, <<"parse", "bind", "execute">>)
    BY <1>2, <1>6 DEF UpShape
  <2>2. mode' = "copy" => up' = <<>>
    BY <1>e, <1>6
  <2> QED
    BY <1>t, <2>1, <2>2, Writings
<1>7. ASSUME Loop = "script" PROVE IsTail(up', <<"query">>)
  <2>1. IsTail(up, <<"query">>)
    BY <1>2, <1>7 DEF UpShape
  <2> QED
    BY <1>t, <2>1, Writings
<1>8. ASSUME Loop = "scriptabort" PROVE IsTail(up', <<"copyfail">>)
  <2>1. IsTail(up, <<"copyfail">>)
    BY <1>2, <1>8 DEF UpShape
  <2> QED
    BY <1>t, <2>1, Writings
<1>9. ASSUME Loop = "abort"
      PROVE  IF mode' = "copy" THEN IsTail(up', <<"sync", "copyfail", "sync">>)
                               ELSE IsTail(up', <<"bind", "execute", "sync">>)
  <2>1. IF mode = "copy" THEN IsTail(up, <<"sync", "copyfail", "sync">>)
                         ELSE IsTail(up, <<"bind", "execute", "sync">>)
    BY <1>2, <1>9 DEF UpShape
  <2>2. CASE Len(up) = 2
    <3>1. up[2].t = "sync"
      <4>1. CASE mode = "copy"
        BY <1>2, <2>1, <2>2, <4>1, TailOfThree
      <4>2. CASE mode # "copy"
        BY <1>2, <2>1, <2>2, <4>2, TailOfThree
      <4> QED
        BY <4>1, <4>2
    <3>2. Len(up') = 1 /\ up'[1].t = "sync"
      <4>1. Len(up') = 1 /\ 1 \in DOMAIN up'
        BY <1>2, <2>2
      <4>2. up'[1] = up[2]
        BY <1>2, <4>1
      <4> QED
        BY <3>1, <4>1, <4>2
    <3>3. IsTail(up', <<"sync", "copyfail", "sync">>) /\ IsTail(up', <<"bind", "execute", "sync">>)
      BY <1>2, <3>2, TailOfThree
    <3> QED
      BY <3>3
  <2>3. CASE mode' = mode \/ (mode # "copy" /\ mode' # "copy")
    BY <1>t, <2>1, <2>3, Writings
  <2> QED
    BY <1>9, <2>2, <2>3
<1>10. ASSUME Loop \in {"feed", "drain"}
       PROVE  /\ Loop = "feed" => \A i \in DOMAIN up' : up'[i].t = "copydata"
              /\ Loop = "drain" => \A i \in DOMAIN up' : up'[i].t # "query" /\ (up'[i].t = "sync" => i = Len(up'))
  <2>1. CASE Loop = "feed"
    BY <1>2, <2>1 DEF UpShape
  <2>2. CASE Loop = "drain"
    BY <1>2, <2>2 DEF UpShape
  <2> QED
    BY <1>10, <2>1, <2>2
<1> QED
  BY <1>1, <1>3, <1>4, <1>5, <1>6, <1>7, <1>8, <1>9, <1>10 DEF UpShape

\* The server's short replies.
LEMMA ShortReply ==
  ASSUME NEW r \in Requests, NEW t \in DownTypes
  PROVE  /\ Msg(t, r) \in DownMsg /\ Msg(t, r).t = t
         /\ <<Msg(t, r)>> \in Seq(DownMsg) /\ Append(<<>>, Msg(t, r)) = <<Msg(t, r)>>
         /\ Len(<<Msg(t, r)>>) = 1 /\ DOMAIN <<Msg(t, r)>> = {1} /\ <<Msg(t, r)>>[1] = Msg(t, r)
         /\ <<Msg("error", r), Msg("ready", r)>> \in Seq(DownMsg)
         /\ <<>> \in Seq(DownMsg)
<1>1. \A u \in DownTypes : Msg(u, r) \in DownMsg /\ Msg(u, r).t = u
  BY DEF Msg, DownMsg
<1>2. Msg("error", r) \in DownMsg /\ Msg("ready", r) \in DownMsg
  BY <1>1 DEF DownTypes
<1> HIDE DEF Msg
<1> QED
  BY <1>1, <1>2

LEMMA ResultTyped ==
  ASSUME IInv, NEW r \in Requests, NEW e \in {"executed", "complete", "failed"},
         Ends(r, e) \/ UNCHANGED result
  PROVE  result' \in [Requests -> ResultType]
<1>1. result \in [Requests -> ResultType]
  BY DEF IInv, Shape, ResultType
<1>2. result[r] \in ResultType
  BY <1>1
<1>3. [result[r] EXCEPT !.end = e] \in ResultType
  BY <1>2 DEF ResultType
<1>4. [result EXCEPT ![r].end = e] = [result EXCEPT ![r] = [result[r] EXCEPT !.end = e]]
  OBVIOUS
<1> QED
  BY <1>1, <1>3, <1>4 DEF Ends

LEMMA ServePrepareStep ==
  ASSUME PrepareIntact, IInv, ServePrepare PROVE IInv'
<1> DEFINE m == Head(up)
<1>0. linked /\ up # <<>> /\ up' = Tail(up) /\ ServerKeeps /\ result' = result /\ mode = "ready"
      /\ m.t \in {"parse", "describe", "bind"}
  BY DEF ServePrepare, Takes
<1>1. m.of \in Requests /\ result' \in [Requests -> ResultType] /\ m = up[1]
  BY <1>0, ServerFacts
<1>2. PICK t \in {"complete", "error", "stale"} :
        Says(m, <<Msg(t, m.of)>>) /\ mode' = IF t = "complete" THEN "ready" ELSE "skip"
  <2>1. CASE Says(m, <<Msg("complete", m.of)>>) /\ UNCHANGED mode
    BY <1>0, <2>1
  <2>2. CASE \E code \in {"error", "stale"} : Refuses(m, <<>>, code)
    <3>1. PICK code \in {"error", "stale"} : Refuses(m, <<>>, code)
      BY <2>2
    <3>2. Append(<<>>, Msg(code, m.of)) = <<Msg(code, m.of)>>
      OBVIOUS
    <3> QED
      BY <3>1, <3>2 DEF Refuses
  <2> QED
    BY <2>1, <2>2 DEF ServePrepare
<1> DEFINE ms == <<Msg(t, m.of)>>
<1>3. ms \in Seq(DownMsg) /\ DOMAIN ms = {1} /\ ms[1].t = t
  BY <1>1, ShortReply DEF DownTypes
<1>s. Says(m, ms)
  BY <1>2
<1> HIDE DEF ms
<1>4. mode' \in {"ready", "skip"} /\ (t # "complete" => mode' = "skip")
  BY <1>2
<1>5. ASSUME ~broken PROVE UpShape' /\ ModeShape' /\ Fits(ms)
  <2>1. Loop \in {"prepare", "exec", "copyin", "copyout", "abort", "drain"}
    BY <1>0, <1>1, <1>5, Heads
  <2>2. UpShape'
    BY <1>0, <1>4, <1>5, UpKept
  <2>3. Loop' = Loop /\ Resting' = Resting /\ ~Resting
    BY <1>0, <1>5, ServerFacts DEF Loop, Resting, ServerKeeps, client
  <2>4. ModeShape'
    BY <1>4, <2>1, <2>3 DEF ModeShape
  <2>5. Fits(ms)
    BY <1>0, <1>3, <1>4, <2>1 DEF Fits
  <2> QED
    BY <2>2, <2>4, <2>5
<1> QED
  BY <1>0, <1>1, <1>3, <1>s, <1>4, <1>5, ServeStep DEF Modes

\* A message that is passed over, or stored, without a word.
LEMMA Silence ==
  ASSUME NEW m, UNCHANGED <<down, extra>>, Shape
  PROVE  Says(m, <<>>) /\ <<>> \in Seq(DownMsg) /\ DOMAIN <<>> = {}
<1>1. down \in Seq(DownMsg)
  BY DEF Shape
<1>2. down \o <<>> = down
  BY <1>1
<1> QED
  BY <1>2 DEF Says

LEMMA ServeDiscardStep ==
  ASSUME PrepareIntact, IInv, ServeDiscard PROVE IInv'
<1>0. /\ linked /\ up # <<>> /\ up' = Tail(up) /\ ServerKeeps /\ UNCHANGED <<result, mode, down, extra>>
      /\ Head(up).t # "query" /\ mode \in {"skip", "copy"}
  BY DEF ServeDiscard, Takes
<1>1. result' \in [Requests -> ResultType] /\ Shape /\ mode' \in Modes /\ Head(up) = up[1]
  BY <1>0, ServerFacts, ActorFacts DEF Modes
<1> DEFINE ms == <<>>
<1>2. Says(Head(up), ms) /\ ms \in Seq(DownMsg) /\ DOMAIN ms = {}
  BY <1>0, <1>1, Silence
<1> HIDE DEF ms
<1>3. ASSUME ~broken PROVE UpShape' /\ ModeShape' /\ Fits(ms)
  <2>1. UpShape'
    <3>1. mode = "copy" /\ Loop = "exec" => Len(up) = 1
      BY <1>0, <1>1, <1>3, Heads
    <3>2. Loop = "copyin" => mode # "copy"
      BY <1>0, <1>3, Heads
    <3> QED
      BY <1>0, <1>3, <3>1, <3>2, UpKept
  <2>2. Loop' = Loop /\ Resting' = Resting /\ ~Resting /\ ModeShape
    BY <1>0, <1>3, ServerFacts DEF Loop, Resting, ServerKeeps, client
  <2>3. ModeShape'
    BY <1>0, <2>2 DEF ModeShape, ServerKeeps
  <2>4. Fits(ms)
    BY <1>0, <1>2 DEF Fits
  <2> QED
    BY <2>1, <2>3, <2>4
<1> QED
  BY <1>0, <1>1, <1>2, <1>3, ServeStep

\* The two replies that end with ReadyForQuery.
LEMMA ReadyReply ==
  ASSUME NEW r \in Requests, NEW ms, ms = <<Msg("ready", r)>> \/ ms = <<Msg("error", r), Msg("ready", r)>>
  PROVE  /\ ms \in Seq(DownMsg)
         /\ \A i \in DOMAIN ms : ms[i].t \in {"error", "ready"} /\ (ms[i].t = "ready" => i = Len(ms))
<1>1. Msg("error", r) \in DownMsg /\ Msg("ready", r) \in DownMsg /\ Msg("error", r).t = "error" /\ Msg("ready", r).t = "ready"
  BY ShortReply DEF DownTypes
<1>2. CASE ms = <<Msg("ready", r)>>
  BY <1>1, <1>2
<1>3. CASE ms = <<Msg("error", r), Msg("ready", r)>>
  <2>1. ms \in Seq(DownMsg) /\ DOMAIN ms = {1, 2} /\ Len(ms) = 2 /\ ms[1] = Msg("error", r) /\ ms[2] = Msg("ready", r)
    BY <1>1, <1>3
  <2> QED
    BY <1>1, <2>1
<1> QED
  BY <1>2, <1>3

LEMMA ServeReadyStep ==
  ASSUME PrepareIntact, IInv, linked, up # <<>>, up' = Tail(up), ServerKeeps, mode' = "ready",
         ~broken => Len(up) = 1 /\ Loop \in {"prepare", "exec", "copyout", "abort", "drain", "script", "scriptabort"},
         mode = "copy" => Loop # "exec",
         NEW ms, ms = <<Msg("ready", Head(up).of)>> \/ ms = <<Msg("error", Head(up).of), Msg("ready", Head(up).of)>>,
         Says(Head(up), ms), result' \in [Requests -> ResultType]
  PROVE  IInv'
<1>1. Head(up).of \in Requests /\ Len(Tail(up)) = Len(up) - 1 /\ Tail(up) \in Seq(UpMsg)
  BY ServerFacts
<1>2. /\ ms \in Seq(DownMsg)
      /\ \A i \in DOMAIN ms : ms[i].t \in {"error", "ready"} /\ (ms[i].t = "ready" => i = Len(ms))
  BY <1>1, ReadyReply
<1>3. ASSUME ~broken PROVE UpShape' /\ ModeShape' /\ Fits(ms)
  <2>1. up' = <<>>
    <3>1. up' \in Seq(UpMsg) /\ Len(up') = Len(up) - 1 /\ Len(up) = 1
      BY <1>1, <1>3
    <3>2. Len(up') = 0
      BY <3>1
    <3>3. \A s \in Seq(UpMsg) : Len(s) = 0 => s = <<>>
      OBVIOUS
    <3> QED
      BY <3>1, <3>2, <3>3
  <2>2. Loop' = Loop /\ Resting' = Resting /\ ~Resting
    BY <1>3, ServerFacts DEF Loop, Resting, ServerKeeps, client
  <2>3. UpShape'
    <3>1. Loop = "abort" => Len(up) = 1 /\ (mode = "copy" => up' = <<>>)
      BY <1>3, <2>1
    <3>2. \A i \in DOMAIN up' : FALSE
      BY <2>1
    <3>3. \A ts \in Seq(UpTypes) : IsTail(up', ts)
      BY <2>1, EmptyTail
    <3> QED
      BY <2>1, <2>2, <3>2, <3>3, Writings DEF UpShape
  <2>4. ModeShape'
    BY <1>3, <2>2 DEF ModeShape
  <2>5. Fits(ms)
    BY <1>2, <1>3, <2>1 DEF Fits
  <2> QED
    BY <2>3, <2>4, <2>5
<1> QED
  BY <1>2, <1>3, ServeStep DEF Modes

LEMMA ServeSyncStep ==
  ASSUME PrepareIntact, IInv, ServeSync PROVE IInv'
<1>0. /\ linked /\ up # <<>> /\ up' = Tail(up) /\ ServerKeeps /\ mode \in {"ready", "skip"} /\ mode' = "ready"
      /\ Head(up).t = "sync"
  BY DEF ServeSync, Takes
<1>1. Head(up).of \in Requests /\ Head(up) = up[1]
  BY <1>0, ServerFacts
<1>2. ~broken => Len(up) = 1 /\ Loop \in {"prepare", "exec", "copyout", "abort", "drain"}
  BY <1>0, <1>1, Heads
<1>3. PICK ms \in {<<Msg("ready", Head(up).of)>>, <<Msg("error", Head(up).of), Msg("ready", Head(up).of)>>} :
        /\ Says(Head(up), ms)
        /\ Ends(Head(up).of, "complete") \/ Ends(Head(up).of, "failed") \/ UNCHANGED result
  BY DEF ServeSync
<1>4. result' \in [Requests -> ResultType]
  BY <1>1, <1>3, ResultTyped
<1> QED
  BY <1>0, <1>2, <1>3, <1>4, ServeReadyStep

LEMMA ServeScriptCopyStep ==
  ASSUME PrepareIntact, IInv, ServeScriptCopy PROVE IInv'
<1>0. /\ linked /\ up # <<>> /\ up' = Tail(up) /\ ServerKeeps /\ mode = "scriptcopy" /\ mode' = "ready"
      /\ Head(up).t = "copyfail" /\ result' = result
      /\ Says(Head(up), <<Msg("error", Head(up).of), Msg("ready", Head(up).of)>>)
  BY DEF ServeScriptCopy, Takes
<1>1. Head(up) = up[1] /\ result' \in [Requests -> ResultType]
  BY <1>0, ServerFacts
<1>2. ~broken => Len(up) = 1 /\ Loop = "scriptabort"
  <2>1. ~broken => ModeShape /\ ~Resting
    BY <1>0, ServerFacts
  <2> QED
    BY <1>0, <1>1, <2>1, Heads DEF ModeShape
<1> QED
  BY <1>0, <1>1, <1>2, ServeReadyStep

LEMMA ServeCopyStep ==
  ASSUME PrepareIntact, IInv, ServeCopy PROVE IInv'
<1> DEFINE m == Head(up)
<1>0. /\ linked /\ up # <<>> /\ up' = Tail(up) /\ ServerKeeps /\ mode = "copy"
      /\ m.t \in {"copydata", "copydone", "copyfail"}
  BY DEF ServeCopy, Takes
<1>1. m.of \in Requests /\ m = up[1] /\ Shape /\ result \in [Requests -> ResultType]
  BY <1>0, ServerFacts, ActorFacts
<1>2. ~broken => /\ Loop \in {"abort", "feed", "drain"}
                 /\ Loop = "abort" => Len(up) = 2
                 /\ m.t = "copydone" => Loop = "drain"
                 /\ Loop' = Loop /\ Resting' = Resting /\ ~Resting
  <2>1. ~broken => ModeShape /\ ~Resting
    BY <1>0, ServerFacts
  <2>2. ~broken => Loop' = Loop /\ Resting' = Resting
    BY <1>0 DEF Loop, Resting, ServerKeeps, client
  <2> QED
    BY <1>0, <1>1, <2>1, <2>2, Heads DEF ModeShape
<1>3. ASSUME NEW ms \in Seq(DownMsg), Says(m, ms), result' \in [Requests -> ResultType],
             mode' \in {"copy", "ready", "skip"},
             \A i \in DOMAIN ms : ms[i].t \in {"complete", "error"},
             mode' = "ready" => m.t = "copydone"
      PROVE  IInv'
  <2>1. ASSUME ~broken PROVE UpShape' /\ ModeShape' /\ Fits(ms)
    <3>1. UpShape'
      BY <1>0, <1>2, <2>1, UpKept
    <3>2. ModeShape'
      BY <1>2, <1>3, <2>1 DEF ModeShape
    <3>3. Fits(ms)
      BY <1>2, <1>3, <2>1 DEF Fits
    <3> QED
      BY <3>1, <3>2, <3>3
  <2> QED
    BY <1>0, <1>3, <2>1, ServeStep DEF Modes
<1>4. CASE /\ result' = [result EXCEPT ![m.of].rows = Append(@, Item(m.of, Len(@) + 1))]
           /\ UNCHANGED <<mode, down, extra>>
  <2>1. result[m.of] \in ResultType /\ result[m.of].rows \in Seq(Payload)
    BY <1>1 DEF ResultType
  <2> DEFINE rs == Append(result[m.of].rows, Item(m.of, Len(result[m.of].rows) + 1))
  <2>2. rs \in Seq(Payload)
    <3>1. Len(result[m.of].rows) + 1 \in Nat
      BY <2>1
    <3>2. Item(m.of, Len(result[m.of].rows) + 1) \in Payload
      BY <1>1, <3>1, Payloads
    <3> QED
      BY <2>1, <3>2, Pushed
  <2>3. result' = [result EXCEPT ![m.of] = [result[m.of] EXCEPT !.rows = rs]]
    BY <1>4
  <2> HIDE DEF rs
  <2>4. [result[m.of] EXCEPT !.rows = rs] \in ResultType
    BY <2>1, <2>2 DEF ResultType
  <2>5. result' \in [Requests -> ResultType]
    BY <1>1, <2>3, <2>4
  <2>6. Says(m, <<>>) /\ <<>> \in Seq(DownMsg) /\ DOMAIN <<>> = {}
    BY <1>1, <1>4, Silence
  <2>7. mode' = "copy"
    BY <1>0, <1>4
  <2> QED
    BY <1>3, <2>5, <2>6, <2>7
<1>5. CASE m.t = "copydone" /\ Ends(m.of, "executed") /\ Says(m, <<Msg("complete", m.of)>>) /\ mode' = "ready"
  <2>1. result' \in [Requests -> ResultType]
    BY <1>1, <1>5, ResultTyped
  <2>2. <<Msg("complete", m.of)>> \in Seq(DownMsg) /\ \A i \in DOMAIN <<Msg("complete", m.of)>> : <<Msg("complete", m.of)>>[i].t = "complete"
    BY <1>1, ShortReply DEF DownTypes
  <2> QED
    BY <1>3, <1>5, <2>1, <2>2
<1>6. CASE Ends(m.of, "failed") /\ Refuses(m, <<>>, "error")
  <2>1. result' \in [Requests -> ResultType]
    BY <1>1, <1>6, ResultTyped
  <2>2. <<Msg("error", m.of)>> \in Seq(DownMsg) /\ \A i \in DOMAIN <<Msg("error", m.of)>> : <<Msg("error", m.of)>>[i].t = "error"
    BY <1>1, ShortReply DEF DownTypes
  <2>3. Says(m, <<Msg("error", m.of)>>) /\ mode' = "skip"
    <3>1. Append(<<>>, Msg("error", m.of)) = <<Msg("error", m.of)>>
      OBVIOUS
    <3> QED
      BY <1>6, <3>1 DEF Refuses
  <2> QED
    BY <1>3, <2>1, <2>2, <2>3
<1> QED
  BY <1>4, <1>5, <1>6 DEF ServeCopy

\* The messages a statement is answered with.
DataMsg == {a \in DownMsg : a.t \in {"row", "data", "trailer", "complete", "copyout"}}

LEMMA DataSeq ==
  ASSUME NEW s \in Seq(DataMsg)
  PROVE  s \in Seq(DownMsg) /\ \A i \in DOMAIN s : s[i].t \in {"row", "data", "trailer", "complete", "copyout"}
<1>1. DataMsg \subseteq DownMsg
  BY DEF DataMsg
<1>2. \A i \in DOMAIN s : s[i] \in DataMsg
  OBVIOUS
<1>3. s \in Seq(DownMsg)
  <2>1. Len(s) \in Nat /\ s \in [1..Len(s) -> DataMsg]
    OBVIOUS
  <2>2. s \in [1..Len(s) -> DownMsg]
    BY <1>1, <2>1
  <2> QED
    BY <2>1, <2>2
<1> QED
  BY <1>2, <1>3 DEF DataMsg

LEMMA DataMsgs ==
  ASSUME NEW r \in Requests, NEW n \in Nat
  PROVE  /\ RowMsgs("row", r, n) \in Seq(DataMsg) /\ RowMsgs("data", r, n) \in Seq(DataMsg)
         /\ Trailer(r) \in DataMsg
         /\ \A t \in {"complete", "copyout"} : Msg(t, r) \in DataMsg
<1>1. \A t \in {"complete", "copyout"} : Msg(t, r) \in DataMsg
  BY ShortReply DEF DataMsg, DownTypes
<1>2. Trailer(r) \in DataMsg
  <2>1. Mark("trailer") \in Payload
    BY DEF Mark, Payload
  <2> HIDE DEF Mark
  <2> QED
    BY <2>1 DEF Trailer, DataMsg, DownMsg, ItemTypes
<1>3. ASSUME NEW t \in {"row", "data"} PROVE RowMsgs(t, r, n) \in Seq(DataMsg)
  <2>1. ASSUME NEW i \in 1..n PROVE [t |-> t, of |-> r, item |-> Item(r, i)] \in DataMsg
    <3>1. Item(r, i) \in Payload
      BY Payloads
    <3> QED
      BY <3>1 DEF DataMsg, DownMsg, ItemTypes
  <2>2. RowMsgs(t, r, n) \in [1..n -> DataMsg]
    BY <2>1 DEF RowMsgs
  <2> QED
    BY <2>2
<1> QED
  BY <1>1, <1>2, <1>3

LEMMA ServeExecuteStep ==
  ASSUME PrepareIntact, IInv, ServeExecute PROVE IInv'
<1> USE ConnectionAssumption
<1> DEFINE m == Head(up)
           r == m.of
<1>0. /\ linked /\ up # <<>> /\ up' = Tail(up) /\ ServerKeeps /\ mode = "ready" /\ m.t = "execute"
  BY DEF ServeExecute, Takes
<1>1. r \in Requests /\ m = up[1] /\ result \in [Requests -> ResultType]
  BY <1>0, ServerFacts
<1>2. ~broken => /\ Loop \in {"exec", "copyin", "copyout", "abort", "drain"}
                 /\ Loop \in {"exec", "abort"} => Len(up) = 2
                 /\ Loop = "copyin" => Len(up) = 1
                 /\ Loop = "copyout" => Outcomes(r) = {"copyout"}
                 /\ Loop' = Loop /\ Resting' = Resting /\ ~Resting
  <2> SUFFICES ASSUME ~broken
               PROVE  /\ Loop \in {"exec", "copyin", "copyout", "abort", "drain"}
                      /\ Loop \in {"exec", "abort"} => Len(up) = 2
                      /\ Loop = "copyin" => Len(up) = 1
                      /\ Loop = "copyout" => Outcomes(r) = {"copyout"}
                      /\ Loop' = Loop /\ Resting' = Resting /\ ~Resting
    OBVIOUS
  <2>1. ~Resting /\ r = act.cur /\ Engaged(act)
    BY <1>0, ServerFacts, ActorFacts
  <2>2. Loop' = Loop /\ Resting' = Resting
    BY <1>0 DEF Loop, Resting, ServerKeeps, client
  <2>3. Loop = "copyout" => kind[r] = "copyout"
    BY <2>1, KindsOf DEF Engaged, Loop, Resting
  <2>4. Loop = "copyout" => Outcomes(r) = {"copyout"}
    BY <2>3 DEF Outcomes
  <2>5. /\ Loop \in {"exec", "copyin", "copyout", "abort", "drain"}
        /\ Loop \in {"exec", "abort"} => Len(up) = 2
        /\ Loop = "copyin" => Len(up) = 1
    BY <1>0, <1>1, Heads
  <2> QED
    BY <2>1, <2>2, <2>4, <2>5
<1>3. ASSUME NEW ms \in Seq(DownMsg), Says(m, ms), NEW v \in ResultType, result' = [result EXCEPT ![r] = v],
             mode' \in {"ready", "copy", "skip"}, ~broken /\ Loop = "copyout" => mode' # "copy",
             \A i \in DOMAIN ms :
               /\ ms[i].t \in {"row", "data", "trailer", "complete", "copyout", "error", "stale", "copyin"}
               /\ ms[i].t = "copyin" => mode' = "copy"
               /\ ms[i].t \in {"error", "stale"} => mode' = "skip"
      PROVE  IInv'
  <2>1. result' \in [Requests -> ResultType]
    BY <1>1, <1>3
  <2>2. ASSUME ~broken PROVE UpShape' /\ ModeShape' /\ Fits(ms)
    <3>1. UpShape'
      <4>1. /\ mode' = "copy" /\ Loop = "exec" => Len(up) <= 2
            /\ mode' = "copy" /\ Loop = "copyin" => Len(up) = 1
            /\ Loop = "abort" => Len(up) = 2
        <5>1. (Loop \in {"exec", "abort"} => Len(up) = 2) /\ (Loop = "copyin" => Len(up) = 1)
          BY <1>2, <2>2
        <5>2. Len(up) = 2 => Len(up) <= 2
          OBVIOUS
        <5> QED
          BY <5>1, <5>2
      <4> QED
        BY <1>0, <2>2, <4>1, UpKept
    <3>2. ModeShape'
      BY <1>2, <1>3, <2>2 DEF ModeShape
    <3>3. Fits(ms)
      BY <1>0, <1>2, <1>3, <2>2 DEF Fits
    <3> QED
      BY <3>1, <3>2, <3>3
  <2> QED
    BY <1>0, <1>3, <2>1, <2>2, ServeStep DEF Modes
<1>r. ASSUME NEW rs \in Seq(Payload), NEW e \in {"none", "executed", "failed"}
      PROVE  [rows |-> rs, end |-> e] \in ResultType
  BY DEF ResultType
<1>e. <<>> \in Seq(Payload)
  OBVIOUS
<1> DEFINE Out(st, n) == CASE st = "rows" -> RowMsgs("row", r, n)
                           [] st = "copyout" -> <<Msg("copyout", r)>> \o RowMsgs("data", r, n)
                           [] st = "copyin" -> <<>>
           End(st) == IF st = "copyout" THEN <<Trailer(r), Msg("complete", r)>> ELSE <<Msg("complete", r)>>
<1>4. PICK st \in Outcomes(r), n \in 0..MaxRows :
           \/ /\ st # "copyin"
              /\ result' = [result EXCEPT ![r] = [rows |-> [i \in 1..n |-> Item(r, i)], end |-> "executed"]]
              /\ Says(m, Out(st, n) \o End(st))
              /\ UNCHANGED mode
           \/ /\ st = "copyin"
              /\ result' = [result EXCEPT ![r] = [rows |-> <<>>, end |-> "none"]]
              /\ Says(m, <<Msg("copyin", r)>>)
              /\ mode' = "copy"
           \/ /\ result' = [result EXCEPT ![r] = [rows |-> <<>>, end |-> "failed"]]
              /\ \E code \in {"error", "stale"} : Refuses(m, Out(st, n), code)
  BY DEF ServeExecute
<1>5. st \in {"rows", "copyin", "copyout"} /\ n \in Nat
  BY DEF Outcomes
<1>6. Out(st, n) \in Seq(DataMsg) /\ End(st) \in Seq(DataMsg) /\ Out(st, n) \o End(st) \in Seq(DataMsg)
  <2>1. \A t \in {"complete", "copyout"} : Msg(t, r) \in DataMsg
    BY <1>1, <1>5, DataMsgs
  <2>2. Trailer(r) \in DataMsg /\ RowMsgs("row", r, n) \in Seq(DataMsg) /\ RowMsgs("data", r, n) \in Seq(DataMsg)
    BY <1>1, <1>5, DataMsgs
  <2> HIDE DEF m
  <2>3. <<Msg("copyout", r)>> \in Seq(DataMsg) /\ <<Msg("complete", r)>> \in Seq(DataMsg)
    BY <2>1
  <2>4. <<Trailer(r), Msg("complete", r)>> \in Seq(DataMsg)
    BY <2>1, <2>2
  <2>5. <<Msg("copyout", r)>> \o RowMsgs("data", r, n) \in Seq(DataMsg)
    BY <2>2, <2>3, Joined
  <2>6. <<>> \in Seq(DataMsg)
    OBVIOUS
  <2>7. Out(st, n) \in Seq(DataMsg)
    BY <1>5, <2>2, <2>5, <2>6
  <2>8. End(st) \in Seq(DataMsg)
    BY <2>3, <2>4
  <2> HIDE DEF Out, End
  <2> QED
    BY <2>7, <2>8, Joined
<1> HIDE DEF Out, End
<1>7. CASE /\ st # "copyin"
           /\ result' = [result EXCEPT ![r] = [rows |-> [i \in 1..n |-> Item(r, i)], end |-> "executed"]]
           /\ Says(m, Out(st, n) \o End(st))
           /\ UNCHANGED mode
  <2> DEFINE ms == Out(st, n) \o End(st)
             rs == [i \in 1..n |-> Item(r, i)]
  <2>1. ms \in Seq(DownMsg) /\ \A i \in DOMAIN ms : ms[i].t \in {"row", "data", "trailer", "complete", "copyout"}
    BY <1>6, DataSeq
  <2>2. rs \in Seq(Payload)
    <3>1. \A i \in 1..n : Item(r, i) \in Payload
      BY <1>1, <1>5, Payloads
    <3>2. rs \in [1..n -> Payload]
      BY <3>1
    <3> QED
      BY <1>5, <3>2
  <2>3. [rows |-> rs, end |-> "executed"] \in ResultType
    BY <1>r, <2>2
  <2>4. mode' = "ready"
    BY <1>0, <1>7
  <2> HIDE DEF ms, rs
  <2>5. Says(m, ms) /\ result' = [result EXCEPT ![r] = [rows |-> rs, end |-> "executed"]]
    BY <1>7 DEF ms, rs
  <2> QED
    BY <1>3, <2>1, <2>3, <2>4, <2>5
<1>8. CASE /\ st = "copyin"
           /\ result' = [result EXCEPT ![r] = [rows |-> <<>>, end |-> "none"]]
           /\ Says(m, <<Msg("copyin", r)>>)
           /\ mode' = "copy"
  <2> DEFINE ms == <<Msg("copyin", r)>>
  <2>1. ms \in Seq(DownMsg) /\ \A i \in DOMAIN ms : ms[i].t = "copyin"
    BY <1>1, ShortReply DEF DownTypes
  <2>2. ~broken /\ Loop = "copyout" => FALSE
    BY <1>2, <1>8
  <2>3. [rows |-> <<>>, end |-> "none"] \in ResultType
    BY <1>r, <1>e
  <2> HIDE DEF ms
  <2>4. Says(m, ms)
    BY <1>8 DEF ms
  <2> QED
    BY <1>3, <1>8, <2>1, <2>2, <2>3, <2>4
<1>9. CASE /\ result' = [result EXCEPT ![r] = [rows |-> <<>>, end |-> "failed"]]
           /\ \E code \in {"error", "stale"} : Refuses(m, Out(st, n), code)
  <2>1. PICK code \in {"error", "stale"} : Says(m, Append(Out(st, n), Msg(code, r))) /\ mode' = "skip"
    BY <1>9 DEF Refuses
  <2> DEFINE ms == Append(Out(st, n), Msg(code, r))
  <2>2. Out(st, n) \in Seq(DownMsg)
        /\ \A i \in DOMAIN Out(st, n) : Out(st, n)[i].t \in {"row", "data", "trailer", "complete", "copyout"}
    BY <1>6, DataSeq
  <2>3. Msg(code, r) \in DownMsg /\ Msg(code, r).t \in {"error", "stale"}
    BY <1>1, ShortReply DEF DownTypes
  <2>4. /\ ms \in Seq(DownMsg)
        /\ \A i \in DOMAIN ms : ms[i].t \in {"row", "data", "trailer", "complete", "copyout", "error", "stale"}
    <3> DEFINE s == Out(st, n)
               e == Msg(code, r)
    <3>1. s \in Seq(DownMsg) /\ e \in DownMsg
      BY <2>2, <2>3
    <3> HIDE DEF s, e
    <3>2. /\ Append(s, e) \in Seq(DownMsg)
          /\ \A i \in DOMAIN Append(s, e) : (i \in DOMAIN s /\ Append(s, e)[i] = s[i]) \/ Append(s, e)[i] = e
      BY <3>1
    <3> QED
      BY <2>2, <2>3, <3>2 DEF s, e
  <2>5. [rows |-> <<>>, end |-> "failed"] \in ResultType
    BY <1>r, <1>e
  <2>6. Says(m, ms)
    BY <2>1
  <2> HIDE DEF ms
  <2> QED
    BY <1>3, <1>9, <2>1, <2>4, <2>5, <2>6
<1> QED
  BY <1>4, <1>7, <1>8, <1>9

\* The messages of a script's reply, which enters COPY mode or does not.
ScriptMsg(c) == {a \in DownMsg : a.t \in {"copyout", "data", "complete", "error"} \/ (c /\ a.t = "copyin")}

LEMMA ScriptSeq ==
  ASSUME NEW c, NEW s \in Seq(ScriptMsg(c))
  PROVE  s \in Seq(DownMsg) /\ \A i \in DOMAIN s : s[i].t \in {"copyout", "data", "complete", "error"} \/ (c /\ s[i].t = "copyin")
<1>1. ScriptMsg(c) \subseteq DownMsg
  BY DEF ScriptMsg
<1>2. \A i \in DOMAIN s : s[i] \in ScriptMsg(c)
  OBVIOUS
<1>3. s \in Seq(DownMsg)
  <2>1. Len(s) \in Nat /\ s \in [1..Len(s) -> ScriptMsg(c)]
    OBVIOUS
  <2>2. s \in [1..Len(s) -> DownMsg]
    BY <1>1, <2>1
  <2> QED
    BY <2>1, <2>2
<1> QED
  BY <1>2, <1>3 DEF ScriptMsg

StatementTypes == {"ok", "err", "copyin", "copyout"}

LEMMA StatementReplies ==
  ASSUME NEW c, NEW r \in Requests, NEW st \in StatementTypes, st = "copyin" => c
  PROVE  StatementReply(st, r) \in Seq(ScriptMsg(c))
<1>1. \A t \in {"copyout", "complete", "error"} : Msg(t, r) \in ScriptMsg(c)
  BY ShortReply DEF ScriptMsg, DownTypes
<1>2. c => Msg("copyin", r) \in ScriptMsg(c)
  BY ShortReply DEF ScriptMsg, DownTypes
<1>3. RowMsgs("data", r, 1) \in Seq(ScriptMsg(c))
  <2>1. ASSUME NEW i \in 1..1 PROVE [t |-> "data", of |-> r, item |-> Item(r, i)] \in ScriptMsg(c)
    <3>1. Item(r, i) \in Payload
      BY Payloads
    <3> QED
      BY <3>1 DEF ScriptMsg, DownMsg, ItemTypes
  <2>2. RowMsgs("data", r, 1) \in [1..1 -> ScriptMsg(c)]
    BY <2>1 DEF RowMsgs
  <2>3. \A S : \A n \in Nat : \A q \in [1..n -> S] : q \in Seq(S)
    OBVIOUS
  <2> QED
    BY <2>2, <2>3
<1>4. /\ \A t \in {"copyout", "complete", "error"} : <<Msg(t, r)>> \in Seq(ScriptMsg(c))
      /\ c => <<Msg("copyin", r)>> \in Seq(ScriptMsg(c))
  BY <1>1, <1>2
<1>5. <<Msg("copyout", r)>> \o RowMsgs("data", r, 1) \o <<Msg("complete", r)>> \in Seq(ScriptMsg(c))
  <2>1. <<Msg("copyout", r)>> \o RowMsgs("data", r, 1) \in Seq(ScriptMsg(c))
    BY <1>3, <1>4, Joined
  <2> QED
    BY <1>4, <2>1, Joined
<1> QED
  BY <1>4, <1>5 DEF StatementReply, StatementTypes

\* How much of a script runs.
Stops(script) == {i \in DOMAIN script : script[i] \in {"err", "copyin"}}
Ran(script) ==
  IF Stops(script) = {} THEN script
  ELSE SubSeq(script, 1, CHOOSE i \in Stops(script) : \A j \in Stops(script) : i <= j)

LEMMA RanScript ==
  ASSUME NEW script \in Scripts
  PROVE  /\ Ran(script) \in Seq(StatementTypes) /\ Len(Ran(script)) \in {1, 2}
         /\ \A i \in DOMAIN Ran(script) : Ran(script)[i] = "copyin" => i = Len(Ran(script))
<1>1. script \in Seq(StatementTypes) /\ Len(script) \in 1..2
  BY ConnectionAssumption DEF StatementTypes
<1>2. DOMAIN script = 1..Len(script) /\ Len(script) \in {1, 2}
  BY <1>1
<1>3. CASE Stops(script) = {}
  <2>1. \A i \in DOMAIN script : script[i] # "copyin"
    BY <1>3 DEF Stops
  <2> QED
    BY <1>1, <1>2, <1>3, <2>1 DEF Ran
<1>4. CASE Stops(script) # {}
  <2> DEFINE k == CHOOSE i \in Stops(script) : \A j \in Stops(script) : i <= j
  <2>1. Stops(script) \subseteq {1, 2}
    BY <1>2 DEF Stops
  <2>2. \E i \in Stops(script) : \A j \in Stops(script) : i <= j
    <3>1. CASE 1 \in Stops(script)
      <4>1. \A j \in {1, 2} : 1 <= j
        OBVIOUS
      <4> QED
        BY <2>1, <3>1, <4>1
    <3>2. CASE 1 \notin Stops(script)
      <4>1. Stops(script) = {2}
        BY <1>4, <2>1, <3>2
      <4> QED
        BY <4>1
    <3> QED
      BY <3>1, <3>2
  <2>3. k \in Stops(script) /\ \A j \in Stops(script) : k <= j
    BY <2>2
  <2>4. Ran(script) = SubSeq(script, 1, k)
    BY <1>4 DEF Ran
  <2> HIDE DEF k
  <2>5. k \in 1..Len(script) /\ k \in {1, 2}
    BY <1>2, <2>1, <2>3 DEF Stops
  <2>6. /\ SubSeq(script, 1, k) \in Seq(StatementTypes) /\ Len(SubSeq(script, 1, k)) = k
        /\ \A i \in 1..k : SubSeq(script, 1, k)[i] = script[i]
    BY <1>1, <2>5
  <2>7. DOMAIN SubSeq(script, 1, k) = 1..k
    BY <2>6
  <2>8. ASSUME NEW i \in 1..k, script[i] = "copyin" PROVE i = k
    <3>1. i \in Stops(script)
      BY <1>2, <2>5, <2>8 DEF Stops
    <3> QED
      BY <2>3, <2>5, <3>1
  <2> QED
    BY <2>4, <2>5, <2>6, <2>7, <2>8
<1> QED
  BY <1>3, <1>4

LEMMA ScriptReplies ==
  ASSUME NEW script \in Scripts, NEW r \in Requests
  PROVE  LET ran == Ran(script)
             msgs == [i \in DOMAIN ran |-> StatementReply(ran[i], r)]
         IN  (IF Len(msgs) = 1 THEN msgs[1] ELSE msgs[1] \o msgs[2]) \in Seq(ScriptMsg(ran[Len(ran)] = "copyin"))
<1> DEFINE ran == Ran(script)
           msgs == [i \in DOMAIN ran |-> StatementReply(ran[i], r)]
           c == ran[Len(ran)] = "copyin"
<1>1. /\ ran \in Seq(StatementTypes) /\ Len(ran) \in {1, 2}
      /\ \A i \in DOMAIN ran : ran[i] = "copyin" => i = Len(ran)
  BY RanScript
<1> HIDE DEF ran
<1>2. DOMAIN ran = 1..Len(ran) /\ \A i \in DOMAIN ran : ran[i] \in StatementTypes
  BY <1>1
<1>3. \A i \in DOMAIN ran : ran[i] = "copyin" => c
  BY <1>1
<1> HIDE DEF c
<1>4. \A i \in DOMAIN ran : StatementReply(ran[i], r) \in Seq(ScriptMsg(c))
  BY <1>2, <1>3, StatementReplies
<1>5. msgs \in [1..Len(ran) -> Seq(ScriptMsg(c))]
  BY <1>2, <1>4
<1> HIDE DEF msgs
<1>6. Len(msgs) = Len(ran) /\ \A i \in 1..Len(ran) : msgs[i] \in Seq(ScriptMsg(c))
  <2>1. Len(ran) \in Nat
    BY <1>1
  <2> QED
    BY <1>5, <2>1
<1>7. CASE Len(ran) = 1
  <2>1. Len(msgs) = 1 /\ msgs[1] \in Seq(ScriptMsg(c))
    BY <1>6, <1>7
  <2> QED
    BY <2>1 DEF ran, msgs, c
<1>8. CASE Len(ran) = 2
  <2>1. Len(msgs) = 2 /\ msgs[1] \in Seq(ScriptMsg(c)) /\ msgs[2] \in Seq(ScriptMsg(c))
    BY <1>6, <1>8
  <2>2. msgs[1] \o msgs[2] \in Seq(ScriptMsg(c))
    BY <2>1, Joined
  <2> QED
    BY <2>1, <2>2 DEF ran, msgs, c
<1> QED
  BY <1>1, <1>7, <1>8

LEMMA ServeScriptStep ==
  ASSUME PrepareIntact, IInv, ServeScript PROVE IInv'
<1> DEFINE m == Head(up)
<1>0. linked /\ up # <<>> /\ up' = Tail(up) /\ ServerKeeps /\ mode = "ready" /\ m.t = "query"
  BY DEF ServeScript, Takes
<1>1. m.of \in Requests /\ m = up[1]
  BY <1>0, ServerFacts, SMTT(30)
<1>2. PICK script \in Scripts :
        LET ran == Ran(script)
            last == ran[Len(ran)]
            msgs == [i \in DOMAIN ran |-> StatementReply(ran[i], m.of)]
            replies == IF Len(msgs) = 1 THEN msgs[1] ELSE msgs[1] \o msgs[2]
        IN  /\ Says(m, IF last = "copyin" THEN replies ELSE Append(replies, Msg("ready", m.of)))
            /\ mode' = IF last = "copyin" THEN "scriptcopy" ELSE "ready"
            /\ Ends(m.of, IF last \in {"err", "copyin"} THEN "failed" ELSE "complete")
  BY DEF ServeScript, Ran, Stops
<1> DEFINE ran == Ran(script)
           last == ran[Len(ran)]
           msgs == [i \in DOMAIN ran |-> StatementReply(ran[i], m.of)]
           replies == IF Len(msgs) = 1 THEN msgs[1] ELSE msgs[1] \o msgs[2]
           ms == IF last = "copyin" THEN replies ELSE Append(replies, Msg("ready", m.of))
<1>3. /\ Says(m, ms) /\ mode' = (IF last = "copyin" THEN "scriptcopy" ELSE "ready")
      /\ Ends(m.of, IF last \in {"err", "copyin"} THEN "failed" ELSE "complete")
  BY <1>2
<1>4. replies \in Seq(ScriptMsg(last = "copyin"))
  BY <1>1, ScriptReplies
<1> HIDE DEF replies, last
<1>5. /\ replies \in Seq(DownMsg)
      /\ \A i \in DOMAIN replies : replies[i].t \in {"copyout", "data", "complete", "error"} \/ (last = "copyin" /\ replies[i].t = "copyin")
  BY <1>4, ScriptSeq, ZenonT(40)
<1>6. Msg("ready", m.of) \in DownMsg /\ Msg("ready", m.of).t = "ready"
  BY <1>1, ShortReply DEF DownTypes
<1>7. /\ ms \in Seq(DownMsg)
      /\ \A i \in DOMAIN ms : \/ ms[i].t \in {"copyout", "data", "complete", "error"}
                              \/ last = "copyin" /\ ms[i].t = "copyin"
                              \/ last # "copyin" /\ ms[i].t = "ready" /\ i = Len(ms)
  <2>1. CASE last = "copyin"
    BY <1>5, <2>1
  <2>2. CASE last # "copyin"
    <3> DEFINE e == Msg("ready", m.of)
    <3>1. replies \in Seq(DownMsg) /\ e \in DownMsg /\ e.t = "ready"
      BY <1>5, <1>6
    <3>2. ms = Append(replies, e)
      BY <2>2
    <3> HIDE DEF e, ms
    <3>3. /\ Append(replies, e) \in Seq(DownMsg)
          /\ \A i \in DOMAIN Append(replies, e) :
               \/ i \in DOMAIN replies /\ Append(replies, e)[i] = replies[i]
               \/ Append(replies, e)[i] = e /\ i = Len(Append(replies, e))
      BY <3>1
    <3> QED
      BY <1>5, <2>2, <3>1, <3>2, <3>3
  <2> QED
    BY <2>1, <2>2
<1> HIDE DEF ms
<1>8. result' \in [Requests -> ResultType] /\ mode' \in Modes
  BY <1>1, <1>3, ResultTyped DEF Modes
<1>9. ASSUME ~broken PROVE UpShape' /\ ModeShape' /\ Fits(ms)
  <2>1. Loop = "script" /\ Len(up) = 1
    BY <1>0, <1>1, <1>9, Heads
  <2>2. up' = <<>>
    <3>1. up' \in Seq(UpMsg) /\ Len(up') = Len(up) - 1
      BY <1>0, ServerFacts
    <3>2. Len(up') = 0
      BY <2>1, <3>1
    <3>3. \A s \in Seq(UpMsg) : Len(s) = 0 => s = <<>>
      OBVIOUS
    <3> QED
      BY <3>1, <3>2, <3>3
  <2>3. UpShape'
    BY <1>0, <1>9, <2>1, UpKept
  <2>4. Loop' = Loop /\ Resting' = Resting /\ ~Resting
    BY <1>0, <1>9, ServerFacts DEF Loop, Resting, ServerKeeps, client
  <2>5. ModeShape'
    BY <1>3, <2>1, <2>4 DEF ModeShape
  <2>6. Fits(ms)
    BY <1>3, <1>7, <2>1, <2>2 DEF Fits
  <2> QED
    BY <2>3, <2>5, <2>6
<1> QED
  BY <1>0, <1>3, <1>7, <1>8, <1>9, ServeStep

LEMMA ServerSteps ==
  ASSUME PrepareIntact, IInv, Server PROVE IInv'
  BY ServePrepareStep, ServeExecuteStep, ServeSyncStep, ServeDiscardStep, ServeCopyStep,
     ServeScriptStep, ServeScriptCopyStep DEF Server

LEMMA ServerNotifiesStep ==
  ASSUME IInv, ServerNotifies PROVE IInv'
<1> USE ConnectionAssumption
<1> DEFINE e == Msg("async", None)
<1>0. down' = Append(down, e) /\ UNCHANGED <<up, mode, result>> /\ ServerKeeps
  BY DEF ServerNotifies, server
<1>k. UNCHANGED <<queue, kind, caller, seen, lost, chan, rx, tx, done, act, cache, broken, linked>>
  BY <1>0 DEF ServerKeeps, client, channels
<1>1. e \in DownMsg /\ e.t = "async"
  BY DEF Msg, DownMsg, DownTypes
<1> HIDE DEF e
<1>2. down \in Seq(DownMsg) /\ Wire /\ Typed
  BY ActorFacts
<1>3. /\ down' \in Seq(DownMsg) /\ DOMAIN down \subseteq DOMAIN down'
      /\ \A i \in DOMAIN down' : (i \in DOMAIN down /\ down'[i] = down[i]) \/ down'[i] = e
  <2>1. /\ Append(down, e) \in Seq(DownMsg) /\ DOMAIN down \subseteq DOMAIN Append(down, e)
        /\ \A i \in DOMAIN Append(down, e) : (i \in DOMAIN down /\ Append(down, e)[i] = down[i]) \/ Append(down, e)[i] = e
    BY <1>1, <1>2
  <2> QED
    BY <1>0, <2>1
<1>4. Typed'
  <2>1. /\ linked' \in BOOLEAN /\ up' \in Seq(UpMsg) /\ mode' \in Modes /\ result' \in [Requests -> ResultType]
    BY <1>0, <1>k DEF IInv, TypeOK, Shape, Modes, ResultType
  <2>2. extra' \in 0..MaxExtra
    BY DEF ServerNotifies, IInv, TypeOK
  <2> QED
    BY <1>2, <1>3, <1>k, <2>1, <2>2, ServerTyped
<1>5. Loop' = Loop /\ Resting' = Resting
  BY <1>k DEF Loop, Resting
<1>6. Tagged' /\ UpShape' /\ ModeShape'
  BY <1>0, <1>2, <1>5, <1>k DEF Wire, Tagged, UpShape, ModeShape, IsTail
<1>7. DownShape'
  <2> SUFFICES ASSUME ~broken, NEW i \in DOMAIN down'
               PROVE  IF Resting THEN down'[i].t = "async" ELSE InTurn(i)'
    BY <1>5, <1>k DEF DownShape
  <2>1. CASE down'[i] = e
    BY <1>1, <2>1 DEF InTurn
  <2>2. CASE i \in DOMAIN down /\ down'[i] = down[i]
    <3>1. CASE Resting
      BY <1>2, <2>2, <3>1 DEF Wire, DownShape
    <3>2. CASE ~Resting
      <4>1. InTurn(i)
        BY <1>2, <2>2, <3>2 DEF Wire, DownShape
      <4>2. down'[i].t = "ready" =>
              up' = <<>> /\ mode' = "ready" /\ \A j \in DOMAIN down' : j > i => down'[j].t = "async"
        BY <1>0, <1>1, <1>3, <2>2, <4>1 DEF InTurn
      <4> QED
        BY <1>0, <1>5, <2>2, <3>2, <4>1, <4>2 DEF InTurn
    <3> QED
      BY <3>1, <3>2
  <2> QED
    BY <1>3, <2>1, <2>2
<1> QED
  BY <1>4, <1>6, <1>7 DEF IInv, Typed, Wire

LEMMA LoseStep ==
  ASSUME IInv, Lose PROVE IInv'
<1>0. /\ up' = <<>> /\ linked' = FALSE
      /\ UNCHANGED <<queue, kind, caller, seen, lost, chan, rx, tx, done, act, cache, broken, down, mode, result, extra>>
  BY DEF Lose, client, channels, server
<1>1. Typed'
  <2>1. /\ linked' \in BOOLEAN /\ up' \in Seq(UpMsg) /\ down' \in Seq(DownMsg) /\ mode' \in Modes
        /\ result' \in [Requests -> ResultType] /\ extra' \in 0..MaxExtra
    <3>0. <<>> \in Seq(UpMsg)
      OBVIOUS
    <3>1. up' \in Seq(UpMsg) /\ linked' \in BOOLEAN
      <4>1. up' = <<>> /\ linked' = FALSE
        BY <1>0
      <4> QED
        BY <3>0, <4>1
    <3>2. /\ down' \in Seq(DownMsg) /\ mode' \in Modes
          /\ result' \in [Requests -> ResultType] /\ extra' \in 0..MaxExtra
      BY <1>0 DEF IInv, TypeOK, Shape, Modes, ResultType
    <3> QED
      BY <3>1, <3>2
  <2> QED
    BY <1>0, <2>1, ActorFacts, ServerTyped
<1>2. Loop' = Loop /\ Resting' = Resting
  BY <1>0 DEF Loop, Resting
<1>3. Tagged' /\ ModeShape'
  BY <1>0 DEF Tagged, ModeShape
<1>4. UpShape'
  <2>1. \A ts \in Seq(UpTypes) : IsTail(up', ts)
    BY <1>0, EmptyTail
  <2>2. DOMAIN up' = {} /\ Len(up') = 0
    BY <1>0
  <2>3. up' = <<>> /\ Len(up') <= 1
    BY <1>0
  <2> QED
    BY <2>1, <2>2, <2>3, Writings DEF UpShape
<1>5. DownShape'
  <2> SUFFICES ASSUME ~broken, NEW i \in DOMAIN down
               PROVE  IF Resting THEN down'[i].t = "async" ELSE InTurn(i)'
    BY <1>0, <1>2 DEF DownShape
  <2>1. IF Resting THEN down[i].t = "async" ELSE InTurn(i)
    BY DEF IInv, Wire, DownShape
  <2> QED
    BY <1>0, <1>2, <2>1 DEF InTurn
<1> QED
  BY <1>1, <1>3, <1>4, <1>5 DEF IInv, Typed, Wire

-----------------------------------------------------------------------------

LEMMA IInvInit ==
  ASSUME Init PROVE IInv
<1> USE ConnectionAssumption
<1>1. act = [at |-> "idle", cur |-> None, err |-> "none", sent |-> FALSE, attempt |-> 0, item |-> None]
  BY DEF Init, Idle
<1>2. up = <<>> /\ down = <<>> /\ queue = <<>>
  BY DEF Init
<1>3. DOMAIN up = {} /\ DOMAIN down = {} /\ DOMAIN queue = {}
  BY <1>2
<1>4. TypeOK
  <2>1. \A r \in Requests : Len(chan[r]) = 0
    BY DEF Init
  <2>2. \A r \in Requests : Len(chan[r]) <= Cap
    BY <2>1
  <2>3. /\ act.at \in Places /\ act.cur \in Requests \cup {None}
        /\ act.err \in Errors /\ act.attempt \in 0..2 /\ act.sent \in BOOLEAN
    BY <1>1 DEF Places, Reading, Errors
  <2>4. kind \in [Requests -> AllKinds \cup {None}] /\ extra \in 0..MaxExtra
    BY DEF Init
  <2>5. /\ caller \in [Requests -> {"new", "open", "write", "finish", "await", "ended", "dropped"}]
        /\ done \in [Requests -> {"none", "ok", "err", "refused"}]
    BY DEF Init
  <2>6. lost \in [Requests -> Nat]
    BY DEF Init
  <2> QED
    BY <1>3, <2>2, <2>3, <2>4, <2>5, <2>6 DEF Init, TypeOK
<1>5. Shape
  <2>1. \A S : <<>> \in Seq(S)
    OBVIOUS
  <2>2. act \in [at : Places, cur : Requests \cup {None}, err : Errors, sent : BOOLEAN,
              attempt : 0..2, item : Payload \cup {None}]
    BY <1>1 DEF Places, Reading, Errors
  <2>3. result \in [Requests -> [rows : Seq(Payload), end : {"none", "executed", "complete", "failed"}]]
    BY <2>1 DEF Init
  <2> QED
    BY <1>2, <2>1, <2>2, <2>3 DEF Init, Shape
<1>6. Roles
  BY <1>1, <1>3 DEF Init, Roles, Resting
<1>7. Resting /\ Loop = "idle"
  BY <1>1 DEF Resting, Loop
<1>8. Wire
  BY <1>2, <1>3, <1>7 DEF Init, Wire, Tagged, UpShape, ModeShape, DownShape
<1> QED
  BY <1>4, <1>5, <1>6, <1>8 DEF IInv

LEMMA IInvNext ==
  ASSUME PrepareIntact, IInv, [Next]_vars PROVE IInv'
<1>1. CASE UNCHANGED vars
  <2>1. UNCHANGED <<queue, kind, caller, seen, lost, chan, rx, tx, done, act, cache, broken, up, down, mode, result, linked, extra>>
    BY <1>1 DEF vars, client, channels, server, world
  <2>2. TypeOK' /\ Shape' /\ Roles'
    BY <2>1 DEF IInv, TypeOK, Shape, Roles, Resting
  <2>3. Wire'
    BY <2>1, WireKept DEF IInv
  <2> QED
    BY <2>2, <2>3 DEF IInv
<1>2. CASE Actor \/ Server \/ ServerNotifies \/ Lose
  BY <1>2, ActorSteps, ServerSteps, ServerNotifiesStep, LoseStep
<1>3. CASE \E r \in Requests : Handle(r) \/ Write(r) \/ DropWrite(r) \/ Drop(r) \/ \E k \in Kinds : Submit(r, k)
  BY <1>3, HandleSteps
<1> QED
  BY <1>1, <1>2, <1>3 DEF Next

\* connection.rs:1516-1526, every loop that reads to ReadyForQuery, and the
\* COPY handlers: if the frames of the replies to prepare are intact, then
\* however requests are made, dropped and answered, and whatever else of the
\* server's replies is garbled, lost or late, an actor that takes its next
\* request from a connection that is not broken finds nothing of an earlier
\* request left on the wire, and the server out of COPY mode.
THEOREM ConnectionInStep ==
  ASSUME PrepareIntact
  PROVE  Spec => []InStep
<1>1. IInv => InStep
  <2> SUFFICES ASSUME IInv PROVE InStep
    OBVIOUS
  <2>1. act.at = "idle" => Resting
    BY DEF Resting
  <2> QED
    BY <2>1 DEF IInv, InStep, Wire, UpShape, ModeShape, DownShape
<1>2. PrepareIntact
  OBVIOUS
<1>3. IInv /\ [Next]_vars => IInv'
  BY <1>2, IInvNext
<1> QED
  BY <1>1, <1>3, IInvInit, PTL DEF Spec

-----------------------------------------------------------------------------
(* What is reported: no success that did not happen, and COPY as a whole. *)

Busy == act.at \notin {"idle", "stopped"}

\* Every request is in one place and has no result before it is served.
Fifo ==
  /\ \A i, j \in DOMAIN queue : queue[i] = queue[j] => i = j
  /\ \A i \in DOMAIN queue : done[queue[i]] = "none" /\ (Busy => queue[i] # act.cur)
  /\ Busy => done[act.cur] = "none"
  /\ \A r \in Requests : caller[r] = "new" => done[r] = "none"

\* What is on its way to the server, also once the connection is broken: messages
\* of one request, which has not succeeded.
Posted ==
  /\ \A i, j \in DOMAIN up : up[i].of = up[j].of /\ ~(up[i].t = "execute" /\ up[j].t = "copydone")
  /\ \A i \in DOMAIN up :
       /\ done[up[i].of] # "ok" /\ caller[up[i].of] # "new"
       /\ up[i].t = "query" => kind[up[i].of] = "script"
       /\ up[i].t = "copydone" => kind[up[i].of] = "copyin"

\* The handler has been told of an error, or is going to read of it.
Told ==
  \/ act.err # "none"
  \/ \E i \in DOMAIN down :
       \/ down[i].t \in {"error", "stale", "bad", "huge"}
       \/ Loop \in {"exec", "script"} /\ down[i].t \in {"copyin", "copyout"}

\* A ReadyForQuery that no error goes with means that the request is complete.
Verdict ==
  ~Resting =>
    /\ Loop \in {"abort", "scriptabort"} => act.err # "none"
    /\ Loop = "feed" => \A i \in DOMAIN down : down[i].t # "ready"
    /\ Loop \in {"exec", "copyout", "drain", "script"} /\ (\E i \in DOMAIN down : down[i].t = "ready") =>
         result[act.cur].end = "complete" \/ Told
    /\ Loop \in {"exec", "copyout", "drain", "feed", "copyin"} /\ linked /\ mode = "skip" => Told
    /\ Loop \in {"exec", "copyout", "drain"} /\ linked /\ mode = "ready" /\ Len(up) = 1 =>
         result[act.cur].end = "executed" \/ Told
    /\ Loop = "drain" /\ act.err = "none" =>
         \A i \in DOMAIN up : up[i].t \in {"copydata", "copydone", "copyfail", "sync"}

Settled ==
  /\ act.at = "settle" /\ act.err = "none" => ~broken /\ result[act.cur].end = "complete"
  /\ \A r \in Requests : done[r] = "ok" => result[r].end = "complete"

\* n chunks of r have left its channel: so many more are in it.
Counted(r, n) ==
  /\ r \in rx
  /\ caller[r] \in {"open", "write"} => n + Len(chan[r]) = Len(seen[r])
  /\ caller[r] = "finish" => n + Len(chan[r]) = Len(seen[r]) + 1
  /\ caller[r] = "await" => n + Len(chan[r]) = Len(seen[r]) + 2
  /\ \A i \in DOMAIN chan[r] : chan[r][i].is = "done" =>
       i = Len(chan[r]) /\ caller[r] \in {"await", "dropped"} /\ n + Len(chan[r]) = Len(seen[r]) + 2

Unfinished(r) == result[r].end \notin {"executed", "complete"}

\* The chunks of a COPY: in the channel, ...
Queued ==
  /\ \A r \in Requests : kind[r] = "copyin" /\ (\E i \in DOMAIN queue : queue[i] = r) => Counted(r, 0)
  /\ act.at = "copyin" => Counted(act.cur, 0)
  /\ act.at = "copyin" /\ linked /\ mode = "copy" => result[act.cur].rows = <<>> /\ Unfinished(act.cur)
  /\ act.at = "feed" /\ linked /\ mode = "copy" =>
       Counted(act.cur, Len(result[act.cur].rows) + Len(up)) /\ Unfinished(act.cur)

\* ... and on their way to the server: a CopyDone comes behind all of them.
Chunks ==
  mode = "copy" => \A i \in DOMAIN up :
    /\ kind[up[i].of] = "copyin" => Unfinished(up[i].of)
    /\ up[i].t = "copydone" =>
         /\ Len(result[up[i].of].rows) + i = Len(seen[up[i].of]) + 2
         /\ caller[up[i].of] \in {"await", "ended", "dropped"}
         /\ \A j \in DOMAIN up : j < i => up[j].t = "copydata"

\* A COPY is stored with all the chunks of its channel, once its writer is done.
Stored ==
  \A r \in Requests : kind[r] = "copyin" /\ ~Unfinished(r) =>
    Len(result[r].rows) = Len(seen[r]) + 1 /\ caller[r] \in {"await", "ended", "dropped"}

Whole == Stored /\ \A r \in Requests : caller[r] = "new" => result[r].end = "none"

DInv == Fifo /\ Posted /\ Verdict /\ Settled /\ Queued /\ Chunks /\ Whole

-----------------------------------------------------------------------------
(* Steps that change nothing of it, part by part. *)

LEMMA FifoKept ==
  ASSUME Fifo, UNCHANGED <<queue, done>>, Busy' <=> Busy, Busy => act'.cur = act.cur,
         \A r \in Requests : caller'[r] = "new" => caller[r] = "new"
  PROVE  Fifo'
  BY DEF Fifo

LEMMA PostedKept ==
  ASSUME Posted, Typed, up' = up, \A r \in Requests : caller[r] # "new" => caller'[r] # "new" /\ kind'[r] = kind[r],
         \A i \in DOMAIN up : done'[up[i].of] = "ok" => done[up[i].of] = "ok"
  PROVE  Posted'
<1>1. \A i \in DOMAIN up : up[i].of \in Requests
  <2>1. \A i \in DOMAIN up : up[i] \in UpMsg
    BY DEF Typed, Shape
  <2> QED
    BY <2>1 DEF UpMsg
<1> QED
  BY <1>1 DEF Posted

LEMMA VerdictKept ==
  ASSUME Verdict, Roles, UNCHANGED <<act, up, down, result, mode, linked>>,
         act.at \notin {"idle", "stopped"} => kind'[act.cur] = kind[act.cur]
  PROVE  Verdict'
<1>1. Loop' = Loop /\ Resting' = Resting
  BY DEF Loop, Resting
<1> QED
  BY <1>1 DEF Verdict, Told

LEMMA SettledKept ==
  ASSUME Settled, UNCHANGED <<act, broken, result, done>>
  PROVE  Settled'
  BY DEF Settled

LEMMA CountedKept ==
  ASSUME NEW r \in Requests, NEW n, Counted(r, n), chan'[r] = chan[r], seen'[r] = seen[r], caller'[r] = caller[r],
         r \in rx'
  PROVE  Counted(r, n)'
  BY DEF Counted

LEMMA CallerMoves ==
  ASSUME Typed, NEW r \in Requests,
         Receive(r) \/ Answered(r) \/ Writes(r) \/ Finish(r) \/ Drop(r)
  PROVE  /\ \A s \in Requests : caller'[s] = "new" <=> caller[s] = "new"
         /\ \A s \in Requests : s # r => caller'[s] = caller[s] /\ seen'[s] = seen[s] /\ chan'[s] = chan[s]
         /\ rx' \subseteq rx /\ rx \ {r} \subseteq rx'
<1>1. /\ \A s \in Requests : caller'[s] = "new" => caller[s] = "new"
      /\ caller[r] # "new" /\ \A s \in Requests : caller[s] = "new" => caller'[s] = "new"
      /\ \A s \in Requests : s # r => caller'[s] = caller[s]
  BY WritesFacts DEF Typed, TypeOK, Receive, Answered, Finish, Drop, Now
<1>2. \A s \in Requests : s # r => seen'[s] = seen[s]
  BY WritesFacts DEF Typed, Shape, Receive, Answered, PutChunk, Finish, Drop
<1>3. \A s \in Requests : s # r => chan'[s] = chan[s]
  BY WritesFacts DEF Typed, Shape, Receive, Answered, PutChunk, Finish, Drop, channels
<1>4. rx' \subseteq rx /\ rx \ {r} \subseteq rx'
  BY WritesFacts DEF Typed, TypeOK, Receive, Answered, Finish, Drop, channels
<1> QED
  BY <1>1, <1>2, <1>3, <1>4

\* A COPY writer writes, finishes or is dropped.
LEMMA CountedMoves ==
  ASSUME Typed, NEW r \in Requests, NEW n \in Nat, kind[r] = "copyin", Counted(r, n),
         Writes(r) \/ Finish(r) \/ Drop(r)
  PROVE  Counted(r, n)'
<1>0. /\ chan[r] \in Seq(Payload) /\ seen[r] \in Seq(Payload) /\ chan \in [Requests -> Seq(Payload)]
      /\ seen \in [Requests -> Seq(Payload)] /\ r \in rx
      /\ caller \in [Requests -> {"new", "open", "write", "finish", "await", "ended", "dropped"}]
  BY DEF Typed, TypeOK, Shape, Counted
<1>1. Len(chan[r]) \in Nat /\ Len(seen[r]) \in Nat /\ DOMAIN chan[r] = 1..Len(chan[r])
  BY <1>0
<1>a. ASSUME NEW e \in Payload
      PROVE  /\ Len(Append(chan[r], e)) = Len(chan[r]) + 1 /\ DOMAIN Append(chan[r], e) = 1..(Len(chan[r]) + 1)
             /\ \A i \in DOMAIN chan[r] : Append(chan[r], e)[i] = chan[r][i]
             /\ Append(chan[r], e)[Len(chan[r]) + 1] = e
  BY <1>0, Pushed
<1>5. CASE Writes(r) /\ UNCHANGED <<chan, seen>>
  BY <1>0, <1>5, WritesFacts DEF Counted
<1>2. CASE Writes(r) /\ PutChunk(r)
  <2> DEFINE e == Item(r, Len(seen[r]) + 1)
  <2>1. e \in Payload /\ e.is = "data"
    BY <1>1, Payloads DEF Item
  <2>2. /\ chan'[r] = Append(chan[r], e) /\ seen'[r] = Append(seen[r], e) /\ rx' = rx
        /\ caller[r] \in {"open", "write"} /\ caller'[r] \in {"open", "write"}
    BY <1>0, <1>2, WritesFacts DEF PutChunk
  <2> HIDE DEF e
  <2>3. Len(Append(seen[r], e)) = Len(seen[r]) + 1
    BY <1>0, <2>1, Pushed
  <2>4. \A i \in DOMAIN chan[r] : chan[r][i].is # "done"
    BY <2>2 DEF Counted
  <2>5. /\ Len(chan'[r]) = Len(chan[r]) + 1 /\ Len(seen'[r]) = Len(seen[r]) + 1
        /\ \A i \in DOMAIN chan'[r] : chan'[r][i].is # "done"
    BY <1>1, <1>a, <2>1, <2>2, <2>3, <2>4
  <2>6. n + Len(chan'[r]) = Len(seen'[r])
    <3>1. n + Len(chan[r]) = Len(seen[r])
      BY <2>2 DEF Counted
    <3> QED
      BY <1>1, <2>5, <3>1
  <2> QED
    BY <1>0, <2>2, <2>5, <2>6 DEF Counted
<1>3. CASE Finish(r)
  <2> DEFINE e == IF caller[r] = "open" THEN Mark("trailer") ELSE Mark("done")
  <2>1. e \in Payload /\ e.is = (IF caller[r] = "open" THEN "trailer" ELSE "done")
    BY DEF Payload, Mark
  <2>2. /\ chan'[r] = Append(chan[r], e) /\ seen' = seen /\ rx' = rx /\ caller[r] \in {"open", "finish"}
        /\ caller'[r] = (IF caller[r] = "open" THEN "finish" ELSE "await")
    BY <1>0, <1>3 DEF Finish, Now
  <2> HIDE DEF e
  <2>3. \A i \in DOMAIN chan[r] : chan[r][i].is # "done"
    BY <2>2 DEF Counted
  <2>4. Len(chan'[r]) = Len(chan[r]) + 1
        /\ \A i \in DOMAIN chan'[r] : chan'[r][i].is = "done" => i = Len(chan'[r]) /\ caller[r] = "finish"
    BY <1>1, <1>a, <2>1, <2>2, <2>3
  <2>5. /\ caller[r] = "open" => n + Len(chan'[r]) = Len(seen'[r]) + 1
        /\ caller[r] = "finish" => n + Len(chan'[r]) = Len(seen'[r]) + 2
    <3>1. /\ caller[r] = "open" => n + Len(chan[r]) = Len(seen[r])
          /\ caller[r] = "finish" => n + Len(chan[r]) = Len(seen[r]) + 1
      BY DEF Counted
    <3>2. seen' = seen /\ Len(chan'[r]) = Len(chan[r]) + 1
      BY <2>2, <2>4
    <3>3. seen'[r] = seen[r]
      BY <3>2
    <3>4. ASSUME caller[r] = "open" PROVE n + Len(chan'[r]) = Len(seen'[r]) + 1
      BY <1>1, <3>1, <3>2, <3>3, <3>4
    <3>5. ASSUME caller[r] = "finish" PROVE n + Len(chan'[r]) = Len(seen'[r]) + 2
      BY <1>1, <3>1, <3>2, <3>3, <3>5
    <3> QED
      BY <3>4, <3>5
  <2> QED
    BY <1>0, <2>2, <2>4, <2>5 DEF Counted
<1>4. CASE Drop(r)
  <2>1. /\ seen' = seen /\ rx' = rx /\ caller[r] \in {"open", "write", "finish", "await"} /\ caller'[r] = "dropped"
        /\ chan'[r] = chan[r] \/ (caller[r] # "await" /\ chan'[r] = Append(chan[r], Mark("fail")))
    BY <1>0, <1>4 DEF Drop, Now
  <2>2. CASE chan'[r] = chan[r]
    BY <1>0, <2>1, <2>2 DEF Counted
  <2>3. CASE caller[r] # "await" /\ chan'[r] = Append(chan[r], Mark("fail"))
    <3>1. Mark("fail") \in Payload /\ Mark("fail").is = "fail"
      BY DEF Mark, Payload
    <3>2. \A i \in DOMAIN chan[r] : chan[r][i].is # "done"
      BY <2>1, <2>3 DEF Counted
    <3>3. \A i \in DOMAIN chan'[r] : chan'[r][i].is # "done"
      BY <1>1, <1>a, <2>3, <3>1, <3>2
    <3> QED
      BY <1>0, <2>1, <3>3 DEF Counted
  <2> QED
    BY <2>1, <2>2, <2>3
<1> QED
  BY <1>2, <1>3, <1>4, <1>5, WritesFacts

LEMMA CallerData ==
  ASSUME IInv, DInv, NEW r \in Requests,
         Receive(r) \/ Answered(r) \/ Writes(r) \/ Finish(r) \/ Drop(r)
  PROVE  DInv'
<1>0. UNCHANGED <<queue, kind, act, up, down, broken, mode, linked, done, result>> /\ Typed /\ Roles
  BY CallerTyped DEF IInv, Typed
<1>1. /\ \A s \in Requests : caller'[s] = "new" <=> caller[s] = "new"
      /\ \A s \in Requests : s # r => caller'[s] = caller[s] /\ seen'[s] = seen[s] /\ chan'[s] = chan[s]
      /\ rx' \subseteq rx /\ rx \ {r} \subseteq rx'
  BY <1>0, CallerMoves
<1>2. Fifo' /\ Posted' /\ Verdict' /\ Settled'
  <2>1. Fifo'
    BY <1>0, <1>1, FifoKept DEF DInv, Busy
  <2>2. Posted'
    BY <1>0, <1>1, PostedKept DEF DInv
  <2>3. Verdict'
    BY <1>0, VerdictKept DEF DInv
  <2>4. Settled'
    BY <1>0, SettledKept DEF DInv
  <2> QED
    BY <2>1, <2>2, <2>3, <2>4
<1>c. ASSUME NEW s \in Requests, NEW n \in Nat, kind[s] = "copyin", done[s] = "none", Counted(s, n)
      PROVE  Counted(s, n)'
  <2>1. CASE s # r
    BY <1>1, <1>c, <2>1, CountedKept DEF Counted
  <2>2. CASE s = r
    <3>1. Writes(r) \/ Finish(r) \/ Drop(r)
      BY <1>c, <2>2 DEF Receive, Answered, Streams
    <3> QED
      BY <1>0, <1>c, <2>2, <3>1, CountedMoves
  <2> QED
    BY <2>1, <2>2
<1>3. Queued'
  <2>1. ASSUME NEW s \in Requests, kind[s] = "copyin", NEW i \in DOMAIN queue, queue[i] = s PROVE Counted(s, 0)'
    <3>1. done[s] = "none" /\ Counted(s, 0)
      BY <2>1 DEF DInv, Fifo, Queued
    <3> QED
      BY <1>c, <2>1, <3>1
  <2>2. ASSUME NEW n \in Nat, act.at \in {"copyin", "feed"}, Counted(act.cur, n) PROVE act.cur \in Requests /\ Counted(act.cur, n)'
    <3>1. act.cur \in Requests /\ kind[act.cur] = "copyin" /\ done[act.cur] = "none"
      BY <2>2, ActorFacts, KindsOf DEF Engaged, DInv, Fifo, Busy
    <3>2. PICK s \in Requests : s = act.cur
      BY <3>1
    <3>3. Counted(s, n)'
      BY <1>c, <2>2, <3>1, <3>2
    <3> QED
      BY <1>0, <3>1, <3>2, <3>3 DEF Counted
  <2>3. act.at = "copyin" => Counted(act.cur, 0)'
    BY <2>2 DEF DInv, Queued
  <2>4. ASSUME act.at = "feed", linked, mode = "copy"
        PROVE  Counted(act.cur, Len(result[act.cur].rows) + Len(up))' /\ Unfinished(act.cur)'
    <3>1. Len(result[act.cur].rows) + Len(up) \in Nat
      <4>1. act.cur \in Requests /\ result \in [Requests -> ResultType] /\ up \in Seq(UpMsg)
        BY <2>4, ActorFacts DEF Engaged, Shape, ResultType
      <4>2. result[act.cur].rows \in Seq(Payload)
        BY <4>1 DEF ResultType
      <4> QED
        BY <4>1, <4>2
    <3>2. PICK n \in Nat : n = Len(result[act.cur].rows) + Len(up)
      BY <3>1
    <3>3. Counted(act.cur, n) /\ Unfinished(act.cur)
      BY <2>4, <3>2 DEF DInv, Queued
    <3>4. Counted(act.cur, n)'
      BY <2>2, <2>4, <3>3
    <3> QED
      BY <1>0, <3>2, <3>3, <3>4 DEF Counted, Unfinished
  <2> QED
    BY <1>0, <2>1, <2>3, <2>4 DEF Queued, DInv, Unfinished
<1>4. ASSUME NEW s \in Requests, kind[s] = "copyin", caller[s] \in {"await", "ended", "dropped"}
      PROVE  seen'[s] = seen[s] /\ caller'[s] \in {"await", "ended", "dropped"}
  <2>1. CASE s # r
    BY <1>1, <1>4, <2>1
  <2>2. CASE s = r
    <3>1. Answered(r) \/ Drop(r)
      BY <1>0, <1>4, <2>2, WritesFacts DEF Receive, Finish, Streams
    <3> QED
      BY <1>4, <2>2, <3>1 DEF Answered, Drop, Now, Typed, TypeOK, IInv
  <2> QED
    BY <2>1, <2>2
<1>5. Chunks'
  <2>1. \A i \in DOMAIN up : up[i].of \in Requests /\ (up[i].t = "copydone" => kind[up[i].of] = "copyin")
    <3>1. \A i \in DOMAIN up : up[i] \in UpMsg
      BY ActorFacts
    <3> QED
      BY <3>1 DEF UpMsg, DInv, Posted
  <2> QED
    BY <1>0, <1>4, <2>1 DEF DInv, Chunks, Unfinished
<1>6. Whole'
  BY <1>0, <1>1, <1>4 DEF DInv, Whole, Stored, Unfinished
<1> QED
  BY <1>2, <1>3, <1>5, <1>6 DEF DInv

LEMMA SubmitData ==
  ASSUME IInv, DInv, NEW r \in Requests, NEW k \in Kinds, Submit(r, k)
  PROVE  DInv'
<1>0. /\ UNCHANGED <<done, act, broken, up, down, mode, result, linked>> /\ queue' = Append(queue, r)
      /\ caller[r] = "new" /\ Typed /\ Roles /\ rx \subseteq rx'
  BY DEF Submit, server, world, IInv, Typed
<1>1. /\ \A s \in Requests : s # r => caller'[s] = caller[s] /\ kind'[s] = kind[s] /\ chan'[s] = chan[s] /\ seen'[s] = seen[s]
      /\ caller'[r] = "open" /\ kind'[r] = k
  BY DEF Typed, TypeOK, Shape, IInv, Submit, Now
<1>2. queue \in Seq(Requests) /\ \A i \in DOMAIN queue : queue[i] \in Requests /\ queue[i] # r
  BY <1>0 DEF Roles, IInv, TypeOK, Shape
<1>3. /\ DOMAIN queue' = 1..(Len(queue) + 1) /\ DOMAIN queue = 1..Len(queue) /\ Len(queue) \in Nat
      /\ \A i \in DOMAIN queue' : (i \in DOMAIN queue /\ queue'[i] = queue[i]) \/ (i = Len(queue) + 1 /\ queue'[i] = r)
  BY <1>0, <1>2
<1>4. Busy => act.cur \in Requests /\ act.cur # r
  BY <1>0 DEF Busy, Roles
<1>5. Fifo'
  <2>1. done[r] = "none"
    BY <1>0 DEF DInv, Fifo
  <2>2. \A i, j \in DOMAIN queue' : queue'[i] = queue'[j] => i = j
    BY <1>2, <1>3 DEF DInv, Fifo
  <2>3. \A i \in DOMAIN queue' : done[queue'[i]] = "none" /\ (Busy => queue'[i] # act.cur)
    BY <1>3, <1>4, <2>1 DEF DInv, Fifo
  <2>4. \A s \in Requests : caller'[s] = "new" => done[s] = "none"
    BY <1>1 DEF DInv, Fifo
  <2> QED
    BY <1>0, <2>2, <2>3, <2>4 DEF Fifo, Busy, DInv
<1>6. Posted'
  BY <1>0, <1>1, PostedKept DEF DInv
<1>7. Verdict'
  BY <1>0, <1>1, <1>4, VerdictKept DEF DInv, Busy
<1>8. Settled'
  BY <1>0, SettledKept DEF DInv
<1>c. ASSUME NEW s \in Requests, NEW n, s # r, Counted(s, n) PROVE Counted(s, n)'
  BY <1>0, <1>1, <1>c, CountedKept DEF Counted
<1>9. Queued'
  <2>1. ASSUME NEW s \in Requests, kind'[s] = "copyin", NEW i \in DOMAIN queue', queue'[i] = s PROVE Counted(s, 0)'
    <3>1. CASE i \in DOMAIN queue /\ queue'[i] = queue[i]
      <4>1. s # r /\ queue[i] = s /\ kind[s] = "copyin"
        BY <1>1, <1>2, <2>1, <3>1
      <4>2. Counted(s, 0)
        BY <3>1, <4>1 DEF DInv, Queued
      <4> QED
        BY <1>c, <4>1, <4>2
    <3>2. CASE queue'[i] = r
      <4>1. k = "copyin" /\ r \in rx'
        BY <1>1, <2>1, <3>2 DEF Submit
      <4>2. chan'[r] = <<Item(r, 1)>> /\ seen'[r] = <<Item(r, 1)>>
        BY <4>1 DEF Submit, IInv, Shape
      <4>3. Item(r, 1).is # "done"
        BY DEF Item
      <4> DEFINE one == <<Item(r, 1)>>
      <4>4. Len(one) = 1 /\ \A j \in DOMAIN one : one[j].is # "done"
        BY <4>3
      <4> HIDE DEF one
      <4>5. chan'[r] = one /\ seen'[r] = one
        BY <4>2 DEF one
      <4>6. Counted(r, 0)'
        BY <1>1, <4>1, <4>4, <4>5 DEF Counted
      <4> QED
        BY <2>1, <3>2, <4>6
    <3> QED
      BY <1>3, <3>1, <3>2
  <2>2. ASSUME NEW n, act.at \in {"copyin", "feed"}, Counted(act.cur, n) PROVE Counted(act.cur, n)'
    <3>1. PICK s \in Requests : s = act.cur /\ s # r
      BY <1>4, <2>2 DEF Busy
    <3>2. Counted(s, n)'
      BY <1>c, <2>2, <3>1
    <3> QED
      BY <1>0, <3>1, <3>2 DEF Counted
  <2>3. act.at = "copyin" => Counted(act.cur, 0)'
    BY <2>2 DEF DInv, Queued
  <2>4. ASSUME act.at = "feed", linked, mode = "copy"
        PROVE  Counted(act.cur, Len(result[act.cur].rows) + Len(up))' /\ Unfinished(act.cur)'
    <3>1. PICK n : n = Len(result[act.cur].rows) + Len(up)
      OBVIOUS
    <3>2. Counted(act.cur, n) /\ Unfinished(act.cur)
      BY <2>4, <3>1 DEF DInv, Queued
    <3>3. Counted(act.cur, n)'
      BY <2>2, <2>4, <3>2
    <3> QED
      BY <1>0, <3>1, <3>2, <3>3 DEF Counted, Unfinished
  <2> QED
    BY <1>0, <2>1, <2>3, <2>4 DEF Queued, DInv, Unfinished
<1>10. Chunks'
  <2>1. \A i \in DOMAIN up : up[i].of \in Requests /\ up[i].of # r
    <3>1. \A i \in DOMAIN up : up[i] \in UpMsg
      BY ActorFacts
    <3> QED
      BY <1>0, <3>1 DEF UpMsg, DInv, Posted
  <2>2. \A i \in DOMAIN up : /\ kind'[up[i].of] = kind[up[i].of] /\ caller'[up[i].of] = caller[up[i].of]
                             /\ seen'[up[i].of] = seen[up[i].of]
    BY <1>1, <2>1
  <2> QED
    BY <1>0, <2>2 DEF DInv, Chunks, Unfinished
<1>11. Whole'
  <2>1. result[r].end = "none"
    BY <1>0 DEF DInv, Whole
  <2> QED
    BY <1>0, <1>1, <2>1 DEF DInv, Whole, Stored, Unfinished
<1> QED
  BY <1>5, <1>6, <1>7, <1>8, <1>9, <1>10, <1>11 DEF DInv

-----------------------------------------------------------------------------
(* The actor. *)

\* What a step of a handler does to queue, results and up.
LEMMA ActorFrame ==
  ASSUME IInv, Actor
  PROVE  /\ UNCHANGED <<kind, caller, seen, lost, mode, result, linked>>
         /\ \/ TakeRequest \/ Settle
            \/ /\ UNCHANGED <<queue, done>> /\ act'.cur = act.cur /\ (Busy' <=> Busy)
               /\ act.at # "settle"
<1>0. UNCHANGED <<kind, caller, seen, lost, mode, result, linked>>
  BY DEF Actor, TakeRequest, IdleRead, ReadError, Skip, ReadServerError, ReadReady, ReadItem, Send, AbortCopy,
         CopyInBegins, CopyInFeeds, CopyFlushFails, Settle, Terminate, ActorKeeps, client, server, world
<1>a. act \in ActType
  BY ActorFacts
<1> DEFINE Goal == UNCHANGED <<queue, done>> /\ act'.cur = act.cur /\ (Busy' <=> Busy) /\ act.at # "settle"
<1>1. ASSUME IdleRead \/ Skip PROVE Goal
  BY <1>a, <1>1 DEF IdleRead, Skip, Busy, Reading
<1>2. ASSUME ReadError PROVE Goal
  BY <1>a, <1>2 DEF ReadError, FailWith, Busy, Reading, ActType
<1>3. ASSUME ReadServerError PROVE Goal
  BY <1>a, <1>3 DEF ReadServerError, Reads, Busy, Reading, ActType
<1>4. ASSUME ReadReady PROVE Goal
  <2>1. act.at \in Reading /\ UNCHANGED <<queue, done>>
    BY <1>4 DEF ReadReady, Reads
  <2>2. \/ At("exec") \/ FailWith("err") \/ At("settle")
        \/ act' = [Idle EXCEPT !.at = "prepare", !.cur = act.cur, !.attempt = 2]
    BY <1>4 DEF ReadReady
  <2>3. act'.cur = act.cur /\ act'.at \in {"exec", "settle", "prepare"}
    BY <1>a, <2>2 DEF At, FailWith, Idle, ActType
  <2> QED
    BY <2>1, <2>3 DEF Busy, Reading
<1>5. ASSUME ReadItem \/ Send PROVE Goal
  BY <1>a, <1>5 DEF ReadItem, Send, Reads, Busy, ActType
<1>6. ASSUME AbortCopy \/ CopyInBegins PROVE Goal
  BY <1>a, <1>6 DEF AbortCopy, CopyInBegins, Reads, At, Busy, ActType
<1>7. ASSUME CopyInFeeds PROVE Goal
  BY <1>a, <1>7 DEF CopyInFeeds, At, Busy, ActType
<1>8. ASSUME CopyFlushFails PROVE Goal
  BY <1>a, <1>8 DEF CopyFlushFails, FailWith, Reads, Busy, ActType
<1>9. ASSUME Terminate PROVE Goal
  BY <1>a, <1>9 DEF Terminate, Busy, ActType
<1> QED
  BY <1>0, <1>1, <1>2, <1>3, <1>4, <1>5, <1>6, <1>7, <1>8, <1>9 DEF Actor

LEMMA WholeKept ==
  ASSUME Whole, UNCHANGED <<kind, caller, seen, lost, result>>
  PROVE  Whole'
  BY DEF Whole, Stored, Unfinished

LEMMA QueuedKept ==
  ASSUME Queued, UNCHANGED <<queue, kind, caller, seen, lost, chan, rx, result, mode, linked>>,
         act'.at \notin {"copyin", "feed"} \/ (act'.at = act.at /\ act'.cur = act.cur /\ up' = up)
  PROVE  Queued'
<1>1. \A r, n : Counted(r, n) => Counted(r, n)'
  BY DEF Counted
<1>2. \A r : Unfinished(r) => Unfinished(r)'
  BY DEF Unfinished
<1>3. \A r \in Requests : kind'[r] = "copyin" /\ (\E i \in DOMAIN queue' : queue'[i] = r) => Counted(r, 0)'
  BY <1>1 DEF Queued
<1>4. CASE act'.at \notin {"copyin", "feed"}
  BY <1>3, <1>4 DEF Queued
<1>5. CASE act'.at = act.at /\ act'.cur = act.cur /\ up' = up
  BY <1>3, <1>5, ZenonT(40) DEF Queued, Counted, Unfinished
<1> QED
  BY <1>4, <1>5

LEMMA ChunksKept ==
  ASSUME Chunks, UNCHANGED <<kind, caller, seen, lost, result, mode>>, up' = up \/ mode # "copy"
  PROVE  Chunks'
  BY DEF Chunks, Unfinished

\* What is left to be read when the first reply is gone.
LEMMA Rest ==
  ASSUME down \in Seq(DownMsg), down' = down \/ (down # <<>> /\ down' = Tail(down))
  PROVE  /\ \A i \in DOMAIN down' : \E j \in DOMAIN down : down'[i] = down[j]
         /\ \A j \in DOMAIN down : (\E i \in DOMAIN down' : down'[i] = down[j]) \/ (down # <<>> /\ down' = Tail(down) /\ down[j] = Head(down))
<1>1. CASE down' = down
  BY <1>1
<1>2. CASE down # <<>> /\ down' = Tail(down)
  <2>1. /\ Head(down) = down[1] /\ Len(down) \in Nat \ {0} /\ DOMAIN down = 1..Len(down)
        /\ DOMAIN Tail(down) = 1..(Len(down) - 1)
        /\ \A i \in DOMAIN Tail(down) : i + 1 \in DOMAIN down /\ Tail(down)[i] = down[i + 1]
    BY <1>2, Popped, SMTT(30)
  <2>2. \A i \in DOMAIN down' : \E j \in DOMAIN down : down'[i] = down[j]
    BY <1>2, <2>1
  <2>3. ASSUME NEW j \in DOMAIN down, j # 1 PROVE \E i \in DOMAIN down' : down'[i] = down[j]
    <3>1. j - 1 \in DOMAIN Tail(down) /\ Tail(down)[j - 1] = down[j]
      BY <2>1, <2>3
    <3> QED
      BY <1>2, <3>1
  <2> QED
    BY <1>2, <2>1, <2>2, <2>3
<1> QED
  BY <1>1, <1>2

LEMMA VerdictReadOn ==
  ASSUME Verdict, ~Resting, Loop' = Loop, act'.cur = act.cur, UNCHANGED <<up, mode, result, linked>>,
         down \in Seq(DownMsg), down' = down \/ (down # <<>> /\ down' = Tail(down)),
         \/ act'.err # "none"
         \/ /\ act'.err = act.err
            /\ down # <<>> /\ down' = Tail(down) =>
                 /\ Head(down).t \notin {"error", "stale", "bad", "huge"}
                 /\ Loop \in {"exec", "script"} => Head(down).t \notin {"copyin", "copyout"}
  PROVE  Verdict'
<1>1. /\ \A i \in DOMAIN down' : \E j \in DOMAIN down : down'[i] = down[j]
      /\ \A j \in DOMAIN down : (\E i \in DOMAIN down' : down'[i] = down[j]) \/ (down # <<>> /\ down' = Tail(down) /\ down[j] = Head(down))
  BY Rest
<1>2. Told => Told'
  <2>1. CASE act'.err # "none"
    BY <2>1 DEF Told
  <2>2. CASE act'.err = act.err /\ act.err # "none"
    BY <2>2 DEF Told
  <2>3. CASE act'.err = "none" /\ act'.err = act.err
    <3> SUFFICES ASSUME Told PROVE Told'
      OBVIOUS
    <3>1. PICK j \in DOMAIN down : \/ down[j].t \in {"error", "stale", "bad", "huge"}
                                   \/ Loop \in {"exec", "script"} /\ down[j].t \in {"copyin", "copyout"}
      BY <2>3 DEF Told
    <3>2. \E i \in DOMAIN down' : down'[i] = down[j]
      BY <1>1, <2>3, <3>1
    <3> QED
      BY <3>1, <3>2 DEF Told
  <2> QED
    BY <2>1, <2>2, <2>3
<1>3. (\E i \in DOMAIN down' : down'[i].t = "ready") => \E i \in DOMAIN down : down[i].t = "ready"
  BY <1>1
<1>4. act'.err # "none" \/ act'.err = act.err
  OBVIOUS
<1>5. act'.err # "none" => Told'
  BY DEF Told
<1> QED
  BY <1>2, <1>3, <1>4, <1>5 DEF Verdict

\* A handler begins a new exchange.
LEMMA VerdictAtStart ==
  ASSUME Loop' \in {"prepare", "exec", "script", "copyin", "copyout"},
         \A i \in DOMAIN down' : down'[i].t = "async",
         linked' => mode' = "ready" /\ (Loop' \in {"exec", "copyout"} => Len(up') # 1)
  PROVE  Verdict'
<1>1. \A i \in DOMAIN down' : down'[i].t # "ready"
  OBVIOUS
<1> QED
  BY <1>1 DEF Verdict

\* A handler that has failed.
LEMMA FailedData ==
  ASSUME act'.at = "settle", act'.err # "none", Settled, UNCHANGED <<result, done>>
  PROVE  Verdict' /\ Settled'
  BY DEF Verdict, Settled, Resting

LEMMA SettledBusy ==
  ASSUME act'.at # "settle", Settled, UNCHANGED <<result, done>>
  PROVE  Settled'
  BY DEF Settled

\* What the handler writes.
LEMMA PostedFlushed ==
  ASSUME IInv, Posted, NEW ts \in Seq(UpTypes), NEW r \in Requests, Flushed(ts, r),
         UNCHANGED <<done, caller, kind>>, caller[r] # "new", done[r] = "none",
         \A i \in DOMAIN up : up[i].of = r,
         \A i \in DOMAIN ts :
           /\ ts[i] = "query" => kind[r] = "script"
           /\ ts[i] = "copydone" => /\ kind[r] = "copyin"
                                    /\ \A j \in DOMAIN up : up[j].t # "execute"
                                    /\ \A j \in DOMAIN ts : ts[j] # "execute"
           /\ ts[i] = "execute" => up = <<>>
  PROVE  Posted'
<1>1. CASE ~linked
  BY <1>1, PostedKept, ActorFacts DEF Flushed
<1>2. CASE linked
  <2> DEFINE b == Batch(ts, r)
  <2>1. up \in Seq(UpMsg)
    BY ActorFacts
  <2>2. /\ b \in Seq(UpMsg) /\ DOMAIN b = 1..Len(ts) /\ DOMAIN ts = 1..Len(ts)
        /\ \A i \in 1..Len(ts) : b[i].t = ts[i] /\ b[i].of = r
    BY <2>1, Batched
  <2> HIDE DEF b
  <2>3. \A i \in DOMAIN (up \o b) :
           \/ i \in DOMAIN up /\ (up \o b)[i] = up[i]
           \/ \E j \in DOMAIN ts : (up \o b)[i] = b[j]
    <3>1. \A i \in DOMAIN (up \o b) :
              IF i <= Len(up) THEN i \in DOMAIN up /\ (up \o b)[i] = up[i]
                              ELSE i - Len(up) \in DOMAIN b /\ (up \o b)[i] = b[i - Len(up)]
      BY <2>1, <2>2, Joined
    <3> QED
      BY <2>2, <3>1
  <2>4. up' = up \o b
    BY <1>2 DEF Flushed, b
  <2>5. \A i \in DOMAIN up' :
           \/ i \in DOMAIN up /\ up'[i] = up[i]
           \/ \E j \in DOMAIN ts : up'[i].t = ts[j] /\ up'[i].of = r
    BY <2>2, <2>3, <2>4
  <2>7. \A i \in DOMAIN up' : up'[i].of = r
    BY <2>5
  <2>8. ASSUME NEW i \in DOMAIN up', NEW j \in DOMAIN up', up'[i].t = "execute", up'[j].t = "copydone" PROVE FALSE
    <3>1. CASE i \in DOMAIN up /\ up'[i] = up[i]
      <4>1. up # <<>>
        BY <3>1
      <4>2. up[i].t = "execute"
        BY <2>8, <3>1
      <4>3. CASE j \in DOMAIN up /\ up'[j] = up[j]
        BY <2>8, <3>1, <4>2, <4>3 DEF Posted
      <4>4. CASE \E m \in DOMAIN ts : up'[j].t = ts[m]
        BY <2>8, <3>1, <4>2, <4>4
      <4> QED
        BY <2>5, <4>3, <4>4
    <3>2. CASE \E m \in DOMAIN ts : up'[i].t = ts[m]
      <4>1. up = <<>> /\ DOMAIN up = {}
        BY <2>8, <3>2
      <4>2. PICK n \in DOMAIN ts : up'[j].t = ts[n]
        BY <2>5, <4>1
      <4> QED
        BY <2>8, <3>2, <4>2
    <3> QED
      BY <2>5, <3>1, <3>2
  <2>9. \A i \in DOMAIN up' :
       /\ up'[i].t = "query" => kind[r] = "script"
       /\ up'[i].t = "copydone" => kind[r] = "copyin"
    BY <2>5 DEF Posted
  <2> QED
    BY <2>1, <2>7, <2>8, <2>9 DEF Posted
<1> QED
  BY <1>1, <1>2, ActorFacts DEF IInv, TypeOK

LEMMA ReadOnData ==
  ASSUME IInv, DInv, Skip \/ ReadServerError \/ ReadItem \/ Send
  PROVE  DInv'
<1>0. Actor /\ act \in ActType /\ Engaged(act) /\ Roles /\ Typed /\ down \in Seq(DownMsg)
  BY ActorFacts DEF Actor, IInv
<1>1. /\ UNCHANGED <<kind, caller, seen, lost, mode, result, linked, queue, done, up, broken, rx>>
      /\ act'.cur = act.cur /\ Busy /\ Busy' /\ ~Resting /\ act'.at # "settle"
      /\ act.cur \in Requests /\ kind[act.cur] \in KindOf[act.at]
  <2>1. UNCHANGED <<kind, caller, seen, lost, mode, result, linked, queue, done, up, broken, rx>>
    BY DEF Skip, ReadServerError, ReadItem, Send, ActorKeeps, client, channels, server, world
  <2>2. act.at \in Reading \cup {"send"}
    BY DEF Skip, ReadServerError, ReadItem, Send, Reads, Reading
  <2>3. act'.cur = act.cur /\ act'.at \in Reading \cup {"send"}
    BY <1>0, <2>2 DEF Skip, ReadServerError, ReadItem, Send, Reads, ActType, Reading
  <2>4. Busy /\ Busy' /\ ~Resting /\ act'.at # "settle"
    BY <2>2, <2>3 DEF Busy, Resting, Reading
  <2> QED
    BY <1>0, <2>1, <2>3, <2>4 DEF Engaged, Busy
<1>2. Loop' = Loop
  <2>1. CASE Skip \/ ReadServerError
    <3>1. act'.at = act.at
      BY <1>0, <2>1 DEF Skip, ReadServerError, ActType
    <3> QED
      BY <1>1, <3>1 DEF Loop
  <2>2. CASE ReadItem
    <3>1. /\ act.at \in {"exec", "copyout"} /\ act'.at \in {act.at, "send"}
      BY <1>0, <2>2 DEF ReadItem, Reads, ActType
    <3>2. act.at = "copyout" <=> kind[act.cur] = "copyout"
      BY <1>1, <3>1, KindsOf
    <3> QED
      BY <1>1, <3>1, <3>2 DEF Loop
  <2>3. CASE Send
    <3>1. act.at = "send" /\ act'.at = (IF kind[act.cur] = "copyout" THEN "copyout" ELSE "exec")
      BY <1>0, <2>3 DEF Send, ActType
    <3> QED
      BY <1>1, <3>1 DEF Loop
  <2> QED
    BY <2>1, <2>2, <2>3
<1>3. /\ down' = down \/ (down # <<>> /\ down' = Tail(down))
      /\ \/ act'.err # "none"
         \/ /\ act'.err = act.err
            /\ down # <<>> /\ down' = Tail(down) =>
                 /\ Head(down).t \notin {"error", "stale", "bad", "huge"}
                 /\ Loop \in {"exec", "script"} => Head(down).t \notin {"copyin", "copyout"}
  <2>1. CASE Skip
    <3>1. /\ act' = act /\ down # <<>> /\ down' = Tail(down) /\ act.at \in Reading
          /\ Head(down).t \notin Handled[act.at] \cup {"bad", "huge"}
      BY <2>1 DEF Skip
    <3>2. act.at = "abort" \/ Head(down).t \notin {"error", "stale", "bad", "huge"}
      BY <3>1 DEF Handled, Reading
    <3>3. Loop \in {"exec", "script"} => Head(down).t \notin {"copyin", "copyout"}
      <4>1. Loop \in {"exec", "script"} => act.at = Loop
        BY <3>1 DEF Loop, Reading
      <4> QED
        BY <3>1, <4>1 DEF Handled
    <3>4. act.at = "abort" => act.err # "none"
      <4>1. act.at = "abort" => Loop \in {"abort", "scriptabort"}
        BY DEF Loop
      <4> QED
        BY <1>1, <4>1 DEF DInv, Verdict
    <3> QED
      BY <3>1, <3>2, <3>3, <3>4
  <2>2. CASE ReadServerError
    <3>1. act'.err # "none" /\ down # <<>> /\ down' = Tail(down)
      BY <1>0, <2>2 DEF ReadServerError, Reads, ActType
    <3> QED
      BY <3>1
  <2>3. CASE ReadItem
    <3>1. /\ down # <<>> /\ down' = Tail(down) /\ Head(down).t \in {"row", "data", "trailer"}
          /\ act'.err = act.err
      BY <1>0, <2>3 DEF ReadItem, Reads, ActType
    <3> QED
      BY <3>1
  <2>4. CASE Send
    <3>1. act'.err = act.err /\ down' = down
      BY <1>0, <2>4 DEF Send, ActType
    <3>2. down' # Tail(down) \/ down = <<>>
      <4>1. down # <<>> => Len(Tail(down)) = Len(down) - 1 /\ Len(down) \in Nat
        BY <1>0, Popped
      <4>2. Len(down) \in Nat => Len(down) # Len(down) - 1
        OBVIOUS
      <4> QED
        BY <3>1, <4>1, <4>2
    <3> QED
      BY <3>1, <3>2
  <2> QED
    BY <2>1, <2>2, <2>3, <2>4
<1>4. Verdict'
  BY <1>0, <1>1, <1>2, <1>3, VerdictReadOn DEF DInv
<1>5. Fifo' /\ Posted' /\ Settled' /\ Chunks' /\ Whole'
  <2>1. Fifo'
    BY <1>1, FifoKept DEF DInv
  <2>2. Posted'
    BY <1>0, <1>1, PostedKept DEF DInv
  <2>3. Settled'
    BY <1>1, SettledBusy DEF DInv
  <2> QED
    BY <1>1, <2>1, <2>2, <2>3, ChunksKept, WholeKept DEF DInv
<1>6. Queued'
  <2>1. CASE Send
    <3>1. act'.at \notin {"copyin", "feed"} /\ kind[act.cur] # "copyin" /\ \A s \in Requests : s # act.cur => chan'[s] = chan[s]
      BY <1>0, <1>1, <2>1, KindsOf DEF Send, ActType, IInv, Shape
    <3>2. ASSUME NEW s \in Requests, kind'[s] = "copyin", \E i \in DOMAIN queue' : queue'[i] = s PROVE Counted(s, 0)'
      <4>1. s # act.cur /\ Counted(s, 0)
        BY <1>1, <3>1, <3>2 DEF DInv, Queued
      <4> QED
        BY <1>1, <3>1, <4>1, CountedKept DEF Counted
    <3> QED
      BY <3>1, <3>2 DEF Queued
  <2>2. CASE ~Send
    <3>1. UNCHANGED chan /\ (act'.at \notin {"copyin", "feed"} \/ act'.at = act.at)
      BY <1>0, <2>2 DEF Skip, ReadServerError, ReadItem, Reads, channels, ActType, Reading
    <3> QED
      BY <1>1, <3>1, QueuedKept DEF DInv
  <2> QED
    BY <2>1, <2>2
<1> QED
  BY <1>4, <1>5, <1>6 DEF DInv

LEMMA ChunksFlushed ==
  ASSUME IInv, Chunks, UNCHANGED <<kind, caller, seen, lost, result, mode>>,
         NEW ts \in Seq(UpTypes), NEW r \in Requests, Flushed(ts, r),
         linked /\ mode = "copy" =>
           /\ kind[r] = "copyin" => Unfinished(r)
           /\ \A i \in DOMAIN ts : ts[i] = "copydone" =>
                /\ i = 1 /\ Len(result[r].rows) + Len(up) = Len(seen[r]) + 1
                /\ caller[r] \in {"await", "ended", "dropped"}
                /\ \A j \in DOMAIN up : up[j].t = "copydata"
  PROVE  Chunks'
<1>1. CASE ~linked \/ mode # "copy"
  BY <1>1, ChunksKept DEF Flushed, Chunks
<1>2. CASE linked /\ mode = "copy"
  <2> DEFINE b == Batch(ts, r)
  <2>1. up \in Seq(UpMsg)
    BY ActorFacts
  <2>2. /\ b \in Seq(UpMsg) /\ DOMAIN b = 1..Len(ts) /\ DOMAIN ts = 1..Len(ts)
        /\ \A i \in 1..Len(ts) : b[i].t = ts[i] /\ b[i].of = r
    BY Batched
  <2>3. up' = up \o b
    BY <1>2 DEF Flushed
  <2> HIDE DEF b
  <2>4. /\ \A i \in DOMAIN (up \o b) :
              IF i <= Len(up) THEN i \in DOMAIN up /\ (up \o b)[i] = up[i]
                              ELSE i - Len(up) \in DOMAIN b /\ (up \o b)[i] = b[i - Len(up)]
        /\ DOMAIN (up \o b) = 1..(Len(up) + Len(b)) /\ Len(up) \in Nat /\ DOMAIN up = 1..Len(up)
    BY <2>1, <2>2, Joined
  <2>5. \A i \in DOMAIN up' :
              IF i <= Len(up) THEN i \in DOMAIN up /\ up'[i] = up[i]
                              ELSE i - Len(up) \in DOMAIN ts /\ up'[i].t = ts[i - Len(up)] /\ up'[i].of = r
    BY <2>2, <2>3, <2>4
  <2>6. \A i \in DOMAIN up' : i \in Nat
    BY <2>3, <2>4
  <2>7. ASSUME NEW i \in DOMAIN up'
        PROVE  /\ kind[up'[i].of] = "copyin" => Unfinished(up'[i].of)
               /\ up'[i].t = "copydone" =>
                    /\ Len(result[up'[i].of].rows) + i = Len(seen[up'[i].of]) + 2
                    /\ caller[up'[i].of] \in {"await", "ended", "dropped"}
                    /\ \A j \in DOMAIN up' : j < i => up'[j].t = "copydata"
    <3>1. CASE i <= Len(up)
      <4>1. i \in DOMAIN up /\ up'[i] = up[i]
        BY <2>5, <3>1
      <4>2. \A j \in DOMAIN up' : j < i => j \in DOMAIN up /\ up'[j] = up[j]
        BY <2>4, <2>5, <2>6, <3>1
      <4> QED
        BY <1>2, <4>1, <4>2 DEF Chunks
    <3>2. CASE ~(i <= Len(up))
      <4>1. i - Len(up) \in DOMAIN ts /\ up'[i].t = ts[i - Len(up)] /\ up'[i].of = r
        BY <2>5, <3>2
      <4>2. ASSUME up'[i].t = "copydone"
            PROVE  /\ Len(result[r].rows) + i = Len(seen[r]) + 2
                   /\ caller[r] \in {"await", "ended", "dropped"}
                   /\ \A j \in DOMAIN up' : j < i => up'[j].t = "copydata"
        <5>1. /\ i - Len(up) = 1 /\ Len(result[r].rows) + Len(up) = Len(seen[r]) + 1
              /\ caller[r] \in {"await", "ended", "dropped"} /\ \A j \in DOMAIN up : up[j].t = "copydata"
          BY <1>2, <4>1, <4>2
        <5>2. i = Len(up) + 1
          BY <2>4, <2>6, <5>1
        <5>3. Len(result[r].rows) \in Nat /\ Len(seen[r]) \in Nat
          <6>1. result[r].rows \in Seq(Payload) /\ seen[r] \in Seq(Payload)
            BY DEF IInv, Shape
          <6> QED
            BY <6>1
        <5>4. \A j \in DOMAIN up' : j < i => j \in DOMAIN up /\ up'[j] = up[j]
          BY <2>4, <2>5, <2>6, <5>2
        <5>5. Len(result[r].rows) + i = Len(seen[r]) + 2
          <6>1. PICK a \in Nat, d \in Nat, c \in Nat : a = Len(result[r].rows) /\ d = Len(up) /\ c = Len(seen[r])
            BY <2>4, <5>3
          <6>2. a + d = c + 1 /\ i = d + 1
            BY <5>1, <5>2, <6>1
          <6>3. a + (d + 1) = c + 2
            BY <6>2
          <6> QED
            BY <6>1, <6>2, <6>3
        <5> QED
          BY <5>1, <5>4, <5>5
      <4> QED
        BY <1>2, <4>1, <4>2
    <3> QED
      BY <3>1, <3>2
  <2> QED
    BY <2>7 DEF Chunks, Unfinished
<1> QED
  BY <1>1, <1>2 DEF IInv, TypeOK

LEMMA RestData ==
  ASSUME IInv, DInv, IdleRead \/ Terminate \/ ReadError \/ CopyFlushFails
  PROVE  DInv'
<1>0. Actor /\ act \in ActType /\ Typed
  BY ActorFacts DEF Actor
<1>1. UNCHANGED <<kind, caller, seen, lost, mode, result, linked, queue, done, up, chan, rx>>
  BY DEF IdleRead, Terminate, ReadError, CopyFlushFails, FlushFails, ActorKeeps, client, channels, server, world
<1>2. \/ act'.at \in {"idle", "stopped"} /\ ~Busy
      \/ act'.at = "settle" /\ act'.err = "err" /\ act'.cur = act.cur /\ Busy
  BY <1>0 DEF IdleRead, Terminate, ReadError, CopyFlushFails, FailWith, ActType, Busy, Reads, Reading
<1>3. (Busy' <=> Busy) /\ (Busy => act'.cur = act.cur) /\ act'.at \notin {"copyin", "feed"}
  BY <1>2 DEF Busy
<1>4. Verdict' /\ Settled'
  <2>1. CASE act'.at = "settle" /\ act'.err = "err"
    BY <1>1, <2>1, FailedData DEF DInv
  <2>2. CASE act'.at \in {"idle", "stopped"}
    BY <1>1, <2>2, SettledBusy DEF DInv, Verdict, Resting
  <2> QED
    BY <1>2, <2>1, <2>2
<1>5. Fifo' /\ Posted'
  BY <1>0, <1>1, <1>3, FifoKept, PostedKept DEF DInv
<1> QED
  BY <1>1, <1>3, <1>4, <1>5, QueuedKept, ChunksKept, WholeKept DEF DInv

LEMMA AbortCopyData ==
  ASSUME IInv, DInv, AbortCopy
  PROVE  DInv'
<1>0. Actor /\ act \in ActType /\ Typed /\ Engaged(act) /\ Tagged
  BY ActorFacts DEF Actor
<1>1. /\ UNCHANGED <<kind, caller, seen, lost, mode, result, linked, queue, done, chan, rx, broken>>
      /\ act.at \in {"exec", "script"} /\ act'.at = "abort" /\ act'.err = "err" /\ act'.cur = act.cur
  BY <1>0 DEF AbortCopy, Reads, ActorKeeps, client, channels, server, world, ActType
<1>2. Busy /\ Busy' /\ ~broken /\ act.cur \in Requests /\ caller[act.cur] # "new" /\ kind[act.cur] # "copyin"
  <2>1. ~Resting => ~broken
    BY ActorFacts
  <2> QED
    BY <1>0, <1>1, <2>1, KindsOf DEF Busy, Resting, Engaged
<1>3. Verdict' /\ Settled'
  <2>1. Loop' \in {"abort", "scriptabort"}
    BY <1>1 DEF Loop
  <2> QED
    BY <1>1, <2>1, SettledBusy DEF Verdict, DInv
<1>4. Posted' /\ Chunks'
  <2>1. up' = up \/ Flushed(<<"copyfail", "sync">>, act.cur) \/ Flushed(<<"copyfail">>, act.cur)
    BY DEF AbortCopy
  <2>2. CASE up' = up
    BY <1>0, <1>1, <2>2, PostedKept, ChunksKept DEF DInv
  <2>3. ASSUME NEW ts \in {<<"copyfail", "sync">>, <<"copyfail">>}, Flushed(ts, act.cur) PROVE Posted' /\ Chunks'
    <3>1. ts \in Seq(UpTypes)
      BY Writings
    <3>2. \A i \in DOMAIN ts : ts[i] \in {"copyfail", "sync"}
      <4>1. CASE ts = <<"copyfail">>
        BY <4>1
      <4>2. CASE ts = <<"copyfail", "sync">>
        <5>1. DOMAIN ts = {1, 2} /\ ts[1] = "copyfail" /\ ts[2] = "sync"
          BY <4>2
        <5> QED
          BY <5>1
      <4> QED
        BY <4>1, <4>2
    <3>3. done[act.cur] = "none" /\ \A i \in DOMAIN up : up[i].of = act.cur
      BY <1>0, <1>2 DEF DInv, Fifo, Tagged
    <3>4. Posted'
      BY <1>1, <1>2, <2>3, <3>1, <3>2, <3>3, PostedFlushed DEF DInv
    <3>5. Chunks'
      BY <1>1, <1>2, <2>3, <3>1, <3>2, ChunksFlushed DEF DInv
    <3> QED
      BY <3>4, <3>5
  <2> QED
    BY <2>1, <2>2, <2>3
<1>5. Fifo' /\ Queued' /\ Whole'
  BY <1>1, <1>2, FifoKept, QueuedKept, WholeKept DEF DInv
<1> QED
  BY <1>3, <1>4, <1>5 DEF DInv

LEMMA SettleData ==
  ASSUME IInv, DInv, Settle
  PROVE  DInv'
<1> DEFINE r == act.cur
<1>0. act \in ActType /\ Typed /\ Engaged(act) /\ broken \in BOOLEAN
  BY ActorFacts
<1>1. /\ UNCHANGED <<kind, caller, seen, lost, mode, result, linked, queue, up, broken>>
      /\ act.at = "settle" /\ act'.at = "idle"
      /\ done' = [done EXCEPT ![r] = IF act.err = "none" THEN "ok" ELSE "err"]
  BY DEF Settle, ActorKeeps, client, server, world, Idle
<1>2. Busy /\ ~Busy' /\ Resting /\ Resting' /\ r \in Requests /\ caller[r] # "new"
  BY <1>0, <1>1 DEF Busy, Resting, Engaged
<1>3. /\ \A s \in Requests : s # r => done'[s] = done[s] /\ chan'[s] = chan[s] /\ (s \in rx => s \in rx')
      /\ done'[r] = "ok" => act.err = "none"
  <2>1. \A s \in Requests : s # r => chan'[s] = chan[s] /\ (s \in rx => s \in rx')
    BY <1>2 DEF Settle, Release, IInv, Shape
  <2>2. (\A s \in Requests : s # r => done'[s] = done[s]) /\ (done'[r] = "ok" => act.err = "none")
    BY <1>1, <1>2 DEF IInv, TypeOK
  <2> QED
    BY <2>1, <2>2
<1>4. act.err = "none" => up = <<>> /\ result[r].end = "complete"
  BY <1>1, <1>2 DEF DInv, Settled, IInv, Wire, UpShape
<1>5. \A i \in DOMAIN queue : queue[i] \in Requests /\ queue[i] # r
  BY <1>2 DEF DInv, Fifo, IInv, TypeOK
<1>6. Fifo'
  BY <1>1, <1>2, <1>3, <1>5 DEF DInv, Fifo
<1>7. Posted'
  <2>1. \A i \in DOMAIN up : up[i].of \in Requests
    <3>1. \A i \in DOMAIN up : up[i] \in UpMsg
      BY ActorFacts
    <3> QED
      BY <3>1 DEF UpMsg
  <2>2. up = <<>> => DOMAIN up = {}
    OBVIOUS
  <2>3. \A i \in DOMAIN up : done'[up[i].of] = "ok" => done[up[i].of] = "ok"
    BY <1>3, <1>4, <2>1, <2>2
  <2> QED
    BY <1>0, <1>1, <2>3, PostedKept DEF DInv
<1>8. Verdict' /\ Settled'
  BY <1>1, <1>2, <1>3, <1>4 DEF DInv, Verdict, Settled
<1>9. Queued'
  <2>1. ASSUME NEW s \in Requests, kind'[s] = "copyin", \E i \in DOMAIN queue' : queue'[i] = s PROVE Counted(s, 0)'
    <3>1. s # r /\ Counted(s, 0)
      BY <1>1, <1>5, <2>1 DEF DInv, Queued
    <3> QED
      BY <1>1, <1>3, <3>1, CountedKept DEF Counted
  <2> QED
    BY <1>1, <2>1 DEF Queued
<1>10. Chunks' /\ Whole'
  BY <1>1, ChunksKept, WholeKept DEF DInv
<1> QED
  BY <1>6, <1>7, <1>8, <1>9, <1>10 DEF DInv

\* A handler writes its first messages, with nothing left of an earlier exchange.
LEMMA StartData ==
  ASSUME IInv, Posted, Chunks, Settled, UNCHANGED <<kind, caller, seen, lost, result, mode, linked, done>>,
         up = <<>>, linked => mode = "ready", \A i \in DOMAIN down' : down'[i].t = "async",
         NEW p \in DOMAIN Sent, NEW r \in Requests, kind[r] \in KindOf[p], caller[r] # "new", done[r] = "none",
         act'.at = p, act'.cur = r, Flushed(Sent[p], r)
  PROVE  Posted' /\ Verdict' /\ Settled' /\ Chunks'
<1>1. Sent[p] \in Seq(UpTypes)
  BY SentBy, Writings
<1>2. p \in {"prepare", "exec", "script", "copyin", "copyout"} /\ Loop' = p
  <2>1. p \in {"prepare", "exec", "script", "copyin", "copyout"}
    BY SentBy
  <2> QED
    BY <2>1 DEF Loop
<1>3. \A i \in DOMAIN Sent[p] : Sent[p][i] # "copydone" /\ (Sent[p][i] = "query" => kind[r] = "script")
  <2>1. CASE p \in {"prepare", "exec", "copyin"}
    <3>1. /\ Sent[p] \in {<<"parse", "describe", "sync">>, <<"bind", "execute", "sync">>, <<"parse", "bind", "execute">>}
      BY <2>1, SentBy
    <3>2. DOMAIN Sent[p] = {1, 2, 3} /\ \A i \in {1, 2, 3} : Sent[p][i] \in {"parse", "describe", "sync", "bind", "execute"}
      BY <3>1
    <3> QED
      BY <3>2
  <2>2. CASE p = "copyout"
    <3>1. Sent[p] = <<"parse", "bind", "execute", "sync">>
      BY <2>2, SentBy
    <3>2. DOMAIN Sent[p] = {1, 2, 3, 4} /\ \A i \in {1, 2, 3, 4} : Sent[p][i] \in {"parse", "describe", "sync", "bind", "execute"}
      BY <3>1
    <3> QED
      BY <3>2
  <2>3. CASE p = "script"
    <3>1. Sent[p] = <<"query">> /\ kind[r] = "script"
      BY <2>3, SentBy, KindsOf
    <3>2. DOMAIN Sent[p] = {1} /\ Sent[p][1] = "query"
      BY <3>1
    <3> QED
      BY <3>1, <3>2
  <2> QED
    BY <1>2, <2>1, <2>2, <2>3
<1>4. DOMAIN up = {}
  OBVIOUS
<1>5. Posted'
  BY <1>1, <1>3, <1>4, PostedFlushed
<1>6. Chunks'
  BY <1>1, ChunksFlushed
<1>7. linked /\ p \in {"exec", "copyout"} => Len(up') # 1
  <2> SUFFICES ASSUME linked, p \in {"exec", "copyout"} PROVE Len(up') # 1
    OBVIOUS
  <2>1. Len(Sent[p]) \in {3, 4}
    <3>1. Sent[p] = <<"bind", "execute", "sync">> \/ Sent[p] = <<"parse", "bind", "execute", "sync">>
      BY SentBy
    <3> QED
      BY <3>1
  <2>2. up' = up \o Batch(Sent[p], r) /\ Batch(Sent[p], r) \in Seq(UpMsg) /\ Len(Batch(Sent[p], r)) = Len(Sent[p])
    BY <1>1, Batched DEF Flushed
  <2>3. up' = Batch(Sent[p], r)
    BY <2>2
  <2>4. Len(up') = Len(Sent[p])
    BY <2>2, <2>3
  <2>5. 3 # 1 /\ 4 # 1
    OBVIOUS
  <2> QED
    BY <2>1, <2>4, <2>5
<1>8. Verdict'
  BY <1>2, <1>7, VerdictAtStart
<1>9. Settled'
  BY <1>2, SettledBusy
<1> QED
  BY <1>5, <1>6, <1>8, <1>9

\* A request fails before it has begun: a query only on a broken connection.
Fails(r) == \E e \in {"err", "refused"} : FailRequest(r, e) /\ (kind[r] = "fetch" => e = "refused")

\* What becomes of the request that is taken.
LEMMA TakenRequest ==
  ASSUME IInv, TakeRequest, NEW r, r = Head(queue)
  PROVE  \/ Fails(r) /\ up' = up
         \/ /\ ~broken /\ UNCHANGED <<channels, done>>
            /\ \E p \in DOMAIN Sent : kind[r] \in KindOf[p] /\ act'.at = p /\ act'.cur = r /\ Flushed(Sent[p], r)
         \/ ~broken /\ UNCHANGED <<channels, done, up>> /\ act'.at = "settle" /\ act'.cur = r /\ act'.err = "err"
<1>1. r \in Requests /\ kind[r] \in AllKinds
  BY Popped DEF TakeRequest, IInv, Shape, Roles
<1>2. CASE broken
  BY <1>2 DEF TakeRequest, Fails
<1>3. CASE ~broken /\ kind[r] \in DOMAIN Opening /\ Open(r, kind[r])
  <2>1. kind[r] \in DOMAIN Sent /\ Sent[kind[r]] = Opening[kind[r]] /\ kind[r] \in KindOf[kind[r]]
    BY <1>3, KindsOf, SentBy DEF Opening
  <2>2. CASE /\ Flushed(Opening[kind[r]], r)
             /\ act' = [Idle EXCEPT !.at = kind[r], !.cur = r]
             /\ UNCHANGED <<channels, done, broken>>
    <3>1. act'.at = kind[r] /\ act'.cur = r
      BY <2>2 DEF Idle
    <3> QED
      BY <1>3, <2>1, <2>2, <3>1
  <2>5. kind[r] # "fetch"
    BY <1>3 DEF Opening
  <2>3. CASE FlushFails(FALSE) /\ FailRequest(r, "err")
    BY <2>3, <2>5 DEF FlushFails, Fails
  <2>4. CASE NotEncoded /\ MarkBroken /\ FailRequest(r, "err")
    BY <2>4, <2>5 DEF NotEncoded, Fails
  <2> QED
    BY <1>3, <2>2, <2>3, <2>4 DEF Open
<1>4. CASE ~broken /\ kind[r] \notin DOMAIN Opening /\ Attempt(r, 1) /\ UNCHANGED <<channels, done>>
  <2>1. kind[r] \in KindOf["prepare"] /\ kind[r] \in KindOf["exec"]
    BY <1>1, <1>4, KindsOf DEF Opening, AllKinds, Streams
  <2>2. CASE /\ Flushed(<<"bind", "execute", "sync">>, r)
             /\ act' = [Idle EXCEPT !.at = "exec", !.cur = r, !.attempt = 1]
    <3>1. act'.at = "exec" /\ act'.cur = r
      BY <2>2 DEF Idle
    <3> QED
      BY <1>4, <2>1, <2>2, <3>1, SentBy
  <2>3. CASE /\ Flushed(<<"parse", "describe", "sync">>, r)
             /\ act' = [Idle EXCEPT !.at = "prepare", !.cur = r, !.attempt = 1]
    <3>1. act'.at = "prepare" /\ act'.cur = r
      BY <2>3 DEF Idle
    <3> QED
      BY <1>4, <2>1, <2>3, <3>1, SentBy
  <2>4. CASE /\ FlushFails(FALSE) \/ FlushFails(TRUE) \/ (NotEncoded /\ UNCHANGED broken)
             /\ act' = [Idle EXCEPT !.at = "settle", !.cur = r, !.err = "err"]
    <3>1. act'.at = "settle" /\ act'.cur = r /\ act'.err = "err" /\ up' = up
      BY <2>4 DEF Idle, FlushFails, NotEncoded
    <3> QED
      BY <1>4, <3>1
  <2> QED
    BY <1>4, <2>2, <2>3, <2>4 DEF Attempt
<1> QED
  BY <1>2, <1>3, <1>4 DEF TakeRequest

LEMMA TakeRequestData ==
  ASSUME IInv, DInv, TakeRequest
  PROVE  DInv'
<1>0. PICK r : r = Head(queue)
  OBVIOUS
<1>1. /\ UNCHANGED <<down, kind, caller, seen, lost, mode, result, linked>>
      /\ queue \in Seq(Requests) /\ queue # <<>> /\ queue' = Tail(queue) /\ act.at = "idle" /\ Resting /\ ~Busy
  BY DEF TakeRequest, ActorKeeps, client, server, world, Resting, Busy, IInv, Shape
<1>2. /\ r = queue[1] /\ r \in Requests /\ 1 \in DOMAIN queue /\ Len(queue) \in Nat \ {0}
      /\ \A i \in DOMAIN queue' : i \in Nat /\ i > 0 /\ i + 1 \in DOMAIN queue /\ queue'[i] = queue[i + 1]
  BY <1>0, <1>1, Popped
<1>3. caller[r] # "new" /\ done[r] = "none" /\ \A i \in DOMAIN queue' : queue'[i] # r
  <2>1. caller[r] # "new" /\ done[r] = "none"
    BY <1>2 DEF IInv, Roles, DInv, Fifo
  <2>2. ASSUME NEW i \in DOMAIN queue' PROVE queue'[i] # r
    <3>1. i + 1 \in DOMAIN queue /\ queue'[i] = queue[i + 1] /\ i + 1 # 1
      BY <1>2
    <3> QED
      BY <1>2, <3>1 DEF DInv, Fifo
  <2> QED
    BY <2>1, <2>2
<1>4. /\ \A i, j \in DOMAIN queue' : queue'[i] = queue'[j] => i = j
      /\ \A i \in DOMAIN queue' : queue'[i] \in Requests /\ done[queue'[i]] = "none"
      /\ \A i \in DOMAIN queue' : \E j \in DOMAIN queue : queue[j] = queue'[i]
  <2>1. ASSUME NEW i \in DOMAIN queue', NEW j \in DOMAIN queue', queue'[i] = queue'[j] PROVE i = j
    <3>1. i \in Nat /\ j \in Nat /\ i + 1 \in DOMAIN queue /\ j + 1 \in DOMAIN queue /\ queue[i + 1] = queue[j + 1]
      BY <1>2, <2>1
    <3>2. i + 1 = j + 1
      BY <3>1 DEF DInv, Fifo
    <3> QED
      BY <3>1, <3>2
  <2>2. \A i \in DOMAIN queue' : queue'[i] \in Requests /\ done[queue'[i]] = "none"
    BY <1>2 DEF DInv, Fifo, IInv, TypeOK
  <2> QED
    BY <1>2, <2>1, <2>2
<1>5. Whole'
  BY <1>1, WholeKept DEF DInv
<1>6. ASSUME UNCHANGED <<channels, done>>, act'.cur = r, act'.at \notin {"idle", "stopped", "feed"},
             act'.at = "copyin" => kind[r] = "copyin" /\ (linked => mode = "ready")
      PROVE  Fifo' /\ Queued'
  <2>1. Fifo'
    BY <1>1, <1>3, <1>4, <1>6 DEF DInv, Fifo, Busy
  <2>2. \A s, n : Counted(s, n) => Counted(s, n)'
    BY <1>1, <1>6 DEF Counted, channels
  <2>3. \A s \in Requests : kind[s] = "copyin" /\ (\E i \in DOMAIN queue : queue[i] = s) => Counted(s, 0)
    BY DEF DInv, Queued
  <2>4. act'.at = "copyin" => Counted(r, 0)'
    BY <1>2, <1>6, <2>2, <2>3
  <2>5. act'.at = "copyin" => Counted(act.cur, 0)'
    BY <1>6, <2>4 DEF Counted
  <2>6. \A s \in Requests : kind'[s] = "copyin" /\ (\E i \in DOMAIN queue' : queue'[i] = s) => Counted(s, 0)'
    BY <1>1, <1>4, <2>2, <2>3
  <2> QED
    BY <1>1, <1>6, <2>1, <2>5, <2>6 DEF Queued
<1>7. CASE Fails(r) /\ up' = up
  <2>0. PICK e \in {"err", "refused"} : FailRequest(r, e)
    BY <1>7 DEF Fails
  <2>1. /\ done' = [done EXCEPT ![r] = e] /\ act' = act
        /\ \A s \in Requests : s # r => chan'[s] = chan[s] /\ (s \in rx => s \in rx')
    BY <1>2, <2>0 DEF FailRequest, Release, IInv, Shape
  <2>2. done'[r] \in {"err", "refused"} /\ \A s \in Requests : s # r => done'[s] = done[s]
    BY <1>2, <2>1 DEF IInv, TypeOK
  <2>3. Fifo'
    BY <1>1, <1>3, <1>4, <2>1, <2>2 DEF DInv, Fifo, Busy
  <2>4. Posted'
    <3>1. \A i \in DOMAIN up : up[i].of \in Requests
      <4>1. \A i \in DOMAIN up : up[i] \in UpMsg
        BY ActorFacts
      <4> QED
        BY <4>1 DEF UpMsg
    <3>2. \A i \in DOMAIN up : done'[up[i].of] = "ok" => done[up[i].of] = "ok"
      BY <2>2, <3>1
    <3> QED
      BY <1>1, <1>7, <3>2, ActorFacts, PostedKept DEF DInv
  <2>5. Verdict' /\ Settled'
    BY <1>1, <1>2, <2>1, <2>2 DEF DInv, Verdict, Settled, Resting
  <2>6. Queued'
    <3>1. ASSUME NEW s \in Requests, kind'[s] = "copyin", \E i \in DOMAIN queue' : queue'[i] = s PROVE Counted(s, 0)'
      <4>1. s # r /\ Counted(s, 0)
        BY <1>1, <1>3, <1>4, <3>1 DEF DInv, Queued
      <4> QED
        BY <1>1, <2>1, <4>1, CountedKept DEF Counted
    <3> QED
      BY <1>1, <2>1, <3>1 DEF Queued
  <2>7. Chunks'
    BY <1>1, <1>7, ChunksKept DEF DInv
  <2> QED
    BY <1>5, <2>3, <2>4, <2>5, <2>6, <2>7 DEF DInv
<1>a. ~broken => up = <<>> /\ (linked => mode = "ready") /\ \A i \in DOMAIN down' : down'[i].t = "async"
  BY <1>1, AtRest
<1>8. ASSUME ~broken, UNCHANGED <<channels, done>>,
             NEW p \in DOMAIN Sent, kind[r] \in KindOf[p], act'.at = p, act'.cur = r, Flushed(Sent[p], r)
      PROVE  DInv'
  <2>1. Posted' /\ Verdict' /\ Settled' /\ Chunks'
    BY <1>1, <1>2, <1>3, <1>8, <1>a, StartData DEF DInv
  <2>2. act'.at \notin {"idle", "stopped", "feed"} /\ (act'.at = "copyin" => kind[r] = "copyin" /\ (linked => mode = "ready"))
    BY <1>8, <1>a, SentBy, KindsOf
  <2> QED
    BY <1>5, <1>6, <1>8, <2>1, <2>2 DEF DInv
<1>9. CASE ~broken /\ UNCHANGED <<channels, done, up>> /\ act'.at = "settle" /\ act'.cur = r /\ act'.err = "err"
  <2>1. Fifo' /\ Queued'
    BY <1>6, <1>9
  <2>2. Verdict' /\ Settled'
    BY <1>1, <1>9, FailedData DEF DInv
  <2>3. Posted' /\ Chunks'
    BY <1>1, <1>9, ActorFacts, PostedKept, ChunksKept DEF DInv
  <2> QED
    BY <1>5, <2>1, <2>2, <2>3 DEF DInv
<1> QED
  BY <1>0, <1>7, <1>8, <1>9, TakenRequest

LEMMA ReadReadyData ==
  ASSUME IInv, DInv, ReadReady
  PROVE  DInv'
<1>0. Actor /\ act \in ActType /\ Engaged(act) /\ Typed
  BY ActorFacts DEF Actor
<1>1. /\ UNCHANGED <<kind, caller, seen, lost, mode, result, linked, queue, done, chan, rx>>
      /\ act.at \in Reading \ {"copyin"} /\ ~Resting /\ Busy
      /\ down # <<>> /\ down' = Tail(down) /\ Head(down).t = "ready"
  BY DEF ReadReady, Reads, ActorKeeps, client, channels, server, world, Resting, Reading, Busy
<1>2. up = <<>> /\ mode = "ready" /\ \A i \in DOMAIN down' : down'[i].t = "async"
  BY <1>1, ReadyIsLast
<1>3. /\ act.cur \in Requests /\ caller[act.cur] # "new" /\ kind[act.cur] \in KindOf[act.at] /\ ~broken
      /\ done[act.cur] = "none"
  BY <1>0, <1>1, ActorFacts DEF Engaged, DInv, Fifo, Busy
<1>4. \A i \in DOMAIN down : down[i].t \in {"ready", "async"}
  <2>1. ASSUME NEW j \in DOMAIN down PROVE down[j].t \in {"ready", "async"}
    <3>1. (\E i \in DOMAIN down' : down'[i] = down[j]) \/ down[j] = Head(down)
      BY <1>1, Rest, ActorFacts
    <3> QED
      BY <1>1, <1>2, <3>1
  <2> QED
    BY <2>1
<1>5. act.err = "none" /\ act.at # "prepare" => result[act.cur].end = "complete"
  <2> SUFFICES ASSUME act.err = "none", act.at # "prepare" PROVE result[act.cur].end = "complete"
    OBVIOUS
  <2>1. ~Told
    BY <1>4 DEF Told
  <2>2. Loop \in {"exec", "copyout", "drain", "script", "abort", "scriptabort"}
    BY <1>1 DEF Loop, Reading
  <2>3. \E i \in DOMAIN down : down[i].t = "ready"
    BY <1>1, Popped, ActorFacts
  <2> QED
    BY <1>1, <2>1, <2>2, <2>3 DEF DInv, Verdict
<1>6. /\ act'.cur = act.cur
      /\ \/ /\ act.at \in {"prepare", "exec"} /\ act'.at \in {"prepare", "exec"}
            /\ Flushed(Sent[act'.at], act.cur)
         \/ act'.at = "settle" /\ act'.err = "err" /\ up' = up
         \/ /\ act'.at = "settle" /\ act'.err = act.err /\ UNCHANGED <<up, broken>>
            /\ act.at = "prepare" => act.err # "none"
  <2>1. CASE /\ act.at = "prepare" /\ act.err = "none"
             /\ \/ Flushed(<<"bind", "execute", "sync">>, act.cur) /\ At("exec")
                \/ /\ FlushFails(FALSE) \/ (NotEncoded /\ UNCHANGED broken)
                   /\ FailWith("err")
    BY <1>0, <2>1, SentBy DEF At, FailWith, FlushFails, NotEncoded, ActType
  <2>2. CASE /\ act.at \in {"prepare", "exec"} /\ ShouldRetry
             /\ \/ /\ Flushed(<<"parse", "describe", "sync">>, act.cur)
                   /\ act' = [Idle EXCEPT !.at = "prepare", !.cur = act.cur, !.attempt = 2]
                \/ FlushFails(TRUE) /\ FailWith("err")
    BY <1>0, <2>2, SentBy DEF FailWith, FlushFails, ActType, Idle
  <2>3. CASE (act.at = "prepare" => act.err # "none") /\ At("settle") /\ UNCHANGED <<broken, up>>
    BY <1>0, <2>3 DEF At, ActType
  <2> QED
    BY <2>1, <2>2, <2>3 DEF ReadReady
<1>7. Fifo' /\ Whole' /\ Queued'
  <2>1. Busy' /\ act'.at \notin {"copyin", "feed"}
    BY <1>6 DEF Busy
  <2> QED
    BY <1>1, <1>6, <2>1, FifoKept, WholeKept, QueuedKept DEF DInv
<1>8. CASE act.at \in {"prepare", "exec"} /\ act'.at \in {"prepare", "exec"} /\ Flushed(Sent[act'.at], act.cur)
  <2>1. kind[act.cur] \in KindOf[act'.at] /\ act'.at \in DOMAIN Sent
    BY <1>3, <1>8, KindsOf, SentBy
  <2>2. Posted' /\ Verdict' /\ Settled' /\ Chunks'
    BY <1>1, <1>2, <1>3, <1>6, <1>8, <2>1, StartData DEF DInv
  <2> QED
    BY <1>7, <2>2 DEF DInv
<1>9. CASE act'.at = "settle" /\ up' = up
  <2>1. Posted' /\ Chunks'
    BY <1>0, <1>1, <1>9, PostedKept, ChunksKept DEF DInv
  <2>2. Verdict' /\ Settled'
    <3>1. CASE act'.err # "none"
      BY <1>1, <1>9, <3>1, FailedData DEF DInv
    <3>2. CASE act'.err = "none"
      <4>1. act.err = "none" /\ act.at # "prepare" /\ broken' = broken
        BY <1>6, <1>9, <3>2
      <4> QED
        BY <1>1, <1>3, <1>5, <1>6, <1>9, <4>1 DEF DInv, Verdict, Settled, Resting
    <3> QED
      BY <3>1, <3>2
  <2> QED
    BY <1>7, <2>1, <2>2 DEF DInv
<1> QED
  BY <1>6, <1>8, <1>9

LEMMA CopyInBeginsData ==
  ASSUME IInv, DInv, CopyInBegins
  PROVE  DInv'
<1>0. Actor /\ act \in ActType /\ Engaged(act) /\ Typed /\ Wire /\ down \in Seq(DownMsg)
  BY ActorFacts DEF Actor
<1>1. /\ UNCHANGED <<kind, caller, seen, lost, mode, result, linked, queue, done, chan, rx, broken>>
      /\ act.at = "copyin" /\ down # <<>> /\ down' = Tail(down) /\ act'.cur = act.cur
      /\ \/ Head(down).t = "copyin" /\ act'.at = "feed" /\ up' = up
         \/ /\ Head(down).t \in {"error", "stale"} /\ act'.at = "drain" /\ act'.err = "err"
            /\ Flushed(<<"sync">>, act.cur)
  BY <1>0 DEF CopyInBegins, Reads, At, ActorKeeps, client, channels, server, world, ActType
<1>2. Busy /\ Busy' /\ ~Resting /\ ~Resting' /\ ~broken /\ act'.at # "settle" /\ Loop = "copyin" /\ Loop' = act'.at
  <2>1. ~Resting => ~broken
    BY ActorFacts
  <2> QED
    BY <1>1, <2>1 DEF Busy, Resting, Loop
<1>3. /\ act.cur \in Requests /\ caller[act.cur] # "new" /\ done[act.cur] = "none"
      /\ \A i \in DOMAIN up : up[i].of = act.cur
  BY <1>0, <1>1, <1>2 DEF Engaged, DInv, Fifo, Wire, Tagged
<1>4. 1 \in DOMAIN down /\ Head(down) = down[1] /\ \A i \in DOMAIN down : InTurn(i)
  <2>1. 1 \in DOMAIN down /\ Head(down) = down[1]
    BY <1>0, <1>1, Popped
  <2> QED
    BY <1>0, <1>2, <2>1 DEF Wire, DownShape
<1>5. Fifo' /\ Whole' /\ Settled'
  BY <1>1, <1>2, FifoKept, WholeKept, SettledBusy DEF DInv
<1>6. CASE Head(down).t = "copyin" /\ act'.at = "feed" /\ up' = up
  <2>1. mode = "copy"
    BY <1>2, <1>4, <1>6 DEF InTurn
  <2>2. up = <<>>
    BY <1>0, <1>2, <2>1 DEF Wire, UpShape
  <2>3. \A i \in DOMAIN down' : down'[i].t # "ready"
    <3>1. \A i \in DOMAIN down : down[i].t # "ready"
      BY <1>4, <2>1 DEF InTurn
    <3>2. \A i \in DOMAIN down' : \E j \in DOMAIN down : down'[i] = down[j]
      BY <1>0, <1>1, Rest
    <3> QED
      BY <3>1, <3>2
  <2>4. Verdict'
    BY <1>1, <1>2, <1>6, <2>1, <2>3 DEF Verdict
  <2>5. Posted' /\ Chunks'
    BY <1>0, <1>1, <1>6, PostedKept, ChunksKept DEF DInv
  <2>6. Queued'
    <3>1. \A s, n : Counted(s, n) => Counted(s, n)'
      BY <1>1 DEF Counted
    <3>2. \A s \in Requests : kind'[s] = "copyin" /\ (\E i \in DOMAIN queue' : queue'[i] = s) => Counted(s, 0)'
      BY <1>1, <3>1 DEF DInv, Queued
    <3>3. ASSUME linked
          PROVE  Counted(act.cur, Len(result[act.cur].rows) + Len(up))' /\ Unfinished(act.cur)'
      <4>1. Counted(act.cur, 0) /\ result[act.cur].rows = <<>> /\ Unfinished(act.cur)
        BY <1>1, <2>1, <3>3 DEF DInv, Queued
      <4>2. Len(result[act.cur].rows) + Len(up) = 0
        BY <2>2, <4>1
      <4>3. /\ act'.cur = act.cur /\ result' = result /\ chan' = chan /\ rx' = rx /\ up' = up
            /\ caller' = caller /\ seen' = seen
        BY <1>1, <1>6
      <4>4. Counted(act.cur, 0)' /\ Unfinished(act.cur)'
        BY <4>1, <4>3 DEF Counted, Unfinished
      <4>5. Len(result'[act'.cur].rows) + Len(up') = 0
        BY <4>2, <4>3
      <4> QED
        BY <4>4, <4>5
    <3> QED
      BY <1>1, <1>6, <3>2, <3>3 DEF Queued
  <2> QED
    BY <1>5, <2>4, <2>5, <2>6 DEF DInv
<1>7. CASE /\ Head(down).t \in {"error", "stale"} /\ act'.at = "drain" /\ act'.err = "err"
           /\ Flushed(<<"sync">>, act.cur)
  <2>1. mode = "skip"
    BY <1>2, <1>4, <1>7 DEF InTurn
  <2>2. Verdict'
    <3>1. Told'
      BY <1>7 DEF Told
    <3> QED
      BY <1>2, <1>7, <3>1 DEF Verdict
  <2>3. Posted' /\ Chunks'
    <3> DEFINE ts == <<"sync">>
    <3>1. ts \in Seq(UpTypes) /\ \A i \in DOMAIN ts : ts[i] = "sync"
      BY Writings
    <3>2. Flushed(ts, act.cur)
      BY <1>7
    <3> HIDE DEF ts
    <3>3. Posted'
      BY <1>1, <1>3, <3>1, <3>2, PostedFlushed DEF DInv
    <3>4. Chunks'
      BY <1>1, <1>3, <2>1, <3>1, <3>2, ChunksFlushed DEF DInv
    <3> QED
      BY <3>3, <3>4
  <2>4. Queued'
    BY <1>1, <1>7, QueuedKept DEF DInv
  <2> QED
    BY <1>5, <2>2, <2>3, <2>4 DEF DInv
<1> QED
  BY <1>1, <1>6, <1>7

LEMMA CountedTail ==
  ASSUME Shape, NEW r \in Requests, NEW n \in Nat, Counted(r, n), chan[r] # <<>>, chan'[r] = Tail(chan[r]),
         UNCHANGED <<rx, seen, caller>>
  PROVE  Counted(r, n + 1)'
<1>0. chan[r] \in Seq(Payload) /\ seen[r] \in Seq(Payload)
  BY DEF Shape
<1>1. /\ Len(chan[r]) \in Nat \ {0} /\ Len(Tail(chan[r])) = Len(chan[r]) - 1
      /\ \A i \in DOMAIN Tail(chan[r]) : i \in Nat /\ i + 1 \in DOMAIN chan[r] /\ Tail(chan[r])[i] = chan[r][i + 1]
  BY <1>0, Popped
<1>2. (n + 1) + Len(Tail(chan[r])) = n + Len(chan[r])
  <2>1. PICK m \in Nat \ {0} : m = Len(chan[r]) /\ Len(Tail(chan[r])) = m - 1
    BY <1>1
  <2>2. (n + 1) + (m - 1) = n + m
    OBVIOUS
  <2> QED
    BY <2>1, <2>2
<1>3. \A i \in DOMAIN Tail(chan[r]) : Tail(chan[r])[i].is = "done" =>
         i = Len(Tail(chan[r])) /\ caller[r] \in {"await", "dropped"} /\ (n + 1) + Len(Tail(chan[r])) = Len(seen[r]) + 2
  <2> SUFFICES ASSUME NEW i \in DOMAIN Tail(chan[r]), Tail(chan[r])[i].is = "done"
               PROVE  i = Len(Tail(chan[r])) /\ caller[r] \in {"await", "dropped"} /\ n + Len(chan[r]) = Len(seen[r]) + 2
    BY <1>2
  <2>1. i \in Nat /\ i + 1 \in DOMAIN chan[r] /\ chan[r][i + 1].is = "done"
    BY <1>1
  <2>2. i + 1 = Len(chan[r]) /\ caller[r] \in {"await", "dropped"} /\ n + Len(chan[r]) = Len(seen[r]) + 2
    BY <2>1 DEF Counted
  <2>3. i = Len(chan[r]) - 1
    BY <2>1, <2>2
  <2> QED
    BY <1>1, <2>2, <2>3
<1> QED
  BY <1>2, <1>3 DEF Counted

\* What handle_copy_in makes of the next chunk.
LEMMA FedChunk ==
  ASSUME IInv, CopyInFeeds
  PROVE  /\ act'.cur = act.cur
         /\ \/ /\ chan[act.cur] # <<>> /\ Head(chan[act.cur]).is = "done" /\ Flushed(<<"copydone", "sync">>, act.cur)
               /\ act'.at = "drain" /\ act'.err = act.err
            \/ Flushed(<<"copyfail", "sync">>, act.cur) /\ act'.at = "drain" /\ act'.err \in {act.err, "err"}
            \/ chan[act.cur] # <<>> /\ chan' = [chan EXCEPT ![act.cur] = Tail(@)]
               /\ Flushed(<<"copydata">>, act.cur) /\ act' = act
         /\ chan' = chan \/ chan' = [chan EXCEPT ![act.cur] = Tail(@)]
<1>1. act \in ActType
  BY ActorFacts
<1>2. CASE /\ chan[act.cur] # <<>> /\ chan' = [chan EXCEPT ![act.cur] = Tail(@)]
           /\ Head(chan[act.cur]).is = "done" /\ Flushed(<<"copydone", "sync">>, act.cur) /\ At("drain")
  BY <1>1, <1>2 DEF At, ActType
<1>3. CASE /\ chan' = chan \/ chan' = [chan EXCEPT ![act.cur] = Tail(@)]
           /\ Flushed(<<"copyfail", "sync">>, act.cur)
           /\ At("drain") \/ act' = [act EXCEPT !.at = "drain", !.err = "err"]
  BY <1>1, <1>3 DEF At, ActType
<1>4. CASE /\ chan[act.cur] # <<>> /\ chan' = [chan EXCEPT ![act.cur] = Tail(@)]
           /\ Flushed(<<"copydata">>, act.cur) /\ act' = act
  BY <1>4
<1> QED
  BY <1>2, <1>3, <1>4 DEF CopyInFeeds

LEMMA CopyInFeedsData ==
  ASSUME IInv, DInv, CopyInFeeds
  PROVE  DInv'
<1> DEFINE r == act.cur
<1>0. Actor /\ act \in ActType /\ Engaged(act) /\ Typed /\ Wire /\ Shape /\ up \in Seq(UpMsg)
  BY ActorFacts DEF Actor
<1>1. /\ UNCHANGED <<kind, caller, seen, lost, mode, result, linked, queue, done, rx, broken, down>>
      /\ act.at = "feed" /\ act'.cur = r /\ act'.at \in {"feed", "drain"}
      /\ chan' = chan \/ chan' = [chan EXCEPT ![r] = Tail(@)]
  BY <1>0, FedChunk DEF CopyInFeeds, ActorKeeps, client, server, world
<1>2. /\ Busy /\ Busy' /\ ~Resting /\ ~Resting' /\ ~broken /\ act'.at # "settle" /\ Loop = "feed" /\ Loop' = act'.at
  <2>1. ~Resting => ~broken
    BY ActorFacts
  <2> QED
    BY <1>1, <2>1 DEF Busy, Resting, Loop
<1>3. /\ r \in Requests /\ caller[r] # "new" /\ done[r] = "none" /\ kind[r] = "copyin"
      /\ \A i \in DOMAIN up : up[i].of = r /\ up[i].t = "copydata"
      /\ linked => mode \in {"copy", "skip"}
      /\ \A s \in Requests : s # r => chan'[s] = chan[s]
  <2>1. r \in Requests /\ caller[r] # "new" /\ done[r] = "none" /\ kind[r] = "copyin"
    BY <1>0, <1>1, <1>2, KindsOf DEF Engaged, DInv, Fifo
  <2>2. \A i \in DOMAIN up : up[i].of = r /\ up[i].t = "copydata"
    BY <1>0, <1>2 DEF Wire, Tagged, UpShape
  <2>3. linked => mode \in {"copy", "skip"}
    BY <1>0, <1>2 DEF Wire, ModeShape
  <2> QED
    BY <1>0, <1>1, <2>1, <2>2, <2>3 DEF Shape
<1>4. Fifo' /\ Whole' /\ Settled'
  BY <1>1, <1>2, FifoKept, WholeKept, SettledBusy DEF DInv
<1>5. PICK ts \in {<<"copydone", "sync">>, <<"copyfail", "sync">>, <<"copydata">>} :
        /\ Flushed(ts, r)
        /\ ts = <<"copydone", "sync">> => chan[r] # <<>> /\ Head(chan[r]).is = "done"
        /\ act'.at = "feed" => ts = <<"copydata">>
        /\ act'.err \in {act.err, "err"}
  BY <1>0, <1>1, FedChunk
<1>6. /\ ts \in Seq(UpTypes)
      /\ \A i \in DOMAIN ts : ts[i] \in {"copydone", "copyfail", "copydata", "sync"} /\
           (ts[i] = "copydone" => i = 1 /\ chan[r] # <<>> /\ Head(chan[r]).is = "done")
  <2>1. ts \in Seq(UpTypes)
    BY Writings
  <2>2. CASE ts = <<"copydata">>
    <3>1. DOMAIN ts = {1} /\ ts[1] = "copydata"
      BY <2>2
    <3> QED
      BY <2>1, <3>1
  <2>3. CASE ts = <<"copyfail", "sync">>
    <3>1. DOMAIN ts = {1, 2} /\ ts[1] = "copyfail" /\ ts[2] = "sync"
      BY <2>3
    <3> QED
      BY <2>1, <3>1
  <2>4. CASE ts = <<"copydone", "sync">>
    <3>1. DOMAIN ts = {1, 2} /\ ts[1] = "copydone" /\ ts[2] = "sync"
      BY <2>4
    <3> QED
      BY <1>5, <2>1, <2>4, <3>1
  <2> QED
    BY <2>2, <2>3, <2>4
<1>7. Posted'
  BY <1>1, <1>3, <1>5, <1>6, PostedFlushed DEF DInv
<1>8. ASSUME linked, mode = "copy"
      PROVE  \E n \in Nat : n = Len(result[r].rows) + Len(up) /\ Counted(r, n) /\ Unfinished(r)
  <2>1. result[r].rows \in Seq(Payload)
    BY <1>0, <1>3 DEF Shape
  <2>2. Len(result[r].rows) \in Nat /\ Len(up) \in Nat
    BY <1>0, <2>1
  <2>3. Len(result[r].rows) + Len(up) \in Nat
    BY <2>2
  <2> QED
    BY <1>1, <1>8, <2>3 DEF DInv, Queued
<1>9. Chunks'
  <2>1. ASSUME linked, mode = "copy"
        PROVE  /\ Unfinished(r)
               /\ \A i \in DOMAIN ts : ts[i] = "copydone" =>
                    /\ i = 1 /\ Len(result[r].rows) + Len(up) = Len(seen[r]) + 1
                    /\ caller[r] \in {"await", "ended", "dropped"}
                    /\ \A j \in DOMAIN up : up[j].t = "copydata"
    <3>1. PICK n \in Nat : n = Len(result[r].rows) + Len(up) /\ Counted(r, n) /\ Unfinished(r)
      BY <1>8, <2>1
    <3>2. ASSUME chan[r] # <<>>, Head(chan[r]).is = "done"
          PROVE  n = Len(seen[r]) + 1 /\ caller[r] \in {"await", "ended", "dropped"}
      <4>1. chan[r] \in Seq(Payload) /\ seen[r] \in Seq(Payload)
        BY <1>0, <1>3 DEF Shape
      <4>2. 1 \in DOMAIN chan[r] /\ chan[r][1].is = "done"
        BY <3>2, <4>1, Popped
      <4>3. 1 = Len(chan[r]) /\ caller[r] \in {"await", "dropped"} /\ n + Len(chan[r]) = Len(seen[r]) + 2
        BY <3>1, <4>2 DEF Counted
      <4>4. Len(seen[r]) \in Nat
        BY <4>1
      <4>5. PICK k \in Nat : k = Len(seen[r])
        BY <4>4
      <4>6. n + 1 = k + 2 => n = k + 1
        OBVIOUS
      <4>7. n + 1 = k + 2
        BY <4>3, <4>5
      <4> QED
        BY <4>3, <4>5, <4>6, <4>7
    <3> QED
      BY <1>3, <1>6, <3>1, <3>2
  <2> QED
    BY <1>1, <1>3, <1>5, <1>6, <2>1, ChunksFlushed DEF DInv
<1>10. Verdict'
  <2>1. Told => Told'
    <3>1. act.err # "none" => act'.err # "none"
      BY <1>5
    <3> QED
      BY <1>1, <1>2, <3>1 DEF Told
  <2>2. \A i \in DOMAIN down' : down'[i].t # "ready"
    BY <1>1, <1>2 DEF DInv, Verdict
  <2>3. linked' /\ mode' = "skip" => Told'
    BY <1>1, <1>2, <2>1 DEF DInv, Verdict
  <2>4. \A i \in DOMAIN up' : up'[i].t \in {"copydata", "copydone", "copyfail", "sync"}
    <3>1. CASE ~linked
      BY <1>3, <1>5, <3>1 DEF Flushed
    <3>2. CASE linked
      <4>1. up' = up \o Batch(ts, r)
        BY <1>5, <3>2 DEF Flushed
      <4>2. /\ Batch(ts, r) \in Seq(UpMsg) /\ DOMAIN Batch(ts, r) = 1..Len(ts) /\ DOMAIN ts = 1..Len(ts)
            /\ \A i \in 1..Len(ts) : Batch(ts, r)[i].t = ts[i]
        BY <1>3, <1>6, Batched
      <4>3. PICK b \in Seq(UpMsg) : b = Batch(ts, r)
        BY <4>2
      <4>4. \A i \in DOMAIN (up \o b) :
              IF i <= Len(up) THEN i \in DOMAIN up /\ (up \o b)[i] = up[i]
                              ELSE i - Len(up) \in DOMAIN b /\ (up \o b)[i] = b[i - Len(up)]
        BY <1>0, Joined
      <4>5. \A i \in DOMAIN b : b[i].t \in {"copydata", "copydone", "copyfail", "sync"}
        BY <1>6, <4>2, <4>3
      <4> QED
        BY <1>3, <4>1, <4>3, <4>4, <4>5
    <3> QED
      BY <1>0, <3>1, <3>2 DEF Typed, TypeOK
  <2> QED
    BY <1>1, <1>2, <1>3, <2>2, <2>3, <2>4 DEF Verdict
<1>11. Queued'
  <2>1. ASSUME NEW s \in Requests, kind'[s] = "copyin", \E i \in DOMAIN queue' : queue'[i] = s PROVE Counted(s, 0)'
    <3>1. s # r /\ Counted(s, 0)
      BY <1>1, <1>2, <2>1 DEF DInv, Queued, Fifo
    <3> QED
      BY <1>1, <1>3, <3>1, CountedKept DEF Counted
  <2>2. ASSUME act'.at = "feed", linked, mode = "copy"
        PROVE  Counted(act.cur, Len(result[act.cur].rows) + Len(up))' /\ Unfinished(act.cur)'
    <3>1. PICK n \in Nat : n = Len(result[r].rows) + Len(up) /\ Counted(r, n) /\ Unfinished(r)
      BY <1>8, <2>2
    <3>2. chan[r] # <<>> /\ chan' = [chan EXCEPT ![r] = Tail(@)]
      BY <2>2, FedChunk
    <3>3. PICK q \in Requests : q = r
      BY <1>3
    <3>4. chan'[q] = Tail(chan[q])
      BY <1>0, <3>2, <3>3 DEF Shape
    <3>5. Counted(q, n + 1)'
      BY <1>0, <1>1, <3>1, <3>2, <3>3, <3>4, CountedTail
    <3>6. Len(up') = Len(up) + 1
      <4>1. ts = <<"copydata">> /\ up' = up \o Batch(ts, r)
        BY <1>5, <2>2 DEF Flushed
      <4>2. Batch(ts, r) \in Seq(UpMsg) /\ Len(Batch(ts, r)) = Len(ts)
        BY <1>3, <1>6, Batched
      <4>3. Len(ts) = 1
        BY <4>1
      <4>4. PICK b \in Seq(UpMsg) : b = Batch(ts, r) /\ Len(b) = 1
        BY <4>2, <4>3
      <4>5. Len(up \o b) = Len(up) + Len(b)
        BY <1>0, Joined
      <4> QED
        BY <4>1, <4>4, <4>5
    <3>7. Len(result'[act'.cur].rows) + Len(up') = n + 1
      <4>1. result'[act'.cur].rows = result[r].rows
        BY <1>1
      <4>2. result[r].rows \in Seq(Payload)
        BY <1>0, <1>3 DEF Shape
      <4>3. Len(result[r].rows) \in Nat /\ Len(up) \in Nat
        BY <1>0, <4>2
      <4>4. PICK a \in Nat, c \in Nat : a = Len(result[r].rows) /\ c = Len(up)
        BY <4>3
      <4>5. n = a + c
        BY <3>1, <4>4
      <4>6. a + (c + 1) = (a + c) + 1
        OBVIOUS
      <4> QED
        BY <3>6, <4>1, <4>4, <4>5, <4>6
    <3>8. act'.cur = q /\ Unfinished(q)'
      BY <1>1, <3>1, <3>3 DEF Unfinished
    <3> QED
      BY <3>5, <3>7, <3>8 DEF Counted, Unfinished
  <2> QED
    BY <1>1, <2>1, <2>2 DEF Queued
<1> QED
  BY <1>4, <1>7, <1>9, <1>10, <1>11 DEF DInv

LEMMA ActorData ==
  ASSUME IInv, DInv, Actor
  PROVE  DInv'
  BY RestData, ReadOnData, AbortCopyData, SettleData, TakeRequestData, ReadReadyData, CopyInBeginsData, CopyInFeedsData
     DEF Actor

-----------------------------------------------------------------------------
(* The server. *)

\* The replies ms tell the handler of an error.
Tells(ms) == \E i \in DOMAIN ms :
  \/ ms[i].t \in {"error", "stale"}
  \/ Loop \in {"exec", "script"} /\ ms[i].t \in {"copyin", "copyout"}

LEMMA ServeTold ==
  ASSUME IInv, linked, up # <<>>, ServerKeeps, NEW ms \in Seq(DownMsg), Says(Head(up), ms)
  PROVE  /\ Told \/ Tells(ms) => Told'
         /\ \A i \in DOMAIN down' : down'[i].t = "ready" =>
              \/ \E j \in DOMAIN down : down[j].t = "ready"
              \/ \E j \in DOMAIN ms : ms[j].t = "ready"
<1>0. Shape /\ extra \in 0..MaxExtra /\ Head(up) \in UpMsg /\ down \in Seq(DownMsg)
  BY ActorFacts, ServerFacts
<1>1. PICK xs \in Seq(DownMsg) :
        /\ down' = down \o xs /\ Len(xs) = Len(ms)
        /\ \A i \in DOMAIN ms : Echo(Head(up), ms[i], xs[i])
  BY <1>0, Said, SMTT(30)
<1>2. /\ \A i \in DOMAIN down : i \in DOMAIN (down \o xs) /\ (down \o xs)[i] = down[i]
      /\ \A i \in DOMAIN xs : (down \o xs)[Len(down) + i] = xs[i] /\ Len(down) + i \in DOMAIN (down \o xs)
      /\ \A i \in DOMAIN (down \o xs) :
           \/ \E j \in DOMAIN down : (down \o xs)[i] = down[j]
           \/ \E j \in DOMAIN xs : (down \o xs)[i] = xs[j]
      /\ DOMAIN xs = DOMAIN ms
  <2>1. /\ \A i \in DOMAIN down : (down \o xs)[i] = down[i]
        /\ \A i \in DOMAIN xs : (down \o xs)[Len(down) + i] = xs[i]
        /\ DOMAIN (down \o xs) = 1..(Len(down) + Len(xs)) /\ Len(down) \in Nat /\ Len(xs) \in Nat
        /\ DOMAIN down = 1..Len(down) /\ DOMAIN xs = 1..Len(xs) /\ DOMAIN ms = 1..Len(ms)
    BY <1>0, Joined
  <2>2. \A i \in DOMAIN (down \o xs) :
              IF i <= Len(down) THEN i \in DOMAIN down /\ (down \o xs)[i] = down[i]
                                ELSE i - Len(down) \in DOMAIN xs /\ (down \o xs)[i] = xs[i - Len(down)]
    BY <1>0, Joined
  <2>3. \A i \in DOMAIN xs : Len(down) + i \in DOMAIN (down \o xs)
    BY <2>1
  <2>4. \A i \in DOMAIN down : i \in DOMAIN (down \o xs)
    BY <2>1
  <2>5. DOMAIN xs = DOMAIN ms
    BY <1>1, <2>1
  <2>6. ASSUME NEW i \in DOMAIN (down \o xs)
        PROVE  \/ \E k \in DOMAIN down : (down \o xs)[i] = down[k]
               \/ \E k \in DOMAIN xs : (down \o xs)[i] = xs[k]
    <3>1. CASE i <= Len(down)
      BY <2>2, <3>1
    <3>2. CASE ~(i <= Len(down))
      BY <2>2, <3>2
    <3> QED
      BY <3>1, <3>2
  <2> QED
    BY <2>1, <2>3, <2>4, <2>5, <2>6
<1>3. act' = act /\ Loop' = Loop
  BY DEF ServerKeeps, client, Loop
<1>4. Told => Told'
  BY <1>1, <1>2, <1>3 DEF Told
<1>5. Tells(ms) => Told'
  <2> SUFFICES ASSUME Tells(ms) PROVE Told'
    OBVIOUS
  <2>1. PICK i \in DOMAIN ms : \/ ms[i].t \in {"error", "stale"}
                               \/ Loop \in {"exec", "script"} /\ ms[i].t \in {"copyin", "copyout"}
    BY DEF Tells
  <2>2. xs[i] = ms[i] \/ xs[i].t \in {"bad", "huge"}
    BY <1>1, <2>1 DEF Echo
  <2>3. Len(down) + i \in DOMAIN down' /\ down'[Len(down) + i] = xs[i]
    BY <1>1, <1>2, <2>1
  <2> QED
    BY <1>3, <2>1, <2>2, <2>3 DEF Told
<1>6. ASSUME NEW i \in DOMAIN down', down'[i].t = "ready"
      PROVE  \/ \E j \in DOMAIN down : down[j].t = "ready"
             \/ \E j \in DOMAIN ms : ms[j].t = "ready"
  <2>1. CASE \E j \in DOMAIN down : down'[i] = down[j]
    BY <1>6, <2>1
  <2>2. CASE \E j \in DOMAIN xs : down'[i] = xs[j]
    <3>1. PICK j \in DOMAIN ms : down'[i] = xs[j]
      BY <1>2, <2>2
    <3>2. xs[j].t = "ready" /\ Echo(Head(up), ms[j], xs[j])
      BY <1>1, <1>6, <3>1
    <3> QED
      BY <3>2 DEF Echo
  <2> QED
    BY <1>1, <1>2, <2>1, <2>2
<1> QED
  BY <1>4, <1>5, <1>6

\* What a step of the server has to say for itself: it answers for the request
\* whose message it takes.
LEMMA ServedVerdict ==
  ASSUME IInv, DInv, linked, up # <<>>, up' = Tail(up), ServerKeeps,
         NEW ms \in Seq(DownMsg), Says(Head(up), ms),
         ~broken /\ Loop = "feed" => \A i \in DOMAIN ms : ms[i].t # "ready",
         ~broken /\ Loop \in {"exec", "copyout", "drain", "script"} /\ (\E i \in DOMAIN ms : ms[i].t = "ready") =>
           result'[act.cur].end = "complete" \/ Told \/ Tells(ms),
         ~broken /\ Loop \in {"exec", "copyout", "drain", "feed", "copyin"} /\ mode' = "skip" => Told \/ Tells(ms),
         ~broken /\ Loop \in {"exec", "copyout", "drain"} /\ mode' = "ready" /\ Len(up) = 2 =>
           result'[act.cur].end = "executed" \/ Told \/ Tells(ms)
  PROVE  Verdict'
<1>1. /\ UNCHANGED <<act, broken, linked, kind>> /\ Loop' = Loop /\ Resting' = Resting
  BY DEF ServerKeeps, client, Loop, Resting
<1> SUFFICES ASSUME ~Resting PROVE Verdict'
  BY <1>1 DEF Verdict
<1>2. ~broken
  BY ActorFacts
<1>3. \A j \in DOMAIN down : down[j].t # "ready"
  BY <1>2, ActorFacts DEF Wire, DownShape, InTurn
<1>4. /\ Told \/ Tells(ms) => Told'
      /\ (\E i \in DOMAIN down' : down'[i].t = "ready") => \E j \in DOMAIN ms : ms[j].t = "ready"
  BY <1>3, ServeTold
<1>5. /\ Len(Tail(up)) = Len(up) - 1 /\ Len(up) \in Nat \ {0}
      /\ \A i \in DOMAIN Tail(up) : i + 1 \in DOMAIN up /\ Tail(up)[i] = up[i + 1]
  BY ServerFacts
<1>6. Len(up') = 1 => Len(up) = 2
  <2>1. PICK n \in Nat : n = Len(up) /\ Len(up') = n - 1
    BY <1>5
  <2>2. n - 1 = 1 => n = 2
    OBVIOUS
  <2> QED
    BY <2>1, <2>2
<1>7. Loop = "drain" /\ act.err = "none" =>
         \A i \in DOMAIN up' : up'[i].t \in {"copydata", "copydone", "copyfail", "sync"}
  BY <1>5 DEF DInv, Verdict
<1>8. Loop \in {"abort", "scriptabort"} => act.err # "none"
  BY DEF DInv, Verdict
<1>9. Loop = "feed" => \A i \in DOMAIN down' : down'[i].t # "ready"
  BY <1>2, <1>4
<1>10. Loop \in {"exec", "copyout", "drain", "script"} /\ (\E i \in DOMAIN down' : down'[i].t = "ready") =>
         result'[act.cur].end = "complete" \/ Told'
  BY <1>2, <1>4
<1>11. Loop \in {"exec", "copyout", "drain", "feed", "copyin"} /\ mode' = "skip" => Told'
  BY <1>2, <1>4
<1>12. Loop \in {"exec", "copyout", "drain"} /\ mode' = "ready" /\ Len(up') = 1 =>
         result'[act.cur].end = "executed" \/ Told'
  BY <1>2, <1>4, <1>6
<1> QED
  BY <1>1, <1>7, <1>8, <1>9, <1>10, <1>11, <1>12 DEF Verdict

LEMMA ServeData ==
  ASSUME IInv, DInv, linked, up # <<>>, up' = Tail(up), ServerKeeps, Verdict', Chunks',
         \A s \in Requests : s # Head(up).of => result'[s] = result[s],
         kind[Head(up).of] = "copyin" /\ result'[Head(up).of].end \in {"executed", "complete"} =>
           /\ Len(result'[Head(up).of].rows) = Len(seen[Head(up).of]) + 1
           /\ caller[Head(up).of] \in {"await", "ended", "dropped"},
         act.at = "copyin" /\ mode' = "copy" => result'[act.cur].rows = <<>> /\ Unfinished(act.cur)',
         act.at = "feed" /\ mode' = "copy" =>
           Counted(act.cur, Len(result[act.cur].rows) + Len(up))' /\ Unfinished(act.cur)'
  PROVE  DInv'
<1>1. UNCHANGED <<queue, kind, caller, seen, lost, chan, rx, done, act, broken, linked>>
  BY DEF ServerKeeps, client, channels
<1>2. /\ Head(up) = up[1] /\ 1 \in DOMAIN up /\ Head(up).of \in Requests
      /\ done[Head(up).of] # "ok" /\ caller[Head(up).of] # "new"
      /\ \A i \in DOMAIN up' : i + 1 \in DOMAIN up /\ up'[i] = up[i + 1]
  <2>1. Head(up) = up[1] /\ 1 \in DOMAIN up
    BY Popped, ActorFacts
  <2>2. Head(up).of \in Requests /\ \A i \in DOMAIN up' : i + 1 \in DOMAIN up /\ up'[i] = up[i + 1]
    BY ServerFacts
  <2> QED
    BY <2>1, <2>2 DEF DInv, Posted
<1>3. Fifo'
  BY <1>1, FifoKept DEF DInv, Busy
<1>4. Posted'
  BY <1>1, <1>2 DEF DInv, Posted
<1>5. Settled'
  <2>1. act.at = "settle" => broken
    BY ServerFacts DEF Resting
  <2> QED
    BY <1>1, <1>2, <2>1 DEF DInv, Settled
<1>6. Whole'
  BY <1>1, <1>2 DEF DInv, Whole, Stored, Unfinished
<1>7. Queued'
  <2>1. \A s, n : Counted(s, n) => Counted(s, n)'
    BY <1>1 DEF Counted
  <2>2. \A s \in Requests : kind'[s] = "copyin" /\ (\E i \in DOMAIN queue' : queue'[i] = s) => Counted(s, 0)'
    BY <1>1, <2>1 DEF DInv, Queued
  <2>3. act'.at = "copyin" => Counted(act.cur, 0)'
    BY <1>1, <2>1 DEF DInv, Queued, Counted
  <2> QED
    BY <1>1, <2>2, <2>3 DEF Queued
<1> QED
  BY <1>3, <1>4, <1>5, <1>6, <1>7 DEF DInv

\* Whom the server serves, as seen from a connection that is not broken.
LEMMA Serving ==
  ASSUME IInv, DInv, linked, up # <<>>
  PROVE  /\ Head(up) = up[1] /\ 1 \in DOMAIN up /\ Head(up).of \in Requests
         /\ act.at \in {"copyin", "feed"} => ~broken /\ Loop = act.at
         /\ ~broken => Head(up).of = act.cur /\ ~Resting
         /\ \A i \in DOMAIN Tail(up) : i \in Nat /\ i + 1 \in DOMAIN up /\ Tail(up)[i] = up[i + 1] /\ up[i + 1].of = Head(up).of
         /\ result \in [Requests -> ResultType]
<1>1. Head(up) = up[1] /\ 1 \in DOMAIN up
  BY Popped, ActorFacts
<1>2. /\ Head(up).of \in Requests /\ (~broken => Head(up).of = act.cur /\ ~Resting)
      /\ \A i \in DOMAIN Tail(up) : i \in Nat /\ i + 1 \in DOMAIN up /\ Tail(up)[i] = up[i + 1]
      /\ result \in [Requests -> ResultType]
  BY ServerFacts
<1>3. ASSUME act.at \in {"copyin", "feed"} PROVE ~broken /\ Loop = act.at
  <2>1. ~Resting
    BY <1>3 DEF Resting
  <2> QED
    BY <1>3, <2>1, ActorFacts DEF Loop
<1> QED
  BY <1>1, <1>2, <1>3 DEF DInv, Posted

LEMMA ServePrepareData ==
  ASSUME IInv, DInv, ServePrepare PROVE DInv'
<1> DEFINE m == Head(up)
<1>0. linked /\ up # <<>> /\ up' = Tail(up) /\ ServerKeeps /\ result' = result /\ mode = "ready"
      /\ m.t \in {"parse", "describe", "bind"}
  BY DEF ServePrepare, Takes
<1>1. m.of \in Requests /\ m = up[1] /\ 1 \in DOMAIN up /\ up \in Seq(UpMsg)
  BY <1>0, Serving, ActorFacts
<1>2. PICK t \in {"complete", "error", "stale"} :
        Says(m, <<Msg(t, m.of)>>) /\ mode' = IF t = "complete" THEN "ready" ELSE "skip"
  <2>1. CASE Says(m, <<Msg("complete", m.of)>>) /\ UNCHANGED mode
    BY <1>0, <2>1
  <2>2. CASE \E code \in {"error", "stale"} : Refuses(m, <<>>, code)
    <3>1. PICK code \in {"error", "stale"} : Refuses(m, <<>>, code)
      BY <2>2
    <3>2. Append(<<>>, Msg(code, m.of)) = <<Msg(code, m.of)>>
      OBVIOUS
    <3> QED
      BY <3>1, <3>2 DEF Refuses
  <2> QED
    BY <2>1, <2>2 DEF ServePrepare
<1> DEFINE ms == <<Msg(t, m.of)>>
<1>3. ms \in Seq(DownMsg) /\ DOMAIN ms = {1} /\ ms[1].t = t
  BY <1>1, ShortReply DEF DownTypes
<1>s. Says(m, ms)
  BY <1>2
<1> HIDE DEF ms
<1>4. mode' = "skip" => Tells(ms)
  BY <1>2, <1>3 DEF Tells
<1>5. ~broken /\ Loop \in {"exec", "copyout", "drain"} /\ Len(up) = 2 => Told
  <2> SUFFICES ASSUME ~broken, Loop \in {"exec", "copyout", "drain"}, Len(up) = 2 PROVE Told
    OBVIOUS
  <2>0. UpShape
    BY ActorFacts DEF Wire
  <2>1. CASE Loop = "exec"
    <3>1. IsTail(up, <<"bind", "execute", "sync">>)
      BY <2>0, <2>1 DEF UpShape
    <3>2. \/ up = <<>>
          \/ Len(up) = 1 /\ up[1].t = "sync"
          \/ Len(up) = 2 /\ up[1].t = "execute" /\ up[2].t = "sync"
          \/ Len(up) = 3 /\ up[1].t = "bind" /\ up[2].t = "execute" /\ up[3].t = "sync"
      BY <1>1, <3>1, TailOfThree
    <3> QED
      BY <1>0, <1>1, <3>2
  <2>2. CASE Loop = "copyout"
    <3>1. IsTail(up, <<"parse", "bind", "execute", "sync">>)
      BY <2>0, <2>2 DEF UpShape
    <3>2. \/ Len(up) = 1 /\ up[1].t = "sync"
          \/ Len(up) = 2 /\ up[1].t = "execute" /\ up[2].t = "sync"
          \/ Len(up) = 3 /\ up[1].t = "bind"
          \/ Len(up) = 4 /\ up[1].t = "parse"
      BY <1>0, <1>1, <3>1, TailOfFour
    <3> QED
      BY <1>0, <1>1, <3>2
  <2>3. CASE Loop = "drain"
    BY <1>0, <1>1, <2>3, Serving DEF DInv, Verdict, Told
  <2> QED
    BY <2>1, <2>2, <2>3
<1>6. Verdict'
  BY <1>0, <1>3, <1>s, <1>4, <1>5, ServedVerdict
<1>7. mode' # "copy"
  BY <1>2
<1>8. Chunks'
  BY <1>7 DEF Chunks
<1>9. kind[m.of] = "copyin" /\ result'[m.of].end \in {"executed", "complete"} =>
           /\ Len(result'[m.of].rows) = Len(seen[m.of]) + 1
           /\ caller[m.of] \in {"await", "ended", "dropped"}
  BY <1>0, <1>1 DEF DInv, Whole, Stored, Unfinished
<1> QED
  BY <1>0, <1>6, <1>7, <1>8, <1>9, ServeData

LEMMA ServeDiscardData ==
  ASSUME IInv, DInv, ServeDiscard PROVE DInv'
<1>0. /\ linked /\ up # <<>> /\ up' = Tail(up) /\ ServerKeeps /\ UNCHANGED <<result, mode, down, extra>>
      /\ mode = "skip" \/ (mode = "copy" /\ Head(up).t = "sync")
  BY DEF ServeDiscard, Takes
<1>1. /\ Shape /\ Head(up) = up[1] /\ 1 \in DOMAIN up /\ Head(up).of \in Requests
      /\ act.at \in {"copyin", "feed"} => ~broken /\ Loop = act.at
      /\ \A i \in DOMAIN Tail(up) : i \in Nat /\ i + 1 \in DOMAIN up /\ Tail(up)[i] = up[i + 1]
  BY <1>0, Serving, ActorFacts
<1> DEFINE ms == <<>>
<1>2. Says(Head(up), ms) /\ ms \in Seq(DownMsg) /\ DOMAIN ms = {}
  BY <1>0, <1>1, Silence
<1> HIDE DEF ms
<1>3. ~broken /\ Loop \in {"exec", "copyout", "drain", "feed", "copyin"} /\ mode = "skip" => Told
  BY <1>0, Serving DEF DInv, Verdict
<1>4. Verdict'
  BY <1>0, <1>2, <1>3, ServedVerdict
<1>5. Chunks'
  <2> SUFFICES ASSUME mode = "copy" PROVE Chunks'
    BY <1>0 DEF Chunks
  <2>1. ASSUME NEW i \in DOMAIN up PROVE up[i].t # "copydone"
    <3>1. Head(up).t = "sync"
      BY <1>0
    <3>2. CASE i = 1
      BY <1>1, <3>1, <3>2
    <3>3. CASE i # 1
      <4>1. DOMAIN up = 1..Len(up) /\ Len(up) \in Nat
        BY ActorFacts
      <4>2. 1 < i
        BY <3>3, <4>1
      <4> QED
        BY <1>1, <3>1, <4>2 DEF DInv, Chunks
    <3> QED
      BY <3>2, <3>3
  <2>2. \A i \in DOMAIN up : kind[up[i].of] = "copyin" => Unfinished(up[i].of)
    BY DEF DInv, Chunks
  <2>3. kind' = kind /\ result' = result
    BY <1>0 DEF ServerKeeps, client
  <2> QED
    BY <1>0, <1>1, <2>1, <2>2, <2>3 DEF Chunks, Unfinished
<1>6. mode = "copy" => act.at \notin {"copyin", "feed"}
  BY <1>0, <1>1, Heads
<1>7. kind[Head(up).of] = "copyin" /\ result'[Head(up).of].end \in {"executed", "complete"} =>
           /\ Len(result'[Head(up).of].rows) = Len(seen[Head(up).of]) + 1
           /\ caller[Head(up).of] \in {"await", "ended", "dropped"}
  BY <1>0, <1>1 DEF DInv, Whole, Stored, Unfinished
<1> QED
  BY <1>0, <1>4, <1>5, <1>6, <1>7, ServeData

\* How Ends changes the results.
LEMMA EndedOne ==
  ASSUME IInv, NEW r \in Requests, NEW e, Ends(r, e)
  PROVE  /\ \A s \in Requests : s # r => result'[s] = result[s]
         /\ result'[r].end = e /\ result'[r].rows = result[r].rows
<1>1. result \in [Requests -> ResultType]
  BY DEF IInv, Shape, ResultType
<1>2. result' = [result EXCEPT ![r] = [result[r] EXCEPT !.end = e]]
  BY DEF Ends
<1>3. result[r] \in ResultType
  BY <1>1
<1>4. [result[r] EXCEPT !.end = e].end = e /\ [result[r] EXCEPT !.end = e].rows = result[r].rows
  BY <1>3 DEF ResultType
<1> QED
  BY <1>1, <1>2, <1>4

LEMMA ServeSyncData ==
  ASSUME IInv, DInv, ServeSync PROVE DInv'
<1> DEFINE r == Head(up).of
<1>0. /\ linked /\ up # <<>> /\ up' = Tail(up) /\ ServerKeeps /\ mode \in {"ready", "skip"} /\ mode' = "ready"
      /\ Head(up).t = "sync"
  BY DEF ServeSync, Takes
<1>1. /\ r \in Requests /\ Head(up) = up[1] /\ (~broken => r = act.cur /\ ~Resting)
  BY <1>0, Serving
<1>2. ~broken => Len(up) = 1 /\ Loop \in {"prepare", "exec", "copyout", "abort", "drain"}
  BY <1>0, <1>1, Heads
<1>3. PICK ms \in {<<Msg("ready", r)>>, <<Msg("error", r), Msg("ready", r)>>} :
        /\ Says(Head(up), ms)
        /\ \/ result[r].end = "executed" /\ Ends(r, "complete")
           \/ result[r].end = "executed" /\ Ends(r, "failed") /\ ms = <<Msg("error", r), Msg("ready", r)>>
           \/ result[r].end # "executed" /\ UNCHANGED result
  BY DEF ServeSync
<1>4. ms \in Seq(DownMsg)
  BY <1>1, <1>3, ReadyReply
<1>5. ms = <<Msg("error", r), Msg("ready", r)>> => Tells(ms)
  <2> SUFFICES ASSUME ms = <<Msg("error", r), Msg("ready", r)>> PROVE Tells(ms)
    OBVIOUS
  <2>1. 1 \in DOMAIN ms /\ ms[1] = Msg("error", r) /\ Msg("error", r).t = "error"
    BY DEF Msg
  <2> QED
    BY <2>1 DEF Tells
<1>6. ~broken /\ Loop \in {"exec", "copyout", "drain", "script"} => result'[r].end = "complete" \/ Told \/ Tells(ms)
  <2> SUFFICES ASSUME ~broken, Loop \in {"exec", "copyout", "drain", "script"} PROVE result'[r].end = "complete" \/ Told \/ Tells(ms)
    OBVIOUS
  <2>1. CASE Ends(r, "complete")
    BY <1>1, <2>1, EndedOne
  <2>2. CASE ms = <<Msg("error", r), Msg("ready", r)>>
    BY <1>5, <2>2
  <2>3. CASE result[r].end # "executed" /\ UNCHANGED result
    <3>1. Len(up) = 1 /\ Loop \in {"exec", "copyout", "drain"} /\ ~Resting /\ r = act.cur
      BY <1>1, <1>2
    <3> QED
      BY <1>0, <2>3, <3>1 DEF DInv, Verdict
  <2> QED
    BY <1>3, <2>1, <2>2, <2>3
<1>7. Verdict'
  <2>1. Len(up) = 1 => Len(up) # 2
    OBVIOUS
  <2> QED
    BY <1>0, <1>1, <1>2, <1>3, <1>4, <1>6, <2>1, ServedVerdict
<1>8. Chunks'
  BY <1>0 DEF Chunks
<1>9. /\ \A s \in Requests : s # r => result'[s] = result[s]
      /\ kind[r] = "copyin" /\ result'[r].end \in {"executed", "complete"} =>
           /\ Len(result'[r].rows) = Len(seen[r]) + 1
           /\ caller[r] \in {"await", "ended", "dropped"}
  <2>1. kind[r] = "copyin" /\ result[r].end \in {"executed", "complete"} =>
           /\ Len(result[r].rows) = Len(seen[r]) + 1
           /\ caller[r] \in {"await", "ended", "dropped"}
    BY <1>1 DEF DInv, Whole, Stored, Unfinished
  <2>2. CASE result[r].end = "executed" /\ \E e \in {"complete", "failed"} : Ends(r, e)
    BY <1>1, <2>1, <2>2, EndedOne
  <2>3. CASE UNCHANGED result
    BY <2>1, <2>3
  <2> QED
    BY <1>3, <2>2, <2>3
<1> QED
  BY <1>0, <1>7, <1>8, <1>9, ServeData

LEMMA ServeScriptCopyData ==
  ASSUME IInv, DInv, ServeScriptCopy PROVE DInv'
<1> DEFINE r == Head(up).of
<1>0. /\ linked /\ up # <<>> /\ up' = Tail(up) /\ ServerKeeps /\ mode = "scriptcopy" /\ mode' = "ready"
      /\ Head(up).t = "copyfail" /\ result' = result
      /\ Says(Head(up), <<Msg("error", r), Msg("ready", r)>>)
  BY DEF ServeScriptCopy, Takes
<1>1. Head(up) = up[1] /\ r \in Requests
  BY <1>0, Serving
<1>2. ~broken => Loop = "scriptabort"
  <2>1. ~broken => ModeShape /\ ~Resting
    BY <1>0, ServerFacts
  <2> QED
    BY <1>0, <1>1, <2>1, Heads DEF ModeShape
<1>3. <<Msg("error", r), Msg("ready", r)>> \in Seq(DownMsg)
  BY <1>1, ShortReply DEF DownTypes
<1>4. Verdict'
  BY <1>0, <1>2, <1>3, ServedVerdict
<1>5. Chunks'
  BY <1>0 DEF Chunks
<1>6. kind[r] = "copyin" /\ result'[r].end \in {"executed", "complete"} =>
           /\ Len(result'[r].rows) = Len(seen[r]) + 1
           /\ caller[r] \in {"await", "ended", "dropped"}
  BY <1>0, <1>1 DEF DInv, Whole, Stored, Unfinished
<1> QED
  BY <1>0, <1>4, <1>5, <1>6, ServeData

LEMMA ServeCopyData ==
  ASSUME IInv, DInv, ServeCopy PROVE DInv'
<1> DEFINE m == Head(up)
           r == m.of
<1>0. /\ linked /\ up # <<>> /\ up' = Tail(up) /\ ServerKeeps /\ mode = "copy"
      /\ m.t \in {"copydata", "copydone", "copyfail"}
  BY DEF ServeCopy, Takes
<1>1. /\ r \in Requests /\ m = up[1] /\ 1 \in DOMAIN up /\ Shape /\ result \in [Requests -> ResultType]
      /\ act.at \in {"copyin", "feed"} => ~broken /\ Loop = act.at
      /\ ~broken => r = act.cur /\ ~Resting
      /\ \A i \in DOMAIN Tail(up) : i \in Nat /\ i + 1 \in DOMAIN up /\ Tail(up)[i] = up[i + 1] /\ up[i + 1].of = r
  BY <1>0, Serving, ActorFacts
<1>2. ~broken => /\ Loop \in {"abort", "feed", "drain"}
                 /\ Loop = "feed" => m.t = "copydata"
  <2>1. ~broken => ModeShape
    BY <1>0, ServerFacts
  <2> QED
    BY <1>0, <1>1, <2>1, Heads DEF ModeShape
<1>3. act.at # "copyin"
  BY <1>1, <1>2
<1>4. UNCHANGED <<kind, caller, seen, lost, chan, rx, act>>
  BY <1>0 DEF ServerKeeps, client, channels
<1>5. kind[r] = "copyin" => Unfinished(r)
  BY <1>0, <1>1 DEF DInv, Chunks
<1>6. CASE /\ m.t = "copydata"
           /\ result' = [result EXCEPT ![r].rows = Append(@, Item(r, Len(@) + 1))]
           /\ UNCHANGED <<mode, down, extra>>
  <2>1. result[r] \in ResultType /\ result[r].rows \in Seq(Payload)
    BY <1>1 DEF ResultType
  <2> DEFINE e == Item(r, Len(result[r].rows) + 1)
             rs == Append(result[r].rows, e)
  <2>2. Len(result[r].rows) \in Nat
    BY <2>1
  <2>3. Len(rs) = Len(result[r].rows) + 1
    <3>1. e \in Payload
      BY <1>1, <2>2, Payloads
    <3> HIDE DEF e
    <3> QED
      BY <2>1, <3>1, Pushed
  <2>4. result' = [result EXCEPT ![r] = [result[r] EXCEPT !.rows = rs]]
    BY <1>6
  <2> HIDE DEF rs
  <2>5. [result[r] EXCEPT !.rows = rs].rows = rs /\ [result[r] EXCEPT !.rows = rs].end = result[r].end
    BY <2>1 DEF ResultType
  <2>6. /\ result'[r].rows = rs /\ result'[r].end = result[r].end
        /\ \A s \in Requests : s # r => result'[s] = result[s]
    BY <1>1, <2>4, <2>5
  <2>7. Verdict'
    <3>1. Says(m, <<>>) /\ <<>> \in Seq(DownMsg) /\ DOMAIN <<>> = {}
      BY <1>1, <1>6, Silence
    <3>2. mode' = "copy"
      BY <1>0, <1>6
    <3> QED
      BY <1>0, <3>1, <3>2, ServedVerdict
  <2>8. Chunks'
    <3>1. ASSUME NEW i \in DOMAIN up'
          PROVE  /\ kind[up'[i].of] = "copyin" => result'[up'[i].of].end \notin {"executed", "complete"}
                 /\ up'[i].t = "copydone" =>
                      /\ Len(result'[up'[i].of].rows) + i = Len(seen[up'[i].of]) + 2
                      /\ caller[up'[i].of] \in {"await", "ended", "dropped"}
                      /\ \A j \in DOMAIN up' : j < i => up'[j].t = "copydata"
      <4>1. i \in Nat /\ i + 1 \in DOMAIN up /\ up'[i] = up[i + 1] /\ up'[i].of = r
        BY <1>0, <1>1, <3>1
      <4>2. kind[r] = "copyin" => result'[r].end \notin {"executed", "complete"}
        BY <1>5, <2>6 DEF Unfinished
      <4>3. ASSUME up'[i].t = "copydone"
            PROVE  /\ Len(result'[r].rows) + i = Len(seen[r]) + 2
                   /\ caller[r] \in {"await", "ended", "dropped"}
                   /\ \A j \in DOMAIN up' : j < i => up'[j].t = "copydata"
        <5>1. up[i + 1].t = "copydone" /\ up[i + 1].of = r
          BY <4>1, <4>3
        <5>2. /\ Len(result[r].rows) + (i + 1) = Len(seen[r]) + 2
              /\ caller[r] \in {"await", "ended", "dropped"}
              /\ \A j \in DOMAIN up : j < i + 1 => up[j].t = "copydata"
          BY <1>0, <4>1, <5>1 DEF DInv, Chunks
        <5>3. ASSUME NEW j \in DOMAIN up', j < i PROVE up'[j].t = "copydata"
          <6>1. j \in Nat /\ j + 1 \in DOMAIN up /\ up'[j] = up[j + 1]
            BY <1>0, <1>1, <5>3
          <6>2. j + 1 < i + 1
            BY <4>1, <5>3, <6>1
          <6> QED
            BY <5>2, <6>1, <6>2
        <5>4. Len(result'[r].rows) + i = Len(seen[r]) + 2
          <6>1. PICK a \in Nat : a = Len(result[r].rows) /\ Len(result'[r].rows) = a + 1
            BY <2>2, <2>3, <2>6
          <6>2. a + (i + 1) = (a + 1) + i
            BY <4>1
          <6> QED
            BY <5>2, <6>1, <6>2
        <5> QED
          BY <5>2, <5>3, <5>4
      <4> QED
        BY <4>1, <4>2, <4>3
    <3> QED
      BY <1>4, <3>1 DEF Chunks, Unfinished
  <2>9. kind[r] = "copyin" => result'[r].end \notin {"executed", "complete"}
    BY <1>5, <2>6 DEF Unfinished
  <2>10. act.at = "feed" => Counted(act.cur, Len(result[act.cur].rows) + Len(up))' /\ Unfinished(act.cur)'
    <3> SUFFICES ASSUME act.at = "feed"
                 PROVE  Counted(act.cur, Len(result[act.cur].rows) + Len(up))' /\ Unfinished(act.cur)'
      OBVIOUS
    <3>1. r = act.cur /\ act'.cur = act.cur
      BY <1>1, <1>4
    <3>2. Counted(act.cur, Len(result[act.cur].rows) + Len(up)) /\ Unfinished(act.cur)
      BY <1>0 DEF DInv, Queued
    <3>3. Len(result'[act'.cur].rows) + Len(up') = Len(result[act.cur].rows) + Len(up)
      <4>1. PICK a \in Nat : a = Len(result[act.cur].rows) /\ Len(result'[act'.cur].rows) = a + 1
        BY <2>2, <2>3, <2>6, <3>1
      <4>2. PICK n \in Nat \ {0} : n = Len(up) /\ Len(up') = n - 1
        BY <1>0, ServerFacts
      <4>3. (a + 1) + (n - 1) = a + n
        OBVIOUS
      <4> QED
        BY <4>1, <4>2, <4>3
    <3>4. PICK k : k = Len(result[act.cur].rows) + Len(up)
      OBVIOUS
    <3>5. Counted(act.cur, k)
      BY <3>2, <3>4
    <3>6. Counted(act.cur, k)'
      BY <1>4, <3>5 DEF Counted
    <3>7. Unfinished(act.cur)'
      BY <2>6, <3>1, <3>2 DEF Unfinished
    <3>8. Len(result'[act'.cur].rows) + Len(up') = k
      BY <3>3, <3>4
    <3> QED
      BY <3>6, <3>7, <3>8
  <2> QED
    BY <1>0, <1>3, <2>6, <2>7, <2>8, <2>9, <2>10, ServeData
<1>7. CASE m.t = "copydone" /\ Ends(r, "executed") /\ Says(m, <<Msg("complete", r)>>) /\ mode' = "ready"
  <2>1. /\ \A s \in Requests : s # r => result'[s] = result[s]
        /\ result'[r].end = "executed" /\ result'[r].rows = result[r].rows
    BY <1>1, <1>7, EndedOne
  <2> DEFINE ms == <<Msg("complete", r)>>
  <2>2. ms \in Seq(DownMsg) /\ \A i \in DOMAIN ms : ms[i].t = "complete"
    BY <1>1, ShortReply DEF DownTypes
  <2>3. Says(m, ms)
    BY <1>7
  <2> HIDE DEF ms
  <2>4. Verdict'
    BY <1>0, <1>1, <1>7, <2>1, <2>2, <2>3, ServedVerdict
  <2>5. Chunks'
    BY <1>7 DEF Chunks
  <2>6. Len(result'[r].rows) = Len(seen[r]) + 1 /\ caller[r] \in {"await", "ended", "dropped"}
    <3>1. Len(result[r].rows) + 1 = Len(seen[r]) + 2 /\ caller[r] \in {"await", "ended", "dropped"}
      BY <1>0, <1>1, <1>7 DEF DInv, Chunks
    <3>2. result[r].rows \in Seq(Payload) /\ seen[r] \in Seq(Payload)
      BY <1>1 DEF ResultType, Shape
    <3>3. PICK a \in Nat, k \in Nat : a = Len(result[r].rows) /\ k = Len(seen[r])
      BY <3>2
    <3>4. a + 1 = k + 2 => a = k + 1
      OBVIOUS
    <3> QED
      BY <2>1, <3>1, <3>3, <3>4
  <2> QED
    BY <1>0, <1>7, <2>1, <2>4, <2>5, <2>6, ServeData
<1>8. CASE Ends(r, "failed") /\ Refuses(m, <<>>, "error")
  <2>1. /\ \A s \in Requests : s # r => result'[s] = result[s]
        /\ result'[r].end = "failed"
    BY <1>1, <1>8, EndedOne
  <2> DEFINE ms == <<Msg("error", r)>>
  <2>2. ms \in Seq(DownMsg) /\ 1 \in DOMAIN ms /\ \A i \in DOMAIN ms : ms[i].t = "error"
    BY <1>1, ShortReply DEF DownTypes
  <2>3. Says(m, ms) /\ mode' = "skip"
    <3>1. Append(<<>>, Msg("error", r)) = <<Msg("error", r)>>
      OBVIOUS
    <3> QED
      BY <1>8, <3>1 DEF Refuses
  <2> HIDE DEF ms
  <2>4. Tells(ms)
    BY <2>2 DEF Tells
  <2>5. Verdict'
    BY <1>0, <2>2, <2>3, <2>4, ServedVerdict
  <2>6. Chunks'
    BY <2>3 DEF Chunks
  <2> QED
    BY <1>0, <2>1, <2>3, <2>5, <2>6, ServeData
<1> QED
  BY <1>6, <1>7, <1>8 DEF ServeCopy

\* What the server makes of an Execute.
LEMMA Executed ==
  ASSUME IInv, ServeExecute, NEW r, r = Head(up).of
  PROVE  \E ms \in Seq(DownMsg), v \in ResultType :
           /\ Says(Head(up), ms) /\ result' = [result EXCEPT ![r] = v]
           /\ \A i \in DOMAIN ms : ms[i].t # "ready"
           /\ \/ mode' = "ready" /\ v.end = "executed" /\ kind[r] # "copyin"
              \/ mode' = "copy" /\ v = [rows |-> <<>>, end |-> "none"]
              \/ mode' = "skip" /\ v.end = "failed" /\ \E i \in DOMAIN ms : ms[i].t \in {"error", "stale"}
<1> USE ConnectionAssumption
<1> DEFINE m == Head(up)
<1>0. linked /\ up # <<>> /\ mode = "ready"
  BY DEF ServeExecute, Takes
<1>1. r \in Requests
  BY <1>0, ServerFacts
<1>r. ASSUME NEW rs \in Seq(Payload), NEW e \in {"none", "executed", "failed"}
      PROVE  [rows |-> rs, end |-> e] \in ResultType
  BY DEF ResultType
<1>e. <<>> \in Seq(Payload)
  OBVIOUS
<1> DEFINE Out(st, n) == CASE st = "rows" -> RowMsgs("row", r, n)
                           [] st = "copyout" -> <<Msg("copyout", r)>> \o RowMsgs("data", r, n)
                           [] st = "copyin" -> <<>>
           End(st) == IF st = "copyout" THEN <<Trailer(r), Msg("complete", r)>> ELSE <<Msg("complete", r)>>
<1>2. PICK st \in Outcomes(r), n \in 0..MaxRows :
           \/ /\ st # "copyin"
              /\ result' = [result EXCEPT ![r] = [rows |-> [i \in 1..n |-> Item(r, i)], end |-> "executed"]]
              /\ Says(m, Out(st, n) \o End(st))
              /\ UNCHANGED mode
           \/ /\ st = "copyin"
              /\ result' = [result EXCEPT ![r] = [rows |-> <<>>, end |-> "none"]]
              /\ Says(m, <<Msg("copyin", r)>>)
              /\ mode' = "copy"
           \/ /\ result' = [result EXCEPT ![r] = [rows |-> <<>>, end |-> "failed"]]
              /\ \E code \in {"error", "stale"} : Refuses(m, Out(st, n), code)
  BY ZenonT(40) DEF ServeExecute
<1>3. st \in {"rows", "copyin", "copyout"} /\ n \in Nat /\ (st # "copyin" => kind[r] # "copyin")
  BY DEF Outcomes
<1>4. Out(st, n) \in Seq(DataMsg) /\ End(st) \in Seq(DataMsg) /\ Out(st, n) \o End(st) \in Seq(DataMsg)
  <2>1. \A t \in {"complete", "copyout"} : Msg(t, r) \in DataMsg
    BY <1>1, <1>3, DataMsgs
  <2>2. Trailer(r) \in DataMsg /\ RowMsgs("row", r, n) \in Seq(DataMsg) /\ RowMsgs("data", r, n) \in Seq(DataMsg)
    BY <1>1, <1>3, DataMsgs
  <2> HIDE DEF m
  <2>3. <<Msg("copyout", r)>> \in Seq(DataMsg) /\ <<Msg("complete", r)>> \in Seq(DataMsg)
    BY <2>1
  <2>4. <<Trailer(r), Msg("complete", r)>> \in Seq(DataMsg)
    BY <2>1, <2>2
  <2>5. <<Msg("copyout", r)>> \o RowMsgs("data", r, n) \in Seq(DataMsg)
    BY <2>2, <2>3, Joined
  <2>6. <<>> \in Seq(DataMsg)
    OBVIOUS
  <2>7. Out(st, n) \in Seq(DataMsg)
    BY <1>3, <2>2, <2>5, <2>6
  <2>8. End(st) \in Seq(DataMsg)
    BY <2>3, <2>4
  <2> HIDE DEF Out, End
  <2> QED
    BY <2>7, <2>8, Joined
<1> HIDE DEF Out, End
<1>5. CASE /\ st # "copyin"
           /\ result' = [result EXCEPT ![r] = [rows |-> [i \in 1..n |-> Item(r, i)], end |-> "executed"]]
           /\ Says(m, Out(st, n) \o End(st))
           /\ UNCHANGED mode
  <2> DEFINE ms == Out(st, n) \o End(st)
             rs == [i \in 1..n |-> Item(r, i)]
             v == [rows |-> rs, end |-> "executed"]
  <2>1. ms \in Seq(DownMsg) /\ \A i \in DOMAIN ms : ms[i].t # "ready"
    BY <1>4, DataSeq
  <2>2. rs \in Seq(Payload)
    <3>1. \A i \in 1..n : Item(r, i) \in Payload
      BY <1>1, <1>3, Payloads
    <3>2. rs \in [1..n -> Payload]
      BY <3>1
    <3> QED
      BY <1>3, <3>2
  <2>3. v \in ResultType /\ v.end = "executed"
    BY <1>r, <2>2
  <2>4. mode' = "ready" /\ kind[r] # "copyin"
    BY <1>0, <1>3, <1>5
  <2>5. Says(m, ms) /\ result' = [result EXCEPT ![r] = v]
    BY <1>5
  <2> HIDE DEF ms, v
  <2> QED
    BY <2>1, <2>3, <2>4, <2>5
<1>6. CASE /\ result' = [result EXCEPT ![r] = [rows |-> <<>>, end |-> "none"]]
           /\ Says(m, <<Msg("copyin", r)>>)
           /\ mode' = "copy"
  <2> DEFINE ms == <<Msg("copyin", r)>>
             v == [rows |-> <<>>, end |-> "none"]
  <2>1. ms \in Seq(DownMsg) /\ \A i \in DOMAIN ms : ms[i].t # "ready"
    BY <1>1, ShortReply DEF DownTypes
  <2>2. v \in ResultType
    BY <1>r, <1>e
  <2>3. Says(m, ms) /\ result' = [result EXCEPT ![r] = v] /\ v = [rows |-> <<>>, end |-> "none"]
    BY <1>6
  <2> HIDE DEF ms, v
  <2> QED
    BY <1>6, <2>1, <2>2, <2>3
<1>7. CASE /\ result' = [result EXCEPT ![r] = [rows |-> <<>>, end |-> "failed"]]
           /\ \E code \in {"error", "stale"} : Refuses(m, Out(st, n), code)
  <2>1. PICK code \in {"error", "stale"} : Says(m, Append(Out(st, n), Msg(code, r))) /\ mode' = "skip"
    BY <1>7 DEF Refuses
  <2> DEFINE ms == Append(Out(st, n), Msg(code, r))
             v == [rows |-> <<>>, end |-> "failed"]
  <2>2. Out(st, n) \in Seq(DownMsg) /\ \A i \in DOMAIN Out(st, n) : Out(st, n)[i].t # "ready"
    BY <1>4, DataSeq
  <2>3. Msg(code, r) \in DownMsg /\ Msg(code, r).t \in {"error", "stale"}
    BY <1>1, ShortReply DEF DownTypes
  <2>4. /\ ms \in Seq(DownMsg) /\ (\A i \in DOMAIN ms : ms[i].t # "ready")
        /\ \E i \in DOMAIN ms : ms[i].t \in {"error", "stale"}
    <3> DEFINE s == Out(st, n)
               e == Msg(code, r)
    <3>1. s \in Seq(DownMsg) /\ e \in DownMsg
      BY <2>2, <2>3
    <3> HIDE DEF s, e
    <3>2. /\ Append(s, e) \in Seq(DownMsg)
          /\ \A i \in DOMAIN Append(s, e) : (i \in DOMAIN s /\ Append(s, e)[i] = s[i]) \/ Append(s, e)[i] = e
          /\ Len(s) + 1 \in DOMAIN Append(s, e) /\ Append(s, e)[Len(s) + 1] = e
      BY <3>1
    <3> QED
      BY <2>2, <2>3, <3>2 DEF s, e
  <2>5. v \in ResultType /\ v.end = "failed"
    BY <1>r, <1>e
  <2>6. Says(m, ms) /\ result' = [result EXCEPT ![r] = v]
    BY <1>7, <2>1
  <2> HIDE DEF ms, v
  <2> QED
    BY <2>1, <2>4, <2>5, <2>6
<1> QED
  BY <1>2, <1>5, <1>6, <1>7

LEMMA ServeExecuteData ==
  ASSUME IInv, DInv, ServeExecute PROVE DInv'
<1>0. /\ linked /\ up # <<>> /\ up' = Tail(up) /\ ServerKeeps /\ mode = "ready" /\ Head(up).t = "execute"
  BY DEF ServeExecute, Takes
<1> DEFINE r == Head(up).of
<1>1. /\ r \in Requests /\ Head(up) = up[1] /\ 1 \in DOMAIN up /\ result \in [Requests -> ResultType]
      /\ act.at \in {"copyin", "feed"} => ~broken /\ Loop = act.at
      /\ ~broken => r = act.cur /\ ~Resting
      /\ \A i \in DOMAIN Tail(up) : i + 1 \in DOMAIN up /\ Tail(up)[i] = up[i + 1] /\ up[i + 1].of = r
  BY <1>0, Serving
<1>2. PICK ms \in Seq(DownMsg), v \in ResultType :
           /\ Says(Head(up), ms) /\ result' = [result EXCEPT ![r] = v]
           /\ \A i \in DOMAIN ms : ms[i].t # "ready"
           /\ \/ mode' = "ready" /\ v.end = "executed" /\ kind[r] # "copyin"
              \/ mode' = "copy" /\ v = [rows |-> <<>>, end |-> "none"]
              \/ mode' = "skip" /\ v.end = "failed" /\ \E i \in DOMAIN ms : ms[i].t \in {"error", "stale"}
  BY Executed
<1>3. result'[r] = v /\ \A s \in Requests : s # r => result'[s] = result[s]
  BY <1>1, <1>2
<1>4. Verdict'
  <2>1. mode' = "skip" => Tells(ms)
    BY <1>2 DEF Tells
  <2>2. ~broken /\ mode' = "ready" => result'[act.cur].end = "executed"
    BY <1>1, <1>2, <1>3
  <2> QED
    BY <1>0, <1>2, <2>1, <2>2, ServedVerdict
<1>5. kind[r] = "copyin" => v.end \notin {"executed", "complete"}
  BY <1>2
<1>6. Chunks'
  <2> SUFFICES ASSUME mode' = "copy" PROVE Chunks'
    BY DEF Chunks
  <2>1. v.end = "none"
    BY <1>2
  <2>2. \A i \in DOMAIN up' : up'[i].of = r /\ up'[i].t # "copydone"
    BY <1>0, <1>1 DEF DInv, Posted
  <2>3. \A i \in DOMAIN up' : result'[up'[i].of].end = "none"
    BY <1>3, <2>1, <2>2
  <2> QED
    BY <2>2, <2>3 DEF Chunks, Unfinished
<1>7. act.at = "copyin" /\ mode' = "copy" => result'[act.cur].rows = <<>> /\ Unfinished(act.cur)'
  <2> SUFFICES ASSUME act.at = "copyin", mode' = "copy" PROVE result'[act.cur].rows = <<>> /\ Unfinished(act.cur)'
    OBVIOUS
  <2>1. r = act.cur /\ act' = act
    BY <1>0, <1>1 DEF ServerKeeps
  <2>2. result'[act.cur] = [rows |-> <<>>, end |-> "none"]
    BY <1>2, <1>3, <2>1
  <2> QED
    BY <2>1, <2>2 DEF Unfinished
<1>8. act.at # "feed"
  BY <1>0, <1>1, Heads
<1> QED
  BY <1>0, <1>3, <1>4, <1>5, <1>6, <1>7, <1>8, ServeData

\* A script that ends with an error says so.
LEMMA ScriptError ==
  ASSUME NEW script \in Scripts, NEW r \in Requests
  PROVE  LET ran == Ran(script)
             msgs == [i \in DOMAIN ran |-> StatementReply(ran[i], r)]
             replies == IF Len(msgs) = 1 THEN msgs[1] ELSE msgs[1] \o msgs[2]
         IN  ran[Len(ran)] = "err" => \E i \in DOMAIN replies : replies[i].t = "error"
<1> DEFINE ran == Ran(script)
           msgs == [i \in DOMAIN ran |-> StatementReply(ran[i], r)]
           c == ran[Len(ran)] = "copyin"
           replies == IF Len(msgs) = 1 THEN msgs[1] ELSE msgs[1] \o msgs[2]
<1> SUFFICES ASSUME ran[Len(ran)] = "err" PROVE \E i \in DOMAIN replies : replies[i].t = "error"
  OBVIOUS
<1>1. /\ ran \in Seq(StatementTypes) /\ Len(ran) \in {1, 2}
      /\ \A i \in DOMAIN ran : ran[i] = "copyin" => i = Len(ran)
  BY RanScript
<1>2. Msg("error", r).t = "error" /\ <<Msg("error", r)>> \in Seq(ScriptMsg(c))
  <2>1. Msg("error", r) \in ScriptMsg(c) /\ Msg("error", r).t = "error"
    BY ShortReply DEF ScriptMsg, DownTypes
  <2> QED
    BY <2>1
<1>3. StatementReply("err", r) = <<Msg("error", r)>>
  BY DEF StatementReply
<1> HIDE DEF ran
<1>4. DOMAIN ran = 1..Len(ran) /\ \A i \in DOMAIN ran : ran[i] \in StatementTypes
  BY <1>1
<1>5. \A i \in DOMAIN ran : StatementReply(ran[i], r) \in Seq(ScriptMsg(c))
  BY <1>1, <1>4, StatementReplies
<1>6. Len(ran) \in DOMAIN ran
  BY <1>1, <1>4
<1>7. msgs[Len(ran)] = <<Msg("error", r)>> /\ DOMAIN msgs = 1..Len(ran) /\ \A i \in 1..Len(ran) : msgs[i] \in Seq(ScriptMsg(c))
  BY <1>3, <1>4, <1>5, <1>6
<1>8. Len(msgs) = Len(ran)
  <2>1. msgs \in [1..Len(ran) -> Seq(ScriptMsg(c))] /\ Len(ran) \in Nat
    BY <1>1, <1>4, <1>5
  <2> QED
    BY <2>1
<1> HIDE DEF msgs
<1>9. CASE Len(ran) = 1
  <2>1. replies = <<Msg("error", r)>>
    BY <1>7, <1>8, <1>9
  <2> HIDE DEF replies
  <2>2. 1 \in DOMAIN replies /\ replies[1] = Msg("error", r)
    BY <2>1
  <2> QED
    BY <1>2, <2>2
<1>10. CASE Len(ran) = 2
  <2> DEFINE a == msgs[1]
             z == <<Msg("error", r)>>
  <2>0. Len(msgs) = 2 /\ msgs[2] = z /\ 1 \in 1..Len(ran) /\ ~(Len(msgs) = 1)
    BY <1>7, <1>8, <1>10
  <2>1. a \in Seq(ScriptMsg(c)) /\ z \in Seq(ScriptMsg(c)) /\ replies = a \o z
    BY <1>2, <1>7, <2>0
  <2>2. 1 \in DOMAIN z /\ z[1] = Msg("error", r) /\ Len(z) = 1
    OBVIOUS
  <2> HIDE DEF a, z
  <2>3. (a \o z)[Len(a) + 1] = z[1] /\ DOMAIN (a \o z) = 1..(Len(a) + Len(z)) /\ Len(a) \in Nat
    BY <2>1, <2>2, Joined
  <2>4. Len(a) + 1 \in DOMAIN (a \o z)
    BY <2>2, <2>3
  <2> QED
    BY <1>2, <2>1, <2>2, <2>3, <2>4
<1> QED
  BY <1>1, <1>9, <1>10

LEMMA ServeScriptData ==
  ASSUME IInv, DInv, ServeScript PROVE DInv'
<1> DEFINE m == Head(up)
<1>0. linked /\ up # <<>> /\ up' = Tail(up) /\ ServerKeeps /\ mode = "ready" /\ m.t = "query"
  BY DEF ServeScript, Takes
<1>1. /\ m.of \in Requests /\ m = up[1] /\ 1 \in DOMAIN up /\ (~broken => m.of = act.cur)
      /\ act.at \in {"copyin", "feed"} => ~broken /\ Loop = act.at
  BY <1>0, Serving, SMTT(30)
<1>2. PICK script \in Scripts :
        LET ran == Ran(script)
            last == ran[Len(ran)]
            msgs == [i \in DOMAIN ran |-> StatementReply(ran[i], m.of)]
            replies == IF Len(msgs) = 1 THEN msgs[1] ELSE msgs[1] \o msgs[2]
        IN  /\ Says(m, IF last = "copyin" THEN replies ELSE Append(replies, Msg("ready", m.of)))
            /\ mode' = IF last = "copyin" THEN "scriptcopy" ELSE "ready"
            /\ Ends(m.of, IF last \in {"err", "copyin"} THEN "failed" ELSE "complete")
  BY DEF ServeScript, Ran, Stops
<1> DEFINE ran == Ran(script)
           last == ran[Len(ran)]
           msgs == [i \in DOMAIN ran |-> StatementReply(ran[i], m.of)]
           replies == IF Len(msgs) = 1 THEN msgs[1] ELSE msgs[1] \o msgs[2]
           ms == IF last = "copyin" THEN replies ELSE Append(replies, Msg("ready", m.of))
<1>3. /\ Says(m, ms) /\ mode' = (IF last = "copyin" THEN "scriptcopy" ELSE "ready")
      /\ Ends(m.of, IF last \in {"err", "copyin"} THEN "failed" ELSE "complete")
  BY <1>2
<1>4. replies \in Seq(ScriptMsg(last = "copyin")) /\ (last = "err" => \E i \in DOMAIN replies : replies[i].t = "error")
  BY <1>1, ScriptReplies, ScriptError
<1> HIDE DEF replies, last
<1>5. /\ replies \in Seq(DownMsg)
      /\ \A i \in DOMAIN replies : replies[i].t # "ready"
  BY <1>4, ScriptSeq
<1>6. Msg("ready", m.of) \in DownMsg
  BY <1>1, ShortReply DEF DownTypes
<1>7. /\ ms \in Seq(DownMsg)
      /\ last = "copyin" => \A i \in DOMAIN ms : ms[i].t # "ready"
      /\ last = "err" => \E i \in DOMAIN ms : ms[i].t = "error"
  <2>1. CASE last = "copyin"
    BY <1>5, <2>1
  <2>2. CASE last # "copyin"
    <3> DEFINE e == Msg("ready", m.of)
    <3>1. replies \in Seq(DownMsg) /\ e \in DownMsg
      BY <1>5, <1>6
    <3>2. ms = Append(replies, e)
      BY <2>2
    <3> HIDE DEF e, ms
    <3>3. /\ Append(replies, e) \in Seq(DownMsg)
          /\ \A i \in DOMAIN replies : i \in DOMAIN Append(replies, e) /\ Append(replies, e)[i] = replies[i]
      BY <3>1
    <3> QED
      BY <1>4, <2>2, <3>2, <3>3
  <2> QED
    BY <2>1, <2>2
<1> HIDE DEF ms
<1>8. last = "err" => Tells(ms)
  BY <1>7 DEF Tells
<1>9. /\ \A s \in Requests : s # m.of => result'[s] = result[s]
      /\ result'[m.of].end = (IF last \in {"err", "copyin"} THEN "failed" ELSE "complete")
  BY <1>1, <1>3, EndedOne
<1>10. ~broken => Loop = "script"
  BY <1>0, <1>1, Heads
<1>11. Verdict'
  BY <1>0, <1>1, <1>3, <1>7, <1>8, <1>9, <1>10, ServedVerdict
<1>12. mode' # "copy"
  BY <1>3
<1>13. Chunks'
  BY <1>12 DEF Chunks
<1>14. kind[m.of] # "copyin"
  BY <1>0, <1>1 DEF DInv, Posted
<1> QED
  BY <1>0, <1>9, <1>11, <1>12, <1>13, <1>14, ServeData

LEMMA ServerNotifiesData ==
  ASSUME IInv, DInv, ServerNotifies PROVE DInv'
<1>1. /\ UNCHANGED <<queue, kind, caller, seen, lost, chan, rx, done, act, broken, linked, up, mode, result>>
      /\ down' = Append(down, Msg("async", None)) /\ Loop' = Loop /\ Resting' = Resting
  BY DEF ServerNotifies, ServerKeeps, client, channels, server, Loop, Resting
<1>2. /\ \A i \in DOMAIN down : i \in DOMAIN down' /\ down'[i] = down[i]
      /\ \A i \in DOMAIN down' : (i \in DOMAIN down /\ down'[i] = down[i]) \/ down'[i].t = "async"
  <2> DEFINE e == Msg("async", None)
  <2>1. e \in DownMsg /\ e.t = "async" /\ down \in Seq(DownMsg)
    BY ActorFacts DEF Msg, DownMsg, DownTypes
  <2> HIDE DEF e
  <2>2. /\ \A i \in DOMAIN down : i \in DOMAIN Append(down, e) /\ Append(down, e)[i] = down[i]
        /\ \A i \in DOMAIN Append(down, e) : (i \in DOMAIN down /\ Append(down, e)[i] = down[i]) \/ Append(down, e)[i] = e
    BY <2>1
  <2> QED
    BY <1>1, <2>1, <2>2 DEF e
<1>3. Told => Told'
  BY <1>1, <1>2 DEF Told
<1>4. (\E i \in DOMAIN down' : down'[i].t = "ready") => \E i \in DOMAIN down : down[i].t = "ready"
  BY <1>2
<1>5. Verdict'
  BY <1>1, <1>3, <1>4 DEF DInv, Verdict
<1>6. Fifo' /\ Settled'
  BY <1>1, FifoKept, SettledKept DEF DInv, Busy
<1>7. Posted'
  BY <1>1, ActorFacts, PostedKept DEF DInv
<1> QED
  BY <1>1, <1>5, <1>6, <1>7, QueuedKept, ChunksKept, WholeKept DEF DInv

LEMMA LoseData ==
  ASSUME IInv, DInv, Lose PROVE DInv'
<1>1. /\ UNCHANGED <<queue, kind, caller, seen, lost, chan, rx, done, act, broken, down, mode, result>>
      /\ linked' = FALSE /\ up' = <<>> /\ Loop' = Loop /\ Resting' = Resting
  BY DEF Lose, client, channels, server, Loop, Resting
<1>2. DOMAIN up' = {}
  BY <1>1
<1>3. Verdict'
  BY <1>1, <1>2 DEF DInv, Verdict, Told
<1>4. Fifo' /\ Settled' /\ Whole'
  BY <1>1, FifoKept, SettledKept, WholeKept DEF DInv, Busy
<1>5. Posted' /\ Chunks'
  BY <1>2 DEF Posted, Chunks
<1>6. Queued'
  <2>1. \A s, n : Counted(s, n) => Counted(s, n)'
    BY <1>1 DEF Counted
  <2>2. \A s \in Requests : kind'[s] = "copyin" /\ (\E i \in DOMAIN queue' : queue'[i] = s) => Counted(s, 0)'
    BY <1>1, <2>1 DEF DInv, Queued
  <2>3. act'.at = "copyin" => Counted(act.cur, 0)'
    BY <1>1, <2>1 DEF DInv, Queued, Counted
  <2> QED
    BY <1>1, <2>2, <2>3 DEF Queued
<1> QED
  BY <1>3, <1>4, <1>5, <1>6 DEF DInv

LEMMA DInvInit ==
  ASSUME Init PROVE DInv
<1>1. /\ queue = <<>> /\ up = <<>> /\ act = Idle /\ mode = "ready" /\ Idle.at = "idle"
      /\ \A r \in Requests : done[r] = "none" /\ result[r].end = "none"
  BY DEF Init, Idle
<1>2. DOMAIN queue = {} /\ DOMAIN up = {} /\ act.at = "idle"
  BY <1>1
<1>3. Fifo /\ Posted
  BY <1>1, <1>2 DEF Fifo, Posted, Busy
<1>4. Verdict /\ Settled
  BY <1>1, <1>2 DEF Verdict, Settled, Resting
<1>5. Queued /\ Chunks
  BY <1>1, <1>2 DEF Queued, Chunks
<1>6. Whole
  BY <1>1 DEF Whole, Stored, Unfinished
<1> QED
  BY <1>3, <1>4, <1>5, <1>6 DEF DInv

LEMMA DInvNext ==
  ASSUME IInv, DInv, [Next]_vars PROVE DInv'
<1>1. CASE Actor
  BY <1>1, ActorData
<1>2. CASE Server
  BY <1>2, ServePrepareData, ServeExecuteData, ServeSyncData, ServeDiscardData, ServeCopyData,
     ServeScriptData, ServeScriptCopyData DEF Server
<1>3. CASE ServerNotifies \/ Lose
  BY <1>3, ServerNotifiesData, LoseData
<1>4. CASE \E r \in Requests : Handle(r) \/ Write(r) \/ DropWrite(r) \/ Drop(r) \/ \E k \in Kinds : Submit(r, k)
  BY <1>4, CallerData, SubmitData DEF Handle, Writes
<1>5. CASE UNCHANGED vars
  <2>1. UNCHANGED <<queue, kind, caller, seen, lost, chan, rx, done, act, broken, linked, up, down, mode, result>>
    BY <1>5 DEF vars, client, channels, server, world
  <2>2. Verdict'
    BY <2>1, ActorFacts, VerdictKept DEF DInv, Typed
  <2>3. Fifo' /\ Settled' /\ Posted'
    BY <2>1, ActorFacts, FifoKept, SettledKept, PostedKept DEF DInv, Busy
  <2> QED
    BY <2>1, <2>2, <2>3, QueuedKept, ChunksKept, WholeKept DEF DInv
<1> QED
  BY <1>1, <1>2, <1>3, <1>4, <1>5 DEF Next

LEMMA Reported ==
  ASSUME PrepareIntact
  PROVE  Spec => [](IInv /\ DInv)
<1>1. Init => IInv /\ DInv
  BY IInvInit, DInvInit
<1>2. (IInv /\ DInv) /\ [Next]_vars => (IInv /\ DInv)'
  BY IInvNext, DInvNext
<1> QED
  BY <1>1, <1>2, PTL DEF Spec

\* Nobody is told of a success that did not happen (connection.rs, the results
\* of handle_query, handle_script and sync_and_drain): whatever is lost,
\* garbled or dropped along the way, done is Ok only for a request the server
\* has completed, and a COPY that succeeds has stored all the chunks that got into its channel.
THEOREM SuccessIsTrue ==
  ASSUME PrepareIntact
  PROVE  Spec => []NoFalseSuccess
<1>1. IInv /\ DInv => NoFalseSuccess
  BY DEF DInv, Settled, Whole, Stored, Unfinished, NoFalseSuccess
<1> QED
  BY <1>1, Reported, PTL

\* Only a COPY whose writer has called finish is committed, and then with every
\* chunk that was written, but those whose write was given up while it waited
\* for room (handle_copy_in, CopyInWriter::append, finish and drop), also on a
\* connection that broke while the data was on its way.
THEOREM CopyIsWhole ==
  ASSUME PrepareIntact
  PROVE  Spec => []CopyAllOrNothing
<1>1. IInv /\ DInv => CopyAllOrNothing
  <2> SUFFICES ASSUME IInv, DInv, NEW r \in Requests, kind[r] = "copyin", ~Unfinished(r)
               PROVE  /\ Len(result[r].rows) + lost[r] = Written(r) + 1
                      /\ caller[r] \in {"await", "ended", "dropped"}
    BY DEF CopyAllOrNothing, Unfinished
  <2>1. Len(result[r].rows) = Len(seen[r]) + 1 /\ caller[r] \in {"await", "ended", "dropped"}
    BY DEF DInv, Whole, Stored
  <2>2. lost[r] \in Nat /\ Len(seen[r]) \in Nat
    <3>1. lost \in [Requests -> Nat] /\ seen \in [Requests -> Seq(Payload)]
      BY DEF IInv, TypeOK, Shape
    <3> QED
      BY <3>1
  <2> QED
    BY <2>1, <2>2 DEF Written
<1> QED
  BY <1>1, Reported, PTL
=============================================================================
