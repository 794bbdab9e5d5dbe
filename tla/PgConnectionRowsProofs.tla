----------------------- MODULE PgConnectionRowsProofs -----------------------
(***************************************************************************)
(* What the streams of PgConnection deliver.                               *)
(*                                                                         *)
(* RInv, on top of the invariants of PgConnectionProofs, follows the rows  *)
(* of a stream from the server to the caller: on the wire each comes       *)
(* behind the one before it or behind something that ends the handler      *)
(* (Coming), the last one has been taken or is still to come (Tally), and  *)
(* in the channel and with the caller each is in its place (Given).  A     *)
(* statement is executed again only if nothing of the first execution can  *)
(* have been delivered (Fresh, Executes).                                  *)
(***************************************************************************)
EXTENDS PgConnectionProofs

Stream(r) == caller[r] # "new" /\ kind[r] \in Streams

\* A stream has its receiver while it is read, and its sender until the request
\* is answered.
Held ==
  \A r \in Requests : Stream(r) =>
    /\ caller[r] \in {"open", "ended", "dropped"}
    /\ r \in rx <=> caller[r] = "open"
    /\ done[r] = "none" => r \in tx
    /\ caller[r] = "ended" /\ kind[r] = "fetch" => r \notin tx

\* Nothing was delivered for a request that is not executed yet.
Fresh ==
  /\ \A r \in Requests : caller[r] = "new" => seen[r] = <<>> /\ chan[r] = <<>>
  /\ \A i \in DOMAIN queue :
       /\ kind[queue[i]] \in Streams => seen[queue[i]] = <<>> /\ chan[queue[i]] = <<>>
       /\ ~broken => result[queue[i]].end = "none"
  /\ Busy /\ ~act.sent =>
       /\ kind[act.cur] \in Streams => seen[act.cur] = <<>> /\ chan[act.cur] = <<>>
       /\ act.at # "send"

Stale == act.err = "stale" \/ \E i \in DOMAIN down : down[i].t = "stale"

\* While a statement is still to be executed none of its rows is on the wire, and
\* an execution that is going to be repeated has failed.
Executes ==
  /\ Loop = "prepare" => Unfinished(act.cur) /\ ~act.sent
  /\ Loop \in {"exec", "copyout"} => \A i \in DOMAIN up : up[i].t = "execute" =>
       /\ Unfinished(act.cur) /\ ~act.sent
       /\ \A j \in DOMAIN down : down[j].t \notin ItemTypes
  /\ Loop = "exec" /\ Stale => Unfinished(act.cur) /\ (mode = "skip" \/ up = <<>>)

\* The rows of a result are numbered, and chunks are sent for COPY FROM only.
Numbered ==
  /\ \A r \in Requests : \A i \in DOMAIN result[r].rows : result[r].rows[i] = Item(r, i)
  /\ \A i \in DOMAIN up : up[i].t = "copydata" => kind[up[i].of] = "copyin"

\* The server has executed the statement of r and is not going to again.
RanOnce(r) == result[r].end # "none" /\ \A i \in DOMAIN up : up[i].of = r => up[i].t # "execute"

\* x may be the p-th item of the stream of r.
Fitting(r, x, p) ==
  \/ x.is = "err"
  \/ x = Item(r, p)
  \/ kind[r] = "copyout" /\ x = Mark("trailer") /\ p = Len(result[r].rows) + 1 /\ RanOnce(r)

\* How many items were passed on to the stream of r, and how many were taken
\* from the wire for the request being served.
Passed(r) == Len(seen[r]) + Len(chan[r])
Taken == Passed(act.cur) + (IF act.at = "send" THEN 1 ELSE 0)

Given ==
  \A r \in Requests : Stream(r) =>
    /\ \A i \in DOMAIN seen[r] : Fitting(r, seen[r][i], i)
    /\ \A i \in DOMAIN chan[r] : Fitting(r, chan[r][i], Len(seen[r]) + i)
    /\ act.at = "send" /\ act.cur = r /\ r \in rx => Fitting(r, act.item, Passed(r) + 1)

\* Rows are read for a stream that somebody reads.
Flowing == Loop \in {"exec", "copyout"} /\ kind[act.cur] \in Streams /\ act.cur \in rx
RowType == IF Loop = "exec" THEN "row" ELSE "data"

\* n comes right after what was taken, after the row in front of place i, or
\* after something that cannot be read.
Follows(i, n) ==
  \/ n = Taken + 1 /\ \A j \in DOMAIN down : j < i => down[j].t # RowType
  \/ i > 1 /\ down[i - 1].t = RowType /\ n = down[i - 1].item.n + 1
  \/ i > 1 /\ down[i - 1].t \in {"bad", "huge"}

RowAt(i) ==
  /\ down[i].item.is = "err" \/ down[i].item = Item(act.cur, down[i].item.n)
  /\ Follows(i, down[i].item.n)

TrailerAt(i) ==
  /\ result[act.cur].end # "none" /\ down[i].item = Mark("trailer")
  /\ \A j \in DOMAIN down : j > i => down[j].t \notin ItemTypes
  /\ Follows(i, Len(result[act.cur].rows) + 1)

\* The rows on the wire come in order, and the trailer after the last of them.
Coming ==
  Flowing => \A i \in DOMAIN down :
    /\ down[i].t = RowType => RowAt(i)
    /\ Loop = "copyout" /\ down[i].t = "trailer" => TrailerAt(i)

\* The last row has been taken or is on the wire, or the handler will fail.
Tally ==
  /\ Flowing /\ Loop = "exec" /\ ~Unfinished(act.cur) =>
       /\ \A i \in DOMAIN down : down[i].t = "row" => down[i].item.n <= Len(result[act.cur].rows)
       /\ \/ Taken = Len(result[act.cur].rows)
          \/ \E i \in DOMAIN down : \/ down[i].t = "row" /\ down[i].item.n = Len(result[act.cur].rows)
                                    \/ down[i].t \in {"bad", "huge", "copyout"}
  /\ act.at = "settle" /\ act.err = "none" /\ kind[act.cur] = "fetch" /\ act.cur \in rx =>
       Passed(act.cur) = Len(result[act.cur].rows)

Erred(s) == \E i \in DOMAIN s : s[i].is = "err"

\* A query that is answered has passed on all its rows, or an error.
Closed ==
  \A r \in Requests : Stream(r) /\ kind[r] = "fetch" /\ r \in rx =>
    /\ done[r] = "ok" => Passed(r) = Len(result[r].rows)
    /\ done[r] = "err" => Erred(seen[r]) \/ Erred(chan[r])
    /\ done[r] = "refused" => Passed(r) = 0

\* NoSilentTruncation, by numbers: the items themselves are Fitting.
Final ==
  \A r \in Requests : Stream(r) /\ caller[r] = "ended" =>
    \/ Erred(seen[r])
    \/ kind[r] = "fetch" /\ done[r] = "refused" /\ seen[r] = <<>>
    \/ /\ RanOnce(r)
       /\ IF kind[r] = "fetch" THEN Len(seen[r]) = Len(result[r].rows)
          ELSE Len(seen[r]) = Len(result[r].rows) + 1 /\ seen[r][Len(seen[r])] = Mark("trailer")

RInv == Held /\ Fresh /\ Executes /\ Numbered /\ Given /\ Coming /\ Tally /\ Closed /\ Final

-----------------------------------------------------------------------------
(* Steps that change nothing of it, part by part. *)

\* What was executed for a stream is not executed again.
Keeping ==
  \A r \in Requests : (kind[r] = "copyout" \/ (Stream(r) /\ caller[r] = "ended")) /\ RanOnce(r) =>
    RanOnce(r)' /\ Len(result'[r].rows) = Len(result[r].rows)

LEMMA KeepingUp ==
  ASSUME result' = result, \A i \in DOMAIN up' : \E j \in DOMAIN up : up'[i] = up[j]
  PROVE  Keeping
  BY DEF Keeping, RanOnce

LEMMA UpFlushed ==
  ASSUME up \in Seq(UpMsg), NEW ts \in Seq(UpTypes), NEW c \in Requests, Flushed(ts, c)
  PROVE  /\ \A i \in DOMAIN up' : \/ \E j \in DOMAIN up : up'[i] = up[j]
                                  \/ linked /\ up'[i].of = c /\ \E j \in DOMAIN ts : up'[i].t = ts[j]
         /\ up = <<>> /\ linked => up' = Batch(ts, c)
<1>1. CASE ~linked
  BY <1>1 DEF Flushed
<1>2. CASE linked
  <2> DEFINE b == Batch(ts, c)
  <2>1. /\ b \in Seq(UpMsg) /\ DOMAIN b = 1..Len(ts) /\ DOMAIN ts = 1..Len(ts)
        /\ \A i \in 1..Len(ts) : b[i].t = ts[i] /\ b[i].of = c
    BY Batched
  <2>2. up' = up \o b
    BY <1>2 DEF Flushed
  <2> HIDE DEF b
  <2>3. \A i \in DOMAIN (up \o b) :
          IF i <= Len(up) THEN i \in DOMAIN up /\ (up \o b)[i] = up[i]
                          ELSE i - Len(up) \in DOMAIN b /\ (up \o b)[i] = b[i - Len(up)]
    BY <2>1, Joined
  <2>4. up = <<>> => up' = b
    BY <2>1, <2>2
  <2>a. \A i \in DOMAIN up' :
          IF i <= Len(up) THEN i \in DOMAIN up /\ up'[i] = up[i]
                          ELSE i - Len(up) \in DOMAIN ts /\ up'[i].t = ts[i - Len(up)] /\ up'[i].of = c
    BY <2>1, <2>2, <2>3
  <2>5. ASSUME NEW i \in DOMAIN up'
        PROVE  \/ \E j \in DOMAIN up : up'[i] = up[j]
               \/ up'[i].of = c /\ \E j \in DOMAIN ts : up'[i].t = ts[j]
    <3>1. CASE i <= Len(up)
      BY <2>a, <3>1
    <3>2. CASE ~(i <= Len(up))
      BY <2>a, <3>2
    <3> QED
      BY <3>1, <3>2
  <2> QED
    BY <1>2, <2>4, <2>5 DEF b
<1> QED
  BY <1>1, <1>2 DEF Flushed

LEMMA KeepingFlushed ==
  ASSUME up \in Seq(UpMsg), NEW ts \in Seq(UpTypes), NEW c \in Requests, Flushed(ts, c), result' = result,
         (\E i \in DOMAIN ts : ts[i] = "execute") =>
           /\ kind[c] = "copyout" => ~RanOnce(c)
           /\ Stream(c) => caller[c] # "ended" \/ ~RanOnce(c)
  PROVE  Keeping
<1>1. \A i \in DOMAIN up' : \/ \E j \in DOMAIN up : up'[i] = up[j]
                            \/ up'[i].of = c /\ \E j \in DOMAIN ts : up'[i].t = ts[j]
  BY UpFlushed
<1> QED
  BY <1>1 DEF Keeping, RanOnce

LEMMA GivenKept ==
  ASSUME Given, Keeping, UNCHANGED <<kind, caller, seen>>, \A r \in Requests : Stream(r) => chan'[r] = chan[r],
         act'.at = "send" => act.at = "send" /\ act'.cur = act.cur /\ act'.item = act.item /\ rx' \subseteq rx
  PROVE  Given'
<1>1. ASSUME NEW r \in Requests, NEW x, NEW p, kind[r] = "copyout", x = Mark("trailer"), p = Len(result[r].rows) + 1, RanOnce(r)
      PROVE  p = Len(result'[r].rows) + 1 /\ RanOnce(r)'
  BY <1>1 DEF Keeping
<1>2. ASSUME NEW r \in Requests, Stream(r)'
      PROVE  /\ \A i \in DOMAIN seen'[r] : Fitting(r, seen[r][i], i)'
             /\ \A i \in DOMAIN chan'[r] : Fitting(r, chan[r][i], Len(seen[r]) + i)'
             /\ act'.at = "send" /\ act'.cur = r /\ r \in rx' => Fitting(r, act.item, Passed(r) + 1)'
  <2>1. Stream(r)
    BY <1>2 DEF Stream
  <2>2. seen'[r] = seen[r] /\ chan'[r] = chan[r] /\ Passed(r)' = Passed(r)
    BY <2>1 DEF Passed
  <2>3. \A x, p : Fitting(r, x, p) => Fitting(r, x, p)'
    BY <1>1 DEF Fitting
  <2>4. act'.at = "send" /\ act'.cur = r /\ r \in rx' => Fitting(r, act.item, Passed(r) + 1) /\ act'.item = act.item
    BY <2>1 DEF Given
  <2>5. act'.at = "send" /\ act'.cur = r /\ r \in rx' => Fitting(r, act.item, Passed(r) + 1)'
    BY <2>2, <2>3, <2>4 DEF Fitting, Passed
  <2> QED
    BY <2>1, <2>2, <2>3, <2>5 DEF Given, Fitting
<1> QED
  BY <1>2 DEF Given

LEMMA FinalKept ==
  ASSUME Final, Keeping, \A r \in Requests : done[r] = "refused" => done'[r] = "refused",
         \A r \in Requests : Stream(r)' /\ caller'[r] = "ended" =>
           Stream(r) /\ caller[r] = "ended" /\ kind'[r] = kind[r] /\ seen'[r] = seen[r]
  PROVE  Final'
<1> SUFFICES ASSUME NEW r \in Requests, Stream(r)', caller'[r] = "ended"
             PROVE  \/ Erred(seen[r])'
                    \/ kind'[r] = "fetch" /\ done'[r] = "refused" /\ seen'[r] = <<>>
                    \/ /\ RanOnce(r)'
                       /\ IF kind'[r] = "fetch" THEN Len(seen'[r]) = Len(result'[r].rows)
                          ELSE Len(seen'[r]) = Len(result'[r].rows) + 1 /\ seen'[r][Len(seen'[r])] = Mark("trailer")
  BY DEF Final
<1>1. Stream(r) /\ caller[r] = "ended" /\ kind'[r] = kind[r] /\ seen'[r] = seen[r]
  OBVIOUS
<1>2. Erred(seen[r]) => Erred(seen[r])'
  BY <1>1 DEF Erred
<1>3. RanOnce(r) => RanOnce(r)' /\ Len(result'[r].rows) = Len(result[r].rows)
  BY <1>1 DEF Keeping
<1> QED
  BY <1>1, <1>2, <1>3 DEF Final

LEMMA HeldKept ==
  ASSUME Held, UNCHANGED <<kind, caller, rx, tx, done>>
  PROVE  Held'
  BY DEF Held, Stream

LEMMA ClosedKept ==
  ASSUME Closed, UNCHANGED <<kind, caller, seen, done>>, rx' \subseteq rx,
         \A r \in Requests : Stream(r) => chan'[r] = chan[r],
         \A r \in Requests : done[r] = "ok" => result'[r] = result[r]
  PROVE  Closed'
<1>1. ASSUME NEW r \in Requests, Stream(r)', kind'[r] = "fetch", r \in rx'
      PROVE  Stream(r) /\ kind[r] = "fetch" /\ r \in rx
  BY <1>1 DEF Stream
<1> QED
  BY <1>1 DEF Closed, Erred, Passed

LEMMA TakenKept ==
  ASSUME Coming, Tally, UNCHANGED <<down, result>>, act'.cur = act.cur, Loop' = Loop,
         Flowing' => Flowing /\ Taken' = Taken
  PROVE  Coming' /\ (act'.at # "settle" => Tally')
<1> SUFFICES ASSUME Flowing' PROVE Coming' /\ (act'.at # "settle" => Tally')
  BY DEF Coming, Tally
<1>1. Flowing /\ Taken' = Taken /\ RowType' = RowType
  BY DEF RowType
<1>2. \A i, n : Follows(i, n) => Follows(i, n)'
  BY <1>1 DEF Follows
<1>3. Coming'
  BY <1>1, <1>2 DEF Coming, RowAt, TrailerAt, Follows
<1>4. act'.at # "settle" => Tally'
  BY <1>1 DEF Tally, Unfinished
<1> QED
  BY <1>3, <1>4

-----------------------------------------------------------------------------
(* The handles. *)

\* The reader of a stream moves an item, goes away, or is told that it is at the
\* end; a step of another handle is no concern of a stream.
LEMMA StreamMoves ==
  ASSUME Typed, Held, NEW r \in Requests,
         Receive(r) \/ Answered(r) \/ Writes(r) \/ Finish(r) \/ Drop(r)
  PROVE  /\ UNCHANGED <<queue, kind, act, up, down, broken, mode, linked, done, result>>
         /\ tx' \subseteq tx /\ \A s \in Requests : kind[s] \in Streams /\ s \in tx => s \in tx'
         /\ Stream(r) =>
              /\ caller[r] = "open" /\ r \in rx
              /\ \/ /\ chan[r] # <<>> /\ chan'[r] = Tail(chan[r]) /\ seen'[r] = Append(seen[r], Head(chan[r]))
                    /\ \/ caller'[r] = caller[r] /\ rx' = rx
                       \/ /\ kind[r] = "copyout" /\ Head(chan[r]).is \in {"err", "trailer"}
                          /\ caller'[r] = "ended" /\ rx' = rx \ {r}
                 \/ /\ chan[r] = <<>> /\ r \notin tx /\ caller'[r] = "ended" /\ rx' = rx \ {r} /\ chan' = chan
                    /\ seen'[r] = IF kind[r] = "copyout" THEN Append(seen[r], Mark("err")) ELSE seen[r]
                 \/ caller'[r] = "dropped" /\ rx' = rx \ {r} /\ chan'[r] = <<>> /\ seen' = seen
<1>0. UNCHANGED <<queue, kind, act, up, down, broken, mode, linked, done, result>>
  BY CallerTyped
<1>1. tx' \subseteq tx /\ \A s \in Requests : kind[s] \in Streams /\ s \in tx => s \in tx'
  BY WritesFacts DEF Receive, Answered, Finish, Drop, channels, Streams
<1>2. ASSUME Stream(r)
      PROVE  caller[r] = "open" /\ r \in rx /\ (Receive(r) \/ Drop(r)) /\ kind[r] # "copyin"
  <2>1. caller[r] \in {"open", "ended", "dropped"} /\ (r \in rx <=> caller[r] = "open")
    BY <1>2 DEF Held
  <2>2. kind[r] \notin {"copyin", "execute", "script"}
    BY <1>2 DEF Stream, Streams
  <2> QED
    BY <2>1, <2>2, WritesFacts DEF Receive, Answered, Finish, Drop
<1>3. ASSUME Stream(r), Drop(r)
      PROVE  caller'[r] = "dropped" /\ rx' = rx \ {r} /\ chan'[r] = <<>> /\ seen' = seen
  BY <1>2, <1>3 DEF Drop, Now, Typed, TypeOK, Shape
<1>4. ASSUME Stream(r), Receive(r)
      PROVE  \/ /\ chan[r] # <<>> /\ chan'[r] = Tail(chan[r]) /\ seen'[r] = Append(seen[r], Head(chan[r]))
                /\ \/ caller'[r] = caller[r] /\ rx' = rx
                   \/ /\ kind[r] = "copyout" /\ Head(chan[r]).is \in {"err", "trailer"}
                      /\ caller'[r] = "ended" /\ rx' = rx \ {r}
             \/ /\ chan[r] = <<>> /\ r \notin tx /\ caller'[r] = "ended" /\ rx' = rx \ {r} /\ chan' = chan
                /\ seen'[r] = IF kind[r] = "copyout" THEN Append(seen[r], Mark("err")) ELSE seen[r]
  <2>0. chan \in [Requests -> Seq(Payload)] /\ seen \in [Requests -> Seq(Payload)] /\ r \in DOMAIN caller
    BY DEF Typed, Shape, TypeOK
  <2>1. CASE /\ chan[r] # <<>>
             /\ chan' = [chan EXCEPT ![r] = Tail(@)]
             /\ seen' = [seen EXCEPT ![r] = Append(@, Head(chan[r]))]
             /\ IF Head(chan[r]).is \in {"err", "trailer"} /\ kind[r] = "copyout"
                  THEN Now(r, "ended") /\ rx' = rx \ {r}
                  ELSE UNCHANGED <<caller, rx>>
    <3>1. chan'[r] = Tail(chan[r]) /\ seen'[r] = Append(seen[r], Head(chan[r]))
      BY <2>0, <2>1
    <3> QED
      BY <2>0, <2>1, <3>1 DEF Now
  <2>2. CASE /\ chan[r] = <<>> /\ r \notin tx
             /\ seen' = IF kind[r] = "copyout" THEN [seen EXCEPT ![r] = Append(@, Mark("err"))] ELSE seen
             /\ Now(r, "ended")
             /\ rx' = rx \ {r}
             /\ UNCHANGED chan
    BY <2>0, <2>2 DEF Now
  <2> QED
    BY <1>4, <2>1, <2>2 DEF Receive
<1> QED
  BY <1>0, <1>1, <1>2, <1>3, <1>4

LEMMA CallerRows ==
  ASSUME IInv, DInv, RInv, NEW r \in Requests,
         Receive(r) \/ Answered(r) \/ Writes(r) \/ Finish(r) \/ Drop(r)
  PROVE  RInv'
<1>0. Typed /\ Held /\ Fifo /\ Roles /\ Shape
  BY DEF IInv, Typed, RInv, DInv
<1>1. /\ UNCHANGED <<queue, kind, act, up, down, broken, mode, linked, done, result>>
      /\ tx' \subseteq tx /\ \A s \in Requests : kind[s] \in Streams /\ s \in tx => s \in tx'
  BY <1>0, StreamMoves
<1>2. /\ \A s \in Requests : caller'[s] = "new" <=> caller[s] = "new"
      /\ \A s \in Requests : s # r => caller'[s] = caller[s] /\ seen'[s] = seen[s] /\ chan'[s] = chan[s]
      /\ rx' \subseteq rx /\ rx \ {r} \subseteq rx' /\ caller[r] # "new"
  <2>1. caller[r] # "new"
    BY <1>0, WritesFacts DEF Receive, Answered, Finish, Drop
  <2> QED
    BY <1>0, <2>1, CallerMoves
<1> DEFINE Moved == /\ chan[r] # <<>> /\ chan'[r] = Tail(chan[r]) /\ seen'[r] = Append(seen[r], Head(chan[r]))
                    /\ \/ caller'[r] = caller[r] /\ rx' = rx
                       \/ /\ kind[r] = "copyout" /\ Head(chan[r]).is \in {"err", "trailer"}
                          /\ caller'[r] = "ended" /\ rx' = rx \ {r}
           AtEnd == /\ chan[r] = <<>> /\ r \notin tx /\ caller'[r] = "ended" /\ rx' = rx \ {r} /\ chan' = chan
                    /\ seen'[r] = IF kind[r] = "copyout" THEN Append(seen[r], Mark("err")) ELSE seen[r]
           Gone == caller'[r] = "dropped" /\ rx' = rx \ {r} /\ chan'[r] = <<>> /\ seen' = seen
<1>3. Stream(r) => caller[r] = "open" /\ r \in rx /\ (Moved \/ AtEnd \/ Gone)
  BY <1>0, StreamMoves
<1>4. \A s \in Requests : Stream(s)' <=> Stream(s)
  BY <1>1, <1>2 DEF Stream
<1>5. chan \in [Requests -> Seq(Payload)] /\ seen \in [Requests -> Seq(Payload)]
  BY <1>0 DEF Shape
<1>6. Moved =>
        /\ Len(seen'[r]) + Len(chan'[r]) = Len(seen[r]) + Len(chan[r]) /\ Len(seen'[r]) = Len(seen[r]) + 1
        /\ \A i \in DOMAIN seen'[r] : IF i <= Len(seen[r]) THEN i \in DOMAIN seen[r] /\ seen'[r][i] = seen[r][i]
                                                          ELSE i = Len(seen[r]) + 1 /\ seen'[r][i] = chan[r][1]
        /\ \A i \in DOMAIN chan'[r] : i + 1 \in DOMAIN chan[r] /\ chan'[r][i] = chan[r][i + 1]
                                      /\ Len(seen[r]) + (i + 1) = (Len(seen[r]) + 1) + i
        /\ 1 \in DOMAIN chan[r] /\ Head(chan[r]) = chan[r][1]
        /\ \A i \in DOMAIN seen[r] : i \in DOMAIN seen'[r] /\ seen'[r][i] = seen[r][i]
        /\ \A i \in DOMAIN chan[r] :
             \/ Len(seen[r]) + 1 \in DOMAIN seen'[r] /\ seen'[r][Len(seen[r]) + 1] = chan[r][i]
             \/ i - 1 \in DOMAIN chan'[r] /\ chan'[r][i - 1] = chan[r][i]
  <2>1. seen[r] \in Seq(Payload) /\ chan[r] \in Seq(Payload)
    BY <1>5
  <2>2. Moved => chan[r] # <<>> /\ chan'[r] = Tail(chan[r]) /\ seen'[r] = Append(seen[r], Head(chan[r]))
    OBVIOUS
  <2> HIDE DEF Moved
  <2> SUFFICES ASSUME Moved
               PROVE  /\ Len(seen'[r]) + Len(chan'[r]) = Len(seen[r]) + Len(chan[r]) /\ Len(seen'[r]) = Len(seen[r]) + 1
                      /\ \A i \in DOMAIN seen'[r] : IF i <= Len(seen[r]) THEN i \in DOMAIN seen[r] /\ seen'[r][i] = seen[r][i]
                                                                        ELSE i = Len(seen[r]) + 1 /\ seen'[r][i] = chan[r][1]
                      /\ \A i \in DOMAIN chan'[r] : i + 1 \in DOMAIN chan[r] /\ chan'[r][i] = chan[r][i + 1]
                                                    /\ Len(seen[r]) + (i + 1) = (Len(seen[r]) + 1) + i
                      /\ 1 \in DOMAIN chan[r] /\ Head(chan[r]) = chan[r][1]
                      /\ \A i \in DOMAIN seen[r] : i \in DOMAIN seen'[r] /\ seen'[r][i] = seen[r][i]
                      /\ \A i \in DOMAIN chan[r] :
                           \/ Len(seen[r]) + 1 \in DOMAIN seen'[r] /\ seen'[r][Len(seen[r]) + 1] = chan[r][i]
                           \/ i - 1 \in DOMAIN chan'[r] /\ chan'[r][i - 1] = chan[r][i]
    OBVIOUS
  <2> DEFINE s == seen[r]
             c == chan[r]
             s1 == seen'[r]
             c1 == chan'[r]
  <2>3. s \in Seq(Payload) /\ c \in Seq(Payload) /\ c # <<>> /\ s1 = Append(s, Head(c)) /\ c1 = Tail(c)
    BY <2>1, <2>2
  <2> HIDE DEF s, c, s1, c1
  <2>4. /\ Len(s1) + Len(c1) = Len(s) + Len(c) /\ Len(s1) = Len(s) + 1
        /\ \A i \in DOMAIN s1 : IF i <= Len(s) THEN i \in DOMAIN s /\ s1[i] = s[i]
                                               ELSE i = Len(s) + 1 /\ s1[i] = c[1]
        /\ \A i \in DOMAIN c1 : i + 1 \in DOMAIN c /\ c1[i] = c[i + 1] /\ Len(s) + (i + 1) = (Len(s) + 1) + i
        /\ 1 \in DOMAIN c /\ Head(c) = c[1]
        /\ \A i \in DOMAIN s : i \in DOMAIN s1 /\ s1[i] = s[i]
        /\ \A i \in DOMAIN c : \/ Len(s) + 1 \in DOMAIN s1 /\ s1[Len(s) + 1] = c[i]
                               \/ i - 1 \in DOMAIN c1 /\ c1[i - 1] = c[i]
    <3> DEFINE h == Head(c)
    <3>1. /\ h = c[1] /\ h \in Payload /\ 1 \in DOMAIN c /\ Len(c) \in Nat /\ DOMAIN c = 1..Len(c)
          /\ Len(c1) = Len(c) - 1 /\ DOMAIN c1 = 1..(Len(c) - 1)
          /\ \A i \in DOMAIN c1 : i + 1 \in DOMAIN c /\ c1[i] = c[i + 1]
      BY <2>3, Popped
    <3>2. s1 = Append(s, h) /\ s \in Seq(Payload)
      BY <2>3
    <3> HIDE DEF h
    <3>3. /\ Len(s1) = Len(s) + 1 /\ Len(s) \in Nat /\ DOMAIN s = 1..Len(s) /\ DOMAIN s1 = 1..(Len(s) + 1)
          /\ (\A i \in DOMAIN s : s1[i] = s[i]) /\ s1[Len(s) + 1] = c[1]
      BY <3>1, <3>2, Pushed
    <3>4. \A i \in DOMAIN c : i = 1 \/ (i - 1 \in DOMAIN c1 /\ c1[i - 1] = c[i])
      <4>1. ASSUME NEW i \in DOMAIN c, i # 1 PROVE i - 1 \in DOMAIN c1 /\ (i - 1) + 1 = i
        BY <3>1, <4>1
      <4> QED
        BY <3>1, <4>1
    <3>5. \A i \in DOMAIN s1 : IF i <= Len(s) THEN i \in DOMAIN s ELSE i = Len(s) + 1
      BY <3>3
    <3>6. Len(s1) + Len(c1) = Len(s) + Len(c) /\ \A i \in DOMAIN c1 : Len(s) + (i + 1) = (Len(s) + 1) + i
      BY <3>1, <3>3
    <3>7. (\A i \in DOMAIN s : i \in DOMAIN s1) /\ Len(s) + 1 \in DOMAIN s1
      BY <3>3
    <3>8. \A i \in DOMAIN s1 : IF i <= Len(s) THEN i \in DOMAIN s /\ s1[i] = s[i] ELSE i = Len(s) + 1 /\ s1[i] = c[1]
      BY <3>3, <3>5
    <3>9. \A i \in DOMAIN c : \/ Len(s) + 1 \in DOMAIN s1 /\ s1[Len(s) + 1] = c[i]
                              \/ i - 1 \in DOMAIN c1 /\ c1[i - 1] = c[i]
      <4> SUFFICES ASSUME NEW i \in DOMAIN c
                   PROVE  (Len(s) + 1 \in DOMAIN s1 /\ s1[Len(s) + 1] = c[i]) \/ (i - 1 \in DOMAIN c1 /\ c1[i - 1] = c[i])
        OBVIOUS
      <4>1. CASE i = 1
        BY <3>3, <3>7, <4>1
      <4>2. CASE i # 1
        BY <3>4, <4>2
      <4> QED
        BY <4>1, <4>2
    <3> QED
      BY <3>1, <3>3, <3>6, <3>7, <3>8, <3>9 DEF h
  <2> QED
    BY <2>4 DEF s, c, s1, c1
<1>7. \A s \in Requests : Stream(s) /\ s \in rx' => s \in rx /\ Passed(s)' = Passed(s)
  BY <1>2, <1>3, <1>6 DEF Passed
<1>8. Keeping
  BY <1>1, KeepingUp
<1>9. Held'
  <2> SUFFICES ASSUME NEW s \in Requests, Stream(s)'
               PROVE  /\ caller'[s] \in {"open", "ended", "dropped"}
                      /\ s \in rx' <=> caller'[s] = "open"
                      /\ done'[s] = "none" => s \in tx'
                      /\ caller'[s] = "ended" /\ kind'[s] = "fetch" => s \notin tx'
    BY DEF Held
  <2>1. Stream(s) /\ kind[s] \in Streams
    BY <1>4 DEF Stream
  <2>2. CASE s # r
    BY <1>0, <1>1, <1>2, <2>1, <2>2 DEF Held
  <2>3. CASE s = r
    BY <1>0, <1>1, <1>3, <2>1, <2>3 DEF Held
  <2> QED
    BY <2>2, <2>3
<1>10. ASSUME Stream(r), seen[r] = <<>>, chan[r] = <<>>, done[r] = "none" PROVE seen'[r] = <<>> /\ chan'[r] = <<>>
  BY <1>0, <1>3, <1>10 DEF Held
<1>11. Fresh'
  <2>1. \A s \in Requests : caller'[s] = "new" => seen'[s] = <<>> /\ chan'[s] = <<>>
    BY <1>2 DEF RInv, Fresh
  <2>2. ASSUME NEW i \in DOMAIN queue
        PROVE  /\ kind[queue[i]] \in Streams => seen'[queue[i]] = <<>> /\ chan'[queue[i]] = <<>>
               /\ ~broken => result[queue[i]].end = "none"
    <3>1. queue[i] \in Requests /\ caller[queue[i]] # "new" /\ done[queue[i]] = "none"
      BY <1>0 DEF Typed, TypeOK, Roles, Fifo
    <3> QED
      BY <1>2, <1>10, <3>1 DEF RInv, Fresh, Stream
  <2>3. ASSUME Busy, ~act.sent, kind[act.cur] \in Streams PROVE seen'[act.cur] = <<>> /\ chan'[act.cur] = <<>>
    <3>1. act.cur \in Requests /\ caller[act.cur] # "new" /\ done[act.cur] = "none"
      BY <1>0, <2>3 DEF Roles, Fifo, Busy
    <3> QED
      BY <1>2, <1>10, <2>3, <3>1 DEF RInv, Fresh, Stream
  <2> QED
    BY <1>1, <2>1, <2>2, <2>3 DEF RInv, Fresh, Busy
<1>12. Executes' /\ Numbered'
  BY <1>1 DEF RInv, Executes, Numbered, Loop, Stale, Unfinished
<1>13. Given'
  <2>1. ASSUME NEW s \in Requests, kind[s] = "copyout", RanOnce(s)
        PROVE  RanOnce(s)' /\ Len(result'[s].rows) = Len(result[s].rows)
    BY <1>8, <2>1 DEF Keeping
  <2>2. ASSUME NEW s \in Requests, Stream(s)', s # r
        PROVE  /\ \A i \in DOMAIN seen'[s] : Fitting(s, seen[s][i], i)'
               /\ \A i \in DOMAIN chan'[s] : Fitting(s, chan[s][i], Len(seen[s]) + i)'
               /\ act'.at = "send" /\ act'.cur = s /\ s \in rx' => Fitting(s, act.item, Passed(s) + 1)'
    <3>1. Stream(s) /\ seen'[s] = seen[s] /\ chan'[s] = chan[s]
      BY <1>2, <1>4, <2>2
    <3>2. \A x, p : Fitting(s, x, p) => Fitting(s, x, p)'
      BY <1>1, <2>1 DEF Fitting
    <3>3. Passed(s)' = Passed(s) /\ (s \in rx' => s \in rx)
      BY <1>2, <3>1 DEF Passed
    <3>4. act'.at = "send" /\ act'.cur = s /\ s \in rx' => Fitting(s, act.item, Passed(s) + 1)
      BY <1>1, <3>1, <3>3 DEF RInv, Given
    <3>5. act'.at = "send" /\ act'.cur = s /\ s \in rx' => Fitting(s, act.item, Passed(s) + 1)'
      BY <1>1, <3>2, <3>3, <3>4 DEF Fitting, Passed
    <3> QED
      BY <1>1, <3>1, <3>2, <3>5 DEF RInv, Given, Fitting
  <2>3. ASSUME Stream(r)'
        PROVE  /\ \A i \in DOMAIN seen'[r] : Fitting(r, seen[r][i], i)'
               /\ \A i \in DOMAIN chan'[r] : Fitting(r, chan[r][i], Len(seen[r]) + i)'
               /\ act'.at = "send" /\ act'.cur = r /\ r \in rx' => Fitting(r, act.item, Passed(r) + 1)'
    <3>0. Stream(r) /\ (Moved \/ AtEnd \/ Gone)
      BY <1>3, <1>4, <2>3
    <3>1. /\ \A i \in DOMAIN seen[r] : Fitting(r, seen[r][i], i)
          /\ \A i \in DOMAIN chan[r] : Fitting(r, chan[r][i], Len(seen[r]) + i)
          /\ act.at = "send" /\ act.cur = r /\ r \in rx => Fitting(r, act.item, Passed(r) + 1)
      BY <3>0 DEF RInv, Given
    <3>a. \A x, p : Fitting(r, x, p) => Fitting(r, x, p)'
      BY <1>1, <2>1 DEF Fitting
    <3>2. act'.at = "send" /\ act'.cur = r /\ r \in rx' => Fitting(r, act.item, Passed(r) + 1)'
      BY <1>1, <1>7, <2>1, <3>0, <3>1 DEF Fitting
    <3>3. CASE Moved
      <4>1. Fitting(r, chan[r][1], Len(seen[r]) + 1)
        BY <1>6, <3>1, <3>3
      <4>2. \A i \in DOMAIN seen'[r] : Fitting(r, seen'[r][i], i)
        BY <1>6, <3>1, <3>3, <4>1
      <4>3. \A i \in DOMAIN chan'[r] : Fitting(r, chan'[r][i], Len(seen'[r]) + i)
        <5>1. ASSUME NEW i \in DOMAIN chan'[r] PROVE Fitting(r, chan'[r][i], Len(seen'[r]) + i)
          <6>1. /\ i + 1 \in DOMAIN chan[r] /\ chan'[r][i] = chan[r][i + 1]
                /\ Len(seen[r]) + (i + 1) = Len(seen'[r]) + i
            BY <1>6, <3>3
          <6> QED
            BY <3>1, <6>1
        <5> QED
          BY <5>1
      <4> QED
        BY <1>1, <2>1, <3>2, <4>2, <4>3 DEF Fitting
    <3>4. CASE AtEnd
      <4>1. seen[r] \in Seq(Payload) /\ Mark("err") \in Payload /\ Mark("err").is = "err"
        BY <1>5, Payloads DEF Mark
      <4>2. \A i \in DOMAIN seen'[r] : (i \in DOMAIN seen[r] /\ seen'[r][i] = seen[r][i]) \/ seen'[r][i].is = "err"
        <5> DEFINE e == Mark("err")
                   s == seen[r]
        <5>1. s \in Seq(Payload) /\ e \in Payload /\ e.is = "err" /\ (seen'[r] = s \/ seen'[r] = Append(s, e))
          BY <3>4, <4>1
        <5> HIDE DEF e, s
        <5>2. \A i \in DOMAIN Append(s, e) : (i \in DOMAIN s /\ Append(s, e)[i] = s[i]) \/ Append(s, e)[i] = e
          BY <5>1
        <5> QED
          BY <5>1, <5>2 DEF s
      <4>3. DOMAIN chan'[r] = {}
        BY <3>4
      <4> QED
        BY <1>1, <2>1, <3>1, <3>2, <4>2, <4>3 DEF Fitting
    <3>5. CASE Gone
      <4>1. DOMAIN chan'[r] = {} /\ seen' = seen
        BY <3>5
      <4> QED
        BY <1>1, <2>1, <3>1, <3>2, <4>1 DEF Fitting
    <3> QED
      BY <3>0, <3>3, <3>4, <3>5
  <2> QED
    BY <2>2, <2>3 DEF Given
<1>14. Coming' /\ Tally'
  <2>1. Loop' = Loop
    BY <1>1 DEF Loop
  <2>2. ASSUME act.cur \in rx', kind[act.cur] \in Streams, Busy
        PROVE  act.cur \in rx /\ Passed(act.cur)' = Passed(act.cur)
    <3>1. act.cur \in Requests /\ Stream(act.cur)
      BY <1>0, <2>2 DEF Roles, Busy, Stream
    <3>2. \A s \in Requests : Stream(s) /\ s \in rx' => s \in rx /\ Len(seen'[s]) + Len(chan'[s]) = Passed(s)
      BY <1>7 DEF Passed
    <3> QED
      BY <1>1, <2>2, <3>1, <3>2 DEF Passed
  <2>3. Loop \in {"exec", "copyout"} => Busy
    BY DEF Loop, Busy
  <2>4. Flowing' => Flowing /\ Taken' = Taken
    BY <1>1, <2>1, <2>2, <2>3 DEF Flowing, Taken
  <2>5. Coming' /\ (act'.at # "settle" => Tally')
    BY <1>1, <2>1, <2>4, TakenKept DEF RInv
  <2>6. CASE act'.at = "settle"
    <3>1. Busy /\ Loop # "exec" /\ act' = act
      BY <1>1, <2>6 DEF Busy, Loop
    <3>2. kind[act.cur] = "fetch" => kind[act.cur] \in Streams
      BY DEF Streams
    <3> QED
      BY <1>1, <2>1, <2>2, <2>5, <3>1, <3>2 DEF RInv, Tally
  <2> QED
    BY <2>5, <2>6
<1>15. Closed'
  <2> SUFFICES ASSUME NEW s \in Requests, Stream(s)', kind'[s] = "fetch", s \in rx'
               PROVE  /\ done'[s] = "ok" => Passed(s)' = Len(result'[s].rows)
                      /\ done'[s] = "err" => Erred(seen[s])' \/ Erred(chan[s])'
                      /\ done'[s] = "refused" => Passed(s)' = 0
    BY DEF Closed
  <2>1. Stream(s) /\ kind[s] = "fetch" /\ s \in rx /\ Passed(s)' = Passed(s)
    BY <1>1, <1>4, <1>7
  <2>2. Erred(seen[s]) \/ Erred(chan[s]) => Erred(seen[s])' \/ Erred(chan[s])'
    <3>1. CASE s # r
      BY <1>2, <3>1 DEF Erred
    <3>2. CASE s = r
      <4>1. Moved
        BY <1>3, <2>1, <3>2
      <4> QED
        <5>1. /\ \A i \in DOMAIN seen[r] : i \in DOMAIN seen'[r] /\ seen'[r][i] = seen[r][i]
              /\ \A i \in DOMAIN chan[r] :
                   \/ Len(seen[r]) + 1 \in DOMAIN seen'[r] /\ seen'[r][Len(seen[r]) + 1] = chan[r][i]
                   \/ i - 1 \in DOMAIN chan'[r] /\ chan'[r][i - 1] = chan[r][i]
          BY <1>6, <4>1
        <5>2. Erred(seen[r]) => Erred(seen[r])'
          BY <5>1 DEF Erred
        <5>3. ASSUME NEW i \in DOMAIN chan[r], chan[r][i].is = "err" PROVE Erred(seen[r])' \/ Erred(chan[r])'
          BY <5>1, <5>3 DEF Erred
        <5> QED
          BY <3>2, <5>2, <5>3 DEF Erred
    <3> QED
      BY <3>1, <3>2
  <2> QED
    BY <1>1, <2>1, <2>2 DEF RInv, Closed
<1>16. Final'
  <2> SUFFICES ASSUME NEW s \in Requests, Stream(s)', caller'[s] = "ended"
               PROVE  \/ Erred(seen[s])'
                      \/ kind'[s] = "fetch" /\ done'[s] = "refused" /\ seen'[s] = <<>>
                      \/ /\ RanOnce(s)'
                         /\ IF kind'[s] = "fetch" THEN Len(seen'[s]) = Len(result'[s].rows)
                            ELSE Len(seen'[s]) = Len(result'[s].rows) + 1 /\ seen'[s][Len(seen'[s])] = Mark("trailer")
    BY DEF Final
  <2>1. Stream(s)
    BY <1>4
  <2>2. CASE s # r
    <3>1. caller[s] = "ended" /\ seen'[s] = seen[s]
      BY <1>2, <2>2
    <3>2. RanOnce(s) => RanOnce(s)'
      BY <1>1 DEF RanOnce
    <3> QED
      BY <1>1, <2>1, <3>1, <3>2 DEF RInv, Final, Erred
  <2>3. CASE s = r /\ Moved
    <3>1. kind[r] = "copyout" /\ Head(chan[r]).is \in {"err", "trailer"} /\ Head(chan[r]) = chan[r][1] /\ 1 \in DOMAIN chan[r]
      BY <1>3, <1>6, <2>1, <2>3
    <3>2. Fitting(r, chan[r][1], Len(seen[r]) + 1)
      BY <2>1, <2>3, <3>1 DEF RInv, Given
    <3>3. seen'[r] \in Seq(Payload) /\ Len(seen'[r]) = Len(seen[r]) + 1 /\ Len(seen[r]) \in Nat
      BY <1>5, <1>6, <2>3, CallerTyped, <1>0 DEF Typed, Shape
    <3>4. Len(seen'[r]) \in DOMAIN seen'[r]
      BY <3>3
    <3>5. seen'[r][Len(seen'[r])] = chan[r][1]
      BY <1>6, <2>3, <3>3, <3>4
    <3>6. CASE chan[r][1].is = "err"
      BY <2>3, <3>4, <3>5, <3>6 DEF Erred
    <3>7. CASE chan[r][1].is = "trailer"
      <4>1. chan[r][1] = Mark("trailer") /\ Len(seen[r]) + 1 = Len(result[r].rows) + 1 /\ RanOnce(r)
        BY <3>2, <3>7 DEF Fitting, Item
      <4> QED
        BY <1>1, <2>3, <3>1, <3>3, <3>5, <4>1 DEF RanOnce
    <3> QED
      BY <3>1, <3>6, <3>7
  <2>4. CASE s = r /\ AtEnd /\ kind[r] = "copyout"
    <3> DEFINE e == Mark("err")
               q == seen[r]
    <3>1. q \in Seq(Payload) /\ e \in Payload /\ e.is = "err" /\ seen'[r] = Append(q, e)
      BY <1>5, <2>4, Payloads DEF Mark
    <3> HIDE DEF e, q
    <3>2. Len(q) + 1 \in DOMAIN Append(q, e) /\ Append(q, e)[Len(q) + 1] = e
      BY <3>1
    <3> QED
      BY <2>4, <3>1, <3>2 DEF Erred
  <2>5. CASE s = r /\ AtEnd /\ kind[r] # "copyout"
    <3>1. kind[r] = "fetch" /\ r \in rx /\ done[r] # "none" /\ seen'[r] = seen[r] /\ chan[r] = <<>>
      BY <1>0, <1>3, <2>1, <2>5 DEF Held, Stream, Streams
    <3>2. done[r] \in {"none", "ok", "err", "refused"} /\ Len(seen[r]) \in Nat /\ DOMAIN chan[r] = {} /\ Passed(r) = Len(seen[r])
      BY <1>0, <1>5, <3>1 DEF Passed, Typed, TypeOK
    <3>3. CASE done[r] = "ok"
      <4>1. Len(seen[r]) = Len(result[r].rows) /\ result[r].end = "complete"
        BY <2>1, <2>5, <3>1, <3>2, <3>3 DEF RInv, Closed, DInv, Settled
      <4>2. RanOnce(r)'
        BY <1>1, <3>3, <4>1 DEF RanOnce, DInv, Posted
      <4> QED
        BY <1>1, <2>5, <3>1, <4>1, <4>2
    <3>4. CASE done[r] = "err"
      <4>1. Erred(seen[r])
        BY <2>1, <2>5, <3>1, <3>2, <3>4 DEF RInv, Closed, Erred
      <4>2. Erred(seen[r]) => Erred(seen[r])'
        BY <3>1 DEF Erred
      <4> QED
        BY <2>5, <4>1, <4>2
    <3>5. CASE done[r] = "refused"
      <4>1. Len(seen[r]) = 0
        BY <2>1, <2>5, <3>1, <3>2, <3>5 DEF RInv, Closed
      <4>2. seen[r] = <<>>
        BY <1>5, <4>1
      <4> QED
        BY <1>1, <2>5, <3>1, <3>5, <4>2
    <3> QED
      BY <3>1, <3>2, <3>3, <3>4, <3>5
  <2>6. CASE s = r /\ Gone
    BY <2>6
  <2> QED
    BY <1>3, <2>1, <2>2, <2>3, <2>4, <2>5, <2>6
<1> QED
  BY <1>9, <1>11, <1>12, <1>13, <1>14, <1>15, <1>16 DEF RInv

LEMMA SubmitRows ==
  ASSUME IInv, DInv, RInv, NEW r \in Requests, NEW k \in Kinds, Submit(r, k)
  PROVE  RInv'
<1>0. /\ UNCHANGED <<done, act, broken, up, down, mode, result, linked>> /\ queue' = Append(queue, r)
      /\ caller[r] = "new" /\ Typed /\ Roles /\ Fifo /\ tx' = tx \cup {r}
      /\ (rx' = rx \cup {r} \/ rx' = rx) /\ (k \in Streams => r \in rx')
  BY DEF Submit, server, world, IInv, Typed, DInv
<1>1. /\ \A s \in Requests : s # r => caller'[s] = caller[s] /\ kind'[s] = kind[s] /\ chan'[s] = chan[s] /\ seen'[s] = seen[s]
      /\ caller'[r] = "open" /\ kind'[r] = k
  BY DEF Typed, TypeOK, Shape, IInv, Submit, Now
<1>2. queue \in Seq(Requests) /\ \A i \in DOMAIN queue : queue[i] \in Requests /\ queue[i] # r
  BY <1>0 DEF Roles, IInv, TypeOK, Shape
<1>3. \A i \in DOMAIN queue' : (i \in DOMAIN queue /\ queue'[i] = queue[i]) \/ queue'[i] = r
  BY <1>0, <1>2
<1>4. /\ Busy => act.cur \in Requests /\ act.cur # r
      /\ act.at = "send" => Busy
      /\ ~Busy => Loop = act.at /\ Loop' = act.at /\ act.at \in {"idle", "stopped"}
  BY <1>0 DEF Busy, Roles, Loop
<1>5. \A i \in DOMAIN up : up[i].of \in Requests /\ up[i].of # r
  <2>1. \A i \in DOMAIN up : up[i] \in UpMsg
    BY ActorFacts
  <2> QED
    BY <1>0, <2>1 DEF UpMsg, DInv, Posted
<1>6. /\ seen[r] = <<>> /\ chan[r] = <<>> /\ done[r] = "none" /\ result[r].end = "none"
      /\ k \in Streams => seen'[r] = <<>> /\ chan'[r] = <<>>
  <2>1. seen[r] = <<>> /\ chan[r] = <<>> /\ done[r] = "none" /\ result[r].end = "none"
    BY <1>0 DEF RInv, Fresh, Fifo, DInv, Whole
  <2>2. k \in Streams => UNCHANGED <<chan, seen>>
    BY DEF Submit, Streams
  <2> QED
    BY <2>1, <2>2
<1>7. \A s \in Requests : s # r => (Stream(s)' <=> Stream(s)) /\ (s \in rx' <=> s \in rx) /\ Passed(s)' = Passed(s)
  <2>1. \A s \in Requests : s # r => (Stream(s)' <=> Stream(s)) /\ Passed(s)' = Passed(s)
    BY <1>1 DEF Stream, Passed
  <2>2. \A s : s # r => (s \in rx' <=> s \in rx)
    BY <1>0
  <2> QED
    BY <2>1, <2>2
<1>8. Held'
  <2> SUFFICES ASSUME NEW s \in Requests, Stream(s)'
               PROVE  /\ caller'[s] \in {"open", "ended", "dropped"}
                      /\ s \in rx' <=> caller'[s] = "open"
                      /\ done'[s] = "none" => s \in tx'
                      /\ caller'[s] = "ended" /\ kind'[s] = "fetch" => s \notin tx'
    BY DEF Held
  <2>1. CASE s # r
    BY <1>0, <1>1, <1>7, <2>1 DEF RInv, Held
  <2>2. CASE s = r
    BY <1>0, <1>1, <2>2 DEF Stream
  <2> QED
    BY <2>1, <2>2
<1>9. Fresh'
  <2>1. \A s \in Requests : caller'[s] = "new" => seen'[s] = <<>> /\ chan'[s] = <<>>
    BY <1>1 DEF RInv, Fresh
  <2>2. ASSUME NEW i \in DOMAIN queue'
        PROVE  /\ kind'[queue'[i]] \in Streams => seen'[queue'[i]] = <<>> /\ chan'[queue'[i]] = <<>>
               /\ ~broken => result[queue'[i]].end = "none"
    BY <1>1, <1>2, <1>3, <1>6 DEF RInv, Fresh
  <2>3. ASSUME Busy, ~act.sent PROVE /\ kind'[act.cur] \in Streams => seen'[act.cur] = <<>> /\ chan'[act.cur] = <<>>
                                     /\ act.at # "send"
    BY <1>1, <1>4, <2>3 DEF RInv, Fresh
  <2> QED
    BY <1>0, <2>1, <2>2, <2>3 DEF Fresh, Busy
<1>10. Loop' = Loop
  BY <1>0, <1>1, <1>4 DEF Loop, Busy
<1>11. Executes'
  BY <1>0, <1>10 DEF RInv, Executes, Stale, Unfinished
<1>12. Numbered'
  BY <1>0, <1>1, <1>5 DEF RInv, Numbered
<1>13. Given'
  <2>1. ASSUME NEW s \in Requests, Stream(s)', s # r
        PROVE  /\ \A i \in DOMAIN seen'[s] : Fitting(s, seen[s][i], i)'
               /\ \A i \in DOMAIN chan'[s] : Fitting(s, chan[s][i], Len(seen[s]) + i)'
               /\ act'.at = "send" /\ act'.cur = s /\ s \in rx' => Fitting(s, act.item, Passed(s) + 1)'
    <3>1. Stream(s) /\ seen'[s] = seen[s] /\ chan'[s] = chan[s] /\ Passed(s)' = Passed(s) /\ (s \in rx' => s \in rx)
      BY <1>1, <1>7, <2>1
    <3>2. \A x, p : Fitting(s, x, p) => Fitting(s, x, p)'
      BY <1>0, <1>1, <2>1 DEF Fitting, RanOnce
    <3>3. act'.at = "send" /\ act'.cur = s /\ s \in rx' => Fitting(s, act.item, Passed(s) + 1)
      BY <1>0, <3>1 DEF RInv, Given
    <3>4. act'.at = "send" /\ act'.cur = s /\ s \in rx' => Fitting(s, act.item, Passed(s) + 1)'
      BY <1>0, <3>1, <3>2, <3>3 DEF Fitting, Passed
    <3> QED
      BY <1>0, <3>1, <3>2, <3>4 DEF RInv, Given, Fitting
  <2>2. ASSUME Stream(r)' PROVE DOMAIN seen'[r] = {} /\ DOMAIN chan'[r] = {} /\ ~(act'.at = "send" /\ act'.cur = r)
    BY <1>0, <1>1, <1>4, <1>6, <2>2 DEF Stream
  <2>3. ASSUME Stream(r)'
        PROVE  /\ \A i \in DOMAIN seen'[r] : Fitting(r, seen[r][i], i)'
               /\ \A i \in DOMAIN chan'[r] : Fitting(r, chan[r][i], Len(seen[r]) + i)'
               /\ act'.at = "send" /\ act'.cur = r /\ r \in rx' => Fitting(r, act.item, Passed(r) + 1)'
    BY <2>2, <2>3
  <2> QED
    BY <2>1, <2>3 DEF Given
<1>14. Coming' /\ Tally'
  <2>1. ASSUME Busy
        PROVE  /\ (act.cur \in rx' <=> act.cur \in rx) /\ kind'[act.cur] = kind[act.cur] /\ Passed(act.cur)' = Passed(act.cur)
    BY <1>0, <1>1, <1>4, <2>1 DEF Passed
  <2>2. Loop \in {"exec", "copyout"} => Busy
    BY DEF Loop, Busy
  <2>3. Flowing' => Flowing /\ Taken' = Taken
    BY <1>0, <1>10, <2>1, <2>2 DEF Flowing, Taken
  <2>4. Coming' /\ (act'.at # "settle" => Tally')
    BY <1>0, <1>10, <2>3, TakenKept DEF RInv
  <2>5. CASE act'.at = "settle"
    <3>1. Busy /\ Loop # "exec"
      BY <1>0, <2>5 DEF Busy, Loop
    <3> QED
      BY <1>0, <1>10, <2>1, <2>4, <3>1 DEF RInv, Tally
  <2> QED
    BY <2>4, <2>5
<1>15. Closed'
  <2> SUFFICES ASSUME NEW s \in Requests, Stream(s)', kind'[s] = "fetch", s \in rx'
               PROVE  /\ done'[s] = "ok" => Passed(s)' = Len(result'[s].rows)
                      /\ done'[s] = "err" => Erred(seen[s])' \/ Erred(chan[s])'
                      /\ done'[s] = "refused" => Passed(s)' = 0
    BY DEF Closed
  <2>1. CASE s = r
    BY <1>0, <1>6, <2>1
  <2>2. CASE s # r
    <3>1. Stream(s) /\ kind[s] = "fetch" /\ s \in rx /\ Passed(s)' = Passed(s) /\ seen'[s] = seen[s] /\ chan'[s] = chan[s]
      BY <1>1, <1>7, <2>2
    <3> QED
      BY <1>0, <3>1 DEF RInv, Closed, Erred
  <2> QED
    BY <2>1, <2>2
<1>16. Final'
  <2>1. Keeping
    BY <1>0, KeepingUp
  <2>2. \A s \in Requests : Stream(s)' /\ caller'[s] = "ended" =>
           Stream(s) /\ caller[s] = "ended" /\ kind'[s] = kind[s] /\ seen'[s] = seen[s]
    BY <1>1, <1>7
  <2> QED
    BY <1>0, <2>1, <2>2, FinalKept DEF RInv
<1> QED
  BY <1>8, <1>9, <1>11, <1>12, <1>13, <1>14, <1>15, <1>16 DEF RInv

-----------------------------------------------------------------------------
(* The actor. *)

\* A step of the handler that passes nothing on.
LEMMA ActorKept ==
  ASSUME IInv, DInv, RInv, Keeping, UNCHANGED <<queue, kind, caller, seen, rx, tx, done, result>>, broken => broken',
         \A s \in Requests : kind[s] \in Streams \/ caller[s] = "new" => chan'[s] = chan[s],
         act'.cur = act.cur, Busy' => Busy, Busy' /\ ~act'.sent => ~act.sent /\ act'.at # "send"
  PROVE  /\ Held' /\ Fresh' /\ Closed' /\ Final'
         /\ (act'.at = "send" => act.at = "send" /\ act'.item = act.item) => Given'
<1>0. \A s \in Requests : Stream(s) => chan'[s] = chan[s]
  BY DEF Stream
<1>1. Held' /\ Closed'
  BY <1>0, HeldKept, ClosedKept DEF RInv
<1>2. Final'
  BY FinalKept DEF RInv, Stream
<1>3. (act'.at = "send" => act.at = "send" /\ act'.item = act.item) => Given'
  BY <1>0, GivenKept DEF RInv
<1>4. Fresh'
  <2>1. \A i \in DOMAIN queue : queue[i] \in Requests
    BY DEF IInv, TypeOK
  <2>2. Busy => act.cur \in Requests
    BY DEF IInv, Roles, Busy
  <2>3. \A s \in Requests : caller'[s] = "new" => seen'[s] = <<>> /\ chan'[s] = <<>>
    BY DEF RInv, Fresh
  <2>4. \A i \in DOMAIN queue' :
          /\ kind'[queue'[i]] \in Streams => seen'[queue'[i]] = <<>> /\ chan'[queue'[i]] = <<>>
          /\ ~broken' => result'[queue'[i]].end = "none"
    BY <2>1 DEF RInv, Fresh
  <2>5. Busy' /\ ~act'.sent => /\ kind'[act'.cur] \in Streams => seen'[act'.cur] = <<>> /\ chan'[act'.cur] = <<>>
                               /\ act'.at # "send"
    BY <2>2 DEF RInv, Fresh
  <2> QED
    BY <2>3, <2>4, <2>5 DEF Fresh
<1> QED
  BY <1>1, <1>2, <1>3, <1>4

\* What is flushed keeps Numbered: chunks are of a COPY FROM.
LEMMA NumberedFlushed ==
  ASSUME IInv, Numbered, NEW ts \in Seq(UpTypes), NEW c \in Requests, Flushed(ts, c), UNCHANGED <<result, kind>>,
         \A i \in DOMAIN ts : ts[i] = "copydata" => kind[c] = "copyin"
  PROVE  Numbered'
<1>1. \A i \in DOMAIN up' : \/ \E j \in DOMAIN up : up'[i] = up[j]
                            \/ up'[i].of = c /\ \E j \in DOMAIN ts : up'[i].t = ts[j]
  BY UpFlushed, ActorFacts
<1> QED
  BY <1>1 DEF Numbered

\* The handler is through with an error, or there is none.
LEMMA RestRows ==
  ASSUME IInv, DInv, RInv, IdleRead \/ Terminate \/ ReadError \/ CopyFlushFails
  PROVE  RInv'
<1>0. act \in ActType
  BY ActorFacts
<1>1. UNCHANGED <<kind, caller, seen, result, queue, done, up, chan, rx, tx>> /\ (broken => broken')
  <2>1. UNCHANGED <<kind, caller, seen, result, queue, done, up, chan, rx, tx>>
    BY DEF IdleRead, Terminate, ReadError, CopyFlushFails, FlushFails, ActorKeeps, client, channels, server, world
  <2>2. broken => broken'
    BY DEF IdleRead, Terminate, ReadError, CopyFlushFails, FlushFails, MarkBroken
  <2> QED
    BY <2>1, <2>2
<1>2. /\ act'.cur = act.cur /\ (act'.sent <=> act.sent)
      /\ \/ act'.at \in {"idle", "stopped"} /\ ~Busy
         \/ act'.at = "settle" /\ act'.err = "err" /\ Busy
  BY <1>0 DEF IdleRead, Terminate, ReadError, CopyFlushFails, FailWith, ActType, Busy, Reads, Reading
<1>3. Busy' => Busy
  BY <1>2 DEF Busy
<1>4. Held' /\ Fresh' /\ Closed' /\ Final' /\ Given'
  BY <1>1, <1>2, <1>3, KeepingUp, ActorKept
<1>5. Loop' \in {"idle", "stopped", "settle"}
  BY <1>2 DEF Loop
<1>6. Executes' /\ Coming' /\ Tally'
  BY <1>2, <1>5 DEF Executes, Coming, Tally, Flowing
<1>7. Numbered'
  BY <1>1 DEF RInv, Numbered
<1> QED
  BY <1>4, <1>6, <1>7 DEF RInv

\* The handlers that deliver no rows.
LEMMA CopyRows ==
  ASSUME IInv, DInv, RInv, AbortCopy \/ CopyInBegins \/ CopyInFeeds
  PROVE  RInv'
<1>0. act \in ActType /\ Engaged(act) /\ up \in Seq(UpMsg) /\ chan \in [Requests -> Seq(Payload)]
  BY ActorFacts
<1>1. UNCHANGED <<kind, caller, seen, result, queue, done, rx, tx, broken>>
  BY DEF AbortCopy, CopyInBegins, CopyInFeeds, ActorKeeps, client, channels, server, world
<1>2. /\ act'.cur = act.cur /\ (act'.sent <=> act.sent) /\ act'.at \in {"abort", "feed", "drain"}
      /\ act.at \in {"exec", "script", "copyin", "feed"} /\ (act.at = "feed" \/ chan' = chan)
      /\ chan' = chan \/ chan' = [chan EXCEPT ![act.cur] = Tail(@)]
  <2>1. CASE AbortCopy \/ CopyInBegins
    BY <1>0, <2>1 DEF AbortCopy, CopyInBegins, Reads, At, channels, ActType
  <2>2. CASE CopyInFeeds
    BY <1>0, <2>2 DEF CopyInFeeds, At, ActType
  <2> QED
    BY <2>1, <2>2
<1>3. act.cur \in Requests /\ caller[act.cur] # "new" /\ Busy /\ (act.at = "feed" => kind[act.cur] = "copyin")
  BY <1>0, <1>2, KindsOf DEF Engaged, Busy
<1>4. \A s \in Requests : kind[s] \in Streams \/ caller[s] = "new" => chan'[s] = chan[s]
  <2>1. "copyin" \notin Streams
    BY DEF Streams
  <2> QED
    BY <1>0, <1>2, <1>3, <2>1
<1>5. \/ up' = up
      \/ \E ts \in {<<"copyfail", "sync">>, <<"copyfail">>, <<"sync">>, <<"copydone", "sync">>} : Flushed(ts, act.cur)
      \/ act.at = "feed" /\ Flushed(<<"copydata">>, act.cur)
  <2>1. CASE AbortCopy \/ CopyInBegins
    BY <2>1 DEF AbortCopy, CopyInBegins
  <2>2. CASE CopyInFeeds
    <3>1. act.at = "feed"
      BY <2>2 DEF CopyInFeeds
    <3> QED
      BY <2>2, <3>1, FedChunk
  <2> QED
    BY <2>1, <2>2
<1>6. Keeping /\ Numbered'
  <2>1. CASE up' = up
    BY <1>1, <2>1, KeepingUp DEF RInv, Numbered
  <2>2. ASSUME NEW ts \in {<<"copyfail", "sync">>, <<"copyfail">>, <<"sync">>, <<"copydone", "sync">>}, Flushed(ts, act.cur)
        PROVE  Keeping /\ Numbered'
    <3>1. ts \in Seq(UpTypes)
      BY Writings
    <3>2. \A i \in DOMAIN ts : ts[i] \in {"copyfail", "sync", "copydone"}
      <4>1. CASE ts \in {<<"copyfail">>, <<"sync">>}
        BY <4>1
      <4>2. CASE ts \in {<<"copyfail", "sync">>, <<"copydone", "sync">>}
        <5>1. DOMAIN ts = {1, 2} /\ ts[1] \in {"copyfail", "copydone"} /\ ts[2] = "sync"
          BY <4>2
        <5> QED
          BY <5>1
      <4> QED
        BY <4>1, <4>2
    <3>3. Keeping
      BY <1>0, <1>1, <1>3, <2>2, <3>1, <3>2, KeepingFlushed
    <3>4. Numbered'
      BY <1>1, <1>3, <2>2, <3>1, <3>2, NumberedFlushed DEF RInv
    <3> QED
      BY <3>3, <3>4
  <2>3. CASE act.at = "feed" /\ Flushed(<<"copydata">>, act.cur)
    <3> DEFINE ts == <<"copydata">>
    <3>1. ts \in Seq(UpTypes) /\ \A i \in DOMAIN ts : ts[i] = "copydata"
      BY Writings
    <3>2. Flushed(ts, act.cur)
      BY <2>3
    <3> HIDE DEF ts
    <3>3. Keeping
      BY <1>0, <1>1, <1>3, <3>1, <3>2, KeepingFlushed
    <3>4. Numbered'
      BY <1>1, <1>3, <2>3, <3>1, <3>2, NumberedFlushed DEF RInv
    <3> QED
      BY <3>3, <3>4
  <2> QED
    BY <1>5, <2>1, <2>2, <2>3
<1>7. Held' /\ Fresh' /\ Closed' /\ Final' /\ Given'
  <2>1. act'.at # "send"
    BY <1>2
  <2> QED
    BY <1>1, <1>2, <1>3, <1>4, <1>6, <2>1, ActorKept
<1>8. Loop' \in {"abort", "scriptabort", "feed", "drain"} /\ act'.at # "settle"
  BY <1>2 DEF Loop
<1>9. Executes' /\ Coming' /\ Tally'
  BY <1>8 DEF Executes, Coming, Tally, Flowing
<1> QED
  BY <1>6, <1>7, <1>9 DEF RInv

\* The first reply is read.
LEMMA Shifted ==
  ASSUME down \in Seq(DownMsg), down # <<>>, down' = Tail(down)
  PROVE  /\ 1 \in DOMAIN down /\ Head(down) = down[1] /\ down[1] \in DownMsg
         /\ \A i \in DOMAIN down' : i \in Nat /\ i > 0 /\ i + 1 \in DOMAIN down /\ down'[i] = down[i + 1]
         /\ \A i \in DOMAIN down' : i > 1 => i - 1 \in DOMAIN down' /\ down'[i - 1] = down[i]
         /\ \A j \in DOMAIN down : j \in Nat /\ (j = 1 \/ (j > 1 /\ j - 1 \in DOMAIN down' /\ down'[j - 1] = down[j]))
<1>1. /\ Head(down) = down[1] /\ 1 \in DOMAIN down /\ down[1] \in DownMsg
      /\ Len(down) \in Nat \ {0} /\ DOMAIN down = 1..Len(down) /\ DOMAIN down' = 1..(Len(down) - 1)
      /\ \A i \in DOMAIN down' : i + 1 \in DOMAIN down /\ down'[i] = down[i + 1]
  BY Popped
<1>2. \A i \in DOMAIN down' : i \in Nat /\ i > 0
  BY <1>1
<1>3. ASSUME NEW j \in DOMAIN down, j # 1 PROVE j > 1 /\ j - 1 \in DOMAIN down' /\ (j - 1) + 1 = j
  BY <1>1, <1>3
<1>4. \A j \in DOMAIN down : j \in Nat /\ (j = 1 \/ (j > 1 /\ j - 1 \in DOMAIN down' /\ down'[j - 1] = down[j]))
  BY <1>1, <1>3
<1>5. ASSUME NEW i \in DOMAIN down', i > 1 PROVE i \in DOMAIN down /\ i # 1
  BY <1>1, <1>5
<1>6. \A i \in DOMAIN down' : i > 1 => i - 1 \in DOMAIN down' /\ down'[i - 1] = down[i]
  BY <1>4, <1>5
<1> QED
  BY <1>1, <1>2, <1>4, <1>6

\* The reply was no row, and none that cannot be read.
LEMMA ComingSkip ==
  ASSUME down \in Seq(DownMsg), down # <<>>, down' = Tail(down), Coming, Tally, UNCHANGED result,
         Loop' = Loop, act'.cur = act.cur, act'.at # "settle", Flowing' => Flowing /\ Taken' = Taken,
         Flowing => Head(down).t \notin {RowType, "bad", "huge"} /\ (Loop = "exec" => Head(down).t # "copyout")
  PROVE  Coming' /\ Tally'
<1> SUFFICES ASSUME Flowing' PROVE Coming' /\ Tally'
  BY DEF Coming, Tally
<1>1. Flowing /\ Taken' = Taken /\ RowType' = RowType
  BY DEF RowType
<1>2. /\ 1 \in DOMAIN down /\ Head(down) = down[1] /\ down[1].t \notin {RowType, "bad", "huge"}
      /\ Loop = "exec" => down[1].t # "copyout"
      /\ \A i \in DOMAIN down' : i \in Nat /\ i > 0 /\ i + 1 \in DOMAIN down /\ down'[i] = down[i + 1]
      /\ \A i \in DOMAIN down' : i > 1 => i - 1 \in DOMAIN down' /\ down'[i - 1] = down[i]
      /\ \A j \in DOMAIN down : j \in Nat /\ (j = 1 \/ (j > 1 /\ j - 1 \in DOMAIN down' /\ down'[j - 1] = down[j]))
  BY <1>1, Shifted
<1>3. ASSUME NEW i \in DOMAIN down', NEW n, Follows(i + 1, n) PROVE Follows(i, n)'
  <2>0. i \in Nat /\ i > 0 /\ (i + 1) - 1 = i
    BY <1>2
  <2>1. CASE n = Taken + 1 /\ \A j \in DOMAIN down : j < i + 1 => down[j].t # RowType
    <3>1. ASSUME NEW j \in DOMAIN down', j < i PROVE down'[j].t # RowType
      <4>1. j \in Nat /\ j + 1 \in DOMAIN down /\ down'[j] = down[j + 1] /\ j + 1 < i + 1
        BY <1>2, <2>0, <3>1
      <4> QED
        BY <2>1, <4>1
    <3> QED
      BY <1>1, <2>1, <3>1 DEF Follows
  <2>2. CASE down[i].t = RowType /\ n = down[i].item.n + 1
    <3>a. i # 1
      BY <1>2, <2>2
    <3>1. i > 1
      BY <2>0, <3>a
    <3> QED
      BY <1>1, <1>2, <2>2, <3>1 DEF Follows
  <2>3. CASE down[i].t \in {"bad", "huge"}
    <3>a. i # 1
      BY <1>2, <2>3
    <3>1. i > 1
      BY <2>0, <3>a
    <3> QED
      BY <1>1, <1>2, <2>3, <3>1 DEF Follows
  <2> QED
    BY <1>3, <2>0, <2>1, <2>2, <2>3 DEF Follows
<1>4. Coming'
  <2> SUFFICES ASSUME NEW i \in DOMAIN down'
               PROVE  /\ down'[i].t = RowType => RowAt(i)'
                      /\ Loop = "copyout" /\ down'[i].t = "trailer" => TrailerAt(i)'
    BY <1>1 DEF Coming
  <2>1. i + 1 \in DOMAIN down /\ down'[i] = down[i + 1] /\ i \in Nat
    BY <1>2
  <2>2. ASSUME down'[i].t = RowType PROVE RowAt(i)'
    <3>1. PICK n : n = down[i + 1].item.n /\ n = down'[i].item.n
      BY <2>1
    <3>2. (down[i + 1].item.is = "err" \/ down[i + 1].item = Item(act.cur, n)) /\ Follows(i + 1, n)
      BY <1>1, <2>1, <2>2, <3>1 DEF Coming, RowAt
    <3>3. Follows(i, n)'
      BY <1>3, <3>2
    <3>4. Follows(i, down[i].item.n)'
      BY <3>1, <3>3 DEF Follows
    <3>5. down'[i].item.is = "err" \/ down'[i].item = Item(act'.cur, down'[i].item.n)
      BY <2>1, <3>1, <3>2
    <3> QED
      BY <3>4, <3>5 DEF RowAt
  <2>3. ASSUME Loop = "copyout", down'[i].t = "trailer" PROVE TrailerAt(i)'
    <3>1. PICK n : n = Len(result[act.cur].rows) + 1
      OBVIOUS
    <3>2. /\ result[act.cur].end # "none" /\ down[i + 1].item = Mark("trailer") /\ Follows(i + 1, n)
          /\ \A j \in DOMAIN down : j > i + 1 => down[j].t \notin ItemTypes
      BY <1>1, <2>1, <2>3, <3>1 DEF Coming, TrailerAt
    <3>3. Follows(i, n)'
      BY <1>3, <3>2
    <3>4. ASSUME NEW j \in DOMAIN down', j > i PROVE down'[j].t \notin ItemTypes
      <4>1. j + 1 \in DOMAIN down /\ down'[j] = down[j + 1] /\ j + 1 > i + 1
        BY <1>2, <2>1, <3>4
      <4> QED
        BY <3>2, <4>1
    <3>5. Follows(i, Len(result[act.cur].rows) + 1)'
      BY <3>1, <3>3 DEF Follows
    <3>6. result'[act'.cur].end # "none" /\ down'[i].item = Mark("trailer")
      BY <2>1, <3>2
    <3> QED
      BY <3>4, <3>5, <3>6 DEF TrailerAt
  <2> QED
    BY <2>2, <2>3
<1>5. Tally'
  <2> SUFFICES ASSUME Loop = "exec", ~Unfinished(act.cur)
               PROVE  /\ \A i \in DOMAIN down' : down'[i].t = "row" => down'[i].item.n <= Len(result[act.cur].rows)
                      /\ \/ Taken = Len(result[act.cur].rows)
                         \/ \E i \in DOMAIN down' : \/ down'[i].t = "row" /\ down'[i].item.n = Len(result[act.cur].rows)
                                                    \/ down'[i].t \in {"bad", "huge", "copyout"}
    BY <1>1 DEF Tally, Unfinished
  <2>1. \A i \in DOMAIN down' : down'[i].t = "row" => down'[i].item.n <= Len(result[act.cur].rows)
    BY <1>1, <1>2 DEF Tally
  <2>2. CASE Taken = Len(result[act.cur].rows)
    BY <2>1, <2>2
  <2>3. ASSUME NEW j \in DOMAIN down, \/ down[j].t = "row" /\ down[j].item.n = Len(result[act.cur].rows)
                                      \/ down[j].t \in {"bad", "huge", "copyout"}
        PROVE  \E i \in DOMAIN down' : \/ down'[i].t = "row" /\ down'[i].item.n = Len(result[act.cur].rows)
                                       \/ down'[i].t \in {"bad", "huge", "copyout"}
    <3>1. j # 1
      BY <1>2, <2>3 DEF RowType
    <3>2. j - 1 \in DOMAIN down' /\ down'[j - 1] = down[j]
      BY <1>2, <3>1
    <3> QED
      BY <2>3, <3>2
  <2> QED
    BY <1>1, <2>1, <2>2, <2>3 DEF Tally
<1> QED
  BY <1>4, <1>5

\* The first reply was a row, and was taken.
LEMMA ComingTaken ==
  ASSUME down \in Seq(DownMsg), down # <<>>, down' = Tail(down), Coming, Tally, UNCHANGED result,
         Loop' = Loop, act'.cur = act.cur, act'.at # "settle", Flowing' => Flowing /\ Taken' = Taken + 1,
         Taken \in Nat, Flowing => Head(down).t = RowType
  PROVE  Coming' /\ Tally'
<1> SUFFICES ASSUME Flowing' PROVE Coming' /\ Tally'
  BY DEF Coming, Tally
<1>1. Flowing /\ Taken' = Taken + 1 /\ RowType' = RowType
  BY DEF RowType
<1>2. /\ 1 \in DOMAIN down /\ down[1].t = RowType
      /\ \A i \in DOMAIN down' : i \in Nat /\ i > 0 /\ i + 1 \in DOMAIN down /\ down'[i] = down[i + 1]
      /\ \A i \in DOMAIN down' : i > 1 => i - 1 \in DOMAIN down' /\ down'[i - 1] = down[i]
      /\ \A j \in DOMAIN down : j \in Nat /\ (j = 1 \/ (j > 1 /\ j - 1 \in DOMAIN down' /\ down'[j - 1] = down[j]))
  BY <1>1, Shifted
<1>a. down[1].item.n = Taken + 1
  <2>1. Follows(1, down[1].item.n)
    BY <1>1, <1>2 DEF Coming, RowAt
  <2> QED
    BY <2>1 DEF Follows
<1>b. RowType \in {"row", "data"} /\ (Loop = "exec" => RowType = "row")
  BY DEF RowType
<1>3. ASSUME NEW i \in DOMAIN down', NEW n, Follows(i + 1, n) PROVE Follows(i, n)'
  <2>0. i \in Nat /\ i > 0 /\ (i + 1) - 1 = i /\ 1 < i + 1
    BY <1>2
  <2>1. ~(\A j \in DOMAIN down : j < i + 1 => down[j].t # RowType)
    BY <1>2, <2>0
  <2>2. CASE down[i].t = RowType /\ n = down[i].item.n + 1
    <3>1. CASE i = 1
      <4>1. \A j \in DOMAIN down' : ~(j < 1)
        BY <1>2
      <4>2. n = Taken' + 1
        BY <1>1, <1>a, <2>2, <3>1
      <4> QED
        BY <3>1, <4>1, <4>2 DEF Follows
    <3>2. CASE i # 1
      <4>1. i > 1
        BY <2>0, <3>2
      <4> QED
        BY <1>1, <1>2, <2>2, <4>1 DEF Follows
    <3> QED
      BY <3>1, <3>2
  <2>3. CASE down[i].t \in {"bad", "huge"}
    <3>a. i # 1
      BY <1>2, <1>b, <2>3
    <3>1. i > 1
      BY <2>0, <3>a
    <3> QED
      BY <1>1, <1>2, <2>3, <3>1 DEF Follows
  <2> QED
    BY <1>3, <2>0, <2>1, <2>2, <2>3 DEF Follows
<1>4. Coming'
  <2> SUFFICES ASSUME NEW i \in DOMAIN down'
               PROVE  /\ down'[i].t = RowType => RowAt(i)'
                      /\ Loop = "copyout" /\ down'[i].t = "trailer" => TrailerAt(i)'
    BY <1>1 DEF Coming
  <2>1. i + 1 \in DOMAIN down /\ down'[i] = down[i + 1] /\ i \in Nat
    BY <1>2
  <2>2. ASSUME down'[i].t = RowType PROVE RowAt(i)'
    <3>1. PICK n : n = down[i + 1].item.n /\ n = down'[i].item.n
      BY <2>1
    <3>2. (down[i + 1].item.is = "err" \/ down[i + 1].item = Item(act.cur, n)) /\ Follows(i + 1, n)
      BY <1>1, <2>1, <2>2, <3>1 DEF Coming, RowAt
    <3>3. Follows(i, n)'
      BY <1>3, <3>2
    <3>4. Follows(i, down[i].item.n)'
      BY <3>1, <3>3 DEF Follows
    <3>5. down'[i].item.is = "err" \/ down'[i].item = Item(act'.cur, down'[i].item.n)
      BY <2>1, <3>1, <3>2
    <3> QED
      BY <3>4, <3>5 DEF RowAt
  <2>3. ASSUME Loop = "copyout", down'[i].t = "trailer" PROVE TrailerAt(i)'
    <3>1. PICK n : n = Len(result[act.cur].rows) + 1
      OBVIOUS
    <3>2. /\ result[act.cur].end # "none" /\ down[i + 1].item = Mark("trailer") /\ Follows(i + 1, n)
          /\ \A j \in DOMAIN down : j > i + 1 => down[j].t \notin ItemTypes
      BY <1>1, <2>1, <2>3, <3>1 DEF Coming, TrailerAt
    <3>3. Follows(i, n)'
      BY <1>3, <3>2
    <3>4. ASSUME NEW j \in DOMAIN down', j > i PROVE down'[j].t \notin ItemTypes
      <4>1. j + 1 \in DOMAIN down /\ down'[j] = down[j + 1] /\ j + 1 > i + 1
        BY <1>2, <2>1, <3>4
      <4> QED
        BY <3>2, <4>1
    <3>5. Follows(i, Len(result[act.cur].rows) + 1)'
      BY <3>1, <3>3 DEF Follows
    <3>6. result'[act'.cur].end # "none" /\ down'[i].item = Mark("trailer")
      BY <2>1, <3>2
    <3> QED
      BY <3>4, <3>5, <3>6 DEF TrailerAt
  <2> QED
    BY <2>2, <2>3
<1>5. Tally'
  <2> SUFFICES ASSUME Loop = "exec", ~Unfinished(act.cur)
               PROVE  /\ \A i \in DOMAIN down' : down'[i].t = "row" => down'[i].item.n <= Len(result[act.cur].rows)
                      /\ \/ Taken' = Len(result[act.cur].rows)
                         \/ \E i \in DOMAIN down' : \/ down'[i].t = "row" /\ down'[i].item.n = Len(result[act.cur].rows)
                                                    \/ down'[i].t \in {"bad", "huge", "copyout"}
    BY <1>1 DEF Tally, Unfinished
  <2>1. \A i \in DOMAIN down' : down'[i].t = "row" => down'[i].item.n <= Len(result[act.cur].rows)
    BY <1>1, <1>2 DEF Tally
  <2>2. Taken # Len(result[act.cur].rows)
    <3>1. Taken + 1 <= Len(result[act.cur].rows)
      BY <1>1, <1>2, <1>a, <1>b DEF Tally
    <3> QED
      BY <3>1
  <2>3. ASSUME NEW j \in DOMAIN down, \/ down[j].t = "row" /\ down[j].item.n = Len(result[act.cur].rows)
                                      \/ down[j].t \in {"bad", "huge", "copyout"}
        PROVE  \/ Taken' = Len(result[act.cur].rows)
               \/ \E i \in DOMAIN down' : \/ down'[i].t = "row" /\ down'[i].item.n = Len(result[act.cur].rows)
                                          \/ down'[i].t \in {"bad", "huge", "copyout"}
    <3>1. CASE j = 1
      BY <1>1, <1>2, <1>a, <1>b, <2>3, <3>1
    <3>2. CASE j # 1
      <4>1. j - 1 \in DOMAIN down' /\ down'[j - 1] = down[j]
        BY <1>2, <3>2
      <4> QED
        BY <2>3, <4>1
    <3> QED
      BY <3>1, <3>2
  <2> QED
    BY <1>1, <2>1, <2>2, <2>3 DEF Tally
<1> QED
  BY <1>4, <1>5

\* A reply that is not for the stream is read.
LEMMA ReadOnRows ==
  ASSUME IInv, DInv, RInv, Skip \/ ReadServerError
  PROVE  RInv'
<1>0. act \in ActType /\ down \in Seq(DownMsg)
  BY ActorFacts
<1>1. /\ UNCHANGED <<kind, caller, seen, result, mode, queue, done, up, broken, chan, rx, tx>>
      /\ down # <<>> /\ down' = Tail(down)
  BY DEF Skip, ReadServerError, Reads, ActorKeeps, client, channels, server
<1>2. /\ act'.cur = act.cur /\ act'.at = act.at /\ act'.item = act.item /\ (act'.sent <=> act.sent) /\ act.at \in Reading
      /\ act'.err = "stale" => act.err = "stale" \/ Head(down).t = "stale"
      /\ \/ Head(down).t \in {"error", "stale"}
         \/ Head(down).t \notin Handled[act.at] \cup {"bad", "huge"}
  BY <1>0 DEF Skip, ReadServerError, Reads, ActType
<1>3. Loop' = Loop /\ Busy /\ Busy' /\ act.at \notin {"send", "settle"}
  BY <1>1, <1>2 DEF Loop, Busy, Reading
<1>4. Held' /\ Fresh' /\ Closed' /\ Final' /\ Given'
  <2>1. Busy' /\ ~act'.sent => ~act.sent /\ act'.at # "send"
    BY <1>2, <1>3
  <2>2. Keeping
    BY <1>1, KeepingUp
  <2> QED
    BY <1>1, <1>2, <1>3, <2>1, <2>2, ActorKept
<1>5. 1 \in DOMAIN down /\ Head(down) = down[1] /\ \A i \in DOMAIN down' : \E j \in DOMAIN down : down'[i] = down[j]
  BY <1>0, <1>1, Popped, Rest
<1>6. Executes'
  <2>1. Stale' => Stale
    BY <1>2, <1>5 DEF Stale
  <2>2. Loop = "prepare" => Unfinished(act.cur)' /\ ~act'.sent
    BY <1>1, <1>2 DEF RInv, Executes, Unfinished
  <2>3. ASSUME Loop \in {"exec", "copyout"}, NEW i \in DOMAIN up, up[i].t = "execute"
        PROVE  Unfinished(act.cur)' /\ ~act'.sent /\ \A j \in DOMAIN down' : down'[j].t \notin ItemTypes
    <3>1. Unfinished(act.cur) /\ ~act.sent /\ \A j \in DOMAIN down : down[j].t \notin ItemTypes
      BY <2>3 DEF RInv, Executes
    <3> QED
      BY <1>1, <1>2, <1>5, <3>1 DEF Unfinished
  <2>4. Loop = "exec" /\ Stale' => Unfinished(act.cur)' /\ (mode' = "skip" \/ up' = <<>>)
    BY <1>1, <1>2, <2>1 DEF RInv, Executes, Unfinished
  <2> QED
    BY <1>1, <1>3, <2>2, <2>3, <2>4 DEF Executes
<1>7. Numbered'
  BY <1>1 DEF RInv, Numbered
<1>8. Coming' /\ Tally'
  <2>1. Flowing' => Flowing /\ Taken' = Taken
    BY <1>1, <1>2, <1>3 DEF Flowing, Taken, Passed
  <2>2. ASSUME Flowing
        PROVE  Head(down).t \notin {RowType, "bad", "huge"} /\ (Loop = "exec" => Head(down).t # "copyout")
    <3>1. act.at = Loop /\ Loop \in {"exec", "copyout"}
      BY <1>2, <2>2 DEF Flowing, Loop, Reading
    <3>2. CASE Head(down).t \in {"error", "stale"}
      BY <3>2 DEF RowType
    <3>3. CASE Head(down).t \notin Handled[act.at] \cup {"bad", "huge"}
      <4>1. Handled["exec"] = {"error", "stale", "ready", "row", "copyin", "copyout"}
            /\ Handled["copyout"] = {"error", "stale", "ready", "data", "trailer"}
        BY DEF Handled
      <4> QED
        BY <3>1, <3>3, <4>1 DEF RowType
    <3> QED
      BY <1>2, <3>2, <3>3
  <2>3. Coming /\ Tally /\ act'.at # "settle"
    BY <1>2, <1>3 DEF RInv
  <2> QED
    BY <1>0, <1>1, <1>2, <1>3, <2>1, <2>2, <2>3, ComingSkip
<1> QED
  BY <1>4, <1>6, <1>7, <1>8 DEF RInv

\* A row or a chunk is read.
LEMMA ReadItemRows ==
  ASSUME IInv, DInv, RInv, ReadItem
  PROVE  RInv'
<1>0. act \in ActType /\ down \in Seq(DownMsg) /\ Engaged(act) /\ seen \in [Requests -> Seq(Payload)]
      /\ chan \in [Requests -> Seq(Payload)]
  BY ActorFacts DEF Shape
<1>1. /\ UNCHANGED <<kind, caller, seen, result, mode, queue, done, up, broken, chan, rx, tx>>
      /\ down # <<>> /\ down' = Tail(down)
      /\ \/ act.at = "exec" /\ Head(down).t = "row"
         \/ act.at = "copyout" /\ Head(down).t \in {"data", "trailer"}
  BY DEF ReadItem, Reads, ActorKeeps, client, channels, server
<1>2. /\ act'.cur = act.cur /\ act'.sent = TRUE /\ act'.err = act.err
      /\ act.cur \in rx => act'.at = "send" /\ act'.item = Head(down).item
      /\ act.cur \notin rx => act'.at = act.at
  BY <1>0 DEF ReadItem, ActType
<1>3. /\ act.cur \in Requests /\ caller[act.cur] # "new" /\ (act.at = "copyout" <=> kind[act.cur] = "copyout")
      /\ Busy /\ Busy' /\ act'.at # "settle" /\ Loop = act.at /\ Loop' = act.at
  <2>1. act.cur \in Requests /\ caller[act.cur] # "new" /\ (act.at = "copyout" <=> kind[act.cur] = "copyout")
    BY <1>0, <1>1, KindsOf DEF Engaged
  <2>2. Loop = act.at /\ Loop' = act.at
    BY <1>1, <1>2, <2>1 DEF Loop
  <2> QED
    BY <1>1, <1>2, <2>1, <2>2 DEF Busy
<1>4. Keeping
  BY <1>1, KeepingUp
<1>5. Held' /\ Fresh' /\ Closed' /\ Final'
  BY <1>1, <1>2, <1>3, <1>4, ActorKept
<1>6. 1 \in DOMAIN down /\ Head(down) = down[1] /\ \A i \in DOMAIN down' : \E j \in DOMAIN down : down'[i] = down[j]
  BY <1>0, <1>1, Popped, Rest
<1>7. \A i \in DOMAIN up : up[i].t # "execute"
  <2>1. down[1].t \in ItemTypes
    BY <1>1, <1>6 DEF ItemTypes
  <2> QED
    BY <1>1, <1>3, <1>6, <2>1 DEF RInv, Executes
<1>8. Executes'
  <2>1. Stale' => Stale
    BY <1>2, <1>6 DEF Stale
  <2>2. Loop = "exec" /\ Stale' => Unfinished(act.cur)' /\ (mode' = "skip" \/ up' = <<>>)
    BY <1>1, <1>2, <2>1 DEF RInv, Executes, Unfinished
  <2> QED
    BY <1>1, <1>3, <1>7, <2>2 DEF Executes
<1>9. Numbered'
  BY <1>1 DEF RInv, Numbered
<1>10. Passed(act.cur) \in Nat /\ Taken = Passed(act.cur) /\ Taken \in Nat
  <2>1. seen[act.cur] \in Seq(Payload) /\ chan[act.cur] \in Seq(Payload)
    BY <1>0, <1>3
  <2>2. Len(seen[act.cur]) \in Nat /\ Len(chan[act.cur]) \in Nat
    BY <2>1
  <2>3. act.at # "send"
    BY <1>1
  <2>4. Passed(act.cur) \in Nat
    <3>1. PICK a \in Nat, b \in Nat : a = Len(seen[act.cur]) /\ b = Len(chan[act.cur])
      BY <2>2
    <3>2. a + b \in Nat
      OBVIOUS
    <3> QED
      BY <3>1, <3>2 DEF Passed
  <2>5. Taken = Passed(act.cur) + 0
    BY <2>3 DEF Taken
  <2> QED
    BY <2>4, <2>5
<1>11. Flowing' => Flowing /\ Taken' = Taken + 1
  <2>1. Passed(act.cur)' = Passed(act.cur)
    BY <1>1, <1>2 DEF Passed
  <2> QED
    BY <1>1, <1>2, <1>3, <1>10, <2>1 DEF Flowing, Taken
<1>12. ASSUME Head(down).t = "trailer"
       PROVE  /\ Coming' /\ Tally'
              /\ act.cur \in rx /\ kind[act.cur] \in Streams => Fitting(act.cur, Head(down).item, Passed(act.cur) + 1)
  <2>0. act.at = "copyout" /\ Loop = "copyout"
    BY <1>1, <1>3, <1>12
  <2>1. Flowing => TrailerAt(1)
    BY <1>6, <1>12, <2>0 DEF RInv, Coming
  <2>2. Coming' /\ Tally'
    <3> SUFFICES ASSUME Flowing PROVE Coming' /\ Tally'
      BY <1>2, <1>3, <1>11 DEF Coming, Tally
    <3>1. \A j \in DOMAIN down' : down'[j].t \notin ItemTypes
      <4>1. \A j \in DOMAIN down : j > 1 => down[j].t \notin ItemTypes
        BY <2>1 DEF TrailerAt
      <4>2. \A i \in DOMAIN down' : i \in Nat /\ i > 0 /\ i + 1 \in DOMAIN down /\ down'[i] = down[i + 1]
        BY <1>0, <1>1, Shifted
      <4>3. \A i \in Nat : i > 0 => i + 1 > 1
        OBVIOUS
      <4> QED
        BY <4>1, <4>2, <4>3
    <3>2. RowType' = "data" /\ "data" \in ItemTypes /\ "trailer" \in ItemTypes
      BY <1>3, <2>0 DEF RowType, ItemTypes
    <3> QED
      BY <1>3, <2>0, <3>1, <3>2 DEF Coming, Tally
  <2>3. ASSUME act.cur \in rx, kind[act.cur] \in Streams PROVE Fitting(act.cur, Head(down).item, Passed(act.cur) + 1)
    <3>1. TrailerAt(1)
      BY <1>3, <2>0, <2>1, <2>3 DEF Flowing
    <3>2. /\ result[act.cur].end # "none" /\ down[1].item = Mark("trailer") /\ Len(result[act.cur].rows) + 1 = Taken + 1
      BY <3>1 DEF TrailerAt, Follows
    <3>3. RanOnce(act.cur)
      BY <1>7, <3>2 DEF RanOnce
    <3> QED
      BY <1>3, <1>6, <1>10, <2>0, <3>2, <3>3 DEF Fitting
  <2> QED
    BY <2>2, <2>3
<1>13. ASSUME Head(down).t = RowType
       PROVE  /\ Coming' /\ Tally'
              /\ act.cur \in rx /\ kind[act.cur] \in Streams => Fitting(act.cur, Head(down).item, Passed(act.cur) + 1)
  <2>1. Coming' /\ Tally'
    <3>1. Coming /\ Tally
      BY DEF RInv
    <3> QED
      BY <1>0, <1>1, <1>2, <1>3, <1>10, <1>11, <1>13, <3>1, ComingTaken
  <2>2. ASSUME act.cur \in rx, kind[act.cur] \in Streams PROVE Fitting(act.cur, Head(down).item, Passed(act.cur) + 1)
    <3>1. RowAt(1)
      BY <1>1, <1>3, <1>6, <1>13, <2>2 DEF Flowing, RInv, Coming
    <3>2. down[1].item.n = Taken + 1
      BY <3>1 DEF RowAt, Follows
    <3> QED
      BY <1>6, <1>10, <3>1, <3>2 DEF Fitting, RowAt
  <2> QED
    BY <2>1, <2>2
<1>14. /\ Coming' /\ Tally'
       /\ act.cur \in rx /\ kind[act.cur] \in Streams => Fitting(act.cur, Head(down).item, Passed(act.cur) + 1)
  BY <1>1, <1>3, <1>12, <1>13 DEF RowType
<1>15. Given'
  <2> SUFFICES ASSUME NEW s \in Requests, Stream(s)'
               PROVE  /\ \A i \in DOMAIN seen'[s] : Fitting(s, seen[s][i], i)'
                      /\ \A i \in DOMAIN chan'[s] : Fitting(s, chan[s][i], Len(seen[s]) + i)'
                      /\ act'.at = "send" /\ act'.cur = s /\ s \in rx' => Fitting(s, act.item, Passed(s) + 1)'
    BY DEF Given
  <2>1. Stream(s) /\ kind[s] \in Streams
    BY <1>1 DEF Stream
  <2>2. \A x, p : Fitting(s, x, p) => Fitting(s, x, p)'
    BY <1>1 DEF Fitting, RanOnce
  <2>3. act'.at = "send" /\ act'.cur = s /\ s \in rx' => Fitting(s, act.item, Passed(s) + 1)'
    <3> SUFFICES ASSUME act'.cur = s, s \in rx' PROVE Fitting(s, act.item, Passed(s) + 1)'
      OBVIOUS
    <3>1. PICK x, p : x = act'.item /\ p = Passed(s) + 1
      OBVIOUS
    <3>2. Fitting(s, x, p)
      BY <1>1, <1>2, <1>14, <2>1, <3>1
    <3>3. Passed(s)' = Passed(s)
      BY <1>1 DEF Passed
    <3> QED
      BY <2>2, <3>1, <3>2, <3>3 DEF Fitting, Passed
  <2> QED
    BY <1>1, <2>1, <2>2, <2>3 DEF RInv, Given, Fitting
<1> QED
  BY <1>5, <1>8, <1>9, <1>14, <1>15 DEF RInv

\* A row or a chunk goes into the channel.
LEMMA SendRows ==
  ASSUME IInv, DInv, RInv, Send
  PROVE  RInv'
<1> DEFINE r == act.cur
<1>0. act \in ActType /\ Engaged(act) /\ seen \in [Requests -> Seq(Payload)] /\ chan \in [Requests -> Seq(Payload)]
  BY ActorFacts DEF Shape
<1>1. /\ UNCHANGED <<kind, caller, seen, result, mode, queue, done, up, down, broken, rx, tx>> /\ act.at = "send"
      /\ chan' = IF r \in rx THEN [chan EXCEPT ![r] = Append(@, act.item)] ELSE chan
      /\ act'.cur = r /\ act'.sent = act.sent /\ act'.err = act.err
      /\ act'.at = IF kind[r] = "copyout" THEN "copyout" ELSE "exec"
  BY <1>0 DEF Send, ActorKeeps, client, server, ActType
<1>2. /\ r \in Requests /\ caller[r] # "new" /\ act.item \in Payload /\ Busy /\ Busy' /\ Loop' = Loop
      /\ act'.at \notin {"send", "settle"} /\ Loop \in {"exec", "copyout"} /\ done[r] = "none" /\ act.sent = TRUE
      /\ \A i \in DOMAIN queue : queue[i] \in Requests /\ queue[i] # r
  <2>1. r \in Requests /\ caller[r] # "new" /\ act.item \in Payload /\ Busy /\ Busy' /\ act'.at \notin {"send", "settle"}
    BY <1>0, <1>1 DEF Engaged, Busy
  <2>2. Loop' = Loop /\ Loop \in {"exec", "copyout"}
    BY <1>1 DEF Loop
  <2>3. done[r] = "none" /\ \A i \in DOMAIN queue : queue[i] \in Requests /\ queue[i] # r
    BY <2>1 DEF DInv, Fifo, IInv, TypeOK
  <2>4. act.sent = TRUE
    BY <1>0, <1>1, <2>1 DEF RInv, Fresh, ActType
  <2> QED
    BY <2>1, <2>2, <2>3, <2>4
<1>3. \A s \in Requests : s # r => chan'[s] = chan[s]
  BY <1>0, <1>1, <1>2
<1>4. r \in rx => /\ Len(chan'[r]) = Len(chan[r]) + 1 /\ Len(chan[r]) \in Nat /\ Len(seen[r]) \in Nat
                  /\ \A i \in DOMAIN chan'[r] : \/ i \in DOMAIN chan[r] /\ chan'[r][i] = chan[r][i]
                                                \/ i = Len(chan[r]) + 1 /\ chan'[r][i] = act.item
  <2> SUFFICES ASSUME r \in rx PROVE /\ Len(chan'[r]) = Len(chan[r]) + 1 /\ Len(chan[r]) \in Nat /\ Len(seen[r]) \in Nat
                                     /\ \A i \in DOMAIN chan'[r] : \/ i \in DOMAIN chan[r] /\ chan'[r][i] = chan[r][i]
                                                                   \/ i = Len(chan[r]) + 1 /\ chan'[r][i] = act.item
    OBVIOUS
  <2>1. PICK c \in Seq(Payload), e \in Payload : c = chan[r] /\ e = act.item
    BY <1>0, <1>2
  <2>2. chan'[r] = Append(c, e)
    BY <1>0, <1>1, <1>2, <2>1
  <2>3. /\ Len(Append(c, e)) = Len(c) + 1 /\ Len(c) \in Nat
        /\ \A i \in DOMAIN Append(c, e) : \/ i \in DOMAIN c /\ Append(c, e)[i] = c[i]
                                          \/ i = Len(c) + 1 /\ Append(c, e)[i] = e
    OBVIOUS
  <2>4. Len(seen[r]) \in Nat
    <3>1. seen[r] \in Seq(Payload)
      BY <1>0, <1>2
    <3> QED
      BY <3>1
  <2> QED
    BY <2>1, <2>2, <2>3, <2>4
<1>5. Held'
  BY <1>1, HeldKept DEF RInv
<1>6. Fresh'
  <2>1. \A s \in Requests : caller'[s] = "new" => seen'[s] = <<>> /\ chan'[s] = <<>>
    BY <1>1, <1>2, <1>3 DEF RInv, Fresh
  <2>2. \A i \in DOMAIN queue' :
          /\ kind'[queue'[i]] \in Streams => seen'[queue'[i]] = <<>> /\ chan'[queue'[i]] = <<>>
          /\ ~broken' => result'[queue'[i]].end = "none"
    BY <1>1, <1>2, <1>3 DEF RInv, Fresh
  <2> QED
    BY <1>1, <1>2, <2>1, <2>2 DEF Fresh
<1>7. Executes' /\ Numbered'
  <2>1. Stale' <=> Stale
    BY <1>1 DEF Stale
  <2> QED
    BY <1>1, <1>2, <2>1 DEF RInv, Executes, Numbered, Unfinished
<1>8. Given'
  <2> SUFFICES ASSUME NEW s \in Requests, Stream(s)'
               PROVE  /\ \A i \in DOMAIN seen'[s] : Fitting(s, seen[s][i], i)'
                      /\ \A i \in DOMAIN chan'[s] : Fitting(s, chan[s][i], Len(seen[s]) + i)'
    BY <1>2 DEF Given
  <2>1. Stream(s)
    BY <1>1 DEF Stream
  <2>2. \A x, p : Fitting(s, x, p) => Fitting(s, x, p)'
    BY <1>1 DEF Fitting, RanOnce
  <2>3. \A i \in DOMAIN chan'[s] : Fitting(s, chan'[s][i], Len(seen[s]) + i)
    <3>1. CASE s # r \/ r \notin rx
      <4>1. chan'[s] = chan[s]
        BY <1>1, <1>3, <3>1
      <4> QED
        BY <2>1, <4>1 DEF RInv, Given
    <3>2. CASE s = r /\ r \in rx
      <4>1. Fitting(r, act.item, Passed(r) + 1)
        BY <1>1, <2>1, <3>2 DEF RInv, Given
      <4>2. Passed(r) + 1 = Len(seen[r]) + (Len(chan[r]) + 1)
        <5>1. PICK a \in Nat, b \in Nat : a = Len(seen[r]) /\ b = Len(chan[r])
          BY <1>4, <3>2
        <5>2. (a + b) + 1 = a + (b + 1)
          OBVIOUS
        <5> QED
          BY <5>1, <5>2 DEF Passed
      <4>3. \A i \in DOMAIN chan[r] : Fitting(r, chan[r][i], Len(seen[r]) + i)
        BY <2>1, <3>2 DEF RInv, Given
      <4> QED
        BY <1>4, <3>2, <4>1, <4>2, <4>3
    <3> QED
      BY <3>1, <3>2
  <2> QED
    BY <1>1, <2>1, <2>2, <2>3 DEF RInv, Given, Fitting
<1>9. Coming' /\ Tally'
  <2>1. Flowing' => Flowing /\ Taken' = Taken
    <3> SUFFICES ASSUME Flowing' PROVE Flowing /\ Taken' = Taken
      OBVIOUS
    <3>1. Flowing /\ r \in rx
      BY <1>1, <1>2 DEF Flowing
    <3>2. PICK a \in Nat, b \in Nat : a = Len(seen[r]) /\ b = Len(chan[r]) /\ b + 1 = Len(chan'[r]) /\ a = Len(seen'[r])
      BY <1>1, <1>4, <3>1
    <3>3. (a + (b + 1)) + 0 = (a + b) + 1
      OBVIOUS
    <3>4. Taken = (a + b) + 1 /\ Taken' = (a + (b + 1)) + 0
      BY <1>1, <1>2, <3>2 DEF Taken, Passed
    <3> QED
      BY <3>1, <3>3, <3>4
  <2>2. Coming /\ Tally
    BY DEF RInv
  <2> QED
    BY <1>1, <1>2, <2>1, <2>2, TakenKept
<1>10. Closed'
  <2> SUFFICES ASSUME NEW s \in Requests, Stream(s)', kind'[s] = "fetch", s \in rx'
               PROVE  /\ done'[s] = "ok" => Passed(s)' = Len(result'[s].rows)
                      /\ done'[s] = "err" => Erred(seen[s])' \/ Erred(chan[s])'
                      /\ done'[s] = "refused" => Passed(s)' = 0
    BY DEF Closed
  <2>1. CASE s = r
    BY <1>1, <1>2, <2>1
  <2>2. CASE s # r
    <3>1. Stream(s) /\ kind[s] = "fetch" /\ s \in rx /\ seen'[s] = seen[s] /\ chan'[s] = chan[s]
      BY <1>1, <1>3, <2>2 DEF Stream
    <3> QED
      BY <1>1, <3>1 DEF RInv, Closed, Erred, Passed
  <2> QED
    BY <2>1, <2>2
<1>11. Final'
  BY <1>1, KeepingUp, FinalKept DEF RInv, Stream
<1> QED
  BY <1>5, <1>6, <1>7, <1>8, <1>9, <1>10, <1>11 DEF RInv

LEMMA SentPlain ==
  ASSUME NEW p \in DOMAIN Sent
  PROVE  Sent[p] \in Seq(UpTypes) /\ \A i \in DOMAIN Sent[p] : Sent[p][i] # "copydata"
<1>1. Sent[p] \in Seq(UpTypes)
  BY SentBy, Writings
<1>2. CASE p \in {"prepare", "exec", "copyin"}
  <2>1. Sent[p] \in {<<"parse", "describe", "sync">>, <<"bind", "execute", "sync">>, <<"parse", "bind", "execute">>}
    BY <1>2, SentBy
  <2>2. DOMAIN Sent[p] = {1, 2, 3} /\ \A i \in {1, 2, 3} : Sent[p][i] \in {"parse", "describe", "sync", "bind", "execute"}
    BY <2>1
  <2> QED
    BY <1>1, <2>2
<1>3. CASE p = "copyout"
  <2>1. Sent[p] = <<"parse", "bind", "execute", "sync">>
    BY <1>3, SentBy
  <2>2. DOMAIN Sent[p] = {1, 2, 3, 4} /\ \A i \in {1, 2, 3, 4} : Sent[p][i] \in {"parse", "describe", "sync", "bind", "execute"}
    BY <2>1
  <2> QED
    BY <1>1, <2>2
<1>4. CASE p = "script"
  <2>1. Sent[p] = <<"query">>
    BY <1>4, SentBy
  <2>2. DOMAIN Sent[p] = {1} /\ Sent[p][1] = "query"
    BY <2>1
  <2> QED
    BY <1>1, <2>2
<1> QED
  BY <1>2, <1>3, <1>4, SentBy

\* ReadyForQuery: the second half of a query, another attempt, or the end.
LEMMA ReadReadyRows ==
  ASSUME IInv, DInv, RInv, ReadReady
  PROVE  RInv'
<1>0. act \in ActType /\ Engaged(act) /\ Typed /\ down \in Seq(DownMsg) /\ up \in Seq(UpMsg) /\ seen \in [Requests -> Seq(Payload)]
      /\ chan \in [Requests -> Seq(Payload)]
  BY ActorFacts DEF Shape
<1>1. /\ UNCHANGED <<kind, caller, seen, mode, result, linked, queue, done, chan, rx, tx>>
      /\ act.at \in Reading \ {"copyin"} /\ ~Resting /\ Busy
      /\ down # <<>> /\ down' = Tail(down) /\ Head(down).t = "ready"
  BY DEF ReadReady, Reads, ActorKeeps, client, channels, server, world, Resting, Reading, Busy
<1>2. up = <<>> /\ mode = "ready" /\ \A i \in DOMAIN down' : down'[i].t = "async"
  BY <1>1, ReadyIsLast
<1>3. /\ act.cur \in Requests /\ caller[act.cur] # "new" /\ kind[act.cur] \in KindOf[act.at] /\ ~broken
      /\ done[act.cur] = "none"
  BY <1>0, <1>1, ActorFacts DEF Engaged, DInv, Fifo, Busy
<1>4. /\ act'.cur = act.cur
      /\ \/ /\ act.at = "prepare" /\ act'.at = "exec" /\ act'.err = "none" /\ act'.sent = act.sent
            /\ Flushed(Sent["exec"], act.cur)
         \/ /\ act.at \in {"prepare", "exec"} /\ act.err = "stale" /\ ~act.sent
            /\ act'.at = "prepare" /\ act'.err = "none" /\ act'.sent = FALSE /\ Flushed(Sent["prepare"], act.cur)
         \/ act'.at = "settle" /\ act'.err = "err" /\ up' = up /\ act'.sent = act.sent
         \/ /\ act'.at = "settle" /\ act'.err = act.err /\ up' = up /\ act'.sent = act.sent
            /\ act.at = "prepare" => act.err # "none"
  <2>1. CASE /\ act.at = "prepare" /\ act.err = "none"
             /\ \/ Flushed(<<"bind", "execute", "sync">>, act.cur) /\ At("exec")
                \/ /\ FlushFails(FALSE) \/ (NotEncoded /\ UNCHANGED broken)
                   /\ FailWith("err")
    BY <1>0, <2>1, SentBy DEF At, FailWith, FlushFails, NotEncoded, ActType
  <2>2. CASE /\ act.at \in {"prepare", "exec"} /\ ShouldRetry
             /\ \/ /\ Flushed(<<"parse", "describe", "sync">>, act.cur)
                   /\ act' = [Idle EXCEPT !.at = "prepare", !.cur = act.cur, !.attempt = 2]
                \/ FlushFails(TRUE) /\ FailWith("err")
    BY <1>0, <2>2, SentBy DEF FailWith, FlushFails, ActType, Idle, ShouldRetry
  <2>3. CASE (act.at = "prepare" => act.err # "none") /\ At("settle") /\ UNCHANGED <<broken, up>>
    BY <1>0, <2>3 DEF At, ActType
  <2> QED
    BY <2>1, <2>2, <2>3 DEF ReadReady
<1>5. Sent["exec"] = <<"bind", "execute", "sync">> /\ Sent["prepare"] = <<"parse", "describe", "sync">>
  BY SentBy
<1>6. Keeping /\ Numbered'
  <2>1. CASE up' = up
    BY <1>1, <2>1, KeepingUp DEF RInv, Numbered
  <2>2. ASSUME NEW p \in {"exec", "prepare"}, act.at \in {"prepare", "exec"}, Flushed(Sent[p], act.cur) PROVE Keeping /\ Numbered'
    <3>1. Sent[p] \in Seq(UpTypes) /\ \A i \in DOMAIN Sent[p] : Sent[p][i] # "copydata"
      BY SentBy, SentPlain
    <3>2. kind[act.cur] # "copyout" /\ (Stream(act.cur) => caller[act.cur] # "ended")
      BY <1>3, <2>2, KindsOf DEF RInv, Held, Stream, Streams
    <3>3. Keeping
      BY <1>0, <1>1, <1>3, <2>2, <3>1, <3>2, KeepingFlushed
    <3>4. Numbered'
      BY <1>1, <1>3, <2>2, <3>1, NumberedFlushed DEF RInv
    <3> QED
      BY <3>3, <3>4
  <2> QED
    BY <1>4, <2>1, <2>2
<1>7. Held' /\ Fresh' /\ Closed' /\ Final' /\ Given'
  <2>1. /\ Busy' /\ ~act'.sent => ~act.sent /\ act'.at # "send"
        /\ act'.at # "send"
    BY <1>4
  <2> QED
    BY <1>1, <1>3, <1>4, <1>6, <2>1, ActorKept
<1>8. Loop' = act'.at /\ (act.at \in {"prepare", "exec"} => Loop = act.at)
  BY <1>4 DEF Loop
<1>9. ~Stale' \/ act'.err # "none"
  BY <1>2 DEF Stale
<1>10. Coming'
  <2>1. \A i \in DOMAIN down' : down'[i].t \notin {"row", "data", "trailer"}
    BY <1>2
  <2> QED
    BY <2>1 DEF Coming, RowType
<1>11. ASSUME act.at \in {"prepare", "exec"}, act'.at \in {"prepare", "exec"} PROVE Unfinished(act.cur)' /\ ~act'.sent
  <2>1. Unfinished(act.cur) /\ ~act'.sent
    <3>1. CASE act.at = "prepare"
      BY <1>4, <1>8, <1>11, <3>1 DEF RInv, Executes
    <3>2. CASE act.at = "exec"
      BY <1>4, <1>8, <1>11, <3>2 DEF RInv, Executes, Stale
    <3> QED
      BY <1>11, <3>1, <3>2
  <2> QED
    BY <1>1, <1>4, <2>1 DEF Unfinished
<1>12. CASE act.at \in {"prepare", "exec"} /\ act'.at \in {"prepare", "exec"} /\ act'.err = "none"
  <2>1. Executes'
    <3>1. \A j \in DOMAIN down' : down'[j].t \notin ItemTypes
      BY <1>2 DEF ItemTypes
    <3> QED
      BY <1>9, <1>11, <1>12, <3>1 DEF Executes
  <2>2. Tally'
    BY <1>11, <1>12 DEF Tally
  <2> QED
    BY <1>6, <1>7, <1>10, <2>1, <2>2 DEF RInv
<1>13. CASE act'.at = "settle"
  <2>1. Executes'
    BY <1>8, <1>13 DEF Executes
  <2>2. ASSUME act'.err = "none", kind[act.cur] = "fetch", act.cur \in rx PROVE Passed(act.cur) = Len(result[act.cur].rows)
    <3>1. act.err = "none" /\ act.at # "prepare"
      BY <1>4, <1>13, <2>2
    <3>2. act.at \in {"exec", "abort"}
      BY <1>1, <1>3, <2>2, <3>1, KindsOf DEF Reading
    <3>3. act.at = "exec" /\ Loop = "exec"
      <4>1. act.at = "abort" => Loop \in {"abort", "scriptabort"}
        BY DEF Loop
      <4> QED
        BY <1>1, <1>8, <3>1, <3>2, <4>1 DEF DInv, Verdict
    <3>4. \A i \in DOMAIN down : down[i].t \in {"ready", "async"}
      <4>1. ASSUME NEW j \in DOMAIN down PROVE down[j].t \in {"ready", "async"}
        <5>1. (\E i \in DOMAIN down' : down'[i] = down[j]) \/ down[j] = Head(down)
          BY <1>0, <1>1, Rest
        <5> QED
          BY <1>1, <1>2, <5>1
      <4> QED
        BY <4>1
    <3>5. result[act.cur].end = "complete"
      <4>1. ~Told
        BY <3>1, <3>4 DEF Told
      <4>2. \E i \in DOMAIN down : down[i].t = "ready"
        BY <1>0, <1>1, Popped
      <4> QED
        BY <1>1, <3>3, <4>1, <4>2 DEF DInv, Verdict
    <3>6. Flowing /\ ~Unfinished(act.cur)
      BY <2>2, <3>3, <3>5 DEF Flowing, Unfinished, Streams
    <3>7. Taken = Len(result[act.cur].rows)
      BY <3>3, <3>4, <3>6 DEF RInv, Tally
    <3>8. Taken = Passed(act.cur) + 0
      BY <3>3 DEF Taken
    <3>9. PICK a \in Nat, b \in Nat : a = Len(seen[act.cur]) /\ b = Len(chan[act.cur])
      <4>1. seen[act.cur] \in Seq(Payload) /\ chan[act.cur] \in Seq(Payload)
        BY <1>0, <1>3
      <4>2. Len(seen[act.cur]) \in Nat /\ Len(chan[act.cur]) \in Nat
        BY <4>1
      <4> QED
        BY <4>2
    <3>10. (a + b) + 0 = a + b
      OBVIOUS
    <3> QED
      BY <3>7, <3>8, <3>9, <3>10 DEF Passed
  <2>3. Passed(act.cur)' = Passed(act.cur)
    BY <1>1, <1>4 DEF Passed
  <2>4. Tally'
    BY <1>1, <1>4, <1>8, <1>13, <2>2, <2>3 DEF Tally
  <2> QED
    BY <1>6, <1>7, <1>10, <2>1, <2>4 DEF RInv
<1> QED
  BY <1>4, <1>12, <1>13

\* The handler reports.
LEMMA SettleRows ==
  ASSUME IInv, DInv, RInv, Settle
  PROVE  RInv'
<1> DEFINE r == act.cur
<1>0. act \in ActType /\ Engaged(act) /\ chan \in [Requests -> Seq(Payload)] /\ done \in [Requests -> {"none", "ok", "err", "refused"}]
  BY ActorFacts
<1>1. /\ UNCHANGED <<kind, caller, seen, mode, result, queue, up, broken>>
      /\ act.at = "settle" /\ act'.at = "idle"
      /\ done' = [done EXCEPT ![r] = IF act.err = "none" THEN "ok" ELSE "err"]
  BY DEF Settle, ActorKeeps, client, server, Idle
<1>2. /\ r \in Requests /\ caller[r] # "new" /\ Busy /\ ~Busy' /\ Loop' = "idle"
      /\ \A i \in DOMAIN queue : queue[i] \in Requests /\ queue[i] # r
  <2>1. r \in Requests /\ caller[r] # "new" /\ Busy /\ ~Busy' /\ Loop' = "idle"
    BY <1>0, <1>1 DEF Engaged, Busy, Loop
  <2> QED
    BY <2>1 DEF DInv, Fifo, IInv, TypeOK
<1>3. /\ \A s \in Requests : s # r => done'[s] = done[s]
      /\ done'[r] = IF act.err = "none" THEN "ok" ELSE "err"
  BY <1>0, <1>1, <1>2
<1>4. /\ \A s \in Requests : s # r => chan'[s] = chan[s] /\ (s \in rx' <=> s \in rx) /\ (s \in tx' <=> s \in tx)
      /\ kind[r] \in Streams =>
           /\ rx' = rx /\ r \notin tx'
           /\ IF act.err # "none" /\ r \in rx THEN chan'[r] = Append(chan[r], Mark("err")) ELSE chan'[r] = chan[r]
  BY <1>0, <1>2 DEF Settle, Release, Streams
<1>5. ASSUME Stream(r), act.err # "none", r \in rx
      PROVE  /\ \E i \in DOMAIN chan'[r] : chan'[r][i].is = "err"
             /\ \A i \in DOMAIN chan'[r] : (i \in DOMAIN chan[r] /\ chan'[r][i] = chan[r][i]) \/ chan'[r][i].is = "err"
  <2>1. PICK c \in Seq(Payload), e \in Payload : c = chan[r] /\ e = Mark("err") /\ e.is = "err"
    BY <1>0, <1>2, Payloads DEF Mark
  <2>2. chan'[r] = Append(c, e)
    BY <1>4, <1>5, <2>1 DEF Stream
  <2>3. /\ Len(c) + 1 \in DOMAIN Append(c, e) /\ Append(c, e)[Len(c) + 1] = e
        /\ \A i \in DOMAIN Append(c, e) : (i \in DOMAIN c /\ Append(c, e)[i] = c[i]) \/ Append(c, e)[i] = e
    OBVIOUS
  <2>4. \A i \in DOMAIN chan'[r] : (i \in DOMAIN chan[r] /\ chan'[r][i] = chan[r][i]) \/ chan'[r][i].is = "err"
    BY <2>1, <2>2, <2>3
  <2>5. \E i \in DOMAIN chan'[r] : chan'[r][i].is = "err"
    BY <2>1, <2>2, <2>3
  <2> QED
    BY <2>4, <2>5
<1>6. \A s \in Requests : Stream(s)' <=> Stream(s)
  BY <1>1 DEF Stream
<1>7. Held'
  <2> SUFFICES ASSUME NEW s \in Requests, Stream(s)'
               PROVE  /\ caller'[s] \in {"open", "ended", "dropped"}
                      /\ s \in rx' <=> caller'[s] = "open"
                      /\ done'[s] = "none" => s \in tx'
                      /\ caller'[s] = "ended" /\ kind'[s] = "fetch" => s \notin tx'
    BY DEF Held
  <2>1. Stream(s) /\ kind[s] \in Streams
    BY <1>6 DEF Stream
  <2>2. CASE s # r
    BY <1>1, <1>3, <1>4, <2>1, <2>2 DEF RInv, Held
  <2>3. CASE s = r
    BY <1>1, <1>3, <1>4, <2>1, <2>3 DEF RInv, Held
  <2> QED
    BY <2>2, <2>3
<1>8. Fresh'
  BY <1>1, <1>2, <1>4 DEF RInv, Fresh
<1>9. Executes' /\ Coming' /\ Tally'
  BY <1>1, <1>2 DEF Executes, Coming, Tally, Flowing
<1>10. Numbered'
  BY <1>1 DEF RInv, Numbered
<1>11. Given'
  <2> SUFFICES ASSUME NEW s \in Requests, Stream(s)'
               PROVE  /\ \A i \in DOMAIN seen'[s] : Fitting(s, seen[s][i], i)'
                      /\ \A i \in DOMAIN chan'[s] : Fitting(s, chan[s][i], Len(seen[s]) + i)'
    BY <1>1 DEF Given
  <2>1. Stream(s) /\ kind[s] \in Streams
    BY <1>6 DEF Stream
  <2>2. \A x, p : Fitting(s, x, p) => Fitting(s, x, p)'
    BY <1>1 DEF Fitting, RanOnce
  <2>3. \A i \in DOMAIN chan'[s] : Fitting(s, chan'[s][i], Len(seen[s]) + i)
    <3>1. CASE s = r /\ act.err # "none" /\ r \in rx
      <4>1. \A i \in DOMAIN chan'[r] : (i \in DOMAIN chan[r] /\ chan'[r][i] = chan[r][i]) \/ chan'[r][i].is = "err"
        BY <1>5, <2>1, <3>1
      <4> QED
        BY <2>1, <3>1, <4>1 DEF RInv, Given, Fitting
    <3>2. CASE ~(s = r /\ act.err # "none" /\ r \in rx)
      <4>1. chan'[s] = chan[s]
        BY <1>4, <2>1, <3>2
      <4> QED
        BY <2>1, <4>1 DEF RInv, Given
    <3> QED
      BY <3>1, <3>2
  <2> QED
    BY <1>1, <2>1, <2>2, <2>3 DEF RInv, Given, Fitting
<1>12. Closed'
  <2> SUFFICES ASSUME NEW s \in Requests, Stream(s)', kind'[s] = "fetch", s \in rx'
               PROVE  /\ done'[s] = "ok" => Passed(s)' = Len(result'[s].rows)
                      /\ done'[s] = "err" => Erred(seen[s])' \/ Erred(chan[s])'
                      /\ done'[s] = "refused" => Passed(s)' = 0
    BY DEF Closed
  <2>1. Stream(s) /\ kind[s] = "fetch" /\ kind[s] \in Streams /\ s \in rx
    BY <1>1, <1>4, <1>6 DEF Stream
  <2>2. CASE s # r
    <3>1. chan'[s] = chan[s] /\ seen'[s] = seen[s] /\ done'[s] = done[s] /\ Passed(s)' = Passed(s)
      BY <1>1, <1>3, <1>4, <2>2 DEF Passed
    <3> QED
      BY <1>1, <2>1, <3>1 DEF RInv, Closed, Erred
  <2>3. CASE s = r /\ act.err = "none"
    <3>1. done'[r] = "ok" /\ chan'[r] = chan[r]
      BY <1>3, <1>4, <2>1, <2>3
    <3>2. Passed(r) = Len(result[r].rows)
      BY <1>1, <2>1, <2>3 DEF RInv, Tally
    <3>3. Len(seen'[r]) + Len(chan'[r]) = Len(result'[r].rows)
      BY <1>1, <3>1, <3>2 DEF Passed
    <3> QED
      BY <2>3, <3>1, <3>3 DEF Passed
  <2>4. CASE s = r /\ act.err # "none"
    <3>1. done'[r] = "err" /\ \E i \in DOMAIN chan'[r] : chan'[r][i].is = "err"
      BY <1>3, <1>5, <2>1, <2>4
    <3> QED
      BY <2>4, <3>1 DEF Erred
  <2> QED
    BY <2>2, <2>3, <2>4
<1>13. Final'
  <2>1. done[r] = "none"
    BY <1>2 DEF DInv, Fifo
  <2> QED
    BY <1>1, <1>3, <1>6, <2>1, KeepingUp, FinalKept DEF RInv
<1> QED
  BY <1>7, <1>8, <1>9, <1>10, <1>11, <1>12, <1>13 DEF RInv

\* A request that fails before it has begun leaves the connection broken.
LEMMA TakenHow ==
  ASSUME IInv, TakeRequest, NEW r, r = Head(queue)
  PROVE  /\ broken => broken'
         /\ done' # done => broken'
         /\ act'.at # "idle" => act'.sent = FALSE /\ act'.at # "send" /\ (act'.at # "settle" => act'.err = "none")
<1>1. r \in Requests
  BY Popped DEF TakeRequest, IInv, Shape, Roles
<1>2. act.at = "idle" /\ act \in ActType
  BY ActorFacts DEF TakeRequest
<1>3. ASSUME NEW e, FailRequest(r, e), broken'
      PROVE  /\ act'.at # "idle" => act'.sent = FALSE /\ act'.at # "send" /\ (act'.at # "settle" => act'.err = "none")
  <2>1. act' = act
    BY <1>3 DEF FailRequest
  <2> QED
    BY <1>2, <2>1
<1>4. CASE broken
  BY <1>3, <1>4 DEF TakeRequest
<1>5. CASE ~broken /\ kind[r] \in DOMAIN Opening /\ Open(r, kind[r])
  <2>0. kind[r] # "send"
    BY <1>5 DEF Opening
  <2>1. CASE act' = [Idle EXCEPT !.at = kind[r], !.cur = r] /\ UNCHANGED <<channels, done, broken>>
    BY <1>5, <2>0, <2>1 DEF Idle
  <2>2. CASE FlushFails(FALSE) /\ FailRequest(r, "err")
    BY <1>3, <2>2 DEF FlushFails
  <2>3. CASE NotEncoded /\ MarkBroken /\ FailRequest(r, "err")
    BY <1>3, <2>3 DEF MarkBroken
  <2> QED
    BY <1>5, <2>1, <2>2, <2>3 DEF Open
<1>6. CASE ~broken /\ Attempt(r, 1) /\ UNCHANGED <<channels, done>>
  BY <1>6 DEF Attempt, Idle
<1> QED
  BY <1>4, <1>5, <1>6 DEF TakeRequest

LEMMA TakeRequestRows ==
  ASSUME IInv, DInv, RInv, TakeRequest
  PROVE  RInv'
<1>0. PICK r : r = Head(queue)
  OBVIOUS
<1>1. /\ UNCHANGED <<down, kind, caller, seen, mode, result, linked>>
      /\ queue \in Seq(Requests) /\ queue # <<>> /\ queue' = Tail(queue) /\ act.at = "idle" /\ Resting /\ ~Busy
  BY DEF TakeRequest, ActorKeeps, client, server, world, Resting, Busy, IInv, Shape
<1>2. /\ r = queue[1] /\ r \in Requests /\ 1 \in DOMAIN queue
      /\ \A i \in DOMAIN queue' : i + 1 \in DOMAIN queue /\ i + 1 # 1 /\ queue'[i] = queue[i + 1]
  BY <1>0, <1>1, Popped
<1>3. caller[r] # "new" /\ done[r] = "none"
  BY <1>2 DEF IInv, Roles, DInv, Fifo
<1>4. \A i \in DOMAIN queue' : queue'[i] # r /\ queue'[i] \in Requests /\ \E j \in DOMAIN queue : queue[j] = queue'[i]
  BY <1>2 DEF DInv, Fifo, IInv, TypeOK
<1>5. /\ broken => broken'
      /\ done' # done => broken'
      /\ act'.at # "idle" => act'.sent = FALSE /\ act'.at # "send" /\ (act'.at # "settle" => act'.err = "none")
  BY <1>0, TakenHow
<1>6. kind[r] \in Streams => seen[r] = <<>> /\ chan[r] = <<>>
  BY <1>2 DEF RInv, Fresh
<1>7. \A s \in Requests : Stream(s)' <=> Stream(s)
  BY <1>1 DEF Stream
<1>8. CASE Fails(r) /\ up' = up
  <2>0. PICK e \in {"err", "refused"} : FailRequest(r, e) /\ (kind[r] = "fetch" => e = "refused")
    BY <1>8 DEF Fails
  <2>1. /\ act' = act /\ ~Busy' /\ Loop' = "idle" /\ act'.at = "idle"
        /\ \A s \in Requests : s # r => chan'[s] = chan[s] /\ (s \in rx' <=> s \in rx) /\ (s \in tx' <=> s \in tx)
        /\ kind[r] \in Streams => chan'[r] = chan[r] /\ rx' = rx /\ r \notin tx'
        /\ rx' \subseteq rx
    BY <1>1, <1>2, <2>0 DEF FailRequest, Release, IInv, Shape, Streams, Busy, Loop
  <2>2. done'[r] = e /\ (\A s \in Requests : s # r => done'[s] = done[s]) /\ broken'
    <3>1. done'[r] = e /\ \A s \in Requests : s # r => done'[s] = done[s]
      BY <1>2, <2>0 DEF IInv, TypeOK, FailRequest
    <3> QED
      BY <1>3, <1>5, <3>1
  <2>3. \A s \in Requests : Stream(s) => chan'[s] = chan[s] /\ (s \in rx' <=> s \in rx)
    BY <2>1 DEF Stream
  <2>4. Held'
    <3> SUFFICES ASSUME NEW s \in Requests, Stream(s)'
                 PROVE  /\ caller'[s] \in {"open", "ended", "dropped"}
                        /\ s \in rx' <=> caller'[s] = "open"
                        /\ done'[s] = "none" => s \in tx'
                        /\ caller'[s] = "ended" /\ kind'[s] = "fetch" => s \notin tx'
      BY DEF Held
    <3>1. CASE s # r
      BY <1>1, <1>7, <2>1, <2>2, <2>3, <3>1 DEF RInv, Held
    <3>2. CASE s = r
      BY <1>1, <1>7, <2>1, <2>2, <2>3, <3>2 DEF RInv, Held, Stream
    <3> QED
      BY <3>1, <3>2
  <2>5. Fresh'
    <3>1. \A s \in Requests : caller'[s] = "new" => seen'[s] = <<>> /\ chan'[s] = <<>>
      BY <1>1, <1>3, <2>1 DEF RInv, Fresh
    <3>2. \A i \in DOMAIN queue' :
            kind'[queue'[i]] \in Streams => seen'[queue'[i]] = <<>> /\ chan'[queue'[i]] = <<>>
      BY <1>1, <1>4, <2>1 DEF RInv, Fresh
    <3> QED
      BY <2>1, <2>2, <3>1, <3>2 DEF Fresh
  <2>6. Executes' /\ Coming' /\ Tally'
    BY <2>1 DEF Executes, Coming, Tally, Flowing
  <2>7. Keeping /\ Numbered'
    BY <1>1, <1>8, KeepingUp DEF RInv, Numbered
  <2>8. Given' /\ Final'
    <3>1. \A s \in Requests : done[s] = "refused" => done'[s] = "refused"
      BY <1>3, <2>2
    <3> QED
      BY <1>1, <1>7, <2>1, <2>3, <2>7, <3>1, GivenKept, FinalKept DEF RInv
  <2>9. Closed'
    <3> SUFFICES ASSUME NEW s \in Requests, Stream(s)', kind'[s] = "fetch", s \in rx'
                 PROVE  /\ done'[s] = "ok" => Passed(s)' = Len(result'[s].rows)
                        /\ done'[s] = "err" => Erred(seen[s])' \/ Erred(chan[s])'
                        /\ done'[s] = "refused" => Passed(s)' = 0
      BY DEF Closed
    <3>1. Stream(s) /\ kind[s] = "fetch" /\ kind[s] \in Streams /\ s \in rx
      BY <1>1, <1>7, <2>3 DEF Stream
    <3>2. chan'[s] = chan[s] /\ seen'[s] = seen[s] /\ Passed(s)' = Passed(s)
      BY <1>1, <2>3, <3>1 DEF Passed
    <3>3. CASE s # r
      BY <1>1, <1>5, <2>2, <3>1, <3>2, <3>3 DEF RInv, Closed, Erred
    <3>4. CASE s = r
      <4>1. Len(<<>>) + Len(<<>>) = 0
        OBVIOUS
      <4>a. seen[r] = <<>> /\ chan[r] = <<>>
        BY <1>6, <3>1, <3>4
      <4>2. Len(seen[r]) + Len(chan[r]) = 0
        BY <4>1, <4>a
      <4> QED
        BY <2>0, <2>2, <3>1, <3>2, <3>4, <4>2 DEF Passed
    <3> QED
      BY <3>3, <3>4
  <2> QED
    BY <2>4, <2>5, <2>6, <2>7, <2>8, <2>9 DEF RInv
<1>9. ASSUME ~broken, UNCHANGED <<chan, rx, tx, done>>, act'.cur = r, act'.at # "idle", Keeping
      PROVE  Held' /\ Fresh' /\ Given' /\ Closed' /\ Final'
  <2>1. Held' /\ Closed'
    BY <1>1, <1>5, <1>9, HeldKept, ClosedKept DEF RInv
  <2>2. Given' /\ Final'
    BY <1>1, <1>5, <1>7, <1>9, GivenKept, FinalKept DEF RInv
  <2>3. Fresh'
    <3>1. \A i \in DOMAIN queue' :
            /\ kind'[queue'[i]] \in Streams => seen'[queue'[i]] = <<>> /\ chan'[queue'[i]] = <<>>
            /\ ~broken' => result'[queue'[i]].end = "none"
      BY <1>1, <1>4, <1>9 DEF RInv, Fresh
    <3>2. \A s \in Requests : caller'[s] = "new" => seen'[s] = <<>> /\ chan'[s] = <<>>
      BY <1>1, <1>9 DEF RInv, Fresh
    <3>3. /\ kind'[act'.cur] \in Streams => seen'[act'.cur] = <<>> /\ chan'[act'.cur] = <<>>
          /\ act'.at # "send"
      BY <1>1, <1>5, <1>6, <1>9
    <3> QED
      BY <3>1, <3>2, <3>3 DEF Fresh
  <2> QED
    BY <2>1, <2>2, <2>3
<1>10. ASSUME ~broken, UNCHANGED <<channels, done>>,
              NEW p \in DOMAIN Sent, kind[r] \in KindOf[p], act'.at = p, act'.cur = r, Flushed(Sent[p], r)
       PROVE  RInv'
  <2>1. up = <<>> /\ \A i \in DOMAIN down' : down'[i].t = "async"
    BY <1>1, <1>10, AtRest
  <2>2. result[r].end = "none"
    BY <1>2, <1>10 DEF RInv, Fresh
  <2>3. Sent[p] \in Seq(UpTypes) /\ \A i \in DOMAIN Sent[p] : Sent[p][i] # "copydata"
    BY SentPlain
  <2>4. p \in {"prepare", "exec", "script", "copyin", "copyout"} /\ Loop' = p
    BY <1>10, SentBy DEF Loop
  <2>5. Keeping /\ Numbered'
    <3>1. ~RanOnce(r)
      BY <2>2 DEF RanOnce
    <3>2. Keeping
      BY <1>1, <1>2, <1>10, <2>3, <3>1, ActorFacts, KeepingFlushed
    <3>3. Numbered'
      BY <1>1, <1>2, <1>10, <2>3, NumberedFlushed DEF RInv
    <3> QED
      BY <3>2, <3>3
  <2>6. Held' /\ Fresh' /\ Given' /\ Closed' /\ Final'
    <3>1. act'.at # "idle"
      BY <1>10, <2>4
    <3> QED
      BY <1>9, <1>10, <2>5, <3>1 DEF channels
  <2>7. Unfinished(act.cur)' /\ ~act'.sent /\ act'.err = "none" /\ act'.at # "settle"
    <3>1. Unfinished(r)
      BY <2>2 DEF Unfinished
    <3> QED
      BY <1>1, <1>5, <1>10, <2>4, <3>1 DEF Unfinished
  <2>8. \A i \in DOMAIN down' : down'[i].t \notin {"row", "data", "trailer", "stale"}
    BY <2>1
  <2>9. Executes'
    BY <2>7, <2>8 DEF Executes, Stale, ItemTypes
  <2>10. Coming' /\ Tally'
    BY <2>7, <2>8 DEF Coming, Tally, RowType
  <2> QED
    BY <2>5, <2>6, <2>9, <2>10 DEF RInv
<1>11. CASE ~broken /\ UNCHANGED <<channels, done, up>> /\ act'.at = "settle" /\ act'.cur = r /\ act'.err = "err"
  <2>1. Keeping /\ Numbered'
    BY <1>1, <1>11, KeepingUp DEF RInv, Numbered
  <2>2. Held' /\ Fresh' /\ Given' /\ Closed' /\ Final'
    BY <1>9, <1>11, <2>1 DEF channels
  <2>3. Loop' = "settle"
    BY <1>11 DEF Loop
  <2>4. Executes' /\ Coming' /\ Tally'
    BY <1>11, <2>3 DEF Executes, Coming, Tally, Flowing
  <2> QED
    BY <2>1, <2>2, <2>4 DEF RInv
<1> QED
  BY <1>0, <1>8, <1>10, <1>11, TakenRequest

-----------------------------------------------------------------------------
(* The server. *)

\* Nobody is told of a result that may still change.
LEMMA ServerKept ==
  ASSUME IInv, DInv, RInv, Keeping, UNCHANGED <<queue, kind, caller, seen, chan, rx, tx, done, act, broken>>,
         \A s \in Requests : result'[s] = result[s] \/ (linked /\ up # <<>> /\ s = Head(up).of)
  PROVE  /\ Held' /\ Fresh' /\ Given' /\ Closed' /\ Final'
         /\ act.at = "settle" /\ act.err = "none" /\ kind[act.cur] = "fetch" /\ act.cur \in rx =>
              Passed(act.cur)' = Len(result'[act.cur].rows)
<1>1. ASSUME NEW s \in Requests, result'[s] # result[s]
      PROVE  done[s] # "ok" /\ (~broken => s = act.cur /\ ~Resting)
  <2>1. linked /\ up # <<>> /\ s = Head(up).of
    BY <1>1
  <2>2. Head(up) = up[1] /\ 1 \in DOMAIN up
    BY <2>1, Serving
  <2> QED
    BY <2>1, <2>2, Serving DEF DInv, Posted
<1>2. Held' /\ Closed'
  <2>1. \A s \in Requests : done[s] = "ok" => result'[s] = result[s]
    BY <1>1
  <2> QED
    BY <2>1, HeldKept, ClosedKept DEF RInv
<1>3. Given' /\ Final'
  BY GivenKept, FinalKept DEF RInv, Stream
<1>4. Fresh'
  <2>1. ASSUME NEW i \in DOMAIN queue, ~broken PROVE result'[queue[i]] = result[queue[i]]
    <3>1. queue[i] \in Requests
      BY DEF IInv, TypeOK
    <3>2. result'[queue[i]] # result[queue[i]] => queue[i] = act.cur /\ ~Resting
      BY <1>1, <2>1, <3>1
    <3>3. ~Resting => Busy
      BY DEF Resting, Busy
    <3> QED
      BY <3>2, <3>3 DEF DInv, Fifo
  <2>2. \A i \in DOMAIN queue' :
          /\ kind'[queue'[i]] \in Streams => seen'[queue'[i]] = <<>> /\ chan'[queue'[i]] = <<>>
          /\ ~broken' => result'[queue'[i]].end = "none"
    BY <2>1 DEF RInv, Fresh
  <2>3. \A s \in Requests : caller'[s] = "new" => seen'[s] = <<>> /\ chan'[s] = <<>>
    BY DEF RInv, Fresh
  <2>4. Busy' /\ ~act'.sent => /\ kind'[act'.cur] \in Streams => seen'[act'.cur] = <<>> /\ chan'[act'.cur] = <<>>
                               /\ act'.at # "send"
    BY DEF RInv, Fresh, Busy
  <2> QED
    BY <2>2, <2>3, <2>4 DEF Fresh
<1>5. ASSUME act.at = "settle", act.err = "none", kind[act.cur] = "fetch", act.cur \in rx
      PROVE  Passed(act.cur)' = Len(result'[act.cur].rows)
  <2>1. act.cur \in Requests /\ ~broken /\ Resting
    BY <1>5 DEF IInv, Roles, DInv, Settled, Resting
  <2>2. result'[act.cur] = result[act.cur]
    BY <1>1, <2>1
  <2>3. Passed(act.cur)' = Passed(act.cur)
    BY DEF Passed
  <2> QED
    BY <1>5, <2>2, <2>3 DEF RInv, Tally
<1> QED
  BY <1>2, <1>3, <1>4, <1>5

\* A step of the server that brings no row.
LEMMA QuietRows ==
  ASSUME IInv, DInv, RInv, UNCHANGED <<queue, kind, caller, seen, chan, rx, tx, done, act, broken>>,
         \A i \in DOMAIN up' : \E j \in DOMAIN up : up'[i] = up[j],
         NEW xs \in Seq(DownMsg), down' = down \o xs,
         Loop \in {"exec", "copyout"} => \A i \in DOMAIN xs : xs[i].t \notin ItemTypes,
         \A s \in Requests : result'[s] = result[s] \/ (linked /\ up # <<>> /\ s = Head(up).of),
         \A s \in Requests : kind[s] \in Streams =>
           result'[s].rows = result[s].rows /\ (result[s].end # "none" => result'[s].end # "none"),
         \A s \in Requests : \A i \in DOMAIN result'[s].rows : result'[s].rows[i] = Item(s, i),
         Loop \in {"prepare", "exec", "copyout"} /\ Unfinished(act.cur) => Unfinished(act.cur)',
         Loop = "exec" /\ Stale' => Unfinished(act.cur)' /\ (mode' = "skip" \/ up' = <<>>)
  PROVE  RInv'
<1>1. Keeping
  BY DEF Keeping, RanOnce, Stream, Streams
<1>2. /\ Held' /\ Fresh' /\ Given' /\ Closed' /\ Final'
      /\ act.at = "settle" /\ act.err = "none" /\ kind[act.cur] = "fetch" /\ act.cur \in rx =>
           Passed(act.cur)' = Len(result'[act.cur].rows)
  BY <1>1, ServerKept
<1>3. Numbered'
  BY DEF RInv, Numbered
<1>4. Loop' = Loop /\ (Flowing' <=> Flowing) /\ (Taken)' = Taken /\ RowType' = RowType
  BY DEF Loop, Flowing, Taken, Passed, RowType
<1>5. down \in Seq(DownMsg)
  BY ActorFacts
<1>6. /\ \A i \in DOMAIN down : i \in DOMAIN down' /\ down'[i] = down[i]
      /\ Loop \in {"exec", "copyout"} => \A i \in DOMAIN down' : down'[i].t \in ItemTypes => i \in DOMAIN down
      /\ \A i \in DOMAIN down' : i \in Nat /\ \A j \in DOMAIN down : i < j => i \in DOMAIN down
  <2>1. /\ \A i \in DOMAIN down : (down \o xs)[i] = down[i]
        /\ DOMAIN (down \o xs) = 1..(Len(down) + Len(xs)) /\ Len(down) \in Nat /\ Len(xs) \in Nat
        /\ DOMAIN down = 1..Len(down)
        /\ \A i \in DOMAIN (down \o xs) :
              IF i <= Len(down) THEN i \in DOMAIN down /\ (down \o xs)[i] = down[i]
                                ELSE i - Len(down) \in DOMAIN xs /\ (down \o xs)[i] = xs[i - Len(down)]
    BY <1>5, Joined
  <2>2. \A i \in DOMAIN down : i \in DOMAIN down' /\ down'[i] = down[i]
    BY <2>1
  <2>3. \A i \in DOMAIN down' : i \in Nat /\ \A j \in DOMAIN down : i < j => i \in DOMAIN down
    BY <2>1
  <2>4. ASSUME Loop \in {"exec", "copyout"}, NEW i \in DOMAIN down', down'[i].t \in ItemTypes PROVE i \in DOMAIN down
    <3>1. CASE i <= Len(down)
      BY <2>1, <3>1
    <3>2. CASE ~(i <= Len(down))
      BY <2>1, <2>4, <3>2
    <3> QED
      BY <3>1, <3>2
  <2> QED
    BY <2>2, <2>3, <2>4
<1>7. Executes'
  <2>1. Loop' = "prepare" => Unfinished(act.cur)' /\ ~act'.sent
    BY <1>4 DEF RInv, Executes
  <2>2. ASSUME Loop \in {"exec", "copyout"}, NEW i \in DOMAIN up', up'[i].t = "execute"
        PROVE  /\ Unfinished(act.cur)' /\ ~act'.sent
               /\ \A j \in DOMAIN down' : down'[j].t \notin ItemTypes
    <3>1. PICK k \in DOMAIN up : up[k].t = "execute"
      BY <2>2
    <3>2. Unfinished(act.cur) /\ ~act.sent /\ \A j \in DOMAIN down : down[j].t \notin ItemTypes
      BY <2>2, <3>1 DEF RInv, Executes
    <3> QED
      BY <1>6, <2>2, <3>2
  <2> QED
    BY <1>4, <2>1, <2>2 DEF Executes
<1>8. ASSUME Flowing
      PROVE  /\ act.cur \in Requests /\ kind[act.cur] \in Streams /\ Loop \in {"exec", "copyout"}
             /\ result'[act.cur].rows = result[act.cur].rows
             /\ result[act.cur].end # "none" => result'[act.cur].end # "none"
             /\ RowType \in ItemTypes /\ "trailer" \in ItemTypes
  <2>1. act.cur \in Requests
    BY <1>8 DEF Flowing, IInv, TypeOK
  <2> QED
    BY <1>8, <2>1 DEF Flowing, RowType, ItemTypes
<1>9. ASSUME Flowing, NEW i \in DOMAIN down, NEW n, Follows(i, n) PROVE Follows(i, n)'
  <2>1. i \in Nat /\ i > 0 /\ (i > 1 => i - 1 \in DOMAIN down)
    BY <1>5
  <2>2. \A j \in DOMAIN down' : j < i => j \in DOMAIN down
    BY <1>6
  <2> QED
    BY <1>4, <1>6, <1>9, <2>1, <2>2 DEF Follows
<1>10. Coming'
  <2> SUFFICES ASSUME Flowing, NEW i \in DOMAIN down', down'[i].t \in ItemTypes
               PROVE  /\ down'[i].t = RowType => RowAt(i)'
                      /\ Loop = "copyout" /\ down'[i].t = "trailer" => TrailerAt(i)'
    BY <1>4, <1>8 DEF Coming
  <2>1. i \in DOMAIN down /\ down'[i] = down[i]
    BY <1>6, <1>8
  <2>2. down[i].t = RowType => RowAt(i)'
    <3>1. down[i].t = RowType => RowAt(i)
      BY <2>1 DEF RInv, Coming
    <3> QED
      BY <1>9, <2>1, <3>1 DEF RowAt, Follows
  <2>3. ASSUME Loop = "copyout", down[i].t = "trailer" PROVE TrailerAt(i)'
    <3>1. TrailerAt(i)
      BY <2>1, <2>3 DEF RInv, Coming
    <3>2. \A j \in DOMAIN down' : j > i => down'[j].t \notin ItemTypes
      BY <1>6, <1>8, <3>1 DEF TrailerAt
    <3>3. PICK n : n = Len(result[act.cur].rows) + 1 /\ Follows(i, n)
      BY <3>1 DEF TrailerAt
    <3>4. Follows(i, n)' /\ n = Len(result'[act.cur].rows) + 1
      BY <1>8, <1>9, <2>1, <3>3
    <3>5. Follows(i, Len(result[act.cur].rows) + 1)'
      BY <3>4 DEF Follows
    <3> QED
      BY <1>8, <2>1, <3>1, <3>2, <3>5 DEF TrailerAt
  <2> QED
    BY <2>1, <2>2, <2>3
<1>11. Tally'
  <2>1. ASSUME Flowing, Loop = "exec", ~Unfinished(act.cur)'
        PROVE  /\ \A i \in DOMAIN down' : down'[i].t = "row" => down'[i].item.n <= Len(result'[act.cur].rows)
               /\ \/ Taken' = Len(result'[act.cur].rows)
                  \/ \E i \in DOMAIN down' : \/ down'[i].t = "row" /\ down'[i].item.n = Len(result'[act.cur].rows)
                                             \/ down'[i].t \in {"bad", "huge", "copyout"}
    <3>1. ~Unfinished(act.cur)
      BY <2>1
    <3>2. "row" \in ItemTypes
      BY DEF ItemTypes
    <3>3. \A i \in DOMAIN down' : down'[i].t = "row" => down'[i].item.n <= Len(result'[act.cur].rows)
      BY <1>6, <1>8, <2>1, <3>1, <3>2 DEF RInv, Tally
    <3>4. \/ Taken = Len(result[act.cur].rows)
          \/ \E i \in DOMAIN down : \/ down[i].t = "row" /\ down[i].item.n = Len(result[act.cur].rows)
                                    \/ down[i].t \in {"bad", "huge", "copyout"}
      BY <2>1, <3>1 DEF RInv, Tally
    <3> QED
      BY <1>4, <1>6, <1>8, <2>1, <3>3, <3>4
  <2> QED
    BY <1>2, <1>4, <2>1 DEF Tally
<1> QED
  BY <1>2, <1>3, <1>7, <1>10, <1>11 DEF RInv

LEMMA ServeRows ==
  ASSUME IInv, DInv, RInv, linked, up # <<>>, up' = Tail(up), ServerKeeps,
         NEW ms \in Seq(DownMsg), Says(Head(up), ms),
         ~broken /\ Loop \in {"exec", "copyout"} => \A i \in DOMAIN ms : ms[i].t \notin ItemTypes,
         \A s \in Requests : s # Head(up).of => result'[s] = result[s],
         \A s \in Requests : kind[s] \in Streams =>
           result'[s].rows = result[s].rows /\ (result[s].end # "none" => result'[s].end # "none"),
         \A i \in DOMAIN result'[Head(up).of].rows : result'[Head(up).of].rows[i] = Item(Head(up).of, i),
         ~broken /\ Loop \in {"prepare", "exec", "copyout"} /\ Unfinished(act.cur) => Unfinished(act.cur)',
         ~broken /\ Loop = "exec" /\ (\E i \in DOMAIN ms : ms[i].t = "stale") => Unfinished(act.cur) /\ mode' = "skip",
         ~broken /\ Loop = "exec" /\ mode = "skip" => mode' = "skip" \/ up' = <<>>
  PROVE  RInv'
<1>0. Shape /\ extra \in 0..MaxExtra /\ Head(up) \in UpMsg /\ Head(up).of \in Requests /\ down \in Seq(DownMsg)
  BY ActorFacts, ServerFacts
<1>1. PICK xs \in Seq(DownMsg) :
        /\ down' = down \o xs /\ Len(xs) = Len(ms)
        /\ \A i \in DOMAIN ms : Echo(Head(up), ms[i], xs[i])
  BY <1>0, Said
<1>2. DOMAIN xs = DOMAIN ms
  <2>1. DOMAIN xs = 1..Len(xs) /\ DOMAIN ms = 1..Len(ms)
    OBVIOUS
  <2> QED
    BY <1>1, <2>1
<1>3. UNCHANGED <<queue, kind, caller, seen, chan, rx, tx, done, act, broken>> /\ Loop' = Loop
  BY DEF ServerKeeps, client, channels, Loop
<1>4. Loop \in {"prepare", "exec", "copyout"} => ~broken
  BY ActorFacts DEF Loop, Resting
<1>5. ASSUME NEW i \in DOMAIN xs
      PROVE  /\ xs[i].t \in ItemTypes => ms[i].t \in ItemTypes
             /\ xs[i].t = "stale" => ms[i].t = "stale"
  <2>1. Echo(Head(up), ms[i], xs[i])
    BY <1>1, <1>2
  <2> QED
    BY <2>1 DEF Echo, ItemTypes
<1>6. \A i \in DOMAIN up' : \E j \in DOMAIN up : up'[i] = up[j]
  BY Serving
<1>7. Loop \in {"exec", "copyout"} => \A i \in DOMAIN xs : xs[i].t \notin ItemTypes
  BY <1>2, <1>4, <1>5
<1>8. Loop = "exec" /\ Stale' => Unfinished(act.cur)' /\ (mode' = "skip" \/ up' = <<>>)
  <2> SUFFICES ASSUME Loop = "exec", Stale' PROVE Unfinished(act.cur)' /\ (mode' = "skip" \/ up' = <<>>)
    OBVIOUS
  <2>0. ~broken
    BY <1>4
  <2>1. CASE Stale
    BY <2>0, <2>1 DEF RInv, Executes
  <2>2. CASE \E i \in DOMAIN xs : xs[i].t = "stale"
    BY <1>2, <1>5, <2>0, <2>2
  <2>3. Stale \/ \E i \in DOMAIN xs : xs[i].t = "stale"
    <3>1. ASSUME NEW i \in DOMAIN down', down'[i].t = "stale" PROVE Stale \/ \E j \in DOMAIN xs : xs[j].t = "stale"
      <4>1. IF i <= Len(down) THEN i \in DOMAIN down /\ (down \o xs)[i] = down[i]
                              ELSE i - Len(down) \in DOMAIN xs /\ (down \o xs)[i] = xs[i - Len(down)]
        BY <1>0, <1>1, Joined
      <4>2. CASE i <= Len(down)
        BY <1>1, <3>1, <4>1, <4>2 DEF Stale
      <4>3. CASE ~(i <= Len(down))
        BY <1>1, <3>1, <4>1, <4>3
      <4> QED
        BY <4>2, <4>3
    <3> QED
      BY <1>3, <3>1 DEF Stale
  <2> QED
    BY <2>1, <2>2, <2>3
<1>9. \A s \in Requests : \A i \in DOMAIN result'[s].rows : result'[s].rows[i] = Item(s, i)
  BY SMTT(30) DEF RInv, Numbered
<1>10. Loop \in {"prepare", "exec", "copyout"} /\ Unfinished(act.cur) => Unfinished(act.cur)'
  BY <1>4
<1> QED
  BY <1>1, <1>3, <1>6, <1>7, <1>8, <1>9, <1>10, QuietRows

\* The execution is still to come while what precedes it is.
LEMMA AheadOfExecute ==
  ASSUME IInv, RInv, linked, up # <<>>, ~broken, Loop = "exec", Head(up).t = "bind"
  PROVE  Unfinished(act.cur)
<1>1. up \in Seq(UpMsg) /\ UpShape /\ Head(up) = up[1]
  BY ActorFacts, ServerFacts DEF Wire
<1>2. IsTail(up, <<"bind", "execute", "sync">>)
  BY <1>1 DEF UpShape
<1>3. Len(up) = 3 /\ up[2].t = "execute"
  BY <1>1, <1>2, TailOfThree
<1>4. 2 \in DOMAIN up
  BY <1>1, <1>3
<1> QED
  BY <1>3, <1>4 DEF RInv, Executes

LEMMA ServePrepareRows ==
  ASSUME IInv, DInv, RInv, ServePrepare PROVE RInv'
<1> DEFINE m == Head(up)
<1>0. linked /\ up # <<>> /\ up' = Tail(up) /\ ServerKeeps /\ result' = result /\ mode = "ready"
      /\ m.t \in {"parse", "describe", "bind"}
  BY DEF ServePrepare, Takes
<1>1. m.of \in Requests /\ m = up[1] /\ 1 \in DOMAIN up /\ up \in Seq(UpMsg)
  BY <1>0, Serving, ActorFacts
<1>2. PICK t \in {"complete", "error", "stale"} :
        Says(m, <<Msg(t, m.of)>>) /\ mode' = IF t = "complete" THEN "ready" ELSE "skip"
  <2>1. CASE Says(m, <<Msg("complete", m.of)>>) /\ UNCHANGED mode
    BY <1>0, <2>1
  <2>2. CASE \E code \in {"error", "stale"} : Refuses(m, <<>>, code)
    <3>1. PICK code \in {"error", "stale"} : Refuses(m, <<>>, code)
      BY <2>2
    <3>2. Append(<<>>, Msg(code, m.of)) = <<Msg(code, m.of)>>
      OBVIOUS
    <3> QED
      BY <3>1, <3>2 DEF Refuses
  <2> QED
    BY <2>1, <2>2 DEF ServePrepare
<1> DEFINE ms == <<Msg(t, m.of)>>
<1>3. ms \in Seq(DownMsg) /\ DOMAIN ms = {1} /\ ms[1].t = t
  BY <1>1, ShortReply DEF DownTypes
<1>s. Says(m, ms)
  BY <1>2
<1> HIDE DEF ms
<1>4. \A i \in DOMAIN ms : ms[i].t \notin ItemTypes
  BY <1>2, <1>3 DEF ItemTypes
<1>5. ~broken /\ Loop = "exec" /\ (\E i \in DOMAIN ms : ms[i].t = "stale") => Unfinished(act.cur) /\ mode' = "skip"
  <2> SUFFICES ASSUME ~broken, Loop = "exec", t = "stale" PROVE Unfinished(act.cur) /\ mode' = "skip"
    BY <1>3
  <2>1. m.t = "bind"
    BY <1>0, <1>1, Heads
  <2> QED
    BY <1>0, <1>2, <2>1, AheadOfExecute
<1>6. Unfinished(act.cur) => Unfinished(act.cur)'
  BY <1>0 DEF Unfinished, ServerKeeps
<1>7. \A i \in DOMAIN result'[m.of].rows : result'[m.of].rows[i] = Item(m.of, i)
  BY <1>0, <1>1 DEF RInv, Numbered
<1> QED
  BY <1>0, <1>3, <1>s, <1>4, <1>5, <1>6, <1>7, ServeRows

LEMMA ServeDiscardRows ==
  ASSUME IInv, DInv, RInv, ServeDiscard PROVE RInv'
<1>0. /\ linked /\ up # <<>> /\ up' = Tail(up) /\ ServerKeeps /\ UNCHANGED <<result, mode, down, extra>>
  BY DEF ServeDiscard, Takes
<1>1. Shape /\ Head(up).of \in Requests
  BY <1>0, Serving, ActorFacts
<1> DEFINE ms == <<>>
<1>2. Says(Head(up), ms) /\ ms \in Seq(DownMsg) /\ DOMAIN ms = {}
  BY <1>0, <1>1, Silence
<1> HIDE DEF ms
<1>3. Unfinished(act.cur) => Unfinished(act.cur)'
  BY <1>0 DEF Unfinished, ServerKeeps
<1>4. \A i \in DOMAIN result'[Head(up).of].rows : result'[Head(up).of].rows[i] = Item(Head(up).of, i)
  BY <1>0, <1>1 DEF RInv, Numbered
<1> QED
  BY <1>0, <1>2, <1>3, <1>4, ServeRows

LEMMA ServeSyncRows ==
  ASSUME IInv, DInv, RInv, ServeSync PROVE RInv'
<1> DEFINE r == Head(up).of
<1>0. /\ linked /\ up # <<>> /\ up' = Tail(up) /\ ServerKeeps /\ mode \in {"ready", "skip"} /\ mode' = "ready"
      /\ Head(up).t = "sync"
  BY DEF ServeSync, Takes
<1>1. /\ r \in Requests /\ Head(up) = up[1] /\ (~broken => r = act.cur /\ ~Resting) /\ act' = act
  BY <1>0, Serving DEF ServerKeeps
<1>2. ~broken => up' = <<>>
  <2>1. ~broken => Len(up) = 1
    BY <1>0, <1>1, Heads
  <2>2. up' \in Seq(UpMsg) /\ Len(up') = Len(up) - 1
    BY <1>0, ServerFacts
  <2>3. ~broken => Len(up') = 0
    BY <2>1, <2>2
  <2> QED
    <3>1. \A q \in Seq(UpMsg) : Len(q) = 0 => q = <<>>
      OBVIOUS
    <3> QED
      BY <2>2, <2>3, <3>1
<1>3. PICK ms \in {<<Msg("ready", r)>>, <<Msg("error", r), Msg("ready", r)>>} :
        /\ Says(Head(up), ms)
        /\ \/ result[r].end = "executed" /\ Ends(r, "complete")
           \/ result[r].end = "executed" /\ Ends(r, "failed")
           \/ UNCHANGED result
  BY DEF ServeSync
<1>4. ms \in Seq(DownMsg) /\ \A i \in DOMAIN ms : ms[i].t \in {"ready", "error"}
  <2>1. ms \in Seq(DownMsg)
    BY <1>1, <1>3, ReadyReply
  <2>2. Msg("ready", r).t = "ready" /\ Msg("error", r).t = "error"
    BY DEF Msg
  <2>3. CASE ms = <<Msg("ready", r)>>
    BY <2>1, <2>2, <2>3
  <2>4. CASE ms = <<Msg("error", r), Msg("ready", r)>>
    <3>1. DOMAIN ms = {1, 2} /\ ms[1] = Msg("error", r) /\ ms[2] = Msg("ready", r)
      BY <2>4
    <3> QED
      BY <2>1, <2>2, <3>1
  <2> QED
    BY <1>3, <2>3, <2>4
<1>5. /\ \A s \in Requests : s # r => result'[s] = result[s]
      /\ result'[r].rows = result[r].rows
      /\ result'[r].end = result[r].end \/ (result[r].end = "executed" /\ result'[r].end \in {"complete", "failed"})
  <2>1. CASE UNCHANGED result
    BY <2>1
  <2>2. CASE result[r].end = "executed" /\ \E e \in {"complete", "failed"} : Ends(r, e)
    BY <1>1, <2>2, EndedOne
  <2> QED
    BY <1>3, <2>1, <2>2
<1>6. \A s \in Requests : result'[s].rows = result[s].rows /\ (result[s].end # "none" => result'[s].end # "none")
  BY <1>5
<1>7. \A i \in DOMAIN result'[r].rows : result'[r].rows[i] = Item(r, i)
  BY <1>1, <1>5 DEF RInv, Numbered
<1>8. ~broken /\ Unfinished(act.cur) => Unfinished(act.cur)'
  BY <1>1, <1>5 DEF Unfinished
<1>9. \A i \in DOMAIN ms : ms[i].t \notin ItemTypes /\ ms[i].t # "stale"
  BY <1>4 DEF ItemTypes
<1> QED
  BY <1>0, <1>2, <1>3, <1>4, <1>5, <1>6, <1>7, <1>8, <1>9, ServeRows

LEMMA ServeScriptCopyRows ==
  ASSUME IInv, DInv, RInv, ServeScriptCopy PROVE RInv'
<1> DEFINE r == Head(up).of
<1>0. /\ linked /\ up # <<>> /\ up' = Tail(up) /\ ServerKeeps /\ mode = "scriptcopy"
      /\ Head(up).t = "copyfail" /\ result' = result
      /\ Says(Head(up), <<Msg("error", r), Msg("ready", r)>>)
  BY DEF ServeScriptCopy, Takes
<1>1. Head(up) = up[1] /\ r \in Requests
  BY <1>0, Serving
<1>2. ~broken => Loop \notin {"prepare", "exec", "copyout"}
  BY <1>0, <1>1, Heads
<1> DEFINE ms == <<Msg("error", r), Msg("ready", r)>>
<1>3. ms \in Seq(DownMsg) /\ Says(Head(up), ms)
  BY <1>0, <1>1, ShortReply DEF DownTypes
<1> HIDE DEF ms
<1>4. \A i \in DOMAIN result'[r].rows : result'[r].rows[i] = Item(r, i)
  BY <1>0, <1>1 DEF RInv, Numbered
<1> QED
  BY <1>0, <1>2, <1>3, <1>4, ServeRows

LEMMA ServeCopyRows ==
  ASSUME IInv, DInv, RInv, ServeCopy PROVE RInv'
<1> DEFINE m == Head(up)
           r == m.of
<1>0. /\ linked /\ up # <<>> /\ up' = Tail(up) /\ ServerKeeps /\ mode = "copy"
      /\ m.t \in {"copydata", "copydone", "copyfail"}
  BY DEF ServeCopy, Takes
<1>1. r \in Requests /\ m = up[1] /\ 1 \in DOMAIN up /\ Shape /\ result \in [Requests -> ResultType]
  BY <1>0, Serving, ActorFacts
<1>2. ~broken => Loop \notin {"prepare", "exec", "copyout"}
  BY <1>0, <1>1, Heads
<1>3. \A i \in DOMAIN result[r].rows : result[r].rows[i] = Item(r, i)
  BY <1>1 DEF RInv, Numbered
<1>4. CASE /\ m.t = "copydata"
           /\ result' = [result EXCEPT ![r].rows = Append(@, Item(r, Len(@) + 1))]
           /\ UNCHANGED <<mode, down, extra>>
  <2>1. result[r] \in ResultType /\ result[r].rows \in Seq(Payload)
    BY <1>1 DEF ResultType
  <2> DEFINE e == Item(r, Len(result[r].rows) + 1)
             rs == Append(result[r].rows, e)
  <2>2. \A i \in DOMAIN rs : rs[i] = Item(r, i)
    <3>1. e \in Payload
      BY <1>1, <2>1, Payloads
    <3>2. PICK q \in Seq(Payload), x \in Payload : q = result[r].rows /\ x = e
      BY <2>1, <3>1
    <3>3. \A i \in DOMAIN Append(q, x) : (i \in DOMAIN q /\ Append(q, x)[i] = q[i]) \/ (i = Len(q) + 1 /\ Append(q, x)[i] = x)
      OBVIOUS
    <3> QED
      BY <1>3, <3>2, <3>3
  <2>3. result' = [result EXCEPT ![r] = [result[r] EXCEPT !.rows = rs]]
    BY <1>4
  <2> HIDE DEF rs
  <2>4. [result[r] EXCEPT !.rows = rs].rows = rs
    BY <2>1 DEF ResultType
  <2>5. result'[r].rows = rs /\ \A s \in Requests : s # r => result'[s] = result[s]
    BY <1>1, <2>3, <2>4
  <2>6. kind[r] \notin Streams
    BY <1>1, <1>4 DEF RInv, Numbered, Streams
  <2>7. Says(m, <<>>) /\ <<>> \in Seq(DownMsg) /\ DOMAIN <<>> = {}
    BY <1>1, <1>4, Silence
  <2>8. \A s \in Requests : kind[s] \in Streams =>
          result'[s].rows = result[s].rows /\ (result[s].end # "none" => result'[s].end # "none")
    BY <2>5, <2>6
  <2> QED
    BY <1>0, <1>2, <2>2, <2>5, <2>7, <2>8, ServeRows
<1>5. ASSUME NEW e \in {"executed", "failed"}, Ends(r, e), NEW ms \in Seq(DownMsg), Says(m, ms) PROVE RInv'
  <2>1. /\ \A s \in Requests : s # r => result'[s] = result[s]
        /\ result'[r].end = e /\ result'[r].rows = result[r].rows
    BY <1>1, <1>5, EndedOne
  <2>2. \A s \in Requests : kind[s] \in Streams =>
          result'[s].rows = result[s].rows /\ (result[s].end # "none" => result'[s].end # "none")
    BY <2>1
  <2>3. \A i \in DOMAIN result'[r].rows : result'[r].rows[i] = Item(r, i)
    BY <1>3, <2>1
  <2> QED
    BY <1>0, <1>2, <1>5, <2>1, <2>2, <2>3, ServeRows
<1>6. CASE Ends(r, "executed") /\ Says(m, <<Msg("complete", r)>>)
  <2>1. <<Msg("complete", r)>> \in Seq(DownMsg)
    BY <1>1, ShortReply DEF DownTypes
  <2> QED
    BY <1>5, <1>6, <2>1
<1>7. CASE Ends(r, "failed") /\ Refuses(m, <<>>, "error")
  <2>1. <<Msg("error", r)>> \in Seq(DownMsg) /\ Append(<<>>, Msg("error", r)) = <<Msg("error", r)>>
    BY <1>1, ShortReply DEF DownTypes
  <2>2. Says(m, <<Msg("error", r)>>)
    BY <1>7, <2>1 DEF Refuses
  <2> QED
    BY <1>5, <1>7, <2>1, <2>2
<1> QED
  BY <1>4, <1>6, <1>7 DEF ServeCopy

LEMMA ServeScriptRows ==
  ASSUME IInv, DInv, RInv, ServeScript PROVE RInv'
<1> DEFINE m == Head(up)
<1>0. linked /\ up # <<>> /\ up' = Tail(up) /\ ServerKeeps /\ mode = "ready" /\ m.t = "query"
  BY DEF ServeScript, Takes
<1>1. m.of \in Requests /\ m = up[1] /\ 1 \in DOMAIN up
  BY <1>0, Serving, SMTT(30)
<1>2. PICK script \in Scripts :
        LET ran == Ran(script)
            last == ran[Len(ran)]
            msgs == [i \in DOMAIN ran |-> StatementReply(ran[i], m.of)]
            replies == IF Len(msgs) = 1 THEN msgs[1] ELSE msgs[1] \o msgs[2]
        IN  /\ Says(m, IF last = "copyin" THEN replies ELSE Append(replies, Msg("ready", m.of)))
            /\ Ends(m.of, IF last \in {"err", "copyin"} THEN "failed" ELSE "complete")
  BY DEF ServeScript, Ran, Stops
<1> DEFINE ran == Ran(script)
           last == ran[Len(ran)]
           msgs == [i \in DOMAIN ran |-> StatementReply(ran[i], m.of)]
           replies == IF Len(msgs) = 1 THEN msgs[1] ELSE msgs[1] \o msgs[2]
           ms == IF last = "copyin" THEN replies ELSE Append(replies, Msg("ready", m.of))
<1>3. Says(m, ms) /\ Ends(m.of, IF last \in {"err", "copyin"} THEN "failed" ELSE "complete")
  BY <1>2
<1>4. replies \in Seq(ScriptMsg(last = "copyin"))
  BY <1>1, ScriptReplies
<1> HIDE DEF replies, last
<1>5. replies \in Seq(DownMsg)
  BY <1>4, ScriptSeq
<1>6. Msg("ready", m.of) \in DownMsg
  BY <1>1, ShortReply DEF DownTypes
<1>7. ms \in Seq(DownMsg)
  <2> DEFINE e == Msg("ready", m.of)
  <2>1. e \in DownMsg
    BY <1>6
  <2> HIDE DEF e
  <2>2. Append(replies, e) \in Seq(DownMsg)
    BY <1>5, <2>1
  <2> QED
    BY <1>5, <2>2 DEF e
<1> HIDE DEF ms
<1>8. /\ \A s \in Requests : s # m.of => result'[s] = result[s]
      /\ result'[m.of].end \in {"failed", "complete"} /\ result'[m.of].rows = result[m.of].rows
  BY <1>1, <1>3, EndedOne
<1>9. ~broken => Loop = "script"
  BY <1>0, <1>1, Heads
<1>10. \A i \in DOMAIN result'[m.of].rows : result'[m.of].rows[i] = Item(m.of, i)
  BY <1>1, <1>8 DEF RInv, Numbered
<1>11. \A s \in Requests : kind[s] \in Streams =>
         result'[s].rows = result[s].rows /\ (result[s].end # "none" => result'[s].end # "none")
  BY <1>8
<1> QED
  BY <1>0, <1>3, <1>7, <1>8, <1>9, <1>10, <1>11, ServeRows, SMTT(30)

LEMMA WorldRows ==
  ASSUME IInv, DInv, RInv, ServerNotifies \/ Lose PROVE RInv'
<1>0. down \in Seq(DownMsg)
  BY ActorFacts
<1>1. UNCHANGED <<queue, kind, caller, seen, chan, rx, tx, done, act, broken, result, mode>>
  BY DEF ServerNotifies, Lose, ServerKeeps, client, channels, server
<1>2. \A i \in DOMAIN up' : \E j \in DOMAIN up : up'[i] = up[j]
  <2>1. up' = up \/ up' = <<>>
    BY DEF ServerNotifies, Lose
  <2> QED
    BY <2>1
<1>3. Unfinished(act.cur)' <=> Unfinished(act.cur)
  BY <1>1 DEF Unfinished
<1>4. \A s \in Requests : \A i \in DOMAIN result'[s].rows : result'[s].rows[i] = Item(s, i)
  BY <1>1 DEF RInv, Numbered
<1>5. ASSUME NEW xs \in Seq(DownMsg), down' = down \o xs, \A i \in DOMAIN xs : xs[i].t = "async",
             up' = up \/ up' = <<>>
      PROVE  RInv'
  <2>1. \A i \in DOMAIN xs : xs[i].t \notin ItemTypes
    BY <1>5 DEF ItemTypes
  <2>2. Stale' => Stale
    <3>1. ASSUME NEW i \in DOMAIN down', down'[i].t = "stale" PROVE Stale
      <4>1. IF i <= Len(down) THEN i \in DOMAIN down /\ (down \o xs)[i] = down[i]
                              ELSE i - Len(down) \in DOMAIN xs /\ (down \o xs)[i] = xs[i - Len(down)]
        BY <1>0, <1>5, Joined
      <4>2. CASE i <= Len(down)
        BY <1>5, <3>1, <4>1, <4>2 DEF Stale
      <4>3. CASE ~(i <= Len(down))
        BY <1>5, <3>1, <4>1, <4>3
      <4> QED
        BY <4>2, <4>3
    <3> QED
      BY <1>1, <3>1 DEF Stale
  <2>3. Loop = "exec" /\ Stale' => Unfinished(act.cur)' /\ (mode' = "skip" \/ up' = <<>>)
    BY <1>1, <1>3, <1>5, <2>2 DEF RInv, Executes
  <2> QED
    BY <1>1, <1>2, <1>3, <1>4, <1>5, <2>1, <2>3, QuietRows
<1>6. CASE ServerNotifies
  <2> DEFINE e == Msg("async", None)
             xs == <<e>>
  <2>1. e \in DownMsg /\ e.t = "async"
    BY DEF Msg, DownMsg, DownTypes
  <2>2. down' = Append(down, e) /\ up' = up
    BY <1>6 DEF ServerNotifies
  <2> HIDE DEF e
  <2>3. xs \in Seq(DownMsg) /\ down' = down \o xs /\ \A i \in DOMAIN xs : xs[i].t = "async"
    BY <1>0, <2>1, <2>2
  <2> HIDE DEF xs
  <2> QED
    BY <1>5, <2>2, <2>3
<1>7. CASE Lose
  <2>1. <<>> \in Seq(DownMsg) /\ down = down \o <<>> /\ DOMAIN <<>> = {}
    BY <1>0
  <2>2. down' = down /\ up' = <<>>
    BY <1>7 DEF Lose
  <2> QED
    BY <1>5, <2>1, <2>2
<1> QED
  BY <1>6, <1>7

\* The replies ms to an Execute for r: rows or data, numbered, then a trailer.
InOrder(r, ms) ==
  \A k \in DOMAIN ms :
    /\ ms[k].t = "row" => ms[k].item = Item(r, k) /\ (k > 1 => ms[k - 1].t = "row")
    /\ ms[k].t = "data" => k > 1 /\ ms[k].item = Item(r, k - 1) /\ (k > 2 => ms[k - 1].t = "data")
    /\ ms[k].t = "trailer" =>
         /\ k > 1 /\ ms[k].item = Mark("trailer") /\ (k > 2 => ms[k - 1].t = "data")
         /\ \A j \in DOMAIN ms : j > k => ms[j].t \notin ItemTypes

\* All n of them.
InFull(n, ms) ==
  /\ \A k \in DOMAIN ms : (ms[k].t = "row" => k <= n) /\ (ms[k].t = "trailer" => k = n + 2)
  /\ \/ n = 0
     \/ n \in DOMAIN ms /\ ms[n].t = "row"
     \/ \E k \in DOMAIN ms : ms[k].t = "copyout"

LEMMA RowsNumbered ==
  ASSUME NEW r \in Requests, NEW n \in Nat, NEW t \in {"row", "data"}
  PROVE  /\ RowMsgs(t, r, n) \in Seq(DownMsg) /\ Len(RowMsgs(t, r, n)) = n
         /\ DOMAIN RowMsgs(t, r, n) = 1..n
         /\ \A i \in 1..n : RowMsgs(t, r, n)[i].t = t /\ RowMsgs(t, r, n)[i].item = Item(r, i)
<1>1. RowMsgs(t, r, n) \in Seq(DownMsg)
  BY DataMsgs, DataSeq
<1>2. /\ DOMAIN RowMsgs(t, r, n) = 1..n
      /\ \A i \in 1..n : RowMsgs(t, r, n)[i].t = t /\ RowMsgs(t, r, n)[i].item = Item(r, i)
  BY DEF RowMsgs
<1>3. Len(RowMsgs(t, r, n)) = n
  BY <1>1, <1>2
<1> QED
  BY <1>1, <1>2, <1>3

LEMMA RowsReply ==
  ASSUME NEW r \in Requests, NEW n \in Nat, NEW z \in Seq(DownMsg), \A i \in DOMAIN z : z[i].t \notin ItemTypes
  PROVE  InOrder(r, RowMsgs("row", r, n) \o z) /\ InFull(n, RowMsgs("row", r, n) \o z)
<1> DEFINE o == RowMsgs("row", r, n)
           w == o \o z
<1>0. PICK t \in {"row", "data"} : t = "row"
  OBVIOUS
<1>a. /\ RowMsgs(t, r, n) \in Seq(DownMsg) /\ Len(RowMsgs(t, r, n)) = n
      /\ DOMAIN RowMsgs(t, r, n) = 1..n
      /\ \A i \in 1..n : RowMsgs(t, r, n)[i].t = t /\ RowMsgs(t, r, n)[i].item = Item(r, i)
  BY RowsNumbered
<1>1. o \in Seq(DownMsg) /\ Len(o) = n /\ DOMAIN o = 1..n /\ \A i \in 1..n : o[i].t = "row" /\ o[i].item = Item(r, i)
  BY <1>0, <1>a
<1> HIDE DEF o
<1>2. /\ DOMAIN w = 1..(n + Len(z)) /\ Len(z) \in Nat
      /\ \A i \in DOMAIN w : IF i <= n THEN i \in DOMAIN o /\ w[i] = o[i]
                                       ELSE i - n \in DOMAIN z /\ w[i] = z[i - n]
  <2>1. /\ DOMAIN (o \o z) = 1..(Len(o) + Len(z)) /\ Len(z) \in Nat
        /\ \A i \in DOMAIN (o \o z) : IF i <= Len(o) THEN i \in DOMAIN o /\ (o \o z)[i] = o[i]
                                            ELSE i - Len(o) \in DOMAIN z /\ (o \o z)[i] = z[i - Len(o)]
    BY <1>1
  <2> QED
    BY <1>1, <2>1
<1> HIDE DEF w
<1>3. ASSUME NEW k \in DOMAIN w
      PROVE  /\ k \in Nat /\ k > 0
             /\ k <= n => w[k].t = "row" /\ w[k].item = Item(r, k)
             /\ ~(k <= n) => w[k].t \notin {"row", "data", "trailer"}
  BY <1>1, <1>2 DEF ItemTypes
<1>4. ASSUME NEW k \in DOMAIN w, k <= n, k > 1 PROVE w[k - 1].t = "row"
  <2>1. k - 1 \in DOMAIN w /\ k - 1 <= n
    BY <1>2, <1>4
  <2> QED
    BY <1>3, <2>1
<1>5. InOrder(r, w)
  <2> SUFFICES ASSUME NEW k \in DOMAIN w
               PROVE  /\ w[k].t = "row" => w[k].item = Item(r, k) /\ (k > 1 => w[k - 1].t = "row")
                      /\ w[k].t \notin {"data", "trailer"}
    BY DEF InOrder
  <2>1. CASE k <= n
    BY <1>3, <1>4, <2>1
  <2>2. CASE ~(k <= n)
    BY <1>3, <2>2
  <2> QED
    BY <2>1, <2>2
<1>6. InFull(n, w)
  <2>1. n = 0 \/ (n \in DOMAIN w /\ n <= n)
    BY <1>2
  <2>2. \A k \in DOMAIN w : (w[k].t = "row" => k <= n) /\ w[k].t # "trailer"
    BY <1>3
  <2> QED
    BY <1>3, <2>1, <2>2 DEF InFull
<1> QED
  BY <1>5, <1>6 DEF w, o

LEMMA DataReply ==
  ASSUME NEW r \in Requests, NEW n \in Nat, NEW z \in Seq(DownMsg),
         \A i \in DOMAIN z : z[i].t \in ItemTypes => i = 1 /\ z[1] = Trailer(r)
  PROVE  /\ InOrder(r, (<<Msg("copyout", r)>> \o RowMsgs("data", r, n)) \o z)
         /\ InFull(n, (<<Msg("copyout", r)>> \o RowMsgs("data", r, n)) \o z)
<1> DEFINE a == <<Msg("copyout", r)>>
           d == RowMsgs("data", r, n)
           o == a \o d
           w == o \o z
<1>1. d \in Seq(DownMsg) /\ Len(d) = n /\ DOMAIN d = 1..n /\ \A i \in 1..n : d[i].t = "data" /\ d[i].item = Item(r, i)
  BY RowsNumbered
<1>2. a \in Seq(DownMsg) /\ Len(a) = 1 /\ DOMAIN a = {1} /\ a[1].t = "copyout"
  BY ShortReply DEF DownTypes
<1>t. Trailer(r).t = "trailer" /\ Trailer(r).item = Mark("trailer")
  BY DEF Trailer
<1> HIDE DEF d, a
<1>3. /\ o \in Seq(DownMsg) /\ Len(o) = n + 1 /\ DOMAIN o = 1..(n + 1)
      /\ \A i \in DOMAIN o : IF i <= 1 THEN i \in DOMAIN a /\ o[i] = a[i]
                                       ELSE i - 1 \in DOMAIN d /\ o[i] = d[i - 1]
  <2>1. /\ o \in Seq(DownMsg) /\ Len(o) = Len(a) + Len(d) /\ DOMAIN o = 1..(Len(a) + Len(d))
        /\ \A i \in DOMAIN o : IF i <= Len(a) THEN i \in DOMAIN a /\ o[i] = a[i]
                                              ELSE i - Len(a) \in DOMAIN d /\ o[i] = d[i - Len(a)]
    <3>1. a \in Seq(DownMsg) /\ d \in Seq(DownMsg)
      BY <1>1, <1>2
    <3> QED
      BY <3>1
  <2>2. Len(a) + Len(d) = n + 1
    BY <1>1, <1>2
  <2> HIDE DEF o
  <2> QED
    BY <1>2, <2>1, <2>2
<1> HIDE DEF o
<1>4. /\ DOMAIN w = 1..((n + 1) + Len(z)) /\ Len(z) \in Nat
      /\ \A i \in DOMAIN w : IF i <= n + 1 THEN i \in DOMAIN o /\ w[i] = o[i]
                                           ELSE i - (n + 1) \in DOMAIN z /\ w[i] = z[i - (n + 1)]
  BY <1>3, Joined
<1> HIDE DEF w
<1>5. ASSUME NEW k \in DOMAIN w
      PROVE  /\ k \in Nat /\ k > 0
             /\ k <= 1 => w[k].t = "copyout"
             /\ k > 1 /\ k <= n + 1 => w[k].t = "data" /\ w[k].item = Item(r, k - 1)
             /\ k = n + 2 => w[k].t \notin {"row", "data"} /\ (w[k].t = "trailer" => w[k].item = Mark("trailer"))
             /\ k > n + 2 => w[k].t \notin {"row", "data", "trailer"}
  <2>0. k \in Nat /\ k > 0
    BY <1>4
  <2>1. CASE k <= n + 1
    <3>1. k \in DOMAIN o /\ w[k] = o[k]
      BY <1>4, <2>1
    <3>2. k <= 1 => w[k].t = "copyout"
      BY <1>2, <1>3, <3>1
    <3>3. k > 1 => w[k].t = "data" /\ w[k].item = Item(r, k - 1)
      <4> SUFFICES ASSUME k > 1 PROVE w[k].t = "data" /\ w[k].item = Item(r, k - 1)
        OBVIOUS
      <4>1. ~(k <= 1)
        BY <2>0
      <4>2. k - 1 \in DOMAIN d /\ w[k] = d[k - 1]
        BY <1>3, <3>1, <4>1
      <4> QED
        BY <1>1, <4>2
    <3>4. ~(k = n + 2) /\ ~(k > n + 2)
      BY <2>0, <2>1
    <3> QED
      BY <2>0, <3>2, <3>3, <3>4
  <2>2. CASE ~(k <= n + 1)
    <3>1. k - (n + 1) \in DOMAIN z /\ w[k] = z[k - (n + 1)]
      BY <1>4, <2>2
    <3>2. k = n + 2 => k - (n + 1) = 1
      BY <2>0
    <3>3. k > n + 2 => k - (n + 1) # 1
      BY <2>0
    <3>4. ~(k <= 1)
      BY <2>0, <2>2
    <3>5. k = n + 2 => w[k].t \notin {"row", "data"} /\ (w[k].t = "trailer" => w[k].item = Mark("trailer"))
      BY <1>t, <3>1, <3>2 DEF ItemTypes
    <3>6. k > n + 2 => w[k].t \notin {"row", "data", "trailer"}
      BY <3>1, <3>3 DEF ItemTypes
    <3> QED
      BY <2>0, <2>2, <3>4, <3>5, <3>6
  <2> QED
    BY <2>1, <2>2
<1>6. ASSUME NEW k \in DOMAIN w, k > 2, k <= n + 2 PROVE w[k - 1].t = "data"
  <2>1. k - 1 \in DOMAIN w /\ k - 1 > 1 /\ k - 1 <= n + 1
    BY <1>4, <1>6
  <2> QED
    BY <1>5, <2>1
<1>7. ASSUME NEW k \in DOMAIN w
      PROVE  /\ w[k].t # "row"
             /\ w[k].t = "data" => k > 1 /\ k <= n + 1
             /\ w[k].t = "trailer" => k = n + 2
  <2>1. k <= 1 \/ (k > 1 /\ k <= n + 1) \/ k = n + 2 \/ k > n + 2
    BY <1>5
  <2>2. CASE k <= 1
    BY <1>5, <2>2
  <2>3. CASE k > 1 /\ k <= n + 1
    BY <1>5, <2>3
  <2>4. CASE k = n + 2
    BY <1>5, <2>4
  <2>5. CASE k > n + 2
    BY <1>5, <2>5
  <2> QED
    BY <2>1, <2>2, <2>3, <2>4, <2>5
<1>8. InOrder(r, w)
  <2> SUFFICES ASSUME NEW k \in DOMAIN w
               PROVE  /\ w[k].t # "row"
                      /\ w[k].t = "data" => k > 1 /\ w[k].item = Item(r, k - 1) /\ (k > 2 => w[k - 1].t = "data")
                      /\ w[k].t = "trailer" =>
                           /\ k > 1 /\ w[k].item = Mark("trailer") /\ (k > 2 => w[k - 1].t = "data")
                           /\ \A j \in DOMAIN w : j > k => w[j].t \notin ItemTypes
    BY DEF InOrder
  <2>1. w[k].t = "data" => k > 1 /\ w[k].item = Item(r, k - 1) /\ (k > 2 => w[k - 1].t = "data")
    <3>1. k <= n + 1 => k <= n + 2
      BY <1>5
    <3> QED
      BY <1>5, <1>6, <1>7, <3>1
  <2>2. ASSUME w[k].t = "trailer"
        PROVE  /\ k > 1 /\ w[k].item = Mark("trailer") /\ (k > 2 => w[k - 1].t = "data")
               /\ \A j \in DOMAIN w : j > k => w[j].t \notin ItemTypes
    <3>1. k = n + 2
      BY <1>7, <2>2
    <3>2. k > 1 /\ k <= n + 2
      BY <3>1
    <3>3. \A j \in DOMAIN w : j > k => w[j].t \notin ItemTypes
      BY <1>5, <3>1 DEF ItemTypes
    <3> QED
      BY <1>5, <1>6, <2>2, <3>1, <3>2, <3>3
  <2> QED
    BY <1>7, <2>1, <2>2
<1>9. InFull(n, w)
  <2>1. 1 \in DOMAIN w /\ 1 <= 1
    BY <1>4
  <2>2. w[1].t = "copyout"
    BY <1>5, <2>1
  <2> QED
    BY <1>7, <2>1, <2>2 DEF InFull
<1> QED
  BY <1>8, <1>9 DEF w, o, d, a

\* What the server makes of an Execute, in order.
LEMMA ExecuteReply ==
  ASSUME IInv, ServeExecute, NEW r, r = Head(up).of
  PROVE  \E ms \in Seq(DownMsg), v \in ResultType :
           /\ Says(Head(up), ms) /\ result' = [result EXCEPT ![r] = v]
           /\ InOrder(r, ms)
           /\ \A i \in DOMAIN v.rows : v.rows[i] = Item(r, i)
           /\ \/ v.end = "executed" /\ InFull(Len(v.rows), ms) /\ \A i \in DOMAIN ms : ms[i].t # "stale"
              \/ v.end = "none" /\ \A i \in DOMAIN ms : ms[i].t = "copyin"
              \/ v.end = "failed" /\ mode' = "skip" /\ \A i \in DOMAIN ms : ms[i].t # "trailer"
<1> USE ConnectionAssumption
<1> DEFINE m == Head(up)
<1>0. linked /\ up # <<>> /\ mode = "ready"
  BY DEF ServeExecute, Takes
<1>1. r \in Requests
  BY <1>0, ServerFacts
<1>e. <<>> \in Seq(Payload) /\ DOMAIN <<>> = {} /\ [rows |-> <<>>, end |-> "none"] \in ResultType
      /\ [rows |-> <<>>, end |-> "failed"] \in ResultType
  BY DEF ResultType
<1> DEFINE Out(st, n) == CASE st = "rows" -> RowMsgs("row", r, n)
                           [] st = "copyout" -> <<Msg("copyout", r)>> \o RowMsgs("data", r, n)
                           [] st = "copyin" -> <<>>
           End(st) == IF st = "copyout" THEN <<Trailer(r), Msg("complete", r)>> ELSE <<Msg("complete", r)>>
<1>2. PICK st \in Outcomes(r), n \in 0..MaxRows :
           \/ /\ st # "copyin"
              /\ result' = [result EXCEPT ![r] = [rows |-> [i \in 1..n |-> Item(r, i)], end |-> "executed"]]
              /\ Says(m, Out(st, n) \o End(st))
           \/ /\ result' = [result EXCEPT ![r] = [rows |-> <<>>, end |-> "none"]]
              /\ Says(m, <<Msg("copyin", r)>>)
           \/ /\ result' = [result EXCEPT ![r] = [rows |-> <<>>, end |-> "failed"]]
              /\ \E code \in {"error", "stale"} : Refuses(m, Out(st, n), code)
  BY DEF ServeExecute
<1>3. st \in {"rows", "copyin", "copyout"} /\ n \in Nat
  BY DEF Outcomes
<1>4. /\ Out(st, n) \in Seq(DownMsg)
      /\ \A i \in DOMAIN Out(st, n) : Out(st, n)[i].t \notin {"trailer", "stale"}
  <2>1. CASE st = "rows"
    <3>1. PICK t \in {"row", "data"} : t = "row"
      OBVIOUS
    <3>2. RowMsgs(t, r, n) \in Seq(DownMsg) /\ \A i \in DOMAIN RowMsgs(t, r, n) : RowMsgs(t, r, n)[i].t = t
      BY <1>1, <1>3, RowsNumbered
    <3> QED
      BY <2>1, <3>1, <3>2
  <2>2. CASE st = "copyout"
    <3>1. PICK t \in {"row", "data"} : t = "data"
      OBVIOUS
    <3>2. RowMsgs(t, r, n) \in Seq(DownMsg) /\ \A i \in DOMAIN RowMsgs(t, r, n) : RowMsgs(t, r, n)[i].t = t
      BY <1>1, <1>3, RowsNumbered
    <3> DEFINE a == <<Msg("copyout", r)>>
               d == RowMsgs("data", r, n)
    <3>3. a \in Seq(DownMsg) /\ \A i \in DOMAIN a : a[i].t = "copyout"
      BY <1>1, ShortReply DEF DownTypes
    <3>4. d \in Seq(DownMsg) /\ \A i \in DOMAIN d : d[i].t = "data"
      BY <3>1, <3>2
    <3> HIDE DEF a, d
    <3>5. a \o d \in Seq(DownMsg) /\ \A i \in DOMAIN (a \o d) : (a \o d)[i].t \in {"copyout", "data"}
      <4>1. \A i \in DOMAIN (a \o d) : IF i <= Len(a) THEN i \in DOMAIN a /\ (a \o d)[i] = a[i]
                                                      ELSE i - Len(a) \in DOMAIN d /\ (a \o d)[i] = d[i - Len(a)]
        BY <3>3, <3>4
      <4>2. ASSUME NEW i \in DOMAIN (a \o d) PROVE (a \o d)[i].t \in {"copyout", "data"}
        <5>1. CASE i <= Len(a)
          BY <3>3, <4>1, <5>1
        <5>2. CASE ~(i <= Len(a))
          BY <3>4, <4>1, <5>2
        <5> QED
          BY <5>1, <5>2
      <4> QED
        BY <3>3, <3>4, <4>2
    <3>6. Out(st, n) = a \o d
      BY <2>2 DEF a, d
    <3> HIDE DEF Out
    <3> QED
      BY <3>5, <3>6
  <2>3. CASE st = "copyin"
    <3>1. Out(st, n) = <<>>
      BY <2>3
    <3> HIDE DEF Out
    <3> QED
      BY <3>1
  <2> QED
    BY <1>3, <2>1, <2>2, <2>3
<1>5. ASSUME NEW z \in Seq(DownMsg), \A i \in DOMAIN z : z[i].t \notin ItemTypes
      PROVE  InOrder(r, Out(st, n) \o z) /\ (st = "rows" => InFull(n, Out(st, n) \o z))
  <2>1. CASE st = "rows"
    BY <1>1, <1>3, <1>5, <2>1, RowsReply
  <2>2. CASE st = "copyout"
    BY <1>1, <1>3, <1>5, <2>2, DataReply
  <2>3. CASE st = "copyin"
    <3>1. Out(st, n) \o z = z
      BY <1>5, <2>3
    <3>2. InOrder(r, z)
      BY <1>5 DEF InOrder, ItemTypes
    <3> QED
      BY <2>3, <3>1, <3>2
  <2> QED
    BY <1>3, <2>1, <2>2, <2>3
<1>6. CASE /\ st # "copyin"
           /\ result' = [result EXCEPT ![r] = [rows |-> [i \in 1..n |-> Item(r, i)], end |-> "executed"]]
           /\ Says(m, Out(st, n) \o End(st))
  <2> DEFINE rs == [i \in 1..n |-> Item(r, i)]
             v == [rows |-> rs, end |-> "executed"]
             ms == Out(st, n) \o End(st)
  <2>1. rs \in Seq(Payload) /\ Len(rs) = n /\ \A i \in DOMAIN rs : rs[i] = Item(r, i)
    <3>1. \A i \in 1..n : Item(r, i) \in Payload
      BY <1>1, <1>3, Payloads
    <3>2. rs \in [1..n -> Payload]
      BY <3>1
    <3>3. rs \in Seq(Payload) /\ Len(rs) = n
      BY <1>3, <3>2
    <3> QED
      BY <3>3
  <2>2. v \in ResultType /\ v.end = "executed" /\ v.rows = rs
    BY <2>1 DEF ResultType
  <2>3. Says(m, ms) /\ result' = [result EXCEPT ![r] = v]
    BY <1>6
  <2>4. Msg("complete", r) \in DownMsg /\ Msg("complete", r).t = "complete" /\ Trailer(r) \in DownMsg /\ Trailer(r).t = "trailer"
    <3>1. Trailer(r) \in DownMsg
      <4>1. Trailer(r) \in DataMsg
        BY <1>1, <1>3, DataMsgs
      <4> QED
        BY <4>1 DEF DataMsg
    <3>2. Msg("complete", r) \in DownMsg /\ Msg("complete", r).t = "complete"
      BY <1>1, ShortReply DEF DownTypes
    <3> QED
      BY <3>1, <3>2 DEF Trailer
  <2>5. End(st) \in Seq(DownMsg) /\ \A i \in DOMAIN End(st) : End(st)[i].t # "stale"
    <3> DEFINE c == Msg("complete", r)
               q == Trailer(r)
    <3> HIDE DEF c, q
    <3>1. c \in DownMsg /\ c.t = "complete" /\ q \in DownMsg /\ q.t = "trailer"
      BY <2>4 DEF c, q
    <3>2. <<c>> \in Seq(DownMsg) /\ \A i \in DOMAIN <<c>> : <<c>>[i].t = "complete"
      BY <3>1
    <3>3. <<q, c>> \in Seq(DownMsg) /\ \A i \in DOMAIN <<q, c>> : <<q, c>>[i].t \in {"complete", "trailer"}
      <4>1. DOMAIN <<q, c>> = {1, 2} /\ <<q, c>>[1] = q /\ <<q, c>>[2] = c
        OBVIOUS
      <4> QED
        BY <3>1, <4>1
    <3> QED
      BY <3>2, <3>3 DEF c, q
  <2>6. ms \in Seq(DownMsg) /\ \A i \in DOMAIN ms : ms[i].t # "stale"
    <3>1. PICK a \in Seq(DownMsg), z \in Seq(DownMsg) : a = Out(st, n) /\ z = End(st)
      BY <1>4, <2>5
    <3>2. /\ a \o z \in Seq(DownMsg)
          /\ \A i \in DOMAIN (a \o z) : IF i <= Len(a) THEN i \in DOMAIN a /\ (a \o z)[i] = a[i]
                                                       ELSE i - Len(a) \in DOMAIN z /\ (a \o z)[i] = z[i - Len(a)]
      OBVIOUS
    <3>3. (\A i \in DOMAIN a : a[i].t # "stale") /\ \A i \in DOMAIN z : z[i].t # "stale"
      BY <1>4, <2>5, <3>1
    <3> HIDE DEF Out, End
    <3>4. ASSUME NEW i \in DOMAIN (a \o z) PROVE (a \o z)[i].t # "stale"
      <4>1. CASE i <= Len(a)
        BY <3>2, <3>3, <4>1
      <4>2. CASE ~(i <= Len(a))
        BY <3>2, <3>3, <4>2
      <4> QED
        BY <4>1, <4>2
    <3> QED
      BY <3>1, <3>2, <3>4
  <2>7. InOrder(r, ms) /\ InFull(n, ms)
    <3>1. CASE st = "rows"
      <4> DEFINE z == <<Msg("complete", r)>>
      <4>1. z \in Seq(DownMsg) /\ \A i \in DOMAIN z : z[i].t \notin ItemTypes
        BY <1>1, ShortReply DEF DownTypes, ItemTypes
      <4>2. ms = Out(st, n) \o z
        BY <3>1
      <4> HIDE DEF z, ms, Out
      <4> QED
        BY <1>5, <3>1, <4>1, <4>2
    <3>2. CASE st = "copyout"
      <4> DEFINE q == Trailer(r)
                 c == Msg("complete", r)
                 z == <<q, c>>
      <4>1. q = Trailer(r) /\ c.t = "complete" /\ q \in DownMsg /\ c \in DownMsg
        BY <2>4
      <4> HIDE DEF q, c
      <4>2. z \in Seq(DownMsg) /\ DOMAIN z = {1, 2} /\ z[1] = q /\ z[2] = c
        BY <4>1
      <4> HIDE DEF z
      <4>3. \A i \in DOMAIN z : z[i].t \in ItemTypes => i = 1 /\ z[1] = Trailer(r)
        BY <4>1, <4>2 DEF ItemTypes
      <4>4. ms = (<<Msg("copyout", r)>> \o RowMsgs("data", r, n)) \o z
        BY <3>2 DEF z, q, c
      <4> HIDE DEF ms
      <4> QED
        BY <1>1, <1>3, <4>2, <4>3, <4>4, DataReply
    <3> QED
      BY <1>3, <1>6, <3>1, <3>2
  <2> HIDE DEF ms, v, rs
  <2> QED
    BY <2>1, <2>2, <2>3, <2>6, <2>7
<1>7. CASE /\ result' = [result EXCEPT ![r] = [rows |-> <<>>, end |-> "none"]]
           /\ Says(m, <<Msg("copyin", r)>>)
  <2> DEFINE ms == <<Msg("copyin", r)>>
             v == [rows |-> <<>>, end |-> "none"]
  <2>1. ms \in Seq(DownMsg) /\ \A i \in DOMAIN ms : ms[i].t = "copyin"
    BY <1>1, ShortReply DEF DownTypes
  <2>2. v \in ResultType /\ v.end = "none" /\ DOMAIN v.rows = {}
    BY <1>e
  <2>3. Says(m, ms) /\ result' = [result EXCEPT ![r] = v]
    BY <1>7
  <2> HIDE DEF ms, v
  <2>4. InOrder(r, ms)
    BY <2>1 DEF InOrder
  <2> QED
    BY <2>1, <2>2, <2>3, <2>4
<1>8. CASE /\ result' = [result EXCEPT ![r] = [rows |-> <<>>, end |-> "failed"]]
           /\ \E code \in {"error", "stale"} : Refuses(m, Out(st, n), code)
  <2>1. PICK code \in {"error", "stale"} : Says(m, Append(Out(st, n), Msg(code, r))) /\ mode' = "skip"
    BY <1>8 DEF Refuses
  <2> DEFINE e == Msg(code, r)
             z == <<e>>
             ms == Out(st, n) \o z
             v == [rows |-> <<>>, end |-> "failed"]
  <2>2. e \in DownMsg /\ e.t \in {"error", "stale"}
    BY <1>1, ShortReply DEF DownTypes
  <2>3. v \in ResultType /\ v.end = "failed" /\ DOMAIN v.rows = {} /\ result' = [result EXCEPT ![r] = v]
    BY <1>e, <1>8
  <2> HIDE DEF v
  <2>4. /\ z \in Seq(DownMsg) /\ (\A i \in DOMAIN z : z[i].t \in {"error", "stale"})
        /\ ms = Append(Out(st, n), e)
    <3> HIDE DEF e, Out
    <3> QED
      BY <1>4, <2>2
  <2>5. Says(m, ms)
    <3> HIDE DEF ms, Out
    <3> QED
      BY <2>1, <2>4
  <2>6. \A i \in DOMAIN z : z[i].t \notin ItemTypes
    BY <2>4 DEF ItemTypes
  <2> HIDE DEF z, Out
  <2>7. InOrder(r, ms)
    BY <1>5, <2>4, <2>6
  <2>8. ms \in Seq(DownMsg) /\ \A i \in DOMAIN ms : ms[i].t # "trailer"
    <3>1. PICK a \in Seq(DownMsg) : a = Out(st, n)
      BY <1>4
    <3>2. /\ a \o z \in Seq(DownMsg)
          /\ \A i \in DOMAIN (a \o z) : IF i <= Len(a) THEN i \in DOMAIN a /\ (a \o z)[i] = a[i]
                                                       ELSE i - Len(a) \in DOMAIN z /\ (a \o z)[i] = z[i - Len(a)]
      BY <2>4
    <3>3. (\A i \in DOMAIN a : a[i].t # "trailer") /\ \A i \in DOMAIN z : z[i].t # "trailer"
      BY <1>4, <2>4, <3>1
    <3>4. ASSUME NEW i \in DOMAIN (a \o z) PROVE (a \o z)[i].t # "trailer"
      <4>1. CASE i <= Len(a)
        BY <3>2, <3>3, <4>1
      <4>2. CASE ~(i <= Len(a))
        BY <3>2, <3>3, <4>2
      <4> QED
        BY <4>1, <4>2
    <3> QED
      BY <3>1, <3>2, <3>4
  <2> HIDE DEF ms
  <2> QED
    BY <2>1, <2>3, <2>5, <2>7, <2>8
<1> HIDE DEF Out, End
<1> QED
  BY <1>2, <1>6, <1>7, <1>8

LEMMA Extended ==
  ASSUME down \in Seq(DownMsg), NEW xs \in Seq(DownMsg), down' = down \o xs
  PROVE  /\ Len(down) \in Nat /\ DOMAIN down = 1..Len(down) /\ DOMAIN xs = 1..Len(xs) /\ Len(xs) \in Nat
         /\ DOMAIN down' = 1..(Len(down) + Len(xs))
         /\ \A i \in DOMAIN down' : IF i <= Len(down) THEN i \in DOMAIN down /\ down'[i] = down[i]
                                                      ELSE i - Len(down) \in DOMAIN xs /\ down'[i] = xs[i - Len(down)]
<1>1. /\ Len(down) \in Nat /\ DOMAIN down = 1..Len(down) /\ DOMAIN xs = 1..Len(xs) /\ Len(xs) \in Nat
      /\ DOMAIN (down \o xs) = 1..(Len(down) + Len(xs))
      /\ \A i \in DOMAIN (down \o xs) : IF i <= Len(down) THEN i \in DOMAIN down /\ (down \o xs)[i] = down[i]
                                                          ELSE i - Len(down) \in DOMAIN xs /\ (down \o xs)[i] = xs[i - Len(down)]
  BY Joined
<1> QED
  BY <1>1

\* The rows of a reply follow one another, from the first on.
LEMMA ReplyRows ==
  ASSUME down \in Seq(DownMsg), NEW r \in Requests, NEW m, NEW ms \in Seq(DownMsg), NEW xs \in Seq(DownMsg),
         InOrder(r, ms), down' = down \o xs, Len(xs) = Len(ms), \A i \in DOMAIN ms : Echo(m, ms[i], xs[i]),
         \A i \in DOMAIN down : down[i].t \notin ItemTypes,
         Taken' = 0, act'.cur = r, RowType' \in {"row", "data"}
  PROVE  /\ \A i \in DOMAIN down' : down'[i].t = RowType' => RowAt(i)'
         /\ RowType' = "data" => \A i \in DOMAIN down' : down'[i].t = "trailer" =>
              /\ \E k \in DOMAIN ms : ms[k].t = "trailer" /\ i = Len(down) + k /\ \A n \in Nat : n = k - 1 => Follows(i, n)'
              /\ down'[i].item = Mark("trailer")
              /\ \A j \in DOMAIN down' : j > i => down'[j].t \notin ItemTypes
<1> DEFINE L == Len(down)
           T == RowType'
<1>1. /\ L \in Nat /\ DOMAIN down = 1..L /\ DOMAIN xs = 1..Len(ms) /\ DOMAIN ms = 1..Len(ms) /\ Len(ms) \in Nat
      /\ DOMAIN down' = 1..(L + Len(ms))
      /\ \A i \in DOMAIN down' : IF i <= L THEN i \in DOMAIN down /\ down'[i] = down[i]
                                           ELSE i - L \in DOMAIN xs /\ down'[i] = xs[i - L]
  <2>1. /\ L \in Nat /\ DOMAIN down = 1..L /\ DOMAIN xs = 1..Len(xs) /\ Len(xs) \in Nat
        /\ DOMAIN down' = 1..(L + Len(xs))
        /\ \A i \in DOMAIN down' : IF i <= L THEN i \in DOMAIN down /\ down'[i] = down[i]
                                             ELSE i - L \in DOMAIN xs /\ down'[i] = xs[i - L]
    BY Extended
  <2>2. DOMAIN ms = 1..Len(ms)
    OBVIOUS
  <2> QED
    BY <2>1, <2>2
<1> HIDE DEF L, T
<1>2. \A k \in Nat : Item(r, k).n = k /\ Item(r, k).is = "data" /\ [Item(r, k) EXCEPT !.is = "err"].n = k
                     /\ [Item(r, k) EXCEPT !.is = "err"].is = "err"
  BY DEF Item
<1>3. ASSUME NEW k \in DOMAIN ms
      PROVE  /\ k \in Nat /\ k > 0 /\ L + k \in DOMAIN down' /\ down'[L + k] = xs[k]
             /\ xs[k].t = ms[k].t \/ xs[k].t \in {"bad", "huge"}
             /\ ms[k].t # "row" /\ xs[k].t = ms[k].t /\ ms[k].t \notin {"bad", "huge"} => xs[k] = ms[k]
             /\ ms[k].t = "row" /\ xs[k].t = "row" => xs[k].item = ms[k].item \/ xs[k].item = [ms[k].item EXCEPT !.is = "err"]
  <2>1. k \in Nat /\ k > 0 /\ L + k \in DOMAIN down' /\ ~(L + k <= L) /\ (L + k) - L = k
    BY <1>1
  <2>2. down'[L + k] = xs[k]
    BY <1>1, <2>1
  <2>3. Echo(m, ms[k], xs[k])
    OBVIOUS
  <2>4. /\ xs[k].t = ms[k].t \/ xs[k].t \in {"bad", "huge"}
        /\ ms[k].t # "row" /\ xs[k].t = ms[k].t /\ ms[k].t \notin {"bad", "huge"} => xs[k] = ms[k]
        /\ ms[k].t = "row" /\ xs[k].t = "row" => xs[k].item = ms[k].item \/ xs[k].item = [ms[k].item EXCEPT !.is = "err"]
    BY <2>3 DEF Echo
  <2> QED
    BY <2>1, <2>2, <2>4
<1>4. ASSUME NEW i \in DOMAIN down', down'[i].t \in ItemTypes
      PROVE  \E k \in DOMAIN ms : i = L + k /\ down'[i] = xs[k] /\ xs[k].t = ms[k].t
  <2>1. ~(i <= L)
    BY <1>1, <1>4
  <2>2. i - L \in DOMAIN ms /\ i = L + (i - L)
    BY <1>1, <2>1
  <2>3. PICK k \in DOMAIN ms : i = L + k
    BY <2>2
  <2>4. down'[i] = xs[k] /\ (xs[k].t = ms[k].t \/ xs[k].t \in {"bad", "huge"})
    BY <1>3, <2>3
  <2> QED
    BY <1>4, <2>3, <2>4 DEF ItemTypes
\* Where the first of them may be, and any other.
<1>5. ASSUME NEW k \in DOMAIN ms, NEW i, i = L + k, \A j \in DOMAIN ms : j < k => ms[j].t # T PROVE Follows(i, 1)'
  <2>1. ASSUME NEW j \in DOMAIN down', j < i PROVE down'[j].t # T
    <3> SUFFICES ASSUME down'[j].t = T PROVE FALSE
      OBVIOUS
    <3>1. T \in ItemTypes
      BY DEF T, ItemTypes
    <3>2. PICK h \in DOMAIN ms : j = L + h /\ ms[h].t = T
      BY <1>4, <2>1, <3>1
    <3>3. h < k
      BY <1>1, <1>5, <2>1, <3>2
    <3> QED
      BY <1>5, <3>2, <3>3
  <2>2. 1 = Taken' + 1
    OBVIOUS
  <2> QED
    BY <2>1, <2>2 DEF Follows, T
<1>6. ASSUME NEW k \in DOMAIN ms, NEW i, i = L + k, NEW n \in Nat, k > 1, ms[k - 1].t = T, ms[k - 1].item = Item(r, n - 1), n > 0
      PROVE  Follows(i, n)'
  <2>1. k - 1 \in DOMAIN ms /\ i - 1 = L + (k - 1) /\ i > 1 /\ n - 1 \in Nat /\ n = (n - 1) + 1
    BY <1>1, <1>6
  <2>2. PICK h \in DOMAIN ms : h = k - 1 /\ i - 1 = L + h
    BY <2>1
  <2>3. down'[i - 1] = xs[h] /\ ms[h].t = T /\ ms[h].item = Item(r, n - 1)
    BY <1>3, <1>6, <2>2
  <2>4. CASE xs[h].t \in {"bad", "huge"}
    BY <2>1, <2>3, <2>4 DEF Follows
  <2>5. CASE xs[h].t = T
    <3>1. xs[h].item = Item(r, n - 1) \/ xs[h].item = [Item(r, n - 1) EXCEPT !.is = "err"]
      <4>1. T \in {"row", "data"}
        BY DEF T
      <4>2. CASE T = "row"
        BY <1>3, <2>3, <2>5, <4>2
      <4>3. CASE T = "data"
        BY <1>3, <2>3, <2>5, <4>3
      <4> QED
        BY <4>1, <4>2, <4>3
    <3>2. xs[h].item.n = n - 1
      BY <1>2, <2>1, <3>1
    <3> QED
      BY <2>1, <2>3, <2>5, <3>2 DEF Follows, T
  <2> QED
    BY <1>3, <2>3, <2>4, <2>5
<1>7. ASSUME NEW i \in DOMAIN down', down'[i].t = T PROVE RowAt(i)'
  <2>0. T \in ItemTypes /\ T \in {"row", "data"}
    BY DEF T, ItemTypes
  <2>1. PICK k \in DOMAIN ms : i = L + k /\ down'[i] = xs[k] /\ xs[k].t = T /\ ms[k].t = T
    BY <1>4, <1>7, <2>0
  <2>2. k \in Nat /\ k > 0 /\ \A j \in DOMAIN ms : j \in Nat /\ j > 0
    BY <1>1
  <2>3. CASE T = "row"
    <3>1. ms[k].item = Item(r, k) /\ (k > 1 => ms[k - 1].t = "row")
      BY <2>1, <2>3 DEF InOrder
    <3>2. xs[k].item = Item(r, k) \/ xs[k].item = [Item(r, k) EXCEPT !.is = "err"]
      BY <1>3, <2>1, <2>3, <3>1
    <3>3. xs[k].item.n = k /\ (xs[k].item.is = "err" \/ xs[k].item = Item(r, xs[k].item.n))
      <4>1. CASE xs[k].item = Item(r, k)
        BY <1>2, <2>2, <4>1
      <4>2. CASE xs[k].item = [Item(r, k) EXCEPT !.is = "err"]
        BY <1>2, <2>2, <4>2
      <4> QED
        BY <3>2, <4>1, <4>2
    <3>4. Follows(i, k)'
      <4>1. CASE k = 1
        <5>1. \A j \in DOMAIN ms : j < k => ms[j].t # T
          BY <2>2, <4>1
        <5> QED
          BY <1>5, <2>1, <4>1, <5>1
      <4>2. CASE k > 1
        <5>1. k - 1 \in DOMAIN ms
          BY <1>1, <4>2
        <5>2. ms[k - 1].t = T /\ ms[k - 1].item = Item(r, k - 1)
          BY <2>3, <3>1, <4>2, <5>1 DEF InOrder
        <5> QED
          BY <1>6, <2>1, <2>2, <4>2, <5>2
      <4> QED
        BY <2>2, <4>1, <4>2
    <3>5. down'[i].item.n = k /\ (down'[i].item.is = "err" \/ down'[i].item = Item(act'.cur, down'[i].item.n))
      BY <2>1, <3>3
    <3>6. Follows(i, down[i].item.n)'
      BY <3>4, <3>5 DEF Follows
    <3> QED
      BY <3>5, <3>6 DEF RowAt
  <2>4. CASE T = "data"
    <3>1. k > 1 /\ ms[k].item = Item(r, k - 1) /\ (k > 2 => ms[k - 1].t = "data")
      BY <2>1, <2>4 DEF InOrder
    <3>2. xs[k] = ms[k]
      BY <1>3, <2>1, <2>4
    <3>3. PICK n \in Nat : n = k - 1 /\ n > 0
      BY <2>2, <3>1
    <3>4. xs[k].item = Item(r, n) /\ Item(r, n).n = n
      BY <1>2, <3>1, <3>2, <3>3
    <3>5. Follows(i, n)'
      <4>1. CASE k = 2
        <5>1. ASSUME NEW j \in DOMAIN ms, j < k PROVE ms[j].t # T
          <6>1. ~(j > 1)
            BY <2>2, <4>1, <5>1
          <6> QED
            BY <2>4, <6>1 DEF InOrder
        <5>2. n = 1
          BY <3>3, <4>1
        <5> QED
          BY <1>5, <2>1, <5>1, <5>2
      <4>2. CASE k > 2
        <5>1. k - 1 \in DOMAIN ms /\ (k - 1) - 1 = n - 1
          BY <1>1, <3>3, <4>2
        <5>2. ms[k - 1].t = T /\ ms[k - 1].item = Item(r, (k - 1) - 1)
          BY <2>4, <3>1, <4>2, <5>1 DEF InOrder
        <5> QED
          BY <1>6, <2>1, <3>1, <3>3, <5>1, <5>2
      <4> QED
        BY <2>2, <3>1, <4>1, <4>2
    <3>6. down'[i].item = Item(act'.cur, down'[i].item.n) /\ down'[i].item.n = n
      BY <2>1, <3>4
    <3>7. Follows(i, down[i].item.n)'
      BY <3>5, <3>6 DEF Follows
    <3> QED
      BY <3>6, <3>7 DEF RowAt
  <2> QED
    BY <2>0, <2>3, <2>4
<1>8. ASSUME T = "data", NEW i \in DOMAIN down', down'[i].t = "trailer"
      PROVE  /\ \E k \in DOMAIN ms : ms[k].t = "trailer" /\ i = L + k /\ \A n \in Nat : n = k - 1 => Follows(i, n)'
             /\ down'[i].item = Mark("trailer")
             /\ \A j \in DOMAIN down' : j > i => down'[j].t \notin ItemTypes
  <2>1. PICK k \in DOMAIN ms : i = L + k /\ down'[i] = xs[k] /\ xs[k].t = "trailer" /\ ms[k].t = "trailer"
    <3>1. down'[i].t \in ItemTypes
      BY <1>8 DEF ItemTypes
    <3> QED
      BY <1>4, <1>8, <3>1
  <2>2. k \in Nat /\ k > 0 /\ \A j \in DOMAIN ms : j \in Nat /\ j > 0
    BY <1>1
  <2>3. /\ k > 1 /\ ms[k].item = Mark("trailer") /\ (k > 2 => ms[k - 1].t = "data")
        /\ \A j \in DOMAIN ms : j > k => ms[j].t \notin ItemTypes
    BY <2>1 DEF InOrder
  <2>4. down'[i].item = Mark("trailer")
    BY <1>3, <2>1, <2>3
  <2>5. ASSUME NEW j \in DOMAIN down', j > i, down'[j].t \in ItemTypes PROVE FALSE
    <3>1. PICK h \in DOMAIN ms : j = L + h /\ down'[j] = xs[h] /\ xs[h].t = ms[h].t
      BY <1>4, <2>5
    <3>2. h > k
      BY <1>1, <2>1, <2>5, <3>1
    <3> QED
      BY <2>3, <2>5, <3>1, <3>2
  <2>6. ASSUME NEW n \in Nat, n = k - 1 PROVE Follows(i, n)'
    <3>1. CASE k = 2
      <4>1. ASSUME NEW j \in DOMAIN ms, j < k PROVE ms[j].t # T
        <5>1. ~(j > 1)
          BY <2>2, <3>1, <4>1
        <5> QED
          BY <1>8, <5>1 DEF InOrder
      <4>2. n = 1
        BY <2>6, <3>1
      <4> QED
        BY <1>5, <2>1, <4>1, <4>2
    <3>2. CASE k > 2
      <4>1. k - 1 \in DOMAIN ms /\ (k - 1) - 1 = n - 1 /\ n > 0
        BY <1>1, <2>2, <2>6, <3>2
      <4>2. ms[k - 1].t = T /\ ms[k - 1].item = Item(r, (k - 1) - 1)
        BY <1>8, <2>3, <3>2, <4>1 DEF InOrder
      <4> QED
        BY <1>6, <2>1, <2>3, <4>1, <4>2
    <3> QED
      BY <2>2, <2>3, <3>1, <3>2
  <2> QED
    BY <2>1, <2>4, <2>5, <2>6
<1> QED
  BY <1>7, <1>8 DEF L, T

\* No row on the wire comes after the n-th, which is there or cannot be read.
EndsAt(n) ==
  /\ \A i \in DOMAIN down : down[i].t = "row" => down[i].item.n <= n
  /\ \/ n = 0
     \/ \E i \in DOMAIN down : \/ down[i].t = "row" /\ down[i].item.n = n
                               \/ down[i].t \in {"bad", "huge", "copyout"}

\* A reply in full.
LEMMA ReplyCounts ==
  ASSUME down \in Seq(DownMsg), NEW r \in Requests, NEW m, NEW ms \in Seq(DownMsg), NEW xs \in Seq(DownMsg),
         InOrder(r, ms), down' = down \o xs, Len(xs) = Len(ms), \A i \in DOMAIN ms : Echo(m, ms[i], xs[i]),
         \A i \in DOMAIN down : down[i].t \notin ItemTypes, NEW n \in Nat, InFull(n, ms)
  PROVE  EndsAt(n)'
<1> DEFINE L == Len(down)
<1>1. /\ L \in Nat /\ DOMAIN down = 1..L /\ DOMAIN xs = 1..Len(ms) /\ DOMAIN ms = 1..Len(ms) /\ Len(ms) \in Nat
      /\ DOMAIN down' = 1..(L + Len(ms))
      /\ \A i \in DOMAIN down' : IF i <= L THEN i \in DOMAIN down /\ down'[i] = down[i]
                                           ELSE i - L \in DOMAIN xs /\ down'[i] = xs[i - L]
  <2>1. /\ L \in Nat /\ DOMAIN down = 1..L /\ DOMAIN xs = 1..Len(xs) /\ Len(xs) \in Nat
        /\ DOMAIN down' = 1..(L + Len(xs))
        /\ \A i \in DOMAIN down' : IF i <= L THEN i \in DOMAIN down /\ down'[i] = down[i]
                                             ELSE i - L \in DOMAIN xs /\ down'[i] = xs[i - L]
    BY Extended
  <2>2. DOMAIN ms = 1..Len(ms)
    OBVIOUS
  <2> QED
    BY <2>1, <2>2
<1> HIDE DEF L
<1>2. \A k \in Nat : Item(r, k).n = k /\ [Item(r, k) EXCEPT !.is = "err"].n = k
  BY DEF Item
<1>3. ASSUME NEW k \in DOMAIN ms
      PROVE  /\ k \in Nat /\ L + k \in DOMAIN down' /\ down'[L + k] = xs[k]
             /\ xs[k].t = ms[k].t \/ xs[k].t \in {"bad", "huge"}
             /\ ms[k].t = "row" /\ xs[k].t = "row" => xs[k].item.n = k
  <2>1. k \in Nat /\ k > 0 /\ L + k \in DOMAIN down' /\ ~(L + k <= L) /\ (L + k) - L = k
    BY <1>1
  <2>2. down'[L + k] = xs[k]
    BY <1>1, <2>1
  <2>3. Echo(m, ms[k], xs[k])
    OBVIOUS
  <2>4. /\ xs[k].t = ms[k].t \/ xs[k].t \in {"bad", "huge"}
        /\ ms[k].t = "row" /\ xs[k].t = "row" => xs[k].item = ms[k].item \/ xs[k].item = [ms[k].item EXCEPT !.is = "err"]
    BY <2>3 DEF Echo
  <2>5. ms[k].t = "row" => ms[k].item = Item(r, k)
    BY DEF InOrder
  <2>6. ASSUME ms[k].t = "row", xs[k].t = "row" PROVE xs[k].item.n = k
    <3>1. CASE xs[k].item = Item(r, k)
      BY <1>2, <2>1, <3>1
    <3>2. CASE xs[k].item = [Item(r, k) EXCEPT !.is = "err"]
      BY <1>2, <2>1, <3>2
    <3> QED
      BY <2>4, <2>5, <2>6, <3>1, <3>2
  <2> QED
    BY <2>1, <2>2, <2>4, <2>6
<1>4. ASSUME NEW i \in DOMAIN down', down'[i].t = "row" PROVE down'[i].item.n <= n
  <2>1. ~(i <= L)
    BY <1>1, <1>4 DEF ItemTypes
  <2>2. i - L \in DOMAIN ms /\ i = L + (i - L)
    BY <1>1, <2>1
  <2>3. PICK k \in DOMAIN ms : i = L + k
    BY <2>2
  <2>4. down'[i] = xs[k] /\ xs[k].t = "row" /\ ms[k].t = "row"
    BY <1>3, <1>4, <2>3
  <2>5. xs[k].item.n = k /\ k <= n
    BY <1>3, <2>4 DEF InFull
  <2> QED
    BY <2>4, <2>5
<1>5. ASSUME n \in DOMAIN ms, ms[n].t = "row"
      PROVE  \E i \in DOMAIN down' : (down'[i].t = "row" /\ down'[i].item.n = n) \/ down'[i].t \in {"bad", "huge"}
  <2>1. L + n \in DOMAIN down' /\ down'[L + n] = xs[n] /\ (xs[n].t = "row" \/ xs[n].t \in {"bad", "huge"})
    BY <1>3, <1>5
  <2>2. xs[n].t = "row" => xs[n].item.n = n
    BY <1>3, <1>5
  <2>3. PICK i \in DOMAIN down' : down'[i] = xs[n]
    BY <2>1
  <2> QED
    BY <2>1, <2>2, <2>3
<1>6. ASSUME NEW k \in DOMAIN ms, ms[k].t = "copyout"
      PROVE  \E i \in DOMAIN down' : down'[i].t \in {"bad", "huge", "copyout"}
  <2>1. L + k \in DOMAIN down' /\ down'[L + k] = xs[k]
    BY <1>3
  <2>2. xs[k].t = "copyout" \/ xs[k].t \in {"bad", "huge"}
    BY <1>3, <1>6
  <2>3. down'[L + k].t \in {"bad", "huge", "copyout"}
    BY <2>1, <2>2
  <2> QED
    BY <2>1, <2>3
<1>7. n = 0 \/ (n \in DOMAIN ms /\ ms[n].t = "row") \/ \E k \in DOMAIN ms : ms[k].t = "copyout"
  BY DEF InFull
<1> QED
  BY <1>4, <1>5, <1>6, <1>7 DEF EndsAt

\* Behind an Execute there is none.
LEMMA ExecutedOnce ==
  ASSUME IInv, linked, up # <<>>, ~broken, Loop \in {"exec", "copyout"}, up[1].t = "execute"
  PROVE  \A i \in DOMAIN Tail(up) : Tail(up)[i].t # "execute"
<1>1. up \in Seq(UpMsg) /\ UpShape
  BY ActorFacts DEF Wire
<1>2. Len(up) = 2 /\ up[2].t = "sync"
  <2>1. CASE Loop = "exec"
    <3>1. IsTail(up, <<"bind", "execute", "sync">>)
      BY <1>1, <2>1 DEF UpShape
    <3> QED
      BY <1>1, <3>1, TailOfThree
  <2>2. CASE Loop = "copyout"
    <3>1. IsTail(up, <<"parse", "bind", "execute", "sync">>)
      BY <1>1, <2>2 DEF UpShape
    <3> QED
      BY <1>1, <3>1, TailOfFour
  <2> QED
    BY <2>1, <2>2
<1>3. Len(Tail(up)) = Len(up) - 1 /\ DOMAIN Tail(up) = 1..(Len(up) - 1)
      /\ \A i \in DOMAIN Tail(up) : i + 1 \in DOMAIN up /\ Tail(up)[i] = up[i + 1]
  BY <1>1, Popped
<1>4. \A i \in DOMAIN Tail(up) : i = 1
  BY <1>2, <1>3
<1> QED
  BY <1>2, <1>3, <1>4

LEMMA ServeExecuteRows ==
  ASSUME IInv, DInv, RInv, ServeExecute PROVE RInv'
<1>0. PICK r : r = Head(up).of
  OBVIOUS
<1>1. linked /\ up # <<>> /\ up' = Tail(up) /\ ServerKeeps /\ mode = "ready" /\ Head(up).t = "execute"
  BY DEF ServeExecute, Takes
<1>2. /\ r \in Requests /\ Head(up) = up[1] /\ 1 \in DOMAIN up /\ Head(up) \in UpMsg /\ (~broken => r = act.cur /\ ~Resting)
      /\ result \in [Requests -> ResultType] /\ (\A i \in DOMAIN up' : \E j \in DOMAIN up : up'[i] = up[j])
  BY <1>0, <1>1, Serving, ServerFacts
<1>3. PICK ms \in Seq(DownMsg), v \in ResultType :
        /\ Says(Head(up), ms) /\ result' = [result EXCEPT ![r] = v]
        /\ InOrder(r, ms)
        /\ \A i \in DOMAIN v.rows : v.rows[i] = Item(r, i)
        /\ \/ v.end = "executed" /\ InFull(Len(v.rows), ms) /\ \A i \in DOMAIN ms : ms[i].t # "stale"
           \/ v.end = "none" /\ \A i \in DOMAIN ms : ms[i].t = "copyin"
           \/ v.end = "failed" /\ mode' = "skip" /\ \A i \in DOMAIN ms : ms[i].t # "trailer"
  BY <1>0, ExecuteReply
<1>4. UNCHANGED <<queue, kind, caller, seen, chan, rx, tx, done, act, broken>>
      /\ Loop' = Loop /\ (Flowing' <=> Flowing) /\ Taken' = Taken /\ RowType' = RowType
  BY <1>1 DEF ServerKeeps, client, channels, Loop, Flowing, Taken, Passed, RowType
<1>5. result'[r] = v /\ \A s \in Requests : s # r => result'[s] = result[s]
  BY <1>2, <1>3
<1>6. Keeping
  <2>1. ~RanOnce(r)
    BY <1>0, <1>1, <1>2 DEF RanOnce
  <2> QED
    BY <1>2, <1>5, <2>1 DEF Keeping, RanOnce
<1>7. /\ Held' /\ Fresh' /\ Given' /\ Closed' /\ Final'
      /\ act.at = "settle" /\ act.err = "none" /\ kind[act.cur] = "fetch" /\ act.cur \in rx =>
           Passed(act.cur)' = Len(result'[act.cur].rows)
  BY <1>0, <1>1, <1>4, <1>5, <1>6, ServerKept
<1>8. Numbered'
  <2>1. \A s \in Requests : \A i \in DOMAIN result'[s].rows : result'[s].rows[i] = Item(s, i)
    BY <1>3, <1>5 DEF RInv, Numbered
  <2> QED
    BY <1>2, <1>4, <2>1 DEF RInv, Numbered
<1>9. ~(Loop = "prepare")
  <2>1. Loop = "prepare" => ~broken
    BY ActorFacts DEF Loop, Resting
  <2> QED
    BY <1>1, <1>2, <2>1, Heads
<1>10. ASSUME Loop \in {"exec", "copyout"}
       PROVE  Executes' /\ Coming' /\ (Loop = "exec" /\ Flowing /\ ~Unfinished(act.cur)' =>
                /\ \A i \in DOMAIN down' : down'[i].t = "row" => down'[i].item.n <= Len(result'[act.cur].rows)
                /\ \/ Taken' = Len(result'[act.cur].rows)
                   \/ \E i \in DOMAIN down' : \/ down'[i].t = "row" /\ down'[i].item.n = Len(result'[act.cur].rows)
                                              \/ down'[i].t \in {"bad", "huge", "copyout"})
  <2>1. ~broken /\ r = act.cur /\ act'.cur = r
    <3>1. Loop \in {"exec", "copyout"} => ~Resting
      BY DEF Loop, Resting
    <3> QED
      BY <1>2, <1>4, <1>10, <3>1, ActorFacts
  <2>2. Unfinished(act.cur) /\ ~act.sent /\ \A j \in DOMAIN down : down[j].t \notin ItemTypes
    BY <1>1, <1>2, <1>10 DEF RInv, Executes
  <2>3. \A i \in DOMAIN up' : up'[i].t # "execute"
    BY <1>1, <1>2, <1>10, <2>1, ExecutedOnce
  <2>4. down \in Seq(DownMsg) /\ Shape /\ extra \in 0..MaxExtra
    BY <1>1, ActorFacts, ServerFacts
  <2>5. PICK xs \in Seq(DownMsg) :
          /\ down' = down \o xs /\ Len(xs) = Len(ms)
          /\ \A i \in DOMAIN ms : Echo(Head(up), ms[i], xs[i])
    BY <1>2, <1>3, <2>4, Said
  <2>6. DOMAIN xs = DOMAIN ms
    <3>1. DOMAIN xs = 1..Len(xs) /\ DOMAIN ms = 1..Len(ms)
      OBVIOUS
    <3> QED
      BY <2>5, <3>1
  <2>7. Executes'
    <3>1. ASSUME Loop = "exec", Stale' PROVE Unfinished(act.cur)' /\ mode' = "skip"
      <4>1. ~Stale
        BY <1>1, <3>1 DEF RInv, Executes
      <4>2. PICK i \in DOMAIN down' : down'[i].t = "stale"
        BY <1>4, <3>1, <4>1 DEF Stale
      <4>3. IF i <= Len(down) THEN i \in DOMAIN down /\ down'[i] = down[i]
                              ELSE i - Len(down) \in DOMAIN xs /\ down'[i] = xs[i - Len(down)]
        BY <2>4, <2>5, Extended
      <4>4. PICK k \in DOMAIN xs : xs[k].t = "stale"
        BY <4>1, <4>2, <4>3 DEF Stale
      <4>5. k \in DOMAIN ms /\ ms[k].t = "stale"
        <5>1. Echo(Head(up), ms[k], xs[k])
          BY <2>5, <2>6
        <5> QED
          BY <2>6, <4>4, <5>1 DEF Echo
      <4> QED
        BY <1>3, <1>5, <2>1, <4>5 DEF Unfinished
    <3> QED
      BY <1>4, <1>9, <2>3, <3>1 DEF Executes
  <2>8. Flowing => Taken = 0
    <3> SUFFICES ASSUME Flowing PROVE Taken = 0
      OBVIOUS
    <3>1. Busy
      BY <1>10 DEF Busy, Loop
    <3>2. seen[act.cur] = <<>> /\ chan[act.cur] = <<>> /\ act.at # "send"
      BY <2>2, <3>1 DEF RInv, Fresh, Flowing
    <3>3. Len(<<>>) = 0
      OBVIOUS
    <3> QED
      BY <3>2, <3>3 DEF Taken, Passed
  <2>9. Coming'
    <3> SUFFICES ASSUME Flowing PROVE Coming'
      BY <1>4 DEF Coming
    <3>1. Taken' = 0 /\ RowType' \in {"row", "data"} /\ (Loop = "copyout" => RowType' = "data")
      BY <1>4, <1>10, <2>8 DEF RowType
    <3>2. /\ \A i \in DOMAIN down' : down'[i].t = RowType' => RowAt(i)'
          /\ RowType' = "data" => \A i \in DOMAIN down' : down'[i].t = "trailer" =>
               /\ \E k \in DOMAIN ms : ms[k].t = "trailer" /\ i = Len(down) + k /\ \A n \in Nat : n = k - 1 => Follows(i, n)'
               /\ down'[i].item = Mark("trailer")
               /\ \A j \in DOMAIN down' : j > i => down'[j].t \notin ItemTypes
      <4>1. PICK m : m = Head(up)
        OBVIOUS
      <4>2. \A i \in DOMAIN ms : Echo(m, ms[i], xs[i])
        BY <2>5, <4>1
      <4> QED
        BY <1>2, <1>3, <2>1, <2>2, <2>4, <2>5, <3>1, <4>2, ReplyRows
    <3>3. ASSUME Loop = "copyout", NEW i \in DOMAIN down', down'[i].t = "trailer" PROVE TrailerAt(i)'
      <4>1. PICK k \in DOMAIN ms : ms[k].t = "trailer" /\ i = Len(down) + k /\ \A n \in Nat : n = k - 1 => Follows(i, n)'
        BY <3>1, <3>2, <3>3
      <4>2. v.end = "executed" /\ InFull(Len(v.rows), ms)
        BY <1>3, <4>1
      <4>3. Len(v.rows) \in Nat /\ k = Len(v.rows) + 2
        BY <4>1, <4>2 DEF InFull, ResultType
      <4>4. PICK n \in Nat : n = Len(v.rows) + 1 /\ n = k - 1
        BY <4>3
      <4>5. Follows(i, n)' /\ n = Len(result'[act'.cur].rows) + 1
        BY <1>5, <2>1, <4>1, <4>4
      <4>6. Follows(i, Len(result[act.cur].rows) + 1)'
        BY <4>5 DEF Follows
      <4>7. result'[act'.cur].end # "none"
        BY <1>5, <2>1, <4>2
      <4> QED
        BY <3>1, <3>2, <3>3, <4>6, <4>7 DEF TrailerAt
    <3> QED
      BY <1>4, <3>2, <3>3 DEF Coming
  <2>10. ASSUME Loop = "exec", Flowing, ~Unfinished(act.cur)'
         PROVE  /\ \A i \in DOMAIN down' : down'[i].t = "row" => down'[i].item.n <= Len(result'[act.cur].rows)
                /\ \/ Taken' = Len(result'[act.cur].rows)
                   \/ \E i \in DOMAIN down' : \/ down'[i].t = "row" /\ down'[i].item.n = Len(result'[act.cur].rows)
                                              \/ down'[i].t \in {"bad", "huge", "copyout"}
    <3>1. v.end = "executed" /\ InFull(Len(v.rows), ms)
      BY <1>3, <1>4, <1>5, <2>1, <2>10 DEF Unfinished
    <3>2. PICK n \in Nat : n = Len(v.rows)
      BY DEF ResultType
    <3>3. PICK m : m = Head(up)
      OBVIOUS
    <3>4. \A i \in DOMAIN ms : Echo(m, ms[i], xs[i])
      BY <2>5, <3>3
    <3>5. EndsAt(n)'
      <4>1. InFull(n, ms) /\ InOrder(r, ms) /\ r \in Requests
        BY <1>2, <1>3, <3>1, <3>2
      <4> QED
        BY <2>2, <2>4, <2>5, <3>4, <4>1, ReplyCounts
    <3>6. n = Len(result'[act.cur].rows) /\ Taken' = 0
      BY <1>4, <1>5, <2>1, <2>8, <2>10, <3>2
    <3> QED
      BY <3>5, <3>6 DEF EndsAt
  <2> QED
    BY <2>7, <2>9, <2>10
<1>11. ASSUME Loop \notin {"exec", "copyout"} PROVE Executes' /\ Coming' /\ ~Flowing'
  BY <1>4, <1>9, <1>11 DEF Executes, Coming, Flowing
<1>12. Executes' /\ Coming' /\ Tally'
  <2>1. CASE Loop \in {"exec", "copyout"}
    BY <1>4, <1>7, <1>10, <2>1 DEF Tally
  <2>2. CASE Loop \notin {"exec", "copyout"}
    BY <1>4, <1>7, <1>11, <2>2 DEF Tally
  <2> QED
    BY <2>1, <2>2
<1> QED
  BY <1>7, <1>8, <1>12 DEF RInv

-----------------------------------------------------------------------------
(* Every step, and what follows. *)

LEMMA RInvInit ==
  ASSUME Init PROVE RInv
<1>1. /\ queue = <<>> /\ up = <<>> /\ down = <<>> /\ act = Idle /\ Idle.at = "idle"
      /\ \A r \in Requests : caller[r] = "new" /\ seen[r] = <<>> /\ chan[r] = <<>> /\ result[r].rows = <<>>
  BY DEF Init, Idle
<1>2. DOMAIN queue = {} /\ DOMAIN up = {} /\ act.at = "idle" /\ DOMAIN <<>> = {} /\ Loop = "idle"
  BY <1>1 DEF Loop
<1>3. Held /\ Given /\ Closed /\ Final
  BY <1>1 DEF Held, Given, Closed, Final, Stream
<1>4. Fresh /\ Numbered
  BY <1>1, <1>2 DEF Fresh, Numbered, Busy
<1>5. Executes /\ Coming /\ Tally
  BY <1>2 DEF Executes, Coming, Tally, Flowing
<1> QED
  BY <1>3, <1>4, <1>5 DEF RInv

LEMMA RInvNext ==
  ASSUME IInv, DInv, RInv, [Next]_vars PROVE RInv'
<1>1. CASE Actor
  BY <1>1, RestRows, CopyRows, ReadOnRows, ReadItemRows, SendRows, ReadReadyRows, SettleRows, TakeRequestRows DEF Actor
<1>2. CASE Server
  BY <1>2, ServePrepareRows, ServeExecuteRows, ServeSyncRows, ServeDiscardRows, ServeCopyRows,
     ServeScriptRows, ServeScriptCopyRows DEF Server
<1>3. CASE ServerNotifies \/ Lose
  BY <1>3, WorldRows
<1>4. CASE \E r \in Requests : Handle(r) \/ Write(r) \/ DropWrite(r) \/ Drop(r) \/ \E k \in Kinds : Submit(r, k)
  BY <1>4, CallerRows, SubmitRows DEF Handle, Writes
<1>5. CASE UNCHANGED vars
  <2>1. UNCHANGED <<queue, kind, caller, seen, chan, rx, tx, done, act, broken, linked, up, down, mode, result>>
    BY <1>5 DEF vars, client, channels, server, world
  <2>2. Loop' = Loop /\ (Flowing' <=> Flowing) /\ Taken' = Taken /\ (Stale' <=> Stale) /\ (Busy' <=> Busy)
    BY <2>1 DEF Loop, Flowing, Taken, Passed, Stale, Busy
  <2>3. Keeping
    BY <2>1 DEF Keeping, RanOnce
  <2>4. Held' /\ Given' /\ Closed' /\ Final'
    BY <2>1, <2>3, HeldKept, GivenKept, ClosedKept, FinalKept DEF RInv, Stream
  <2>5. Fresh' /\ Numbered'
    BY <2>1, <2>2 DEF RInv, Fresh, Numbered
  <2>6. Executes'
    BY <2>1, <2>2 DEF RInv, Executes, Unfinished
  <2>7. Coming' /\ (act'.at # "settle" => Tally')
    BY <2>1, <2>2, TakenKept DEF RInv
  <2>8. Tally'
    <3>1. CASE act'.at # "settle"
      BY <2>7, <3>1
    <3>2. CASE act'.at = "settle"
      <4>1. ~Flowing'
        BY <3>2 DEF Flowing, Loop
      <4> QED
        BY <2>1, <4>1 DEF RInv, Tally, Passed
    <3> QED
      BY <3>1, <3>2
  <2> QED
    BY <2>4, <2>5, <2>6, <2>7, <2>8 DEF RInv
<1> QED
  BY <1>1, <1>2, <1>3, <1>4, <1>5 DEF Next

LEMMA Delivered ==
  ASSUME PrepareIntact
  PROVE  Spec => [](IInv /\ RInv)
<1>1. Init => IInv /\ DInv /\ RInv
  BY IInvInit, DInvInit, RInvInit
<1>2. (IInv /\ DInv /\ RInv) /\ [Next]_vars => (IInv /\ DInv /\ RInv)'
  BY IInvNext, DInvNext, RInvNext
<1> QED
  BY <1>1, <1>2, PTL DEF Spec

\* Rows are not reordered, repeated or given to another stream (execute_streamed,
\* its retry after a stale statement, and handle_copy_out): if the frames of the
\* replies to prepare are intact, then whatever a stream has delivered, the i-th
\* item that is not an error is the i-th row of its own statement.
THEOREM RowsAreInOrder ==
  ASSUME PrepareIntact
  PROVE  Spec => []RowsInOrder
<1>1. IInv /\ RInv => RowsInOrder
  <2> SUFFICES ASSUME IInv, RInv, NEW r \in Requests, kind[r] \in Streams,
                      NEW i \in DOMAIN seen[r], seen[r][i].is = "data"
               PROVE  seen[r][i] = Item(r, i)
    BY DEF RowsInOrder
  <2>1. Stream(r)
    <3>1. caller[r] = "new" => seen[r] = <<>>
      BY DEF RInv, Fresh
    <3>2. DOMAIN <<>> = {}
      OBVIOUS
    <3> QED
      BY <3>1, <3>2 DEF Stream
  <2>2. Fitting(r, seen[r][i], i)
    BY <2>1 DEF RInv, Given
  <2>3. Mark("trailer").is = "trailer"
    BY DEF Mark
  <2> QED
    BY <2>2, <2>3 DEF Fitting
<1> QED
  BY <1>1, Delivered, PTL

\* The items of a stream that ended well are those of the result.
LEMMA AllDelivered ==
  ASSUME IInv, RInv, NEW r \in Requests, Stream(r), caller[r] = "ended", ~Erred(seen[r]),
         ~(kind[r] = "fetch" /\ done[r] = "refused" /\ seen[r] = <<>>)
  PROVE  /\ result[r].end # "none"
         /\ seen[r] = result[r].rows \o (IF kind[r] = "copyout" THEN <<Mark("trailer")>> ELSE <<>>)
<1> DEFINE s == seen[r]
           rs == result[r].rows
           z == <<Mark("trailer")>>
<1>1. /\ RanOnce(r) /\ kind[r] \in {"fetch", "copyout"}
      /\ IF kind[r] = "fetch" THEN Len(s) = Len(rs)
         ELSE Len(s) = Len(rs) + 1 /\ s[Len(s)] = Mark("trailer")
  BY DEF RInv, Final, Stream, Streams
<1>2. s \in Seq(Payload) /\ rs \in Seq(Payload)
  BY DEF IInv, Shape
<1>3. /\ Len(s) \in Nat /\ DOMAIN s = 1..Len(s) /\ Len(rs) \in Nat /\ DOMAIN rs = 1..Len(rs)
  BY <1>2
<1>4. ASSUME NEW i \in DOMAIN rs, i \in DOMAIN s PROVE s[i] = rs[i]
  <2>1. rs[i] = Item(r, i)
    BY DEF RInv, Numbered
  <2>2. Fitting(r, s[i], i) /\ s[i].is # "err"
    BY <1>4 DEF RInv, Given, Erred
  <2>3. i # Len(rs) + 1
    BY <1>3
  <2> QED
    BY <2>1, <2>2, <2>3 DEF Fitting
<1>5. result[r].end # "none"
  BY <1>1 DEF RanOnce
<1> HIDE DEF s, rs
<1>6. CASE kind[r] = "fetch"
  <2>1. Len(s) = Len(rs)
    BY <1>1, <1>6
  <2>2. DOMAIN s = DOMAIN rs /\ \A i \in DOMAIN s : s[i] = rs[i]
    BY <1>3, <1>4, <2>1
  <2>3. s = rs
    BY <1>2, <2>2
  <2>4. rs \o <<>> = rs
    BY <1>2
  <2> QED
    BY <1>5, <1>6, <2>3, <2>4 DEF s, rs
<1>7. CASE kind[r] = "copyout"
  <2>1. Len(s) = Len(rs) + 1 /\ s[Len(s)] = Mark("trailer")
    BY <1>1, <1>7
  <2> DEFINE c == Mark("trailer")
             w == rs \o <<c>>
  <2> HIDE DEF c
  <2>2. c \in Payload
    BY <1>2, <1>3, <2>1 DEF c
  <2>3. /\ w \in Seq(Payload) /\ DOMAIN w = 1..(Len(rs) + 1) /\ w[Len(rs) + 1] = c
        /\ \A i \in 1..Len(rs) : w[i] = rs[i]
    BY <1>2, <2>2
  <2> HIDE DEF w
  <2>4. DOMAIN s = 1..(Len(rs) + 1)
    BY <1>3, <2>1
  <2>5. ASSUME NEW i \in DOMAIN s PROVE s[i] = w[i]
    <3>1. CASE i = Len(rs) + 1
      BY <2>1, <2>3, <3>1 DEF c
    <3>2. CASE i \in 1..Len(rs)
      BY <1>3, <1>4, <2>3, <3>2
    <3> QED
      BY <1>3, <2>4, <3>1, <3>2
  <2>6. s = w
    BY <1>2, <2>3, <2>4, <2>5
  <2> QED
    BY <1>5, <1>7, <2>6 DEF s, rs, w, c
<1> QED
  BY <1>1, <1>6, <1>7

\* No silent truncation (execute_streamed, handle_copy_out and fail_request): if
\* the frames of the replies to prepare are intact, then a stream that ends
\* without an error has delivered every row of one execution of its statement,
\* and a COPY also its trailer; or it is a query that was refused, unexamined, on
\* a broken connection, and has delivered nothing.
THEOREM StreamsAreWhole ==
  ASSUME PrepareIntact
  PROVE  Spec => []NoSilentTruncation
<1>1. IInv /\ RInv => NoSilentTruncation
  <2> SUFFICES ASSUME IInv, RInv, NEW r \in Requests, caller[r] = "ended", kind[r] \in Streams
               PROVE  \/ EndsHonestly(r)
                      \/ kind[r] = "fetch" /\ done[r] = "refused" /\ seen[r] = <<>>
    BY DEF NoSilentTruncation
  <2>1. Stream(r)
    BY DEF Stream
  <2> QED
    BY <2>1, AllDelivered DEF Erred, EndsHonestly
<1> QED
  BY <1>1, Delivered, PTL
=============================================================================
