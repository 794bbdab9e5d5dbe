------------------------ MODULE PgTransactionProofs ------------------------
(***************************************************************************)
(* Theorems about PgTransaction, for any number of sessions and queued     *)
(* requests, whether or not futures of Pool::begin may be dropped.         *)
(*                                                                         *)
(* The invariant says how the queue looks.  The requests of a session that *)
(* got its Transaction come first in it, statements before COMMIT and      *)
(* ROLLBACK; while the handle exists there is nothing else in it; and a    *)
(* transaction that is open on the server, or work in it, has its handle   *)
(* or its COMMIT or ROLLBACK still to come, or is aborted.  All this is so *)
(* until a prepare breaks off; what holds even then is Base.               *)
(***************************************************************************)
EXTENDS PgTransaction, SequenceTheorems, TLAPS

Ends == {"COMMIT", "ROLLBACK"}
Requests == [op : {"BEGIN", "STATEMENT"} \cup Ends, by : Sessions]
Pos == 1..Len(queue)

\* The sessions whose COMMIT or ROLLBACK is still to be run.
Ending == {s \in Sessions : \E i \in Pos : queue[i].by = s /\ queue[i].op \in Ends}

Shape == queue \in Seq(Requests) /\ work \subseteq Sessions

\* The checkout is held on behalf of one session at a time.
OneHolder ==
  /\ \A s, t \in Sessions : \A a, b \in {"handle", "stream"} :
       <<s, a>> \in holds /\ <<t, b>> \in holds => s = t
  /\ \A s \in Sessions : <<s, "stream">> \in holds => at[s] \notin {"out", "begin"}

\* What a session has done by the time it is where it is.
Life ==
  \A s \in Sessions :
    /\ at[s] = "out" => reply[s] = "none" /\ txn # s /\ ran.in # s
    /\ at[s] = "begin" =>
         /\ ran.in # s
         /\ reply[s] = "none" => txn # s
         /\ reply[s] = "ok" => txn # None /\ ~failed
    /\ s \in begun => at[s] \notin {"out", "begin", "plain"}
    /\ at[s] \in {"open", "commit", "rollback", "committed"} => s \in begun
    /\ s \in committed \cup work => at[s] \notin {"out", "begin"}

\* What a request in the queue says of its session and of its neighbours.
LinedAt(i) ==
  /\ queue[i].op = "BEGIN" => queue[i].by \notin begun /\ at[queue[i].by] \in {"begin", "over"}
  /\ queue[i].op = "STATEMENT" =>
       /\ at[queue[i].by] \notin {"out", "begin"}
       /\ queue[i].by \in begun =>
            txn # None /\ (at[queue[i].by] = "open" \/ queue[i].by \in Ending)
  /\ queue[i].op = "COMMIT" => queue[i].by \in asked
  /\ queue[i].op = "ROLLBACK" => queue[i].by \in begun
  /\ queue[i].by \in begun => \A j \in 1..i : queue[j].by = queue[i].by
  /\ queue[i].op \in Ends =>
       \A j \in Pos : j > i /\ queue[j].by = queue[i].by => queue[j].op \in Ends

Lined == \A i \in Pos : LinedAt(i)

\* How the queue looks to a session that has its handle.
AwaitingAt(s) ==
  /\ at[s] = "begin" =>
       IF reply[s] = "none" THEN \A i \in Pos : queue[i].by = s => i = Len(queue)
                            ELSE Pos = {}
  /\ at[s] \in {"open", "commit", "rollback"} => \A i \in Pos : queue[i].by = s
  /\ at[s] = "open" => txn # None /\ \A i \in Pos : queue[i].op = "STATEMENT"
  /\ at[s] \in {"commit", "rollback"} =>
       IF reply[s] = "none" THEN \A i \in Pos : queue[i].op \in Ends => i = Len(queue)
                            ELSE Pos = {}
  /\ at[s] = "commit" => \A i \in Pos : queue[i].op # "ROLLBACK"
  /\ at[s] = "committed" => \A i \in Pos : queue[i].by # s

Awaiting == \A s \in Sessions : AwaitingAt(s)

\* What a transaction has on the server ends with it, or was aborted when the
\* server refused to end it.
Pending ==
  \A s \in begun :
    txn = s \/ s \in work => at[s] = "open" \/ s \in Ending \/ (s \in left /\ failed)

\* What holds while replies and requests are aligned.
IInv ==
  /\ TypeOK /\ Shape /\ OneHolder /\ Life /\ Lined /\ Awaiting /\ Pending
  /\ EndsWithItsHandle /\ OnlyCommittedSurvives

\* What holds in any case.
Handles == \A s \in Sessions : at[s] \in {"open", "commit", "rollback"} => s \in begun

Base == TypeOK /\ Shape /\ OneHolder /\ Handles

JInv == Base /\ (aligned => IInv)

-----------------------------------------------------------------------------
(* The queue. *)

LEMMA Enqueued ==
  ASSUME Shape, NEW op \in {"BEGIN", "STATEMENT"} \cup Ends, NEW s \in Sessions, Enqueue(op, s)
  PROVE  /\ queue' \in Seq(Requests) /\ Len(queue) \in Nat
         /\ Len(queue') = Len(queue) + 1 /\ Pos' = Pos \cup {Len(queue) + 1}
         /\ \A i \in Pos : queue'[i] = queue[i]
         /\ queue'[Len(queue) + 1].op = op /\ queue'[Len(queue) + 1].by = s
<1>1. [op |-> op, by |-> s] \in Requests
  BY DEF Requests
<1> QED
  BY <1>1 DEF Shape, Enqueue, Pos

LEMMA Dequeued ==
  ASSUME Shape, queue # <<>>, queue' = Tail(queue)
  PROVE  /\ queue' \in Seq(Requests) /\ Len(queue) \in Nat /\ 1 \in Pos
         /\ Len(queue') = Len(queue) - 1
         /\ \A i \in Pos' : i + 1 \in Pos /\ queue'[i] = queue[i + 1]
         /\ Head(queue) = queue[1] /\ queue[1] \in Requests
  BY DEF Shape, Pos

\* A COMMIT or ROLLBACK that waits goes on waiting behind what is enqueued.
LEMMA EndStays ==
  ASSUME Shape, NEW op \in {"BEGIN", "STATEMENT"} \cup Ends, NEW s \in Sessions, Enqueue(op, s)
  PROVE  /\ Ending \subseteq Ending'
         /\ op \in Ends => s \in Ending'
  BY Enqueued DEF Ending

\* A session enqueues BEGIN when it checks the connection out, statements while
\* it has its handle, COMMIT or ROLLBACK to end its transaction, and ROLLBACK
\* when its handle is dropped.
Enqueues(op, s) ==
  /\ Room /\ Enqueue(op, s)
  /\ at' \in [Sessions -> Places] /\ reply' \in [Sessions -> {"none", "ok", "err"}]
  /\ \A t \in Sessions : t # s => at'[t] = at[t] /\ reply'[t] = reply[t]
  /\ asked' = IF op = "COMMIT" THEN asked \cup {s} ELSE asked
  /\ \/ op = "BEGIN" /\ at[s] = "out" /\ holds = {} /\ at'[s] = "begin" /\ reply'[s] = reply[s]
     \/ op = "STATEMENT" /\ at[s] \in {"open", "plain"} /\ at'[s] = at[s] /\ reply'[s] = reply[s]
     \/ op = "COMMIT" /\ at[s] = "open" /\ at'[s] = "commit" /\ reply'[s] = "none"
     \/ op = "ROLLBACK" /\ at[s] = "open" /\ at'[s] = "rollback" /\ reply'[s] = "none"
     \/ op = "ROLLBACK" /\ at[s] \in {"open", "commit", "rollback"} /\ at'[s] = "over"
  /\ UNCHANGED <<begun, server>>

\* Then nobody else has a handle, and what is in the queue stays as it should be.
LEMMA OthersOut ==
  ASSUME IInv, NEW op, NEW s \in Sessions, Enqueues(op, s)
  PROVE  \A t \in Sessions : t # s => at[t] \notin Held
  BY DEF IInv, TypeOK, OneHolder, Enqueues, Held

LEMMA LinedBehind ==
  ASSUME IInv, NEW op \in {"BEGIN", "STATEMENT"} \cup Ends, NEW s \in Sessions, Enqueues(op, s)
  PROVE  Lined'
<1>q. /\ queue' \in Seq(Requests) /\ Len(queue) \in Nat
      /\ Len(queue') = Len(queue) + 1 /\ Pos' = Pos \cup {Len(queue) + 1}
      /\ \A i \in Pos : queue'[i] = queue[i]
      /\ queue'[Len(queue) + 1].op = op /\ queue'[Len(queue) + 1].by = s
      /\ Ending \subseteq Ending'
      /\ op \in Ends => s \in Ending'
  BY Enqueued, EndStays DEF IInv, Enqueues
<1>b. /\ s \in begun <=> at[s] \in {"open", "commit", "rollback"}
      /\ s \in begun => \A i \in Pos : queue[i].by = s
  BY DEF IInv, Life, Awaiting, AwaitingAt, Enqueues, server
<1> SUFFICES ASSUME NEW i \in Pos' PROVE LinedAt(i)'
  BY DEF Lined
<1>1. CASE i = Len(queue) + 1
  <2>1. \A j \in 1..i : j \in Pos \/ j = i
    BY <1>q, <1>1 DEF Pos
  <2>2. \A j \in Pos' : ~(j > i)
    BY <1>q, <1>1 DEF Pos
  <2>3. s \in begun => \A j \in 1..i : queue'[j].by = s
    BY <1>q, <1>b, <1>1, <2>1
  <2> QED
    BY <1>q, <1>b, <1>1, <2>2, <2>3 DEF IInv, Awaiting, AwaitingAt, Enqueues, server, Ends, LinedAt
<1>2. CASE i \in Pos
  <2>0. queue'[i] = queue[i] /\ queue[i].by \in Sessions /\ queue[i].op \in {"BEGIN", "STATEMENT"} \cup Ends
    <3>1. queue[i] \in Requests
      BY <1>2 DEF IInv, Shape, Pos
    <3> QED
      BY <1>q, <1>2, <3>1 DEF Requests
  <2>1. queue[i].by = s => at[s] \notin {"out", "begin"} /\ queue[i].op # "BEGIN" /\ at'[s] \notin {"out", "begin"}
    BY <1>2, <1>b, <2>0 DEF IInv, TypeOK, Lined, LinedAt, Life, Enqueues, server, Ends
  <2>2. /\ queue[i].op = "BEGIN" => queue[i].by \notin begun /\ at'[queue[i].by] \in {"begin", "over"}
        /\ queue[i].op = "COMMIT" => queue[i].by \in asked'
        /\ queue[i].op = "ROLLBACK" => queue[i].by \in begun
    BY <1>2, <2>0, <2>1 DEF IInv, Lined, LinedAt, Enqueues, server
  <2>3. queue[i].op = "STATEMENT" =>
          /\ at'[queue[i].by] \notin {"out", "begin"}
          /\ queue[i].by \in begun =>
               txn # None /\ (at'[queue[i].by] = "open" \/ queue[i].by \in Ending')
    <3>1. CASE queue[i].by = s
      BY <1>q, <1>2, <2>0, <2>1, <3>1 DEF IInv, Lined, LinedAt, Enqueues, server
    <3>2. CASE queue[i].by # s
      BY <1>q, <1>2, <2>0, <3>2 DEF IInv, Lined, LinedAt, Enqueues, server
    <3> QED
      BY <3>1, <3>2
  <2>4. queue[i].by \in begun => \A j \in 1..i : queue'[j].by = queue[i].by
    <3>1. \A j \in 1..i : j \in Pos
      BY <1>q, <1>2 DEF Pos
    <3> QED
      BY <1>q, <1>2, <3>1 DEF IInv, Lined, LinedAt, Enqueues, server
  <2>5. queue[i].op \in Ends =>
          \A j \in Pos' : j > i /\ queue'[j].by = queue[i].by => queue'[j].op \in Ends
    <3> SUFFICES ASSUME queue[i].op \in Ends, NEW j \in Pos', j > i, queue'[j].by = queue[i].by
                 PROVE  queue'[j].op \in Ends
      OBVIOUS
    <3>1. CASE j \in Pos
      BY <1>q, <1>2, <3>1 DEF IInv, Lined, LinedAt, Enqueues, server
    <3>2. CASE j = Len(queue) + 1
      <4>1. queue[i].by = s /\ queue'[j].op = op
        BY <1>q, <3>2
      <4>2. s \in begun
        BY <1>2, <4>1 DEF IInv, TypeOK, Lined, LinedAt, Ends
      <4>3. at[s] # "open"
        BY <1>2 DEF IInv, Awaiting, AwaitingAt, Ends
      <4> QED
        BY <1>b, <4>1, <4>2, <4>3 DEF Enqueues, server
    <3> QED
      BY <1>q, <3>1, <3>2
  <2> QED
    BY <2>0, <2>2, <2>3, <2>4, <2>5 DEF LinedAt, Enqueues, server
<1> QED
  BY <1>q, <1>1, <1>2

\* The whole invariant, given that the checkout's holders are as they should be.
LEMMA EnqueueStep ==
  ASSUME IInv, NEW op \in {"BEGIN", "STATEMENT"} \cup Ends, NEW s \in Sessions, Enqueues(op, s),
         holds' \subseteq Sessions \X {"handle", "stream"}, OneHolder',
         \A t \in Sessions : <<t, "handle">> \in holds' <=> at'[t] \in Held
  PROVE  IInv'
<1> USE TransactionAssumption
<1>q. /\ queue' \in Seq(Requests) /\ Len(queue) \in Nat
      /\ Len(queue') = Len(queue) + 1 /\ Pos' = Pos \cup {Len(queue) + 1}
      /\ \A i \in Pos : queue'[i] = queue[i]
      /\ queue'[Len(queue) + 1].op = op /\ queue'[Len(queue) + 1].by = s
      /\ Ending \subseteq Ending'
      /\ op \in Ends => s \in Ending'
  BY Enqueued, EndStays DEF IInv, Enqueues
<1>1. TypeOK'
  <2>1. Len(queue') <= MaxQueue
    BY <1>q DEF Enqueues, Room
  <2>2. \A i \in DOMAIN queue' : queue'[i].by \in Sessions
    <3>1. \A i \in DOMAIN queue' : queue'[i] \in Requests
      BY <1>q
    <3> QED
      BY <3>1 DEF Requests
  <2>3. begun' \subseteq Sessions /\ asked' \subseteq begun'
    BY DEF IInv, TypeOK, Life, Enqueues
  <2> QED
    BY <2>1, <2>2, <2>3 DEF IInv, TypeOK, Enqueues, server
<1>2. Shape'
  BY <1>q DEF IInv, Shape, Enqueues, server
<1>4. Life'
  BY DEF IInv, TypeOK, Life, Enqueues, server
<1>5. Lined'
  BY LinedBehind
<1>6. Awaiting'
  <2> SUFFICES ASSUME NEW t \in Sessions PROVE AwaitingAt(t)'
    BY DEF Awaiting
  <2>1. CASE t # s
    <3>1. at'[t] = at[t] /\ at[t] \notin Held /\ AwaitingAt(t)
      BY <2>1, OthersOut DEF IInv, Awaiting, Enqueues
    <3>2. at[t] = "committed" => \A i \in Pos' : queue'[i].by # t
      BY <1>q, <2>1, <3>1 DEF AwaitingAt
    <3> QED
      BY <3>1, <3>2 DEF AwaitingAt, Held
  <2>2. CASE t = s /\ at'[s] = "begin"
    <3>1. at[s] = "out" /\ reply'[s] = "none"
      BY <2>2 DEF IInv, Life, Enqueues
    <3>2. \A i \in Pos : queue[i].by # s
      <4> SUFFICES ASSUME NEW i \in Pos, queue[i].by = s PROVE FALSE
        OBVIOUS
      <4>1. queue[i] \in Requests /\ LinedAt(i)
        BY DEF IInv, Shape, Lined, Pos
      <4> QED
        BY <3>1, <4>1 DEF IInv, TypeOK, Life, LinedAt, Requests, Ends
    <3> QED
      BY <1>q, <2>2, <3>1, <3>2 DEF AwaitingAt
  <2>3. CASE t = s /\ at'[s] # "begin"
    BY <1>q, <2>3 DEF IInv, Awaiting, AwaitingAt, Enqueues, server, Ends
  <2> QED
    BY <2>1, <2>2, <2>3
<1>7. Pending'
  BY <1>q DEF IInv, TypeOK, Life, Pending, Awaiting, AwaitingAt, Enqueues, server, Ends
<1>9. EndsWithItsHandle' /\ OnlyCommittedSurvives'
  BY <1>1 DEF IInv, EndsWithItsHandle, OnlyCommittedSurvives, Enqueues, server
<1> QED
  BY <1>1, <1>2, <1>4, <1>5, <1>6, <1>7, <1>9 DEF IInv

-----------------------------------------------------------------------------

LEMMA InitIInv == Init => IInv
<1> SUFFICES ASSUME Init PROVE IInv
  OBVIOUS
<1> USE TransactionAssumption
<1>1. Len(queue) = 0 /\ Pos = {} /\ queue \in Seq(Requests)
  BY DEF Init, Pos
<1>2. TypeOK
  <2>1. at \in [Sessions -> Places] /\ \A s \in Sessions : at[s] \notin Held
    BY DEF Init, Places, Held
  <2>2. reply \in [Sessions -> {"none", "ok", "err"}]
    BY DEF Init
  <2>3. DOMAIN queue = {} /\ Len(queue) <= MaxQueue
    BY <1>1 DEF Init
  <2>4. holds \subseteq Sessions \X {"handle", "stream"} /\ \A s \in Sessions : <<s, "handle">> \notin holds
    BY DEF Init
  <2> QED
    BY <2>1, <2>2, <2>3, <2>4 DEF Init, TypeOK
<1>3. OneHolder /\ Life
  BY DEF Init, OneHolder, Life
<1>4. Lined /\ Awaiting /\ Pending
  BY <1>1 DEF Init, Lined, LinedAt, Awaiting, AwaitingAt, Pending
<1>5. EndsWithItsHandle /\ OnlyCommittedSurvives
  BY <1>2 DEF Init, EndsWithItsHandle, OnlyCommittedSurvives
<1> QED
  BY <1>1, <1>2, <1>3, <1>4, <1>5 DEF IInv, Shape, Init

LEMMA CheckoutStep == ASSUME IInv, NEW s \in Sessions, Checkout(s) PROVE IInv'
<1>1. TypeOK'
  BY DEF IInv, TypeOK, Checkout, Goto, Free, Places, Held, server
<1>2. Shape' /\ Pos' = Pos /\ Ending' = Ending
  BY DEF IInv, Shape, Checkout, server, Pos, Ending
<1>3. OneHolder'
  BY DEF IInv, OneHolder, Checkout, Free
<1>4. Life'
  BY DEF IInv, TypeOK, Life, Checkout, Goto, server
<1>5. Lined'
  BY <1>2 DEF IInv, TypeOK, Life, Shape, Requests, Lined, LinedAt, Checkout, Goto, server
<1>6. Awaiting'
  BY <1>2 DEF IInv, TypeOK, Awaiting, AwaitingAt, Checkout, Goto, server
<1>7. Pending'
  BY <1>2 DEF IInv, TypeOK, Pending, Checkout, Goto, server
<1>8. EndsWithItsHandle' /\ OnlyCommittedSurvives'
  BY <1>1 DEF IInv, EndsWithItsHandle, OnlyCommittedSurvives, Checkout, server
<1> QED
  BY <1>1, <1>2, <1>3, <1>4, <1>5, <1>6, <1>7, <1>8 DEF IInv

LEMMA BegunStep == ASSUME IInv, NEW s \in Sessions, Begun(s) PROVE IInv'
<1> USE TransactionAssumption
<1>1. TypeOK'
  <2>1. \A t \in Sessions : t # s => at[t] \notin Held
    BY DEF IInv, TypeOK, OneHolder, Begun, Held
  <2>2. /\ at' \in [Sessions -> Places] /\ holds' \subseteq Sessions \X {"handle", "stream"}
        /\ \A t \in Sessions : <<t, "handle">> \in holds' <=> at'[t] \in Held
    BY <2>1 DEF IInv, TypeOK, Begun, Goto, Places, Held
  <2> QED
    BY <2>2 DEF IInv, TypeOK, Begun, server
<1>2. Shape' /\ Pos' = Pos /\ Ending' = Ending
  BY DEF IInv, Shape, Begun, server, Pos, Ending
<1>3. OneHolder'
  BY DEF IInv, TypeOK, OneHolder, Begun, Goto, Free
<1>4. Life'
  BY DEF IInv, TypeOK, Life, Begun, Goto, server
<1>5. Lined'
  BY <1>2 DEF IInv, TypeOK, Life, Shape, Requests, Lined, LinedAt, Awaiting, AwaitingAt, Begun, Goto, server
<1>6. Awaiting'
  BY <1>2 DEF IInv, TypeOK, Life, Awaiting, AwaitingAt, Begun, Goto, server
<1>7. Pending'
  BY <1>2 DEF IInv, TypeOK, Life, Pending, Awaiting, AwaitingAt, Begun, Goto, server
<1>9. EndsWithItsHandle' /\ OnlyCommittedSurvives'
  BY <1>1 DEF IInv, TypeOK, Life, EndsWithItsHandle, OnlyCommittedSurvives, Begun, server
<1> QED
  BY <1>1, <1>2, <1>3, <1>4, <1>5, <1>6, <1>7, <1>9 DEF IInv

LEMMA CancelBeginStep == ASSUME IInv, NEW s \in Sessions, CancelBegin(s) PROVE IInv'
<1> USE TransactionAssumption
<1>1. TypeOK'
  <2>1. \A t \in Sessions : t # s => at[t] \notin Held
    BY DEF IInv, TypeOK, OneHolder, CancelBegin, Held
  <2>2. /\ at' \in [Sessions -> Places] /\ holds' \subseteq Sessions \X {"handle", "stream"}
        /\ \A t \in Sessions : <<t, "handle">> \in holds' <=> at'[t] \in Held
    BY <2>1 DEF IInv, TypeOK, CancelBegin, Goto, Places, Held
  <2> QED
    BY <2>2 DEF IInv, TypeOK, CancelBegin, server
<1>2. Shape' /\ Pos' = Pos /\ Ending' = Ending
  BY DEF IInv, Shape, CancelBegin, server, Pos, Ending
<1>3. OneHolder'
  BY DEF IInv, TypeOK, OneHolder, CancelBegin, Goto, Free
<1>4. Life'
  BY DEF IInv, TypeOK, Life, CancelBegin, Goto, server
<1>5. Lined'
  BY <1>2 DEF IInv, TypeOK, Life, Shape, Requests, Lined, LinedAt, Awaiting, AwaitingAt, CancelBegin, Goto, server
<1>6. Awaiting'
  BY <1>2 DEF IInv, TypeOK, Life, Awaiting, AwaitingAt, CancelBegin, Goto, server
<1>7. Pending'
  BY <1>2 DEF IInv, TypeOK, Life, Pending, Awaiting, AwaitingAt, CancelBegin, Goto, server
<1>9. EndsWithItsHandle' /\ OnlyCommittedSurvives'
  BY <1>1 DEF IInv, TypeOK, Life, EndsWithItsHandle, OnlyCommittedSurvives, CancelBegin, server
<1> QED
  BY <1>1, <1>2, <1>3, <1>4, <1>5, <1>6, <1>7, <1>9 DEF IInv

LEMMA EndStreamStep == ASSUME IInv, NEW s \in Sessions, EndStream(s) PROVE IInv'
<1> USE TransactionAssumption
<1>1. TypeOK'
  BY DEF IInv, TypeOK, OneHolder, Life, EndStream, Goto, Free, Places, Held, server
<1>2. Shape' /\ Pos' = Pos /\ Ending' = Ending
  BY DEF IInv, Shape, EndStream, server, Pos, Ending
<1>3. OneHolder'
  BY DEF IInv, TypeOK, OneHolder, EndStream, Goto, Free
<1>4. Life'
  BY DEF IInv, TypeOK, Life, EndStream, Goto, server
<1>5. Lined'
  BY <1>2 DEF IInv, TypeOK, Life, Shape, Requests, Lined, LinedAt, Awaiting, AwaitingAt, EndStream, Goto, server
<1>6. Awaiting'
  BY <1>2 DEF IInv, TypeOK, Life, Awaiting, AwaitingAt, EndStream, Goto, server
<1>7. Pending'
  BY <1>2 DEF IInv, TypeOK, Life, Pending, Awaiting, AwaitingAt, EndStream, Goto, server
<1>9. EndsWithItsHandle' /\ OnlyCommittedSurvives'
  BY <1>1 DEF IInv, TypeOK, Life, EndsWithItsHandle, OnlyCommittedSurvives, EndStream, server
<1> QED
  BY <1>1, <1>2, <1>3, <1>4, <1>5, <1>6, <1>7, <1>9 DEF IInv

LEMMA FinishedStep == ASSUME IInv, NEW s \in Sessions, Finished(s) PROVE IInv'
<1> USE TransactionAssumption
<1>1. TypeOK'
  BY DEF IInv, TypeOK, OneHolder, Life, Finished, Goto, Free, Places, Held, server
<1>2. Shape' /\ Pos' = Pos /\ Ending' = Ending
  BY DEF IInv, Shape, Finished, server, Pos, Ending
<1>3. OneHolder'
  BY DEF IInv, TypeOK, OneHolder, Finished, Goto, Free
<1>4. Life'
  BY DEF IInv, TypeOK, Life, Finished, Goto, server
<1>5. Lined'
  BY <1>2 DEF IInv, TypeOK, Life, Shape, Requests, Lined, LinedAt, Awaiting, AwaitingAt, Finished, Goto, server
<1>6. Awaiting'
  BY <1>2 DEF IInv, TypeOK, Life, Awaiting, AwaitingAt, Finished, Goto, server
<1>7. Pending'
  BY <1>2 DEF IInv, TypeOK, Life, Pending, Awaiting, AwaitingAt, Finished, Goto, server
<1>9. EndsWithItsHandle' /\ OnlyCommittedSurvives'
  BY <1>1 DEF IInv, TypeOK, Life, EndsWithItsHandle, OnlyCommittedSurvives, Finished, server
<1> QED
  BY <1>1, <1>2, <1>3, <1>4, <1>5, <1>6, <1>7, <1>9 DEF IInv

LEMMA DropPlainStep == ASSUME IInv, NEW s \in Sessions, DropPlain(s) PROVE IInv'
<1> USE TransactionAssumption
<1>1. TypeOK'
  BY DEF IInv, TypeOK, OneHolder, Life, DropPlain, Goto, Free, Places, Held, server
<1>2. Shape' /\ Pos' = Pos /\ Ending' = Ending
  BY DEF IInv, Shape, DropPlain, server, Pos, Ending
<1>3. OneHolder'
  BY DEF IInv, TypeOK, OneHolder, DropPlain, Goto, Free
<1>4. Life'
  BY DEF IInv, TypeOK, Life, DropPlain, Goto, server
<1>5. Lined'
  BY <1>2 DEF IInv, TypeOK, Life, Shape, Requests, Lined, LinedAt, Awaiting, AwaitingAt, DropPlain, Goto, server
<1>6. Awaiting'
  BY <1>2 DEF IInv, TypeOK, Life, Awaiting, AwaitingAt, DropPlain, Goto, server
<1>7. Pending'
  BY <1>2 DEF IInv, TypeOK, Life, Pending, Awaiting, AwaitingAt, DropPlain, Goto, server
<1>9. EndsWithItsHandle' /\ OnlyCommittedSurvives'
  BY <1>1 DEF IInv, TypeOK, Life, EndsWithItsHandle, OnlyCommittedSurvives, DropPlain, server
<1> QED
  BY <1>1, <1>2, <1>3, <1>4, <1>5, <1>6, <1>7, <1>9 DEF IInv

LEMMA BeginStep == ASSUME IInv, NEW s \in Sessions, Begin(s) PROVE IInv'
<1>1. "BEGIN" \in {"BEGIN", "STATEMENT"} \cup Ends /\ Enqueues("BEGIN", s)
  BY DEF IInv, TypeOK, Begin, Enqueues, Goto, Await, Free, Places, Held, Ends, server
<1>2. OneHolder'
  BY DEF IInv, TypeOK, OneHolder, Begin, Goto, Held, Free
<1>3. /\ holds' \subseteq Sessions \X {"handle", "stream"}
      /\ \A t \in Sessions : <<t, "handle">> \in holds' <=> at'[t] \in Held
  BY DEF IInv, TypeOK, Begin, Goto, Held, Free
<1> QED
  BY <1>1, <1>2, <1>3, EnqueueStep

LEMMA ExecuteStep == ASSUME IInv, NEW s \in Sessions, Execute(s) PROVE IInv'
<1>1. "STATEMENT" \in {"BEGIN", "STATEMENT"} \cup Ends /\ Enqueues("STATEMENT", s)
  BY DEF IInv, TypeOK, Execute, Enqueues, Goto, Await, Places, Held, Ends, server
<1>2. OneHolder'
  BY DEF IInv, TypeOK, OneHolder, Execute, Goto, Held
<1>3. /\ holds' \subseteq Sessions \X {"handle", "stream"}
      /\ \A t \in Sessions : <<t, "handle">> \in holds' <=> at'[t] \in Held
  BY DEF IInv, TypeOK, Execute, Goto, Held
<1> QED
  BY <1>1, <1>2, <1>3, EnqueueStep

LEMMA FetchStep == ASSUME IInv, NEW s \in Sessions, Fetch(s) PROVE IInv'
<1>1. "STATEMENT" \in {"BEGIN", "STATEMENT"} \cup Ends /\ Enqueues("STATEMENT", s)
  BY DEF IInv, TypeOK, Fetch, Enqueues, Goto, Await, Places, Held, Ends, server
<1>2. OneHolder'
  BY DEF IInv, TypeOK, OneHolder, Fetch, Goto, Held
<1>3. /\ holds' \subseteq Sessions \X {"handle", "stream"}
      /\ \A t \in Sessions : <<t, "handle">> \in holds' <=> at'[t] \in Held
  BY DEF IInv, TypeOK, Fetch, Goto, Held
<1> QED
  BY <1>1, <1>2, <1>3, EnqueueStep

LEMMA FinishStep == ASSUME IInv, NEW s \in Sessions, NEW op \in Ends, Finish(s, op) PROVE IInv'
<1>1. op \in {"BEGIN", "STATEMENT"} \cup Ends /\ Enqueues(op, s)
  BY DEF IInv, TypeOK, Finish, Enqueues, Goto, Await, Places, Held, Ends, server
<1>2. OneHolder'
  BY DEF IInv, TypeOK, OneHolder, Finish, Goto, Held
<1>3. /\ holds' \subseteq Sessions \X {"handle", "stream"}
      /\ \A t \in Sessions : <<t, "handle">> \in holds' <=> at'[t] \in Held
  BY DEF IInv, TypeOK, Finish, Goto, Held
<1> QED
  BY <1>1, <1>2, <1>3, EnqueueStep

LEMMA DropTransactionStep == ASSUME IInv, NEW s \in Sessions, DropTransaction(s) PROVE IInv'
<1>1. "ROLLBACK" \in {"BEGIN", "STATEMENT"} \cup Ends /\ Enqueues("ROLLBACK", s)
  BY DEF IInv, TypeOK, DropTransaction, Enqueues, Goto, Await, Places, Held, Ends, server
<1>2. OneHolder'
  BY DEF IInv, TypeOK, OneHolder, DropTransaction, Goto, Held
<1>3. /\ holds' \subseteq Sessions \X {"handle", "stream"}
      /\ \A t \in Sessions : <<t, "handle">> \in holds' <=> at'[t] \in Held
  BY DEF IInv, TypeOK, DropTransaction, Goto, Held
<1> QED
  BY <1>1, <1>2, <1>3, EnqueueStep

-----------------------------------------------------------------------------
(* The actor runs the request at the head of the queue. *)

\* Whose transaction is open, or has work in it, is the head's session, if it
\* got its Transaction at all and the transaction was not left aborted.
LEMMA HeadOwns ==
  ASSUME IInv, 1 \in Pos, NEW s \in begun, txn = s \/ s \in work, ~(s \in left /\ failed)
  PROVE  queue[1].by = s
<1>1. CASE at[s] = "open"
  BY <1>1 DEF IInv, TypeOK, Awaiting, AwaitingAt
<1>2. CASE s \in Ending
  <2>1. PICK i \in Pos : queue[i].by = s
    BY <1>2 DEF Ending
  <2> QED
    BY <2>1 DEF IInv, Lined, LinedAt, Pos
<1> QED
  BY <1>1, <1>2 DEF IInv, Pending

\* What is left of the queue is in line, as far as the server's transaction is
\* still open for whoever needs it.
LEMMA LinedAhead ==
  ASSUME IInv, queue # <<>>, queue' = Tail(queue), UNCHANGED <<at, begun, asked>>,
         txn # None => txn' # None \/ queue[1].op \in Ends
  PROVE  Lined'
<1>q. /\ queue' \in Seq(Requests) /\ Len(queue) \in Nat /\ 1 \in Pos
      /\ Len(queue') = Len(queue) - 1
      /\ \A i \in Pos' : i + 1 \in Pos /\ queue'[i] = queue[i + 1]
  BY Dequeued DEF IInv
<1> SUFFICES ASSUME NEW i \in Pos' PROVE LinedAt(i)'
  BY DEF Lined
<1> DEFINE b == queue[i + 1].by
<1>0. /\ i + 1 \in Pos /\ queue'[i] = queue[i + 1] /\ LinedAt(i + 1) /\ LinedAt(1)
      /\ i \in Nat /\ b \in Sessions
  <2>1. i + 1 \in Pos /\ queue'[i] = queue[i + 1] /\ i \in Nat
    BY <1>q DEF Pos
  <2>2. queue[i + 1] \in Requests
    BY <1>q, <2>1 DEF IInv, Shape, Pos
  <2> QED
    BY <1>q, <2>1, <2>2 DEF IInv, Lined, Requests
<1>1. b \in begun => queue[1].by = b
  BY <1>0, <1>q DEF LinedAt, Pos
<1>2. queue[i + 1].op = "STATEMENT" /\ b \in begun =>
        queue[1].op \notin Ends /\ (at[b] = "open" \/ b \in Ending')
  <2> SUFFICES ASSUME queue[i + 1].op = "STATEMENT", b \in begun
               PROVE  queue[1].op \notin Ends /\ (at[b] = "open" \/ b \in Ending')
    OBVIOUS
  <2>1. queue[1].op \notin Ends
    BY <1>0, <1>1, <1>q DEF LinedAt, Pos, Ends
  <2>2. CASE b \in Ending
    <3>1. PICK k \in Pos : queue[k].by = b /\ queue[k].op \in Ends
      BY <2>2 DEF Ending
    <3>2. k # 1 /\ k \in Nat
      BY <2>1, <3>1 DEF Pos
    <3>3. k - 1 \in Pos' /\ queue'[k - 1] = queue[k]
      BY <1>q, <3>2 DEF Pos
    <3> QED
      BY <1>0, <2>1, <3>1, <3>3 DEF Ending
  <2> QED
    BY <1>0, <2>1, <2>2 DEF LinedAt
<1>3. b \in begun => \A j \in 1..i : queue'[j].by = b
  <2> SUFFICES ASSUME b \in begun, NEW j \in 1..i PROVE queue'[j].by = b
    OBVIOUS
  <2>1. j \in Pos' /\ j + 1 \in 1..(i + 1)
    BY <1>0, <1>q DEF Pos
  <2> QED
    BY <1>0, <1>q, <2>1 DEF LinedAt
<1>4. queue[i + 1].op \in Ends =>
        \A j \in Pos' : j > i /\ queue'[j].by = b => queue'[j].op \in Ends
  <2> SUFFICES ASSUME queue[i + 1].op \in Ends, NEW j \in Pos', j > i, queue'[j].by = b
               PROVE  queue'[j].op \in Ends
    OBVIOUS
  <2>1. j + 1 \in Pos /\ j + 1 > i + 1 /\ queue'[j] = queue[j + 1]
    BY <1>0, <1>q DEF Pos
  <2> QED
    BY <1>0, <2>1 DEF LinedAt
<1>5. queue[i + 1].op = "STATEMENT" /\ b \in begun => txn' # None
  BY <1>0, <1>2 DEF LinedAt
<1> QED
  BY <1>0, <1>2, <1>3, <1>4, <1>5 DEF LinedAt

\* What every run of a request has in common; b is whose request it is.
RunFacts(b) ==
  /\ queue' \in Seq(Requests) /\ Len(queue) \in Nat /\ 1 \in Pos
  /\ Len(queue') = Len(queue) - 1
  /\ \A i \in Pos' : i + 1 \in Pos /\ queue'[i] = queue[i + 1]
  /\ queue[1].by = b /\ b \in Sessions /\ LinedAt(1)
  /\ UNCHANGED <<at, holds, begun, asked>>
  /\ OneHolder'
  /\ \A s \in Sessions : at[s] \in {"open", "commit", "rollback"} => s = b
  /\ \A s \in Sessions : at[s] \in {"begin", "commit", "rollback"} => reply[s] = "none"
  /\ \A s \in begun : txn = s \/ s \in work => s = b \/ (s \in left /\ failed)

LEMMA RunHasFacts == ASSUME IInv, Run PROVE RunFacts(Head(queue).by)
<1>1. queue # <<>> /\ queue' = Tail(queue) /\ UNCHANGED <<at, holds, begun, asked>>
  BY DEF Run
<1>2. /\ queue' \in Seq(Requests) /\ Len(queue) \in Nat /\ 1 \in Pos
      /\ Len(queue') = Len(queue) - 1
      /\ \A i \in Pos' : i + 1 \in Pos /\ queue'[i] = queue[i + 1]
      /\ Head(queue) = queue[1] /\ queue[1] \in Requests
  BY <1>1, Dequeued DEF IInv
<1>3. OneHolder'
  BY <1>1 DEF IInv, OneHolder
<1>4. queue[1].by \in Sessions /\ LinedAt(1)
  BY <1>2 DEF IInv, Lined, Requests
<1>5. \A s \in begun : txn = s \/ s \in work => s = queue[1].by \/ (s \in left /\ failed)
  BY <1>2, HeadOwns
<1>6. /\ \A s \in Sessions : at[s] \in {"open", "commit", "rollback"} => s = queue[1].by
      /\ \A s \in Sessions : at[s] \in {"begin", "commit", "rollback"} => reply[s] = "none"
  BY <1>2 DEF IInv, Awaiting, AwaitingAt
<1> QED
  BY <1>1, <1>2, <1>3, <1>4, <1>5, <1>6 DEF RunFacts

\* The type invariant after a run, given what the server has become.
LEMMA RunTyped ==
  ASSUME IInv, NEW b, RunFacts(b),
         reply' \in [Sessions -> {"none", "ok", "err"}],
         txn' \in Sessions \cup {None}, failed' \in BOOLEAN, txn' = None => work' = {} /\ ~failed',
         committed' \subseteq Sessions, left' \subseteq Sessions,
         work' \subseteq Sessions, aligned' \in BOOLEAN
  PROVE  TypeOK' /\ Shape'
<1>1. Len(queue') <= MaxQueue
  BY TransactionAssumption DEF IInv, TypeOK, RunFacts
<1>2. \A i \in DOMAIN queue' : queue'[i].by \in Sessions
  <2>1. \A i \in DOMAIN queue' : queue'[i] \in Requests
    BY DEF RunFacts
  <2> QED
    BY <2>1 DEF Requests
<1> QED
  BY <1>1, <1>2 DEF IInv, TypeOK, Shape, RunFacts

\* While no COMMIT or ROLLBACK is run, those that wait go on waiting.
LEMMA EndingAhead ==
  ASSUME IInv, NEW b, RunFacts(b), queue[1].op \notin Ends PROVE Ending' = Ending
<1>1. \A k \in Pos : k # 1 => k - 1 \in Pos' /\ queue'[k - 1] = queue[k]
  BY DEF RunFacts, Pos
<1>2. \A k \in Pos : queue[k].op \in Ends => k # 1
  OBVIOUS
<1>3. Ending \subseteq Ending'
  BY <1>1, <1>2 DEF Ending
<1>4. Ending' \subseteq Ending
  BY DEF Ending, RunFacts
<1> QED
  BY <1>3, <1>4

\* How the queue looks to the others as the head is run.
LEMMA AwaitingAhead ==
  ASSUME IInv, NEW b, RunFacts(b),
         \A t \in Sessions : t # b => reply'[t] = reply[t],
         reply'[b] = reply[b] \/ at[b] \notin {"begin", "commit", "rollback"} \/ Pos' = {},
         at[b] = "open" => txn' # None
  PROVE  Awaiting'
<1> SUFFICES ASSUME NEW t \in Sessions PROVE AwaitingAt(t)'
  BY DEF Awaiting
<1>1. /\ AwaitingAt(t) /\ at'[t] = at[t] /\ Len(queue) \in Nat /\ Len(queue') = Len(queue) - 1
      /\ \A i \in Pos' : i + 1 \in Pos /\ queue'[i] = queue[i + 1] /\ i \in Nat
  BY DEF IInv, Awaiting, RunFacts, Pos
<1>2. t # b => at[t] \notin {"open", "commit", "rollback"}
  BY DEF RunFacts
<1>3. at[t] = "begin" =>
        IF reply'[t] = "none" THEN \A i \in Pos' : queue'[i].by = t => i = Len(queue')
                              ELSE Pos' = {}
  <2>1. CASE Pos' = {}
    BY <2>1
  <2>2. CASE at[t] = "begin" /\ reply'[t] = reply[t]
    <3>1. reply[t] = "none"
      BY <2>2 DEF RunFacts
    <3>2. \A i \in Pos' : queue'[i].by = t => i + 1 = Len(queue)
      BY <1>1, <2>2, <3>1 DEF AwaitingAt
    <3> QED
      BY <1>1, <2>2, <3>1, <3>2
  <2> QED
    BY <2>1, <2>2
<1>4. at[t] \in {"commit", "rollback"} =>
        IF reply'[t] = "none" THEN \A i \in Pos' : queue'[i].op \in Ends => i = Len(queue')
                              ELSE Pos' = {}
  <2>1. CASE Pos' = {}
    BY <2>1
  <2>2. CASE at[t] \in {"commit", "rollback"} /\ reply'[t] = reply[t]
    <3>1. reply[t] = "none"
      BY <2>2 DEF RunFacts
    <3>2. \A i \in Pos' : queue'[i].op \in Ends => i + 1 = Len(queue)
      BY <1>1, <2>2, <3>1 DEF AwaitingAt
    <3> QED
      BY <1>1, <2>2, <3>1, <3>2
  <2> QED
    BY <2>1, <2>2
<1>5. at[t] = "open" => txn' # None
  BY <1>2
<1>6. /\ at[t] \in {"open", "commit", "rollback"} => \A i \in Pos' : queue'[i].by = t
      /\ at[t] = "open" => \A i \in Pos' : queue'[i].op = "STATEMENT"
      /\ at[t] = "commit" => \A i \in Pos' : queue'[i].op # "ROLLBACK"
      /\ at[t] = "committed" => \A i \in Pos' : queue'[i].by # t
  BY <1>1 DEF AwaitingAt
<1> QED
  BY <1>1, <1>3, <1>4, <1>5, <1>6 DEF AwaitingAt

LEMMA RunBeginStep ==
  ASSUME IInv, aligned, NEW b, RunFacts(b), Lined', queue[1].op = "BEGIN",
         NEW f \in Aborted, RunBegin(b, f), UNCHANGED <<left, aligned>>
  PROVE  IInv'
<1> USE TransactionAssumption
<1>0. /\ b \notin begun /\ at[b] \in {"begin", "over"} /\ b \in Sessions
      /\ \A s \in Sessions : at[s] \notin {"open", "commit", "rollback"}
      /\ \A s \in begun : txn = s \/ s \in work => s \in left /\ failed
      /\ at[b] = "begin" => Pos' = {}
  <2>1. b \notin begun /\ at[b] \in {"begin", "over"} /\ b \in Sessions
    BY DEF RunFacts, LinedAt
  <2>2. at[b] = "begin" => Pos' = {}
    BY <2>1 DEF IInv, Awaiting, AwaitingAt, RunFacts, Pos
  <2> QED
    BY <2>1, <2>2 DEF IInv, Life, RunFacts
<1>f. f \in BOOLEAN /\ (failed => f) /\ (txn = None => ~f) /\ failed' = f
  BY DEF IInv, TypeOK, Aborted, RunBegin
<1>r. /\ reply' = [reply EXCEPT ![b] = IF f THEN "err" ELSE "ok"]
      /\ txn' = (IF txn = None THEN b ELSE txn) /\ UNCHANGED <<work, committed, ran>>
  BY DEF RunBegin, Answer
<1>1. TypeOK' /\ Shape'
  <2>1. /\ reply' \in [Sessions -> {"none", "ok", "err"}]
        /\ txn' \in Sessions \cup {None} /\ txn' # None
    BY <1>0, <1>r DEF IInv, TypeOK
  <2>2. /\ committed' \subseteq Sessions /\ left' \subseteq Sessions
        /\ work' \subseteq Sessions /\ aligned' \in BOOLEAN
    BY <1>r DEF IInv, TypeOK, Shape
  <2> QED
    BY <1>f, <2>1, <2>2, RunTyped
<1>2. Life'
  BY <1>0, <1>f, <1>r DEF IInv, TypeOK, Life, RunFacts
<1>3. Awaiting'
  <2>1. \A t \in Sessions : t # b => reply'[t] = reply[t]
    BY <1>0, <1>r DEF IInv, TypeOK
  <2> QED
    BY <1>0, <2>1, AwaitingAhead
<1>4. Pending'
  BY <1>0, <1>f, <1>r DEF Pending, RunFacts
<1>6. EndsWithItsHandle' /\ OnlyCommittedSurvives'
  BY <1>1, <1>r DEF IInv, EndsWithItsHandle, OnlyCommittedSurvives, RunFacts
<1> QED
  BY <1>1, <1>2, <1>3, <1>4, <1>6 DEF IInv, RunFacts

LEMMA RunStatementStep ==
  ASSUME IInv, aligned, NEW b, RunFacts(b), Lined', queue[1].op = "STATEMENT",
         NEW f \in Aborted, RunStatement(b, f), UNCHANGED <<left, aligned>>
  PROVE  IInv'
<1> USE TransactionAssumption
<1>0. /\ b \in Sessions /\ at[b] \notin {"out", "begin", "committed"}
      /\ b \in begun => txn # None /\ (at[b] = "open" \/ b \in Ending)
      /\ UNCHANGED <<reply, txn>> /\ Ending' = Ending
      /\ ran' = [by |-> b, in |-> txn, did |-> ~f]
  <2>1. Ending' = Ending
    BY EndingAhead DEF Ends
  <2> QED
    BY <2>1 DEF IInv, Awaiting, AwaitingAt, RunFacts, LinedAt, RunStatement
<1>f. f \in BOOLEAN /\ (failed => f) /\ (txn = None => ~f) /\ failed' = f
  BY DEF IInv, TypeOK, Aborted, RunStatement
<1>1. TypeOK' /\ Shape'
  <2>1. /\ committed' \subseteq Sessions /\ work' \subseteq Sessions
        /\ left' \subseteq Sessions /\ aligned' \in BOOLEAN
        /\ txn = None => work' = {}
    BY <1>0 DEF IInv, TypeOK, Shape, RunStatement
  <2>2. reply' \in [Sessions -> {"none", "ok", "err"}] /\ txn' \in Sessions \cup {None}
    BY <1>0 DEF IInv, TypeOK
  <2> QED
    BY <1>0, <1>f, <2>1, <2>2, RunTyped
<1>2. Life'
  BY <1>0 DEF IInv, TypeOK, Life, RunFacts, RunStatement
<1>3. Awaiting'
  <2>1. at[b] = "open" => txn' # None
    BY <1>0 DEF IInv, Awaiting, AwaitingAt
  <2> QED
    BY <1>0, <2>1, AwaitingAhead
<1>4. Pending'
  BY <1>0, <1>f DEF IInv, Pending, RunFacts, RunStatement
<1>5. EndsWithItsHandle'
  <2>1. txn \in begun /\ txn # b => txn \in left /\ f
    BY <1>f DEF RunFacts
  <2> QED
    BY <1>0, <1>1, <2>1 DEF EndsWithItsHandle, RunFacts
<1>6. OnlyCommittedSurvives'
  BY <1>0 DEF IInv, OnlyCommittedSurvives, RunFacts, RunStatement
<1> QED
  BY <1>1, <1>2, <1>3, <1>4, <1>5, <1>6 DEF IInv, RunFacts

\* Where the session of a COMMIT or ROLLBACK is.
LEMMA EndingHead ==
  ASSUME IInv, NEW b, RunFacts(b), queue[1].op \in Ends
  PROVE  /\ b \in begun /\ b \in Sessions
         /\ at[b] \notin {"out", "begin", "plain", "open", "committed"}
         /\ queue[1].op = "COMMIT" => b \in asked
         /\ at[b] \in {"commit", "rollback"} => Pos' = {}
<1>1. b \in begun /\ b \in Sessions /\ (queue[1].op = "COMMIT" => b \in asked)
  BY DEF IInv, TypeOK, RunFacts, LinedAt, Ends
<1>2. at[b] \notin {"out", "begin", "plain", "open", "committed"}
  BY <1>1 DEF IInv, Life, Awaiting, AwaitingAt, RunFacts, Ends
<1>3. at[b] \in {"commit", "rollback"} => Pos' = {}
  BY <1>1 DEF IInv, Awaiting, AwaitingAt, RunFacts, Pos
<1> QED
  BY <1>1, <1>2, <1>3

LEMMA RunEndStep ==
  ASSUME IInv, aligned, NEW b, RunFacts(b), Lined', queue[1].op \in Ends, NEW f \in Aborted,
         IF queue[1].op = "COMMIT" THEN RunCommit(b, f) ELSE RunRollback(b, f),
         UNCHANGED <<left, aligned>>
  PROVE  IInv'
<1> USE TransactionAssumption
<1>0. /\ b \in begun /\ b \in Sessions /\ at[b] \notin {"out", "begin", "plain", "open", "committed"}
      /\ queue[1].op = "COMMIT" => b \in asked
      /\ at[b] \in {"commit", "rollback"} => Pos' = {}
  BY EndingHead
<1>f. f \in BOOLEAN /\ (failed => f)
  BY DEF IInv, TypeOK, Aborted
<1>1. /\ txn' = None /\ failed' = FALSE /\ work' = {} /\ UNCHANGED ran
      /\ committed \subseteq committed' /\ committed' \subseteq committed \cup work
      /\ committed' # committed => queue[1].op = "COMMIT" /\ ~failed
      /\ reply' \in [Sessions -> {"none", "ok", "err"}] /\ reply'[b] # "none"
      /\ \A s \in Sessions : s # b => reply'[s] = reply[s]
  BY <1>0, <1>f DEF IInv, TypeOK, RunCommit, RunRollback, CloseTxn, Answer
<1>2. TypeOK' /\ Shape'
  BY <1>1, RunTyped DEF IInv, TypeOK, Shape
<1>3. Life'
  BY <1>0, <1>1 DEF IInv, TypeOK, Life, RunFacts
<1>4. Awaiting'
  BY <1>0, <1>1, AwaitingAhead
<1>5. Pending'
  BY <1>1 DEF IInv, TypeOK, Pending, RunFacts
<1>6. EndsWithItsHandle'
  BY <1>1, <1>2 DEF IInv, EndsWithItsHandle, RunFacts
<1>7. OnlyCommittedSurvives'
  BY <1>0, <1>1 DEF IInv, OnlyCommittedSurvives, RunFacts
<1> QED
  BY <1>2, <1>3, <1>4, <1>5, <1>6, <1>7 DEF IInv, RunFacts

\* A request the server refuses.
LEMMA NotRunStep ==
  ASSUME IInv, aligned, NEW b, RunFacts(b), Lined', NotRun(queue[1]), aligned' PROVE IInv'
<1> USE TransactionAssumption
<1>0. /\ b \in Sessions /\ UNCHANGED <<txn, work, committed, aligned>>
      /\ failed' = (txn # None)
      /\ left' = IF queue[1].op \in Ends THEN left \cup {b} ELSE left
      /\ IF queue[1].op = "STATEMENT"
           THEN ran' = [by |-> b, in |-> txn, did |-> FALSE] /\ reply' = reply
           ELSE ran' = ran /\ reply' = [reply EXCEPT ![b] = "err"]
  BY DEF RunFacts, NotRun, Answer, Ends
<1>1. TypeOK' /\ Shape'
  <2>1. /\ reply' \in [Sessions -> {"none", "ok", "err"}] /\ txn' \in Sessions \cup {None}
        /\ failed' \in BOOLEAN /\ (txn' = None => work' = {} /\ ~failed')
    BY <1>0 DEF IInv, TypeOK
  <2>2. /\ committed' \subseteq Sessions /\ left' \subseteq Sessions
        /\ work' \subseteq Sessions /\ aligned' \in BOOLEAN
    BY <1>0 DEF IInv, TypeOK, Shape
  <2> QED
    BY <2>1, <2>2, RunTyped
<1>2. /\ \A t \in Sessions : t # b => reply'[t] = reply[t]
      /\ reply'[b] \in {reply[b], "err"}
  BY <1>0 DEF IInv, TypeOK
<1>3. Life'
  <2>1. ran'.in \in {ran.in, txn}
    BY <1>0
  <2>2. \A s \in Sessions : at[s] = "begin" => reply[s] = "none" /\ reply'[s] # "ok"
    BY <1>2 DEF RunFacts
  <2>3. \A s \in Sessions : at[s] = "out" => reply'[s] = "none"
    <3>1. at[b] # "out"
      <4>1. queue[1] \in Requests
        BY DEF IInv, Shape, RunFacts, Pos
      <4>2. queue[1].op \in {"BEGIN", "STATEMENT"} \/ b \in begun
        BY <4>1 DEF IInv, TypeOK, RunFacts, LinedAt, Requests, Ends
      <4> QED
        BY <4>2 DEF IInv, Life, RunFacts, LinedAt
    <3> QED
      BY <1>2, <3>1 DEF IInv, Life
  <2>4. \A s \in Sessions : at[s] \in {"out", "begin"} => ran.in # s /\ txn # s
    BY <2>2 DEF IInv, Life
  <2> QED
    BY <1>0, <2>1, <2>2, <2>3, <2>4 DEF IInv, Life, RunFacts
<1>4. Awaiting'
  <2>1. reply'[b] = reply[b] \/ at[b] \notin {"begin", "commit", "rollback"} \/ Pos' = {}
    <3>1. CASE queue[1].op = "STATEMENT"
      BY <1>0, <3>1
    <3>2. CASE queue[1].op = "BEGIN"
      <4>1. at[b] \in {"begin", "over"}
        BY <3>2 DEF RunFacts, LinedAt
      <4>2. at[b] = "begin" => Pos' = {}
        BY <4>1 DEF IInv, Awaiting, AwaitingAt, RunFacts, Pos
      <4> QED
        BY <4>1, <4>2
    <3>3. CASE queue[1].op \in Ends
      BY <3>3, EndingHead
    <3>4. queue[1] \in Requests
      BY DEF IInv, Shape, RunFacts, Pos
    <3> QED
      BY <3>1, <3>2, <3>3, <3>4 DEF Requests
  <2>2. at[b] = "open" => txn' # None
    BY <1>0 DEF IInv, Awaiting, AwaitingAt
  <2> QED
    BY <1>2, <2>1, <2>2, AwaitingAhead
<1>5. Pending'
  <2> SUFFICES ASSUME NEW s \in begun, txn = s \/ s \in work
               PROVE  at[s] = "open" \/ s \in Ending' \/ (s \in left' /\ failed')
    BY <1>0 DEF Pending, RunFacts
  <2>1. failed'
    BY <1>0 DEF IInv, TypeOK
  <2>2. CASE s # b
    BY <1>0, <2>1, <2>2 DEF RunFacts
  <2>3. CASE s = b /\ queue[1].op \in Ends
    BY <1>0, <2>1, <2>3
  <2>4. CASE queue[1].op \notin Ends
    <3>1. Ending' = Ending /\ left' = left
      BY <1>0, <2>4, EndingAhead
    <3> QED
      BY <2>1, <3>1 DEF IInv, Pending
  <2> QED
    BY <2>2, <2>3, <2>4
<1>6. EndsWithItsHandle'
  <2>1. txn \in begun /\ txn # b => txn \in left
    BY DEF RunFacts
  <2> QED
    BY <1>0, <1>1, <2>1 DEF IInv, EndsWithItsHandle, RunFacts
<1>7. OnlyCommittedSurvives'
  BY <1>0 DEF IInv, OnlyCommittedSurvives, RunFacts
<1> QED
  BY <1>1, <1>3, <1>4, <1>5, <1>6, <1>7 DEF IInv, RunFacts

LEMMA RunStep == ASSUME IInv, aligned, Run, aligned' PROVE IInv'
<1> DEFINE b == Head(queue).by
<1>1. RunFacts(b) /\ queue # <<>> /\ queue' = Tail(queue) /\ Head(queue) = queue[1]
  BY RunHasFacts, Dequeued DEF IInv, Run
<1>2. UNCHANGED <<at, begun, asked>>
  BY DEF Run
<1> HIDE DEF b
<1>3. ASSUME NEW f \in Aborted, queue[1].op = "BEGIN", RunBegin(b, f), UNCHANGED <<left, aligned>>
      PROVE  IInv'
  <2>1. txn # None => txn' # None
    BY <1>3 DEF RunBegin
  <2> QED
    BY <1>1, <1>2, <1>3, <2>1, LinedAhead, RunBeginStep
<1>4. ASSUME NEW f \in Aborted, queue[1].op = "STATEMENT", RunStatement(b, f), UNCHANGED <<left, aligned>>
      PROVE  IInv'
  <2>1. txn' = txn
    BY <1>4 DEF RunStatement
  <2> QED
    BY <1>1, <1>2, <1>4, <2>1, LinedAhead, RunStatementStep
<1>5. ASSUME NEW f \in Aborted, queue[1].op = "COMMIT", RunCommit(b, f), UNCHANGED <<left, aligned>>
      PROVE  IInv'
  BY <1>1, <1>2, <1>5, LinedAhead, RunEndStep DEF Ends
<1>6. ASSUME NEW f \in Aborted, queue[1].op = "ROLLBACK", RunRollback(b, f), UNCHANGED <<left, aligned>>
      PROVE  IInv'
  BY <1>1, <1>2, <1>6, LinedAhead, RunEndStep DEF Ends
<1>7. CASE NotRun(queue[1])
  <2>1. txn' = txn
    BY <1>7 DEF NotRun
  <2> QED
    BY <1>1, <1>2, <1>7, <2>1, LinedAhead, NotRunStep
<1> QED
  BY <1>1, <1>3, <1>4, <1>5, <1>6, <1>7 DEF Run, b

-----------------------------------------------------------------------------
(* What holds whether or not the replies are aligned. *)

LEMMA QueueGrows ==
  ASSUME Base, NEW op \in {"BEGIN", "STATEMENT"} \cup Ends, NEW s \in Sessions, Room, Enqueue(op, s)
  PROVE  /\ queue' \in Seq(Requests) /\ Len(queue') <= MaxQueue
         /\ \A i \in DOMAIN queue' : queue'[i].by \in Sessions
<1>1. queue' \in Seq(Requests) /\ Len(queue') <= MaxQueue
  BY Enqueued, TransactionAssumption DEF Base, Room
<1>2. \A i \in DOMAIN queue' : queue'[i] \in Requests
  BY <1>1
<1> QED
  BY <1>1, <1>2 DEF Requests

LEMMA EnqueueBase ==
  ASSUME Base, NEW s \in Sessions,
         \/ Begin(s) \/ Execute(s) \/ Fetch(s) \/ DropTransaction(s)
         \/ \E op \in Ends : Finish(s, op)
  PROVE  Base'
<1>1. PICK op \in {"BEGIN", "STATEMENT"} \cup Ends : Room /\ Enqueue(op, s)
  BY DEF Begin, Execute, Fetch, DropTransaction, Finish, Ends
<1>2. /\ queue' \in Seq(Requests) /\ Len(queue') <= MaxQueue
      /\ \A i \in DOMAIN queue' : queue'[i].by \in Sessions
  BY <1>1, QueueGrows
<1>3. /\ at' \in [Sessions -> Places] /\ holds' \subseteq Sessions \X {"handle", "stream"}
      /\ \A t \in Sessions : <<t, "handle">> \in holds' <=> at'[t] \in Held
  BY DEF Base, TypeOK, Begin, Execute, Fetch, DropTransaction, Finish, Goto, Free, Held, Places, Ends
<1>4. reply' \in [Sessions -> {"none", "ok", "err"}] /\ UNCHANGED <<begun, server>>
  BY DEF Base, TypeOK, Begin, Execute, Fetch, DropTransaction, Finish, Await
<1>5. asked' \subseteq begun'
  BY DEF Base, TypeOK, Handles, Begin, Execute, Fetch, DropTransaction, Finish
<1>6. TypeOK' /\ Shape'
  BY <1>2, <1>3, <1>4, <1>5 DEF Base, TypeOK, Shape, server
<1>7. OneHolder'
  BY DEF Base, TypeOK, OneHolder, Begin, Execute, Fetch, DropTransaction, Finish, Goto, Free, Held
<1>8. Handles'
  BY DEF Base, TypeOK, Handles, Begin, Execute, Fetch, DropTransaction, Finish, Goto, Ends
<1> QED
  BY <1>6, <1>7, <1>8 DEF Base

LEMMA HandleBase ==
  ASSUME Base, NEW s \in Sessions,
         Checkout(s) \/ Begun(s) \/ CancelBegin(s) \/ EndStream(s) \/ Finished(s) \/ DropPlain(s)
  PROVE  Base'
<1>1. /\ UNCHANGED <<queue, reply, asked, server>>
      /\ begun' = begun \/ begun' = begun \cup {s}
  BY DEF Checkout, Begun, CancelBegin, EndStream, Finished, DropPlain
<1>2. at[s] \in Held => \A t \in Sessions : t # s => at[t] \notin Held
  BY DEF Base, TypeOK, OneHolder
<1>3. /\ at' \in [Sessions -> Places] /\ holds' \subseteq Sessions \X {"handle", "stream"}
      /\ \A t \in Sessions : <<t, "handle">> \in holds' <=> at'[t] \in Held
  BY <1>2 DEF Base, TypeOK, Checkout, Begun, CancelBegin, EndStream, Finished, DropPlain, Goto, Free,
              Held, Places
<1>4. TypeOK' /\ Shape'
  BY <1>1, <1>3 DEF Base, TypeOK, Shape, server
<1>5. OneHolder'
  BY DEF Base, TypeOK, OneHolder, Checkout, Begun, CancelBegin, EndStream, Finished, DropPlain, Goto, Free
<1>6. Handles'
  BY DEF Base, TypeOK, Handles, Checkout, Begun, CancelBegin, EndStream, Finished, DropPlain, Goto
<1> QED
  BY <1>4, <1>5, <1>6 DEF Base

LEMMA RunBase == ASSUME Base, Run PROVE Base'
<1>1. queue # <<>> /\ queue' = Tail(queue) /\ UNCHANGED <<at, holds, begun, asked>>
  BY DEF Run
<1>2. /\ queue' \in Seq(Requests) /\ Len(queue') <= MaxQueue
      /\ Head(queue) \in Requests /\ Head(queue).by \in Sessions
  BY <1>1, Dequeued, TransactionAssumption DEF Base, TypeOK, Requests
<1>3. \A i \in DOMAIN queue' : queue'[i].by \in Sessions
  <2>1. \A i \in DOMAIN queue' : queue'[i] \in Requests
    BY <1>2
  <2> QED
    BY <2>1 DEF Requests
<1> DEFINE q == Head(queue)
<1>4. PICK f \in Aborted :
        \/ RunBegin(q.by, f) /\ UNCHANGED <<left, aligned>>
        \/ RunStatement(q.by, f) /\ UNCHANGED <<left, aligned>>
        \/ RunCommit(q.by, f) /\ UNCHANGED <<left, aligned>>
        \/ RunRollback(q.by, f) /\ UNCHANGED <<left, aligned>>
        \/ NotRun(q)
  BY DEF Run, Aborted
<1>5. f \in BOOLEAN /\ (txn = None => ~f)
  BY DEF Base, TypeOK, Aborted
<1> HIDE DEF q
<1>6. q.by \in Sessions
  BY <1>2 DEF q
<1>7. reply' \in [Sessions -> {"none", "ok", "err"}]
  BY <1>4, <1>6 DEF Base, TypeOK, RunBegin, RunStatement, RunCommit, RunRollback, NotRun, Answer
<1>8. /\ txn' \in Sessions \cup {None} /\ failed' \in BOOLEAN /\ aligned' \in BOOLEAN
      /\ txn' = None => work' = {} /\ ~failed'
  <2>1. CASE NotRun(q)
    <3>1. txn' = txn /\ work' = work /\ (failed' = failed \/ failed' = (txn # None)) /\ aligned' \in BOOLEAN
      BY <2>1 DEF Base, TypeOK, NotRun
    <3>2. failed' \in BOOLEAN /\ (txn = None => ~failed')
      <4>1. failed \in BOOLEAN /\ (txn = None => ~failed)
        BY DEF Base, TypeOK
      <4>2. CASE failed' = failed
        BY <4>1, <4>2
      <4>3. CASE failed' = (txn # None)
        BY <4>3
      <4> QED
        BY <3>1, <4>2, <4>3
    <3> QED
      BY <3>1, <3>2 DEF Base, TypeOK
  <2>2. CASE RunBegin(q.by, f) /\ aligned' = aligned
    BY <1>5, <1>6, <2>2, TransactionAssumption DEF Base, TypeOK, RunBegin
  <2>3. CASE RunStatement(q.by, f) /\ aligned' = aligned
    BY <1>5, <2>3 DEF Base, TypeOK, RunStatement
  <2>4. CASE (RunCommit(q.by, f) \/ RunRollback(q.by, f)) /\ aligned' = aligned
    BY <2>4 DEF Base, TypeOK, RunCommit, RunRollback, CloseTxn
  <2> QED
    BY <1>4, <2>1, <2>2, <2>3, <2>4
<1>9. /\ committed' \subseteq Sessions /\ work' \subseteq Sessions
      /\ left' \subseteq Sessions
  BY <1>4, <1>6 DEF Base, TypeOK, Shape, RunBegin, RunStatement, RunCommit, RunRollback, NotRun, CloseTxn
<1>10. TypeOK' /\ Shape'
  BY <1>1, <1>2, <1>3, <1>7, <1>8, <1>9 DEF Base, TypeOK, Shape
<1> QED
  BY <1>1, <1>10 DEF Base, OneHolder, Handles

LEMMA NextBase == ASSUME Base, [Next]_vars PROVE Base'
<1>1. CASE UNCHANGED vars
  BY <1>1 DEF vars, Base, TypeOK, Shape, OneHolder, Handles
<1>2. CASE Run
  BY <1>2, RunBase
<1> QED
  BY <1>1, <1>2, EnqueueBase, HandleBase DEF Next, AllOver, Ends

-----------------------------------------------------------------------------

LEMMA NextIInv == ASSUME IInv, aligned, [Next]_vars, aligned' PROVE IInv'
<1>1. ASSUME NEW s \in Sessions,
             \/ Checkout(s) \/ Begun(s) \/ CancelBegin(s) \/ EndStream(s) \/ Finished(s) \/ DropPlain(s)
      PROVE  IInv'
  BY <1>1, CheckoutStep, BegunStep, CancelBeginStep, EndStreamStep, FinishedStep, DropPlainStep
<1>2. ASSUME NEW s \in Sessions, Begin(s) \/ Execute(s) \/ Fetch(s) \/ DropTransaction(s) PROVE IInv'
  BY <1>2, BeginStep, ExecuteStep, FetchStep, DropTransactionStep
<1>3. ASSUME NEW s \in Sessions, NEW op \in {"COMMIT", "ROLLBACK"}, Finish(s, op) PROVE IInv'
  BY <1>3, FinishStep DEF Ends
<1>4. CASE Run
  BY <1>4, RunStep
<1>5. CASE UNCHANGED vars
  BY <1>5 DEF vars, IInv, TypeOK, Shape, OneHolder, Life, Lined, LinedAt, Awaiting, AwaitingAt, Pending,
              EndsWithItsHandle, OnlyCommittedSurvives, Pos, Ending
<1> QED
  BY <1>1, <1>2, <1>3, <1>4, <1>5 DEF Next, AllOver

\* Once out of step the replies stay so.
LEMMA StaysUnaligned == ASSUME [Next]_vars, aligned' PROVE aligned
  BY DEF Next, vars, server, Checkout, Begin, Begun, CancelBegin, Execute, Fetch, EndStream, Finish, Finished,
         DropTransaction, DropPlain, Run, NotRun, AllOver

LEMMA InitJInv == Init => JInv
<1> SUFFICES ASSUME Init PROVE JInv
  OBVIOUS
<1>1. IInv
  BY InitIInv
<1>2. Handles
  BY DEF Init, Handles
<1> QED
  BY <1>1, <1>2 DEF JInv, Base, IInv

LEMMA NextJInv == JInv /\ [Next]_vars => JInv'
  BY NextBase, NextIInv, StaysUnaligned DEF JInv

\* However many sessions share the connection and however their handles,
\* futures and streams are dropped: once somebody has got a Transaction, no
\* statement of another session has an effect inside it, and none runs in it
\* but where the server refused its COMMIT or ROLLBACK (transaction.rs:56-97).
THEOREM TransactionsEndWithTheirHandles == Spec => []EndsWithItsHandle
<1>1. JInv => EndsWithItsHandle
  BY DEF JInv, Base, IInv, EndsWithItsHandle
<1> QED
  BY <1>1, InitJInv, NextJInv, PTL DEF Spec

\* A transaction that nobody asked to commit leaves nothing behind, also when
\* BEGIN ran inside a transaction that an abandoned Pool::begin had left open,
\* and when its ROLLBACK was refused.
THEOREM DroppedIsRolledBack == Spec => []OnlyCommittedSurvives
<1>1. JInv => OnlyCommittedSurvives
  BY DEF JInv, IInv, OnlyCommittedSurvives
<1> QED
  BY <1>1, InitJInv, NextJInv, PTL DEF Spec
=============================================================================
