--------------------------- MODULE PgTransaction ---------------------------
(***************************************************************************)
(* Transactions on a pooled connection (postgresql/transaction.rs with     *)
(* Pool::begin, Checkout and the actor's request queue).                   *)
(*                                                                         *)
(* Sessions check the connection out one after the other, each for plain   *)
(* statements or for one transaction.  The connection goes back to the     *)
(* pool when the last holder of its checkout is dropped, while requests    *)
(* of that session may still be queued: the actor runs the queue in order, *)
(* and the server's transaction state is what the next session finds.      *)
(* Which request is in which protocol state is the subject of PgConnection.*)
(***************************************************************************)
EXTENDS Naturals, Sequences, FiniteSets

CONSTANTS
  Sessions,
  None,
  Failing,         \* whether the server may refuse a request: an error, a late
                   \* cancel (57014), statement_timeout
  StalePlans,      \* whether it may have lost a cached statement (26000, 0A000)
  Garbling,        \* whether prepare may meet a message it cannot decode
  CancellingBegin, \* whether the future of Pool::begin may be dropped
  MaxQueue         \* bound on the requests queued at one time

ASSUME TransactionAssumption ==
  /\ None \notin Sessions
  /\ Failing \in BOOLEAN /\ StalePlans \in BOOLEAN /\ Garbling \in BOOLEAN
  /\ CancellingBegin \in BOOLEAN
  /\ MaxQueue \in Nat \ {0}

VARIABLES
  at,         \* what each session is doing
  holds,      \* who holds the checkout: pairs of a session and "handle" or "stream"
  queue,      \* the actor's requests: [op, by]
  reply,      \* the answer to BEGIN, COMMIT or ROLLBACK that a session awaits
  txn,        \* the session whose BEGIN opened the server's transaction, or None
  failed,     \* the server's transaction is aborted
  work,       \* the sessions with statements in the open transaction
  committed,  \* the sessions with statements that were committed
  begun,      \* the sessions that got a Transaction
  asked,      \* the sessions that asked for COMMIT
  left,       \* the sessions one of whose COMMITs and ROLLBACKs was not run
  ran,        \* the last statement: by whom, in whose transaction, and whether it
              \* took effect there
  aligned     \* no prepare broke off: each reply read is the one to what was sent

vars == <<at, holds, queue, reply, txn, failed, work, committed, begun, asked, left, ran, aligned>>

\* Where a session has its handle, a PooledConnection or a Transaction.
Held == {"plain", "begin", "open", "commit", "rollback"}
Places == Held \cup {"out", "committed", "over"}

TypeOK ==
  /\ at \in [Sessions -> Places]
  /\ holds \subseteq Sessions \X {"handle", "stream"}
  /\ \A s \in Sessions : <<s, "handle">> \in holds <=> at[s] \in Held
  /\ Len(queue) <= MaxQueue
  /\ \A i \in DOMAIN queue : queue[i].by \in Sessions
  /\ reply \in [Sessions -> {"none", "ok", "err"}]
  /\ txn \in Sessions \cup {None}
  /\ failed \in BOOLEAN
  /\ txn = None => work = {} /\ ~failed
  /\ committed \subseteq Sessions
  /\ begun \subseteq Sessions /\ asked \subseteq begun /\ left \subseteq Sessions
  /\ aligned \in BOOLEAN

Init ==
  /\ at = [s \in Sessions |-> "out"]
  /\ holds = {}
  /\ queue = <<>>
  /\ reply = [s \in Sessions |-> "none"]
  /\ txn = None /\ failed = FALSE /\ work = {}
  /\ committed = {} /\ begun = {} /\ asked = {} /\ left = {}
  /\ ran = [by |-> None, in |-> None, did |-> FALSE]
  /\ aligned = TRUE

server == <<txn, failed, work, committed, left, ran, aligned>>

Goto(s, p) == at' = [at EXCEPT ![s] = p]
Room == Len(queue) < MaxQueue
Enqueue(op, s) == queue' = Append(queue, [op |-> op, by |-> s])
Await(s) == reply' = [reply EXCEPT ![s] = "none"]

\* The checkout's last holder returns the connection to the pool.
Free == holds = {}

-----------------------------------------------------------------------------

\* Pool::get, for plain statements.
Checkout(s) ==
  /\ at[s] = "out" /\ Free
  /\ holds' = {<<s, "handle">>}
  /\ Goto(s, "plain")
  /\ UNCHANGED <<queue, reply, begun, asked, server>>

\* Pool::begin: a checkout, and BEGIN.
Begin(s) ==
  /\ at[s] = "out" /\ Free /\ Room
  /\ holds' = {<<s, "handle">>}
  /\ Enqueue("BEGIN", s)
  /\ Goto(s, "begin")
  /\ UNCHANGED <<reply, begun, asked, server>>

\* begin_checkout after BEGIN: a Transaction, or the checkout is dropped.
Begun(s) ==
  /\ at[s] = "begin" /\ reply[s] # "none"
  /\ IF reply[s] = "ok"
       THEN Goto(s, "open") /\ begun' = begun \cup {s} /\ UNCHANGED holds
       ELSE Goto(s, "over") /\ holds' = {} /\ UNCHANGED begun
  /\ UNCHANGED <<queue, reply, asked, server>>

\* The future of Pool::begin is dropped: there is no Transaction yet, and the
\* checkout goes with the future.
CancelBegin(s) ==
  /\ CancellingBegin
  /\ at[s] = "begin"
  /\ Goto(s, "over")
  /\ holds' = {}
  /\ UNCHANGED <<queue, reply, begun, asked, server>>

\* execute, on the transaction or on the pooled connection.  Whether the
\* session awaits the result or drops the future, the request is queued.
Execute(s) ==
  /\ at[s] \in {"open", "plain"} /\ Room
  /\ Enqueue("STATEMENT", s)
  /\ UNCHANGED <<at, holds, reply, begun, asked, server>>

\* fetch_rows: the stream holds a clone of the checkout.
Fetch(s) ==
  /\ at[s] \in {"open", "plain"} /\ Room
  /\ Enqueue("STATEMENT", s)
  /\ holds' = holds \cup {<<s, "stream">>}
  /\ UNCHANGED <<at, reply, begun, asked, server>>

\* The stream is dropped, or read to its end.
EndStream(s) ==
  /\ <<s, "stream">> \in holds
  /\ holds' = holds \ {<<s, "stream">>}
  /\ UNCHANGED <<at, queue, reply, begun, asked, server>>

\* Transaction::commit and Transaction::rollback.
Finish(s, op) ==
  /\ at[s] = "open" /\ Room
  /\ Enqueue(op, s)
  /\ Await(s)
  /\ Goto(s, IF op = "COMMIT" THEN "commit" ELSE "rollback")
  /\ asked' = IF op = "COMMIT" THEN asked \cup {s} ELSE asked
  /\ UNCHANGED <<holds, begun, server>>

\* ... are answered: the transaction is done either way, and dropped with no
\* ROLLBACK, although an error may mean that nothing was run.
Finished(s) ==
  /\ at[s] \in {"commit", "rollback"} /\ reply[s] # "none"
  /\ Goto(s, IF at[s] = "commit" /\ reply[s] = "ok" THEN "committed" ELSE "over")
  /\ holds' = holds \ {<<s, "handle">>}
  /\ UNCHANGED <<queue, reply, begun, asked, server>>

\* Mutant: Drop leaves the transaction to the server.
DropTransactionOpen(s) ==
  /\ at[s] \in {"open", "commit", "rollback"} /\ Room
  /\ holds' = holds \ {<<s, "handle">>}
  /\ Goto(s, "over")
  /\ UNCHANGED <<queue, reply, begun, asked, server>>

\* Mutant: Drop commits.
DropTransactionCommitting(s) ==
  /\ at[s] \in {"open", "commit", "rollback"} /\ Room
  /\ Enqueue("COMMIT", s)
  /\ holds' = holds \ {<<s, "handle">>}
  /\ Goto(s, "over")
  /\ UNCHANGED <<reply, begun, asked, server>>

\* Drop of a Transaction that is not done, alone or with the future of one of
\* its methods: ROLLBACK is queued before the checkout is let go.
DropTransaction(s) ==
  /\ at[s] \in {"open", "commit", "rollback"} /\ Room
  /\ Enqueue("ROLLBACK", s)
  /\ holds' = holds \ {<<s, "handle">>}
  /\ Goto(s, "over")
  /\ UNCHANGED <<reply, begun, asked, server>>

\* Drop of a PooledConnection.
DropPlain(s) ==
  /\ at[s] = "plain"
  /\ holds' = holds \ {<<s, "handle">>}
  /\ Goto(s, "over")
  /\ UNCHANGED <<queue, reply, begun, asked, server>>

-----------------------------------------------------------------------------
(* The actor runs the queue in order; the server answers.                  *)

\* The session gets the answer to what was run, or, with the replies no longer
\* aligned to the requests, any answer.
Answer(s, r) ==
  \E a \in {"ok", "err"} : (aligned => a = r) /\ reply' = [reply EXCEPT ![s] = a]

\* The transaction is over; its work is kept or not.
CloseTxn(keep) ==
  /\ txn' = None /\ failed' = FALSE /\ work' = {}
  /\ committed' = IF keep THEN committed \cup work ELSE committed

RunBegin(s, aborted) ==
  /\ txn' = IF txn = None THEN s ELSE txn
  /\ failed' = aborted
  /\ Answer(s, IF aborted THEN "err" ELSE "ok")
  /\ UNCHANGED <<work, committed, ran>>

\* Outside a transaction a statement commits by itself.
RunStatement(s, aborted) ==
  /\ ran' = [by |-> s, in |-> txn, did |-> ~aborted]
  /\ failed' = aborted
  /\ work' = IF aborted \/ txn = None THEN work ELSE work \cup {s}
  /\ committed' = IF txn = None THEN committed \cup {s} ELSE committed
  /\ UNCHANGED <<reply, txn>>

\* COMMIT of an aborted transaction rolls it back, and succeeds.
RunCommit(s, aborted) ==
  /\ \/ CloseTxn(~aborted) /\ Answer(s, "ok")
     \/ Failing /\ txn # None /\ CloseTxn(FALSE) /\ Answer(s, "err")
  /\ UNCHANGED ran

RunRollback(s, aborted) ==
  /\ CloseTxn(FALSE) /\ Answer(s, "ok")
  /\ UNCHANGED ran

\* Whether the transaction is aborted when a request is run.  handle_query runs
\* it again after the server refused its cached statement, and that refusal has
\* aborted the transaction.
Aborted == {failed, failed \/ (StalePlans /\ txn # None)}

\* The request is answered with an error and not run: the server refuses it, or
\* prepare breaks off with the replies half read and the connection in use.
NotRun(q) ==
  /\ \/ Failing /\ failed' = (txn # None) /\ UNCHANGED aligned
     \/ Garbling /\ aligned' = FALSE /\ UNCHANGED failed
  /\ IF q.op = "STATEMENT"
       THEN ran' = [by |-> q.by, in |-> txn, did |-> FALSE] /\ UNCHANGED reply
       ELSE Answer(q.by, "err") /\ UNCHANGED ran
  /\ left' = IF q.op \in {"COMMIT", "ROLLBACK"} THEN left \cup {q.by} ELSE left
  /\ UNCHANGED <<txn, work, committed>>

\* handle_query, for the request at the head of the queue.
Run ==
  /\ queue # <<>>
  /\ queue' = Tail(queue)
  /\ LET q == Head(queue) IN
       \/ /\ \E aborted \in Aborted :
               \/ q.op = "BEGIN" /\ RunBegin(q.by, aborted)
               \/ q.op = "STATEMENT" /\ RunStatement(q.by, aborted)
               \/ q.op = "COMMIT" /\ RunCommit(q.by, aborted)
               \/ q.op = "ROLLBACK" /\ RunRollback(q.by, aborted)
          /\ UNCHANGED <<left, aligned>>
       \/ NotRun(q)
  /\ UNCHANGED <<at, holds, begun, asked>>

\* Every session is over and the queue is empty.
AllOver ==
  /\ \A s \in Sessions : at[s] \in {"committed", "over"}
  /\ holds = {} /\ queue = <<>>
  /\ UNCHANGED vars

Next ==
  \/ \E s \in Sessions :
       \/ Checkout(s) \/ Begin(s) \/ Begun(s) \/ CancelBegin(s)
       \/ Execute(s) \/ Fetch(s) \/ EndStream(s)
       \/ \E op \in {"COMMIT", "ROLLBACK"} : Finish(s, op)
       \/ Finished(s) \/ DropTransaction(s) \/ DropPlain(s)
  \/ Run
  \/ AllOver

Spec == Init /\ [][Next]_vars

-----------------------------------------------------------------------------

\* A transaction ends with its handle: while replies and requests are aligned,
\* no statement of another session runs inside a transaction that somebody
\* got, however the handle, its methods' futures and its streams were dropped.
\* Only where its COMMIT or ROLLBACK was refused by the server may a statement
\* of another session find itself in it, and it has no effect there: the
\* refusal has aborted the transaction.  All along the checkout has a handle's
\* hold exactly while that handle exists.
EndsWithItsHandle ==
  /\ TypeOK
  /\ aligned /\ ran.in \in begun /\ ran.in # ran.by => ran.in \in left /\ ~ran.did

\* No session inherits a transaction: a statement runs in the transaction of
\* its own session or in none, however the sessions before it ended
\* (transaction.rs:88-89, "the actor serialises it before any later query").
NoInheritedTransaction == ran.in \in {None, ran.by}

\* A transaction leaves nothing behind unless COMMIT was asked for: dropping it,
\* with the future of any of its methods, keeps none of its work
\* (transaction.rs:15, "Dropping without committing enqueues a ROLLBACK"),
\* also when that ROLLBACK, or a COMMIT before it, is refused.
OnlyCommittedSurvives == aligned => committed \cap begun \subseteq asked
=============================================================================
