-------------------------- MODULE PgStatementCache --------------------------
(***************************************************************************)
(* The prepared statements of one connection (postgresql/connection.rs,    *)
(* Actor::attempt_query, prepare, evict_statements, write_pending_closes): *)
(* the actor's cache, an IndexMap kept in insertion order, the Close       *)
(* messages it still has to send, and the statements the server has.       *)
(*                                                                         *)
(* The actor serves one query at a time; every action is the part of a     *)
(* query up to its next flush.  A name is the statement counter's value,   *)
(* and 0 is the unnamed statement.  Statements are keyed by a hash of SQL  *)
(* and parameter types, which may collide.                                 *)
(***************************************************************************)
EXTENDS Naturals, Sequences, FiniteSets, Functions

CONSTANTS
  Sqls,        \* statement identities: SQL text and parameter types
  Hash,        \* statement_key, as a function on Sqls
  Sizes,       \* the values of statement_cache_size to consider
  MaxNames,    \* bound on statement_counter
  NoSql,
  Unencodable, \* whether a query may fail to be encoded, see frontend::parse
  Forgetful    \* whether the server may drop statements (DISCARD ALL, a pooler)

ASSUME CacheAssumption ==
  /\ NoSql \notin Sqls
  /\ Sizes \subseteq Nat /\ MaxNames \in Nat
  /\ Unencodable \in BOOLEAN /\ Forgetful \in BOOLEAN

VARIABLES
  size,     \* Actor.statement_cache_size, which is never assigned
  cache,    \* Actor.cache: a sequence of [hash, sql, name]
  closes,   \* Actor.pending_closes
  counter,  \* Actor.statement_counter
  known,    \* the server's statements: a set of [name, sql]
  stage,    \* where the query is
  sql,      \* the query's statement
  name,     \* the name it is prepared under
  attempt,
  bound,    \* what the server found under the name of the last Bind
  lost,     \* the names whose Close was taken from closes and never sent
  dropped,  \* the names the server dropped of its own accord, or refused in a
            \* reply the actor took for another one's
  orphans,  \* the names the server prepared for a prepare that reported an error
  inStep    \* no prepare broke off: each reply read is the one to what was sent

ghosts == <<lost, dropped, orphans, inStep>>
cacheVars == <<size, cache, closes, counter, known, stage, sql, name, attempt, bound, ghosts>>

Unnamed == 0
Entry(q, n) == [hash |-> Hash[q], sql |-> q, name |-> n]
NamesOf(c) == {c[i].name : i \in DOMAIN c}

CacheTypeOK ==
  /\ size \in Sizes
  /\ \A i \in DOMAIN cache : cache[i].sql \in Sqls /\ cache[i].hash = Hash[cache[i].sql]
  /\ counter \in 0..MaxNames
  /\ \A n \in NamesOf(cache) : n \in 1..counter
  /\ stage \in {"idle", "start", "prepare", "bind", "refused"}
  /\ sql \in Sqls \cup {NoSql}
  /\ name \in 0..counter
  /\ attempt \in 0..2
  /\ inStep \in BOOLEAN

CacheInit ==
  /\ size \in Sizes
  /\ cache = <<>> /\ closes = <<>>
  /\ counter = 0
  /\ known = {}
  /\ stage = "idle"
  /\ sql = NoSql /\ name = Unnamed /\ attempt = 0
  /\ bound = NoSql
  /\ lost = {} /\ dropped = {} /\ orphans = {} /\ inStep = TRUE

-----------------------------------------------------------------------------
(* IndexMap.                                                               *)

\* The positions that hold key h: at most one.
Slots(c, h) == {i \in DOMAIN c : c[i].hash = h}

\* swap_remove: the last entry takes the place of the removed one.
SwapRemove(c, i) ==
  [j \in 1..(Len(c) - 1) |-> IF j = i THEN c[Len(c)] ELSE c[j]]

\* insert: in place of an entry with the same key, else at the back.
InsertEntry(c, e) ==
  IF Slots(c, e.hash) = {} THEN Append(c, e)
  ELSE [j \in DOMAIN c |-> IF c[j].hash = e.hash THEN e ELSE c[j]]

\* The names InsertEntry displaces.
Displaced(c, e) == [j \in {k \in {1} : Slots(c, e.hash) # {}} |->
                      c[CHOOSE i \in Slots(c, e.hash) : TRUE].name]

-----------------------------------------------------------------------------

\* handle_query takes a query.
TakeQuery(q) ==
  /\ stage = "idle"
  /\ stage' = "start" /\ sql' = q /\ attempt' = 1
  /\ bound' = NoSql
  /\ UNCHANGED <<size, cache, closes, counter, known, name, ghosts>>

\* Mutant: the hash alone decides, the SQL is not compared.
HitSlotsByHash == Slots(cache, Hash[sql])

\* The cached statement, if its SQL is the query's.
HitSlots == {i \in Slots(cache, Hash[sql]) : cache[i].sql = sql}

\* attempt_query with the statement cached: it moves to the back.
Hit ==
  /\ stage = "start" /\ size > 0
  /\ \E i \in HitSlots :
       /\ cache' = Append(SwapRemove(cache, i), cache[i])
       /\ name' = cache[i].name
  /\ stage' = "bind"
  /\ UNCHANGED <<size, closes, counter, known, sql, attempt, bound, ghosts>>

\* ... and not cached: a fresh name, to be prepared.
Miss ==
  /\ stage = "start"
  /\ IF size = 0
       THEN name' = Unnamed /\ UNCHANGED counter
       ELSE /\ HitSlots = {}
            /\ counter < MaxNames
            /\ counter' = counter + 1 /\ name' = counter + 1
  /\ stage' = "prepare"
  /\ UNCHANGED <<size, cache, closes, known, sql, attempt, bound, ghosts>>

\* The server after the queued Close messages.
Closed == {p \in known : p.name \notin Range(closes)}

\* Encoding fails: the queued Close messages are drained into a write buffer
\* that is not sent, and the query ends.
EncodeFails ==
  /\ Unencodable
  /\ stage = "bind" \/ (stage = "prepare" /\ attempt = 1)
  /\ closes' = <<>> /\ lost' = lost \cup Range(closes)
  /\ stage' = "idle"
  /\ UNCHANGED <<size, cache, counter, known, sql, name, attempt, bound, dropped, orphans, inStep>>

\* The server closes what is queued and parses the statement, which replaces
\* the unnamed one; a statement it rejects replaces it with none.
Parse(accepts) ==
  known' = {p \in Closed : p.name # name}
             \cup (IF accepts THEN {[name |-> name, sql |-> sql]} ELSE {})

\* The actor reads the answer to what it sent, or, out of step, any answer.
Reads(answer) == IF inStep THEN {answer} ELSE BOOLEAN

\* Named statements that the actor does not know to be on the server.
Orphaned(accepts) == orphans' = IF accepts THEN orphans \cup ({name} \ {Unnamed}) ELSE orphans

\* prepare returns the server's error.
PrepareRejected ==
  /\ stage = "prepare"
  /\ \E accepts \in BOOLEAN :
       FALSE \in Reads(accepts) /\ Parse(accepts) /\ Orphaned(accepts)
  /\ closes' = <<>>
  /\ \E code \in {"stale", "other"} : stage' = IF code = "stale" THEN "refused" ELSE "idle"
  /\ UNCHANGED <<size, cache, counter, sql, name, attempt, bound, lost, dropped, inStep>>

\* prepare meets a message it cannot decode and returns at once, with the
\* connection not marked broken and the rest of the replies still to be read.
PrepareBreaksOff ==
  /\ stage = "prepare"
  /\ \E accepts \in BOOLEAN : Parse(accepts) /\ Orphaned(accepts)
  /\ closes' = <<>>
  /\ stage' = "idle"
  /\ inStep' = FALSE
  /\ UNCHANGED <<size, cache, counter, sql, name, attempt, bound, lost, dropped>>

\* Mutant: the bound is off by one.
EvictLate(c, cs) ==
  IF Len(c) > size + 1 THEN <<SwapRemove(c, 1), Append(cs, c[1].name)>> ELSE <<c, cs>>

\* evict_statements; the cache is never more than one entry over its size.
Evict(c, cs) ==
  IF Len(c) > size THEN <<SwapRemove(c, 1), Append(cs, c[1].name)>> ELSE <<c, cs>>

\* prepare succeeds: the statement is cached, what it displaces or what is
\* over the capacity is queued for Close.
PrepareOk ==
  /\ stage = "prepare"
  /\ \E accepts \in BOOLEAN :
       /\ TRUE \in Reads(accepts) /\ Parse(accepts)
       /\ dropped' = IF accepts THEN dropped \ {name} ELSE dropped \cup {name}
  /\ IF size = 0
       THEN closes' = <<>> /\ UNCHANGED cache
       ELSE LET after == Evict(InsertEntry(cache, Entry(sql, name)), Displaced(cache, Entry(sql, name)))
            IN  cache' = after[1] /\ closes' = after[2]
  /\ stage' = "bind"
  /\ UNCHANGED <<size, counter, sql, name, attempt, bound, lost, orphans, inStep>>

\* Close, Bind, Execute, Sync: the server looks the name up.  What it has may
\* have become stale (0A000), or be gone (26000).
Bind ==
  /\ stage = "bind"
  /\ known' = Closed
  /\ closes' = <<>>
  /\ LET found == {p \in Closed : p.name = name} IN
       /\ bound' = IF found = {} THEN "nothing" ELSE (CHOOSE p \in found : TRUE).sql
       /\ stage' \in IF found = {} /\ inStep THEN {"refused"} ELSE {"idle", "refused"}
  /\ UNCHANGED <<size, cache, counter, sql, name, attempt, ghosts>>

\* Mutant: the retried statement is dropped without a Close.
RetryForgetting ==
  /\ stage = "refused"
  /\ IF attempt = 1
       THEN /\ cache' = IF Slots(cache, Hash[sql]) = {} THEN cache
                        ELSE SwapRemove(cache, CHOOSE i \in Slots(cache, Hash[sql]) : TRUE)
            /\ attempt' = 2 /\ stage' = "start"
       ELSE stage' = "idle" /\ UNCHANGED <<cache, attempt>>
  /\ bound' = NoSql
  /\ UNCHANGED <<size, closes, counter, known, sql, name, ghosts>>

\* handle_query on a stale plan: the first time, forget it and start again.
Retry ==
  /\ stage = "refused"
  /\ IF attempt = 1
       THEN /\ LET slots == Slots(cache, Hash[sql]) IN
                 IF slots = {} THEN UNCHANGED <<cache, closes>>
                 ELSE \E i \in slots : /\ cache' = SwapRemove(cache, i)
                                       /\ closes' = Append(closes, cache[i].name)
            /\ attempt' = 2 /\ stage' = "start"
       ELSE stage' = "idle" /\ UNCHANGED <<cache, closes, attempt>>
  /\ bound' = NoSql
  /\ UNCHANGED <<size, counter, known, sql, name, ghosts>>

\* DISCARD ALL, DEALLOCATE, or another server behind a pooler.
ServerForgets ==
  /\ Forgetful
  /\ known # {}
  /\ known' = {}
  /\ dropped' = dropped \cup {p.name : p \in known}
  /\ UNCHANGED <<size, cache, closes, counter, stage, sql, name, attempt, bound, lost, orphans, inStep>>

\* The names are used up (a bound of the model).
Exhausted ==
  /\ counter = MaxNames /\ stage = "start" /\ size > 0 /\ HitSlots = {}
  /\ UNCHANGED cacheVars

CacheNext ==
  \/ \E q \in Sqls : TakeQuery(q)
  \/ Hit \/ Miss \/ EncodeFails \/ Bind \/ Retry
  \/ PrepareRejected \/ PrepareBreaksOff \/ PrepareOk
  \/ ServerForgets \/ Exhausted

CacheSpec == CacheInit /\ [][CacheNext]_cacheVars

-----------------------------------------------------------------------------

\* A Bind reaches the statement it means: whatever was evicted, displaced by a
\* hash collision or re-prepared before, and however many replies the actor has
\* fallen behind, the server has the query's own SQL under that name, and the
\* Close messages sent ahead of the Bind never close it.  Only a statement the
\* server dropped by itself, or refused unnoticed, is not there.
\* The cache is well-formed: an entry has its statement's hash and a name that
\* was given out.
BindsItsStatement ==
  /\ CacheTypeOK
  /\ bound \in {NoSql, sql} \/ (bound = "nothing" /\ name \in dropped)

\* The statements that are nobody's: their Close was lost with an unsent
\* request, or their prepare reported an error and never queued one.
Strays == lost \cup orphans

\* "The prepared-statement cache is bounded: server-side statements must be
\* closed as they are evicted" (tests/integration.rs:1088-1089, which allows
\* one more than the size): the server holds no more statements than that,
\* strays apart; and before a prepare breaks off there are no strays but those
\* of queries that could not be encoded.
ServerStaysBounded ==
  /\ Cardinality({p \in known : p.name \notin Strays}) <= size + 1
  /\ inStep => Strays \subseteq lost
  /\ ~Unencodable => lost = {}

\* No statement is leaked: what the server holds is cached or waits for its
\* Close, whatever displaced it (connection.rs:1416-1417, "close it so it is
\* not leaked server-side"), unless it is a stray.
NoLeakedStatement ==
  \A p \in known :
    \/ p.name \in NamesOf(cache) \cup Range(closes) \cup Strays
    \/ p.name = Unnamed

=============================================================================
