----------------------- MODULE PgStatementCacheProofs -----------------------
(***************************************************************************)
(* Theorems about PgStatementCache, for any statements, any hash function  *)
(* on them and any cache size.                                             *)
(*                                                                         *)
(* A name is given out once, so a cached entry, a queued Close and a       *)
(* statement that is being prepared never mean the same name; the server   *)
(* has a cached statement under its name unless it dropped it; and at most *)
(* one Close is queued, behind a cache that is within its size.            *)
(***************************************************************************)
EXTENDS PgStatementCache, FiniteSetTheorems, TLAPS

Entries == [hash : {Hash[q] : q \in Sqls}, sql : Sqls, name : Nat]

\* No two entries share a key or a name.
Distinct(c) ==
  \A i, j \in DOMAIN c : i # j => c[i].hash # c[j].hash /\ c[i].name # c[j].name

Shape ==
  /\ size \in Nat
  /\ cache \in Seq(Entries) /\ Distinct(cache) /\ Len(cache) <= size
  /\ closes \in Seq(Nat) /\ Len(closes) <= 1
  /\ known \subseteq [name : Nat, sql : Sqls]

\* Names are given out once, and only without a cache is the unnamed statement
\* used.
Named ==
  /\ \A n \in Range(closes) : n \in 1..counter /\ n \notin NamesOf(cache)
  /\ \A p \in known : p.name \in 0..counter
  /\ \A p, q \in known : p.name = q.name => p = q
  /\ \A p \in known : p.name = Unnamed <=> size = 0
  /\ size = 0 => closes = <<>>

\* The server has what is cached, unless it dropped it.
Kept ==
  \A o \in Range(cache) :
    /\ \A p \in known : p.name = o.name => p.sql = o.sql
    /\ o.name \in dropped \/ \E p \in known : p.name = o.name

\* The statement of the query, before it is prepared and before it is bound.
Fresh(n) ==
  /\ n # Unnamed
  /\ n \notin NamesOf(cache) /\ n \notin Range(closes)
  /\ \A p \in known : p.name # n

Ready ==
  IF size = 0
    THEN /\ name = Unnamed
         /\ \A p \in known : p.sql = sql
         /\ known = {} => Unnamed \in dropped
    ELSE \E o \in Range(cache) : o.name = name /\ o.sql = sql

Query ==
  /\ stage # "idle" => sql \in Sqls
  /\ stage = "prepare" => IF size = 0 THEN name = Unnamed ELSE Fresh(name)
  /\ stage = "bind" => Ready
  /\ stage = "refused" => closes = <<>>
  /\ stage \in {"start", "prepare", "bind"} => bound = NoSql

\* Where the strays come from.
Straying ==
  /\ inStep => orphans = {}
  /\ ~Unencodable => lost = {}

IInv ==
  /\ CacheTypeOK /\ Shape /\ Named /\ Kept /\ Query /\ Straying
  /\ BindsItsStatement /\ NoLeakedStatement

-----------------------------------------------------------------------------
(* The cache as a set of entries. *)

LEMMA NamesCached ==
  ASSUME NEW c PROVE \A n : n \in NamesOf(c) <=> \E o \in Range(c) : o.name = n
  BY DEF NamesOf, Range

\* swap_remove takes one entry out.
LEMMA SwapRemoved ==
  ASSUME NEW c \in Seq(Entries), Distinct(c), NEW i \in DOMAIN c
  PROVE  /\ SwapRemove(c, i) \in Seq(Entries) /\ Distinct(SwapRemove(c, i))
         /\ Len(SwapRemove(c, i)) = Len(c) - 1
         /\ Range(SwapRemove(c, i)) = Range(c) \ {c[i]}
<1> DEFINE n == Len(c)
           r == SwapRemove(c, i)
<1>1. n \in Nat \ {0} /\ DOMAIN c = 1..n /\ i \in 1..n /\ n - 1 \in Nat
  OBVIOUS
<1>2. \A j \in 1..n : c[j] \in Entries
  OBVIOUS
<1> HIDE DEF n
<1>3. r = [j \in 1..(n - 1) |-> IF j = i THEN c[n] ELSE c[j]]
  BY DEF SwapRemove, n
<1>4. r \in Seq(Entries) /\ Len(r) = n - 1 /\ DOMAIN r = 1..(n - 1)
  <2>1. \A j \in 1..(n - 1) : (IF j = i THEN c[n] ELSE c[j]) \in Entries
    BY <1>1, <1>2
  <2>2. r \in [1..(n - 1) -> Entries]
    BY <1>3, <2>1
  <2> HIDE DEF r
  <2> QED
    BY <1>1, <2>2
<1> HIDE DEF r
<1> DEFINE from(j) == IF j = i THEN n ELSE j
<1>5. \A j \in 1..(n - 1) : from(j) \in 1..n /\ from(j) # i /\ r[j] = c[from(j)]
  BY <1>1, <1>3
<1>6. \A j, k \in 1..(n - 1) : j # k => from(j) # from(k)
  BY <1>1
<1>7. \A k \in 1..n : k # i => \E j \in 1..(n - 1) : from(j) = k
  <2> SUFFICES ASSUME NEW k \in 1..n, k # i PROVE \E j \in 1..(n - 1) : from(j) = k
    OBVIOUS
  <2>1. CASE k = n
    BY <1>1, <2>1
  <2>2. CASE k # n
    BY <1>1, <2>2
  <2> QED
    BY <2>1, <2>2
<1> HIDE DEF from
<1>8. Distinct(r)
  BY <1>1, <1>4, <1>5, <1>6 DEF Distinct
<1>9. \A k \in 1..n : k # i => c[k] # c[i]
  BY <1>1 DEF Distinct
<1>10. Range(r) = Range(c) \ {c[i]}
  <2>1. \A j \in 1..(n - 1) : r[j] \in Range(c) \ {c[i]}
    BY <1>1, <1>5, <1>9 DEF Range
  <2>2. \A k \in 1..n : k # i => c[k] \in Range(r)
    BY <1>4, <1>5, <1>7 DEF Range
  <2> QED
    BY <1>1, <1>4, <2>1, <2>2 DEF Range
<1> QED
  BY <1>4, <1>8, <1>10 DEF n, r

LEMMA Appended ==
  ASSUME NEW c \in Seq(Entries), Distinct(c), NEW e \in Entries,
         \A o \in Range(c) : o.hash # e.hash /\ o.name # e.name
  PROVE  /\ Append(c, e) \in Seq(Entries) /\ Distinct(Append(c, e))
         /\ Len(Append(c, e)) = Len(c) + 1
         /\ Range(Append(c, e)) = Range(c) \cup {e}
<1> DEFINE r == Append(c, e)
           n == Len(c)
<1>1. /\ r \in Seq(Entries) /\ Len(r) = n + 1 /\ n \in Nat
      /\ DOMAIN c = 1..n /\ DOMAIN r = 1..(n + 1)
      /\ r[n + 1] = e /\ \A j \in 1..n : r[j] = c[j]
  OBVIOUS
<1> HIDE DEF r, n
<1>2. \A j \in 1..(n + 1) : j \in 1..n \/ j = n + 1
  BY <1>1
<1>3. \A j \in 1..n : c[j] \in Range(c)
  BY <1>1 DEF Range
<1>4. Distinct(r)
  BY <1>1, <1>2, <1>3 DEF Distinct
<1>5. Range(r) = Range(c) \cup {e}
  <2>1. \A j \in 1..(n + 1) : r[j] \in Range(c) \cup {e}
    BY <1>1, <1>2, <1>3
  <2>2. \A j \in 1..n : j \in 1..(n + 1)
    BY <1>1
  <2>3. n + 1 \in 1..(n + 1)
    BY <1>1
  <2> QED
    BY <1>1, <2>1, <2>2, <2>3 DEF Range
<1> QED
  BY <1>1, <1>4, <1>5 DEF r, n

\* insert puts the entry in, and at most the entry of the same key out: that
\* one's name is what is displaced.
LEMMA Inserted ==
  ASSUME NEW c \in Seq(Entries), Distinct(c), NEW e \in Entries, e.name \notin NamesOf(c)
  PROVE  LET r == InsertEntry(c, e) IN
         /\ r \in Seq(Entries) /\ Distinct(r)
         /\ \/ /\ Displaced(c, e) = <<>> /\ r = Append(c, e)
               /\ Len(r) = Len(c) + 1 /\ Range(r) = Range(c) \cup {e}
            \/ \E o \in Range(c) :
                 /\ Displaced(c, e) = <<o.name>>
                 /\ Len(r) = Len(c) /\ Range(r) = (Range(c) \ {o}) \cup {e}
<1>0. \A o \in Range(c) : o.name # e.name
  BY NamesCached
<1>1. CASE Slots(c, e.hash) = {}
  <2>1. \A o \in Range(c) : o.hash # e.hash
    BY <1>1 DEF Slots, Range
  <2>2. InsertEntry(c, e) = Append(c, e)
    BY <1>1 DEF InsertEntry
  <2>3. Displaced(c, e) = <<>>
    BY <1>1 DEF Displaced
  <2> QED
    BY <1>0, <2>1, <2>2, <2>3, Appended
<1>2. CASE Slots(c, e.hash) # {}
  <2> DEFINE i == CHOOSE i \in Slots(c, e.hash) : TRUE
             n == Len(c)
             r == InsertEntry(c, e)
  <2>1. i \in DOMAIN c /\ c[i].hash = e.hash
    BY <1>2 DEF Slots
  <2>2. Displaced(c, e) = <<c[i].name>>
    <3>1. {k \in {1} : Slots(c, e.hash) # {}} = 1..1
      BY <1>2
    <3> QED
      BY <3>1 DEF Displaced
  <2> HIDE DEF i
  <2>3. \A j \in DOMAIN c : c[j].hash = e.hash <=> j = i
    BY <2>1 DEF Distinct
  <2>4. r = [j \in DOMAIN c |-> IF c[j].hash = e.hash THEN e ELSE c[j]]
    BY <1>2 DEF InsertEntry
  <2>5. n \in Nat /\ DOMAIN c = 1..n /\ \A j \in 1..n : c[j] \in Entries
    BY DEF n
  <2> HIDE DEF n
  <2>6. r \in [1..n -> Entries]
    BY <2>4, <2>5
  <2>7. \A j \in 1..n : r[j] = IF j = i THEN e ELSE c[j]
    BY <2>3, <2>4, <2>5
  <2> HIDE DEF r
  <2>8. r \in Seq(Entries) /\ Len(r) = n /\ DOMAIN r = 1..n
    BY <2>5, <2>6
  <2>9. \A j \in 1..n : j # i => c[j].hash # e.hash /\ c[j].name # e.name /\ c[j] # c[i]
    <3>1. \A j \in 1..n : c[j].name # e.name
      BY <1>0, <2>5 DEF Range
    <3> QED
      BY <2>1, <2>3, <2>5, <3>1
  <2>10. Distinct(r)
    BY <2>5, <2>7, <2>8, <2>9 DEF Distinct
  <2>11. Range(r) = (Range(c) \ {c[i]}) \cup {e}
    BY <2>1, <2>5, <2>7, <2>8, <2>9 DEF Range
  <2>12. c[i] \in Range(c)
    BY <2>1 DEF Range
  <2> QED
    BY <2>2, <2>8, <2>10, <2>11, <2>12 DEF r, n
<1> QED
  BY <1>1, <1>2

\* prepare puts the entry into the cache, and at most one other out of it: that
\* one's Close is what is queued.
LEMMA Prepared ==
  ASSUME CacheTypeOK, Shape, Query, PrepareOk, size # 0
  PROVE  /\ cache' \in Seq(Entries) /\ Distinct(cache') /\ Len(cache') <= size
         /\ closes' \in Seq(Nat) /\ Len(closes') <= 1
         /\ \/ closes' = <<>> /\ Range(cache') = Range(cache) \cup {Entry(sql, name)}
            \/ \E o \in Range(cache) :
                 /\ Range(closes') = {o.name}
                 /\ Range(cache') = (Range(cache) \ {o}) \cup {Entry(sql, name)}
<1> DEFINE e == Entry(sql, name)
           r == InsertEntry(cache, e)
           d == Displaced(cache, e)
<1>1. e \in Entries /\ e.name = name /\ name \notin NamesOf(cache) /\ size \in Nat /\ size >= 1
  BY DEF CacheTypeOK, Shape, Query, PrepareOk, Fresh, Entry, Entries, Unnamed
<1>2. cache' = Evict(r, d)[1] /\ closes' = Evict(r, d)[2]
  BY DEF PrepareOk
<1>3. /\ r \in Seq(Entries) /\ Distinct(r)
      /\ \/ /\ d = <<>> /\ r = Append(cache, e)
            /\ Len(r) = Len(cache) + 1 /\ Range(r) = Range(cache) \cup {e}
         \/ \E o \in Range(cache) :
              /\ d = <<o.name>>
              /\ Len(r) = Len(cache) /\ Range(r) = (Range(cache) \ {o}) \cup {e}
  BY <1>1, Inserted DEF Shape
<1>4. \A o \in Range(cache) : o \in Entries /\ o.name \in Nat /\ o.name # name
  <2>1. \A o \in Range(cache) : o \in Entries
    BY DEF Shape, Range
  <2> QED
    BY <1>1, <2>1, NamesCached DEF Entries
<1> HIDE DEF e, r, d
<1>5. \A n \in Nat : <<n>> \in Seq(Nat) /\ Len(<<n>>) = 1 /\ Range(<<n>>) = {n}
  BY DEF Range
<1>6. CASE Len(r) <= size
  <2>1. cache' = r /\ closes' = d
    BY <1>1, <1>2, <1>3, <1>6 DEF Evict
  <2>2. CASE d = <<>> /\ Range(r) = Range(cache) \cup {e}
    BY <1>3, <1>6, <2>1, <2>2 DEF e
  <2>3. CASE \E o \in Range(cache) : d = <<o.name>> /\ Range(r) = (Range(cache) \ {o}) \cup {e}
    <3>1. PICK o \in Range(cache) : d = <<o.name>> /\ Range(r) = (Range(cache) \ {o}) \cup {e}
      BY <2>3
    <3>2. closes' \in Seq(Nat) /\ Len(closes') <= 1 /\ Range(closes') = {o.name}
      BY <1>4, <1>5, <2>1, <3>1
    <3> QED
      BY <1>3, <1>6, <2>1, <3>1, <3>2 DEF e
  <2> QED
    BY <1>3, <2>2, <2>3
<1>7. CASE Len(r) > size
  <2>1. d = <<>> /\ r = Append(cache, e) /\ Len(r) = Len(cache) + 1 /\ Range(r) = Range(cache) \cup {e}
    BY <1>1, <1>3, <1>7 DEF Shape
  <2>2. 1 \in DOMAIN cache /\ r[1] = cache[1] /\ 1 \in DOMAIN r
    BY <1>1, <1>7, <2>1 DEF Shape
  <2>3. cache[1] \in Range(cache)
    BY <2>2 DEF Range
  <2>4. cache' = SwapRemove(r, 1) /\ closes' = <<cache[1].name>>
    BY <1>2, <1>7, <2>1, <2>2 DEF Evict
  <2>5. /\ cache' \in Seq(Entries) /\ Distinct(cache') /\ Len(cache') = Len(r) - 1
        /\ Range(cache') = Range(r) \ {cache[1]}
    BY <1>3, <2>2, <2>4, SwapRemoved
  <2>6. Range(cache') = (Range(cache) \ {cache[1]}) \cup {e}
    BY <1>1, <1>4, <2>1, <2>3, <2>5
  <2>7. Len(cache') <= size
    BY <1>1, <2>1, <2>5 DEF Shape
  <2> QED
    BY <1>4, <1>5, <2>3, <2>4, <2>5, <2>6, <2>7 DEF e
<1>8. Len(r) <= size \/ Len(r) > size
  BY <1>1, <1>3
<1> QED
  BY <1>6, <1>7, <1>8

\* What the type invariant says of the cache's entries.
Typed(o, n) == o.sql \in Sqls /\ o.hash = Hash[o.sql] /\ o.name \in 1..n

LEMMA TypedCache ==
  ASSUME NEW c, NEW n
  PROVE  (\A o \in Range(c) : Typed(o, n))
           <=> /\ \A i \in DOMAIN c : c[i].sql \in Sqls /\ c[i].hash = Hash[c[i].sql]
               /\ \A m \in NamesOf(c) : m \in 1..n
  BY DEF Range, NamesOf, Typed

\* Closing what is queued takes no cached statement from the server.
LEMMA ClosedKeeps ==
  ASSUME IInv
  PROVE  /\ Closed \subseteq known
         /\ \A o \in Range(cache) : \A p \in known : p.name = o.name => p \in Closed
         /\ \A p \in Closed : p.name \in NamesOf(cache) \cup Strays \/ p.name = Unnamed
  BY NamesCached DEF IInv, Named, NoLeakedStatement, Strays, Straying, Closed

-----------------------------------------------------------------------------

LEMMA InitIInv == CacheInit => IInv
<1> SUFFICES ASSUME CacheInit PROVE IInv
  OBVIOUS
<1> USE CacheAssumption
<1>1. DOMAIN cache = {} /\ Range(cache) = {} /\ NamesOf(cache) = {} /\ Range(closes) = {}
  BY DEF CacheInit, Range, NamesOf
<1>2. CacheTypeOK
  BY <1>1 DEF CacheInit, CacheTypeOK, Unnamed
<1>3. Shape
  BY <1>1 DEF CacheInit, Shape, Distinct
<1> QED
  BY <1>1, <1>2, <1>3 DEF CacheInit, IInv, Named, Kept, Query, BindsItsStatement, NoLeakedStatement, Strays, Straying

LEMMA TakeQueryStep == ASSUME IInv, NEW q \in Sqls, TakeQuery(q) PROVE IInv'
  BY DEF IInv, TakeQuery, ghosts, CacheTypeOK, Shape, Named, Kept, Query, BindsItsStatement, NoLeakedStatement, Strays, Straying

LEMMA HitStep == ASSUME IInv, Hit PROVE IInv'
<1>1. PICK i \in HitSlots : cache' = Append(SwapRemove(cache, i), cache[i]) /\ name' = cache[i].name
  BY DEF Hit
<1>2. i \in DOMAIN cache /\ cache[i].sql = sql /\ cache[i] \in Range(cache) /\ cache[i] \in Entries
  BY DEF IInv, Shape, HitSlots, Slots, Range
<1> DEFINE r == SwapRemove(cache, i)
<1>3. /\ r \in Seq(Entries) /\ Distinct(r) /\ Len(r) = Len(cache) - 1
      /\ Range(r) = Range(cache) \ {cache[i]}
  BY <1>2, SwapRemoved DEF IInv, Shape
<1> HIDE DEF r
<1>4. \A o \in Range(cache) : o # cache[i] => o.hash # cache[i].hash /\ o.name # cache[i].name
  BY <1>2 DEF IInv, Shape, Distinct, Range
<1>5. /\ cache' \in Seq(Entries) /\ Distinct(cache') /\ Len(cache') = Len(r) + 1
      /\ Range(cache') = Range(r) \cup {cache[i]}
  BY <1>1, <1>2, <1>3, <1>4, Appended DEF r
<1>6. Range(cache') = Range(cache) /\ Len(cache') <= size
  BY <1>2, <1>3, <1>5 DEF IInv, Shape
<1>7. NamesOf(cache') = NamesOf(cache)
  <2>1. \A n : n \in NamesOf(cache') <=> n \in NamesOf(cache)
    BY <1>6, NamesCached
  <2> QED
    BY <2>1
<1>8. /\ UNCHANGED <<size, closes, counter, known, sql, attempt, bound, lost, dropped, orphans, inStep>>
      /\ stage = "start" /\ stage' = "bind"
  BY DEF Hit, ghosts
<1>9. CacheTypeOK'
  <2>1. \A o \in Range(cache) : Typed(o, counter)
    BY TypedCache DEF IInv, CacheTypeOK
  <2>2. name' \in 1..counter
    BY <1>1, <1>2, <2>1 DEF Typed
  <2>3. /\ \A j \in DOMAIN cache' : cache'[j].sql \in Sqls /\ cache'[j].hash = Hash[cache'[j].sql]
        /\ \A m \in NamesOf(cache') : m \in 1..counter
    BY <1>6, <2>1, TypedCache
  <2> QED
    BY <1>8, <2>2, <2>3 DEF IInv, CacheTypeOK
<1>10. Shape'
  BY <1>5, <1>6, <1>8 DEF IInv, Shape
<1>11. Named' /\ Kept' /\ NoLeakedStatement' /\ Straying'
  BY <1>6, <1>7, <1>8 DEF IInv, Named, Kept, NoLeakedStatement, Strays, Straying
<1>12. Query' /\ BindsItsStatement'
  BY <1>1, <1>2, <1>6, <1>8, <1>9 DEF IInv, Hit, Shape, Query, Ready, BindsItsStatement
<1> QED
  BY <1>9, <1>10, <1>11, <1>12 DEF IInv

LEMMA MissStep == ASSUME IInv, Miss PROVE IInv'
<1> USE CacheAssumption
<1>1. /\ UNCHANGED <<size, cache, closes, known, sql, attempt, bound, lost, dropped, orphans, inStep>>
      /\ stage = "start" /\ stage' = "prepare"
  BY DEF Miss, ghosts
<1>2. /\ size = 0 => name' = Unnamed /\ counter' = counter
      /\ size # 0 => counter' = counter + 1 /\ name' = counter + 1 /\ counter < MaxNames
      /\ counter \in Nat
  BY DEF IInv, CacheTypeOK, Miss
<1>3. counter' \in 0..MaxNames /\ name' \in 0..counter' /\ \A n \in 0..counter : n \in 0..counter' /\ (n \in 1..counter => n \in 1..counter')
  BY <1>2 DEF IInv, CacheTypeOK, Unnamed
<1>4. CacheTypeOK'
  BY <1>1, <1>3 DEF IInv, CacheTypeOK
<1>5. size # 0 => \A n \in 0..counter : n # name' /\ name' # Unnamed
  BY <1>2 DEF Unnamed
<1>6. \A n \in NamesOf(cache) \cup Range(closes) \cup {p.name : p \in known} : n \in 0..counter
  BY <1>2 DEF IInv, CacheTypeOK, Named
<1>7. Query'
  BY <1>1, <1>2, <1>5, <1>6 DEF IInv, Query, Fresh
<1>8. Named'
  BY <1>1, <1>3 DEF IInv, Named
<1> QED
  BY <1>1, <1>4, <1>7, <1>8 DEF IInv, Shape, Kept, Query, BindsItsStatement, NoLeakedStatement, Strays, Straying

LEMMA EncodeFailsStep == ASSUME IInv, EncodeFails PROVE IInv'
<1>1. /\ UNCHANGED <<size, cache, counter, known, sql, name, attempt, bound, dropped, orphans, inStep>>
      /\ closes' = <<>> /\ Unencodable /\ lost' = lost \cup Range(closes) /\ stage' = "idle"
  BY DEF EncodeFails
<1>2. closes' \in Seq(Nat) /\ Len(closes') <= 1 /\ Range(closes') = {}
  BY <1>1 DEF Range
<1> QED
  BY <1>1, <1>2 DEF IInv, CacheTypeOK, Shape, Named, Kept, Query, BindsItsStatement, NoLeakedStatement, Strays, Straying

\* The server has closed what was queued.
LEMMA SentStep ==
  ASSUME IInv, known' = Closed, closes' = <<>>, UNCHANGED <<size, cache, counter, ghosts>>
  PROVE  Shape' /\ Named' /\ Kept' /\ NoLeakedStatement'
<1>1. closes' \in Seq(Nat) /\ Len(closes') <= 1 /\ Range(closes') = {}
  BY DEF Range
<1> QED
  BY <1>1, ClosedKeeps DEF IInv, Shape, Named, Kept, NoLeakedStatement, Strays, Straying, ghosts

\* ... and parsed a statement that the actor takes to be refused.
LEMMA ParsedStep ==
  ASSUME IInv, stage = "prepare", NEW accepts \in BOOLEAN, Parse(accepts), Orphaned(accepts),
         closes' = <<>>, UNCHANGED <<size, cache, counter, lost, dropped>>
  PROVE  Shape' /\ Named' /\ Kept' /\ NoLeakedStatement'
<1> DEFINE new == [name |-> name, sql |-> sql]
<1>1. closes' \in Seq(Nat) /\ Len(closes') <= 1 /\ Range(closes') = {}
  BY DEF Range
<1>2. /\ sql \in Sqls /\ name \in Nat /\ new \in [name : Nat, sql : Sqls]
      /\ counter \in Nat /\ name \in 0..counter /\ new.name = name /\ new.sql = sql
  BY DEF IInv, CacheTypeOK, Query
<1>3. /\ known' \subseteq [name : Nat, sql : Sqls]
      /\ \A p \in known' : (p = new /\ accepts) \/ (p \in Closed /\ p \in known /\ p.name # name)
      /\ \A p \in Closed : p.name # name => p \in known'
  BY <1>2 DEF IInv, Shape, Closed, Parse
<1>4. Strays \subseteq Strays' /\ (accepts /\ name # Unnamed => name \in Strays')
  BY DEF Orphaned, Strays
<1> HIDE DEF new
<1>5. Shape'
  BY <1>1, <1>3 DEF IInv, Shape
<1>6. CASE size = 0
  <2>1. name = Unnamed /\ \A p \in known' : p = new
    BY <1>3, <1>6 DEF IInv, Query, Named
  <2>2. Range(cache) = {} /\ NamesOf(cache) = {}
    BY <1>6 DEF IInv, Shape, Range, NamesOf
  <2> QED
    BY <1>1, <1>2, <1>5, <1>6, <2>1, <2>2 DEF Named, Kept, NoLeakedStatement
<1>7. CASE size # 0
  <2>1. name # Unnamed /\ name \notin NamesOf(cache)
    BY <1>7 DEF IInv, Query, Fresh
  <2>2. Named'
    BY <1>1, <1>2, <1>3, <1>7, <2>1 DEF IInv, Named
  <2>3. \A o \in Range(cache) : o.name # name
    BY <2>1, NamesCached
  <2>4. Kept'
    BY <1>2, <1>3, <2>3, ClosedKeeps DEF IInv, Kept
  <2>5. NoLeakedStatement'
    BY <1>2, <1>3, <1>4, <2>1, ClosedKeeps DEF NoLeakedStatement
  <2> QED
    BY <1>5, <2>2, <2>4, <2>5
<1> QED
  BY <1>6, <1>7

LEMMA PrepareRejectedStep == ASSUME IInv, PrepareRejected PROVE IInv'
<1>1. PICK accepts \in BOOLEAN : FALSE \in Reads(accepts) /\ Parse(accepts) /\ Orphaned(accepts)
  BY DEF PrepareRejected
<1>2. Shape' /\ Named' /\ Kept' /\ NoLeakedStatement'
  BY <1>1, ParsedStep DEF PrepareRejected
<1>3. Straying'
  BY <1>1 DEF IInv, Straying, PrepareRejected, Reads, Orphaned
<1> QED
  BY <1>2, <1>3 DEF IInv, CacheTypeOK, PrepareRejected, Query, BindsItsStatement

LEMMA PrepareBreaksOffStep == ASSUME IInv, PrepareBreaksOff PROVE IInv'
<1>1. PICK accepts \in BOOLEAN : Parse(accepts) /\ Orphaned(accepts)
  BY DEF PrepareBreaksOff
<1>2. Shape' /\ Named' /\ Kept' /\ NoLeakedStatement'
  BY <1>1, ParsedStep DEF PrepareBreaksOff
<1> QED
  BY <1>2 DEF IInv, CacheTypeOK, PrepareBreaksOff, Query, Straying, BindsItsStatement

LEMMA BindStep == ASSUME IInv, Bind PROVE IInv'
<1>1. Shape' /\ Named' /\ Kept' /\ NoLeakedStatement'
  BY SentStep DEF Bind
<1>2. /\ UNCHANGED <<size, cache, counter, sql, name, attempt, ghosts, lost, dropped, orphans, inStep>>
      /\ closes' = <<>> /\ stage = "bind" /\ stage' \in {"idle", "refused"}
  BY DEF Bind, ghosts
<1>3. CacheTypeOK'
  BY <1>2 DEF IInv, CacheTypeOK
<1>4. Query'
  BY <1>2 DEF IInv, Query
<1> DEFINE found == {p \in Closed : p.name = name}
<1>5. found = {} => name \in dropped
  <2>1. CASE size = 0
    <3>1. Closed = known
      BY <2>1 DEF IInv, Named, Closed, Range
    <3> QED
      BY <1>2, <2>1, <3>1 DEF IInv, Query, Ready, Named
  <2>2. CASE size # 0
    BY <1>2, <2>2, ClosedKeeps DEF IInv, Query, Ready, Kept
  <2> QED
    BY <2>1, <2>2
<1>6. \A p \in found : p.sql = sql
  BY <1>2, ClosedKeeps DEF IInv, Query, Ready, Kept
<1>7. bound' = IF found = {} THEN "nothing" ELSE (CHOOSE p \in found : TRUE).sql
  BY DEF Bind
<1> HIDE DEF found
<1>8. bound' = sql \/ (bound' = "nothing" /\ name \in dropped)
  BY <1>5, <1>6, <1>7
<1> QED
  BY <1>1, <1>2, <1>3, <1>4, <1>8 DEF IInv, BindsItsStatement, Straying

LEMMA PrepareOkStep == ASSUME IInv, PrepareOk PROVE IInv'
<1> DEFINE new == [name |-> name, sql |-> sql]
<1>0. PICK accepts \in BOOLEAN :
        /\ TRUE \in Reads(accepts) /\ Parse(accepts)
        /\ dropped' = IF accepts THEN dropped \ {name} ELSE dropped \cup {name}
  BY DEF PrepareOk
<1>1. /\ known' = {p \in Closed : p.name # name} \cup (IF accepts THEN {new} ELSE {})
      /\ stage = "prepare" /\ stage' = "bind"
      /\ UNCHANGED <<size, counter, sql, name, attempt, bound, lost, orphans, inStep>>
  BY <1>0 DEF PrepareOk, Parse
<1>2. /\ sql \in Sqls /\ name \in Nat /\ bound = NoSql /\ new \in [name : Nat, sql : Sqls]
      /\ counter \in Nat /\ name \in 0..counter /\ new.name = name /\ new.sql = sql
  BY <1>1 DEF IInv, CacheTypeOK, Query
<1>3. /\ known' \subseteq [name : Nat, sql : Sqls]
      /\ new \in known' \/ name \in dropped'
      /\ \A n \in dropped : n # name => n \in dropped'
      /\ \A p \in known' : p = new \/ (p \in Closed /\ p \in known /\ p.name # name)
  BY <1>0, <1>1, <1>2 DEF IInv, Shape, Closed
<1>s. Straying' /\ Strays' = Strays
  BY <1>1 DEF IInv, Straying, Strays
<1> HIDE DEF new
<1>4. CASE size = 0
  <2>1. closes' = <<>> /\ cache' = cache /\ name = Unnamed
    BY <1>1, <1>4 DEF PrepareOk, IInv, Query
  <2>2. Range(cache) = {} /\ NamesOf(cache) = {}
    BY <1>4 DEF IInv, Shape, Range, NamesOf
  <2>3. closes' \in Seq(Nat) /\ Len(closes') <= 1 /\ Range(closes') = {}
    BY <2>1 DEF Range
  <2>4. \A p \in known' : p = new
    BY <1>3, <1>4, <2>1 DEF IInv, Named
  <2>5. CacheTypeOK' /\ Shape'
    BY <1>1, <1>2, <1>3, <2>1, <2>3 DEF IInv, CacheTypeOK, Shape
  <2>6. Named' /\ Kept' /\ NoLeakedStatement'
    BY <1>1, <1>2, <1>3, <1>s, <1>4, <2>1, <2>2, <2>3, <2>4 DEF Named, Kept, NoLeakedStatement, Strays, Straying
  <2>7. Query' /\ BindsItsStatement'
    BY <1>1, <1>2, <1>3, <1>4, <2>1, <2>4, <2>5 DEF Query, Ready, BindsItsStatement
  <2> QED
    BY <1>s, <2>5, <2>6, <2>7 DEF IInv
<1>5. CASE size # 0
  <2> DEFINE e == Entry(sql, name)
  <2>1. e.hash = Hash[sql] /\ e.sql = sql /\ e.name = name
    BY DEF Entry
  <2>2. /\ name # Unnamed /\ name \notin NamesOf(cache) /\ name \notin Range(closes)
        /\ name \in 1..counter
    BY <1>1, <1>2, <1>5 DEF IInv, Query, Fresh, Unnamed
  <2>3. /\ cache' \in Seq(Entries) /\ Distinct(cache') /\ Len(cache') <= size
        /\ closes' \in Seq(Nat) /\ Len(closes') <= 1
        /\ \/ closes' = <<>> /\ Range(cache') = Range(cache) \cup {e}
           \/ \E o \in Range(cache) :
                /\ Range(closes') = {o.name}
                /\ Range(cache') = (Range(cache) \ {o}) \cup {e}
    BY <1>5, Prepared DEF IInv
  <2> HIDE DEF e
  <2>4. \A o \in Range(cache) : Typed(o, counter) /\ o.name # name
    BY <2>2, TypedCache, NamesCached DEF IInv, CacheTypeOK
  <2>5. e \in Range(cache') /\ \A o \in Range(cache') : o = e \/ o \in Range(cache)
    BY <2>3
  <2>6. \A n \in Range(closes') : \E o \in Range(cache) : o.name = n /\ o \notin Range(cache')
    <3>1. <<>> \in Seq(Nat) /\ Range(<<>>) = {}
      BY DEF Range
    <3> QED
      BY <2>1, <2>3, <2>4, <3>1
  <2>7. \A o \in Range(cache) : o \in Range(cache') \/ o.name \in Range(closes')
    BY <2>3
  <2>8. \A o, x \in Range(cache) : o.name = x.name => o = x
    BY DEF IInv, Shape, Distinct, Range
  <2>9. CacheTypeOK'
    <3>1. \A o \in Range(cache') : Typed(o, counter)
      BY <1>2, <2>1, <2>2, <2>4, <2>5 DEF Typed
    <3>2. /\ \A j \in DOMAIN cache' : cache'[j].sql \in Sqls /\ cache'[j].hash = Hash[cache'[j].sql]
          /\ \A m \in NamesOf(cache') : m \in 1..counter
      BY <3>1, TypedCache
    <3> QED
      BY <1>1, <1>2, <3>2 DEF IInv, CacheTypeOK
  <2>10. Shape'
    BY <1>1, <1>3, <2>3 DEF IInv, Shape
  <2>11. Named'
    <3>1. \A n \in Range(closes') : n \in 1..counter /\ n \notin NamesOf(cache')
      BY <2>1, <2>4, <2>5, <2>6, <2>8, NamesCached DEF Typed
    <3>2. \A p \in known' : p.name \in 0..counter /\ p.name # Unnamed
      BY <1>2, <1>3, <1>5, <2>2 DEF IInv, Named
    <3>3. \A p, q \in known' : p.name = q.name => p = q
      BY <1>2, <1>3 DEF IInv, Named
    <3> QED
      BY <1>1, <1>5, <3>1, <3>2, <3>3 DEF Named
  <2>12. Kept'
    <3> SUFFICES ASSUME NEW o \in Range(cache')
                 PROVE  /\ \A p \in known' : p.name = o.name => p.sql = o.sql
                        /\ o.name \in dropped' \/ \E p \in known' : p.name = o.name
      BY DEF Kept
    <3>1. CASE o = e
      BY <1>2, <1>3, <2>1, <3>1
    <3>2. CASE o \in Range(cache)
      <4>1. \A p \in known : p.name = o.name => p \in known'
        BY <1>1, <2>4, <3>2, ClosedKeeps
      <4> QED
        BY <1>1, <1>2, <1>3, <2>4, <3>2, <4>1 DEF IInv, Kept
    <3> QED
      BY <2>5, <3>1, <3>2
  <2>13. Query' /\ BindsItsStatement'
    BY <1>1, <1>2, <1>5, <2>1, <2>5, <2>9 DEF Query, Ready, BindsItsStatement
  <2>14. NoLeakedStatement'
    <3> SUFFICES ASSUME NEW p \in known'
                 PROVE  p.name \in NamesOf(cache') \cup Range(closes') \cup Strays \/ p.name = Unnamed
      BY <1>s DEF NoLeakedStatement, Strays, Straying
    <3>1. CASE p = new
      BY <1>2, <2>1, <2>5, <3>1, NamesCached
    <3>2. CASE p \in Closed
      BY <2>7, <3>2, NamesCached, ClosedKeeps
    <3> QED
      BY <1>3, <3>1, <3>2
  <2> QED
    BY <1>s, <2>9, <2>10, <2>11, <2>12, <2>13, <2>14 DEF IInv
<1> QED
  BY <1>4, <1>5

LEMMA RetryStep == ASSUME IInv, Retry PROVE IInv'
<1>1. /\ stage = "refused" /\ stage' \in {"start", "idle"} /\ attempt' \in 0..2 /\ bound' = NoSql /\ closes = <<>>
      /\ UNCHANGED <<size, counter, known, sql, name, lost, dropped, orphans, inStep>>
  BY DEF IInv, CacheTypeOK, Query, Retry, ghosts
<1>2. CASE UNCHANGED <<cache, closes>>
  BY <1>1, <1>2 DEF IInv, CacheTypeOK, Shape, Named, Kept, Query, BindsItsStatement, NoLeakedStatement, Strays, Straying
<1>3. CASE \E i \in Slots(cache, Hash[sql]) : cache' = SwapRemove(cache, i) /\ closes' = Append(closes, cache[i].name)
  <2>1. PICK i \in Slots(cache, Hash[sql]) : cache' = SwapRemove(cache, i) /\ closes' = Append(closes, cache[i].name)
    BY <1>3
  <2>2. i \in DOMAIN cache /\ cache[i] \in Range(cache) /\ cache[i] \in Entries
    BY DEF IInv, Shape, Slots, Range
  <2>3. /\ cache' \in Seq(Entries) /\ Distinct(cache') /\ Len(cache') = Len(cache) - 1
        /\ Range(cache') = Range(cache) \ {cache[i]}
    BY <2>1, <2>2, SwapRemoved DEF IInv, Shape
  <2>4. cache[i].name \in Nat /\ closes' = <<cache[i].name>>
    BY <1>1, <2>1, <2>2 DEF Entries
  <2>5. closes' \in Seq(Nat) /\ Len(closes') = 1 /\ Range(closes') = {cache[i].name}
    BY <2>4 DEF Range
  <2>6. size # 0 /\ Len(cache') <= size
    BY <2>2, <2>3 DEF IInv, Shape
  <2>7. \A o \in Range(cache) : Typed(o, counter) /\ (o # cache[i] => o.name # cache[i].name)
    <3>1. \A o \in Range(cache) : Typed(o, counter)
      BY TypedCache DEF IInv, CacheTypeOK
    <3> QED
      BY <2>2, <3>1 DEF IInv, Shape, Distinct, Range
  <2>8. CacheTypeOK'
    <3>1. /\ \A j \in DOMAIN cache' : cache'[j].sql \in Sqls /\ cache'[j].hash = Hash[cache'[j].sql]
          /\ \A m \in NamesOf(cache') : m \in 1..counter
      BY <2>3, <2>7, TypedCache
    <3> QED
      BY <1>1, <3>1 DEF IInv, CacheTypeOK
  <2>9. Shape'
    BY <1>1, <2>3, <2>5, <2>6 DEF IInv, Shape
  <2>10. Named'
    <3>1. \A n \in Range(closes') : n \in 1..counter /\ n \notin NamesOf(cache')
      BY <2>2, <2>3, <2>5, <2>7, NamesCached DEF Typed
    <3> QED
      BY <1>1, <2>6, <3>1 DEF IInv, Named
  <2>11. Kept'
    BY <1>1, <2>3 DEF IInv, Kept
  <2>12. NoLeakedStatement'
    <3>1. \A n \in NamesOf(cache) : n \in NamesOf(cache') \cup Range(closes')
      BY <2>3, <2>5, NamesCached
    <3>2. Range(closes) = {}
      BY <1>1 DEF Range
    <3> QED
      BY <1>1, <3>1, <3>2 DEF IInv, NoLeakedStatement, Strays
  <2>13. Query' /\ BindsItsStatement'
    BY <1>1, <1>3, <2>8 DEF IInv, Retry, Query, BindsItsStatement
  <2>14. Straying'
    BY <1>1 DEF IInv, Straying
  <2> QED
    BY <2>8, <2>9, <2>10, <2>11, <2>12, <2>13, <2>14 DEF IInv
<1> QED
  BY <1>2, <1>3 DEF Retry

LEMMA ServerForgetsStep == ASSUME IInv, ServerForgets PROVE IInv'
  BY DEF IInv, CacheTypeOK, Shape, Named, Kept, Query, Ready, Fresh, BindsItsStatement, NoLeakedStatement, Strays, Straying, ServerForgets

LEMMA NextIInv == IInv /\ [CacheNext]_cacheVars => IInv'
<1> SUFFICES ASSUME IInv, [CacheNext]_cacheVars PROVE IInv'
  OBVIOUS
<1>1. CASE UNCHANGED cacheVars
  BY <1>1 DEF cacheVars, ghosts, IInv, CacheTypeOK, Shape, Named, Kept, Query, Ready, Fresh, BindsItsStatement,
              NoLeakedStatement, Strays, Straying
<1> QED
  BY <1>1, TakeQueryStep, HitStep, MissStep, EncodeFailsStep, PrepareRejectedStep, PrepareBreaksOffStep, PrepareOkStep, BindStep,
     RetryStep, ServerForgetsStep DEF CacheNext, Exhausted

\* Whatever the hash function, the cache size and the order of queries, errors
\* and evictions: a Bind reaches the statement it means
\* (connection.rs, Actor::attempt_query and prepare).
THEOREM BindsReachTheirStatement == CacheSpec => []BindsItsStatement
<1>1. IInv => BindsItsStatement
  BY DEF IInv
<1> QED
  BY <1>1, InitIInv, NextIInv, PTL DEF CacheSpec

\* What the server holds is cached or waits for its Close, unless that Close was
\* lost with a request that could not be encoded, or the statement's prepare
\* reported an error when the server had parsed it (connection.rs:1615).
THEOREM NoStatementLeaks == CacheSpec => []NoLeakedStatement
<1>1. IInv => NoLeakedStatement
  BY DEF IInv
<1> QED
  BY <1>1, InitIInv, NextIInv, PTL DEF CacheSpec

\* A statement the server holds has its entry's place in the cache, or the one
\* place behind the cache.
LEMMA BoundedByCache == IInv => ServerStaysBounded
<1> SUFFICES ASSUME IInv PROVE ServerStaysBounded
  OBVIOUS
<1> DEFINE S == {p \in known : p.name \notin Strays}
           T == 1..(size + 1)
           f == [p \in S |-> IF p.name \in NamesOf(cache)
                               THEN CHOOSE i \in DOMAIN cache : cache[i].name = p.name
                               ELSE size + 1]
<1>1. size \in Nat /\ Len(cache) \in Nat /\ Len(cache) <= size /\ DOMAIN cache = 1..Len(cache)
  BY DEF IInv, Shape
<1>2. \A p \in S : p.name \in NamesOf(cache) =>
        /\ f[p] \in DOMAIN cache /\ cache[f[p]].name = p.name
  <2> SUFFICES ASSUME NEW p \in S, p.name \in NamesOf(cache)
               PROVE  f[p] \in DOMAIN cache /\ cache[f[p]].name = p.name
    OBVIOUS
  <2>1. \E i \in DOMAIN cache : cache[i].name = p.name
    BY DEF NamesOf
  <2>2. f[p] = CHOOSE i \in DOMAIN cache : cache[i].name = p.name
    OBVIOUS
  <2> QED
    BY <2>1, <2>2
<1>3. \A p \in S : p.name \notin NamesOf(cache) => f[p] = size + 1
  OBVIOUS
<1>4. f = [p \in S |-> f[p]]
  OBVIOUS
<1> HIDE DEF f
<1>5. \A p \in S : f[p] \in T
  BY <1>1, <1>2, <1>3
<1>6. \A p, q \in S : p.name \notin NamesOf(cache) /\ q.name \notin NamesOf(cache) => p.name = q.name
  <2> SUFFICES ASSUME NEW p \in S, NEW q \in S, p.name \notin NamesOf(cache), q.name \notin NamesOf(cache)
               PROVE  p.name = q.name
    OBVIOUS
  <2>1. CASE size = 0
    BY <2>1 DEF IInv, Named
  <2>2. CASE size # 0
    <3>1. p.name \in Range(closes) /\ q.name \in Range(closes)
      BY <2>2 DEF IInv, Named, NoLeakedStatement, Strays, Straying
    <3> QED
      BY <3>1 DEF IInv, Shape, Range
  <2> QED
    BY <2>1, <2>2
<1>7. \A p, q \in S : f[p] = f[q] => p = q
  <2> SUFFICES ASSUME NEW p \in S, NEW q \in S, f[p] = f[q] PROVE p.name = q.name
    BY DEF IInv, Named
  <2>1. size + 1 \notin DOMAIN cache
    BY <1>1
  <2> QED
    BY <1>2, <1>3, <1>6, <2>1
<1>8. f \in [S -> T]
  BY <1>5, <1>4
<1> HIDE DEF S, T
<1>9. f \in Injection(S, T)
  BY <1>7, <1>8 DEF Injection, IsInjective
<1>10. IsFiniteSet(T) /\ Cardinality(T) = size + 1
  BY <1>1, FS_Interval DEF T
<1>11. Cardinality(S) <= size + 1
  BY <1>9, <1>10, FS_Injection
<1> QED
  BY <1>11 DEF ServerStaysBounded, S, IInv, Straying, Strays

\* The server holds no more statements than the cache's size and one, strays
\* apart: what tests/integration.rs:1088 tests with one size holds for all
\* (connection.rs, evict_statements).  There are no strays while every query
\* can be encoded and no prepare has broken off.
THEOREM ServerIsBounded == CacheSpec => []ServerStaysBounded
  BY BoundedByCache, InitIInv, NextIInv, PTL DEF CacheSpec

=============================================================================
