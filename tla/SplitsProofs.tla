---------------------------- MODULE SplitsProofs ----------------------------
(***************************************************************************)
(* Theorems about FastUdp and CsvReader: what comes out does not depend on *)
(* how the work was cut into system calls and reads.                       *)
(*                                                                         *)
(* FastUdp, for every batch and every answer of the kernel: the invariant  *)
(* UdpInv says where on the wire the loops of send_batch stand (Cursor).   *)
(*                                                                         *)
(* CsvReader, for every set of bytes, input and configuration: a reader    *)
(* that has consumed p bytes of the input stands for the state of the      *)
(* reference parser after p bytes (Normal); CsvInv adds the states before  *)
(* the first byte (AtStart), after the last row (Over) and after a failed  *)
(* read (Broken).  The reference is a recursive function over the input,   *)
(* and what is said of it is proved by induction: a set of numbers that is *)
(* not empty has a least one (Least), by the library's well-foundedness.   *)
(***************************************************************************)
EXTENDS CsvReader, FastUdp, SequenceTheorems, FiniteSetTheorems, WellFoundedInduction, TLAPS

(* FastUdp. *)

SendItem == [segment_size : {"none", "zero", "some"}, size : Nat \ {0}]
Items == Seq(SendItem)
Positive == Nat \ {0}

\* The datagrams on the wire are the first ones of the items.
Ordered ==
  \A j \in 1..Len(wire) :
    /\ wire[j] = IF j = 1 THEN <<1, 1>> ELSE After(wire[j - 1])
    /\ wire[j][1] \in 1..Len(items)

\* Where the loops are is where the wire is.
Cursor ==
  CASE at = "ready" -> wire = <<>> /\ state.chunk_offset = 0
    [] at = "gso" -> /\ wire = <<>> /\ state.chunk_offset = 0 /\ count = 0
                     /\ Len(items) = 1 /\ Segmented(1)
    [] at = "mmsg" -> /\ state.chunk_offset = 0 /\ Upcoming = <<count + 1, 1>>
                      /\ \A i \in DOMAIN items : ~Segmented(i)
                      /\ count < Len(items)
    [] at = "loop" ->
         IF count < Len(items) /\ Segmented(count + 1)
         THEN Upcoming = IF state.chunk_offset = items[count + 1].size
                         THEN <<count + 2, 1>> ELSE <<count + 1, state.chunk_offset + 1>>
         ELSE state.chunk_offset = 0 /\ Upcoming = <<count + 1, 1>>
    [] OTHER -> TRUE

UdpInv ==
  /\ items \in Items
  /\ wire \in Seq(Positive \X Positive)
  /\ UdpTypeOK
  /\ Ordered
  /\ Cursor
  /\ CountIsSent

-----------------------------------------------------------------------------

LEMMA ItemType ==
  ASSUME items \in Items, NEW i \in 1..Len(items)
  PROVE  items[i].size \in Positive
<1>1. items[i] \in SendItem
  BY DEF Items
<1> QED
  BY <1>1 DEF SendItem, Positive

LEMMA AppendOne ==
  ASSUME NEW S, NEW s \in Seq(S), NEW e \in S
  PROVE  Append(s, e) = s \o << e >> /\ << e >> \in Seq(S) /\ << e >> # <<>>
         /\ Len(<< e >>) = 1 /\ << e >>[1] = e
  OBVIOUS

LEMMA UpcomingFirst ==
  ASSUME wire \in Seq(Positive \X Positive), items \in Items, Upcoming = <<1, 1>>
  PROVE  wire = <<>>
<1> SUFFICES ASSUME wire # <<>> PROVE FALSE
  OBVIOUS
<1>1. PICK a \in Positive, b \in Positive : wire[Len(wire)] = <<a, b>>
  <2>1. wire[Len(wire)] \in Positive \X Positive
    OBVIOUS
  <2> QED
    BY <2>1
<1>2. Upcoming = IF Segmented(a) /\ b < items[a].size THEN <<a, b + 1>> ELSE <<a + 1, 1>>
  BY <1>1 DEF Upcoming, After
<1>3. Upcoming[1] # 1 \/ Upcoming[2] # 1
  BY <1>2 DEF Positive
<1> QED
  BY <1>3

\* What is appended to the wire follows it in order.
LEMMA Extend ==
  ASSUME wire \in Seq(Positive \X Positive), Ordered,
         NEW s \in Seq(Positive \X Positive), s # <<>>,
         wire' = wire \o s, items' = items,
         s[1] = Upcoming,
         \A k \in 1..Len(s) : s[k][1] \in 1..Len(items),
         \A k \in 1..(Len(s) - 1) : s[k + 1] = After(s[k])
  PROVE  /\ wire' \in Seq(Positive \X Positive)
         /\ Ordered'
         /\ Upcoming' = After(s[Len(s)])
<1>1. PICK m \in Nat, n \in Nat : m = Len(wire) /\ n = Len(s) /\ n > 0
  OBVIOUS
<1>2. /\ wire' \in Seq(Positive \X Positive) /\ Len(wire') = m + n
      /\ \A j \in 1..m : wire'[j] = wire[j]
      /\ \A j \in 1..n : wire'[m + j] = s[j]
  BY <1>1
<1>4. ASSUME NEW j \in 1..(m + n)
      PROVE  /\ wire'[j] = IF j = 1 THEN <<1, 1>> ELSE After(wire'[j - 1])
             /\ wire'[j][1] \in 1..Len(items)
  <2>1. CASE j <= m
    <3>1. j \in 1..m /\ (j # 1 => j - 1 \in 1..m)
      BY <2>1, <1>1, <1>4
    <3>2. wire'[j] = wire[j] /\ (j # 1 => wire'[j - 1] = wire[j - 1])
      BY <3>1, <1>2
    <3> QED
      BY <3>1, <3>2, <1>1 DEF Ordered
  <2>2. CASE j = m + 1
    <3>1. wire'[j] = s[1] /\ (j # 1 => wire'[j - 1] = wire[m]) /\ (j = 1 <=> m = 0)
      BY <2>2, <1>2, <1>1
    <3>2. s[1] = IF m = 0 THEN <<1, 1>> ELSE After(wire[m])
      BY <1>1 DEF Upcoming
    <3> QED
      BY <3>1, <3>2, <1>1
  <2>3. CASE j > m + 1
    <3>1. PICK k \in 1..(n - 1) : j = m + k + 1
      <4>1. j - m - 1 \in 1..(n - 1) /\ j = m + (j - m - 1) + 1
        BY <2>3, <1>1, <1>4
      <4> QED
        BY <4>1
    <3>2. wire'[j] = s[k + 1] /\ wire'[j - 1] = s[k] /\ j # 1
      <4>1. k + 1 \in 1..n /\ k \in 1..n /\ j = m + (k + 1) /\ j - 1 = m + k /\ j # 1
        BY <3>1, <1>1
      <4> QED
        BY <4>1, <1>2
    <3> QED
      BY <3>1, <3>2, <1>1
  <2>4. j <= m \/ j = m + 1 \/ j > m + 1
    <3>1. j \in Nat /\ m \in Nat
      BY <1>1
    <3> QED
      BY <3>1
  <2> QED
    BY <2>1, <2>2, <2>3, <2>4
<1>5. Ordered'
  BY <1>2, <1>4 DEF Ordered, After, Segmented
<1>6. Upcoming' = After(s[n])
  <2>1. wire' # <<>> /\ wire'[Len(wire')] = s[n]
    BY <1>1, <1>2
  <2> QED
    BY <2>1 DEF Upcoming, After, Segmented
<1> QED
  BY <1>1, <1>2, <1>5, <1>6

-----------------------------------------------------------------------------

LEMMA UdpInitInv == UdpInit => UdpInv
<1> SUFFICES ASSUME UdpInit PROVE UdpInv
  OBVIOUS
<1>1. items \in Items
  <2>1. PICK b \in Batches : items = SubSeq(b, 1, IF Len(b) < MaxBatch THEN Len(b) ELSE MaxBatch)
    BY DEF UdpInit, Calls
  <2>2. b \in Items
    BY FastUdpAssumption DEF Items, SendItem
  <2>3. PICK n \in 0..Len(b) : items = SubSeq(b, 1, n)
    <3>1. Len(b) \in Nat
      BY <2>2 DEF Items
    <3> QED
      BY <2>1, <3>1, FastUdpAssumption
  <2>4. \A S : b \in Seq(S) => SubSeq(b, 1, n) \in Seq(S)
    BY <2>3
  <2> QED
    BY <2>2, <2>3, <2>4 DEF Items
<1>2. /\ wire \in Seq(Positive \X Positive) /\ Len(wire) = 0 /\ at = "ready" /\ count = 0
      /\ state = [gso_einval |-> FALSE, chunk_offset |-> 0] /\ wire = <<>>
  BY DEF UdpInit
<1>3. UdpTypeOK
  <2>1. Len(items) \in Nat
    BY <1>1 DEF Items
  <2> QED
    BY <1>2, <2>1 DEF UdpTypeOK
<1>4. Ordered /\ Cursor /\ CountIsSent
  BY <1>2 DEF Ordered, Cursor, CountIsSent
<1> QED
  BY <1>1, <1>2, <1>3, <1>4 DEF UdpInv

LEMMA SendBatchInv ==
  ASSUME UdpInv, SendBatch
  PROVE  UdpInv'
<1>1. /\ at = "ready" /\ count' = 0 /\ items' = items /\ state' = state /\ wire' = wire
      /\ wire = <<>> /\ state.chunk_offset = 0 /\ items \in Items /\ Len(items) \in Nat
      /\ state \in [gso_einval : BOOLEAN, chunk_offset : Nat]
  BY DEF SendBatch, UdpInv, Cursor, UdpTypeOK, Items
<1>2. /\ at' \in {"ok", "err", "gso", "mmsg", "loop"}
      /\ at' = "gso" => Len(items) = 1 /\ Segmented(1)
      /\ at' = "mmsg" => Len(items) > 1 /\ \A i \in DOMAIN items : ~Segmented(i)
  BY DEF SendBatch
<1>3. wire' \in Seq(Positive \X Positive) /\ Ordered'
  BY <1>1 DEF UdpInv, Ordered, After, Segmented
<1>4. Upcoming' = <<1, 1>>
  BY <1>1 DEF Upcoming
<1>5. UdpTypeOK'
  <2>1. 0 < Len(items) => items[1].size \in Nat \ {0}
    BY <1>1, ItemType DEF Positive
  <2> QED
    BY <1>1, <1>2, <2>1 DEF UdpTypeOK
<1>6. Cursor'
  <2>1. 0 < Len(items) => items[1].size # 0
    BY <1>1, ItemType DEF Positive
  <2> QED
    BY <1>1, <1>2, <1>4, <2>1 DEF Cursor, Segmented
<1>7. CountIsSent'
  BY <1>1, <1>4 DEF CountIsSent
<1> QED
  BY <1>1, <1>3, <1>5, <1>6, <1>7 DEF UdpInv

LEMMA GsoInv ==
  ASSUME UdpInv, Gso
  PROVE  UdpInv'
<1>1. /\ at = "gso" /\ items' = items /\ wire = <<>> /\ state.chunk_offset = 0 /\ count = 0
      /\ items \in Items /\ Len(items) = 1 /\ Segmented(1)
      /\ state \in [gso_einval : BOOLEAN, chunk_offset : Nat]
  BY DEF Gso, UdpInv, Cursor, UdpTypeOK, Items
<1>0. items[1].size \in Nat \ {0}
  BY <1>1, ItemType DEF Positive
<1>2. CASE /\ wire' = wire \o Datagrams(1) /\ count' = 1 /\ at' = "ok"
           /\ state' = [state EXCEPT !.chunk_offset = 0]
  <2>1. PICK n \in Positive : n = items[1].size
    BY <1>0 DEF Positive
  <2> DEFINE s == [k \in 1..n |-> <<1, k>>]
  <2>2. /\ s \in Seq(Positive \X Positive) /\ s # <<>> /\ Len(s) = n
        /\ \A k \in 1..n : s[k] = <<1, k>>
    BY DEF Positive
  <2>3. wire' = wire \o s
    BY <1>1, <1>2, <2>1 DEF Datagrams
  <2> HIDE DEF s
  <2>4. s[1] = Upcoming
    BY <2>2, <1>1 DEF Upcoming, Positive
  <2>5. \A k \in 1..(Len(s) - 1) : s[k + 1] = After(s[k])
    <3> SUFFICES ASSUME NEW k \in 1..(n - 1) PROVE s[k + 1] = After(s[k])
      BY <2>2
    <3>1. n \in Nat /\ k \in 1..n /\ k + 1 \in 1..n /\ k < n
      BY DEF Positive
    <3>2. s[k] = <<1, k>> /\ s[k + 1] = <<1, k + 1>>
      BY <3>1, <2>2
    <3> QED
      BY <1>1, <2>1, <3>1, <3>2 DEF After
  <2>6. \A k \in 1..Len(s) : s[k][1] \in 1..Len(items)
    BY <1>1, <2>2
  <2>7. wire' \in Seq(Positive \X Positive) /\ Ordered' /\ Upcoming' = After(s[Len(s)])
    BY <1>1, <2>2, <2>3, <2>4, <2>5, <2>6, Extend DEF UdpInv
  <2>8. Upcoming' = <<2, 1>>
    <3>1. s[Len(s)] = <<1, n>> /\ n \in Nat
      BY <2>2 DEF Positive
    <3> QED
      BY <2>1, <2>7, <3>1 DEF After
  <2>9. UdpTypeOK' /\ Cursor'
    BY <1>1, <1>2 DEF UdpTypeOK, Cursor
  <2>10. CountIsSent'
    BY <1>1, <1>2, <2>8 DEF CountIsSent
  <2> QED
    BY <1>1, <2>7, <2>9, <2>10 DEF UdpInv
<1>3. CASE at' \in {"loop", "ready", "err"} /\ count' = count /\ wire' = wire
           /\ state' \in {state, [state EXCEPT !.gso_einval = TRUE]}
  <2>1. state'.chunk_offset = 0 /\ state' \in [gso_einval : BOOLEAN, chunk_offset : Nat]
    BY <1>1, <1>3
  <2>2. wire' \in Seq(Positive \X Positive) /\ Ordered' /\ Upcoming' = <<1, 1>>
    BY <1>1, <1>3 DEF UdpInv, Ordered, Upcoming
  <2>3. UdpTypeOK'
    BY <1>0, <1>1, <1>3, <2>1 DEF UdpTypeOK
  <2>4. Cursor' /\ CountIsSent'
    BY <1>0, <1>1, <1>3, <2>1, <2>2 DEF Cursor, CountIsSent, Segmented
  <2> QED
    BY <1>1, <2>2, <2>3, <2>4 DEF UdpInv
<1> QED
  BY <1>2, <1>3 DEF Gso

LEMMA MmsgInv ==
  ASSUME UdpInv, Mmsg
  PROVE  UdpInv'
<1>1. /\ at = "mmsg" /\ items' = items /\ state' = state /\ state.chunk_offset = 0
      /\ Upcoming = <<count + 1, 1>> /\ \A i \in DOMAIN items : ~Segmented(i)
      /\ count \in Nat /\ Len(items) \in Nat /\ count < Len(items) /\ items \in Items
      /\ state \in [gso_einval : BOOLEAN, chunk_offset : Nat]
  BY DEF Mmsg, UdpInv, Cursor, UdpTypeOK, Items
<1>2. MmsgChunk \in 1..(Len(items) - count)
  BY <1>1, FastUdpAssumption DEF MmsgChunk
<1>3. ASSUME NEW sent \in 1..MmsgChunk,
             wire' = wire \o [k \in 1..sent |-> <<count + k, 1>>],
             count' = count + sent,
             at' = IF sent < MmsgChunk \/ count + sent = Len(items) THEN "ok" ELSE "mmsg"
      PROVE  UdpInv'
  <2> DEFINE s == [k \in 1..sent |-> <<count + k, 1>>]
  <2>0. sent \in Nat /\ sent > 0 /\ count + sent <= Len(items)
    BY <1>1, <1>2
  <2>1. /\ s \in Seq(Positive \X Positive) /\ s # <<>> /\ Len(s) = sent
        /\ \A k \in 1..sent : s[k] = <<count + k, 1>>
    BY <1>1, <2>0 DEF Positive
  <2>2. wire' = wire \o s
    BY <1>3
  <2> HIDE DEF s
  <2>3. s[1] = Upcoming
    BY <1>1, <2>0, <2>1
  <2>4. \A k \in 1..sent : count + k \in DOMAIN items /\ count + k \in 1..Len(items)
    BY <1>1, <2>0 DEF Items
  <2>5. \A k \in 1..sent : After(s[k]) = <<count + k + 1, 1>>
    BY <1>1, <2>1, <2>4 DEF After
  <2>6. \A k \in 1..(Len(s) - 1) : s[k + 1] = After(s[k])
    <3> SUFFICES ASSUME NEW k \in 1..(sent - 1) PROVE s[k + 1] = After(s[k])
      BY <2>1
    <3>1. k \in 1..sent /\ k + 1 \in 1..sent /\ count + k + 1 = count + (k + 1)
      BY <1>1, <2>0
    <3> QED
      BY <2>1, <2>5, <3>1
  <2>7. \A k \in 1..Len(s) : s[k][1] \in 1..Len(items)
    BY <2>1, <2>4
  <2>8. wire' \in Seq(Positive \X Positive) /\ Ordered' /\ Upcoming' = After(s[Len(s)])
    BY <1>1, <2>1, <2>2, <2>3, <2>6, <2>7, Extend DEF UdpInv
  <2>9. Upcoming' = <<count' + 1, 1>>
    BY <1>1, <1>3, <2>0, <2>1, <2>5, <2>8
  <2>10. UdpTypeOK'
    BY <1>1, <1>3, <2>0 DEF UdpTypeOK
  <2>11. Cursor'
    <3>1. at' = "mmsg" => count' < Len(items)
      BY <1>1, <1>3, <2>0
    <3> QED
      BY <1>1, <1>3, <2>9, <3>1 DEF Cursor, Segmented
  <2>12. CountIsSent'
    BY <2>9 DEF CountIsSent
  <2> QED
    BY <1>1, <2>8, <2>10, <2>11, <2>12 DEF UdpInv
<1>4. CASE /\ at' = (IF count > 0 THEN "ok" ELSE "ready") \/ at' = "err"
           /\ count' = count /\ wire' = wire
  <2>1. Upcoming' = Upcoming
    BY <1>1, <1>4 DEF Upcoming, After, Segmented
  <2>2. wire' \in Seq(Positive \X Positive) /\ Ordered'
    BY <1>1, <1>4 DEF UdpInv, Ordered, After, Segmented
  <2>3. count = 0 => wire = <<>>
    BY <1>1, UpcomingFirst DEF UdpInv
  <2>4. UdpTypeOK'
    BY <1>1, <1>4 DEF UdpTypeOK
  <2>5. Cursor' /\ CountIsSent'
    BY <1>1, <1>4, <2>1, <2>3 DEF Cursor, CountIsSent
  <2> QED
    BY <1>1, <2>2, <2>4, <2>5 DEF UdpInv
<1> QED
  BY <1>3, <1>4 DEF Mmsg

LEMMA LoopEndsInv ==
  ASSUME UdpInv, LoopEnds
  PROVE  UdpInv'
<1>1. /\ at = "loop" /\ at' = "ok" /\ count = Len(items) /\ count' = count /\ items' = items
      /\ state' = state /\ wire' = wire /\ Len(items) \in Nat
      /\ Upcoming = <<count + 1, 1>>
  BY DEF LoopEnds, UdpInv, Cursor, Items
<1>2. Upcoming' = Upcoming
  BY <1>1 DEF Upcoming, After, Segmented
<1>3. UdpTypeOK' /\ Cursor' /\ CountIsSent'
  BY <1>1, <1>2 DEF UdpInv, UdpTypeOK, Cursor, CountIsSent
<1> QED
  BY <1>1, <1>3 DEF UdpInv, Ordered, After, Segmented

LEMMA PlainInv ==
  ASSUME UdpInv, Plain
  PROVE  UdpInv'
<1>1. /\ at = "loop" /\ count < Len(items) /\ ~Segmented(count + 1) /\ items' = items
      /\ state' = state /\ state.chunk_offset = 0 /\ Upcoming = <<count + 1, 1>>
      /\ count \in Nat /\ Len(items) \in Nat /\ items \in Items
      /\ state \in [gso_einval : BOOLEAN, chunk_offset : Nat]
  BY DEF Plain, UdpInv, Cursor, UdpTypeOK, Items
<1>2. CASE wire' = Append(wire, <<count + 1, 1>>) /\ count' = count + 1 /\ at' = at
  <2> DEFINE s == << <<count + 1, 1>> >>
  <2>0. <<count + 1, 1>> \in Positive \X Positive
    BY <1>1 DEF Positive
  <2>1. s \in Seq(Positive \X Positive) /\ s # <<>> /\ Len(s) = 1 /\ s[1] = <<count + 1, 1>>
    BY <2>0, AppendOne
  <2>2. wire' = wire \o s
    BY <1>2, <2>0, AppendOne DEF UdpInv
  <2> HIDE DEF s
  <2>9. /\ \A k \in 1..Len(s) : s[k][1] \in 1..Len(items)
        /\ \A k \in 1..(Len(s) - 1) : s[k + 1] = After(s[k])
    BY <1>1, <2>1
  <2>3. wire' \in Seq(Positive \X Positive) /\ Ordered' /\ Upcoming' = After(s[Len(s)])
    BY <1>1, <2>1, <2>2, <2>9, Extend DEF UdpInv
  <2>4. Upcoming' = <<count' + 1, 1>>
    BY <1>1, <1>2, <2>1, <2>3 DEF After
  <2>5. count' < Len(items) => items[count' + 1].size \in Nat \ {0}
    <3>1. count' < Len(items) => count' + 1 \in 1..Len(items)
      BY <1>1, <1>2
    <3> QED
      BY <1>1, <3>1, ItemType DEF Positive
  <2>6. UdpTypeOK'
    BY <1>1, <1>2, <2>5 DEF UdpTypeOK
  <2>7. Cursor' /\ CountIsSent'
    BY <1>1, <1>2, <2>4, <2>5 DEF Cursor, CountIsSent, Segmented
  <2> QED
    BY <1>1, <2>3, <2>6, <2>7 DEF UdpInv
<1>3. CASE /\ at' = (IF count = 0 THEN "ready" ELSE "ok") \/ at' = "err"
           /\ count' = count /\ wire' = wire
  <2>1. Upcoming' = Upcoming
    BY <1>1, <1>3 DEF Upcoming, After, Segmented
  <2>2. wire' \in Seq(Positive \X Positive) /\ Ordered'
    BY <1>1, <1>3 DEF UdpInv, Ordered, After, Segmented
  <2>3. count = 0 => wire = <<>>
    BY <1>1, UpcomingFirst DEF UdpInv
  <2>4. UdpTypeOK'
    BY <1>1, <1>3 DEF UdpTypeOK
  <2>5. Cursor' /\ CountIsSent'
    BY <1>1, <1>3, <2>1, <2>3 DEF Cursor, CountIsSent
  <2> QED
    BY <1>1, <2>2, <2>4, <2>5 DEF UdpInv
<1> QED
  BY <1>2, <1>3 DEF Plain

LEMMA SegmentInv ==
  ASSUME UdpInv, Segment
  PROVE  UdpInv'
<1>1. /\ at = "loop" /\ count < Len(items) /\ Segmented(count + 1) /\ items' = items
      /\ count' = count /\ count \in Nat /\ Len(items) \in Nat /\ items \in Items
      /\ state \in [gso_einval : BOOLEAN, chunk_offset : Nat]
  BY DEF Segment, UdpInv, Cursor, UdpTypeOK, Items
<1>2. PICK o \in Nat, z \in Positive :
        o = state.chunk_offset /\ z = items[count + 1].size /\ o < z
  <2>1. count + 1 \in 1..Len(items)
    BY <1>1
  <2>2. items[count + 1].size \in Positive
    BY <1>1, <2>1, ItemType
  <2> QED
    BY <1>1, <2>2 DEF Segment
<1>3. Upcoming = <<count + 1, o + 1>>
  BY <1>1, <1>2 DEF UdpInv, Cursor, Positive
<1>4. CASE /\ wire' = Append(wire, <<count + 1, state.chunk_offset + 1>>)
           /\ state' = [state EXCEPT !.chunk_offset = @ + 1]
           /\ at' = at
  <2> DEFINE s == << <<count + 1, o + 1>> >>
  <2>0. <<count + 1, o + 1>> \in Positive \X Positive
    BY <1>1, <1>2 DEF Positive
  <2>1. s \in Seq(Positive \X Positive) /\ s # <<>> /\ Len(s) = 1 /\ s[1] = <<count + 1, o + 1>>
    BY <2>0, AppendOne
  <2>2. wire' = wire \o s
    <3>1. PICK e \in Positive \X Positive : e = <<count + 1, o + 1>>
      BY <2>0
    <3>2. wire' = Append(wire, e)
      BY <1>2, <1>4, <3>1
    <3>3. wire' = wire \o << e >>
      BY <3>2, AppendOne DEF UdpInv
    <3> QED
      BY <3>1, <3>3
  <2> HIDE DEF s
  <2>9. /\ \A k \in 1..Len(s) : s[k][1] \in 1..Len(items)
        /\ \A k \in 1..(Len(s) - 1) : s[k + 1] = After(s[k])
    BY <1>1, <2>1
  <2>3. wire' \in Seq(Positive \X Positive) /\ Ordered' /\ Upcoming' = After(s[Len(s)])
    BY <1>1, <1>3, <2>1, <2>2, <2>9, Extend DEF UdpInv
  <2>4. Upcoming' = IF o + 1 < z THEN <<count + 1, o + 2>> ELSE <<count + 2, 1>>
    <3>1. Upcoming' = IF Segmented(count + 1) /\ o + 1 < z THEN <<count + 1, o + 1 + 1>>
                                                         ELSE <<count + 1 + 1, 1>>
      <4>1. Upcoming' = After(<<count + 1, o + 1>>)
        BY <2>1, <2>3
      <4> QED
        BY <1>2, <4>1 DEF After
    <3>2. o + 1 + 1 = o + 2 /\ count + 1 + 1 = count + 2
      BY <1>1, <1>2
    <3> QED
      BY <1>1, <3>1, <3>2
  <2>5. state'.chunk_offset = o + 1 /\ state' \in [gso_einval : BOOLEAN, chunk_offset : Nat]
    BY <1>1, <1>2, <1>4, SMTT(40)
  <2>6. UdpTypeOK'
    BY <1>1, <1>2, <1>4, <2>5 DEF UdpTypeOK, Positive
  <2>7. Cursor' /\ CountIsSent'
    <3>1. at' = "loop" /\ count' = count /\ items' = items /\ Segmented(count + 1)'
      BY <1>1, <1>4 DEF Segmented
    <3>2. Upcoming' = IF o + 1 = z THEN <<count + 2, 1>> ELSE <<count + 1, o + 1 + 1>>
      BY <1>1, <1>2, <2>4 DEF Positive
    <3> QED
      BY <1>1, <1>2, <2>5, <3>1, <3>2 DEF Cursor, CountIsSent, Segmented
  <2> QED
    BY <1>1, <2>3, <2>6, <2>7 DEF UdpInv
<1>5. CASE /\ at' = (IF count = 0 /\ state.chunk_offset = 0 THEN "ready" ELSE "ok") \/ at' = "err"
           /\ wire' = wire /\ state' = state
  <2>1. Upcoming' = <<count + 1, o + 1>>
    BY <1>1, <1>3, <1>5 DEF Upcoming, After, Segmented
  <2>2. wire' \in Seq(Positive \X Positive) /\ Ordered'
    BY <1>1, <1>5 DEF UdpInv, Ordered, After, Segmented
  <2>3. count = 0 /\ o = 0 => wire = <<>>
    BY <1>1, <1>3, UpcomingFirst DEF UdpInv
  <2>4. UdpTypeOK'
    BY <1>1, <1>5 DEF UdpTypeOK
  <2>5. Cursor' /\ CountIsSent'
    BY <1>1, <1>2, <1>5, <2>1, <2>3 DEF Cursor, CountIsSent, Segmented
  <2> QED
    BY <1>1, <2>2, <2>4, <2>5 DEF UdpInv
<1> QED
  BY <1>4, <1>5 DEF Segment

LEMMA SegmentsEndInv ==
  ASSUME UdpInv, SegmentsEnd
  PROVE  UdpInv'
<1>1. /\ at = "loop" /\ at' = at /\ count < Len(items) /\ Segmented(count + 1) /\ items' = items
      /\ wire' = wire /\ count' = count + 1 /\ count \in Nat /\ Len(items) \in Nat
      /\ items \in Items /\ state' = [state EXCEPT !.chunk_offset = 0]
      /\ state \in [gso_einval : BOOLEAN, chunk_offset : Nat]
  BY DEF SegmentsEnd, UdpInv, Cursor, UdpTypeOK, Items
<1>2. state'.chunk_offset = 0 /\ state' \in [gso_einval : BOOLEAN, chunk_offset : Nat]
  BY <1>1
<1>3. Upcoming' = <<count' + 1, 1>>
  <2>1. Upcoming = <<count + 2, 1>>
    BY <1>1 DEF UdpInv, Cursor, SegmentsEnd
  <2>2. Upcoming' = Upcoming
    BY <1>1 DEF Upcoming, After, Segmented
  <2> QED
    BY <1>1, <2>1, <2>2
<1>4. count' < Len(items) => items[count' + 1].size \in Nat \ {0}
  <2>1. count' < Len(items) => count' + 1 \in 1..Len(items)
    BY <1>1
  <2> QED
    BY <1>1, <2>1, ItemType DEF Positive
<1>5. UdpTypeOK'
  BY <1>1, <1>2, <1>4 DEF UdpTypeOK
<1>6. Cursor' /\ CountIsSent'
  BY <1>1, <1>2, <1>3, <1>4 DEF Cursor, CountIsSent, Segmented
<1> QED
  BY <1>1, <1>5, <1>6 DEF UdpInv, Ordered, After, Segmented

LEMMA UdpStepInv == UdpInv /\ [UdpNext]_udpVars => UdpInv'
<1> SUFFICES ASSUME UdpInv, [UdpNext]_udpVars PROVE UdpInv'
  OBVIOUS
<1>1. CASE UNCHANGED udpVars
  BY <1>1 DEF udpVars, UdpInv, UdpTypeOK, Ordered, Cursor, CountIsSent, Upcoming, After, Segmented
<1> QED
  BY <1>1, SendBatchInv, GsoInv, MmsgInv, LoopEndsInv, PlainInv, SegmentInv, SegmentsEndInv
     DEF UdpNext

LEMMA UdpInvariance == UdpSpec => []UdpInv
  BY UdpInitInv, UdpStepInv, PTL DEF UdpSpec

\* send_many sends the datagrams of its items in order and each at most once,
\* for every batch and whatever the kernel answers to each system call: no
\* retry of async_io, no batch cut short by sendmmsg and no fallback from the
\* offload repeats a datagram or leaves one out.
THEOREM DatagramsInOrderOnce == UdpSpec => []InOrderOnce
<1>1. UdpInv => InOrderOnce
  BY DEF UdpInv, InOrderOnce, Ordered
<1> QED
  BY <1>1, UdpInvariance, PTL

\* The number of items send_many returns is the number of those that are on the
\* wire, for every batch and every answer of the kernel.
THEOREM CountIsTruthful == UdpSpec => []CountIsSent
<1>1. UdpInv => CountIsSent
  BY DEF UdpInv
<1> QED
  BY <1>1, UdpInvariance, PTL

-----------------------------------------------------------------------------
(* Induction over the numbers. *)

LEMMA Least ==
  ASSUME NEW S \in SUBSET Nat, S # {}
  PROVE  \E n \in S : \A m \in S : n <= m
<1> DEFINE R == {ss \in Nat \X Nat : ss[1] < ss[2]}
<1>1. IsWellFoundedOn(R, Nat)
  BY NatLessThanWellFounded DEF OpToRel
<1>2. \E x \in S : \A y \in S : ~ (<<y, x>> \in R)
  <2> HIDE DEF R
  <2> QED
    BY <1>1, WFMin
<1>3. ASSUME NEW x \in S, NEW y \in S, ~ (<<y, x>> \in R) PROVE x <= y
  BY <1>3
<1> QED
  BY <1>2, <1>3

\* Induction: a set of numbers with 0 and every successor is all of them.
LEMMA Induction ==
  ASSUME NEW S \in SUBSET Nat, 0 \in S, \A n \in S : n + 1 \in S
  PROVE  S = Nat
<1> SUFFICES ASSUME Nat \ S # {} PROVE FALSE
  OBVIOUS
<1>1. PICK n \in Nat \ S : \A m \in Nat \ S : n <= m
  BY Least
<1>2. n - 1 \in Nat /\ n - 1 \in S
  BY <1>1
<1> QED
  BY <1>1, <1>2

-----------------------------------------------------------------------------
(* CsvReader: the types. *)

Buffers == Seq(Bytes)
RawFields == [src : {"buf", "scratch"}, start : Nat, end : Nat]
States == {"StartOfField", "InUnquoted", "InQuoted", "AfterQuote"}
Readers ==
  [buf : Buffers, scratch : Buffers, ranges : Seq(RawFields), start : Nat, line : Nat,
   record_line : Nat, field_start : Nat, scratch_field_start : Nat, state : States, num : Nat,
   pending_cr : BOOLEAN, pending_lf_quoted : BOOLEAN, bom_checked : BOOLEAN, eof : BOOLEAN]
FieldLists == Seq(Buffers)
Errors == {"none", "count", "io", "field", "columns", "unterminated", "trailing"}
Rows == [fields : FieldLists, err : Errors, line : Nat]
RefStates ==
  [rows : Seq(Rows), fields : FieldLists, cur : Buffers,
   st : {"start", "unquoted", "quoted", "quote", "skip", "stop"},
   cr : BOOLEAN, line : Nat, from : Nat, num : Nat]

\* The buffer a field is a range of, and that range is inside.
SrcOf(x, f) == IF f.src = "buf" THEN x.buf ELSE x.scratch
RangesFit(x) ==
  \A i \in 1..Len(x.ranges) :
    /\ x.ranges[i].start <= x.ranges[i].end
    /\ x.ranges[i].end <= Len(SrcOf(x, x.ranges[i]))

\* The positions of a reader are inside its buffers.
InBounds(x) ==
  /\ x.start <= Len(x.buf)
  /\ RangesFit(x)
  /\ x.state = "InUnquoted" => x.field_start <= x.start
  /\ x.state = "InQuoted" => x.scratch_field_start <= Len(x.scratch)

\* The states in which a call leaves the loop.
StateOf(x, c) ==
  /\ c = "quote" => x.start = Len(x.buf) /\ x.state = "InQuoted"
  /\ c = "bom" => x.state = "StartOfField"
  /\ c = "skip" => x.state = "AfterQuote"

CsvTypes ==
  /\ input \in Buffers /\ source \in Buffers /\ config \in Configs
  /\ rd \in Readers
  /\ InBounds(rd)
  /\ call \in {"idle", "bom", "loop", "quote", "skip", "done"}
  /\ rows \in Seq(Rows)
  /\ StateOf(rd, call)

-----------------------------------------------------------------------------
(* How a reader stands for a state of the reference. *)

\* What the reader has not consumed is the body of the input from p on.
Unread(x, src, p) ==
  /\ Len(Body) = p + (Len(x.buf) - x.start) + Len(src)
  /\ \A i \in 1..(Len(x.buf) - x.start) : x.buf[x.start + i] = Body[p + i]
  /\ \A i \in 1..Len(src) : src[i] = Body[p + (Len(x.buf) - x.start) + i]

Field(x, f) == Slice(SrcOf(x, f), f.start, f.end)
Fields(x) == [i \in 1..Len(x.ranges) |-> Field(x, x.ranges[i])]
Unquoted(x) == Slice(x.buf, x.field_start, x.start)
Quoted(x) == Slice(x.scratch, x.scratch_field_start, Len(x.scratch))

\* A "\r" was the last byte: if the reader forgot it, it knows of no "\n".
SameCr(x, s) ==
  /\ x.pending_cr => s.cr
  /\ s.cr /\ ~x.pending_cr => x.start < Len(x.buf) /\ x.buf[x.start + 1] # "n"

NoCr(x, s) == ~s.cr /\ ~x.pending_cr /\ ~x.pending_lf_quoted

MatchStart(x, s) ==
  /\ s.st = "start" /\ s.fields = Fields(x) /\ s.cur = <<>> /\ SameCr(x, s)
  /\ ~x.pending_lf_quoted /\ (s.cr => x.ranges = <<>>)
MatchUnquoted(x, s) ==
  s.st = "unquoted" /\ s.fields = Fields(x) /\ s.cur = Unquoted(x) /\ NoCr(x, s)
MatchQuoted(x, s) ==
  /\ s.st = "quoted" /\ s.fields = Fields(x) /\ s.cur = Quoted(x)
  /\ s.cr = x.pending_lf_quoted /\ ~x.pending_cr
MatchAfterQuote(x, s) ==
  /\ s.st = "quote" /\ Append(s.fields, s.cur) = Fields(x) /\ NoCr(x, s)
  /\ IF x.start < Len(x.buf) THEN x.buf[x.start + 1] # "q" ELSE x.eof

MatchLoop(x, s) ==
  /\ s.from = x.record_line
  /\ x.state = "StartOfField" => MatchStart(x, s)
  /\ x.state = "InUnquoted" => MatchUnquoted(x, s)
  /\ x.state = "InQuoted" => MatchQuoted(x, s)
  /\ x.state = "AfterQuote" => MatchAfterQuote(x, s)

MatchIdle(x, s) ==
  s.st = "start" /\ s.fields = <<>> /\ s.cur = <<>> /\ s.from = x.line /\ SameCr(x, s)

\* The quote is consumed, and what it is not known.
MatchQuote(x, s) ==
  /\ s.from = x.record_line
  /\ s.st = "quote" /\ s.fields = Fields(x) /\ s.cur = Quoted(x) /\ NoCr(x, s)

\* The byte that made the record malformed may be still ahead.
MatchSkip(x, s) ==
  /\ s.from = x.record_line /\ ~x.pending_cr
  /\ \/ s.st = "skip" /\ s.fields = Fields(x)
     \/ /\ s.st = "quote" /\ Append(s.fields, s.cur) = Fields(x)
        /\ x.start < Len(x.buf) /\ x.buf[x.start + 1] = "b"
        /\ ~(config.columns # NoLimit /\ Len(x.ranges) > config.columns)

Match(x, s, c) ==
  /\ s.num = x.num /\ s.line = x.line
  /\ c = "idle" => MatchIdle(x, s)
  /\ c = "loop" => MatchLoop(x, s)
  /\ c = "quote" => MatchQuote(x, s)
  /\ c = "skip" => MatchSkip(x, s)

-----------------------------------------------------------------------------
(* The invariant: how far a reader can be. *)

\* Nothing is parsed, and a mark may be ahead.
AtStart ==
  /\ failed = {} /\ rows = <<>> /\ input = rd.buf \o source /\ (rd.eof => source = <<>>)
  /\ \/ call = "idle" /\ rd = NewReader
     \/ /\ call = "bom" /\ config.strip
        /\ rd = [NewReader EXCEPT !.buf = rd.buf, !.eof = rd.eof, !.bom_checked = TRUE]

\* It has consumed p bytes of the body, and stands for the reference's state.
Normal ==
  /\ failed = {} /\ rd.bom_checked /\ call \in {"idle", "loop", "quote", "skip"}
  /\ rd.eof => source = <<>>
  /\ \E p \in 0..Len(Body) :
       Unread(rd, source, p) /\ Match(rd, Reference[p], call) /\ rows = Reference[p].rows

\* There is nothing left to read.
Ended ==
  /\ rd.bom_checked /\ rd.eof /\ rd.start = Len(rd.buf) /\ call \in {"idle", "loop", "done"}
  /\ call = "loop" => rd.ranges = <<>> /\ rd.state = "StartOfField"

\* The last row is returned.
Over ==
  /\ failed = {} /\ Ended /\ rows = Expected
  /\ Parsed.st = "stop" \/ rd.line = Parsed.line

\* A read failed: row k has an error.
Broken ==
  /\ failed # {} /\ rd.bom_checked
  /\ \E k \in 1..Len(rows) :
       /\ rows[k].err # "none" /\ IsPrefix(SubSeq(rows, 1, k - 1), Expected)
       /\ failed \cap {"bom", "quote"} # {} \/ (k = Len(rows) /\ Ended)

CsvInv == CsvTypes /\ (AtStart \/ Normal \/ Over \/ Broken)

\* The reference runs the input byte by byte: what its recursive definition
\* says of each number of bytes.
LEMMA ReferenceDef ==
  \A n \in Nat : Reference[n] = IF n = 0 THEN Start ELSE Take(Reference[n - 1], Body[n])
<1> DEFINE Step(g, m) == IF m = 0 THEN Start ELSE Take(g[m - 1], Body[m])
           IsRun(g, n) == g = [m \in 0..n |-> Step(g, m)]
<1>1. \A n \in Nat : \E g : IsRun(g, n)
  <2> DEFINE S == {n \in Nat : \E g : IsRun(g, n)}
  <2>1. 0 \in S
    <3> DEFINE g == [m \in 0..0 |-> Start]
    <3>1. g = [m \in 0..0 |-> Step(g, m)]
      OBVIOUS
    <3> QED
      BY <3>1
  <2>2. ASSUME NEW n \in S PROVE n + 1 \in S
    <3>1. PICK g : IsRun(g, n)
      OBVIOUS
    <3> DEFINE h == [m \in 0..(n + 1) |-> IF m = n + 1 THEN Take(g[n], Body[n + 1]) ELSE g[m]]
    <3>2. n \in Nat
      OBVIOUS
    <3>3. \A m \in 0..n : g[m] = Step(g, m)
      BY <3>1
    <3>4. \A m \in 0..n : h[m] = g[m]
      BY <3>2
    <3>5. h[n + 1] = Take(g[n], Body[n + 1])
      BY <3>2
    <3>6. ASSUME NEW m \in 0..(n + 1) PROVE h[m] = Step(h, m)
      <4>1. CASE m = n + 1
        <5>1. m # 0 /\ m - 1 = n /\ n \in 0..n
          BY <4>1, <3>2
        <5> QED
          BY <5>1, <4>1, <3>4, <3>5
      <4>2. CASE m # n + 1
        <5>1. m \in 0..n /\ (m # 0 => m - 1 \in 0..n)
          BY <4>2, <3>2
        <5> QED
          BY <5>1, <3>3, <3>4
      <4> QED
        BY <4>1, <4>2
    <3>7. DOMAIN h = 0..(n + 1) /\ h = [m \in 0..(n + 1) |-> h[m]]
      OBVIOUS
    <3> HIDE DEF h
    <3>8. h = [m \in 0..(n + 1) |-> Step(h, m)]
      BY <3>6, <3>7
    <3>9. \E gg : IsRun(gg, n + 1)
      BY <3>8
    <3> QED
      BY <3>2, <3>9
  <2> QED
    <3> HIDE DEF S
    <3>1. S \in SUBSET Nat
      BY DEF S
    <3>2. S = Nat
      BY <2>1, <2>2, <3>1, Induction
    <3> QED
      BY <3>2 DEF S
<1>2. ASSUME NEW g, NEW h, NEW n \in Nat, IsRun(g, n), IsRun(h, n + 1)
      PROVE  g[n] = h[n]
  <2> DEFINE S == {m \in Nat : m <= n => g[m] = h[m]}
  <2>1. \A m \in 0..n : g[m] = Step(g, m) /\ h[m] = Step(h, m)
    BY <1>2
  <2>2. 0 \in S
    BY <2>1
  <2>3. ASSUME NEW m \in S PROVE m + 1 \in S
    <3>1. m \in Nat /\ (m <= n => g[m] = h[m])
      OBVIOUS
    <3>2. ASSUME m + 1 <= n PROVE g[m + 1] = h[m + 1]
      <4>1. m <= n /\ m + 1 \in 0..n /\ m + 1 # 0 /\ m + 1 - 1 = m
        BY <3>1, <3>2
      <4> QED
        BY <4>1, <3>1, <2>1
    <3> QED
      BY <3>1, <3>2
  <2>4. S = Nat
    <3> HIDE DEF S
    <3>1. S \in SUBSET Nat
      BY DEF S
    <3> QED
      BY <2>2, <2>3, <3>1, Induction
  <2> QED
    BY <2>4
<1> DEFINE Run(n) == CHOOSE g : IsRun(g, n)
           F == [n \in Nat |-> Run(n)[n]]
<1>3. \A n \in Nat : IsRun(Run(n), n)
  BY <1>1
<1>4. ASSUME NEW n \in Nat PROVE F[n] = Step(F, n)
  <2>0. Run(n) = [m \in 0..n |-> Step(Run(n), m)]
    BY <1>3
  <2>1. F[n] = Run(n)[n] /\ Run(n)[n] = Step(Run(n), n)
    <3> HIDE DEF Run, Step
    <3> QED
      BY <2>0
  <2>2. CASE n = 0
    BY <2>1, <2>2
  <2>3. CASE n # 0
    <3>1. n - 1 \in Nat /\ n - 1 + 1 = n
      BY <2>3
    <3>2. F[n - 1] = Run(n - 1)[n - 1]
      BY <3>1
    <3>3. Run(n - 1)[n - 1] = Run(n)[n - 1]
      <4> HIDE DEF Run, IsRun
      <4> QED
        BY <3>1, <1>2, <1>3
    <3> QED
      BY <2>1, <2>3, <3>2, <3>3
  <2> QED
    BY <2>2, <2>3
<1>5. F = [n \in Nat |-> Step(F, n)]
  <2> HIDE DEF Step
  <2>1. F = [n \in Nat |-> F[n]]
    OBVIOUS
  <2> HIDE DEF F
  <2> QED
    BY <1>4, <2>1
<1>6. Reference = [n \in Nat |-> Step(Reference, n)]
  <2> HIDE DEF F
  <2> QED
    BY <1>5 DEF Reference
<1> QED
  <2> DEFINE f == Reference
  <2> HIDE DEF f
  <2>1. \A n \in Nat : f[n] = Step(f, n)
    BY <1>6 DEF f
  <2> QED
    BY <2>1 DEF f

-----------------------------------------------------------------------------
(* The reference. *)

LEMMA ConfigType ==
  ASSUME config \in Configs
  PROVE  /\ config.flexible \in BOOLEAN /\ config.strip \in BOOLEAN
         /\ config.field # NoLimit => config.field \in Nat
         /\ config.columns # NoLimit => config.columns \in Nat
<1>1. config \in [flexible : BOOLEAN, strip : BOOLEAN,
                  field : Nat \cup {NoLimit}, columns : Nat \cup {NoLimit}]
  BY CsvAssumption
<1> QED
  BY <1>1

LEMMA BodyType ==
  ASSUME input \in Buffers
  PROVE  Body \in Buffers
<1>0. input \in Seq(Bytes)
  BY DEF Buffers
<1>1. CASE config.strip /\ IsPrefix(Bom, input)
  <2>1. Len(Bom) \in Nat /\ Len(input) \in Nat
    BY <1>0, CsvAssumption
  <2>2. \A i \in (Len(Bom) + 1)..Len(input) : input[i] \in Bytes
    BY <1>0, <2>1
  <2>3. SubSeq(input, Len(Bom) + 1, Len(input)) \in Seq(Bytes)
    BY <2>1, <2>2, SubSeqProperties
  <2> QED
    BY <1>1, <2>3 DEF Body, Buffers
<1>2. CASE ~(config.strip /\ IsPrefix(Bom, input))
  BY <1>2 DEF Body
<1> QED
  BY <1>1, <1>2

\* What a record's end does to the state of the reference.
LEMMA EndOfType ==
  ASSUME NEW s \in RefStates, NEW fields \in FieldLists, NEW err \in Errors, NEW l \in Nat
  PROVE  /\ EndOf(s, fields, err, l) \in RefStates
         /\ \E r \in Rows : EndOf(s, fields, err, l).rows = Append(s.rows, r)
<1> DEFINE error == IF err = "none" /\ ~config.flexible /\ s.num \notin {0, Len(fields)}
                    THEN "count" ELSE err
           r == Row(fields, error, s.from)
           e == EndOf(s, fields, err, l)
<1>1. error \in Errors /\ Len(fields) \in Nat
  BY DEF Errors, FieldLists
<1>2. r \in Rows
  <2> HIDE DEF error
  <2> QED
    BY <1>1 DEF Row, Rows, RefStates
<1>3. e = [s EXCEPT !.rows = Append(@, r),
                    !.fields = <<>>, !.cur = <<>>, !.st = "start", !.line = l, !.from = l,
                    !.num = IF @ = 0 /\ error = "none" THEN Len(fields) ELSE @]
  BY DEF EndOf
<1> HIDE DEF r, error, e
<1>4. s.rows \in Seq(Rows) /\ Append(s.rows, r) \in Seq(Rows)
  BY <1>2 DEF RefStates
<1>5. e.rows = Append(s.rows, r)
  BY <1>3 DEF RefStates
<1>6. <<>> \in FieldLists /\ <<>> \in Buffers
  BY DEF FieldLists, Buffers
<1>7. (IF s.num = 0 /\ error = "none" THEN Len(fields) ELSE s.num) \in Nat
  BY <1>1 DEF RefStates
<1>8. e \in RefStates
  BY <1>3, <1>4, <1>6, <1>7 DEF RefStates
<1> QED
  BY <1>2, <1>5, <1>8 DEF e

LEMMA EndLineType ==
  ASSUME NEW s \in RefStates, NEW fields \in FieldLists, NEW err \in Errors, NEW c
  PROVE  /\ EndLine(s, fields, err, c) \in RefStates
         /\ \E r \in Rows : EndLine(s, fields, err, c).rows = Append(s.rows, r)
<1>1. s.line + 1 \in Nat
  BY DEF RefStates
<1> DEFINE e == EndOf(s, fields, err, s.line + 1)
<1>2. e \in RefStates /\ \E r \in Rows : e.rows = Append(s.rows, r)
  BY <1>1, EndOfType
<1>3. EndLine(s, fields, err, c) = [e EXCEPT !.cr = c = "r"]
  BY DEF EndLine
<1> HIDE DEF e
<1> QED
  BY <1>2, <1>3 DEF RefStates

LEMMA StopType ==
  ASSUME NEW s \in RefStates, NEW err \in Errors
  PROVE  /\ Stop(s, err) \in RefStates
         /\ \E r \in Rows : Stop(s, err).rows = Append(s.rows, r)
<1>1. s.line \in Nat /\ s.fields \in FieldLists
  BY DEF RefStates
<1> DEFINE e == EndOf(s, s.fields, err, s.line)
<1>2. e \in RefStates /\ \E r \in Rows : e.rows = Append(s.rows, r)
  BY <1>1, EndOfType
<1>3. Stop(s, err) = [e EXCEPT !.st = "stop"]
  BY DEF Stop
<1> HIDE DEF e
<1> QED
  BY <1>2, <1>3 DEF RefStates

\* A byte leaves the rows alone or adds one.
RowsFrom(s, t) == t.rows = s.rows \/ \E r \in Rows : t.rows = Append(s.rows, r)

LEMMA TakeType ==
  ASSUME NEW s \in RefStates, NEW c \in Bytes
  PROVE  Take(s, c) \in RefStates /\ RowsFrom(s, Take(s, c))
<1> DEFINE Good(t) == t \in RefStates /\ RowsFrom(s, t)
<1>0. c \in {"d", "q", "r", "n", "b"}
  BY CsvAssumption
<1>1. /\ s.fields \in FieldLists /\ s.cur \in Buffers /\ <<>> \in Buffers
      /\ Append(s.fields, s.cur) \in FieldLists /\ Append(s.fields, <<>>) \in FieldLists
      /\ <<c>> \in Buffers /\ Append(s.cur, c) \in Buffers
      /\ s.line \in Nat
  <2>1. s.fields \in FieldLists /\ s.cur \in Buffers /\ s.line \in Nat
    BY DEF RefStates
  <2>2. <<>> \in Buffers /\ <<c>> \in Buffers /\ Append(s.cur, c) \in Buffers
    BY <2>1 DEF Buffers
  <2>3. Append(s.fields, s.cur) \in FieldLists /\ Append(s.fields, <<>>) \in FieldLists
    BY <2>1, <2>2 DEF FieldLists
  <2> QED
    BY <2>1, <2>2, <2>3
<1>2. \A err \in Errors : Good(Stop(s, err))
  BY StopType DEF RowsFrom
<1>3. \A fields \in FieldLists, err \in Errors : Good(EndLine(s, fields, err, c))
  BY EndLineType DEF RowsFrom
<1>4. Good(StartByte(s, c))
  <2>1. CASE c = "n" /\ s.cr
    BY <2>1 DEF StartByte, Newline, RefStates, RowsFrom
  <2>2. CASE c \in Newline /\ ~(c = "n" /\ s.cr) /\ s.fields = <<>>
    <3>1. StartByte(s, c) = [s EXCEPT !.line = @ + 1, !.cr = c = "r"]
      BY <2>2 DEF StartByte, Newline
    <3>2. PICK l \in Nat : l = s.line + 1
      BY <1>1
    <3>3. \/ StartByte(s, c) = [s EXCEPT !.line = l, !.cr = TRUE]
          \/ StartByte(s, c) = [s EXCEPT !.line = l, !.cr = FALSE]
      BY <3>1, <3>2
    <3> QED
      BY <3>3 DEF RefStates, RowsFrom
  <2>3. CASE c \in Newline /\ ~(c = "n" /\ s.cr) /\ s.fields # <<>>
    <3>1. StartByte(s, c) = EndLine(s, Append(s.fields, <<>>), "none", c)
      BY <2>3 DEF StartByte, Newline
    <3> QED
      BY <3>1, <1>1, <1>3 DEF Errors
  <2>4. CASE c = "d"
    <3>1. StartByte(s, c) = [s EXCEPT !.fields = Append(@, <<>>), !.cr = FALSE]
      BY <2>4 DEF StartByte, Newline
    <3> QED
      BY <3>1, <1>1 DEF RefStates, RowsFrom
  <2>5. CASE c = "q"
    BY <2>5 DEF StartByte, Newline, RefStates, RowsFrom
  <2>6. CASE c = "b"
    <3>1. StartByte(s, c) = [s EXCEPT !.st = "unquoted", !.cur = <<c>>, !.cr = FALSE]
      BY <2>6 DEF StartByte, Newline
    <3> QED
      BY <3>1, <1>1 DEF RefStates, RowsFrom
  <2> QED
    BY <1>0, <2>1, <2>2, <2>3, <2>4, <2>5, <2>6 DEF Newline
<1>5. Good(UnquotedByte(s, c))
  <2> DEFINE last == c \in {"d"} \cup Newline
             long == TooLong(IF last THEN s.cur ELSE Append(s.cur, c))
  <2>1. CASE long
    <3>1. UnquotedByte(s, c) = Stop(s, "field")
      BY <2>1 DEF UnquotedByte
    <3> QED
      BY <3>1, <1>2 DEF Errors
  <2>2. CASE ~long /\ c = "d"
    <3>1. UnquotedByte(s, c) = [s EXCEPT !.fields = Append(s.fields, s.cur), !.cur = <<>>, !.st = "start"]
      BY <2>2 DEF UnquotedByte, Newline
    <3> QED
      BY <3>1, <1>1 DEF RefStates, RowsFrom
  <2>3. CASE ~long /\ c \in Newline
    <3>1. UnquotedByte(s, c) = EndLine(s, Append(s.fields, s.cur), "none", c)
      BY <2>3 DEF UnquotedByte, Newline
    <3> QED
      BY <3>1, <1>1, <1>3 DEF Errors
  <2>4. CASE ~long /\ ~last
    <3>1. UnquotedByte(s, c) = [s EXCEPT !.cur = Append(@, c)]
      BY <2>4 DEF UnquotedByte, Newline
    <3> QED
      BY <3>1, <1>1 DEF RefStates, RowsFrom
  <2> QED
    BY <2>1, <2>2, <2>3, <2>4
<1>6. Good(QuotedByte(s, c))
  <2> DEFINE long == TooLong(IF c = "q" THEN s.cur ELSE Append(s.cur, c))
  <2>1. CASE long
    <3>1. QuotedByte(s, c) = Stop(s, "field")
      BY <2>1 DEF QuotedByte
    <3> QED
      BY <3>1, <1>2 DEF Errors
  <2>2. CASE ~long /\ c = "q"
    <3>1. QuotedByte(s, c) = [s EXCEPT !.st = "quote", !.cr = FALSE]
      BY <2>2 DEF QuotedByte
    <3> QED
      BY <3>1 DEF RefStates, RowsFrom
  <2>3. CASE ~long /\ c # "q"
    <3> DEFINE l == IF c = "r" \/ (c = "n" /\ ~s.cr) THEN s.line + 1 ELSE s.line
    <3>1. QuotedByte(s, c) = [s EXCEPT !.cur = Append(@, c), !.cr = c = "r", !.line = l]
      BY <2>3 DEF QuotedByte
    <3>2. l \in Nat
      BY <1>1
    <3> HIDE DEF l
    <3> QED
      BY <3>1, <3>2, <1>1 DEF RefStates, RowsFrom
  <2> QED
    BY <2>1, <2>2, <2>3
<1>7. Good(QuoteByte(s, c))
  <2>1. CASE c = "q"
    <3>1. QuoteByte(s, c) = [s EXCEPT !.st = "quoted", !.cur = Append(@, c)]
      BY <2>1 DEF QuoteByte
    <3> QED
      BY <3>1, <1>1 DEF RefStates, RowsFrom
  <2>2. CASE c # "q"
    <3> DEFINE t == [s EXCEPT !.fields = Append(@, s.cur), !.cur = <<>>]
    <3>1. t \in RefStates /\ t.rows = s.rows
      BY <1>1 DEF RefStates
    <3>2. QuoteByte(s, c) = AfterByte(t, c)
      BY <2>2 DEF QuoteByte
    <3> HIDE DEF t
    <3>3. t.fields \in FieldLists
      BY <3>1 DEF RefStates
    <3>4. Good(Stop(t, "columns")) /\ Good(EndLine(t, t.fields, "none", c))
      <4>1. "columns" \in Errors /\ "none" \in Errors
        BY DEF Errors
      <4>2. Stop(t, "columns") \in RefStates /\ \E r \in Rows : Stop(t, "columns").rows = Append(t.rows, r)
        BY <3>1, <4>1, StopType
      <4>3. /\ EndLine(t, t.fields, "none", c) \in RefStates
            /\ \E r \in Rows : EndLine(t, t.fields, "none", c).rows = Append(t.rows, r)
        BY <3>1, <3>3, <4>1, EndLineType
      <4> QED
        BY <3>1, <4>2, <4>3 DEF RowsFrom
    <3>5. Good([t EXCEPT !.st = "start"]) /\ Good([t EXCEPT !.st = "skip"])
      BY <3>1 DEF RefStates, RowsFrom
    <3>6. AfterByte(t, c) \in {Stop(t, "columns"), EndLine(t, t.fields, "none", c),
                               [t EXCEPT !.st = "start"], [t EXCEPT !.st = "skip"]}
      BY <1>0 DEF AfterByte, Newline
    <3> HIDE DEF Good
    <3> QED
      BY <3>2, <3>4, <3>5, <3>6
  <2> QED
    BY <2>1, <2>2
<1>8. Good(SkipByte(s, c))
  BY <1>1, <1>3 DEF SkipByte, Errors, RowsFrom
<1>9. Take(s, c) \in {s, Stop(s, "columns"), StartByte(s, c), UnquotedByte(s, c), QuotedByte(s, c),
                      QuoteByte(s, c), SkipByte(s, c)}
  <2>1. s.st \in {"start", "unquoted", "quoted", "quote", "skip", "stop"}
    BY DEF RefStates
  <2> QED
    BY <2>1 DEF Take
<1>10. Good(s) /\ Good(Stop(s, "columns"))
  BY <1>2 DEF RowsFrom, Errors
<1> QED
  <2> HIDE DEF Good
  <2>1. Good(Take(s, c))
    BY <1>4, <1>5, <1>6, <1>7, <1>8, <1>9, <1>10
  <2> QED
    BY <2>1 DEF Good

LEMMA ReferenceType ==
  ASSUME input \in Buffers
  PROVE  \A n \in 0..Len(Body) : Reference[n] \in RefStates
<1>1. Body \in Seq(Bytes) /\ Len(Body) \in Nat
  BY BodyType DEF Buffers
<1> DEFINE S == {n \in Nat : n <= Len(Body) => Reference[n] \in RefStates}
<1>2. 0 \in S
  <2>1. Start \in RefStates
    BY DEF Start, RefStates, FieldLists, Buffers
  <2>2. Reference[0] = Start
    BY ReferenceDef
  <2> QED
    BY <2>1, <2>2
<1>3. ASSUME NEW n \in S PROVE n + 1 \in S
  <2>1. n \in Nat /\ (n <= Len(Body) => Reference[n] \in RefStates)
    OBVIOUS
  <2>2. ASSUME n + 1 <= Len(Body) PROVE Reference[n + 1] \in RefStates
    <3>1. n <= Len(Body) /\ n + 1 \in 1..Len(Body) /\ n + 1 \in Nat /\ n + 1 # 0 /\ n + 1 - 1 = n
      BY <2>1, <2>2, <1>1
    <3>2. Reference[n + 1] = Take(Reference[n], Body[n + 1])
      BY <3>1, ReferenceDef
    <3>3. Body[n + 1] \in Bytes
      BY <1>1, <3>1
    <3> QED
      BY <2>1, <3>1, <3>2, <3>3, TakeType
  <2> QED
    BY <2>1, <2>2
<1>4. S = Nat
  <2> HIDE DEF S
  <2>1. S \in SUBSET Nat
    BY DEF S
  <2> QED
    BY <1>2, <1>3, <2>1, Induction
<1> QED
  BY <1>1, <1>4

\* One byte more.
LEMMA ReferenceStep ==
  ASSUME input \in Buffers, NEW n \in 0..Len(Body), n < Len(Body)
  PROVE  /\ n + 1 \in 0..Len(Body) /\ Body[n + 1] \in Bytes
         /\ Reference[n + 1] = Take(Reference[n], Body[n + 1])
         /\ Reference[n] \in RefStates /\ Reference[n + 1] \in RefStates
         /\ RowsFrom(Reference[n], Reference[n + 1])
<1>1. Body \in Seq(Bytes) /\ Len(Body) \in Nat
  BY BodyType DEF Buffers
<1>2. /\ n + 1 \in 1..Len(Body) /\ n + 1 \in 0..Len(Body)
      /\ n + 1 \in Nat /\ n + 1 # 0 /\ n + 1 - 1 = n
  BY <1>1
<1>3. Body[n + 1] \in Bytes
  BY <1>1, <1>2
<1>4. Reference[n + 1] = Take(Reference[n], Body[n + 1])
  BY <1>2, ReferenceDef
<1>5. Reference[n] \in RefStates /\ Reference[n + 1] \in RefStates
  BY <1>2, ReferenceType
<1> QED
  BY <1>2, <1>3, <1>4, <1>5, TakeType

\* The rows of a part of the input are the first ones of a longer part.
StartsWith(t, s) == Len(s) <= Len(t) /\ \A i \in 1..Len(s) : t[i] = s[i]

LEMMA RowsGrow ==
  ASSUME input \in Buffers, NEW p \in 0..Len(Body)
  PROVE  \A q \in p..Len(Body) : StartsWith(Reference[q].rows, Reference[p].rows)
<1>1. Body \in Seq(Bytes) /\ Len(Body) \in Nat
  BY BodyType DEF Buffers
<1>2. \A n \in 0..Len(Body) : Reference[n].rows \in Seq(Rows)
  BY ReferenceType DEF RefStates
<1> DEFINE a == Reference[p].rows
           S == {n \in Nat : p + n <= Len(Body) => StartsWith(Reference[p + n].rows, a)}
<1>3. 0 \in S
  <2>1. Len(a) \in Nat /\ p + 0 = p
    BY <1>1, <1>2
  <2> QED
    BY <2>1 DEF StartsWith
<1>4. ASSUME NEW n \in S PROVE n + 1 \in S
  <2>1. n \in Nat /\ (p + n <= Len(Body) => StartsWith(Reference[p + n].rows, a))
    OBVIOUS
  <2>2. ASSUME p + (n + 1) <= Len(Body) PROVE StartsWith(Reference[p + (n + 1)].rows, a)
    <3>1. p + n \in 0..Len(Body) /\ p + n < Len(Body) /\ (p + n) + 1 = p + (n + 1)
      BY <2>1, <2>2, <1>1
    <3> DEFINE b == Reference[p + n].rows
               c == Reference[(p + n) + 1].rows
    <3>2. StartsWith(b, a)
      BY <2>1, <3>1, <1>1
    <3>3. c = b \/ \E r \in Rows : c = Append(b, r)
      BY <3>1, ReferenceStep DEF RowsFrom
    <3>4. a \in Seq(Rows) /\ b \in Seq(Rows)
      BY <1>2, <3>1
    <3> HIDE DEF a, b, c
    <3>5. StartsWith(c, a)
      BY <3>2, <3>3, <3>4, SMTT(40) DEF StartsWith
    <3> QED
      BY <3>1, <3>5 DEF c
  <2> QED
    BY <2>1, <2>2
<1>5. S = Nat
  <2> HIDE DEF S
  <2>1. S \in SUBSET Nat
    BY DEF S
  <2> QED
    BY <1>3, <1>4, <2>1, Induction
<1> QED
  <2> SUFFICES ASSUME NEW q \in p..Len(Body) PROVE StartsWith(Reference[q].rows, a)
    OBVIOUS
  <2>1. q - p \in Nat /\ p + (q - p) = q /\ q <= Len(Body)
    BY <1>1
  <2>2. q - p \in S
    BY <2>1, <1>5
  <2> QED
    BY <2>1, <2>2

\* The reference stays where it stopped.
LEMMA StoppedForGood ==
  ASSUME input \in Buffers, NEW p \in 0..Len(Body), Reference[p].st = "stop"
  PROVE  Parsed = Reference[p] /\ Expected = Reference[p].rows
<1>1. Body \in Seq(Bytes) /\ Len(Body) \in Nat
  BY BodyType DEF Buffers
<1> DEFINE S == {n \in Nat : p + n <= Len(Body) => Reference[p + n] = Reference[p]}
<1>2. 0 \in S
  BY <1>1
<1>3. ASSUME NEW n \in S PROVE n + 1 \in S
  <2>1. n \in Nat /\ (p + n <= Len(Body) => Reference[p + n] = Reference[p])
    OBVIOUS
  <2>2. ASSUME p + (n + 1) <= Len(Body) PROVE Reference[p + (n + 1)] = Reference[p]
    <3>1. p + n \in 0..Len(Body) /\ p + n < Len(Body) /\ (p + n) + 1 = p + (n + 1)
      BY <2>1, <2>2, <1>1
    <3>2. Reference[p + (n + 1)] = Take(Reference[p], Body[p + (n + 1)])
      BY <3>1, <2>1, <1>1, ReferenceStep
    <3> QED
      BY <3>2 DEF Take
  <2> QED
    BY <2>1, <2>2
<1>4. S = Nat
  <2> HIDE DEF S
  <2>1. S \in SUBSET Nat
    BY DEF S
  <2> QED
    BY <1>2, <1>3, <2>1, Induction
<1>5. Parsed = Reference[p]
  <2>1. Len(Body) - p \in Nat /\ p + (Len(Body) - p) = Len(Body) /\ Len(Body) <= Len(Body)
    BY <1>1
  <2>2. Len(Body) - p \in S
    BY <2>1, <1>4
  <2> QED
    BY <2>1, <2>2 DEF Parsed
<1>6. Expected = Parsed.rows
  BY <1>5 DEF Expected, Finish
<1> QED
  BY <1>5, <1>6

LEMMA PrefixOfExpected ==
  ASSUME input \in Buffers, NEW p \in 0..Len(Body)
  PROVE  IsPrefix(Reference[p].rows, Expected)
<1>1. Body \in Seq(Bytes) /\ Len(Body) \in Nat
  BY BodyType DEF Buffers
<1>2. Parsed \in RefStates /\ StartsWith(Parsed.rows, Reference[p].rows)
  BY <1>1, ReferenceType, RowsGrow DEF Parsed
<1>3. Expected = Parsed.rows \/ \E r \in Rows : Expected = Append(Parsed.rows, r)
  <2> DEFINE s == Parsed
  <2>0. s \in RefStates
    BY <1>2
  <2> HIDE DEF s
  <2>1. /\ s.line \in Nat /\ s.fields \in FieldLists /\ Append(s.fields, <<>>) \in FieldLists
        /\ Append(s.fields, s.cur) \in FieldLists
    <3>1. s.line \in Nat /\ s.fields \in FieldLists /\ s.cur \in Buffers /\ <<>> \in Buffers
      BY <2>0 DEF RefStates, Buffers
    <3> QED
      BY <3>1 DEF FieldLists
  <2>2. \A fields \in FieldLists, err \in Errors :
          \E r \in Rows : EndOf(s, fields, err, s.line).rows = Append(s.rows, r)
    BY <2>0, <2>1, EndOfType
  <2>3. /\ "none" \in Errors /\ "unterminated" \in Errors /\ "trailing" \in Errors
    BY DEF Errors
  <2>4. Finish(s) \in {EndOf(s, Append(s.fields, <<>>), "none", s.line).rows,
                       EndOf(s, Append(s.fields, s.cur), "none", s.line).rows,
                       EndOf(s, s.fields, "unterminated", s.line).rows,
                       EndOf(s, s.fields, "trailing", s.line).rows, s.rows}
    BY DEF Finish
  <2>5. Finish(s) = s.rows \/ \E r \in Rows : Finish(s) = Append(s.rows, r)
    BY <2>1, <2>2, <2>3, <2>4
  <2> QED
    BY <2>5 DEF Expected, s
<1> DEFINE a == Reference[p].rows
           b == Parsed.rows
<1>4. a \in Seq(Rows) /\ b \in Seq(Rows)
  BY <1>1, <1>2, ReferenceType DEF RefStates
<1> HIDE DEF a, b
<1>5. Expected \in Seq(Rows) /\ StartsWith(Expected, a)
  <2>1. b \in Seq(Rows) /\ StartsWith(b, a) /\ (Expected = b \/ \E r \in Rows : Expected = Append(b, r))
    BY <1>2, <1>3, <1>4 DEF a, b
  <2>2. ASSUME NEW r \in Rows, Expected = Append(b, r)
        PROVE  Expected \in Seq(Rows) /\ StartsWith(Expected, a)
    BY <1>4, <2>1, <2>2 DEF StartsWith
  <2> QED
    BY <2>1, <2>2
<1>6. Len(a) \in Nat /\ Len(Expected) \in Nat /\ Len(a) <= Len(Expected)
  BY <1>4, <1>5 DEF StartsWith
<1>7. SubSeq(a, 1, Len(a)) = SubSeq(Expected, 1, Len(a))
  <2>1. /\ SubSeq(a, 1, Len(a)) \in Seq(Rows) /\ Len(SubSeq(a, 1, Len(a))) = Len(a)
        /\ \A i \in 1..Len(a) : SubSeq(a, 1, Len(a))[i] = a[i]
    BY <1>4, <1>6
  <2>2. /\ SubSeq(Expected, 1, Len(a)) \in Seq(Rows) /\ Len(SubSeq(Expected, 1, Len(a))) = Len(a)
        /\ \A i \in 1..Len(a) : SubSeq(Expected, 1, Len(a))[i] = Expected[i]
    BY <1>5, <1>6
  <2> DEFINE u == SubSeq(a, 1, Len(a))
             v == SubSeq(Expected, 1, Len(a))
  <2>3. \A i \in 1..Len(u) : u[i] = v[i]
    BY <2>1, <2>2, <1>5 DEF StartsWith
  <2> HIDE DEF u, v
  <2>4. u = v
    BY <2>1, <2>2, <2>3, SeqEqual DEF u, v
  <2> QED
    BY <2>4 DEF u, v
<1> QED
  BY <1>6, <1>7 DEF IsPrefix, a

LEMMA Rigid ==
  ASSUME UNCHANGED <<config, input>>
  PROVE  Body' = Body /\ Reference' = Reference /\ Parsed' = Parsed /\ Expected' = Expected
<1>1. Body' = Body
  BY SMTT(40) DEF Body
<1>2. Reference' = Reference
  BY DEF Reference, Start, Body, Take, StartByte, UnquotedByte, QuotedByte, QuoteByte, AfterByte,
         SkipByte, EndLine, EndOf, Stop, TooWide, TooLong, Row, Newline
<1>3. Parsed' = Parsed
  BY <1>1, <1>2 DEF Parsed
<1>4. Expected' = Expected
  BY <1>3 DEF Expected, Finish, EndOf, Row
<1> QED
  BY <1>1, <1>2, <1>3, <1>4

-----------------------------------------------------------------------------
(* Sequences, and the fields of a reader. *)

LEMMA SliceGrow ==
  ASSUME NEW S, NEW s \in Seq(S), NEW t \in Seq(S), StartsWith(t, s),
         NEW a \in Nat, NEW b \in Nat, b <= Len(s)
  PROVE  Slice(s, a, b) \in Seq(S) /\ Slice(t, a, b) = Slice(s, a, b)
<1>1. Len(s) \in Nat /\ Len(t) \in Nat /\ b <= Len(t)
  BY DEF StartsWith
<1>2. \A i \in (a + 1)..b : s[i] \in S /\ t[i] \in S
  BY <1>1
<1>3. /\ SubSeq(s, a + 1, b) \in Seq(S)
      /\ Len(SubSeq(s, a + 1, b)) = IF a + 1 <= b THEN b - (a + 1) + 1 ELSE 0
      /\ \A i \in 1..(b - (a + 1) + 1) : SubSeq(s, a + 1, b)[i] = s[(a + 1) + i - 1]
  BY <1>2, SubSeqProperties
<1>4. /\ SubSeq(t, a + 1, b) \in Seq(S)
      /\ Len(SubSeq(t, a + 1, b)) = IF a + 1 <= b THEN b - (a + 1) + 1 ELSE 0
      /\ \A i \in 1..(b - (a + 1) + 1) : SubSeq(t, a + 1, b)[i] = t[(a + 1) + i - 1]
  BY <1>2, SubSeqProperties
<1> DEFINE u == SubSeq(s, a + 1, b)
           v == SubSeq(t, a + 1, b)
<1>5. ASSUME NEW i \in 1..Len(u) PROVE v[i] = u[i]
  <2>1. i \in 1..(b - (a + 1) + 1) /\ (a + 1) + i - 1 \in 1..Len(s)
    BY <1>1, <1>3, <1>5
  <2> QED
    BY <2>1, <1>3, <1>4 DEF StartsWith
<1> HIDE DEF u, v
<1>6. v = u
  BY <1>3, <1>4, <1>5, SeqEqual DEF u, v
<1>7. u \in Seq(S)
  BY <1>3 DEF u
<1> QED
  BY <1>6, <1>7 DEF u, v, Slice

LEMMA GrowRefl ==
  ASSUME NEW S, NEW s \in Seq(S)
  PROVE  StartsWith(s, s)
  BY DEF StartsWith

LEMMA GrowConcat ==
  ASSUME NEW S, NEW s \in Seq(S), NEW t \in Seq(S)
  PROVE  /\ s \o t \in Seq(S) /\ StartsWith(s \o t, s) /\ Len(s \o t) = Len(s) + Len(t)
         /\ \A i \in 1..Len(t) : (s \o t)[Len(s) + i] = t[i]
  BY DEF StartsWith

LEMMA GrowAppend ==
  ASSUME NEW S, NEW s \in Seq(S), NEW e \in S
  PROVE  /\ Append(s, e) \in Seq(S) /\ StartsWith(Append(s, e), s) /\ Len(Append(s, e)) = Len(s) + 1
         /\ Append(s, e)[Len(s) + 1] = e
  BY DEF StartsWith

\* A part of a sequence.
LEMMA SliceProps ==
  ASSUME NEW S, NEW s \in Seq(S), NEW a \in Nat, NEW b \in Nat, a <= b, b <= Len(s)
  PROVE  /\ Slice(s, a, b) \in Seq(S)
         /\ Len(Slice(s, a, b)) = b - a
         /\ \A i \in 1..(b - a) : Slice(s, a, b)[i] = s[a + i]
<1>1. \A i \in (a + 1)..b : s[i] \in S
  OBVIOUS
<1> DEFINE u == SubSeq(s, a + 1, b)
<1>2. /\ u \in Seq(S)
      /\ Len(u) = IF a + 1 <= b THEN b - (a + 1) + 1 ELSE 0
      /\ \A i \in 1..(b - (a + 1) + 1) : u[i] = s[(a + 1) + i - 1]
  BY <1>1, SubSeqProperties
<1> HIDE DEF u
<1>3. ASSUME NEW i \in 1..(b - a) PROVE u[i] = s[a + i]
  <2>1. (a + 1) + i - 1 = a + i /\ i \in 1..(b - (a + 1) + 1)
    OBVIOUS
  <2> QED
    BY <1>2, <2>1
<1>4. b - (a + 1) + 1 = b - a /\ (a + 1 <= b \/ b - a = 0)
  OBVIOUS
<1>5. Len(u) = b - a
  BY <1>2, <1>4
<1> QED
  BY <1>2, <1>3, <1>5 DEF u, Slice

LEMMA SliceLen ==
  ASSUME NEW S, NEW s \in Seq(S), NEW a \in Nat, NEW b \in Nat, a <= b, b <= Len(s)
  PROVE  Slice(s, a, b) \in Seq(S) /\ Len(Slice(s, a, b)) = b - a
  BY SliceProps

LEMMA ReaderType ==
  ASSUME NEW x \in Readers
  PROVE  /\ x.buf \in Seq(Bytes) /\ x.scratch \in Seq(Bytes) /\ x.ranges \in Seq(RawFields)
         /\ x.start \in Nat /\ x.line \in Nat /\ x.record_line \in Nat /\ x.field_start \in Nat
         /\ x.scratch_field_start \in Nat /\ x.state \in States /\ x.num \in Nat
         /\ x.pending_cr \in BOOLEAN /\ x.pending_lf_quoted \in BOOLEAN
         /\ x.bom_checked \in BOOLEAN /\ x.eof \in BOOLEAN
         /\ Len(x.buf) \in Nat /\ Len(x.scratch) \in Nat /\ Len(x.ranges) \in Nat
  BY DEF Readers, Buffers

LEMMA FieldsType ==
  ASSUME NEW x \in Readers, RangesFit(x)
  PROVE  Fields(x) \in FieldLists /\ Len(Fields(x)) = Len(x.ranges)
<1>1. x.buf \in Seq(Bytes) /\ x.scratch \in Seq(Bytes) /\ x.ranges \in Seq(RawFields) /\ Len(x.ranges) \in Nat
  BY ReaderType
<1>2. ASSUME NEW i \in 1..Len(x.ranges) PROVE Field(x, x.ranges[i]) \in Buffers
  <2> DEFINE f == x.ranges[i]
  <2>1. f \in RawFields
    BY <1>1
  <2>2. f.start \in Nat /\ f.end \in Nat /\ f.end <= Len(SrcOf(x, f)) /\ SrcOf(x, f) \in Seq(Bytes)
    BY <1>1, <2>1 DEF RawFields, RangesFit, SrcOf
  <2>3. Slice(SrcOf(x, f), f.start, f.end) \in Seq(Bytes)
    BY <2>2, SliceGrow, GrowRefl
  <2> QED
    BY <2>3 DEF Field, Buffers
<1> QED
  BY <1>1, <1>2 DEF Fields, FieldLists

\* A field keeps its bytes when the buffers grow.
LEMMA FieldGrow ==
  ASSUME NEW x \in Readers, NEW y \in Readers, NEW f \in RawFields,
         f.end <= Len(SrcOf(x, f)),
         StartsWith(y.buf, x.buf), StartsWith(y.scratch, x.scratch)
  PROVE  Field(y, f) = Field(x, f) /\ f.end <= Len(SrcOf(y, f))
<1>1. /\ x.buf \in Seq(Bytes) /\ x.scratch \in Seq(Bytes) /\ y.buf \in Seq(Bytes) /\ y.scratch \in Seq(Bytes)
      /\ f.start \in Nat /\ f.end \in Nat
  BY ReaderType DEF RawFields
<1> DEFINE s == SrcOf(x, f)
           t == SrcOf(y, f)
<1>2. s \in Seq(Bytes) /\ t \in Seq(Bytes) /\ StartsWith(t, s)
  BY <1>1 DEF SrcOf
<1>3. f.end <= Len(s)
  OBVIOUS
<1> HIDE DEF s, t
<1>4. Slice(t, f.start, f.end) = Slice(s, f.start, f.end)
  BY <1>1, <1>2, <1>3, SliceGrow, SMTT(40)
<1>5. f.end <= Len(t)
  BY <1>1, <1>2, <1>3 DEF StartsWith
<1> QED
  BY <1>4, <1>5 DEF Field, s, t

LEMMA FieldsGrow ==
  ASSUME NEW x \in Readers, NEW y \in Readers, RangesFit(x), y.ranges = x.ranges,
         StartsWith(y.buf, x.buf), StartsWith(y.scratch, x.scratch)
  PROVE  RangesFit(y) /\ Fields(y) = Fields(x)
<1>1. x.ranges \in Seq(RawFields) /\ Len(x.ranges) \in Nat
  BY ReaderType
<1>2. ASSUME NEW i \in 1..Len(x.ranges)
      PROVE  /\ x.ranges[i].start <= x.ranges[i].end
             /\ x.ranges[i].end <= Len(SrcOf(y, x.ranges[i]))
             /\ Field(y, x.ranges[i]) = Field(x, x.ranges[i])
  <2>1. x.ranges[i] \in RawFields
    BY <1>1
  <2>2. x.ranges[i].start <= x.ranges[i].end /\ x.ranges[i].end <= Len(SrcOf(x, x.ranges[i]))
    BY DEF RangesFit
  <2> QED
    BY <2>1, <2>2, FieldGrow
<1>3. RangesFit(y)
  BY <1>2 DEF RangesFit
<1>4. Fields(y) = Fields(x)
  BY <1>2 DEF Fields
<1> QED
  BY <1>3, <1>4

LEMMA FieldsPush ==
  ASSUME NEW x \in Readers, NEW y \in Readers, RangesFit(x),
         NEW f \in RawFields, y.ranges = Append(x.ranges, f),
         f.start <= f.end, f.end <= Len(SrcOf(y, f)),
         StartsWith(y.buf, x.buf), StartsWith(y.scratch, x.scratch)
  PROVE  RangesFit(y) /\ Fields(y) = Append(Fields(x), Field(y, f)) /\ Len(y.ranges) = Len(x.ranges) + 1
<1>1. PICK n \in Nat : n = Len(x.ranges)
  BY ReaderType
<1>2. x.ranges \in Seq(RawFields)
  BY ReaderType
<1>3. /\ Len(y.ranges) = n + 1 /\ y.ranges[n + 1] = f
      /\ \A i \in 1..n : y.ranges[i] = x.ranges[i] /\ x.ranges[i] \in RawFields
  BY <1>1, <1>2
<1>4. ASSUME NEW i \in 1..n
      PROVE  /\ y.ranges[i].start <= y.ranges[i].end
             /\ y.ranges[i].end <= Len(SrcOf(y, y.ranges[i]))
             /\ Field(y, y.ranges[i]) = Field(x, x.ranges[i])
  <2>1. x.ranges[i] \in RawFields /\ y.ranges[i] = x.ranges[i]
    BY <1>3
  <2>2. x.ranges[i].start <= x.ranges[i].end /\ x.ranges[i].end <= Len(SrcOf(x, x.ranges[i]))
    BY <1>1 DEF RangesFit
  <2> QED
    BY <2>1, <2>2, FieldGrow
<1>5. \A i \in 1..(n + 1) : i \in 1..n \/ i = n + 1
  OBVIOUS
<1>6. RangesFit(y)
  BY <1>3, <1>4, <1>5 DEF RangesFit
<1>7. Fields(x) \in FieldLists /\ Len(Fields(x)) = n
  BY <1>1, FieldsType
<1>8. Fields(y) \in FieldLists /\ Len(Fields(y)) = n + 1
  BY <1>3, <1>6, FieldsType
<1>9. \A i \in 1..n : Fields(y)[i] = Fields(x)[i]
  BY <1>1, <1>3, <1>4 DEF Fields
<1>10. Fields(y)[n + 1] = Field(y, f)
  BY <1>1, <1>3 DEF Fields
<1> DEFINE a == Fields(x)
           b == Fields(y)
           c == Field(y, f)
<1>11. a \in Seq(Buffers) /\ b \in Seq(Buffers) /\ c \in Buffers
  <2>1. b[n + 1] \in Buffers
    BY <1>1, <1>8 DEF FieldLists
  <2> QED
    BY <1>7, <1>8, <1>10, <2>1 DEF FieldLists
<1> HIDE DEF a, b, c
<1>12. b = Append(a, c)
  <2>1. /\ Append(a, c) \in Seq(Buffers) /\ Len(Append(a, c)) = n + 1 /\ Append(a, c)[n + 1] = c
        /\ \A i \in 1..n : Append(a, c)[i] = a[i]
    BY <1>1, <1>7, <1>11 DEF a
  <2>2. \A i \in 1..(n + 1) : b[i] = Append(a, c)[i]
    BY <1>5, <1>9, <1>10, <2>1 DEF a, b, c
  <2>3. Len(b) = n + 1
    BY <1>8 DEF b
  <2> QED
    BY <1>11, <2>1, <2>2, <2>3, SeqEqual
<1> QED
  BY <1>1, <1>3, <1>6, <1>12 DEF a, b, c

-----------------------------------------------------------------------------
(* The helpers of the parser. *)

\* build_row returns a row of the fields, and touches only the field width.
LEMMA BuildRowDoes ==
  ASSUME NEW x \in Readers, RangesFit(x), NEW err \in Errors, rows \in Seq(Rows), BuildRow(x, err)
  PROVE  /\ \E n \in Nat : rd' = [x EXCEPT !.num = n]
         /\ \E r \in Rows : rows' = Append(rows, r) /\ (err # "none" => r.err # "none")
         /\ \A s \in RefStates, l \in Nat :
              s.num = x.num /\ s.from = x.record_line /\ s.rows = rows =>
                /\ rows' = EndOf(s, Fields(x), err, l).rows
                /\ rd' = [x EXCEPT !.num = EndOf(s, Fields(x), err, l).num]
<1> DEFINE width == Len(x.ranges)
           error == IF err = "none" /\ ~config.flexible /\ x.num \notin {0, width} THEN "count" ELSE err
           r == Row(Fields(x), error, x.record_line)
           n == IF x.num = 0 /\ error = "none" THEN width ELSE x.num
<1>1. /\ rows' = Append(rows, Row([i \in 1..width |-> Slice(SrcOf(x, x.ranges[i]), x.ranges[i].start, x.ranges[i].end)],
                                  error, x.record_line))
      /\ rd' = IF x.num = 0 /\ error = "none" THEN [x EXCEPT !.num = width] ELSE x
  BY DEF BuildRow, SrcOf
<1>2. rows' = Append(rows, r)
  BY <1>1 DEF Fields, Field
<1>3. width \in Nat /\ x.num \in Nat /\ x.record_line \in Nat
  BY ReaderType
<1>4. error \in Errors /\ (err # "none" => error # "none")
  BY DEF Errors
<1>5. Fields(x) \in FieldLists /\ Len(Fields(x)) = width
  BY FieldsType
<1>6. r \in Rows /\ r.err = error
  <2> HIDE DEF error
  <2> QED
    BY <1>3, <1>4, <1>5 DEF Row, Rows
<1>7. n \in Nat /\ rd' = [x EXCEPT !.num = n]
  <2>1. n \in Nat
    BY <1>3
  <2>2. x = [x EXCEPT !.num = x.num]
    BY DEF Readers
  <2> HIDE DEF width, error
  <2> QED
    BY <1>1, <2>1, <2>2
<1>8. ASSUME NEW s \in RefStates, NEW l \in Nat, s.num = x.num, s.from = x.record_line, s.rows = rows
      PROVE  EndOf(s, Fields(x), err, l).rows = Append(rows, r) /\ EndOf(s, Fields(x), err, l).num = n
  <2> DEFINE e == EndOf(s, Fields(x), err, l)
  <2>1. e = [s EXCEPT !.rows = Append(@, r),
                      !.fields = <<>>, !.cur = <<>>, !.st = "start", !.line = l, !.from = l,
                      !.num = n]
    BY <1>5, <1>8 DEF EndOf
  <2> HIDE DEF e, r, n
  <2> QED
    BY <2>1, <1>8 DEF RefStates, e
<1> HIDE DEF r, n
<1> QED
  BY <1>2, <1>4, <1>6, <1>7, <1>8

\* memchr.
LEMMA FindProps ==
  ASSUME rd \in Readers, rd.start <= Len(rd.buf), NEW S
  PROVE  /\ Find(S) \in Nat /\ rd.start <= Find(S) /\ Find(S) <= Len(rd.buf)
         /\ \A i \in Nat : rd.start <= i /\ i < Find(S) => rd.buf[i + 1] \notin S
         /\ Find(S) < Len(rd.buf) => rd.buf[Find(S) + 1] \in S
<1>1. rd.start \in Nat /\ Len(rd.buf) \in Nat
  BY ReaderType
<1> DEFINE T == {Len(rd.buf)} \cup {i \in rd.start..(Len(rd.buf) - 1) : rd.buf[i + 1] \in S}
<1>2. T \in SUBSET Nat /\ T # {}
  BY <1>1
<1>3. \E n \in T : \A m \in T : n <= m
  <2> HIDE DEF T
  <2> QED
    BY <1>2, Least
<1> DEFINE pos == Min(T)
<1>4. Find(S) = pos
  BY DEF Find
<1>5. pos \in T /\ \A m \in T : pos <= m
  <2> HIDE DEF T
  <2> QED
    BY <1>3 DEF Min
<1> HIDE DEF pos
<1>6. pos \in Nat /\ rd.start <= pos /\ pos <= Len(rd.buf) /\ (pos < Len(rd.buf) => rd.buf[pos + 1] \in S)
  BY <1>1, <1>5
<1>7. ASSUME NEW i \in Nat, rd.start <= i, i < pos PROVE rd.buf[i + 1] \notin S
  <2>1. i \notin T
    BY <1>5, <1>6, <1>7
  <2>2. i \in rd.start..(Len(rd.buf) - 1)
    BY <1>1, <1>6, <1>7
  <2> QED
    BY <2>1, <2>2
<1> QED
  BY <1>4, <1>6, <1>7

\* Some bytes of the source, and the rest.
LEMMA Chunk ==
  ASSUME NEW S, NEW s \in Seq(S), NEW n \in 1..Len(s)
  PROVE  /\ SubSeq(s, 1, n) \in Seq(S) /\ Len(SubSeq(s, 1, n)) = n
         /\ \A i \in 1..n : SubSeq(s, 1, n)[i] = s[i]
         /\ SubSeq(s, n + 1, Len(s)) \in Seq(S) /\ Len(SubSeq(s, n + 1, Len(s))) = Len(s) - n
         /\ \A i \in 1..(Len(s) - n) : SubSeq(s, n + 1, Len(s))[i] = s[n + i]
<1>1. /\ n \in Nat /\ Len(s) \in Nat /\ n <= Len(s) /\ 0 \in Nat /\ 0 <= n /\ n - 0 = n /\ 0 + 1 = 1
      /\ Len(s) <= Len(s)
  OBVIOUS
<1>2. /\ Slice(s, 0, n) \in Seq(S) /\ Len(Slice(s, 0, n)) = n - 0
      /\ \A i \in 1..(n - 0) : Slice(s, 0, n)[i] = s[0 + i]
  BY <1>1, SliceProps, ZenonT(60)
<1>3. /\ Slice(s, n, Len(s)) \in Seq(S) /\ Len(Slice(s, n, Len(s))) = Len(s) - n
      /\ \A i \in 1..(Len(s) - n) : Slice(s, n, Len(s))[i] = s[n + i]
  BY <1>1, SliceProps, ZenonT(60)
<1>4. Slice(s, 0, n) = SubSeq(s, 1, n) /\ Slice(s, n, Len(s)) = SubSeq(s, n + 1, Len(s))
  BY DEF Slice
<1>5. \A i \in 1..n : 0 + i = i
  OBVIOUS
<1> DEFINE u == Slice(s, 0, n)
           v == Slice(s, n, Len(s))
<1> HIDE DEF u, v
<1>6. u \in Seq(S) /\ Len(u) = n /\ \A i \in 1..n : u[i] = s[i]
  BY <1>1, <1>2, <1>5 DEF u
<1> QED
  BY <1>3, <1>4, <1>6 DEF u, v

-----------------------------------------------------------------------------
(* What is unread. *)

LEMMA UnreadMore ==
  ASSUME input \in Buffers, NEW x \in Readers, x.start <= Len(x.buf), NEW src \in Buffers, NEW n \in 1..Len(src),
         NEW p \in 0..Len(Body), Unread(x, src, p),
         NEW y, y.start = x.start, y.buf = x.buf \o SubSeq(src, 1, n)
  PROVE  Unread(y, SubSeq(src, n + 1, Len(src)), p)
<1>1. /\ x.buf \in Seq(Bytes) /\ x.start \in Nat /\ Len(x.buf) \in Nat
      /\ src \in Seq(Bytes) /\ Len(src) \in Nat /\ p \in Nat /\ n \in Nat /\ n <= Len(src)
  <2>1. Body \in Seq(Bytes)
    BY BodyType DEF Buffers
  <2> QED
    BY <2>1, ReaderType DEF Buffers
<1> DEFINE u == SubSeq(src, 1, n)
           v == SubSeq(src, n + 1, Len(src))
<1>2. /\ u \in Seq(Bytes) /\ Len(u) = n /\ \A i \in 1..n : u[i] = src[i]
      /\ v \in Seq(Bytes) /\ Len(v) = Len(src) - n /\ \A i \in 1..(Len(src) - n) : v[i] = src[n + i]
  BY <1>1, Chunk
<1> HIDE DEF u, v
<1>3. y.buf \in Seq(Bytes) /\ Len(y.buf) = Len(x.buf) + n
  BY <1>1, <1>2, GrowConcat DEF u
<1>4. \A i \in 1..Len(x.buf) : y.buf[i] = x.buf[i]
  <2>1. StartsWith(x.buf \o u, x.buf)
    BY <1>1, <1>2, GrowConcat
  <2> QED
    BY <2>1 DEF StartsWith, u
<1>5. \A i \in 1..n : y.buf[Len(x.buf) + i] = u[i]
  BY <1>1, <1>2, GrowConcat, SMTT(40) DEF u
<1>6. PICK a \in Nat : a = Len(x.buf) - x.start
  BY <1>1
<1>7. PICK m \in Nat : m = Len(src)
  BY <1>1
<1>8. /\ Len(Body) = p + a + m
      /\ \A i \in 1..a : x.buf[x.start + i] = Body[p + i]
      /\ \A i \in 1..m : src[i] = Body[p + a + i]
  BY <1>6, <1>7 DEF Unread
<1>9. Len(y.buf) - y.start = a + n
  BY <1>1, <1>3, <1>6
<1>10. Len(Body) = p + (Len(y.buf) - y.start) + Len(v)
  BY <1>1, <1>2, <1>7, <1>8, <1>9
<1>11. ASSUME NEW i \in 1..(a + n) PROVE y.buf[y.start + i] = Body[p + i]
  <2>1. CASE i <= a
    <3>1. i \in 1..a /\ x.start + i \in 1..Len(x.buf)
      BY <2>1, <1>1, <1>6, SMTT(40)
    <3> QED
      BY <3>1, <1>4, <1>8
  <2>2. CASE ~(i <= a)
    <3>1. PICK k \in Nat : k = i - a
      BY <2>2
    <3>0. i \in Nat /\ i <= a + n /\ n <= m /\ Len(x.buf) = x.start + a
      BY <1>1, <1>6, <1>7
    <3>5. i = a + k /\ k # 0 /\ k <= n /\ k <= m
      BY <2>2, <3>0, <3>1
    <3>2. k \in 1..n /\ k \in 1..m /\ x.start + i = Len(x.buf) + k /\ p + a + k = p + i
      BY <3>0, <3>5, <1>1
    <3>3. y.buf[Len(x.buf) + k] = src[k]
      BY <3>2, <1>2, <1>5
    <3>4. src[k] = Body[p + a + k]
      BY <3>2, <1>8
    <3> QED
      BY <3>2, <3>3, <3>4
  <2> QED
    BY <2>1, <2>2
<1>12. ASSUME NEW i \in 1..Len(v) PROVE v[i] = Body[p + (a + n) + i]
  <2>0. i \in Nat /\ 1 <= i /\ i <= m - n
    BY <1>1, <1>2, <1>7
  <2>1. i \in 1..(Len(src) - n) /\ n + i \in 1..m /\ p + a + (n + i) = p + (a + n) + i
    BY <2>0, <1>1, <1>7
  <2> QED
    BY <2>1, <1>2, <1>8
<1>13. Unread(y, v, p)
  BY <1>9, <1>10, <1>11, <1>12 DEF Unread
<1> QED
  BY <1>13 DEF v

LEMMA UnreadSkip ==
  ASSUME input \in Buffers, NEW x \in Readers, x.start <= Len(x.buf), NEW src \in Buffers,
         NEW p \in 0..Len(Body), Unread(x, src, p),
         NEW k \in Nat, x.start + k <= Len(x.buf),
         NEW y, y.start = x.start + k, y.buf = x.buf
  PROVE  /\ p + k \in 0..Len(Body) /\ Unread(y, src, p + k)
         /\ \A i \in 1..k : Body[p + i] = x.buf[x.start + i]
<1>1. /\ x.start \in Nat /\ Len(x.buf) \in Nat /\ src \in Seq(Bytes) /\ Len(src) \in Nat /\ p \in Nat
      /\ Len(Body) \in Nat
  <2>1. Body \in Seq(Bytes)
    BY BodyType DEF Buffers
  <2> QED
    BY <2>1, ReaderType DEF Buffers
<1>2. PICK a \in Nat : a = Len(x.buf) - x.start
  BY <1>1
<1>3. /\ Len(Body) = p + a + Len(src)
      /\ \A i \in 1..a : x.buf[x.start + i] = Body[p + i]
      /\ \A i \in 1..Len(src) : src[i] = Body[p + a + i]
  BY <1>2 DEF Unread
<1>4. k <= a /\ Len(y.buf) - y.start = a - k /\ a - k \in Nat
  BY <1>1, <1>2, SMTT(40)
<1>5. p + k \in 0..Len(Body) /\ Len(Body) = (p + k) + (a - k) + Len(src)
  BY <1>1, <1>3, <1>4
<1>6. ASSUME NEW i \in 1..(a - k) PROVE y.buf[y.start + i] = Body[(p + k) + i]
  <2>1. k + i \in 1..a /\ x.start + (k + i) = (x.start + k) + i /\ p + (k + i) = (p + k) + i
    BY <1>1, <1>4
  <2> QED
    BY <2>1, <1>3
<1>7. ASSUME NEW i \in 1..Len(src) PROVE src[i] = Body[(p + k) + (a - k) + i]
  <2>1. (p + k) + (a - k) + i = p + a + i
    BY <1>1, <1>4
  <2> QED
    BY <2>1, <1>3
<1>8. Unread(y, src, p + k)
  BY <1>4, <1>5, <1>6, <1>7 DEF Unread
<1>9. \A i \in 1..k : i \in 1..a
  BY <1>4
<1> QED
  BY <1>3, <1>5, <1>8, <1>9

\* The next byte, and the state of the reference when it is taken.
LEMMA UnreadByte ==
  ASSUME input \in Buffers, NEW x \in Readers, x.start < Len(x.buf), NEW src \in Buffers,
         NEW p \in 0..Len(Body), Unread(x, src, p)
  PROVE  /\ p < Len(Body) /\ p + 1 \in 0..Len(Body) /\ Body[p + 1] = x.buf[x.start + 1]
         /\ x.buf[x.start + 1] \in Bytes
         /\ Reference[p] \in RefStates /\ Reference[p + 1] \in RefStates
         /\ Reference[p + 1] = Take(Reference[p], x.buf[x.start + 1])
         /\ \A y : y.start = x.start + 1 /\ y.buf = x.buf => Unread(y, src, p + 1)
<1>1. /\ x.start \in Nat /\ Len(x.buf) \in Nat /\ p \in Nat /\ Len(Body) \in Nat
      /\ x.start <= Len(x.buf) /\ x.start + 1 <= Len(x.buf) /\ 1 \in Nat
  <2>1. Body \in Seq(Bytes)
    BY BodyType DEF Buffers
  <2> QED
    BY <2>1, ReaderType DEF Buffers
<1>2. ASSUME NEW y, y.start = x.start + 1, y.buf = x.buf
      PROVE  p + 1 \in 0..Len(Body) /\ Unread(y, src, p + 1) /\ Body[p + 1] = x.buf[x.start + 1]
  <2>1. /\ p + 1 \in 0..Len(Body) /\ Unread(y, src, p + 1)
        /\ \A i \in 1..1 : Body[p + i] = x.buf[x.start + i]
    BY <1>1, <1>2, UnreadSkip
  <2> QED
    BY <2>1
<1>3. p + 1 \in 0..Len(Body) /\ Body[p + 1] = x.buf[x.start + 1]
  <2> DEFINE y == [start |-> x.start + 1, buf |-> x.buf]
  <2>1. y.start = x.start + 1 /\ y.buf = x.buf
    OBVIOUS
  <2> HIDE DEF y
  <2> QED
    BY <1>2, <2>1
<1>4. p < Len(Body)
  BY <1>1, <1>3
<1>5. /\ Body[p + 1] \in Bytes /\ Reference[p] \in RefStates /\ Reference[p + 1] \in RefStates
      /\ Reference[p + 1] = Take(Reference[p], Body[p + 1])
  BY <1>4, ReferenceStep
<1> QED
  BY <1>2, <1>3, <1>4, <1>5

\* Nothing is left.
LEMMA UnreadEnd ==
  ASSUME input \in Buffers, NEW x \in Readers, x.start = Len(x.buf), NEW p \in 0..Len(Body), Unread(x, <<>>, p)
  PROVE  p = Len(Body) /\ Reference[p] = Parsed /\ Parsed \in RefStates
<1>1. x.start \in Nat /\ p \in Nat /\ Len(Body) \in Nat
  <2>1. Body \in Seq(Bytes)
    BY BodyType DEF Buffers
  <2> QED
    BY <2>1, ReaderType DEF Buffers
<1>2. p = Len(Body)
  BY <1>1 DEF Unread
<1> QED
  BY <1>2, ReferenceType DEF Parsed

-----------------------------------------------------------------------------
(* Every step keeps the positions inside the buffers. *)

LEMMA TypesIntro ==
  ASSUME CsvTypes, UNCHANGED <<input, config>>, source' \in Buffers,
         NEW y \in Readers, rd' = y, InBounds(y), rows' \in Seq(Rows),
         call' \in {"idle", "bom", "loop", "quote", "skip", "done"},
         StateOf(y, call')
  PROVE  CsvTypes'
  BY DEF CsvTypes, StateOf, InBounds, RangesFit, SrcOf

LEMMA BoundsNum ==
  ASSUME NEW x \in Readers, InBounds(x), NEW n \in Nat
  PROVE  [x EXCEPT !.num = n] \in Readers /\ InBounds([x EXCEPT !.num = n])
<1> DEFINE y == [x EXCEPT !.num = n]
<1>1. y \in Readers
  BY DEF Readers
<1>2. /\ y.buf = x.buf /\ y.scratch = x.scratch /\ y.ranges = x.ranges /\ y.start = x.start
      /\ y.state = x.state /\ y.field_start = x.field_start /\ y.scratch_field_start = x.scratch_field_start
  BY DEF Readers
<1> HIDE DEF y
<1>3. InBounds(y)
  BY <1>2 DEF InBounds, RangesFit, SrcOf
<1> QED
  BY <1>1, <1>3 DEF y

LEMMA TypesReturn ==
  ASSUME CsvTypes, UNCHANGED <<input, config, source>>,
         NEW x \in Readers, InBounds(x), NEW err \in Errors, Return(x, err)
  PROVE  CsvTypes'
<1>1. rows \in Seq(Rows) /\ source \in Buffers
  BY DEF CsvTypes
<1>2. BuildRow(x, err) /\ call' = "idle" /\ RangesFit(x)
  BY DEF Return, InBounds
<1>3. PICK n \in Nat : rd' = [x EXCEPT !.num = n]
  BY <1>1, <1>2, BuildRowDoes
<1>4. PICK r \in Rows : rows' = Append(rows, r)
  BY <1>1, <1>2, BuildRowDoes
<1>5. [x EXCEPT !.num = n] \in Readers /\ InBounds([x EXCEPT !.num = n])
  BY BoundsNum
<1>6. rows' \in Seq(Rows)
  BY <1>1, <1>4
<1>7. StateOf([x EXCEPT !.num = n], call')
  BY <1>2 DEF StateOf
<1> QED
  BY <1>1, <1>2, <1>3, <1>5, <1>6, <1>7, TypesIntro

\* The state and what is inside of it when only the flags are set.
LEMMA BoundsSame ==
  ASSUME NEW x \in Readers, NEW y \in Readers, InBounds(x),
         y.buf = x.buf, y.scratch = x.scratch, y.ranges = x.ranges, y.start = x.start,
         y.state = x.state, y.field_start = x.field_start, y.scratch_field_start = x.scratch_field_start
  PROVE  InBounds(y) /\ Fields(y) = Fields(x) /\ Unquoted(y) = Unquoted(x) /\ Quoted(y) = Quoted(x)
<1>1. InBounds(y)
  BY DEF InBounds, RangesFit, SrcOf
<1>2. Fields(y) = Fields(x)
  <2>1. x.ranges \in Seq(RawFields) /\ Len(x.ranges) \in Nat
    BY ReaderType
  <2> QED
    BY <2>1 DEF Fields, Field, SrcOf
<1> QED
  BY <1>1, <1>2 DEF Unquoted, Quoted

\* The reader with n more bytes.
Grew(x, y, n) ==
  /\ y \in Readers /\ InBounds(y) /\ Fields(y) = Fields(x) /\ y.ranges = x.ranges
  /\ StartsWith(y.buf, x.buf) /\ Len(y.buf) = Len(x.buf) + n
  /\ Unquoted(y) = Unquoted(x) /\ Quoted(y) = Quoted(x)

LEMMA ReaderMore ==
  ASSUME NEW x \in Readers, InBounds(x), NEW src \in Buffers, NEW n \in 1..Len(src),
         NEW y, y = [x EXCEPT !.buf = @ \o SubSeq(src, 1, n)]
  PROVE  Grew(x, y, n)
<1>1. /\ x.buf \in Seq(Bytes) /\ x.scratch \in Seq(Bytes) /\ x.start \in Nat /\ Len(x.buf) \in Nat
      /\ x.field_start \in Nat /\ src \in Seq(Bytes) /\ Len(src) \in Nat /\ n \in Nat
  BY ReaderType DEF Buffers
<1> DEFINE b == x.buf \o SubSeq(src, 1, n)
<1>0. y = [x EXCEPT !.buf = b]
  OBVIOUS
<1>2. SubSeq(src, 1, n) \in Seq(Bytes) /\ Len(SubSeq(src, 1, n)) = n
  BY <1>1, Chunk
<1>3. b \in Seq(Bytes) /\ StartsWith(b, x.buf) /\ Len(b) = Len(x.buf) + n
  BY <1>1, <1>2, GrowConcat, ZenonT(60)
<1> HIDE DEF b
<1>4. y \in Readers /\ y.buf = b
  BY <1>0, <1>3 DEF Readers, Buffers
<1>5. /\ y.scratch = x.scratch /\ y.ranges = x.ranges /\ y.start = x.start
      /\ y.state = x.state /\ y.field_start = x.field_start /\ y.scratch_field_start = x.scratch_field_start
  BY <1>0 DEF Readers
<1>6. StartsWith(y.scratch, x.scratch) /\ StartsWith(y.buf, x.buf) /\ Len(x.buf) <= Len(y.buf)
  BY <1>1, <1>3, <1>4, <1>5, GrowRefl DEF StartsWith
<1>7. RangesFit(x) /\ x.start <= Len(x.buf)
  BY DEF InBounds
<1>8. RangesFit(y) /\ Fields(y) = Fields(x)
  BY <1>4, <1>5, <1>6, <1>7, FieldsGrow
<1>9. InBounds(y)
  <2>1. y.start <= Len(y.buf)
    BY <1>1, <1>3, <1>4, <1>5, <1>7, SMTT(40)
  <2>2. x.state = "InUnquoted" => x.field_start <= x.start
    BY DEF InBounds
  <2>3. x.state = "InQuoted" => x.scratch_field_start <= Len(x.scratch)
    BY DEF InBounds
  <2> QED
    BY <1>5, <1>8, <2>1, <2>2, <2>3 DEF InBounds
<1>10. Slice(b, x.field_start, x.start) = Slice(x.buf, x.field_start, x.start)
  BY <1>1, <1>3, <1>7, SliceGrow
<1>11. Unquoted(y) = Unquoted(x) /\ Quoted(y) = Quoted(x)
  BY <1>4, <1>5, <1>10 DEF Unquoted, Quoted
<1> QED
  BY <1>3, <1>4, <1>5, <1>6, <1>8, <1>9, <1>11 DEF Grew

\* The fields are those of the ranges and the buffers.
LEMMA SameFields ==
  ASSUME NEW x \in Readers, NEW y, RangesFit(x), y.buf = x.buf, y.scratch = x.scratch, y.ranges = x.ranges
  PROVE  RangesFit(y) /\ Fields(y) = Fields(x)
<1>1. x.ranges \in Seq(RawFields) /\ Len(x.ranges) \in Nat
  BY ReaderType
<1> QED
  BY <1>1 DEF Fields, Field, SrcOf, RangesFit

LEMMA NoSlice ==
  ASSUME NEW S, NEW s \in Seq(S), NEW a \in Nat, a <= Len(s)
  PROVE  Slice(s, a, a) = <<>>
<1>1. Slice(s, a, a) \in Seq(S) /\ Len(Slice(s, a, a)) = a - a
  BY SliceProps
<1>2. a - a = 0
  OBVIOUS
<1> QED
  BY <1>1, <1>2, EmptySeq

LEMMA PushField ==
  ASSUME NEW x \in Readers, RangesFit(x), NEW f \in RawFields, f.start <= f.end, f.end <= Len(SrcOf(x, f)),
         NEW y, y = Push(x, f)
  PROVE  /\ y = [x EXCEPT !.ranges = Append(x.ranges, f)]
         /\ y \in Readers /\ RangesFit(y) /\ Fields(y) = Append(Fields(x), Field(x, f))
         /\ Len(y.ranges) = Len(x.ranges) + 1
<1>1. y = [x EXCEPT !.ranges = Append(x.ranges, f)]
  BY DEF Push
<1>2. x.ranges \in Seq(RawFields) /\ x.buf \in Seq(Bytes) /\ x.scratch \in Seq(Bytes)
  BY ReaderType
<1>3. Append(x.ranges, f) \in Seq(RawFields)
  BY <1>2
<1>4. y \in Readers
  BY <1>1, <1>3 DEF Readers
<1>5. y.buf = x.buf /\ y.scratch = x.scratch /\ y.ranges = Append(x.ranges, f)
  BY <1>1 DEF Readers
<1>6. StartsWith(y.buf, x.buf) /\ StartsWith(y.scratch, x.scratch)
  BY <1>2, <1>5, GrowRefl
<1>7. SrcOf(y, f) = SrcOf(x, f) /\ Field(y, f) = Field(x, f)
  BY <1>5 DEF SrcOf, Field
<1>8. RangesFit(y) /\ Fields(y) = Append(Fields(x), Field(y, f)) /\ Len(y.ranges) = Len(x.ranges) + 1
  BY <1>4, <1>5, <1>6, <1>7, FieldsPush
<1> QED
  BY <1>1, <1>4, <1>7, <1>8

\* A part of the buffer, and the field in scratch.
LEMMA PushBuf ==
  ASSUME NEW x \in Readers, RangesFit(x), NEW a \in Nat, NEW b \in Nat, a <= b, b <= Len(x.buf),
         NEW y, y = Push(x, Raw("buf", a, b))
  PROVE  /\ y = [x EXCEPT !.ranges = Append(x.ranges, Raw("buf", a, b))]
         /\ y \in Readers /\ RangesFit(y) /\ Fields(y) = Append(Fields(x), Slice(x.buf, a, b))
         /\ Len(y.ranges) = Len(x.ranges) + 1
<1> DEFINE f == Raw("buf", a, b)
<1>1. f \in RawFields /\ f.start = a /\ f.end = b /\ f.src = "buf"
  BY DEF Raw, RawFields
<1> HIDE DEF f
<1>2. SrcOf(x, f) = x.buf /\ Field(x, f) = Slice(x.buf, a, b)
  BY <1>1 DEF SrcOf, Field
<1>3. y = Push(x, f)
  BY DEF f
<1> QED
  BY <1>1, <1>2, <1>3, PushField DEF f

LEMMA PushScratch ==
  ASSUME NEW x \in Readers, RangesFit(x), x.scratch_field_start <= Len(x.scratch),
         NEW y, y = Push(x, Scratch(x))
  PROVE  /\ y = [x EXCEPT !.ranges = Append(x.ranges, Scratch(x))]
         /\ y \in Readers /\ RangesFit(y) /\ Fields(y) = Append(Fields(x), Quoted(x))
         /\ Len(y.ranges) = Len(x.ranges) + 1
<1> DEFINE f == Scratch(x)
<1>0. x.scratch_field_start \in Nat /\ Len(x.scratch) \in Nat
  BY ReaderType
<1>1. f \in RawFields /\ f.start = x.scratch_field_start /\ f.end = Len(x.scratch) /\ f.src = "scratch"
  BY <1>0 DEF Scratch, Raw, RawFields
<1> HIDE DEF f
<1>2. SrcOf(x, f) = x.scratch /\ Field(x, f) = Quoted(x)
  BY <1>1 DEF SrcOf, Field, Quoted
<1>3. y = Push(x, f) /\ Len(x.scratch) <= Len(x.scratch)
  BY <1>0 DEF f
<1>4. f.start <= f.end /\ f.end <= Len(SrcOf(x, f))
  BY <1>1, <1>2, <1>3
<1> QED
  BY <1>1, <1>2, <1>3, <1>4, PushField DEF f

\* The four ways a line end is consumed.
NewlineAhead(x, k, c) ==
  \/ k = 2 /\ ~c /\ x.buf[x.start + 1] = "r" /\ x.buf[x.start + 2] = "n"
  \/ k = 1 /\ c /\ x.buf[x.start + 1] = "r"
  \/ k = 1 /\ ~c /\ x.buf[x.start + 1] = "r" /\ x.start + 1 < Len(x.buf) /\ x.buf[x.start + 2] # "n"
  \/ k = 1 /\ ~c /\ x.buf[x.start + 1] # "r"

NewlineTo(x, y, k, c) ==
  /\ y = [x EXCEPT !.start = x.start + k, !.line = x.line + 1, !.pending_cr = c]
  /\ x.start + k <= Len(x.buf)
  /\ ~x.pending_cr => NewlineAhead(x, k, c)

LEMMA NewlineReader ==
  ASSUME NEW x \in Readers, x.start < Len(x.buf), NEW y, y = ConsumeNewline(x)
  PROVE  \E k \in {1, 2}, c \in BOOLEAN : NewlineTo(x, y, k, c)
<1>1. x.start \in Nat /\ Len(x.buf) \in Nat /\ x.line \in Nat /\ x.pending_cr \in BOOLEAN
  BY ReaderType
<1> DEFINE cr == x.buf[x.start + 1] = "r"
           last == x.start + 1 = Len(x.buf)
           crlf == cr /\ ~last /\ x.buf[x.start + 2] = "n"
           c == IF cr /\ last THEN TRUE ELSE x.pending_cr
           k == IF crlf THEN 2 ELSE 1
<1>2. c \in BOOLEAN /\ c = (x.pending_cr \/ (cr /\ last))
  BY <1>1
<1>3. y = [x EXCEPT !.start = x.start + k, !.line = x.line + 1, !.pending_cr = x.pending_cr \/ (cr /\ last)]
  BY DEF ConsumeNewline
<1>4. y = [x EXCEPT !.start = x.start + k, !.line = x.line + 1, !.pending_cr = c]
  <2> HIDE DEF c, k
  <2> QED
    BY <1>2, <1>3
<1>5. x.start + k <= Len(x.buf) /\ k \in {1, 2}
  BY <1>1
<1>6. ~x.pending_cr => NewlineAhead(x, k, c)
  BY <1>1 DEF NewlineAhead
<1> QED
  <2> HIDE DEF c, k
  <2> QED
    BY <1>2, <1>4, <1>5, <1>6 DEF NewlineTo

LEMMA NewlineBounds ==
  ASSUME NEW x \in Readers, RangesFit(x), x.start < Len(x.buf), x.state # "InQuoted",
         x.state = "InUnquoted" => x.field_start <= x.start,
         NEW y, y = ConsumeNewline(x)
  PROVE  y \in Readers /\ InBounds(y) /\ Fields(y) = Fields(x)
<1>0. PICK k \in {1, 2}, c \in BOOLEAN : NewlineTo(x, y, k, c)
  BY NewlineReader
<1>1. /\ y = [x EXCEPT !.start = x.start + k, !.line = x.line + 1, !.pending_cr = c]
      /\ x.start + k <= Len(x.buf)
  BY <1>0 DEF NewlineTo
<1>2. x.start \in Nat /\ x.line \in Nat /\ x.field_start \in Nat /\ Len(x.buf) \in Nat
  BY ReaderType
<1>3. PICK a \in Nat, l \in Nat : a = x.start + k /\ l = x.line + 1
  BY <1>2
<1>4. y = [x EXCEPT !.start = a, !.line = l, !.pending_cr = c]
  BY <1>1, <1>3
<1>5. y \in Readers
  BY <1>4 DEF Readers
<1>6. /\ y.buf = x.buf /\ y.scratch = x.scratch /\ y.ranges = x.ranges /\ y.start = a
      /\ y.state = x.state /\ y.field_start = x.field_start
  BY <1>4 DEF Readers
<1>7. RangesFit(y) /\ Fields(y) = Fields(x)
  BY <1>6, SameFields
<1>8. a <= Len(x.buf) /\ (x.state = "InUnquoted" => x.field_start <= a)
  BY <1>1, <1>2, <1>3
<1> QED
  BY <1>5, <1>6, <1>7, <1>8 DEF InBounds

\* The reader that has taken the quoted content up to e.
QuotedTo(x, e) ==
  [CountLineBreaks(x, Slice(x.buf, x.start, e)) EXCEPT !.scratch = @ \o Slice(x.buf, x.start, e)]

Breaks(x, bytes) ==
  {i \in 1..Len(bytes) : \/ bytes[i] = "r"
                         \/ bytes[i] = "n" /\ IF i = 1 THEN ~x.pending_lf_quoted ELSE bytes[i - 1] # "r"}

LfAfter(x, bytes) == IF bytes = <<>> THEN x.pending_lf_quoted ELSE bytes[Len(bytes)] = "r"

LEMMA BreaksFinite ==
  ASSUME NEW x, NEW bytes \in Seq(Bytes)
  PROVE  IsFiniteSet(Breaks(x, bytes)) /\ Cardinality(Breaks(x, bytes)) \in Nat
<1>1. Len(bytes) \in Nat /\ 1 \in Int /\ Len(bytes) \in Int
  OBVIOUS
<1>2. IsFiniteSet(1..Len(bytes))
  BY <1>1, FS_Interval
<1>3. Breaks(x, bytes) \subseteq 1..Len(bytes)
  BY DEF Breaks
<1>4. IsFiniteSet(Breaks(x, bytes))
  BY <1>2, <1>3, FS_Subset
<1> QED
  BY <1>4, FS_CardinalityType

\* What it is.
Took(x, y, bytes) ==
  /\ bytes \in Seq(Bytes)
  /\ y.line = x.line + Cardinality(Breaks(x, bytes)) /\ y.line \in Nat
  /\ y.pending_lf_quoted = LfAfter(x, bytes) /\ y.pending_lf_quoted \in BOOLEAN
  /\ y = [x EXCEPT !.line = y.line, !.pending_lf_quoted = y.pending_lf_quoted, !.scratch = y.scratch]
  /\ y.scratch = x.scratch \o bytes
  /\ y \in Readers /\ InBounds(y) /\ Fields(y) = Fields(x)
  /\ StartsWith(y.scratch, x.scratch) /\ Len(y.scratch) = Len(x.scratch) + Len(bytes)

LEMMA QuotedReader ==
  ASSUME NEW x \in Readers, InBounds(x), x.state = "InQuoted",
         NEW e \in Nat, x.start <= e, e <= Len(x.buf), NEW y, y = QuotedTo(x, e)
  PROVE  Took(x, y, Slice(x.buf, x.start, e)) /\ Len(Slice(x.buf, x.start, e)) = e - x.start
<1> DEFINE bytes == Slice(x.buf, x.start, e)
           l == x.line + Cardinality(Breaks(x, bytes))
           b == LfAfter(x, bytes)
           u == x.scratch \o bytes
<1>1. /\ x.buf \in Seq(Bytes) /\ x.scratch \in Seq(Bytes) /\ x.start \in Nat /\ x.line \in Nat
      /\ Len(x.buf) \in Nat /\ Len(x.scratch) \in Nat /\ x.pending_lf_quoted \in BOOLEAN
      /\ x.scratch_field_start \in Nat
  BY ReaderType
<1>2. bytes \in Seq(Bytes) /\ Len(bytes) = e - x.start
  BY <1>1, SliceLen
<1>3. y = [x EXCEPT !.line = l, !.pending_lf_quoted = b, !.scratch = u]
  BY DEF QuotedTo, CountLineBreaks, Breaks, LfAfter, Last, Readers
<1> HIDE DEF bytes
<1>4. l \in Nat /\ b \in BOOLEAN
  <2>1. Cardinality(Breaks(x, bytes)) \in Nat
    BY <1>2, BreaksFinite
  <2>2. b \in BOOLEAN
    BY <1>1 DEF LfAfter
  <2> QED
    BY <1>1, <2>1, <2>2
<1>5. u \in Seq(Bytes) /\ StartsWith(u, x.scratch) /\ Len(u) = Len(x.scratch) + Len(bytes)
  BY <1>1, <1>2, GrowConcat
<1> HIDE DEF l, b, u
<1>6. y \in Readers
  BY <1>3, <1>4, <1>5 DEF Readers, Buffers
<1>7. /\ y.line = l /\ y.pending_lf_quoted = b /\ y.scratch = u
      /\ y.buf = x.buf /\ y.ranges = x.ranges /\ y.start = x.start
      /\ y.state = x.state /\ y.scratch_field_start = x.scratch_field_start
  BY <1>3 DEF Readers
<1>8. y = [x EXCEPT !.line = y.line, !.pending_lf_quoted = y.pending_lf_quoted, !.scratch = y.scratch]
  BY <1>3, <1>7
<1>9. RangesFit(x) /\ x.start <= Len(x.buf) /\ x.scratch_field_start <= Len(x.scratch)
  BY DEF InBounds
<1>10. StartsWith(y.buf, x.buf) /\ StartsWith(y.scratch, x.scratch)
  BY <1>1, <1>5, <1>7, GrowRefl
<1>11. RangesFit(y) /\ Fields(y) = Fields(x)
  BY <1>6, <1>7, <1>9, <1>10, FieldsGrow
<1>12. Len(y.scratch) = Len(x.scratch) + Len(bytes) /\ Len(bytes) \in Nat
  BY <1>2, <1>5, <1>7
<1>13. InBounds(y)
  <2>1. y.scratch_field_start <= Len(y.scratch) /\ y.state = "InQuoted" /\ y.start <= Len(y.buf)
    BY <1>1, <1>7, <1>9, <1>12
  <2> QED
    BY <1>11, <2>1 DEF InBounds
<1>14. /\ y.line = x.line + Cardinality(Breaks(x, bytes)) /\ y.line \in Nat
       /\ y.pending_lf_quoted = LfAfter(x, bytes) /\ y.pending_lf_quoted \in BOOLEAN
  BY <1>4, <1>7 DEF l, b
<1>15. y.scratch = x.scratch \o bytes
  BY <1>7 DEF u
<1> QED
  BY <1>2, <1>6, <1>8, <1>10, <1>11, <1>12, <1>13, <1>14, <1>15 DEF Took, bytes

\* What CsvTypes gives a step.
LEMMA CsvFacts ==
  ASSUME CsvTypes
  PROVE  /\ input \in Buffers /\ source \in Buffers /\ config \in Configs /\ rd \in Readers /\ InBounds(rd)
         /\ rows \in Seq(Rows) /\ rd.start \in Nat /\ Len(rd.buf) \in Nat /\ rd.start <= Len(rd.buf)
         /\ RangesFit(rd) /\ rd.field_start \in Nat /\ rd.line \in Nat /\ rd.scratch_field_start \in Nat
         /\ Len(rd.scratch) \in Nat
         /\ rd.state \in States /\ rd.pending_cr \in BOOLEAN /\ rd.pending_lf_quoted \in BOOLEAN
         /\ rd.eof \in BOOLEAN
         /\ rd.state = "InUnquoted" => rd.field_start <= rd.start
         /\ rd.state = "InQuoted" => rd.scratch_field_start <= Len(rd.scratch)
         /\ StateOf(rd, call)
  BY ReaderType DEF CsvTypes, InBounds

\* A move inside the buffer.
LEMMA Moved ==
  ASSUME NEW x \in Readers, InBounds(x), NEW a \in Nat, a <= Len(x.buf), x.start <= a,
         NEW y \in Readers, y.buf = x.buf, y.scratch = x.scratch, y.ranges = x.ranges, y.start = a,
         y.field_start = x.field_start, y.scratch_field_start = x.scratch_field_start,
         y.state = x.state \/ y.state = "StartOfField" \/ y.state = "AfterQuote"
  PROVE  InBounds(y) /\ Fields(y) = Fields(x)
<1>1. x.start \in Nat /\ x.field_start \in Nat /\ RangesFit(x)
  BY ReaderType DEF InBounds
<1>2. RangesFit(y) /\ Fields(y) = Fields(x)
  BY <1>1, SameFields
<1> QED
  BY <1>1, <1>2 DEF InBounds

LEMMA MoreBounded ==
  ASSUME CsvTypes, More, UNCHANGED <<input, config, call, rows>>, call # "quote"
  PROVE  CsvTypes'
<1>1. /\ source \in Buffers /\ source \in Seq(Bytes) /\ rd \in Readers /\ InBounds(rd) /\ rows \in Seq(Rows)
      /\ call \in {"idle", "bom", "loop", "quote", "skip", "done"}
  BY DEF CsvTypes, Buffers
<1>2. PICK n \in 1..Len(source) :
         /\ rd' = [rd EXCEPT !.buf = @ \o SubSeq(source, 1, n)]
         /\ source' = SubSeq(source, n + 1, Len(source))
  BY DEF More
<1>3. rd' \in Readers /\ InBounds(rd')
  <2>1. Grew(rd, rd', n)
    BY <1>1, <1>2, ReaderMore
  <2> QED
    BY <2>1 DEF Grew
<1>4. source' \in Buffers
  BY <1>1, <1>2, Chunk DEF Buffers
<1>5. PICK y \in Readers : y = rd' /\ InBounds(y)
  BY <1>3
<1>6. StateOf(y, call')
  <2>1. y.state = rd.state /\ StateOf(rd, call)
    BY <1>1, <1>2, <1>5 DEF Readers, CsvTypes
  <2> QED
    BY <2>1 DEF StateOf
<1> QED
  BY <1>1, <1>4, <1>5, <1>6, TypesIntro

LEMMA EofBounds ==
  ASSUME NEW x \in Readers, InBounds(x), NEW e \in BOOLEAN, NEW y, y = [x EXCEPT !.eof = e]
  PROVE  /\ y \in Readers /\ InBounds(y) /\ Fields(y) = Fields(x)
         /\ Unquoted(y) = Unquoted(x) /\ Quoted(y) = Quoted(x)
<1>1. /\ y \in Readers /\ y.buf = x.buf /\ y.scratch = x.scratch /\ y.ranges = x.ranges /\ y.start = x.start
      /\ y.state = x.state /\ y.field_start = x.field_start /\ y.scratch_field_start = x.scratch_field_start
  BY DEF Readers
<1> QED
  BY <1>1, BoundsSame

\* The rest of the buffer is dropped with the record.
LEMMA RefuseBounds ==
  ASSUME NEW x \in Readers, InBounds(x), NEW y, y = [x EXCEPT !.start = Len(x.buf), !.eof = TRUE]
  PROVE  y \in Readers /\ InBounds(y) /\ Fields(y) = Fields(x) /\ y.start = Len(y.buf) /\ y.eof
<1>1. Len(x.buf) \in Nat /\ x.start <= Len(x.buf) /\ Len(x.buf) <= Len(x.buf)
  BY ReaderType DEF InBounds
<1>2. /\ y \in Readers /\ y.buf = x.buf /\ y.scratch = x.scratch /\ y.ranges = x.ranges /\ y.start = Len(x.buf)
      /\ y.state = x.state /\ y.field_start = x.field_start /\ y.scratch_field_start = x.scratch_field_start
      /\ y.eof
  BY <1>1 DEF Readers
<1>3. InBounds(y) /\ Fields(y) = Fields(x)
  BY <1>1, <1>2, Moved
<1> QED
  BY <1>2, <1>3

LEMMA ClosedBounds ==
  ASSUME NEW x \in Readers, InBounds(x), x.state = "InQuoted", NEW y, y = Closed(x)
  PROVE  /\ y \in Readers /\ InBounds(y) /\ Fields(y) = Append(Fields(x), Quoted(x))
         /\ y = [x EXCEPT !.ranges = Append(x.ranges, Scratch(x)), !.state = "AfterQuote"]
         /\ Len(y.ranges) = Len(x.ranges) + 1
<1>1. RangesFit(x) /\ x.start <= Len(x.buf) /\ x.scratch_field_start <= Len(x.scratch)
  BY DEF InBounds
<1>2. PICK z : z = Push(x, Scratch(x))
  OBVIOUS
<1>3. /\ z = [x EXCEPT !.ranges = Append(x.ranges, Scratch(x))]
      /\ z \in Readers /\ RangesFit(z) /\ Fields(z) = Append(Fields(x), Quoted(x))
      /\ Len(z.ranges) = Len(x.ranges) + 1
  BY <1>1, <1>2, PushScratch
<1>4. y = [z EXCEPT !.state = "AfterQuote"]
  BY <1>2 DEF Closed
<1>5. /\ y \in Readers /\ y.buf = z.buf /\ y.scratch = z.scratch /\ y.ranges = z.ranges
      /\ y.state = "AfterQuote" /\ y.start = x.start /\ y.buf = x.buf
  BY <1>3, <1>4 DEF Readers, States
<1>6. RangesFit(y) /\ Fields(y) = Fields(z)
  BY <1>3, <1>5, SameFields
<1>7. InBounds(y)
  BY <1>1, <1>5, <1>6 DEF InBounds
<1>8. y = [x EXCEPT !.ranges = Append(x.ranges, Scratch(x)), !.state = "AfterQuote"]
  BY <1>3, <1>4
<1> QED
  BY <1>3, <1>5, <1>6, <1>7, <1>8

LEMMA FinalizeBounds ==
  ASSUME NEW x \in Readers, InBounds(x), NEW y, y = Finalize(x)
  PROVE  /\ y \in Readers /\ InBounds(y) /\ y = [x EXCEPT !.ranges = y.ranges]
         /\ x.state = "InUnquoted" => Fields(y) = Append(Fields(x), Unquoted(x))
         /\ x.state = "StartOfField" /\ x.ranges # <<>> => Fields(y) = Append(Fields(x), <<>>)
         /\ x.state \notin {"StartOfField", "InUnquoted"} => y = x
<1>1. /\ RangesFit(x) /\ x.start <= Len(x.buf) /\ x.start \in Nat /\ x.field_start \in Nat
      /\ x.buf \in Seq(Bytes) /\ Len(x.buf) \in Nat /\ x.start <= x.start
      /\ x.state = "InUnquoted" => x.field_start <= x.start
      /\ x.state = "InQuoted" => x.scratch_field_start <= Len(x.scratch)
  BY ReaderType DEF InBounds
<1>2. ASSUME NEW a \in Nat, a <= x.start, y = Push(x, Raw("buf", a, x.start))
      PROVE  /\ y \in Readers /\ InBounds(y) /\ y = [x EXCEPT !.ranges = y.ranges]
             /\ Fields(y) = Append(Fields(x), Slice(x.buf, a, x.start))
  <2>1. /\ y = [x EXCEPT !.ranges = Append(x.ranges, Raw("buf", a, x.start))]
        /\ y \in Readers /\ RangesFit(y) /\ Fields(y) = Append(Fields(x), Slice(x.buf, a, x.start))
    <3>1. PICK b \in Nat : b = x.start
      BY <1>1
    <3>2. a <= b /\ b <= Len(x.buf) /\ y = Push(x, Raw("buf", a, b)) /\ RangesFit(x)
      BY <1>1, <1>2, <3>1
    <3>3. /\ y = [x EXCEPT !.ranges = Append(x.ranges, Raw("buf", a, b))]
          /\ y \in Readers /\ RangesFit(y) /\ Fields(y) = Append(Fields(x), Slice(x.buf, a, b))
      BY <3>2, PushBuf
    <3> QED
      BY <3>1, <3>3
  <2>2. /\ y.buf = x.buf /\ y.scratch = x.scratch /\ y.start = x.start /\ y.state = x.state
        /\ y.field_start = x.field_start /\ y.scratch_field_start = x.scratch_field_start
        /\ y.ranges = Append(x.ranges, Raw("buf", a, x.start))
    BY <2>1 DEF Readers
  <2>3. InBounds(y)
    BY <1>1, <2>1, <2>2 DEF InBounds
  <2>4. y = [x EXCEPT !.ranges = y.ranges]
    BY <2>1, <2>2
  <2> QED
    BY <2>1, <2>3, <2>4
<1>3. CASE x.state = "InUnquoted"
  <2>1. y = Push(x, Raw("buf", x.field_start, x.start))
    BY <1>3 DEF Finalize
  <2> QED
    BY <1>1, <1>2, <1>3, <2>1 DEF Unquoted
<1>4. CASE x.state = "StartOfField" /\ x.ranges # <<>>
  <2>1. y = Push(x, Raw("buf", x.start, x.start))
    BY <1>4 DEF Finalize
  <2>2. Slice(x.buf, x.start, x.start) = <<>>
    BY <1>1, NoSlice
  <2> QED
    BY <1>1, <1>2, <1>4, <2>1, <2>2
<1>5. CASE x.state # "InUnquoted" /\ ~(x.state = "StartOfField" /\ x.ranges # <<>>)
  <2>1. y = x
    BY <1>5 DEF Finalize
  <2>2. x = [x EXCEPT !.ranges = x.ranges]
    BY DEF Readers
  <2> QED
    BY <1>5, <2>1, <2>2
<1> QED
  BY <1>3, <1>4, <1>5

\* The same bytes are ahead.
SameAhead(y, x) ==
  /\ Len(y.buf) - y.start = Len(x.buf) - x.start
  /\ \A i \in 1..(Len(x.buf) - x.start) : y.buf[y.start + i] = x.buf[x.start + i]

LEMMA CompactReader ==
  ASSUME NEW x \in Readers, x.start <= Len(x.buf), NEW y, y = Compact(x)
  PROVE  /\ y \in Readers /\ y = [x EXCEPT !.buf = y.buf, !.start = y.start]
         /\ y.start <= Len(y.buf) /\ SameAhead(y, x)
<1>1. x.buf \in Seq(Bytes) /\ x.start \in Nat /\ Len(x.buf) \in Nat /\ Len(x.buf) <= Len(x.buf)
  BY ReaderType
<1>2. CASE y = x
  <2>1. x = [x EXCEPT !.buf = x.buf, !.start = x.start]
    BY DEF Readers
  <2> QED
    BY <1>2, <2>1 DEF SameAhead
<1>3. CASE y # x
  <2> DEFINE u == Slice(x.buf, x.start, Len(x.buf))
  <2>1. y = [x EXCEPT !.buf = u, !.start = 0]
    BY <1>3 DEF Compact
  <2>2. /\ u \in Seq(Bytes) /\ Len(u) = Len(x.buf) - x.start
        /\ \A i \in 1..(Len(x.buf) - x.start) : u[i] = x.buf[x.start + i]
    BY <1>1, SliceProps, ZenonT(60)
  <2> HIDE DEF u
  <2>7. u \in Buffers
    BY <2>2 DEF Buffers
  <2>3. y \in Readers /\ y.buf = u /\ y.start = 0
    <3>1. PICK a \in Nat : a = 0
      OBVIOUS
    <3>2. y = [x EXCEPT !.buf = u, !.start = a]
      BY <2>1, <3>1
    <3>3. y \in Readers /\ y.buf = u /\ y.start = a
      BY <2>7, <3>2 DEF Readers
    <3> QED
      BY <3>1, <3>3
  <2>4. y = [x EXCEPT !.buf = y.buf, !.start = y.start]
    BY <2>1, <2>3
  <2>5. Len(u) \in Nat /\ Len(u) - 0 = Len(u)
    BY <2>2
  <2>6. \A i \in 1..(Len(x.buf) - x.start) : 0 + i = i
    BY <1>1
  <2> QED
    BY <1>1, <2>2, <2>3, <2>4, <2>5, <2>6 DEF SameAhead
<1> QED
  BY <1>2, <1>3

\* The reader at the head of a record.
HeadOf(x) ==
  [Compact(x) EXCEPT !.ranges = <<>>, !.scratch = <<>>, !.state = "StartOfField",
                     !.pending_lf_quoted = FALSE, !.record_line = x.line, !.bom_checked = TRUE]

LEMMA HeadReader ==
  ASSUME NEW x \in Readers, x.start <= Len(x.buf), NEW y, y = HeadOf(x)
  PROVE  /\ y \in Readers /\ InBounds(y) /\ Fields(y) = <<>> /\ y.state = "StartOfField"
         /\ SameAhead(y, x)
         /\ y = [x EXCEPT !.buf = y.buf, !.start = y.start, !.ranges = <<>>, !.scratch = <<>>,
                          !.state = "StartOfField", !.pending_lf_quoted = FALSE,
                          !.record_line = x.line, !.bom_checked = TRUE]
<1>1. PICK z : z = Compact(x)
  OBVIOUS
<1>2. /\ z \in Readers /\ z = [x EXCEPT !.buf = z.buf, !.start = z.start]
      /\ z.start <= Len(z.buf) /\ SameAhead(z, x)
  BY <1>1, CompactReader
<1>3. y = [z EXCEPT !.ranges = <<>>, !.scratch = <<>>, !.state = "StartOfField",
                     !.pending_lf_quoted = FALSE, !.record_line = x.line, !.bom_checked = TRUE]
  BY <1>1 DEF HeadOf
<1>4. x.line \in Nat /\ <<>> \in Seq(Bytes) /\ <<>> \in Seq(RawFields)
  BY ReaderType
<1>5. /\ y \in Readers /\ y.buf = z.buf /\ y.start = z.start /\ y.ranges = <<>> /\ y.state = "StartOfField"
  BY <1>2, <1>3, <1>4 DEF Readers, Buffers, States
<1>6. y = [x EXCEPT !.buf = y.buf, !.start = y.start, !.ranges = <<>>, !.scratch = <<>>,
                    !.state = "StartOfField", !.pending_lf_quoted = FALSE,
                    !.record_line = x.line, !.bom_checked = TRUE]
  BY <1>2, <1>3, <1>5
<1>7. RangesFit(y) /\ Fields(y) = <<>>
  BY <1>5 DEF RangesFit, Fields
<1>8. InBounds(y)
  BY <1>2, <1>5, <1>7 DEF InBounds
<1>9. SameAhead(y, x)
  BY <1>2, <1>5 DEF SameAhead
<1> QED
  BY <1>6, <1>5, <1>7, <1>8, <1>9

LEMMA ReadRowBounded ==
  ASSUME CsvTypes, ReadRow
  PROVE  CsvTypes'
<1>1. /\ source \in Buffers /\ rd \in Readers /\ rd.start <= Len(rd.buf) /\ rows \in Seq(Rows)
  BY CsvFacts
<1>2. rd' = HeadOf(rd) /\ call' \in {"loop", "bom"} /\ UNCHANGED <<input, source, config, rows>>
  BY DEF ReadRow, HeadOf
<1>3. PICK y : y = rd'
  OBVIOUS
<1>4. y \in Readers /\ InBounds(y)
  BY <1>1, <1>2, <1>3, HeadReader
<1>5. StateOf(y, call')
  <2>1. y.state = "StartOfField"
    BY <1>1, <1>2, <1>3, HeadReader
  <2> QED
    BY <1>2, <2>1 DEF StateOf
<1> QED
  BY <1>1, <1>2, <1>3, <1>4, <1>5, TypesIntro

LEMMA BomBounded ==
  ASSUME CsvTypes, BomMore \/ BomEof \/ BomStrip \/ BomFails
  PROVE  CsvTypes'
<1>1. /\ source \in Buffers /\ rd \in Readers /\ InBounds(rd) /\ rows \in Seq(Rows) /\ rd.start <= Len(rd.buf)
      /\ call = "bom" /\ rd.state = "StartOfField"
  <2>1. call = "bom"
    BY DEF BomMore, BomEof, BomStrip, BomFails
  <2> QED
    BY <2>1, CsvFacts DEF StateOf
<1>2. CASE BomMore
  BY <1>2, MoreBounded DEF BomMore
<1>3. CASE BomEof
  <2>1. /\ rd' = [rd EXCEPT !.eof = TRUE] /\ UNCHANGED <<input, source, config, call, rows>> /\ call = "bom"
    BY <1>3 DEF BomEof
  <2>2. PICK y : y = rd' /\ y \in Readers /\ InBounds(y)
    BY <1>1, <2>1, EofBounds
  <2>3. StateOf(y, "bom")
    BY <1>1, <2>1, <2>2 DEF StateOf, Readers
  <2> QED
    BY <1>1, <2>1, <2>2, <2>3, TypesIntro
<1>4. CASE BomStrip
  <2>1. /\ call' = "loop" /\ UNCHANGED <<input, source, config, rows>>
        /\ rd' = IF IsPrefix(Bom, rd.buf) THEN [rd EXCEPT !.start = Len(Bom)] ELSE rd
    BY <1>4 DEF BomStrip
  <2>2. CASE ~IsPrefix(Bom, rd.buf)
    <3>1. StateOf(rd, "loop")
      BY DEF StateOf
    <3> QED
      BY <1>1, <2>1, <2>2, <3>1, TypesIntro
  <2>3. CASE IsPrefix(Bom, rd.buf)
    <3>0. Len(Bom) \in Nat /\ Len(Bom) <= Len(rd.buf)
      BY <2>3, CsvAssumption DEF IsPrefix
    <3>1. PICK y : y = rd'
      OBVIOUS
    <3>2. /\ y \in Readers /\ y.buf = rd.buf /\ y.scratch = rd.scratch /\ y.ranges = rd.ranges
          /\ y.start = Len(Bom) /\ y.state = rd.state /\ y.field_start = rd.field_start
          /\ y.scratch_field_start = rd.scratch_field_start
      BY <1>1, <2>1, <2>3, <3>0, <3>1 DEF Readers
    <3>3. RangesFit(y)
      BY <1>1, <3>2, SameFields DEF InBounds
    <3>4. InBounds(y) /\ StateOf(y, "loop")
      BY <1>1, <3>0, <3>2, <3>3 DEF InBounds, StateOf
    <3> QED
      BY <1>1, <2>1, <3>1, <3>2, <3>4, TypesIntro
  <2> QED
    BY <2>2, <2>3
<1>5. CASE BomFails
  <2>1. /\ Return([rd EXCEPT !.eof = TRUE], "io") /\ UNCHANGED <<input, source, config>>
    BY <1>5 DEF BomFails
  <2>2. PICK y : y = [rd EXCEPT !.eof = TRUE] /\ y \in Readers /\ InBounds(y)
    BY <1>1, EofBounds
  <2>3. "io" \in Errors
    BY DEF Errors
  <2> QED
    BY <2>1, <2>2, <2>3, TypesReturn
<1> QED
  BY <1>2, <1>3, <1>4, <1>5

LEMMA LoopBounded ==
  ASSUME CsvTypes, LoopMore \/ LoopEof \/ LoopFails \/ RefuseColumns \/ PendingCr
  PROVE  CsvTypes'
<1>1. /\ source \in Buffers /\ rd \in Readers /\ InBounds(rd) /\ rows \in Seq(Rows) /\ rd.start <= Len(rd.buf)
      /\ rd.start \in Nat /\ Len(rd.buf) \in Nat
  BY CsvFacts
<1>2. "io" \in Errors /\ "none" \in Errors /\ "unterminated" \in Errors /\ "columns" \in Errors
  BY DEF Errors
<1>3. PICK x : x = [rd EXCEPT !.eof = TRUE]
  OBVIOUS
<1>4. x \in Readers /\ InBounds(x)
  BY <1>1, <1>3, EofBounds
<1>5. Finalize(x) \in Readers /\ InBounds(Finalize(x))
  BY <1>4, FinalizeBounds
<1>6. CASE LoopMore
  BY <1>6, MoreBounded DEF LoopMore
<1>7. CASE LoopEof
  <2>0. UNCHANGED <<input, source, config>>
    BY <1>7 DEF LoopEof
  <2>1. \/ rd' = x /\ call' = "done" /\ UNCHANGED rows
        \/ Return(x, "unterminated")
        \/ Return(Finalize(x), "none")
    BY <1>3, <1>7 DEF LoopEof
  <2>2. CASE rd' = x /\ call' = "done" /\ UNCHANGED rows
    <3>1. StateOf(x, "done")
      BY DEF StateOf
    <3> QED
      BY <1>1, <1>4, <2>0, <2>2, <3>1, TypesIntro
  <2>3. CASE Return(x, "unterminated")
    BY <1>2, <1>4, <2>0, <2>3, TypesReturn
  <2>4. CASE Return(Finalize(x), "none")
    BY <1>2, <1>5, <2>0, <2>4, TypesReturn
  <2> QED
    BY <2>1, <2>2, <2>3, <2>4
<1>8. CASE LoopFails
  <2>1. Return(Finalize(x), "io") /\ UNCHANGED <<input, source, config>>
    BY <1>3, <1>8 DEF LoopFails
  <2> QED
    BY <1>2, <1>5, <2>1, TypesReturn
<1>9. CASE RefuseColumns
  <2>1. PICK y : y = [rd EXCEPT !.start = Len(rd.buf), !.eof = TRUE]
    OBVIOUS
  <2>2. Return(y, "columns") /\ UNCHANGED <<input, source, config>>
    BY <1>9, <2>1 DEF RefuseColumns, Refuse
  <2>3. y \in Readers /\ InBounds(y)
    BY <1>1, <2>1, RefuseBounds
  <2> QED
    BY <1>2, <2>2, <2>3, TypesReturn
<1>10. CASE PendingCr
  <2>1. PICK a : a = IF Byte = "n" THEN rd.start + 1 ELSE rd.start
    OBVIOUS
  <2>2. /\ rd' = [rd EXCEPT !.pending_cr = FALSE, !.start = a] /\ UNCHANGED <<input, source, config, call, rows>>
        /\ rd.start < Len(rd.buf) /\ call = "loop"
    BY <1>10, <2>1 DEF PendingCr, Parsing
  <2>3. a \in Nat /\ a <= Len(rd.buf) /\ rd.start <= a
    BY <1>1, <2>1, <2>2
  <2>4. PICK y : y = rd'
    OBVIOUS
  <2>5. /\ y \in Readers /\ y.buf = rd.buf /\ y.scratch = rd.scratch /\ y.ranges = rd.ranges /\ y.start = a
        /\ y.state = rd.state /\ y.field_start = rd.field_start /\ y.scratch_field_start = rd.scratch_field_start
    BY <1>1, <2>2, <2>3, <2>4 DEF Readers
  <2>6. InBounds(y) /\ StateOf(y, "loop")
    BY <1>1, <2>3, <2>5, Moved DEF StateOf
  <2> QED
    BY <1>1, <2>2, <2>4, <2>5, <2>6, TypesIntro
<1> QED
  BY <1>6, <1>7, <1>8, <1>9, <1>10

\* The reader when an empty field is recorded.
LEMMA PushEmpty ==
  ASSUME rd \in Readers, InBounds(rd), NEW y, y = Push(rd, Empty)
  PROVE  /\ y = [rd EXCEPT !.ranges = Append(rd.ranges, Empty)]
         /\ y \in Readers /\ RangesFit(y) /\ Fields(y) = Append(Fields(rd), <<>>)
         /\ Len(y.ranges) = Len(rd.ranges) + 1
<1>1. PICK a \in Nat : a = rd.start
  BY ReaderType
<1>2. RangesFit(rd) /\ a <= Len(rd.buf) /\ rd.buf \in Seq(Bytes) /\ a <= a
  BY <1>1, ReaderType DEF InBounds
<1>3. y = Push(rd, Raw("buf", a, a)) /\ Empty = Raw("buf", a, a)
  BY <1>1 DEF Empty
<1>4. Slice(rd.buf, a, a) = <<>>
  BY <1>2, NoSlice
<1>5. /\ y = [rd EXCEPT !.ranges = Append(rd.ranges, Raw("buf", a, a))]
      /\ y \in Readers /\ RangesFit(y) /\ Fields(y) = Append(Fields(rd), Slice(rd.buf, a, a))
      /\ Len(y.ranges) = Len(rd.ranges) + 1
  BY <1>2, <1>3, PushBuf
<1> QED
  BY <1>3, <1>4, <1>5

LEMMA StartBounded ==
  ASSUME CsvTypes, StartOfField
  PROVE  CsvTypes'
<1>1. /\ source \in Buffers /\ rd \in Readers /\ InBounds(rd) /\ rows \in Seq(Rows) /\ rd.start <= Len(rd.buf)
      /\ rd.start \in Nat /\ Len(rd.buf) \in Nat /\ RangesFit(rd) /\ Len(rd.scratch) \in Nat
  BY CsvFacts
<1>2. /\ rd.start < Len(rd.buf) /\ rd.state = "StartOfField" /\ call = "loop" /\ UNCHANGED <<input, source, config>>
  BY DEF StartOfField, ParsingIn, Parsing
<1>3. PICK z : z = Push(rd, Empty)
  OBVIOUS
<1>4. /\ z = [rd EXCEPT !.ranges = Append(rd.ranges, Empty)] /\ z \in Readers /\ RangesFit(z)
  BY <1>1, <1>3, PushEmpty
<1>5. z.start = rd.start /\ z.state = "StartOfField" /\ z.buf = rd.buf /\ z.scratch = rd.scratch
  BY <1>1, <1>2, <1>4 DEF Readers
<1>6. PICK a \in Nat, b \in Nat : a = rd.start /\ b = Len(rd.scratch) /\ a + 1 <= Len(rd.buf) /\ a + 1 \in Nat
  BY <1>1, <1>2
<1>7. CASE Return(ConsumeNewline(z), "none")
  <2>1. ConsumeNewline(z) \in Readers /\ InBounds(ConsumeNewline(z))
    BY <1>2, <1>4, <1>5, NewlineBounds
  <2>2. "none" \in Errors
    BY DEF Errors
  <2> QED
    BY <1>2, <1>7, <2>1, <2>2, TypesReturn
<1>8. CASE /\ UNCHANGED <<call, rows>>
           /\ \/ rd' = ConsumeNewline(rd)
              \/ rd' = [z EXCEPT !.start = @ + 1, !.field_start = rd.start]
              \/ rd' = [rd EXCEPT !.start = @ + 1, !.field_start = rd.start, !.state = "InQuoted",
                                  !.scratch_field_start = Len(rd.scratch)]
              \/ rd' = [rd EXCEPT !.start = @ + 1, !.field_start = rd.start, !.state = "InUnquoted"]
  <2>1. PICK y : y = rd'
    OBVIOUS
  <2>2. y \in Readers /\ InBounds(y)
    <3>1. CASE rd' = ConsumeNewline(rd)
      BY <1>1, <1>2, <2>1, <3>1, NewlineBounds
    <3>2. CASE rd' = [z EXCEPT !.start = @ + 1, !.field_start = rd.start]
      <4>1. y = [z EXCEPT !.start = a + 1, !.field_start = a]
        BY <1>5, <1>6, <2>1, <3>2
      <4>2. /\ y \in Readers /\ y.start = a + 1 /\ y.state = "StartOfField" /\ y.buf = z.buf /\ y.ranges = z.ranges
            /\ y.scratch = z.scratch
        BY <1>4, <1>5, <1>6, <4>1, ZenonT(60) DEF Readers
      <4>3. RangesFit(y)
        BY <1>4, <4>2, SameFields
      <4> QED
        BY <1>5, <1>6, <4>2, <4>3 DEF InBounds
    <3>3. CASE rd' = [rd EXCEPT !.start = @ + 1, !.field_start = rd.start, !.state = "InQuoted",
                                  !.scratch_field_start = Len(rd.scratch)]
      <4>1. y = [rd EXCEPT !.start = a + 1, !.field_start = a, !.state = "InQuoted", !.scratch_field_start = b]
        BY <1>6, <2>1, <3>3
      <4>2. /\ y \in Readers /\ y.start = a + 1 /\ y.state = "InQuoted" /\ y.buf = rd.buf /\ y.ranges = rd.ranges
            /\ y.scratch = rd.scratch /\ y.scratch_field_start = b
        BY <1>1, <1>6, <4>1 DEF Readers, States
      <4>3. RangesFit(y)
        BY <1>1, <4>2, SameFields
      <4> QED
        BY <1>6, <4>2, <4>3 DEF InBounds
    <3>4. CASE rd' = [rd EXCEPT !.start = @ + 1, !.field_start = rd.start, !.state = "InUnquoted"]
      <4>1. y = [rd EXCEPT !.start = a + 1, !.field_start = a, !.state = "InUnquoted"]
        BY <1>6, <2>1, <3>4
      <4>2. /\ y \in Readers /\ y.start = a + 1 /\ y.state = "InUnquoted" /\ y.buf = rd.buf /\ y.ranges = rd.ranges
            /\ y.scratch = rd.scratch /\ y.field_start = a
        BY <1>1, <1>6, <4>1 DEF Readers, States
      <4>3. RangesFit(y)
        BY <1>1, <4>2, SameFields
      <4> QED
        BY <1>6, <4>2, <4>3 DEF InBounds
    <3> QED
      BY <1>8, <3>1, <3>2, <3>3, <3>4
  <2>3. StateOf(y, "loop")
    BY DEF StateOf
  <2> QED
    BY <1>1, <1>2, <1>8, <2>1, <2>2, <2>3, TypesIntro
<1>9. \/ Return(ConsumeNewline(z), "none")
      \/ /\ UNCHANGED <<call, rows>>
         /\ \/ rd' = ConsumeNewline(rd)
            \/ rd' = [z EXCEPT !.start = @ + 1, !.field_start = rd.start]
            \/ rd' = [rd EXCEPT !.start = @ + 1, !.field_start = rd.start, !.state = "InQuoted",
                                !.scratch_field_start = Len(rd.scratch)]
            \/ rd' = [rd EXCEPT !.start = @ + 1, !.field_start = rd.start, !.state = "InUnquoted"]
  BY <1>3 DEF StartOfField
<1> QED
  BY <1>7, <1>8, <1>9

\* Where a field without quotes ends, and the reader that has recorded it.
LEMMA UnquotedReader ==
  ASSUME rd \in Readers, InBounds(rd), rd.state = "InUnquoted",
         NEW pos \in Nat, rd.start <= pos, pos <= Len(rd.buf),
         NEW x, x = [Push(rd, Raw("buf", rd.field_start, pos)) EXCEPT !.start = pos]
  PROVE  /\ x \in Readers /\ InBounds(x) /\ Fields(x) = Append(Fields(rd), Slice(rd.buf, rd.field_start, pos))
         /\ x = [rd EXCEPT !.ranges = Append(rd.ranges, Raw("buf", rd.field_start, pos)), !.start = pos]
         /\ Len(x.ranges) = Len(rd.ranges) + 1
<1>1. PICK a \in Nat : a = rd.field_start
  BY ReaderType
<1>2. RangesFit(rd) /\ a <= rd.start /\ rd.start \in Nat
  BY <1>1, ReaderType DEF InBounds
<1>3. PICK z : z = Push(rd, Raw("buf", a, pos))
  OBVIOUS
<1>4. a <= pos
  BY <1>2
<1>5. /\ z = [rd EXCEPT !.ranges = Append(rd.ranges, Raw("buf", a, pos))]
      /\ z \in Readers /\ RangesFit(z) /\ Fields(z) = Append(Fields(rd), Slice(rd.buf, a, pos))
      /\ Len(z.ranges) = Len(rd.ranges) + 1
  BY <1>2, <1>3, <1>4, PushBuf
<1>6. x = [z EXCEPT !.start = pos]
  BY <1>1, <1>3
<1>7. /\ x \in Readers /\ x.start = pos /\ x.buf = z.buf /\ x.scratch = z.scratch /\ x.ranges = z.ranges
      /\ x.state = z.state /\ x.field_start = z.field_start
      /\ z.state = "InUnquoted" /\ z.field_start = a /\ z.buf = rd.buf
  BY <1>1, <1>5, <1>6 DEF Readers
<1>8. RangesFit(x) /\ Fields(x) = Fields(z)
  <2>1. z \in Readers /\ RangesFit(z)
    BY <1>5
  <2>2. x.buf = z.buf /\ x.scratch = z.scratch /\ x.ranges = z.ranges
    BY <1>7
  <2> QED
    BY <2>1, <2>2, SameFields
<1>9. InBounds(x)
  BY <1>4, <1>7, <1>8 DEF InBounds
<1>10. x = [rd EXCEPT !.ranges = Append(rd.ranges, Raw("buf", a, pos)), !.start = pos]
  BY <1>5, <1>6
<1> QED
  BY <1>1, <1>5, <1>7, <1>8, <1>9, <1>10

LEMMA UnquotedBounded ==
  ASSUME CsvTypes, InUnquoted
  PROVE  CsvTypes'
<1>1. /\ source \in Buffers /\ rd \in Readers /\ InBounds(rd) /\ rows \in Seq(Rows) /\ rd.start <= Len(rd.buf)
      /\ rd.start \in Nat /\ Len(rd.buf) \in Nat /\ RangesFit(rd) /\ rd.field_start \in Nat
  BY CsvFacts
<1>2. /\ rd.start < Len(rd.buf) /\ rd.state = "InUnquoted" /\ call = "loop" /\ UNCHANGED <<input, source, config>>
  BY DEF InUnquoted, ParsingIn, Parsing
<1>3. PICK pos : pos = Find({"d"} \cup Newline)
  OBVIOUS
<1>4. pos \in Nat /\ rd.start <= pos /\ pos <= Len(rd.buf)
  BY <1>1, <1>3, FindProps
<1>5. PICK x : x = [Push(rd, Raw("buf", rd.field_start, pos)) EXCEPT !.start = pos]
  OBVIOUS
<1>6. /\ x \in Readers /\ InBounds(x)
      /\ x = [rd EXCEPT !.ranges = Append(rd.ranges, Raw("buf", rd.field_start, pos)), !.start = pos]
  BY <1>1, <1>2, <1>4, <1>5, UnquotedReader
<1>7. x.start = pos /\ x.buf = rd.buf /\ x.state = "InUnquoted" /\ x.field_start <= x.start /\ RangesFit(x)
  BY <1>1, <1>2, <1>6 DEF Readers, InBounds
<1>8. "field" \in Errors /\ "none" \in Errors
  BY DEF Errors
<1>9. \/ Refuse(rd, "field")
      \/ rd' = [rd EXCEPT !.start = pos] /\ UNCHANGED <<call, rows>>
      \/ /\ pos # Len(rd.buf)
         /\ \/ rd' = [x EXCEPT !.start = pos + 1, !.state = "StartOfField"] /\ UNCHANGED <<call, rows>>
            \/ Return(ConsumeNewline(x), "none")
  BY <1>3, <1>5 DEF InUnquoted
<1>10. CASE Refuse(rd, "field")
  <2>1. PICK y : y = [rd EXCEPT !.start = Len(rd.buf), !.eof = TRUE]
    OBVIOUS
  <2>2. Return(y, "field")
    BY <1>10, <2>1 DEF Refuse
  <2>3. y \in Readers /\ InBounds(y)
    BY <1>1, <2>1, RefuseBounds
  <2> QED
    BY <1>2, <1>8, <2>2, <2>3, TypesReturn
<1>11. CASE rd' = [rd EXCEPT !.start = pos] /\ UNCHANGED <<call, rows>>
  <2>1. PICK y : y = rd'
    OBVIOUS
  <2>2. /\ y \in Readers /\ y.buf = rd.buf /\ y.scratch = rd.scratch /\ y.ranges = rd.ranges /\ y.start = pos
        /\ y.state = rd.state /\ y.field_start = rd.field_start /\ y.scratch_field_start = rd.scratch_field_start
    BY <1>1, <1>4, <1>11, <2>1 DEF Readers
  <2>3. InBounds(y) /\ StateOf(y, "loop")
    BY <1>1, <1>4, <2>2, Moved DEF StateOf
  <2> QED
    BY <1>1, <1>2, <1>11, <2>1, <2>2, <2>3, TypesIntro
<1>12. CASE /\ pos # Len(rd.buf)
            /\ rd' = [x EXCEPT !.start = pos + 1, !.state = "StartOfField"] /\ UNCHANGED <<call, rows>>
  <2>1. PICK y : y = rd'
    OBVIOUS
  <2>2. PICK a \in Nat : a = pos + 1 /\ a <= Len(rd.buf) /\ pos <= a
    BY <1>1, <1>4, <1>12
  <2>3. y = [x EXCEPT !.start = a, !.state = "StartOfField"]
    BY <1>12, <2>1, <2>2
  <2>4. /\ y \in Readers /\ y.buf = x.buf /\ y.scratch = x.scratch /\ y.ranges = x.ranges /\ y.start = a
        /\ y.state = "StartOfField" /\ y.field_start = x.field_start /\ y.scratch_field_start = x.scratch_field_start
    BY <1>6, <2>3 DEF Readers, States
  <2>5. InBounds(y) /\ StateOf(y, "loop")
    BY <1>6, <1>7, <2>2, <2>4, Moved DEF StateOf
  <2> QED
    BY <1>1, <1>2, <1>12, <2>1, <2>4, <2>5, TypesIntro
<1>13. CASE pos # Len(rd.buf) /\ Return(ConsumeNewline(x), "none")
  <2>1. x.start < Len(x.buf)
    BY <1>1, <1>4, <1>7, <1>13
  <2>2. ConsumeNewline(x) \in Readers /\ InBounds(ConsumeNewline(x))
    BY <1>6, <1>7, <2>1, NewlineBounds
  <2> QED
    BY <1>2, <1>8, <1>13, <2>2, TypesReturn
<1> QED
  BY <1>9, <1>10, <1>11, <1>12, <1>13

\* The reader at the quote that ends the content, and when the field is closed.
LEMMA QuotedEnd ==
  ASSUME rd \in Readers, InBounds(rd), rd.state = "InQuoted",
         NEW pos \in Nat, rd.start <= pos, pos < Len(rd.buf),
         NEW y, y = [QuotedTo(rd, pos) EXCEPT !.pending_lf_quoted = FALSE]
  PROVE  /\ y \in Readers /\ InBounds(y) /\ Fields(y) = Fields(rd)
         /\ y = [rd EXCEPT !.line = QuotedTo(rd, pos).line, !.pending_lf_quoted = FALSE,
                           !.scratch = QuotedTo(rd, pos).scratch]
<1>1. Len(rd.buf) \in Nat /\ pos <= Len(rd.buf)
  BY ReaderType
<1>2. PICK x : x = QuotedTo(rd, pos)
  OBVIOUS
<1>3. /\ x \in Readers /\ InBounds(x) /\ Fields(x) = Fields(rd)
      /\ x = [rd EXCEPT !.line = x.line, !.pending_lf_quoted = x.pending_lf_quoted, !.scratch = x.scratch]
  <2>1. Took(rd, x, Slice(rd.buf, rd.start, pos))
    BY <1>1, <1>2, QuotedReader
  <2> QED
    BY <2>1 DEF Took
<1>4. y = [x EXCEPT !.pending_lf_quoted = FALSE]
  BY <1>2
<1>5. /\ y \in Readers /\ y.buf = x.buf /\ y.scratch = x.scratch /\ y.ranges = x.ranges /\ y.start = x.start
      /\ y.state = x.state /\ y.field_start = x.field_start /\ y.scratch_field_start = x.scratch_field_start
  BY <1>3, <1>4 DEF Readers
<1>6. InBounds(y) /\ Fields(y) = Fields(x)
  BY <1>3, <1>5, BoundsSame
<1>7. y = [rd EXCEPT !.line = x.line, !.pending_lf_quoted = FALSE, !.scratch = x.scratch]
  BY <1>3, <1>4
<1> QED
  BY <1>2, <1>3, <1>5, <1>6, <1>7

\* A byte in scratch leaves the fields alone.
LEMMA ScratchByte ==
  ASSUME NEW x \in Readers, InBounds(x), x.state = "InQuoted", NEW c \in Bytes,
         NEW a \in Nat, a <= Len(x.buf),
         NEW y, y = [x EXCEPT !.scratch = Append(x.scratch, c), !.start = a]
  PROVE  /\ y \in Readers /\ InBounds(y) /\ Fields(y) = Fields(x)
         /\ Quoted(y) = Append(Quoted(x), c)
<1>1. /\ x.buf \in Seq(Bytes) /\ x.scratch \in Seq(Bytes) /\ x.start \in Nat /\ Len(x.buf) \in Nat
      /\ Len(x.scratch) \in Nat /\ x.scratch_field_start \in Nat
  BY ReaderType
<1>2. RangesFit(x) /\ x.scratch_field_start <= Len(x.scratch)
  BY DEF InBounds
<1> DEFINE u == Append(x.scratch, c)
<1>3. u \in Seq(Bytes) /\ StartsWith(u, x.scratch) /\ Len(u) = Len(x.scratch) + 1 /\ u[Len(x.scratch) + 1] = c
  BY <1>1, GrowAppend
<1> HIDE DEF u
<1>4. y = [x EXCEPT !.scratch = u, !.start = a]
  BY DEF u
<1>5. u \in Buffers
  BY <1>3 DEF Buffers
<1>6. /\ y \in Readers /\ y.scratch = u /\ y.start = a /\ y.buf = x.buf /\ y.ranges = x.ranges
      /\ y.state = x.state /\ y.scratch_field_start = x.scratch_field_start
  BY <1>4, <1>5 DEF Readers
<1>7. StartsWith(y.buf, x.buf) /\ StartsWith(y.scratch, x.scratch)
  BY <1>1, <1>3, <1>6, GrowRefl
<1>8. RangesFit(y) /\ Fields(y) = Fields(x)
  BY <1>2, <1>6, <1>7, FieldsGrow
<1>9. InBounds(y)
  BY <1>1, <1>2, <1>3, <1>6, <1>8 DEF InBounds
<1>10. PICK f \in Nat, n \in Nat : f = x.scratch_field_start /\ n = Len(x.scratch) /\ f <= n
  BY <1>1, <1>2
<1> DEFINE v == Slice(u, f, n + 1)
           w == Slice(x.scratch, f, n)
<1>11. /\ v \in Seq(Bytes) /\ Len(v) = (n + 1) - f
       /\ \A i \in 1..((n + 1) - f) : v[i] = u[f + i]
  <2>1. n + 1 \in Nat /\ f <= n + 1 /\ n + 1 <= Len(u)
    BY <1>3, <1>10
  <2> QED
    BY <1>3, <2>1, SliceProps
<1>12. /\ w \in Seq(Bytes) /\ Len(w) = n - f
       /\ \A i \in 1..(n - f) : w[i] = x.scratch[f + i]
  <2>1. PICK t \in Seq(Bytes) : t = x.scratch
    BY <1>1
  <2>2. n <= Len(t) /\ f <= n
    BY <1>10, <2>1
  <2>3. /\ Slice(t, f, n) \in Seq(Bytes) /\ Len(Slice(t, f, n)) = n - f
        /\ \A i \in 1..(n - f) : Slice(t, f, n)[i] = t[f + i]
    BY <2>2, SliceProps
  <2> QED
    BY <2>1, <2>3
<1> HIDE DEF v, w
<1>13. PICK k \in Nat : k = n - f
  BY <1>10
<1>14. Len(v) = k + 1 /\ Len(w) = k /\ f + (k + 1) = n + 1 /\ k + 1 \in 1..((n + 1) - f)
  BY <1>10, <1>11, <1>12, <1>13
<1>15. v[k + 1] = c
  BY <1>3, <1>10, <1>11, <1>14
<1>16. ASSUME NEW i \in 1..k PROVE v[i] = w[i]
  <2>1. i \in 1..((n + 1) - f) /\ i \in 1..(n - f) /\ f + i \in 1..Len(x.scratch)
    BY <1>10, <1>13
  <2> QED
    BY <2>1, <1>3, <1>11, <1>12 DEF StartsWith
<1>17. v = Append(w, c)
  <2>1. /\ Append(w, c) \in Seq(Bytes) /\ Len(Append(w, c)) = k + 1 /\ Append(w, c)[k + 1] = c
        /\ \A i \in 1..k : Append(w, c)[i] = w[i]
    BY <1>12, <1>14
  <2>2. \A i \in 1..(k + 1) : i \in 1..k \/ i = k + 1
    OBVIOUS
  <2>3. \A i \in 1..(k + 1) : v[i] = Append(w, c)[i]
    BY <1>15, <1>16, <2>1, <2>2
  <2> QED
    BY <1>11, <1>14, <2>1, <2>3, SeqEqual
<1>18. Quoted(y) = v /\ Quoted(x) = w
  BY <1>3, <1>6, <1>10 DEF Quoted, v, w
<1> QED
  BY <1>6, <1>8, <1>9, <1>17, <1>18

LEMMA QuotedBounded ==
  ASSUME CsvTypes, InQuoted
  PROVE  CsvTypes'
<1>1. /\ source \in Buffers /\ rd \in Readers /\ InBounds(rd) /\ rows \in Seq(Rows) /\ rd.start <= Len(rd.buf)
      /\ rd.start \in Nat /\ Len(rd.buf) \in Nat /\ RangesFit(rd)
  BY CsvFacts
<1>2. /\ rd.start < Len(rd.buf) /\ rd.state = "InQuoted" /\ call = "loop" /\ UNCHANGED <<input, source, config>>
  BY DEF InQuoted, ParsingIn, Parsing
<1>3. PICK pos : pos = Find({"q"})
  OBVIOUS
<1>4. /\ pos \in Nat /\ rd.start <= pos /\ pos <= Len(rd.buf)
      /\ pos < Len(rd.buf) => rd.buf[pos + 1] \in {"q"}
  BY <1>1, <1>3, FindProps
<1>5. PICK x : x = QuotedTo(rd, pos)
  OBVIOUS
<1>6. Took(rd, x, Slice(rd.buf, rd.start, pos))
  BY <1>1, <1>2, <1>4, <1>5, QuotedReader
<1>7. /\ x \in Readers /\ InBounds(x)
      /\ x = [rd EXCEPT !.line = x.line, !.pending_lf_quoted = x.pending_lf_quoted, !.scratch = x.scratch]
  BY <1>6 DEF Took
<1>8. /\ x.buf = rd.buf /\ x.start = rd.start /\ x.state = "InQuoted"
  BY <1>1, <1>2, <1>7 DEF Readers
<1>9. PICK y : y = [x EXCEPT !.pending_lf_quoted = FALSE]
  OBVIOUS
<1>10. \/ Refuse(x, "field") \/ Refuse(rd, "field")
       \/ rd' = [x EXCEPT !.start = pos] /\ UNCHANGED <<call, rows>>
       \/ /\ pos # Len(rd.buf) /\ UNCHANGED rows
          /\ \/ pos + 1 = Len(rd.buf) /\ rd' = [y EXCEPT !.start = pos + 1] /\ call' = "quote"
             \/ /\ UNCHANGED call /\ pos + 1 # Len(rd.buf)
                /\ \/ rd.buf[pos + 2] = "q" /\ rd' = [y EXCEPT !.scratch = Append(@, "q"), !.start = pos + 2]
                   \/ rd' = [Push(y, Scratch(y)) EXCEPT !.start = pos + 1, !.state = "AfterQuote"]
  BY <1>3, <1>5, <1>9 DEF InQuoted, QuotedTo
<1>11. "field" \in Errors
  BY DEF Errors
<1>12. ASSUME NEW z \in Readers, InBounds(z), Refuse(z, "field") PROVE CsvTypes'
  <2>1. PICK w : w = [z EXCEPT !.start = Len(z.buf), !.eof = TRUE]
    OBVIOUS
  <2>2. Return(w, "field")
    BY <1>12, <2>1 DEF Refuse
  <2>3. w \in Readers /\ InBounds(w)
    BY <1>12, <2>1, RefuseBounds
  <2> QED
    BY <1>2, <1>11, <2>2, <2>3, TypesReturn
<1>13. CASE rd' = [x EXCEPT !.start = pos] /\ UNCHANGED <<call, rows>>
  <2>1. PICK w : w = rd'
    OBVIOUS
  <2>2. /\ w \in Readers /\ w.buf = x.buf /\ w.scratch = x.scratch /\ w.ranges = x.ranges /\ w.start = pos
        /\ w.state = x.state /\ w.field_start = x.field_start /\ w.scratch_field_start = x.scratch_field_start
    BY <1>4, <1>7, <1>13, <2>1 DEF Readers
  <2>3. InBounds(w) /\ StateOf(w, "loop")
    BY <1>4, <1>7, <1>8, <2>2, Moved DEF StateOf
  <2> QED
    BY <1>1, <1>2, <1>13, <2>1, <2>2, <2>3, TypesIntro
<1>14. CASE pos # Len(rd.buf) /\ UNCHANGED rows
  <2>0. pos < Len(rd.buf) /\ pos + 1 \in Nat /\ pos + 1 <= Len(rd.buf)
    BY <1>1, <1>4, <1>14
  <2>1. y \in Readers /\ InBounds(y)
    BY <1>1, <1>2, <1>4, <1>5, <1>9, <2>0, QuotedEnd
  <2>2. y.buf = rd.buf /\ y.start = rd.start /\ y.state = "InQuoted"
    BY <1>7, <1>8, <1>9 DEF Readers
  <2>3. CASE pos + 1 = Len(rd.buf) /\ rd' = [y EXCEPT !.start = pos + 1] /\ call' = "quote"
    <3>1. PICK w : w = rd'
      OBVIOUS
    <3>2. PICK a \in Nat : a = pos + 1 /\ a <= Len(y.buf) /\ y.start <= a /\ a = Len(y.buf)
      BY <1>1, <1>4, <2>0, <2>2, <2>3
    <3>3. /\ w \in Readers /\ w.buf = y.buf /\ w.scratch = y.scratch /\ w.ranges = y.ranges /\ w.start = a
          /\ w.state = y.state /\ w.field_start = y.field_start /\ w.scratch_field_start = y.scratch_field_start
      BY <2>1, <2>3, <3>1, <3>2 DEF Readers
    <3>4. InBounds(w) /\ StateOf(w, "quote")
      BY <2>1, <2>2, <3>2, <3>3, Moved DEF StateOf
    <3> QED
      BY <1>1, <1>2, <1>14, <2>3, <3>1, <3>3, <3>4, TypesIntro
  <2>4. CASE /\ UNCHANGED call /\ pos + 1 # Len(rd.buf) /\ rd.buf[pos + 2] = "q"
             /\ rd' = [y EXCEPT !.scratch = Append(@, "q"), !.start = pos + 2]
    <3>1. PICK w : w = rd'
      OBVIOUS
    <3>2. PICK a \in Nat : a = pos + 2 /\ a <= Len(y.buf)
      BY <1>1, <1>4, <2>0, <2>2, <2>4
    <3>3. "q" \in Bytes
      <4>1. rd.buf \in Seq(Bytes) /\ pos + 1 \in 1..Len(rd.buf)
        BY <1>1, <1>4, <2>0, ReaderType
      <4> QED
        BY <1>4, <2>0, <4>1
    <3>4. w = [y EXCEPT !.scratch = Append(y.scratch, "q"), !.start = a]
      BY <2>4, <3>1, <3>2
    <3>5. w \in Readers /\ InBounds(w)
      BY <2>1, <2>2, <3>2, <3>3, <3>4, ScratchByte
    <3>6. StateOf(w, "loop")
      BY DEF StateOf
    <3> QED
      BY <1>1, <1>2, <1>14, <2>4, <3>1, <3>5, <3>6, TypesIntro
  <2>5. CASE UNCHANGED call /\ rd' = [Push(y, Scratch(y)) EXCEPT !.start = pos + 1, !.state = "AfterQuote"]
    <3>1. PICK w : w = rd'
      OBVIOUS
    <3>2. PICK a \in Nat : a = pos + 1 /\ a <= Len(y.buf) /\ y.start <= a
      BY <1>1, <1>4, <2>0, <2>2
    <3>3. PICK z : z = Closed(y)
      OBVIOUS
    <3>4. z \in Readers /\ InBounds(z) /\ z = [y EXCEPT !.ranges = Append(y.ranges, Scratch(y)), !.state = "AfterQuote"]
      BY <2>1, <2>2, <3>3, ClosedBounds
    <3>5. w = [z EXCEPT !.start = a]
      BY <2>5, <3>1, <3>2, <3>3 DEF Closed, Push
    <3>6. z.buf = y.buf /\ z.start = y.start
      BY <2>1, <3>4 DEF Readers
    <3>7. /\ w \in Readers /\ w.buf = z.buf /\ w.scratch = z.scratch /\ w.ranges = z.ranges /\ w.start = a
          /\ w.state = z.state /\ w.field_start = z.field_start /\ w.scratch_field_start = z.scratch_field_start
      BY <3>4, <3>5 DEF Readers
    <3>8. InBounds(w) /\ StateOf(w, "loop")
      BY <3>2, <3>4, <3>6, <3>7, Moved DEF StateOf
    <3> QED
      BY <1>1, <1>2, <1>14, <2>5, <3>1, <3>7, <3>8, TypesIntro
  <2> QED
    BY <1>10, <1>12, <1>13, <1>14, <1>1, <1>7, <2>3, <2>4, <2>5
<1> QED
  BY <1>1, <1>7, <1>10, <1>12, <1>13, <1>14

LEMMA QuoteBounded ==
  ASSUME CsvTypes, QuoteMore \/ QuoteEof \/ QuoteFails
  PROVE  CsvTypes'
<1>0. call = "quote"
  BY DEF QuoteMore, QuoteEof, QuoteFails
<1>1. /\ source \in Buffers /\ rd \in Readers /\ InBounds(rd) /\ rows \in Seq(Rows) /\ rd.start <= Len(rd.buf)
      /\ rd.start \in Nat /\ Len(rd.buf) \in Nat /\ rd.start = Len(rd.buf) /\ rd.state = "InQuoted"
  BY <1>0, CsvFacts DEF StateOf
<1>2. CASE QuoteMore
  <2>1. PICK n \in 1..Len(source) :
          /\ rd' = IF [rd EXCEPT !.buf = @ \o SubSeq(source, 1, n)].buf[rd.start + 1] = "q"
                   THEN [[rd EXCEPT !.buf = @ \o SubSeq(source, 1, n)] EXCEPT !.scratch = Append(@, "q"), !.start = @ + 1]
                   ELSE Closed([rd EXCEPT !.buf = @ \o SubSeq(source, 1, n)])
          /\ source' = SubSeq(source, n + 1, Len(source))
    <3>1. ASSUME NEW n \in 1..Len(source) PROVE [rd EXCEPT !.buf = @ \o SubSeq(source, 1, n)].start = rd.start
      BY <1>1 DEF Readers
    <3> QED
      BY <1>2, <3>1 DEF QuoteMore
  <2>2. PICK x : x = [rd EXCEPT !.buf = @ \o SubSeq(source, 1, n)]
    OBVIOUS
  <2>3. x \in Readers /\ InBounds(x) /\ Len(x.buf) = Len(rd.buf) + n
    <3>1. Grew(rd, x, n)
      BY <1>1, <2>2, ReaderMore
    <3> QED
      BY <3>1 DEF Grew
  <2>4. x.start = rd.start /\ x.state = "InQuoted"
    BY <1>1, <2>2 DEF Readers
  <2>5. PICK a \in Nat : a = x.start + 1 /\ a <= Len(x.buf) /\ a \in 1..Len(x.buf)
    BY <1>1, <2>3, <2>4
  <2>6. PICK y : y = rd'
    OBVIOUS
  <2>7. \/ x.buf[a] = "q" /\ y = [x EXCEPT !.scratch = Append(x.scratch, "q"), !.start = a]
        \/ y = Closed(x)
    BY <2>1, <2>2, <2>4, <2>5, <2>6
  <2>8. y \in Readers /\ InBounds(y)
    <3>1. CASE y = Closed(x)
      BY <2>3, <2>4, <3>1, ClosedBounds
    <3>2. CASE x.buf[a] = "q" /\ y = [x EXCEPT !.scratch = Append(x.scratch, "q"), !.start = a]
      <4>1. x.buf \in Seq(Bytes)
        BY <2>3, ReaderType
      <4>2. "q" \in Bytes
        BY <2>5, <3>2, <4>1
      <4> QED
        BY <2>3, <2>4, <2>5, <3>2, <4>2, ScratchByte
    <3> QED
      BY <2>7, <3>1, <3>2
  <2>9. source' \in Buffers
    BY <1>1, <2>1, Chunk DEF Buffers
  <2>10. StateOf(y, "loop")
    BY DEF StateOf
  <2>11. call' = "loop" /\ UNCHANGED <<input, config, rows>>
    BY <1>2 DEF QuoteMore
  <2> QED
    BY <1>1, <2>6, <2>8, <2>9, <2>10, <2>11, TypesIntro, SMTT(40)
<1>3. CASE QuoteEof
  <2>1. PICK x : x = [rd EXCEPT !.eof = TRUE]
    OBVIOUS
  <2>2. x \in Readers /\ InBounds(x) /\ x.state = "InQuoted"
    BY <1>1, <2>1, EofBounds DEF Readers
  <2>3. rd' = Closed(x) /\ call' = "loop" /\ UNCHANGED <<input, source, config, rows>>
    BY <1>3, <2>1 DEF QuoteEof
  <2>4. Closed(x) \in Readers /\ InBounds(Closed(x))
    BY <2>2, ClosedBounds
  <2>5. StateOf(Closed(x), "loop")
    BY DEF StateOf
  <2> QED
    BY <1>1, <2>3, <2>4, <2>5, TypesIntro
<1>4. CASE QuoteFails
  <2>1. PICK x : x = Closed(rd)
    OBVIOUS
  <2>2. x \in Readers /\ InBounds(x)
    BY <1>1, <2>1, ClosedBounds
  <2>3. PICK e \in BOOLEAN : Return([x EXCEPT !.eof = e], "io")
    BY <1>4, <2>1 DEF QuoteFails
  <2>4. [x EXCEPT !.eof = e] \in Readers /\ InBounds([x EXCEPT !.eof = e])
    BY <2>2, EofBounds
  <2>5. "io" \in Errors /\ UNCHANGED <<input, source, config>>
    BY <1>4 DEF Errors, QuoteFails
  <2> QED
    BY <2>3, <2>4, <2>5, TypesReturn
<1> QED
  BY <1>2, <1>3, <1>4, SMTT(40)

LEMMA AfterBounded ==
  ASSUME CsvTypes, AfterQuote
  PROVE  CsvTypes'
<1>1. /\ source \in Buffers /\ rd \in Readers /\ InBounds(rd) /\ rows \in Seq(Rows) /\ rd.start <= Len(rd.buf)
      /\ rd.start \in Nat /\ Len(rd.buf) \in Nat /\ RangesFit(rd)
  BY CsvFacts
<1>2. /\ rd.start < Len(rd.buf) /\ rd.state = "AfterQuote" /\ call = "loop" /\ UNCHANGED <<input, source, config>>
  BY DEF AfterQuote, ParsingIn, Parsing
<1>3. \/ rd' = [rd EXCEPT !.start = @ + 1, !.state = "StartOfField"] /\ UNCHANGED <<call, rows>>
      \/ Return(ConsumeNewline(rd), "none")
      \/ call' = "skip" /\ UNCHANGED <<rd, rows>>
  BY DEF AfterQuote
<1>4. CASE rd' = [rd EXCEPT !.start = @ + 1, !.state = "StartOfField"] /\ UNCHANGED <<call, rows>>
  <2>1. PICK a \in Nat : a = rd.start + 1 /\ a <= Len(rd.buf) /\ rd.start <= a
    BY <1>1, <1>2
  <2>2. PICK y : y = rd'
    OBVIOUS
  <2>3. y = [rd EXCEPT !.start = a, !.state = "StartOfField"]
    BY <1>4, <2>1, <2>2
  <2>4. /\ y \in Readers /\ y.buf = rd.buf /\ y.scratch = rd.scratch /\ y.ranges = rd.ranges /\ y.start = a
        /\ y.state = "StartOfField" /\ y.field_start = rd.field_start /\ y.scratch_field_start = rd.scratch_field_start
    BY <1>1, <2>3 DEF Readers, States
  <2>5. InBounds(y) /\ StateOf(y, "loop")
    BY <1>1, <2>1, <2>4, Moved DEF StateOf
  <2> QED
    BY <1>1, <1>2, <1>4, <2>2, <2>4, <2>5, TypesIntro
<1>5. CASE Return(ConsumeNewline(rd), "none")
  <2>1. ConsumeNewline(rd) \in Readers /\ InBounds(ConsumeNewline(rd))
    BY <1>1, <1>2, NewlineBounds
  <2>2. "none" \in Errors
    BY DEF Errors
  <2> QED
    BY <1>2, <1>5, <2>1, <2>2, TypesReturn
<1>6. CASE call' = "skip" /\ UNCHANGED <<rd, rows>>
  <2>1. StateOf(rd, "skip")
    BY <1>2 DEF StateOf
  <2> QED
    BY <1>1, <1>2, <1>6, <2>1, TypesIntro
<1> QED
  BY <1>3, <1>4, <1>5, <1>6

LEMMA SkipBounded ==
  ASSUME CsvTypes, Skip \/ SkipMore \/ SkipEnds
  PROVE  CsvTypes'
<1>0. call = "skip"
  BY DEF Skip, SkipMore, SkipEnds
<1>1. /\ source \in Buffers /\ rd \in Readers /\ InBounds(rd) /\ rows \in Seq(Rows) /\ rd.start <= Len(rd.buf)
      /\ rd.start \in Nat /\ Len(rd.buf) \in Nat /\ RangesFit(rd) /\ rd.state = "AfterQuote"
  BY <1>0, CsvFacts DEF StateOf
<1>2. "trailing" \in Errors
  BY DEF Errors
<1>3. CASE Skip
  <2>1. PICK pos : pos = Find(Newline)
    OBVIOUS
  <2>2. pos \in Nat /\ rd.start <= pos /\ pos <= Len(rd.buf)
    BY <1>1, <2>1, FindProps
  <2>3. PICK y : y = [rd EXCEPT !.start = pos]
    OBVIOUS
  <2>4. /\ y \in Readers /\ y.buf = rd.buf /\ y.scratch = rd.scratch /\ y.ranges = rd.ranges /\ y.start = pos
        /\ y.state = rd.state /\ y.field_start = rd.field_start /\ y.scratch_field_start = rd.scratch_field_start
    BY <1>1, <2>2, <2>3 DEF Readers
  <2>5. InBounds(y) /\ StateOf(y, "skip")
    BY <1>1, <2>2, <2>4, Moved DEF StateOf
  <2>6. /\ \/ pos = Len(rd.buf) /\ rd' = y /\ UNCHANGED <<call, rows>>
           \/ pos # Len(rd.buf) /\ Return(ConsumeNewline(y), "trailing")
        /\ UNCHANGED <<input, source, config>>
    BY <1>3, <2>1, <2>3 DEF Skip
  <2>7. CASE rd' = y /\ UNCHANGED <<call, rows>>
    BY <1>0, <1>1, <2>4, <2>5, <2>6, <2>7, TypesIntro
  <2>8. CASE pos # Len(rd.buf) /\ Return(ConsumeNewline(y), "trailing")
    <3>1. y.start < Len(y.buf) /\ RangesFit(y) /\ y.state = "AfterQuote"
      BY <1>1, <2>2, <2>4, <2>5, <2>8 DEF InBounds
    <3>2. ConsumeNewline(y) \in Readers /\ InBounds(ConsumeNewline(y))
      BY <2>4, <3>1, NewlineBounds
    <3> QED
      BY <1>2, <2>6, <2>8, <3>2, TypesReturn
  <2> QED
    BY <2>6, <2>7, <2>8
<1>4. CASE SkipMore
  BY <1>4, MoreBounded DEF SkipMore
<1>5. CASE SkipEnds
  <2>1. PICK y : y = [rd EXCEPT !.eof = TRUE]
    OBVIOUS
  <2>2. y \in Readers /\ InBounds(y)
    BY <1>1, <2>1, EofBounds
  <2>3. Return(y, "trailing") /\ UNCHANGED <<input, source, config>>
    BY <1>5, <2>1 DEF SkipEnds
  <2> QED
    BY <1>2, <2>2, <2>3, TypesReturn
<1> QED
  BY <1>3, <1>4, <1>5

LEMMA Bounded ==
  ASSUME CsvTypes, [CsvNext]_csvVars
  PROVE  CsvTypes'
<1>1. CASE UNCHANGED csvVars
  BY <1>1 DEF csvVars, CsvTypes, StateOf, InBounds, RangesFit, SrcOf
<1>2. CASE CsvNext
  BY <1>2, ReadRowBounded, BomBounded, LoopBounded, StartBounded, UnquotedBounded, QuotedBounded, QuoteBounded,
     AfterBounded, SkipBounded DEF CsvNext, Parse, Fill, End, Fail
<1> QED
  BY <1>1, <1>2

-----------------------------------------------------------------------------
(* The three ways a step can end. *)

LEMMA NormalIntro ==
  ASSUME UNCHANGED <<input, config>>, failed' = {}, NEW y, rd' = y, y.bom_checked,
         NEW c \in {"idle", "loop", "quote", "skip"}, call' = c,
         NEW src, source' = src, y.eof => src = <<>>,
         NEW q \in 0..Len(Body), Unread(y, src, q), Match(y, Reference[q], c), rows' = Reference[q].rows
  PROVE  Normal'
<1>1. Body' = Body /\ Reference' = Reference
  BY Rigid
<1>2. Unread(rd, source, q)'
  BY <1>1 DEF Unread
<1>3. PICK s : s = Reference[q] /\ Match(y, s, c) /\ Reference'[q] = s
  BY <1>1
<1>4. Match(rd, s, call)'
  BY <1>3 DEF Match, MatchIdle, MatchLoop, MatchStart, MatchUnquoted, MatchQuoted, MatchAfterQuote, MatchQuote,
              MatchSkip, SameCr, NoCr, Fields, Field, SrcOf, Unquoted, Quoted, Slice
<1>5. Match(rd, Reference[q], call)'
  BY <1>3, <1>4, ZenonT(60) DEF Match, MatchIdle, MatchLoop, MatchStart, MatchUnquoted, MatchQuoted, MatchAfterQuote, MatchQuote,
              MatchSkip, SameCr, NoCr, Fields, Field, SrcOf, Unquoted, Quoted, Slice
<1>6. q \in 0..Len(Body') /\ rows' = Reference'[q].rows
  BY <1>1
<1> QED
  BY <1>2, <1>5, <1>6 DEF Normal

LEMMA OverIntro ==
  ASSUME UNCHANGED <<input, config>>, failed' = {}, NEW y, rd' = y, y.bom_checked, y.eof, y.start = Len(y.buf),
         call' \in {"idle", "done"}, rows' = Expected, Parsed.st = "stop" \/ y.line = Parsed.line
  PROVE  Over'
<1>1. Expected' = Expected /\ Parsed' = Parsed
  BY Rigid
<1> QED
  BY <1>1 DEF Over, Ended

LEMMA BrokenIntro ==
  ASSUME input \in Buffers, UNCHANGED <<input, config>>, failed' # {}, rd'.bom_checked,
         NEW p \in 0..Len(Body), rows = Reference[p].rows, rows \in Seq(Rows),
         NEW r \in Rows, rows' = Append(rows, r), r.err # "none",
         failed' \cap {"bom", "quote"} # {} \/ Ended'
  PROVE  Broken'
<1>1. Expected' = Expected
  BY Rigid
<1>2. PICK n \in Nat : n = Len(rows)
  OBVIOUS
<1>3. Len(rows') = n + 1 /\ rows'[n + 1] = r /\ n + 1 \in 1..(n + 1) /\ (n + 1) - 1 = n
  BY <1>2
<1>4. SubSeq(rows', 1, n) = rows
  <2> DEFINE u == SubSeq(Append(rows, r), 1, n)
  <2>1. u \in Seq(Rows) /\ Len(u) = n /\ \A i \in 1..n : u[i] = rows[i]
    BY <1>2
  <2> HIDE DEF u
  <2>2. u = rows
    BY <1>2, <2>1, SeqEqual
  <2> QED
    BY <2>2 DEF u
<1>5. IsPrefix(rows, Expected)
  BY PrefixOfExpected
<1>6. IsPrefix(SubSeq(rows', 1, (n + 1) - 1), Expected')
  BY <1>1, <1>3, <1>4, <1>5
<1> QED
  BY <1>3, <1>6 DEF Broken

-----------------------------------------------------------------------------
(* From one byte to the next. *)

\* A record that has no field is not too wide.
LEMMA NotWide ==
  ASSUME config \in Configs, NEW s, s.fields = <<>>
  PROVE  ~TooWide(s)
<1>1. config.columns # NoLimit => config.columns \in Nat
  BY ConfigType
<1> QED
  BY <1>1 DEF TooWide

BehindLine(z, src, t, q, b) ==
  Unread(z, src, q) /\ Reference[q] = [t EXCEPT !.cr = b] /\ SameCr(z, [t EXCEPT !.cr = b])

\* A line end, with the "\n" of a "\r\n" if it is in the buffer.
LEMMA LineEnd ==
  ASSUME input \in Buffers, config \in Configs, NEW x \in Readers, x.start < Len(x.buf), ~x.pending_cr,
         NEW src \in Buffers, NEW p \in 0..Len(Body), Unread(x, src, p),
         x.buf[x.start + 1] \in Newline,
         NEW t, t = Reference[p + 1], t.st = "start", t.fields = <<>>, t.cr = (x.buf[x.start + 1] = "r"),
         NEW y, y = ConsumeNewline(x),
         NEW z, z.start = y.start, z.buf = x.buf, z.pending_cr = y.pending_cr
  PROVE  \E q \in 0..Len(Body), b \in BOOLEAN : BehindLine(z, src, t, q, b)
<1>0. PICK k \in {1, 2}, c \in BOOLEAN : NewlineTo(x, y, k, c)
  BY NewlineReader
<1>2. /\ y = [x EXCEPT !.start = x.start + k, !.line = x.line + 1, !.pending_cr = c]
      /\ x.start + k <= Len(x.buf)
      /\ NewlineAhead(x, k, c)
  BY <1>0 DEF NewlineTo
<1>3. x.start \in Nat /\ Len(x.buf) \in Nat /\ x.start + 1 \in Nat
  BY ReaderType
<1>4. z.start = x.start + k /\ z.buf = x.buf /\ z.pending_cr = c
  BY <1>2 DEF Readers
<1>5. p + 1 \in 0..Len(Body) /\ t \in RefStates /\ \A w : w.start = x.start + 1 /\ w.buf = x.buf => Unread(w, src, p + 1)
  BY UnreadByte
<1>6. CASE k = 1
  <2>1. PICK b \in BOOLEAN : b = t.cr
    BY <1>5 DEF RefStates
  <2>2. t = [t EXCEPT !.cr = b] /\ Reference[p + 1] = [t EXCEPT !.cr = b]
    BY <1>5, <2>1 DEF RefStates
  <2>3. Unread(z, src, p + 1)
    BY <1>4, <1>5, <1>6
  <2>4. SameCr(z, t)
    <3>1. CASE c /\ x.buf[x.start + 1] = "r"
      BY <1>4, <3>1 DEF SameCr
    <3>2. CASE ~c /\ x.buf[x.start + 1] = "r" /\ x.start + 1 < Len(x.buf) /\ x.buf[x.start + 2] # "n"
      <4>1. z.start + 1 = x.start + 2 /\ z.start < Len(z.buf)
        BY <1>3, <1>4, <1>6, <3>2
      <4> QED
        BY <1>4, <3>2, <4>1 DEF SameCr
    <3>3. CASE ~c /\ x.buf[x.start + 1] # "r"
      BY <1>4, <3>3 DEF SameCr
    <3> QED
      BY <1>2, <1>6, <3>1, <3>2, <3>3 DEF NewlineAhead
  <2> QED
    BY <1>5, <2>2, <2>3, <2>4 DEF BehindLine
<1>7. CASE k = 2
  <2>1. ~c /\ x.buf[x.start + 1] = "r" /\ x.buf[x.start + 2] = "n"
    BY <1>2, <1>7 DEF NewlineAhead
  <2>2. PICK a \in Nat : a = x.start + 1
    BY <1>3
  <2>3. PICK w : w = [x EXCEPT !.start = a]
    OBVIOUS
  <2>4. w \in Readers /\ w.start = a /\ w.buf = x.buf
    BY <2>3 DEF Readers
  <2>5. w.start < Len(w.buf) /\ Unread(w, src, p + 1) /\ w.start + 1 = x.start + 2
    BY <1>2, <1>3, <1>5, <1>7, <2>2, <2>4
  <2>6. PICK m \in 0..Len(Body) : m = p + 1
    BY <1>5
  <2>7. /\ m + 1 \in 0..Len(Body) /\ Reference[m + 1] = Take(t, "n")
        /\ \A v : v.start = w.start + 1 /\ v.buf = w.buf => Unread(v, src, m + 1)
    BY <2>1, <2>4, <2>5, <2>6, UnreadByte, SMTT(40)
  <2>8. ~TooWide(t)
    BY NotWide
  <2>9. Take(t, "n") = StartByte(t, "n") /\ StartByte(t, "n") = [t EXCEPT !.cr = FALSE]
    BY <2>1, <2>8 DEF Take, StartByte
  <2>10. Unread(z, src, m + 1)
    BY <1>4, <1>7, <2>4, <2>5, <2>7
  <2>11. SameCr(z, [t EXCEPT !.cr = FALSE])
    BY <1>4, <1>5, <2>1 DEF SameCr, RefStates
  <2>12. BehindLine(z, src, t, m + 1, FALSE)
    BY <2>7, <2>9, <2>10, <2>11 DEF BehindLine
  <2> QED
    BY <2>7, <2>12
<1> QED
  BY <1>2, <1>6, <1>7

LEMMA EndLineIs ==
  ASSUME NEW s \in RefStates, NEW fields \in FieldLists, NEW err \in Errors, NEW c, NEW t, t = EndLine(s, fields, err, c)
  PROVE  /\ t.st = "start" /\ t.fields = <<>> /\ t.cur = <<>> /\ t.cr = (c = "r")
         /\ t.line = s.line + 1 /\ t.from = s.line + 1
         /\ t.rows = EndOf(s, fields, err, s.line + 1).rows /\ t.num = EndOf(s, fields, err, s.line + 1).num
<1> DEFINE e == EndOf(s, fields, err, s.line + 1)
<1>1. s.line + 1 \in Nat
  BY DEF RefStates
<1>2. e \in RefStates
  BY <1>1, EndOfType
<1>3. /\ e.st = "start" /\ e.fields = <<>> /\ e.cur = <<>> /\ e.line = s.line + 1 /\ e.from = s.line + 1
  BY DEF EndOf, RefStates
<1>4. t = [e EXCEPT !.cr = c = "r"]
  BY DEF EndLine
<1> HIDE DEF e
<1>5. /\ t.st = e.st /\ t.fields = e.fields /\ t.cur = e.cur /\ t.line = e.line /\ t.from = e.from
      /\ t.rows = e.rows /\ t.num = e.num /\ t.cr = (c = "r")
  BY <1>2, <1>4 DEF RefStates
<1> QED
  BY <1>3, <1>5 DEF e

\* The rows and the count after a row that stands for the end of s.
LEMMA ReturnsRow ==
  ASSUME rows \in Seq(Rows), NEW x \in Readers, RangesFit(x), NEW err \in Errors, Return(x, err),
         NEW s \in RefStates, s.num = x.num, s.from = x.record_line, s.rows = rows, NEW l \in Nat
  PROVE  /\ rows' = EndOf(s, Fields(x), err, l).rows /\ call' = "idle"
         /\ rd' = [x EXCEPT !.num = EndOf(s, Fields(x), err, l).num]
         /\ EndOf(s, Fields(x), err, l) \in RefStates
<1>1. BuildRow(x, err) /\ call' = "idle"
  BY DEF Return
<1>2. /\ rows' = EndOf(s, Fields(x), err, l).rows
      /\ rd' = [x EXCEPT !.num = EndOf(s, Fields(x), err, l).num]
  BY <1>1, BuildRowDoes
<1>3. Fields(x) \in FieldLists
  BY FieldsType
<1> QED
  BY <1>1, <1>2, <1>3, EndOfType

LEMMA ReturnAtLineEnd ==
  ASSUME CsvTypes, UNCHANGED <<input, source, config>>, failed' = {},
         NEW x \in Readers, RangesFit(x), x.start < Len(x.buf), x.state # "InQuoted",
         x.state = "InUnquoted" => x.field_start <= x.start,
         ~x.pending_cr, x.bom_checked, x.eof => source = <<>>,
         NEW p \in 0..Len(Body), Unread(x, source, p), x.buf[x.start + 1] \in Newline,
         NEW s \in RefStates, s.num = x.num, s.from = x.record_line, s.rows = rows, s.line = x.line,
         NEW err \in Errors, Reference[p + 1] = EndLine(s, Fields(x), err, x.buf[x.start + 1]),
         Return(ConsumeNewline(x), err)
  PROVE  Normal'
<1>1. input \in Buffers /\ config \in Configs /\ source \in Buffers /\ rows \in Seq(Rows)
  BY CsvFacts
<1>2. PICK y : y = ConsumeNewline(x)
  OBVIOUS
<1>3. y \in Readers /\ InBounds(y) /\ Fields(y) = Fields(x) /\ RangesFit(y)
  BY <1>2, NewlineBounds DEF InBounds
<1>4. PICK k \in {1, 2}, c \in BOOLEAN : NewlineTo(x, y, k, c)
  BY <1>2, NewlineReader
<1>5. y = [x EXCEPT !.start = x.start + k, !.line = x.line + 1, !.pending_cr = c]
  BY <1>4 DEF NewlineTo
<1>6. /\ y.num = x.num /\ y.record_line = x.record_line /\ y.line = x.line + 1 /\ y.buf = x.buf
      /\ y.bom_checked = x.bom_checked /\ y.eof = x.eof
  BY <1>5 DEF Readers
<1>7. PICK l \in Nat : l = s.line + 1
  BY DEF RefStates
<1>8. PICK e : e = EndOf(s, Fields(x), err, l)
  OBVIOUS
<1>9. /\ rows' = e.rows /\ call' = "idle" /\ rd' = [y EXCEPT !.num = e.num]
  BY <1>1, <1>2, <1>3, <1>6, <1>8, ReturnsRow
<1>10. PICK t : t = Reference[p + 1]
  OBVIOUS
<1>11. Fields(x) \in FieldLists
  BY FieldsType
<1>12. /\ t.st = "start" /\ t.fields = <<>> /\ t.cur = <<>> /\ t.cr = (x.buf[x.start + 1] = "r")
       /\ t.line = l /\ t.from = l /\ t.rows = e.rows /\ t.num = e.num
  BY <1>7, <1>8, <1>10, <1>11, EndLineIs
<1>13. PICK z : z = rd'
  OBVIOUS
<1>14. /\ z.start = y.start /\ z.buf = y.buf /\ z.pending_cr = y.pending_cr /\ z.line = y.line
       /\ z.num = e.num /\ z.bom_checked = y.bom_checked /\ z.eof = y.eof
  BY <1>3, <1>9, <1>13 DEF Readers
<1>21. PICK q \in 0..Len(Body), b \in BOOLEAN : BehindLine(z, source, t, q, b)
  BY <1>1, <1>2, <1>6, <1>10, <1>12, <1>14, LineEnd
<1>15. Unread(z, source, q) /\ Reference[q] = [t EXCEPT !.cr = b] /\ SameCr(z, [t EXCEPT !.cr = b])
  BY <1>21 DEF BehindLine
<1>16. t \in RefStates
  BY <1>1, <1>10, UnreadByte
<1>17. PICK v : v = [t EXCEPT !.cr = b]
  OBVIOUS
<1>18. /\ v.st = "start" /\ v.fields = <<>> /\ v.cur = <<>> /\ v.line = l /\ v.from = l /\ v.rows = e.rows
       /\ v.num = e.num
  BY <1>12, <1>16, <1>17 DEF RefStates
<1>19. Match(z, v, "idle")
  BY <1>6, <1>7, <1>14, <1>15, <1>17, <1>18 DEF Match, MatchIdle
<1>20. source' = source /\ (z.eof => source = <<>>) /\ z.bom_checked /\ rd' = z /\ "idle" \in {"idle", "loop", "quote", "skip"}
  BY <1>6, <1>13, <1>14
<1> QED
  BY <1>9, <1>15, <1>17, <1>18, <1>19, <1>20, NormalIntro, ZenonT(60)

\* What is not read is refused where the reference stops.
LEMMA RefusedIsOver ==
  ASSUME CsvTypes, UNCHANGED <<input, source, config>>, failed' = {},
         NEW x \in Readers, InBounds(x), x.bom_checked, NEW err \in Errors, Refuse(x, err),
         NEW s \in RefStates, s.num = x.num, s.from = x.record_line, s.rows = rows, NEW l \in Nat,
         NEW q \in 0..Len(Body), Reference[q].st = "stop", Reference[q].rows = EndOf(s, Fields(x), err, l).rows
  PROVE  Over'
<1>1. input \in Buffers /\ config \in Configs /\ source \in Buffers /\ rows \in Seq(Rows)
  BY CsvFacts
<1>2. PICK y : y = [x EXCEPT !.start = Len(x.buf), !.eof = TRUE]
  OBVIOUS
<1>3. y \in Readers /\ InBounds(y) /\ RangesFit(y) /\ Fields(y) = Fields(x) /\ y.start = Len(y.buf) /\ y.eof
  BY <1>2, RefuseBounds DEF InBounds
<1>4. y.num = x.num /\ y.record_line = x.record_line /\ y.bom_checked = x.bom_checked
  BY <1>2 DEF Readers
<1>5. Return(y, err)
  BY <1>2 DEF Refuse
<1>6. PICK e : e = EndOf(s, Fields(x), err, l)
  OBVIOUS
<1>7. rows' = e.rows /\ call' = "idle" /\ rd' = [y EXCEPT !.num = e.num]
  BY <1>1, <1>3, <1>4, <1>5, <1>6, ReturnsRow
<1>8. Parsed.st = "stop" /\ Expected = e.rows
  BY <1>1, <1>6, StoppedForGood
<1>9. PICK z : z = rd'
  OBVIOUS
<1>10. z.bom_checked /\ z.eof /\ z.start = Len(z.buf)
  BY <1>3, <1>4, <1>7, <1>9 DEF Readers
<1> QED
  BY <1>7, <1>8, <1>9, <1>10, OverIntro

\* The last row.
LEMMA LastRowIsOver ==
  ASSUME CsvTypes, UNCHANGED <<input, source, config>>, failed' = {},
         NEW y \in Readers, InBounds(y), y.bom_checked, y.eof, y.start = Len(y.buf), NEW err \in Errors, Return(y, err),
         Parsed \in RefStates, Parsed.num = y.num, Parsed.from = y.record_line, Parsed.rows = rows, Parsed.line = y.line,
         Expected = EndOf(Parsed, Fields(y), err, Parsed.line).rows
  PROVE  Over'
<1>1. rows \in Seq(Rows) /\ RangesFit(y)
  BY CsvFacts DEF InBounds
<1>2. PICK s \in RefStates : s = Parsed
  OBVIOUS
<1>3. PICK l \in Nat : l = s.line
  BY DEF RefStates
<1>4. PICK e : e = EndOf(s, Fields(y), err, l)
  OBVIOUS
<1>5. rows' = e.rows /\ call' = "idle" /\ rd' = [y EXCEPT !.num = e.num]
  BY <1>1, <1>2, <1>4, ReturnsRow
<1>6. Expected = e.rows
  BY <1>2, <1>3, <1>4
<1>7. PICK z : z = rd'
  OBVIOUS
<1>8. z.bom_checked /\ z.eof /\ z.start = Len(z.buf) /\ z.line = y.line
  BY <1>5, <1>7 DEF Readers
<1> QED
  BY <1>5, <1>6, <1>7, <1>8, OverIntro

\* A row with an error, after a read that failed.
LEMMA FailedIsBroken ==
  ASSUME CsvTypes, UNCHANGED <<input, source, config>>,
         NEW y \in Readers, InBounds(y), y.bom_checked, NEW err \in Errors, err # "none", Return(y, err),
         NEW place, failed' = failed \cup {place},
         place \in {"bom", "quote"} \/ (y.eof /\ y.start = Len(y.buf)),
         NEW p \in 0..Len(Body), rows = Reference[p].rows
  PROVE  Broken'
<1>1. rows \in Seq(Rows) /\ RangesFit(y) /\ input \in Buffers
  BY CsvFacts DEF InBounds
<1>2. BuildRow(y, err) /\ call' = "idle"
  BY DEF Return
<1>3. PICK n \in Nat : rd' = [y EXCEPT !.num = n]
  BY <1>1, <1>2, BuildRowDoes
<1>4. PICK r \in Rows : rows' = Append(rows, r) /\ (err # "none" => r.err # "none")
  BY <1>1, <1>2, BuildRowDoes
<1>5. rd'.bom_checked /\ rd'.eof = y.eof /\ rd'.start = y.start /\ rd'.buf = y.buf
  BY <1>3 DEF Readers
<1>6. failed' # {} /\ (failed' \cap {"bom", "quote"} # {} \/ Ended')
  BY <1>2, <1>5 DEF Ended
<1> QED
  BY <1>1, <1>4, <1>5, <1>6, BrokenIntro

-----------------------------------------------------------------------------
(* The steps of a reader that has read what the reference has. *)

At(p, s) ==
  /\ s = Reference[p] /\ s \in RefStates /\ Unread(rd, source, p)
  /\ Match(rd, s, call) /\ rows = s.rows

LEMMA NormalFacts ==
  ASSUME CsvTypes, Normal
  PROVE  /\ failed = {} /\ rd.bom_checked /\ (rd.eof => source = <<>>)
         /\ \E p \in 0..Len(Body), s \in RefStates : At(p, s)
<1>1. PICK p \in 0..Len(Body) :
        Unread(rd, source, p) /\ Match(rd, Reference[p], call) /\ rows = Reference[p].rows
  BY DEF Normal
<1>2. Reference[p] \in RefStates
  BY CsvFacts, ReferenceType
<1>3. At(p, Reference[p])
  BY <1>1, <1>2 DEF At
<1> QED
  BY <1>2, <1>3 DEF Normal

LEMMA NormalReadRow ==
  ASSUME CsvTypes, Normal, ReadRow
  PROVE  Normal'
<1>1. /\ input \in Buffers /\ source \in Buffers /\ rd \in Readers /\ rd.start <= Len(rd.buf) /\ rd.start \in Nat
      /\ Len(rd.buf) \in Nat
  BY CsvFacts
<1>2. failed = {} /\ rd.bom_checked /\ (rd.eof => source = <<>>)
  BY NormalFacts
<1>3. PICK p \in 0..Len(Body), s \in RefStates : At(p, s)
  BY NormalFacts
<1>4. /\ call = "idle" /\ rd' = HeadOf(rd) /\ call' = "loop" /\ UNCHANGED <<input, source, config, rows, failed>>
  BY <1>2 DEF ReadRow, HeadOf
<1>5. PICK y : y = rd'
  OBVIOUS
<1>6. y \in Readers /\ Fields(y) = <<>> /\ y.state = "StartOfField" /\ SameAhead(y, rd) /\ InBounds(y)
  BY <1>1, <1>4, <1>5, HeadReader
<1>7. y = [rd EXCEPT !.buf = y.buf, !.start = y.start, !.ranges = <<>>, !.scratch = <<>>,
                     !.state = "StartOfField", !.pending_lf_quoted = FALSE,
                     !.record_line = rd.line, !.bom_checked = TRUE]
  BY <1>1, <1>4, <1>5, HeadReader
<1>8. /\ y.num = rd.num /\ y.line = rd.line /\ y.record_line = rd.line /\ y.pending_cr = rd.pending_cr
      /\ y.eof = rd.eof /\ y.bom_checked /\ ~y.pending_lf_quoted /\ y.ranges = <<>>
  BY <1>1, <1>7 DEF Readers
<1>9. /\ s.num = rd.num /\ s.line = rd.line /\ s.st = "start" /\ s.fields = <<>> /\ s.cur = <<>>
      /\ s.from = rd.line /\ SameCr(rd, s) /\ Unread(rd, source, p) /\ s = Reference[p] /\ rows = s.rows
  BY <1>3, <1>4 DEF At, Match, MatchIdle
<1>10. y.start \in Nat /\ Len(y.buf) \in Nat
  BY <1>6, ReaderType
<1>11. Unread(y, source, p)
  BY <1>6, <1>9 DEF Unread, SameAhead
<1>12. SameCr(y, s)
  <2>1. SUFFICES ASSUME rd.start < Len(rd.buf), rd.buf[rd.start + 1] # "n"
                 PROVE  y.start < Len(y.buf) /\ y.buf[y.start + 1] # "n"
    BY <1>8, <1>9 DEF SameCr
  <2>2. 1 \in 1..(Len(rd.buf) - rd.start)
    BY <1>1, <2>1
  <2>3. y.buf[y.start + 1] = rd.buf[rd.start + 1]
    BY <1>6, <2>2 DEF SameAhead
  <2>4. Len(y.buf) - y.start = Len(rd.buf) - rd.start
    BY <1>6 DEF SameAhead
  <2> QED
    BY <1>1, <1>10, <2>1, <2>3, <2>4
<1>13. Match(y, s, "loop")
  BY <1>6, <1>8, <1>9, <1>12 DEF Match, MatchLoop, MatchStart
<1> QED
  BY <1>2, <1>4, <1>5, <1>8, <1>9, <1>11, <1>13, NormalIntro

LEMMA NormalMore ==
  ASSUME CsvTypes, Normal, LoopMore \/ SkipMore
  PROVE  Normal'
<1>1. /\ input \in Buffers /\ source \in Buffers /\ rd \in Readers /\ InBounds(rd)
      /\ rd.start <= Len(rd.buf) /\ rd.start \in Nat /\ Len(rd.buf) \in Nat
  BY CsvFacts
<1>2. failed = {} /\ rd.bom_checked
  BY NormalFacts
<1>3. PICK p \in 0..Len(Body), s \in RefStates : At(p, s)
  BY NormalFacts
<1>4. /\ call \in {"loop", "skip"} /\ rd.start = Len(rd.buf) /\ More /\ UNCHANGED <<input, config, call, rows, failed>>
  BY DEF LoopMore, SkipMore
<1>5. PICK n \in 1..Len(source) :
         /\ rd' = [rd EXCEPT !.buf = @ \o SubSeq(source, 1, n)]
         /\ source' = SubSeq(source, n + 1, Len(source)) /\ ~rd.eof
  BY <1>4 DEF More
<1>6. PICK y : y = rd'
  OBVIOUS
<1>7. /\ y \in Readers /\ Fields(y) = Fields(rd) /\ Unquoted(y) = Unquoted(rd)
      /\ Quoted(y) = Quoted(rd)
  <2>1. Grew(rd, y, n)
    BY <1>1, <1>5, <1>6, ReaderMore
  <2> QED
    BY <2>1 DEF Grew
<1>8. /\ y.num = rd.num /\ y.line = rd.line /\ y.record_line = rd.record_line /\ y.pending_cr = rd.pending_cr
      /\ y.eof = rd.eof /\ y.bom_checked = rd.bom_checked /\ y.pending_lf_quoted = rd.pending_lf_quoted
      /\ y.ranges = rd.ranges /\ y.state = rd.state /\ y.start = rd.start
      /\ y.buf = rd.buf \o SubSeq(source, 1, n)
  BY <1>1, <1>5, <1>6 DEF Readers
<1>9. Unread(rd, source, p) /\ Match(rd, s, call) /\ s = Reference[p] /\ rows = s.rows
  BY <1>3 DEF At
<1>10. Unread(y, source', p)
  BY <1>1, <1>5, <1>8, <1>9, UnreadMore
<1>11. ~(rd.start < Len(rd.buf)) /\ rd.state \in States
  BY <1>1, <1>4, ReaderType
<1>12. Match(y, s, call)
  <2>1. CASE call = "loop"
    <3>1. CASE rd.state = "StartOfField"
      BY <1>7, <1>8, <1>9, <1>11, <2>1, <3>1 DEF Match, MatchLoop, MatchStart, SameCr
    <3>2. CASE rd.state = "InUnquoted"
      BY <1>7, <1>8, <1>9, <1>11, <2>1, <3>2 DEF Match, MatchLoop, MatchUnquoted, NoCr
    <3>3. CASE rd.state = "InQuoted"
      BY <1>7, <1>8, <1>9, <1>11, <2>1, <3>3 DEF Match, MatchLoop, MatchQuoted
    <3>4. CASE rd.state = "AfterQuote"
      BY <1>5, <1>7, <1>8, <1>9, <1>11, <2>1, <3>4 DEF Match, MatchLoop, MatchAfterQuote
    <3> QED
      BY <1>11, <3>1, <3>2, <3>3, <3>4 DEF States
  <2>2. CASE call = "skip"
    BY <1>7, <1>8, <1>9, <1>11, <2>2 DEF Match, MatchSkip
  <2> QED
    BY <1>4, <2>1, <2>2
<1>13. PICK src, c : src = source' /\ c = call' /\ c \in {"idle", "loop", "quote", "skip"} /\ c = call
  BY <1>4
<1> QED
  BY <1>2, <1>4, <1>5, <1>6, <1>8, <1>9, <1>10, <1>12, <1>13, NormalIntro

\* The bytes that are left when the source has no more.
LEMMA AtTheEnd ==
  ASSUME CsvTypes, Normal, rd.start = Len(rd.buf), AtEof, NEW p \in 0..Len(Body), NEW s, At(p, s)
  PROVE  s = Parsed /\ Parsed \in RefStates /\ source = <<>>
<1>1. source = <<>>
  BY NormalFacts DEF AtEof
<1>2. Unread(rd, <<>>, p) /\ s = Reference[p]
  BY <1>1 DEF At
<1> QED
  BY <1>1, <1>2, CsvFacts, UnreadEnd

LEMMA NormalLoopEof ==
  ASSUME CsvTypes, Normal, LoopEof
  PROVE  Over'
<1>1. /\ input \in Buffers /\ rd \in Readers /\ InBounds(rd) /\ rd.state \in States
  BY CsvFacts
<1>2. failed = {} /\ rd.bom_checked
  BY NormalFacts
<1>3. PICK p \in 0..Len(Body), s \in RefStates : At(p, s)
  BY NormalFacts
<1>4. /\ call = "loop" /\ rd.start = Len(rd.buf) /\ AtEof /\ UNCHANGED <<input, source, config, failed>> /\ failed' = {}
  BY <1>2 DEF LoopEof
<1>5. s = Parsed /\ Parsed \in RefStates /\ rows = Parsed.rows /\ Match(rd, Parsed, "loop")
  BY <1>3, <1>4, AtTheEnd DEF At
<1>6. Parsed.num = rd.num /\ Parsed.line = rd.line /\ Parsed.from = rd.record_line /\ MatchLoop(rd, Parsed)
  BY <1>5 DEF Match, MatchLoop
<1>7. PICK x : x = [rd EXCEPT !.eof = TRUE]
  OBVIOUS
<1>8. x \in Readers /\ InBounds(x) /\ Fields(x) = Fields(rd) /\ Unquoted(x) = Unquoted(rd)
  BY <1>1, <1>7, EofBounds
<1>9. /\ x.num = rd.num /\ x.line = rd.line /\ x.record_line = rd.record_line /\ x.eof /\ x.bom_checked
      /\ x.ranges = rd.ranges /\ x.state = rd.state /\ x.start = Len(x.buf)
  BY <1>1, <1>2, <1>4, <1>7 DEF Readers
<1>10. "none" \in Errors /\ "unterminated" \in Errors
  BY DEF Errors
<1>11. PICK y : y = Finalize(x)
  OBVIOUS
<1>12. /\ y \in Readers /\ InBounds(y) /\ y = [x EXCEPT !.ranges = y.ranges]
       /\ x.state = "InUnquoted" => Fields(y) = Append(Fields(x), Unquoted(x))
       /\ x.state = "StartOfField" /\ x.ranges # <<>> => Fields(y) = Append(Fields(x), <<>>)
       /\ x.state \notin {"StartOfField", "InUnquoted"} => y = x
  BY <1>8, <1>11, FinalizeBounds
<1>13. /\ y.num = rd.num /\ y.line = rd.line /\ y.record_line = rd.record_line /\ y.eof /\ y.bom_checked
       /\ y.start = Len(y.buf)
  BY <1>8, <1>9, <1>12 DEF Readers
<1>14. CASE rd.ranges = <<>> /\ rd.state = "StartOfField"
  <2>1. rd' = x /\ call' = "done" /\ rows' = rows
    BY <1>7, <1>14 DEF LoopEof
  <2>2. Parsed.st = "start" /\ Parsed.fields = Fields(rd) /\ Fields(rd) = <<>>
    BY <1>6, <1>14 DEF MatchLoop, MatchStart, Fields
  <2>3. Expected = Parsed.rows
    BY <2>2 DEF Expected, Finish
  <2> QED
    BY <1>4, <1>5, <1>6, <1>9, <2>1, <2>3, OverIntro
<1>15. CASE rd.state = "InQuoted"
  <2>1. Return(x, "unterminated")
    BY <1>7, <1>15 DEF LoopEof
  <2>2. Parsed.st = "quoted" /\ Parsed.fields = Fields(x)
    BY <1>6, <1>8, <1>15 DEF MatchLoop, MatchQuoted
  <2>3. Expected = EndOf(Parsed, Fields(x), "unterminated", Parsed.line).rows
    BY <2>2 DEF Expected, Finish
  <2> QED
    BY <1>4, <1>5, <1>6, <1>8, <1>9, <1>10, <2>1, <2>3, LastRowIsOver
<1>16. CASE rd.state # "InQuoted" /\ ~(rd.ranges = <<>> /\ rd.state = "StartOfField")
  <2>1. Return(y, "none")
    BY <1>7, <1>11, <1>16 DEF LoopEof
  <2>2. Expected = EndOf(Parsed, Fields(y), "none", Parsed.line).rows
    <3>1. CASE rd.state = "StartOfField"
      <4>1. Parsed.st = "start" /\ Parsed.fields = Fields(rd) /\ rd.ranges # <<>>
        BY <1>6, <1>16, <3>1 DEF MatchLoop, MatchStart
      <4>2. Fields(rd) # <<>>
        <5>1. Len(Fields(rd)) = Len(rd.ranges) /\ rd.ranges \in Seq(RawFields)
          BY <1>1, FieldsType, ReaderType DEF InBounds
        <5>2. Len(rd.ranges) # 0
          BY <4>1, <5>1, EmptySeq
        <5> QED
          BY <5>1, <5>2
      <4> QED
        BY <1>8, <1>9, <1>12, <3>1, <4>1, <4>2 DEF Expected, Finish
    <3>2. CASE rd.state = "InUnquoted"
      <4>1. Parsed.st = "unquoted" /\ Parsed.fields = Fields(rd) /\ Parsed.cur = Unquoted(rd)
        BY <1>6, <3>2 DEF MatchLoop, MatchUnquoted
      <4> QED
        BY <1>8, <1>9, <1>12, <3>2, <4>1 DEF Expected, Finish
    <3>3. CASE rd.state = "AfterQuote"
      <4>1. Parsed.st = "quote" /\ Append(Parsed.fields, Parsed.cur) = Fields(rd)
        BY <1>6, <3>3 DEF MatchLoop, MatchAfterQuote
      <4> QED
        BY <1>8, <1>9, <1>12, <3>3, <4>1 DEF Expected, Finish
    <3> QED
      BY <1>1, <1>16, <3>1, <3>2, <3>3 DEF States
  <2> QED
    BY <1>4, <1>5, <1>6, <1>10, <1>12, <1>13, <2>1, <2>2, LastRowIsOver
<1> QED
  BY <1>14, <1>15, <1>16

LEMMA NormalLoopFails ==
  ASSUME CsvTypes, Normal, LoopFails
  PROVE  Broken'
<1>1. /\ input \in Buffers /\ rd \in Readers /\ InBounds(rd)
  BY CsvFacts
<1>2. failed = {} /\ rd.bom_checked
  BY NormalFacts
<1>3. PICK p \in 0..Len(Body), s \in RefStates : At(p, s)
  BY NormalFacts
<1>4. PICK x : x = [rd EXCEPT !.eof = TRUE]
  OBVIOUS
<1>5. x \in Readers /\ InBounds(x)
  BY <1>1, <1>4, EofBounds
<1>6. PICK y : y = Finalize(x)
  OBVIOUS
<1>7. y \in Readers /\ InBounds(y) /\ y = [x EXCEPT !.ranges = y.ranges]
  BY <1>5, <1>6, FinalizeBounds
<1>8. /\ rd.start = Len(rd.buf) /\ failed' = failed \cup {"loop"} /\ Return(y, "io")
      /\ UNCHANGED <<input, source, config>>
  BY <1>4, <1>6 DEF LoopFails, ReadFails
<1>9. x.eof /\ x.bom_checked /\ x.start = Len(x.buf)
  BY <1>1, <1>2, <1>4, <1>8 DEF Readers
<1>10. y.eof /\ y.bom_checked /\ y.start = Len(y.buf)
  BY <1>5, <1>7, <1>9 DEF Readers
<1>11. "io" \in Errors /\ "io" # "none"
  BY DEF Errors
<1>12. rows = Reference[p].rows
  BY <1>3 DEF At
<1> QED
  BY <1>7, <1>8, <1>10, <1>11, <1>12, FailedIsBroken

\* Where the reference stops.
LEMMA StopIs ==
  ASSUME NEW s \in RefStates, NEW err \in Errors, NEW l \in Nat
  PROVE  Stop(s, err).st = "stop" /\ Stop(s, err).rows = EndOf(s, s.fields, err, l).rows
<1> DEFINE e == EndOf(s, s.fields, err, s.line)
<1>1. s.line \in Nat /\ s.fields \in FieldLists
  BY DEF RefStates
<1>2. e \in RefStates
  BY <1>1, EndOfType
<1>3. e.rows = EndOf(s, s.fields, err, l).rows
  BY DEF EndOf, RefStates
<1>4. Stop(s, err) = [e EXCEPT !.st = "stop"]
  BY DEF Stop
<1> HIDE DEF e
<1>5. Stop(s, err).st = "stop" /\ Stop(s, err).rows = e.rows
  BY <1>2, <1>4 DEF RefStates
<1> QED
  BY <1>3, <1>5

LEMMA NormalRefuseColumns ==
  ASSUME CsvTypes, Normal, RefuseColumns
  PROVE  Over'
<1>1. /\ input \in Buffers /\ source \in Buffers /\ rd \in Readers /\ InBounds(rd) /\ rd.state \in States
      /\ RangesFit(rd)
  BY CsvFacts
<1>2. failed = {} /\ rd.bom_checked
  BY NormalFacts
<1>3. PICK p \in 0..Len(Body), s \in RefStates : At(p, s)
  BY NormalFacts
<1>4. /\ call = "loop" /\ rd.start < Len(rd.buf) /\ TooManyColumns /\ Refuse(rd, "columns")
      /\ UNCHANGED <<input, source, config>> /\ failed' = {}
  BY <1>2 DEF RefuseColumns
<1>5. /\ s = Reference[p] /\ s \in RefStates /\ Unread(rd, source, p) /\ s.rows = rows
      /\ s.num = rd.num /\ s.line = rd.line /\ s.from = rd.record_line /\ MatchLoop(rd, s)
  BY <1>3, <1>4 DEF At, Match, MatchLoop
<1>6. PICK c : c = rd.buf[rd.start + 1]
  OBVIOUS
<1>7. p + 1 \in 0..Len(Body) /\ Reference[p + 1] = Take(s, c)
  BY <1>1, <1>4, <1>5, <1>6, UnreadByte
<1>8. Len(Fields(rd)) = Len(rd.ranges) /\ Fields(rd) \in FieldLists
  BY <1>1, FieldsType
<1>9. "columns" \in Errors
  BY DEF Errors
<1>10. PICK l \in Nat : l = s.line
  BY <1>5 DEF RefStates
<1>11. ASSUME NEW t \in RefStates, Take(s, c) = Stop(t, "columns"), t.fields = Fields(rd),
              t.num = rd.num, t.from = rd.record_line, t.rows = rows
       PROVE  Over'
  <2>1. Reference[p + 1].st = "stop" /\ Reference[p + 1].rows = EndOf(t, Fields(rd), "columns", l).rows
    BY <1>7, <1>9, <1>11, StopIs
  <2> QED
    BY <1>1, <1>2, <1>4, <1>7, <1>9, <1>11, <2>1, RefusedIsOver
<1>12. CASE rd.state # "AfterQuote"
  <2>1. s.st \in {"start", "unquoted", "quoted"} /\ s.fields = Fields(rd)
    BY <1>1, <1>5, <1>12 DEF States, MatchLoop, MatchStart, MatchUnquoted, MatchQuoted
  <2>2. TooWide(s)
    BY <1>4, <1>8, <2>1 DEF TooWide, TooManyColumns
  <2>3. Take(s, c) = Stop(s, "columns")
    BY <2>1, <2>2 DEF Take
  <2> QED
    BY <1>5, <1>11, <2>1, <2>3
<1>13. CASE rd.state = "AfterQuote"
  <2>1. s.st = "quote" /\ Append(s.fields, s.cur) = Fields(rd) /\ c # "q"
    BY <1>4, <1>5, <1>6, <1>13 DEF MatchLoop, MatchAfterQuote
  <2>2. PICK t : t = [s EXCEPT !.fields = Append(@, s.cur), !.cur = <<>>]
    OBVIOUS
  <2>3. /\ t \in RefStates /\ t.fields = Fields(rd) /\ t.num = rd.num /\ t.from = rd.record_line /\ t.rows = rows
    <3>1. <<>> \in Buffers /\ t = [s EXCEPT !.fields = Fields(rd), !.cur = <<>>]
      BY <2>1, <2>2 DEF Buffers
    <3> QED
      BY <1>5, <1>8, <3>1 DEF RefStates
  <2>4. TooWide(t)
    BY <1>4, <1>8, <2>3 DEF TooWide, TooManyColumns
  <2>5. Take(s, c) = Stop(t, "columns")
    BY <2>1, <2>2, <2>4 DEF Take, QuoteByte, AfterByte
  <2> QED
    BY <1>11, <2>3, <2>5
<1> QED
  BY <1>12, <1>13

LEMMA NormalPendingCr ==
  ASSUME CsvTypes, Normal, PendingCr
  PROVE  Normal'
<1>1. /\ input \in Buffers /\ source \in Buffers /\ rd \in Readers /\ InBounds(rd) /\ rd.state \in States
      /\ RangesFit(rd) /\ rd.start \in Nat /\ Len(rd.buf) \in Nat
  BY CsvFacts
<1>2. failed = {} /\ rd.bom_checked /\ (rd.eof => source = <<>>)
  BY NormalFacts
<1>3. PICK p \in 0..Len(Body), s \in RefStates : At(p, s)
  BY NormalFacts
<1>4. /\ call = "loop" /\ rd.start < Len(rd.buf) /\ ~TooManyColumns /\ rd.pending_cr
      /\ UNCHANGED <<input, source, config, call, rows, failed>>
  BY <1>2 DEF PendingCr, Parsing
<1>5. /\ s = Reference[p] /\ s \in RefStates /\ Unread(rd, source, p) /\ rows = s.rows
      /\ s.num = rd.num /\ s.line = rd.line /\ s.from = rd.record_line /\ MatchLoop(rd, s)
  BY <1>3, <1>4 DEF At, Match, MatchLoop
<1>6. rd.state = "StartOfField" /\ MatchStart(rd, s) /\ s.cr
  BY <1>1, <1>4, <1>5 DEF States, MatchLoop, MatchStart, MatchUnquoted, MatchQuoted, MatchAfterQuote, NoCr, SameCr
<1>7. /\ s.st = "start" /\ s.fields = Fields(rd) /\ s.cur = <<>> /\ ~rd.pending_lf_quoted /\ rd.ranges = <<>>
  BY <1>6 DEF MatchStart
<1>8. PICK y : y = rd'
  OBVIOUS
<1>9. CASE Byte = "n"
  <2>1. PICK a \in Nat : a = rd.start + 1
    BY <1>1
  <2>2. y = [rd EXCEPT !.pending_cr = FALSE, !.start = a]
    BY <1>8, <1>9, <2>1 DEF PendingCr
  <2>3. /\ y.num = rd.num /\ y.line = rd.line /\ y.record_line = rd.record_line /\ ~y.pending_cr
        /\ y.eof = rd.eof /\ y.bom_checked = rd.bom_checked /\ y.pending_lf_quoted = rd.pending_lf_quoted
        /\ y.ranges = rd.ranges /\ y.state = rd.state /\ y.start = rd.start + 1 /\ y.scratch = rd.scratch
        /\ y.buf = rd.buf
    BY <1>1, <2>1, <2>2 DEF Readers
  <2>4. Fields(y) = Fields(rd)
    BY <1>1, <2>3, SameFields
  <2>5. /\ p + 1 \in 0..Len(Body) /\ Reference[p + 1] = Take(s, "n") /\ Unread(y, source, p + 1)
    BY <1>1, <1>4, <1>5, <1>9, <2>3, UnreadByte DEF Byte
  <2>6. ~TooWide(s)
    BY <1>7, CsvFacts, NotWide DEF Fields
  <2>7. PICK t : t = Take(s, "n")
    OBVIOUS
  <2>8. t = [s EXCEPT !.cr = FALSE]
    BY <1>6, <1>7, <2>6, <2>7 DEF Take, StartByte
  <2>9. /\ t.num = s.num /\ t.line = s.line /\ t.from = s.from /\ t.st = "start" /\ t.fields = s.fields /\ t.cur = <<>>
        /\ ~t.cr /\ t.rows = s.rows
    BY <1>5, <1>7, <2>8 DEF RefStates
  <2>10. Match(y, t, "loop")
    BY <1>5, <1>6, <1>7, <2>3, <2>4, <2>9 DEF Match, MatchLoop, MatchStart, SameCr
  <2> QED
    BY <1>2, <1>4, <1>5, <1>8, <2>3, <2>5, <2>7, <2>9, <2>10, NormalIntro
<1>10. CASE Byte # "n"
  <2>1. PICK a \in Nat : a = rd.start
    BY <1>1
  <2>2. y = [rd EXCEPT !.pending_cr = FALSE, !.start = a]
    BY <1>8, <1>10, <2>1 DEF PendingCr
  <2>3. /\ y.num = rd.num /\ y.line = rd.line /\ y.record_line = rd.record_line /\ ~y.pending_cr
        /\ y.eof = rd.eof /\ y.bom_checked = rd.bom_checked /\ y.pending_lf_quoted = rd.pending_lf_quoted
        /\ y.ranges = rd.ranges /\ y.state = rd.state /\ y.start = rd.start /\ y.scratch = rd.scratch
        /\ y.buf = rd.buf
    BY <1>1, <2>1, <2>2 DEF Readers
  <2>4. Fields(y) = Fields(rd)
    BY <1>1, <2>3, SameFields
  <2>5. Unread(y, source, p)
    BY <1>5, <2>3 DEF Unread
  <2>6. SameCr(y, s)
    BY <1>4, <1>10, <2>3 DEF SameCr, Byte
  <2>7. Match(y, s, "loop")
    BY <1>5, <1>6, <1>7, <2>3, <2>4, <2>6 DEF Match, MatchLoop, MatchStart
  <2> QED
    BY <1>2, <1>4, <1>5, <1>8, <2>3, <2>5, <2>7, NormalIntro
<1> QED
  BY <1>9, <1>10

\* The first byte of a field.
LEMMA OneByteSlice ==
  ASSUME NEW x \in Readers, NEW a \in Nat, a < Len(x.buf)
  PROVE  Slice(x.buf, a, a + 1) = <<x.buf[a + 1]>>
<1>1. x.buf \in Seq(Bytes) /\ Len(x.buf) \in Nat
  BY ReaderType
<1>2. a + 1 \in Nat /\ a <= a + 1 /\ a + 1 <= Len(x.buf) /\ (a + 1) - a = 1 /\ 1 \in 1..1
  BY <1>1
<1> DEFINE v == Slice(x.buf, a, a + 1)
<1>3. /\ v \in Seq(Bytes) /\ Len(v) = (a + 1) - a /\ \A i \in 1..((a + 1) - a) : v[i] = x.buf[a + i]
  BY <1>1, <1>2, SliceProps, ZenonT(60)
<1> HIDE DEF v
<1>4. Len(v) = 1 /\ v[1] = x.buf[a + 1] /\ v \in Seq(Bytes)
  BY <1>2, <1>3
<1>5. v = <<x.buf[a + 1]>>
  BY <1>4
<1> QED
  BY <1>5 DEF v

\* The loop goes on.
LEMMA NormalLoop ==
  ASSUME UNCHANGED <<input, source, config, call, rows, failed>>, call = "loop", failed = {},
         NEW y, y = rd', y.bom_checked, y.eof => source = <<>>,
         NEW q \in 0..Len(Body), NEW t, t = Reference[q], Unread(y, source, q), Match(y, t, "loop"), rows = t.rows
  PROVE  Normal'
<1>1. failed' = {} /\ rd' = y /\ call' = "loop" /\ source' = source /\ rows' = Reference[q].rows
  OBVIOUS
<1>2. Match(y, Reference[q], "loop") /\ "loop" \in {"idle", "loop", "quote", "skip"}
  OBVIOUS
<1> QED
  BY <1>1, <1>2, NormalIntro

LEMMA NormalStart ==
  ASSUME CsvTypes, Normal, StartOfField
  PROVE  Normal'
<1>1. /\ input \in Buffers /\ source \in Buffers /\ config \in Configs /\ rd \in Readers /\ InBounds(rd)
      /\ RangesFit(rd) /\ rd.start \in Nat /\ Len(rd.buf) \in Nat /\ Len(rd.scratch) \in Nat
      /\ rd.pending_cr \in BOOLEAN /\ rd.start <= Len(rd.buf)
  BY CsvFacts
<1>2. failed = {} /\ rd.bom_checked /\ (rd.eof => source = <<>>)
  BY NormalFacts
<1>3. PICK p \in 0..Len(Body), s \in RefStates : At(p, s)
  BY NormalFacts
<1>4. /\ call = "loop" /\ rd.start < Len(rd.buf) /\ ~TooManyColumns /\ ~rd.pending_cr /\ rd.state = "StartOfField"
      /\ UNCHANGED <<input, source, config, failed>> /\ failed' = {}
  BY <1>2 DEF StartOfField, ParsingIn, Parsing
<1>5. /\ s = Reference[p] /\ s \in RefStates /\ Unread(rd, source, p) /\ rows = s.rows
      /\ s.num = rd.num /\ s.line = rd.line /\ s.from = rd.record_line /\ MatchStart(rd, s)
  BY <1>3, <1>4 DEF At, Match, MatchLoop
<1>6. PICK c : c = rd.buf[rd.start + 1]
  OBVIOUS
<1>7. /\ s.st = "start" /\ s.fields = Fields(rd) /\ s.cur = <<>> /\ ~rd.pending_lf_quoted
      /\ (s.cr => rd.ranges = <<>>) /\ ~(c = "n" /\ s.cr)
  BY <1>4, <1>5, <1>6 DEF MatchStart, SameCr
<1>8. /\ p + 1 \in 0..Len(Body) /\ Reference[p + 1] = Take(s, c) /\ Reference[p + 1] \in RefStates /\ c \in Bytes
      /\ \A w : w.start = rd.start + 1 /\ w.buf = rd.buf => Unread(w, source, p + 1)
  BY <1>1, <1>4, <1>5, <1>6, UnreadByte
<1>9. Len(Fields(rd)) = Len(rd.ranges) /\ Fields(rd) \in FieldLists /\ rd.ranges \in Seq(RawFields)
  BY <1>1, FieldsType, ReaderType
<1>10. ~TooWide(s)
  BY <1>4, <1>7, <1>9 DEF TooWide, TooManyColumns
<1>11. Reference[p + 1] = StartByte(s, c)
  BY <1>7, <1>8, <1>10 DEF Take
<1>12. Byte = c /\ c \in {"d", "q", "r", "n", "b"}
  BY <1>6, <1>8, CsvAssumption DEF Byte
<1>13. (rd.ranges = <<>>) = (s.fields = <<>>)
  BY <1>7, <1>9, EmptySeq DEF FieldLists
<1>14. PICK z : z = Push(rd, Empty)
  OBVIOUS
<1>15. /\ z = [rd EXCEPT !.ranges = Append(rd.ranges, Empty)] /\ z \in Readers /\ RangesFit(z)
       /\ Fields(z) = Append(Fields(rd), <<>>)
  BY <1>1, <1>14, PushEmpty
<1>16. /\ z.num = rd.num /\ z.line = rd.line /\ z.record_line = rd.record_line /\ z.pending_cr = rd.pending_cr
       /\ z.eof = rd.eof /\ z.bom_checked = rd.bom_checked /\ z.pending_lf_quoted = rd.pending_lf_quoted
       /\ z.state = rd.state /\ z.start = rd.start /\ z.scratch = rd.scratch /\ z.buf = rd.buf
  BY <1>1, <1>15 DEF Readers
<1>17. PICK y : y = rd'
  OBVIOUS
<1>18. PICK t : t = StartByte(s, c)
  OBVIOUS
<1>19. PICK a \in Nat, b \in Nat : a = rd.start /\ b = Len(rd.scratch) /\ a + 1 \in Nat
  BY <1>1
<1>20. CASE c \in Newline /\ rd.ranges # <<>>
  <2>1. Return(ConsumeNewline(z), "none")
    BY <1>12, <1>14, <1>20 DEF StartOfField
  <2>2. StartByte(s, c) = EndLine(s, Fields(z), "none", c)
    BY <1>7, <1>13, <1>15, <1>20 DEF StartByte, Newline
  <2>3. Unread(z, source, p)
    BY <1>5, <1>16 DEF Unread
  <2>4. "none" \in Errors
    BY DEF Errors
  <2>5. z.buf[z.start + 1] = c /\ z.start < Len(z.buf) /\ z.state = "StartOfField" /\ ~z.pending_cr /\ z.bom_checked
    BY <1>2, <1>4, <1>6, <1>16
  <2>6. /\ s.num = z.num /\ s.from = z.record_line /\ s.rows = rows /\ s.line = z.line
        /\ Reference[p + 1] = EndLine(s, Fields(z), "none", z.buf[z.start + 1]) /\ z.buf[z.start + 1] \in Newline
        /\ (z.eof => source = <<>>) /\ z.state # "InQuoted" /\ z.state # "InUnquoted"
    BY <1>2, <1>5, <1>11, <1>16, <1>20, <2>2, <2>5
  <2> QED
    BY <1>4, <1>5, <1>15, <2>1, <2>3, <2>4, <2>5, <2>6, ReturnAtLineEnd
<1>21. CASE c \in Newline /\ rd.ranges = <<>>
  <2>1. y = ConsumeNewline(rd) /\ UNCHANGED <<call, rows>>
    BY <1>12, <1>17, <1>21 DEF StartOfField, Newline
  <2>2. t = [s EXCEPT !.line = @ + 1, !.cr = c = "r"]
    BY <1>7, <1>13, <1>18, <1>21 DEF StartByte, Newline
  <2>3. PICK k \in {1, 2}, f \in BOOLEAN : NewlineTo(rd, y, k, f)
    BY <1>1, <1>4, <2>1, NewlineReader
  <2>4. y = [rd EXCEPT !.start = rd.start + k, !.line = rd.line + 1, !.pending_cr = f]
    BY <2>3 DEF NewlineTo
  <2>5. /\ y.num = rd.num /\ y.line = rd.line + 1 /\ y.record_line = rd.record_line
        /\ y.eof = rd.eof /\ y.bom_checked = rd.bom_checked /\ y.pending_lf_quoted = rd.pending_lf_quoted
        /\ y.ranges = rd.ranges /\ y.state = rd.state /\ y.scratch = rd.scratch /\ y.buf = rd.buf
    BY <1>1, <2>4 DEF Readers
  <2>6. /\ t.st = "start" /\ t.fields = <<>> /\ t.cur = <<>> /\ t.cr = (c = "r") /\ t.line = s.line + 1
        /\ t.num = s.num /\ t.from = s.from /\ t.rows = s.rows
    BY <1>5, <1>7, <1>13, <1>21, <2>2 DEF RefStates
  <2>7. PICK q \in 0..Len(Body), g \in BOOLEAN : BehindLine(y, source, t, q, g)
    <3>1. t = Reference[p + 1] /\ t.cr = (rd.buf[rd.start + 1] = "r") /\ rd.buf[rd.start + 1] \in Newline
      BY <1>6, <1>11, <1>18, <1>21, <2>6
    <3> QED
      BY <1>1, <1>4, <1>5, <2>1, <2>5, <2>6, <3>1, LineEnd
  <2>8. PICK v : v = [t EXCEPT !.cr = g]
    OBVIOUS
  <2>9. /\ v.st = "start" /\ v.fields = <<>> /\ v.cur = <<>> /\ v.line = s.line + 1
        /\ v.num = s.num /\ v.from = s.from /\ v.rows = s.rows
    <3>1. t \in RefStates
      BY <1>8, <1>11, <1>18
    <3> QED
      BY <2>6, <2>8, <3>1 DEF RefStates
  <2>10. Unread(y, source, q) /\ Reference[q] = v /\ SameCr(y, v)
    BY <2>7, <2>8 DEF BehindLine
  <2>11. Fields(y) = Fields(rd) /\ Fields(rd) = <<>>
    BY <1>1, <1>7, <1>13, <1>21, <2>5, SameFields
  <2>12. Match(y, v, "loop")
    BY <1>4, <1>5, <1>7, <1>21, <2>5, <2>9, <2>10, <2>11 DEF Match, MatchLoop, MatchStart
  <2>13. y.bom_checked /\ (y.eof => source = <<>>) /\ rows = v.rows
    BY <1>2, <1>5, <2>5, <2>9
  <2> QED
    BY <1>2, <1>4, <1>17, <2>1, <2>10, <2>12, <2>13, NormalLoop
<1>22. CASE c = "d"
  <2>1. y = [z EXCEPT !.start = a + 1, !.field_start = a] /\ UNCHANGED <<call, rows>>
    BY <1>12, <1>14, <1>16, <1>17, <1>19, <1>22 DEF StartOfField, Newline
  <2>2. t = [s EXCEPT !.fields = Append(@, <<>>), !.cr = FALSE]
    BY <1>18, <1>22 DEF StartByte, Newline
  <2>3. /\ y.num = rd.num /\ y.line = rd.line /\ y.record_line = rd.record_line /\ ~y.pending_cr
        /\ y.eof = rd.eof /\ y.bom_checked = rd.bom_checked /\ ~y.pending_lf_quoted
        /\ y.ranges = z.ranges /\ y.state = "StartOfField" /\ y.start = rd.start + 1 /\ y.scratch = z.scratch
        /\ y.buf = z.buf
    BY <1>4, <1>7, <1>15, <1>16, <1>19, <2>1 DEF Readers
  <2>4. /\ t.st = "start" /\ t.fields = Append(Fields(rd), <<>>) /\ t.cur = <<>> /\ ~t.cr /\ t.line = s.line
        /\ t.num = s.num /\ t.from = s.from /\ t.rows = s.rows
    BY <1>5, <1>7, <2>2 DEF RefStates
  <2>5. Fields(y) = Fields(z)
    BY <1>15, <2>3, SameFields
  <2>6. Unread(y, source, p + 1)
    BY <1>8, <1>16, <2>3
  <2>7. Match(y, t, "loop")
    BY <1>5, <1>15, <2>3, <2>4, <2>5 DEF Match, MatchLoop, MatchStart, SameCr
  <2>9. y.bom_checked /\ (y.eof => source = <<>>) /\ t = Reference[p + 1] /\ rows = t.rows
    BY <1>2, <1>5, <1>11, <1>18, <2>3, <2>4
  <2> QED
    BY <1>2, <1>4, <1>8, <1>17, <2>1, <2>6, <2>7, <2>9, NormalLoop
<1>23. CASE c = "q"
  <2>1. /\ y = [rd EXCEPT !.start = a + 1, !.field_start = a, !.state = "InQuoted", !.scratch_field_start = b]
        /\ UNCHANGED <<call, rows>>
    BY <1>12, <1>17, <1>19, <1>23 DEF StartOfField, Newline
  <2>2. t = [s EXCEPT !.st = "quoted", !.cr = FALSE]
    BY <1>18, <1>23 DEF StartByte, Newline
  <2>3. /\ y.num = rd.num /\ y.line = rd.line /\ y.record_line = rd.record_line /\ ~y.pending_cr
        /\ y.eof = rd.eof /\ y.bom_checked = rd.bom_checked /\ ~y.pending_lf_quoted /\ y.pending_lf_quoted \in BOOLEAN
        /\ y.ranges = rd.ranges /\ y.state = "InQuoted" /\ y.start = rd.start + 1 /\ y.scratch = rd.scratch
        /\ y.buf = rd.buf /\ y.scratch_field_start = b
    BY <1>1, <1>4, <1>7, <1>19, <2>1 DEF Readers
  <2>4. /\ t.st = "quoted" /\ t.fields = Fields(rd) /\ t.cur = <<>> /\ t.cr = FALSE /\ t.line = s.line
        /\ t.num = s.num /\ t.from = s.from /\ t.rows = s.rows
    BY <1>5, <1>7, <2>2 DEF RefStates
  <2>5. Fields(y) = Fields(rd)
    BY <1>1, <2>3, SameFields
  <2>6. Quoted(y) = <<>>
    <3>1. rd.scratch \in Seq(Bytes) /\ b <= Len(rd.scratch)
      BY <1>1, <1>19, ReaderType
    <3>2. Slice(rd.scratch, b, b) = <<>>
      BY <3>1, NoSlice
    <3> QED
      BY <1>19, <2>3, <3>2 DEF Quoted
  <2>7. Unread(y, source, p + 1)
    BY <1>8, <2>3
  <2>8. Match(y, t, "loop")
    BY <1>5, <2>3, <2>4, <2>5, <2>6 DEF Match, MatchLoop, MatchQuoted
  <2>9. y.bom_checked /\ (y.eof => source = <<>>) /\ t = Reference[p + 1] /\ rows = t.rows
    BY <1>2, <1>5, <1>11, <1>18, <2>3, <2>4
  <2> QED
    BY <1>2, <1>4, <1>8, <1>17, <2>1, <2>7, <2>8, <2>9, NormalLoop
<1>24. CASE c = "b"
  <2>1. /\ y = [rd EXCEPT !.start = a + 1, !.field_start = a, !.state = "InUnquoted"]
        /\ UNCHANGED <<call, rows>>
    BY <1>12, <1>17, <1>19, <1>24 DEF StartOfField, Newline
  <2>2. t = [s EXCEPT !.st = "unquoted", !.cur = <<c>>, !.cr = FALSE]
    BY <1>18, <1>24 DEF StartByte, Newline
  <2>3. /\ y.num = rd.num /\ y.line = rd.line /\ y.record_line = rd.record_line /\ ~y.pending_cr
        /\ y.eof = rd.eof /\ y.bom_checked = rd.bom_checked /\ ~y.pending_lf_quoted
        /\ y.ranges = rd.ranges /\ y.state = "InUnquoted" /\ y.start = rd.start + 1 /\ y.scratch = rd.scratch
        /\ y.buf = rd.buf /\ y.field_start = a
    BY <1>1, <1>4, <1>7, <1>19, <2>1 DEF Readers
  <2>4. /\ t.st = "unquoted" /\ t.fields = Fields(rd) /\ t.cur = <<c>> /\ ~t.cr /\ t.line = s.line
        /\ t.num = s.num /\ t.from = s.from /\ t.rows = s.rows
    BY <1>5, <1>7, <2>2 DEF RefStates
  <2>5. Fields(y) = Fields(rd)
    BY <1>1, <2>3, SameFields
  <2>6. Unquoted(y) = <<c>>
    <3>1. Slice(rd.buf, a, a + 1) = <<rd.buf[a + 1]>>
      BY <1>1, <1>4, <1>19, OneByteSlice
    <3> QED
      BY <1>6, <1>19, <2>3, <3>1 DEF Unquoted
  <2>7. Unread(y, source, p + 1)
    BY <1>8, <2>3
  <2>8. Match(y, t, "loop")
    BY <1>5, <2>3, <2>4, <2>5, <2>6 DEF Match, MatchLoop, MatchUnquoted, NoCr
  <2>9. y.bom_checked /\ (y.eof => source = <<>>) /\ t = Reference[p + 1] /\ rows = t.rows
    BY <1>2, <1>5, <1>11, <1>18, <2>3, <2>4
  <2> QED
    BY <1>2, <1>4, <1>8, <1>17, <2>1, <2>7, <2>8, <2>9, NormalLoop
<1> QED
  BY <1>12, <1>20, <1>21, <1>22, <1>23, <1>24 DEF Newline

-----------------------------------------------------------------------------
(* Many bytes at once. *)

LEMMA Difference ==
  ASSUME NEW a \in Nat, NEW b \in Nat, a <= b
  PROVE  b - a \in Nat /\ a + (b - a) = b
  OBVIOUS

LEMMA Offsets ==
  ASSUME NEW a \in Nat, NEW j \in Nat, NEW n \in Nat, NEW p \in Nat, j + 1 <= n
  PROVE  /\ p + ((a + j) - a) = p + j /\ p + (((a + j) + 1) - a) = (p + j) + 1
         /\ a <= a + j /\ a + j < a + n /\ a < (a + j) + 1
  OBVIOUS

LEMMA SliceAppend ==
  ASSUME NEW S, NEW u \in Seq(S), NEW f \in Nat, NEW m \in Nat, f <= m, m < Len(u)
  PROVE  Slice(u, f, m + 1) = Append(Slice(u, f, m), u[m + 1]) /\ u[m + 1] \in S
<1>1. Len(u) \in Nat /\ m + 1 \in Nat /\ f <= m + 1 /\ m + 1 <= Len(u) /\ m <= Len(u) /\ m + 1 \in 1..Len(u)
  OBVIOUS
<1> DEFINE v == Slice(u, f, m + 1)
           w == Slice(u, f, m)
           c == u[m + 1]
<1>2. v \in Seq(S) /\ Len(v) = (m + 1) - f /\ \A i \in 1..((m + 1) - f) : v[i] = u[f + i]
  BY <1>1, SliceProps, ZenonT(60)
<1>3. w \in Seq(S) /\ Len(w) = m - f /\ \A i \in 1..(m - f) : w[i] = u[f + i]
  BY <1>1, SliceProps, ZenonT(60)
<1>4. c \in S
  BY <1>1
<1> HIDE DEF v, w
<1>5. PICK k \in Nat : k = m - f
  OBVIOUS
<1>6. Len(v) = k + 1 /\ Len(w) = k /\ f + (k + 1) = m + 1 /\ k + 1 \in 1..((m + 1) - f)
  BY <1>2, <1>3, <1>5
<1>7. v[k + 1] = c
  BY <1>2, <1>6
<1>8. ASSUME NEW i \in 1..k PROVE v[i] = w[i]
  <2>1. i \in 1..((m + 1) - f) /\ i \in 1..(m - f)
    BY <1>5
  <2> QED
    BY <2>1, <1>2, <1>3
<1> HIDE DEF c
<1>9. v = Append(w, c)
  <2>1. /\ Append(w, c) \in Seq(S) /\ Len(Append(w, c)) = k + 1 /\ Append(w, c)[k + 1] = c
        /\ \A i \in 1..k : Append(w, c)[i] = w[i]
    BY <1>3, <1>4, <1>6
  <2>2. \A i \in 1..(k + 1) : i \in 1..k \/ i = k + 1
    OBVIOUS
  <2>3. \A i \in 1..(k + 1) : v[i] = Append(w, c)[i]
    BY <1>7, <1>8, <2>1, <2>2
  <2> QED
    BY <1>2, <1>6, <2>1, <2>3, SeqEqual
<1> QED
  BY <1>4, <1>9 DEF v, w, c

\* The row that ends a record does not depend on the bytes of its last field.
LEMMA SameEnd ==
  ASSUME NEW s \in RefStates, NEW t \in RefStates, t.num = s.num, t.from = s.from, t.rows = s.rows,
         NEW fields, NEW err, NEW k, NEW l
  PROVE  EndOf(t, fields, err, k).rows = EndOf(s, fields, err, l).rows
  BY DEF EndOf, RefStates

\* The reference where the field is too long.
Stopped(q, s, l) == Reference[q].st = "stop" /\ Reference[q].rows = EndOf(s, s.fields, "field", l).rows

LEMMA StoppedStays ==
  ASSUME input \in Buffers, NEW q \in 0..Len(Body), q < Len(Body), NEW s, NEW l, Stopped(q, s, l)
  PROVE  Stopped(q + 1, s, l)
<1>1. Reference[q + 1] = Take(Reference[q], Body[q + 1])
  BY ReferenceStep
<1> QED
  BY <1>1 DEF Stopped, Take

\* The reference after the content up to e of a field without quotes.
UnquotedRan(s, p, x, e, l) ==
  \/ /\ Reference[p + (e - x.start)] = [s EXCEPT !.cur = Slice(x.buf, x.field_start, e)]
     /\ x.start < e => ~TooLong(Slice(x.buf, x.field_start, e))
  \/ Stopped(p + (e - x.start), s, l) /\ TooLong(Slice(x.buf, x.field_start, e))

\* A longer field is too long as well.
LEMMA LongerTooLong ==
  ASSUME config \in Configs, NEW u \in Seq(Bytes), NEW c \in Bytes, TooLong(u)
  PROVE  TooLong(Append(u, c))
<1>1. config.field \in Nat /\ Len(u) > config.field
  BY ConfigType DEF TooLong
<1>2. Len(Append(u, c)) = Len(u) + 1 /\ Len(u) \in Nat
  OBVIOUS
<1> QED
  BY <1>1, <1>2 DEF TooLong

LEMMA UnquotedRun ==
  ASSUME input \in Buffers, config \in Configs, NEW src \in Buffers,
         NEW x \in Readers, InBounds(x), x.state = "InUnquoted",
         NEW p \in 0..Len(Body), NEW s \in RefStates, s = Reference[p], Unread(x, src, p),
         s.st = "unquoted", s.cur = Unquoted(x), ~TooWide(s),
         NEW pos \in Nat, x.start <= pos, pos <= Len(x.buf),
         \A i \in Nat : x.start <= i /\ i < pos => x.buf[i + 1] \notin {"d"} \cup Newline,
         NEW l \in Nat
  PROVE  p + (pos - x.start) \in 0..Len(Body) /\ UnquotedRan(s, p, x, pos, l)
<1>1. /\ x.buf \in Seq(Bytes) /\ x.start \in Nat /\ x.field_start \in Nat /\ Len(x.buf) \in Nat
      /\ x.start <= Len(x.buf) /\ x.field_start <= x.start
  BY ReaderType DEF InBounds
<1>6. PICK a \in Nat : a = x.start /\ a <= pos
  BY <1>1
<1>2. PICK n \in Nat : n = pos - x.start /\ x.start + n = pos
  <2>1. pos - a \in Nat /\ a + (pos - a) = pos
    BY <1>6, Difference
  <2> QED
    BY <1>6, <2>1
<1>3. PICK y : y = [x EXCEPT !.start = pos]
  OBVIOUS
<1>4. y.start = x.start + n /\ y.buf = x.buf /\ x.start + n <= Len(x.buf)
  BY <1>2, <1>3 DEF Readers
<1>5. p + n \in 0..Len(Body) /\ \A i \in 1..n : Body[p + i] = x.buf[x.start + i]
  BY <1>1, <1>4, UnreadSkip
<1> DEFINE S == {j \in Nat : j <= n => UnquotedRan(s, p, x, a + j, l)}
<1>7. 0 \in S
  <2>1. p + ((a + 0) - x.start) = p /\ a + 0 = x.start /\ ~(x.start < a + 0)
    BY <1>6
  <2>2. s = [s EXCEPT !.cur = Slice(x.buf, x.field_start, x.start)]
    BY DEF Unquoted, RefStates
  <2>3. UnquotedRan(s, p, x, a + 0, l)
    BY <2>1, <2>2 DEF UnquotedRan
  <2> QED
    BY <2>3
<1>8. ASSUME NEW j \in S PROVE j + 1 \in S
  <2>1. j \in Nat /\ (j <= n => UnquotedRan(s, p, x, a + j, l))
    OBVIOUS
  <2>2. ASSUME j + 1 <= n PROVE UnquotedRan(s, p, x, a + (j + 1), l)
    <3>1. PICK m \in Nat : m = a + j /\ m + 1 = a + (j + 1)
      BY <2>1
    <3>2. PICK q \in 0..Len(Body) : q = p + j /\ q < Len(Body) /\ q + 1 = p + (j + 1)
      <4>1. Len(Body) \in Nat
        BY <1>5, BodyType DEF Buffers
      <4> QED
        BY <1>5, <2>1, <2>2, <4>1
    <3>3. p + (m - x.start) = q /\ p + ((m + 1) - x.start) = q + 1 /\ x.start <= m /\ m < pos /\ x.start < m + 1
      <4>1. a + n = pos /\ m = a + j /\ j + 1 <= n /\ q = p + j /\ p \in Nat /\ q \in Nat
        BY <1>2, <1>6, <2>1, <2>2, <3>1, <3>2
      <4>2. p + (m - a) = q /\ p + ((m + 1) - a) = q + 1 /\ a <= m /\ m < pos /\ a < m + 1
        BY <2>1, <4>1, Offsets
      <4> QED
        BY <1>6, <4>2
    <3>4. PICK c : c = x.buf[m + 1]
      OBVIOUS
    <3>5. c \notin {"d"} \cup Newline
      BY <3>3, <3>4
    <3>6. Body[q + 1] = c
      <4>1. j + 1 \in 1..n /\ x.start + (j + 1) = m + 1
        BY <1>6, <2>1, <2>2, <3>1, SMTT(40)
      <4> QED
        BY <1>5, <3>2, <3>4, <4>1
    <3>7. Reference[q + 1] = Take(Reference[q], c) /\ Reference[q] \in RefStates
      BY <3>2, <3>6, ReferenceStep
    <3>8. UnquotedRan(s, p, x, m, l)
      BY <2>1, <2>2, <3>1
    <3>11. x.field_start <= m /\ m < Len(x.buf)
      BY <1>1, <3>3, SMTT(40)
    <3>9. CASE Stopped(q, s, l) /\ TooLong(Slice(x.buf, x.field_start, m))
      <4>1. Stopped(q + 1, s, l) /\ TooLong(Slice(x.buf, x.field_start, m + 1))
        <5>1. Stopped(q + 1, s, l)
          BY <3>2, <3>9, StoppedStays
        <5>2. PICK f \in Nat, b \in Seq(Bytes) : f = x.field_start /\ b = x.buf
          BY <1>1
        <5>3. f <= m /\ m < Len(b) /\ m <= Len(b)
          BY <3>11, <5>2
        <5>4. Slice(b, f, m + 1) = Append(Slice(b, f, m), b[m + 1]) /\ b[m + 1] \in Bytes
          BY <5>3, SliceAppend
        <5>5. Slice(b, f, m) \in Seq(Bytes)
          BY <5>3, SliceLen
        <5>6. TooLong(Slice(b, f, m + 1))
          BY <3>9, <5>2, <5>4, <5>5, LongerTooLong
        <5> QED
          BY <5>1, <5>2, <5>6
      <4>2. UnquotedRan(s, p, x, m + 1, l)
        BY <3>3, <4>1 DEF UnquotedRan
      <4> QED
        BY <3>1, <4>2
    <3>10. CASE Reference[q] = [s EXCEPT !.cur = Slice(x.buf, x.field_start, m)]
      <4>1. PICK u, v : u = Slice(x.buf, x.field_start, m) /\ v = Slice(x.buf, x.field_start, m + 1)
        OBVIOUS
      <4>2. v = Append(u, c)
        BY <1>1, <3>4, <3>11, <4>1, SliceAppend, SMTT(40)
      <4>3. PICK t \in RefStates : t = Reference[q] /\ t = [s EXCEPT !.cur = u]
        BY <3>7, <3>10, <4>1
      <4>4. /\ t.st = "unquoted" /\ t.cur = u /\ t.fields = s.fields /\ t.num = s.num /\ t.from = s.from
            /\ t.rows = s.rows
        BY <4>3 DEF RefStates
      <4>5. ~TooWide(t)
        BY <4>4 DEF TooWide
      <4>6. Reference[q + 1] = UnquotedByte(t, c)
        BY <3>7, <4>3, <4>4, <4>5 DEF Take
      <4>7. CASE TooLong(v)
        <5>1. UnquotedByte(t, c) = Stop(t, "field")
          BY <3>5, <4>2, <4>4, <4>7 DEF UnquotedByte
        <5>2. "field" \in Errors
          BY DEF Errors
        <5>3. Stop(t, "field").st = "stop" /\ Stop(t, "field").rows = EndOf(t, t.fields, "field", l).rows
          BY <5>2, StopIs
        <5>4. EndOf(t, t.fields, "field", l).rows = EndOf(s, s.fields, "field", l).rows
          BY <4>4, SameEnd
        <5>5. Stopped(q + 1, s, l)
          BY <4>6, <5>1, <5>3, <5>4 DEF Stopped
        <5>6. UnquotedRan(s, p, x, m + 1, l)
          BY <3>3, <4>1, <4>7, <5>5 DEF UnquotedRan
        <5> QED
          BY <3>1, <5>6
      <4>8. CASE ~TooLong(v)
        <5>1. UnquotedByte(t, c) = [t EXCEPT !.cur = v]
          BY <3>5, <4>2, <4>4, <4>8 DEF UnquotedByte, Newline
        <5>2. Reference[q + 1] = [s EXCEPT !.cur = v]
          BY <4>3, <4>6, <5>1
        <5>3. UnquotedRan(s, p, x, m + 1, l)
          BY <3>3, <4>1, <4>8, <5>2 DEF UnquotedRan
        <5> QED
          BY <3>1, <5>3
      <4> QED
        BY <4>7, <4>8
    <3> QED
      BY <3>3, <3>8, <3>9, <3>10 DEF UnquotedRan
  <2> QED
    BY <2>1, <2>2
<1>9. S = Nat
  <2> HIDE DEF S
  <2>1. S \in SUBSET Nat
    BY DEF S
  <2> QED
    BY <1>7, <1>8, <2>1, Induction
<1>10. n <= n => UnquotedRan(s, p, x, a + n, l)
  <2>1. n \in S
    <3> HIDE DEF S
    <3> QED
      BY <1>9
  <2> QED
    BY <2>1
<1>12. n <= n /\ a + n = pos
  BY <1>2, <1>6
<1>11. UnquotedRan(s, p, x, pos, l)
  BY <1>10, <1>12
<1> QED
  BY <1>2, <1>5, <1>11

LEMMA NormalUnquoted ==
  ASSUME CsvTypes, Normal, InUnquoted
  PROVE  Normal' \/ Over'
<1>1. /\ input \in Buffers /\ source \in Buffers /\ config \in Configs /\ rd \in Readers /\ InBounds(rd)
      /\ RangesFit(rd) /\ rd.start \in Nat /\ Len(rd.buf) \in Nat /\ rd.field_start \in Nat /\ rd.start <= Len(rd.buf)
  BY CsvFacts
<1>2. failed = {} /\ rd.bom_checked /\ (rd.eof => source = <<>>)
  BY NormalFacts
<1>3. PICK p \in 0..Len(Body), s \in RefStates : At(p, s)
  BY NormalFacts
<1>4. /\ call = "loop" /\ rd.start < Len(rd.buf) /\ ~TooManyColumns /\ ~rd.pending_cr /\ rd.state = "InUnquoted"
      /\ UNCHANGED <<input, source, config, failed>> /\ failed' = {}
  BY <1>2 DEF InUnquoted, ParsingIn, Parsing
<1>5. /\ s = Reference[p] /\ s \in RefStates /\ Unread(rd, source, p) /\ rows = s.rows
      /\ s.num = rd.num /\ s.line = rd.line /\ s.from = rd.record_line /\ MatchUnquoted(rd, s)
  BY <1>3, <1>4 DEF At, Match, MatchLoop
<1>6. s.st = "unquoted" /\ s.fields = Fields(rd) /\ s.cur = Unquoted(rd) /\ NoCr(rd, s)
  BY <1>5 DEF MatchUnquoted
<1>7. ~TooWide(s)
  <2>1. Len(Fields(rd)) = Len(rd.ranges)
    BY <1>1, FieldsType
  <2> QED
    BY <1>4, <1>6, <2>1 DEF TooWide, TooManyColumns
<1>8. PICK pos : pos = Find({"d"} \cup Newline)
  OBVIOUS
<1>9. /\ pos \in Nat /\ rd.start <= pos /\ pos <= Len(rd.buf)
      /\ \A i \in Nat : rd.start <= i /\ i < pos => rd.buf[i + 1] \notin {"d"} \cup Newline
      /\ pos < Len(rd.buf) => rd.buf[pos + 1] \in {"d"} \cup Newline
  BY <1>1, <1>8, FindProps
<1>10. PICK l \in Nat : l = s.line
  BY <1>5 DEF RefStates
<1>11. PICK n \in Nat : n = pos - rd.start /\ pos = rd.start + n
  BY <1>1, <1>9
<1>12. p + n \in 0..Len(Body) /\ UnquotedRan(s, p, rd, pos, l)
  BY <1>1, <1>4, <1>5, <1>6, <1>7, <1>9, <1>11, UnquotedRun
<1>13. PICK q \in 0..Len(Body) : q = p + n
  BY <1>12
<1>14. PICK u : u = Slice(rd.buf, rd.field_start, pos)
  OBVIOUS
<1>15. \/ Reference[q] = [s EXCEPT !.cur = u] /\ (rd.start < pos => ~TooLong(u))
       \/ Stopped(q, s, l) /\ TooLong(u)
  BY <1>11, <1>12, <1>13, <1>14 DEF UnquotedRan
<1>16. u \in Buffers /\ Len(u) = pos - rd.field_start
  <2>1. rd.field_start <= pos /\ rd.buf \in Seq(Bytes)
    BY <1>1, <1>4, <1>9, ReaderType DEF InBounds
  <2> QED
    BY <1>1, <1>9, <1>14, <2>1, SliceLen, ZenonT(60) DEF Buffers
<1>17. FieldTooLong(pos - rd.field_start) = TooLong(u)
  BY <1>16 DEF FieldTooLong, TooLong
<1>18. PICK t : t = [s EXCEPT !.cur = u]
  OBVIOUS
<1>19. /\ t \in RefStates /\ t.st = "unquoted" /\ t.fields = s.fields /\ t.cur = u /\ t.num = s.num /\ t.from = s.from
       /\ t.rows = s.rows /\ t.line = s.line /\ t.cr = s.cr
  BY <1>5, <1>6, <1>16, <1>18 DEF RefStates
<1>20. ~TooWide(t)
  BY <1>7, <1>19 DEF TooWide
<1>21. PICK c : c = rd.buf[pos + 1]
  OBVIOUS
<1>22. ASSUME NEW w, w.start = pos, w.buf = rd.buf PROVE Unread(w, source, q)
  <2>1. w.start = rd.start + n /\ rd.start + n <= Len(rd.buf) /\ w.buf = rd.buf
    BY <1>9, <1>11, <1>22
  <2>2. Unread(w, source, p + n)
    BY <1>1, <1>5, <2>1, UnreadSkip
  <2> QED
    BY <1>13, <2>2
<1>23. ASSUME NEW w \in Readers, w.start = pos, w.buf = rd.buf, pos < Len(rd.buf), Reference[q] = t
       PROVE  /\ q + 1 \in 0..Len(Body) /\ Reference[q + 1] = UnquotedByte(t, c)
              /\ \A v : v.start = pos + 1 /\ v.buf = rd.buf => Unread(v, source, q + 1)
  <2>1. Unread(w, source, q)
    BY <1>22, <1>23
  <2>2. w.start < Len(w.buf)
    BY <1>23
  <2>3. q + 1 \in 0..Len(Body) /\ Reference[q + 1] = Take(t, c)
        /\ \A v : v.start = pos + 1 /\ v.buf = rd.buf => Unread(v, source, q + 1)
    BY <1>1, <1>21, <1>23, <2>1, <2>2, UnreadByte
  <2> QED
    BY <1>19, <1>20, <2>3 DEF Take
<1>24. PICK x : x = [Push(rd, Raw("buf", rd.field_start, pos)) EXCEPT !.start = pos]
  OBVIOUS
<1>25. /\ x \in Readers /\ InBounds(x) /\ Fields(x) = Append(Fields(rd), u)
       /\ x = [rd EXCEPT !.ranges = Append(rd.ranges, Raw("buf", rd.field_start, pos)), !.start = pos]
  BY <1>1, <1>4, <1>9, <1>14, <1>24, UnquotedReader
<1>26. /\ x.num = rd.num /\ x.line = rd.line /\ x.record_line = rd.record_line /\ x.pending_cr = rd.pending_cr
       /\ x.eof = rd.eof /\ x.bom_checked = rd.bom_checked /\ x.pending_lf_quoted = rd.pending_lf_quoted
       /\ x.state = rd.state /\ x.start = pos /\ x.scratch = rd.scratch /\ x.buf = rd.buf
       /\ x.field_start = rd.field_start
  BY <1>1, <1>25 DEF Readers
<1>27. PICK y : y = rd'
  OBVIOUS
<1>28. CASE TooLong(u)
  <2>1. Refuse(rd, "field")
    BY <1>8, <1>17, <1>28 DEF InUnquoted
  <2>2. "field" \in Errors
    BY DEF Errors
  <2>3. ASSUME NEW m \in 0..Len(Body), Stopped(m, s, l) PROVE Over'
    <3>1. Reference[m].st = "stop" /\ Reference[m].rows = EndOf(s, Fields(rd), "field", l).rows
      BY <1>6, <2>3 DEF Stopped
    <3> QED
      BY <1>1, <1>2, <1>4, <1>5, <2>1, <2>2, <3>1, RefusedIsOver
  <2>4. CASE Stopped(q, s, l)
    BY <2>3, <2>4
  <2>5. CASE Reference[q] = [s EXCEPT !.cur = u] /\ (rd.start < pos => ~TooLong(u))
    <3>1. pos < Len(rd.buf) /\ c \in {"d"} \cup Newline
      BY <1>1, <1>4, <1>9, <1>21, <1>28, <2>5
    <3>2. q + 1 \in 0..Len(Body) /\ Reference[q + 1] = UnquotedByte(t, c)
      BY <1>18, <1>23, <1>25, <1>26, <2>5, <3>1
    <3>3. UnquotedByte(t, c) = Stop(t, "field")
      BY <1>19, <1>28, <3>1 DEF UnquotedByte
    <3>4. Stop(t, "field").st = "stop" /\ Stop(t, "field").rows = EndOf(t, t.fields, "field", l).rows
      BY <1>19, <2>2, StopIs
    <3>5. EndOf(t, t.fields, "field", l).rows = EndOf(s, s.fields, "field", l).rows
      BY <1>5, <1>19, SameEnd
    <3>6. Stopped(q + 1, s, l)
      BY <3>2, <3>3, <3>4, <3>5 DEF Stopped
    <3> QED
      BY <2>3, <3>2, <3>6
  <2> QED
    BY <1>15, <2>4, <2>5
<1>29. CASE ~TooLong(u) /\ pos = Len(rd.buf)
  <2>1. y = [rd EXCEPT !.start = pos] /\ UNCHANGED <<call, rows>>
    BY <1>8, <1>17, <1>27, <1>29 DEF InUnquoted
  <2>2. Reference[q] = t
    BY <1>15, <1>18, <1>29
  <2>3. /\ y.num = rd.num /\ y.line = rd.line /\ y.record_line = rd.record_line /\ y.pending_cr = rd.pending_cr
        /\ y.eof = rd.eof /\ y.bom_checked = rd.bom_checked /\ y.pending_lf_quoted = rd.pending_lf_quoted
        /\ y.ranges = rd.ranges /\ y.state = rd.state /\ y.start = pos /\ y.scratch = rd.scratch
        /\ y.buf = rd.buf /\ y.field_start = rd.field_start
    BY <1>1, <1>9, <2>1 DEF Readers
  <2>4. Fields(y) = Fields(rd) /\ Unquoted(y) = u
    BY <1>1, <1>14, <2>3, SameFields DEF Unquoted
  <2>5. Unread(y, source, q)
    BY <1>22, <2>3
  <2>6. Match(y, t, "loop")
    BY <1>4, <1>5, <1>6, <1>19, <2>3, <2>4 DEF Match, MatchLoop, MatchUnquoted, NoCr
  <2>7. y.bom_checked /\ (y.eof => source = <<>>) /\ rows = t.rows
    BY <1>2, <1>5, <1>19, <2>3
  <2> QED
    BY <1>2, <1>4, <1>27, <2>1, <2>2, <2>5, <2>6, <2>7, NormalLoop
<1>30. CASE ~TooLong(u) /\ pos # Len(rd.buf) /\ c = "d"
  <2>1. y = [x EXCEPT !.start = pos + 1, !.state = "StartOfField"] /\ UNCHANGED <<call, rows>>
    BY <1>8, <1>17, <1>21, <1>24, <1>27, <1>30 DEF InUnquoted
  <2>2. Reference[q] = t /\ pos < Len(rd.buf)
    BY <1>1, <1>9, <1>15, <1>18, <1>30
  <2>3. /\ q + 1 \in 0..Len(Body) /\ Reference[q + 1] = UnquotedByte(t, c)
        /\ \A v : v.start = pos + 1 /\ v.buf = rd.buf => Unread(v, source, q + 1)
    BY <1>23, <1>25, <1>26, <2>2
  <2>4. UnquotedByte(t, c) = [t EXCEPT !.fields = Append(t.fields, t.cur), !.cur = <<>>, !.st = "start"]
    BY <1>19, <1>30 DEF UnquotedByte, Newline
  <2>5. PICK v : v = UnquotedByte(t, c)
    OBVIOUS
  <2>6. /\ v.st = "start" /\ v.fields = Append(Fields(rd), u) /\ v.cur = <<>> /\ v.num = t.num /\ v.from = t.from
        /\ v.rows = t.rows /\ v.line = t.line /\ v.cr = t.cr
    BY <1>6, <1>19, <2>4, <2>5 DEF RefStates
  <2>7. /\ y.num = rd.num /\ y.line = rd.line /\ y.record_line = rd.record_line /\ y.pending_cr = rd.pending_cr
        /\ y.eof = rd.eof /\ y.bom_checked = rd.bom_checked /\ y.pending_lf_quoted = rd.pending_lf_quoted
        /\ y.ranges = x.ranges /\ y.state = "StartOfField" /\ y.start = pos + 1 /\ y.scratch = x.scratch
        /\ y.buf = x.buf
    BY <1>25, <1>26, <2>1 DEF Readers
  <2>8. Fields(y) = Append(Fields(rd), u)
    BY <1>25, <2>7, SameFields DEF InBounds
  <2>9. Unread(y, source, q + 1)
    BY <1>26, <2>3, <2>7
  <2>10. Match(y, v, "loop")
    BY <1>5, <1>6, <1>19, <2>6, <2>7, <2>8 DEF Match, MatchLoop, MatchStart, NoCr, SameCr
  <2>11. y.bom_checked /\ (y.eof => source = <<>>) /\ rows = v.rows /\ v = Reference[q + 1]
    BY <1>2, <1>5, <1>19, <2>3, <2>5, <2>6, <2>7
  <2> QED
    BY <1>2, <1>4, <1>27, <2>1, <2>3, <2>9, <2>10, <2>11, NormalLoop
<1>31. CASE ~TooLong(u) /\ pos # Len(rd.buf) /\ c # "d"
  <2>1. Return(ConsumeNewline(x), "none")
    BY <1>8, <1>17, <1>21, <1>24, <1>31 DEF InUnquoted
  <2>2. Reference[q] = t /\ pos < Len(rd.buf) /\ c \in Newline
    BY <1>1, <1>9, <1>15, <1>18, <1>21, <1>31
  <2>3. Reference[q + 1] = UnquotedByte(t, c)
    BY <1>23, <1>25, <1>26, <2>2
  <2>4. UnquotedByte(t, c) = EndLine(t, Fields(x), "none", c)
    <3>1. UnquotedByte(t, c) = EndLine(t, Append(t.fields, t.cur), "none", c)
      BY <1>19, <1>31, <2>2 DEF UnquotedByte, Newline
    <3> QED
      BY <1>6, <1>19, <1>25, <3>1
  <2>5. Unread(x, source, q)
    BY <1>22, <1>26
  <2>6. "none" \in Errors
    BY DEF Errors
  <2>7. /\ RangesFit(x) /\ x.start < Len(x.buf) /\ x.state # "InQuoted" /\ (x.state = "InUnquoted" => x.field_start <= x.start)
        /\ ~x.pending_cr /\ x.bom_checked /\ (x.eof => source = <<>>) /\ x.buf[x.start + 1] = c
    BY <1>2, <1>4, <1>21, <1>25, <1>26, <2>2 DEF InBounds
  <2>8. /\ t.num = x.num /\ t.from = x.record_line /\ t.rows = rows /\ t.line = x.line
        /\ Reference[q + 1] = EndLine(t, Fields(x), "none", x.buf[x.start + 1]) /\ x.buf[x.start + 1] \in Newline
    BY <1>5, <1>19, <1>26, <2>2, <2>3, <2>4, <2>7
  <2> QED
    BY <1>4, <1>19, <1>25, <2>1, <2>5, <2>6, <2>7, <2>8, ReturnAtLineEnd
<1> QED
  BY <1>28, <1>29, <1>30, <1>31

\* One more line break, or none.
BreakAt(x, bytes, c) == c = "r" \/ (c = "n" /\ ~LfAfter(x, bytes))

LEMMA BreaksStep ==
  ASSUME NEW x, NEW bytes \in Seq(Bytes), NEW c \in Bytes
  PROVE  /\ LfAfter(x, Append(bytes, c)) = (c = "r")
         /\ Cardinality(Breaks(x, Append(bytes, c))) =
              Cardinality(Breaks(x, bytes)) + (IF BreakAt(x, bytes, c) THEN 1 ELSE 0)
<1>1. PICK m \in Nat : m = Len(bytes)
  OBVIOUS
<1>14. Append(bytes, c) \in Seq(Bytes)
  OBVIOUS
<1>2. PICK w \in Seq(Bytes) : w = Append(bytes, c)
  BY <1>14
<1>3. Len(w) = m + 1 /\ w[m + 1] = c /\ (\A i \in 1..m : w[i] = bytes[i]) /\ w # <<>>
  BY <1>1, <1>2
<1>4. LfAfter(x, w) = (c = "r")
  BY <1>3 DEF LfAfter
<1>5. PICK B, D : B = Breaks(x, bytes) /\ D = Breaks(x, w)
  OBVIOUS
<1>6. IsFiniteSet(B) /\ Cardinality(B) \in Nat
  BY <1>5, BreaksFinite
<1>7. m + 1 \notin B
  BY <1>1, <1>5 DEF Breaks
<1>8. ASSUME NEW i \in 1..m PROVE (i \in D) = (i \in B)
  <2>1. w[i] = bytes[i] /\ i \in 1..Len(w) /\ i \in 1..Len(bytes)
    BY <1>1, <1>3
  <2>2. CASE i = 1
    BY <1>5, <2>1, <2>2 DEF Breaks
  <2>3. CASE i # 1
    <3>1. i - 1 \in 1..m
      BY <2>3
    <3>2. w[i - 1] = bytes[i - 1]
      BY <1>3, <3>1
    <3> QED
      BY <1>5, <2>1, <2>3, <3>2 DEF Breaks
  <2> QED
    BY <2>2, <2>3
<1>9. (m + 1 \in D) = BreakAt(x, bytes, c)
  <2>1. m + 1 \in 1..Len(w)
    BY <1>3
  <2>2. CASE m = 0
    <3>4. bytes = <<>>
      BY <1>1, <2>2, EmptySeq
    <3>1. bytes = <<>> /\ m + 1 = 1
      BY <2>2, <3>4
    <3>2. (m + 1 \in D) = (c = "r" \/ (c = "n" /\ ~x.pending_lf_quoted))
      BY <1>3, <1>5, <2>1, <3>1 DEF Breaks
    <3> QED
      BY <3>1, <3>2 DEF BreakAt, LfAfter
  <2>3. CASE m # 0
    <3>1. bytes # <<>> /\ m + 1 # 1 /\ (m + 1) - 1 = m /\ m \in 1..m
      BY <1>1, <2>3
    <3>2. w[m] = bytes[m]
      BY <1>3, <3>1
    <3>3. (m + 1 \in D) = (c = "r" \/ (c = "n" /\ bytes[m] # "r"))
      BY <1>3, <1>5, <2>1, <3>1, <3>2 DEF Breaks
    <3> QED
      BY <1>1, <3>1, <3>3 DEF BreakAt, LfAfter
  <2> QED
    BY <2>2, <2>3
<1>10. B \subseteq 1..m /\ D \subseteq 1..(m + 1)
  BY <1>1, <1>3, <1>5 DEF Breaks
<1>11. \A i \in 1..(m + 1) : i \in 1..m \/ i = m + 1
  OBVIOUS
<1>12. CASE BreakAt(x, bytes, c)
  <2>1. D = B \cup {m + 1}
    BY <1>8, <1>9, <1>10, <1>11, <1>12
  <2>2. Cardinality(D) = Cardinality(B) + 1
    BY <1>6, <1>7, <2>1, FS_AddElement
  <2> QED
    BY <1>2, <1>4, <1>5, <1>12, <2>2
<1>13. CASE ~BreakAt(x, bytes, c)
  <2>1. D = B
    BY <1>8, <1>9, <1>10, <1>11, <1>13
  <2> QED
    BY <1>2, <1>4, <1>5, <1>6, <1>13, <2>1
<1> QED
  BY <1>12, <1>13

LEMMA ConcatAppend ==
  ASSUME NEW S, NEW s \in Seq(S), NEW u \in Seq(S), NEW c \in S
  PROVE  s \o Append(u, c) = Append(s \o u, c)
<1>1. PICK m \in Nat, n \in Nat : m = Len(s) /\ n = Len(u)
  OBVIOUS
<1> DEFINE a == s \o Append(u, c)
           b == Append(s \o u, c)
<1>2. a \in Seq(S) /\ b \in Seq(S) /\ Len(a) = m + n + 1 /\ Len(b) = m + n + 1
  BY <1>1
<1>3. \A i \in 1..(m + n + 1) : a[i] = b[i]
  BY <1>1
<1> HIDE DEF a, b
<1>4. a = b
  BY <1>2, <1>3, SeqEqual
<1> QED
  BY <1>4 DEF a, b

\* The reader a byte further in quoted content.
FurtherBy(y, z, c) ==
  /\ Quoted(z) = Append(Quoted(y), c) /\ Quoted(y) \in Buffers
  /\ z.line = IF c = "r" \/ (c = "n" /\ ~y.pending_lf_quoted) THEN y.line + 1 ELSE y.line
  /\ z.pending_lf_quoted = (c = "r")

LEMMA QuotedStep ==
  ASSUME NEW x \in Readers, InBounds(x), x.state = "InQuoted",
         NEW e \in Nat, x.start <= e, e < Len(x.buf),
         NEW y, y = QuotedTo(x, e), NEW z, z = QuotedTo(x, e + 1),
         NEW c, c = x.buf[e + 1]
  PROVE  FurtherBy(y, z, c) /\ c \in Bytes
<1>1. /\ x.buf \in Seq(Bytes) /\ x.scratch \in Seq(Bytes) /\ x.start \in Nat /\ Len(x.buf) \in Nat /\ x.line \in Nat
  BY ReaderType
<1>2. e <= Len(x.buf) /\ e + 1 \in Nat /\ x.start <= e + 1 /\ e + 1 <= Len(x.buf) /\ e + 1 \in 1..Len(x.buf)
  BY <1>1
<1>3. PICK u, v : u = Slice(x.buf, x.start, e) /\ v = Slice(x.buf, x.start, e + 1)
  OBVIOUS
<1>4. Took(x, y, u)
  BY <1>2, <1>3, QuotedReader
<1>5. Took(x, z, v)
  BY <1>2, <1>3, QuotedReader
<1>6. v = Append(u, c) /\ c \in Bytes
  BY <1>1, <1>3, SliceAppend
<1>7. u \in Seq(Bytes)
  BY <1>4 DEF Took
<1>8. /\ y \in Readers /\ InBounds(y) /\ y.scratch = x.scratch \o u /\ z.scratch = x.scratch \o v
      /\ y = [x EXCEPT !.line = y.line, !.pending_lf_quoted = y.pending_lf_quoted, !.scratch = y.scratch]
      /\ z = [x EXCEPT !.line = z.line, !.pending_lf_quoted = z.pending_lf_quoted, !.scratch = z.scratch]
      /\ z \in Readers
  BY <1>4, <1>5 DEF Took
<1>9. /\ y.state = "InQuoted" /\ y.scratch_field_start = x.scratch_field_start /\ y.buf = x.buf /\ y.start = x.start
      /\ z.scratch_field_start = x.scratch_field_start
  BY <1>8 DEF Readers
<1>10. z.scratch = Append(y.scratch, c)
  <2>1. PICK b \in Seq(Bytes) : b = x.scratch
    BY <1>1
  <2>2. b \o Append(u, c) = Append(b \o u, c)
    BY <1>6, <1>7, ConcatAppend
  <2>3. z.scratch = b \o Append(u, c) /\ y.scratch = b \o u
    BY <1>6, <1>8, <2>1
  <2> QED
    BY <2>2, <2>3
<1>11. PICK w : w = [y EXCEPT !.scratch = Append(y.scratch, c), !.start = y.start]
  OBVIOUS
<1>12. Quoted(w) = Append(Quoted(y), c)
  <2>1. PICK a \in Nat : a = y.start /\ a <= Len(y.buf)
    BY <1>8, ReaderType DEF InBounds
  <2>2. w = [y EXCEPT !.scratch = Append(y.scratch, c), !.start = a]
    BY <1>11, <2>1
  <2>3. y \in Readers /\ InBounds(y) /\ y.state = "InQuoted" /\ c \in Bytes /\ a <= Len(y.buf)
    BY <1>6, <1>8, <1>9, <2>1
  <2> QED
    BY <2>2, <2>3, ScratchByte, ZenonT(60)
<1>13. w.scratch = z.scratch /\ w.scratch_field_start = z.scratch_field_start
  BY <1>8, <1>9, <1>10, <1>11 DEF Readers
<1>14. Quoted(z) = Append(Quoted(y), c)
  BY <1>12, <1>13 DEF Quoted
<1>15. Quoted(y) \in Buffers
  <2>1. y.scratch \in Seq(Bytes) /\ Len(y.scratch) \in Nat /\ y.scratch_field_start \in Nat
    BY <1>8, ReaderType
  <2>2. y.scratch_field_start <= Len(y.scratch)
    BY <1>8, <1>9 DEF InBounds
  <2>3. PICK f \in Nat, g \in Nat : f = y.scratch_field_start /\ g = Len(y.scratch) /\ f <= g
    BY <2>1, <2>2
  <2>4. Slice(y.scratch, f, g) \in Seq(Bytes)
    <3>1. g <= Len(y.scratch)
      BY <2>3
    <3> QED
      BY <2>1, <2>3, <3>1, SliceLen
  <2> QED
    BY <2>3, <2>4 DEF Quoted, Buffers
<1>16. PICK i \in Nat, j \in Nat, k \in Nat : i = Cardinality(Breaks(x, u)) /\ j = Cardinality(Breaks(x, v)) /\ k = x.line
  <2>1. v \in Seq(Bytes)
    BY <1>5 DEF Took
  <2>2. Cardinality(Breaks(x, u)) \in Nat /\ Cardinality(Breaks(x, v)) \in Nat
    BY <1>7, <2>1, BreaksFinite
  <2> QED
    BY <1>1, <2>2
<1>17. /\ y.line = k + i /\ y.pending_lf_quoted = LfAfter(x, u)
       /\ z.line = k + j /\ z.pending_lf_quoted = LfAfter(x, v)
  BY <1>4, <1>5, <1>16 DEF Took
<1>18. LfAfter(x, v) = (c = "r") /\ j = i + (IF BreakAt(x, u, c) THEN 1 ELSE 0)
  BY <1>6, <1>7, <1>16, BreaksStep
<1>19. z.line = IF c = "r" \/ (c = "n" /\ ~y.pending_lf_quoted) THEN y.line + 1 ELSE y.line
  <2>1. CASE BreakAt(x, u, c)
    <3>1. c = "r" \/ (c = "n" /\ ~y.pending_lf_quoted)
      BY <1>17, <2>1 DEF BreakAt
    <3>2. z.line = y.line + 1
      BY <1>17, <1>18, <2>1
    <3> QED
      BY <3>1, <3>2
  <2>2. CASE ~BreakAt(x, u, c)
    <3>1. ~(c = "r" \/ (c = "n" /\ ~y.pending_lf_quoted))
      BY <1>17, <2>2 DEF BreakAt
    <3>2. z.line = y.line
      BY <1>17, <1>18, <2>2
    <3> QED
      BY <3>1, <3>2
  <2> QED
    BY <2>1, <2>2
<1> QED
  BY <1>6, <1>14, <1>15, <1>17, <1>18, <1>19 DEF FurtherBy

\* Before any of it.
LEMMA QuotedNone ==
  ASSUME NEW x \in Readers, InBounds(x), x.state = "InQuoted", NEW y, y = QuotedTo(x, x.start)
  PROVE  Quoted(y) = Quoted(x) /\ y.line = x.line /\ y.pending_lf_quoted = x.pending_lf_quoted
<1>1. /\ x.buf \in Seq(Bytes) /\ x.scratch \in Seq(Bytes) /\ x.start \in Nat /\ Len(x.buf) \in Nat /\ x.line \in Nat
      /\ x.start <= Len(x.buf) /\ x.start <= x.start
  BY ReaderType DEF InBounds
<1>2. Slice(x.buf, x.start, x.start) = <<>>
  BY <1>1, NoSlice
<1>3. Took(x, y, <<>>)
  <2>1. Took(x, y, Slice(x.buf, x.start, x.start))
    BY <1>1, QuotedReader
  <2> QED
    BY <1>2, <2>1
<1>4. /\ y.line = x.line + Cardinality(Breaks(x, <<>>)) /\ y.pending_lf_quoted = LfAfter(x, <<>>)
      /\ y.scratch = x.scratch \o <<>>
      /\ y = [x EXCEPT !.line = y.line, !.pending_lf_quoted = y.pending_lf_quoted, !.scratch = y.scratch]
  BY <1>3 DEF Took
<1>5. Breaks(x, <<>>) = {}
  BY DEF Breaks
<1>6. Cardinality({}) = 0
  BY FS_EmptySet
<1>7. y.line = x.line
  <2>1. PICK l \in Nat : l = x.line
    BY <1>1
  <2>2. y.line = l + 0
    BY <1>4, <1>5, <1>6, <2>1
  <2> QED
    BY <2>1, <2>2
<1>8. x.scratch \o <<>> = x.scratch
  BY <1>1
<1>9. y.scratch = x.scratch /\ y.scratch_field_start = x.scratch_field_start
  BY <1>4, <1>8 DEF Readers
<1> QED
  BY <1>4, <1>7, <1>9 DEF Quoted, LfAfter

\* The reference after the quoted content up to e.
QuotedState(s, y) == [s EXCEPT !.cur = Quoted(y), !.line = y.line, !.cr = y.pending_lf_quoted]
QuotedRan(s, q, x, e, l) ==
  \/ /\ Reference[q] = QuotedState(s, QuotedTo(x, e))
     /\ x.start < e => ~TooLong(Quoted(QuotedTo(x, e)))
  \/ Stopped(q, s, l) /\ TooLong(Quoted(QuotedTo(x, e)))

LEMMA QuotedRanStep ==
  ASSUME input \in Buffers, config \in Configs, NEW x \in Readers, InBounds(x), x.state = "InQuoted",
         NEW s \in RefStates, s.st = "quoted", ~TooWide(s), NEW l \in Nat,
         NEW e \in Nat, x.start <= e, e < Len(x.buf), x.buf[e + 1] # "q",
         NEW q \in 0..Len(Body), q < Len(Body), Body[q + 1] = x.buf[e + 1],
         QuotedRan(s, q, x, e, l)
  PROVE  QuotedRan(s, q + 1, x, e + 1, l)
<1>1. PICK y, z, c : y = QuotedTo(x, e) /\ z = QuotedTo(x, e + 1) /\ c = x.buf[e + 1]
  OBVIOUS
<1>2. FurtherBy(y, z, c) /\ c \in Bytes
  BY <1>1, QuotedStep
<1>3. /\ Quoted(z) = Append(Quoted(y), c) /\ Quoted(y) \in Seq(Bytes)
      /\ z.line = IF c = "r" \/ (c = "n" /\ ~y.pending_lf_quoted) THEN y.line + 1 ELSE y.line
      /\ z.pending_lf_quoted = (c = "r")
  BY <1>2 DEF FurtherBy, Buffers
<1>4. Reference[q + 1] = Take(Reference[q], c) /\ Reference[q] \in RefStates
  BY <1>1, ReferenceStep
<1>5. x.start < e + 1
  BY ReaderType
<1>6. CASE Stopped(q, s, l) /\ TooLong(Quoted(y))
  <2>1. Stopped(q + 1, s, l)
    BY <1>6, StoppedStays
  <2>2. TooLong(Quoted(z))
    BY <1>2, <1>3, <1>6, LongerTooLong
  <2> QED
    BY <1>1, <2>1, <2>2 DEF QuotedRan
<1>7. CASE Reference[q] = QuotedState(s, y)
  <2>1. PICK t \in RefStates : t = Reference[q]
    BY <1>4
  <2>2. /\ t.cur = Quoted(y) /\ t.line = y.line /\ t.cr = y.pending_lf_quoted
        /\ t.st = "quoted" /\ t.fields = s.fields /\ t.num = s.num /\ t.from = s.from /\ t.rows = s.rows
    <3>1. t = QuotedState(s, y)
      BY <1>7, <2>1
    <3>2. /\ t.cur = Quoted(y) /\ t.line = y.line /\ t.cr = y.pending_lf_quoted
          /\ t.st = s.st /\ t.fields = s.fields /\ t.num = s.num /\ t.from = s.from /\ t.rows = s.rows
      BY <3>1 DEF QuotedState, RefStates
    <3> QED
      BY <3>2
  <2>3. ~TooWide(t)
    BY <2>2 DEF TooWide
  <2>4. Reference[q + 1] = QuotedByte(t, c)
    BY <1>4, <2>1, <2>2, <2>3 DEF Take
  <2>5. CASE TooLong(Quoted(z))
    <3>1. QuotedByte(t, c) = Stop(t, "field")
      BY <1>1, <1>3, <2>2, <2>5 DEF QuotedByte
    <3>2. "field" \in Errors
      BY DEF Errors
    <3>3. Stop(t, "field").st = "stop" /\ Stop(t, "field").rows = EndOf(t, t.fields, "field", l).rows
      BY <3>2, StopIs
    <3>4. EndOf(t, t.fields, "field", l).rows = EndOf(s, s.fields, "field", l).rows
      BY <2>2, SameEnd
    <3>5. Stopped(q + 1, s, l)
      BY <2>4, <3>1, <3>3, <3>4 DEF Stopped
    <3> QED
      BY <1>1, <2>5, <3>5 DEF QuotedRan
  <2>6. CASE ~TooLong(Quoted(z))
    <3>1. QuotedByte(t, c) = [t EXCEPT !.cur = Append(@, c), !.cr = c = "r",
                                !.line = IF c = "r" \/ (c = "n" /\ ~t.cr) THEN @ + 1 ELSE @]
      BY <1>1, <1>3, <2>2, <2>6 DEF QuotedByte
    <3>2. PICK a, k, b : a = Quoted(z) /\ k = z.line /\ b = z.pending_lf_quoted
      OBVIOUS
    <3>3. a = Append(t.cur, c) /\ k = (IF c = "r" \/ (c = "n" /\ ~t.cr) THEN t.line + 1 ELSE t.line) /\ b = (c = "r")
      BY <1>3, <2>2, <3>2
    <3>4. QuotedByte(t, c) = [t EXCEPT !.cur = a, !.cr = b, !.line = k]
      BY <3>1, <3>3
    <3>5. t = [s EXCEPT !.cur = Quoted(y), !.line = y.line, !.cr = y.pending_lf_quoted]
      BY <1>7, <2>1 DEF QuotedState
    <3>6. [t EXCEPT !.cur = a, !.cr = b, !.line = k] = [s EXCEPT !.cur = a, !.line = k, !.cr = b]
      BY <3>5
    <3>7. Reference[q + 1] = QuotedState(s, z)
      BY <2>4, <3>2, <3>4, <3>6 DEF QuotedState
    <3> QED
      BY <1>1, <2>6, <3>7 DEF QuotedRan
  <2> QED
    BY <2>5, <2>6
<1> QED
  BY <1>1, <1>6, <1>7 DEF QuotedRan

LEMMA Further ==
  ASSUME NEW a \in Nat, NEW j \in Nat
  PROVE  a + j \in Nat /\ (a + j) + 1 = a + (j + 1)
  OBVIOUS

LEMMA QuotedRun ==
  ASSUME input \in Buffers, config \in Configs, NEW src \in Buffers,
         NEW x \in Readers, InBounds(x), x.state = "InQuoted",
         NEW p \in 0..Len(Body), NEW s \in RefStates, s = Reference[p], Unread(x, src, p),
         s.st = "quoted", s.cur = Quoted(x), s.line = x.line, s.cr = x.pending_lf_quoted, ~TooWide(s),
         NEW n \in Nat, x.start + n <= Len(x.buf),
         \A i \in Nat : x.start <= i /\ i < x.start + n => x.buf[i + 1] \notin {"q"},
         NEW l \in Nat
  PROVE  p + n \in 0..Len(Body) /\ QuotedRan(s, p + n, x, x.start + n, l)
<1>1. /\ x.start \in Nat /\ Len(x.buf) \in Nat /\ x.start <= Len(x.buf) /\ p \in Nat /\ Len(Body) \in Nat
  <2>1. Body \in Seq(Bytes)
    BY BodyType DEF Buffers
  <2> QED
    BY <2>1, ReaderType DEF InBounds
<1>2. PICK a \in Nat : a = x.start
  BY <1>1
<1>3. PICK y : y = [x EXCEPT !.start = a + n]
  OBVIOUS
<1>4. y.start = x.start + n /\ y.buf = x.buf
  BY <1>2, <1>3 DEF Readers
<1>5. p + n \in 0..Len(Body) /\ \A i \in 1..n : Body[p + i] = x.buf[x.start + i]
  BY <1>1, <1>4, UnreadSkip
<1> DEFINE S == {j \in Nat : j <= n => QuotedRan(s, p + j, x, a + j, l)}
<1>6. 0 \in S
  <2>1. p + 0 = p /\ a + 0 = a /\ ~(a < a) /\ x.start = a
    BY <1>1, <1>2
  <2>2. PICK z : z = QuotedTo(x, a)
    OBVIOUS
  <2>3. Quoted(z) = s.cur /\ z.line = s.line /\ z.pending_lf_quoted = s.cr
    BY <1>2, <2>2, QuotedNone
  <2>4. s = QuotedState(s, z)
    BY <2>3 DEF QuotedState, RefStates
  <2>5. QuotedRan(s, p, x, a, l)
    BY <2>1, <2>2, <2>4 DEF QuotedRan
  <2> QED
    BY <2>1, <2>5
<1>7. ASSUME NEW j \in S PROVE j + 1 \in S
  <2>1. j \in Nat /\ (j <= n => QuotedRan(s, p + j, x, a + j, l))
    OBVIOUS
  <2>2. ASSUME j + 1 <= n PROVE QuotedRan(s, p + (j + 1), x, a + (j + 1), l)
    <3>0. PICK b \in Nat : b = Len(Body)
      BY <1>1
    <3>1. PICK m \in Nat, q \in Nat : m = a + j /\ m + 1 = a + (j + 1) /\ q = p + j /\ q + 1 = p + (j + 1)
      <4>1. /\ a + j \in Nat /\ (a + j) + 1 = a + (j + 1)
            /\ p + j \in Nat /\ (p + j) + 1 = p + (j + 1)
        BY <1>1, <2>1, Further
      <4> QED
        BY <4>1
    <3>2. q \in 0..Len(Body) /\ q < Len(Body)
      <4>1. p + n <= b
        BY <1>5, <3>0
      <4>2. q <= b /\ q < b
        BY <1>1, <2>1, <2>2, <3>0, <3>1, <4>1
      <4> QED
        BY <3>0, <3>1, <4>2
    <3>3. x.start <= m /\ m < x.start + n /\ m < Len(x.buf)
      <4>1. a <= m /\ m < a + n /\ (a + n <= Len(x.buf) => m < Len(x.buf))
        BY <1>1, <2>1, <2>2, <3>1
      <4> QED
        BY <1>2, <4>1
    <3>4. x.buf[m + 1] # "q"
      BY <3>3
    <3>5. Body[q + 1] = x.buf[m + 1]
      <4>1. j + 1 \in 1..n /\ x.start + (j + 1) = m + 1
        BY <1>2, <2>1, <2>2, <3>1
      <4> QED
        BY <1>5, <3>1, <4>1
    <3>6. QuotedRan(s, q, x, m, l)
      BY <2>1, <2>2, <3>1
    <3>7. QuotedRan(s, q + 1, x, m + 1, l)
      BY <3>2, <3>3, <3>4, <3>5, <3>6, QuotedRanStep
    <3> QED
      BY <3>1, <3>7
  <2> QED
    BY <2>1, <2>2
<1>8. S = Nat
  <2> HIDE DEF S
  <2>1. S \in SUBSET Nat
    BY DEF S
  <2> QED
    BY <1>6, <1>7, <2>1, Induction
<1>9. n <= n => QuotedRan(s, p + n, x, a + n, l)
  <2>1. n \in S
    <3> HIDE DEF S
    <3> QED
      BY <1>8
  <2> QED
    BY <2>1
<1> QED
  BY <1>2, <1>5, <1>9

\* The length of the quoted content.
LEMMA QuotedType ==
  ASSUME NEW x \in Readers, InBounds(x), x.state = "InQuoted"
  PROVE  Quoted(x) \in Buffers /\ Len(Quoted(x)) = Len(x.scratch) - x.scratch_field_start
<1>1. x.scratch \in Seq(Bytes) /\ Len(x.scratch) \in Nat /\ x.scratch_field_start \in Nat
  BY ReaderType
<1>2. x.scratch_field_start <= Len(x.scratch)
  BY DEF InBounds
<1>3. PICK f \in Nat, g \in Nat, u \in Seq(Bytes) : f = x.scratch_field_start /\ g = Len(x.scratch) /\ u = x.scratch
  BY <1>1
<1>4. f <= g /\ g <= Len(u)
  BY <1>2, <1>3
<1>5. Slice(u, f, g) \in Seq(Bytes) /\ Len(Slice(u, f, g)) = g - f
  BY <1>4, SliceLen
<1> QED
  BY <1>3, <1>5 DEF Quoted, Buffers

\* The reader at the quote, and the reference behind it.
AtQuote(y, v, s) ==
  /\ y \in Readers /\ InBounds(y) /\ y.state = "InQuoted" /\ v \in RefStates
  /\ y.num = rd.num /\ y.record_line = rd.record_line /\ y.pending_cr = rd.pending_cr /\ ~y.pending_lf_quoted
  /\ y.eof = rd.eof /\ y.bom_checked = rd.bom_checked /\ y.start = rd.start /\ y.buf = rd.buf
  /\ v.st = "quote" /\ v.cur = Quoted(y) /\ v.fields = Fields(y) /\ v.line = y.line /\ v.cr = FALSE
  /\ v.num = s.num /\ v.from = s.from /\ v.rows = s.rows

\* A quote of the field.
Scratched(y, z) == Fields(z) = Fields(y) /\ Quoted(z) = Append(Quoted(y), "q")

LEMMA ScratchQuote ==
  ASSUME NEW y \in Readers, InBounds(y), y.state = "InQuoted", "q" \in Bytes, NEW b \in Nat, b <= Len(y.buf),
         NEW z, z = [y EXCEPT !.scratch = Append(y.scratch, "q"), !.start = b]
  PROVE  Scratched(y, z)
<1>1. PICK c \in Bytes : c = "q"
  OBVIOUS
<1>2. z = [y EXCEPT !.scratch = Append(y.scratch, c), !.start = b]
  BY <1>1
<1>3. /\ z \in Readers /\ InBounds(z) /\ Fields(z) = Fields(y)
      /\ Quoted(z) = Append(Quoted(y), c)
  BY <1>2, ScratchByte
<1> QED
  BY <1>1, <1>3 DEF Scratched

LEMMA BehindQuote ==
  ASSUME CsvTypes, UNCHANGED <<input, source, config, failed>>, failed = {}, rd.bom_checked, rd.eof => source = <<>>,
         call = "loop", ~rd.pending_cr, rows' = rows,
         NEW s \in RefStates, s.num = rd.num, s.from = rd.record_line, rows = s.rows,
         NEW pos \in Nat, rd.start <= pos, pos + 1 <= Len(rd.buf), NEW y, NEW v, AtQuote(y, v, s), "q" \in Bytes,
         NEW m \in 0..Len(Body), Reference[m] = v,
         \A w : w.start = pos + 1 /\ w.buf = rd.buf => Unread(w, source, m),
         \/ pos + 1 = Len(rd.buf) /\ rd' = [y EXCEPT !.start = pos + 1] /\ call' = "quote"
         \/ /\ call' = call /\ pos + 1 # Len(rd.buf)
            /\ \/ rd.buf[pos + 2] = "q" /\ rd' = [y EXCEPT !.scratch = Append(@, "q"), !.start = pos + 2]
               \/ rd.buf[pos + 2] # "q" /\ rd' = [Push(y, Scratch(y)) EXCEPT !.start = pos + 1, !.state = "AfterQuote"]
  PROVE  Normal'
<1>1. /\ input \in Buffers /\ source \in Buffers /\ rd \in Readers /\ rd.start \in Nat /\ Len(rd.buf) \in Nat
      /\ rd.start <= Len(rd.buf)
  BY CsvFacts
<1>2. /\ y \in Readers /\ InBounds(y) /\ y.state = "InQuoted" /\ v \in RefStates
      /\ y.num = rd.num /\ y.record_line = rd.record_line /\ y.pending_cr = rd.pending_cr /\ ~y.pending_lf_quoted
      /\ y.eof = rd.eof /\ y.bom_checked = rd.bom_checked /\ y.start = rd.start /\ y.buf = rd.buf
      /\ v.st = "quote" /\ v.cur = Quoted(y) /\ v.fields = Fields(y) /\ v.line = y.line /\ v.cr = FALSE
      /\ v.num = s.num /\ v.from = s.from /\ v.rows = s.rows
  BY DEF AtQuote
<1>3. RangesFit(y)
  BY <1>2 DEF InBounds
<1>4. PICK a \in Nat : a = pos + 1 /\ a <= Len(rd.buf) /\ rd.start <= a
  BY <1>1
<1>5. PICK z : z = rd'
  OBVIOUS
<1>6. CASE pos + 1 = Len(rd.buf) /\ rd' = [y EXCEPT !.start = pos + 1] /\ call' = "quote"
  <2>1. z = [y EXCEPT !.start = a]
    BY <1>4, <1>5, <1>6
  <2>2. /\ z.num = y.num /\ z.line = y.line /\ z.record_line = y.record_line /\ z.pending_cr = y.pending_cr
        /\ z.eof = y.eof /\ z.bom_checked = y.bom_checked /\ z.pending_lf_quoted = y.pending_lf_quoted
        /\ z.ranges = y.ranges /\ z.start = a /\ z.scratch = y.scratch
        /\ z.buf = y.buf /\ z.scratch_field_start = y.scratch_field_start
    BY <1>2, <2>1 DEF Readers
  <2>3. Fields(z) = Fields(y) /\ Quoted(z) = Quoted(y)
    <3>1. Fields(z) = Fields(y)
      BY <1>2, <1>3, <2>2, SameFields
    <3> QED
      BY <2>2, <3>1 DEF Quoted
  <2>4. Unread(z, source, m)
    BY <1>2, <1>4, <2>2
  <2>5. Match(z, v, "quote")
    BY <1>2, <2>2, <2>3 DEF Match, MatchQuote, NoCr
  <2>6. /\ z.bom_checked /\ (z.eof => source = <<>>) /\ rows' = Reference[m].rows /\ Match(z, Reference[m], "quote")
        /\ "quote" \in {"idle", "loop", "quote", "skip"} /\ source' = source /\ failed' = {}
    BY <1>2, <2>2, <2>5
  <2> QED
    BY <1>5, <1>6, <2>4, <2>6, NormalIntro
<1>7. CASE /\ call' = call /\ pos + 1 # Len(rd.buf)
           /\ rd.buf[pos + 2] = "q" /\ rd' = [y EXCEPT !.scratch = Append(@, "q"), !.start = pos + 2]
  <2>0. a < Len(rd.buf) /\ pos + 2 = a + 1 /\ a + 1 <= Len(rd.buf)
    BY <1>1, <1>4, <1>7
  <2>1. PICK b \in Nat : b = a + 1 /\ b <= Len(y.buf) /\ pos + 2 = b
    BY <1>2, <2>0
  <2>2. z = [y EXCEPT !.scratch = Append(y.scratch, "q"), !.start = b]
    BY <1>5, <1>7, <2>1
  <2>3. Fields(z) = Fields(y) /\ Quoted(z) = Append(Quoted(y), "q")
    <3>1. y \in Readers /\ InBounds(y) /\ y.state = "InQuoted" /\ "q" \in Bytes /\ b <= Len(y.buf)
      BY <1>2, <2>1
    <3>2. Scratched(y, z)
      BY <2>2, <3>1, ScratchQuote
    <3> QED
      BY <3>2 DEF Scratched
  <2>4. /\ z.num = y.num /\ z.line = y.line /\ z.record_line = y.record_line /\ z.pending_cr = y.pending_cr
        /\ z.eof = y.eof /\ z.bom_checked = y.bom_checked /\ z.pending_lf_quoted = y.pending_lf_quoted
        /\ z.start = b /\ z.buf = y.buf /\ z.state = y.state
    BY <1>2, <2>2 DEF Readers
  <2>5. PICK w : w = [y EXCEPT !.start = a]
    OBVIOUS
  <2>6. w \in Readers /\ w.start = a /\ w.buf = rd.buf
    BY <1>2, <2>5 DEF Readers
  <2>7. Unread(w, source, m) /\ w.start < Len(w.buf) /\ w.buf[w.start + 1] = "q"
    BY <1>4, <1>7, <2>0, <2>6
  <2>8. /\ m + 1 \in 0..Len(Body) /\ Reference[m + 1] = Take(v, "q")
        /\ \A u : u.start = w.start + 1 /\ u.buf = w.buf => Unread(u, source, m + 1)
    <3>1. /\ m + 1 \in 0..Len(Body) /\ Reference[m + 1] = Take(Reference[m], w.buf[w.start + 1])
          /\ \A u : u.start = w.start + 1 /\ u.buf = w.buf => Unread(u, source, m + 1)
      BY <1>1, <2>6, <2>7, UnreadByte
    <3>2. Take(Reference[m], w.buf[w.start + 1]) = Take(v, "q")
      BY <2>7
    <3> QED
      BY <3>1, <3>2
  <2>9. Unread(z, source, m + 1)
    BY <1>2, <2>1, <2>4, <2>6, <2>8
  <2>10. PICK t : t = Take(v, "q")
    OBVIOUS
  <2>11. t = [v EXCEPT !.st = "quoted", !.cur = Append(@, "q")]
    BY <1>2, <2>10 DEF Take, QuoteByte
  <2>12. /\ t.st = "quoted" /\ t.cur = Append(v.cur, "q") /\ t.fields = v.fields /\ t.line = v.line /\ t.cr = FALSE
         /\ t.num = v.num /\ t.from = v.from /\ t.rows = v.rows
    BY <1>2, <2>11 DEF RefStates
  <2>13. z.pending_lf_quoted = FALSE
    BY <1>2, <2>4, ReaderType
  <2>14. Match(z, t, "loop")
    <3>1. MatchQuoted(z, t)
      <4>1. t.st = "quoted" /\ t.fields = Fields(z) /\ t.cur = Quoted(z)
        BY <1>2, <2>3, <2>12
      <4>2. t.cr = z.pending_lf_quoted
        BY <2>12, <2>13
      <4>3. ~z.pending_cr
        BY <1>2, <2>4
      <4> QED
        BY <4>1, <4>2, <4>3 DEF MatchQuoted
    <3>2. z.state = "InQuoted" /\ t.from = z.record_line /\ t.num = z.num /\ t.line = z.line
      BY <1>2, <2>4, <2>12
    <3> QED
      BY <3>1, <3>2 DEF Match, MatchLoop
  <2>15. /\ z.bom_checked /\ (z.eof => source = <<>>) /\ rows = t.rows /\ t = Reference[m + 1]
         /\ UNCHANGED <<input, source, config, call, rows, failed>>
    BY <1>2, <1>7, <2>4, <2>8, <2>10, <2>12
  <2> QED
    BY <1>5, <2>8, <2>9, <2>14, <2>15, NormalLoop
<1>8. CASE /\ call' = call /\ pos + 1 # Len(rd.buf)
           /\ rd.buf[pos + 2] # "q" /\ rd' = [Push(y, Scratch(y)) EXCEPT !.start = pos + 1, !.state = "AfterQuote"]
  <2>0. a < Len(rd.buf) /\ pos + 2 = a + 1
    BY <1>1, <1>4, <1>8
  <2>1. PICK w : w = Closed(y)
    OBVIOUS
  <2>2. /\ w \in Readers /\ InBounds(w) /\ Fields(w) = Append(Fields(y), Quoted(y)) /\ RangesFit(w)
        /\ w = [y EXCEPT !.ranges = Append(y.ranges, Scratch(y)), !.state = "AfterQuote"]
    BY <1>2, <2>1, ClosedBounds DEF InBounds
  <2>3. z = [w EXCEPT !.start = a]
    BY <1>4, <1>5, <1>8, <2>1 DEF Closed, Push
  <2>4. /\ w.num = y.num /\ w.line = y.line /\ w.record_line = y.record_line /\ w.pending_cr = y.pending_cr
        /\ w.eof = y.eof /\ w.bom_checked = y.bom_checked /\ w.pending_lf_quoted = y.pending_lf_quoted
        /\ w.buf = y.buf /\ w.state = "AfterQuote"
    BY <1>2, <2>2 DEF Readers
  <2>5. /\ z.num = w.num /\ z.line = w.line /\ z.record_line = w.record_line /\ z.pending_cr = w.pending_cr
        /\ z.eof = w.eof /\ z.bom_checked = w.bom_checked /\ z.pending_lf_quoted = w.pending_lf_quoted
        /\ z.start = a /\ z.buf = w.buf /\ z.state = w.state /\ z.ranges = w.ranges /\ z.scratch = w.scratch
    BY <2>2, <2>3 DEF Readers
  <2>6. Fields(z) = Fields(w)
    BY <2>2, <2>5, SameFields
  <2>7. Unread(z, source, m)
    BY <1>2, <1>4, <2>4, <2>5
  <2>8. z.start < Len(z.buf) /\ z.buf[z.start + 1] # "q"
    BY <1>2, <1>8, <2>0, <2>4, <2>5
  <2>9. NoCr(z, v)
    BY <1>2, <2>4, <2>5 DEF NoCr
  <2>10. Match(z, v, "loop")
    BY <1>2, <2>2, <2>4, <2>5, <2>6, <2>8, <2>9 DEF Match, MatchLoop, MatchAfterQuote
  <2>11. /\ z.bom_checked /\ (z.eof => source = <<>>) /\ rows = v.rows /\ v = Reference[m]
         /\ UNCHANGED <<input, source, config, call, rows, failed>>
    BY <1>2, <1>8, <2>4, <2>5
  <2> QED
    BY <1>5, <2>7, <2>10, <2>11, NormalLoop
<1> QED
  BY <1>6, <1>7, <1>8

LEMMA NormalQuoted ==
  ASSUME CsvTypes, Normal, InQuoted
  PROVE  Normal' \/ Over'
<1>1. /\ input \in Buffers /\ source \in Buffers /\ config \in Configs /\ rd \in Readers /\ InBounds(rd)
      /\ RangesFit(rd) /\ rd.start \in Nat /\ Len(rd.buf) \in Nat /\ rd.start <= Len(rd.buf)
      /\ rd.scratch_field_start \in Nat /\ rd.buf \in Seq(Bytes)
  BY CsvFacts, ReaderType
<1>2. failed = {} /\ rd.bom_checked /\ (rd.eof => source = <<>>)
  BY NormalFacts
<1>3. PICK p \in 0..Len(Body), s \in RefStates : At(p, s)
  BY NormalFacts
<1>4. /\ call = "loop" /\ rd.start < Len(rd.buf) /\ ~TooManyColumns /\ ~rd.pending_cr /\ rd.state = "InQuoted"
      /\ UNCHANGED <<input, source, config, failed>> /\ failed' = {}
  BY <1>2 DEF InQuoted, ParsingIn, Parsing
<1>5. /\ s = Reference[p] /\ s \in RefStates /\ Unread(rd, source, p) /\ rows = s.rows
      /\ s.num = rd.num /\ s.line = rd.line /\ s.from = rd.record_line /\ MatchQuoted(rd, s)
  BY <1>3, <1>4 DEF At, Match, MatchLoop
<1>6. s.st = "quoted" /\ s.fields = Fields(rd) /\ s.cur = Quoted(rd) /\ s.cr = rd.pending_lf_quoted
  BY <1>5 DEF MatchQuoted
<1>7. ~TooWide(s)
  <2>1. Len(Fields(rd)) = Len(rd.ranges)
    BY <1>1, FieldsType
  <2> QED
    BY <1>4, <1>6, <2>1 DEF TooWide, TooManyColumns
<1>8. PICK pos : pos = Find({"q"})
  OBVIOUS
<1>9. /\ pos \in Nat /\ rd.start <= pos /\ pos <= Len(rd.buf)
      /\ \A i \in Nat : rd.start <= i /\ i < pos => rd.buf[i + 1] \notin {"q"}
      /\ pos < Len(rd.buf) => rd.buf[pos + 1] \in {"q"}
  BY <1>1, <1>8, FindProps
<1>10. PICK l \in Nat : l = s.line
  BY <1>5 DEF RefStates
<1>11. PICK n \in Nat : pos = rd.start + n
  <2>1. pos - rd.start \in Nat /\ rd.start + (pos - rd.start) = pos
    BY <1>1, <1>9, Difference
  <2> QED
    BY <2>1
<1>12. p + n \in 0..Len(Body) /\ QuotedRan(s, p + n, rd, pos, l)
  <2>1. /\ rd.start + n <= Len(rd.buf)
        /\ \A i \in Nat : rd.start <= i /\ i < rd.start + n => rd.buf[i + 1] \notin {"q"}
    BY <1>9, <1>11
  <2>2. p + n \in 0..Len(Body) /\ QuotedRan(s, p + n, rd, rd.start + n, l)
    BY <1>1, <1>4, <1>5, <1>6, <1>7, <2>1, QuotedRun
  <2> QED
    BY <1>11, <2>2
<1>13. PICK q \in 0..Len(Body) : q = p + n
  BY <1>12
<1>14. PICK x : x = QuotedTo(rd, pos)
  OBVIOUS
<1>15. \/ Reference[q] = QuotedState(s, x) /\ (rd.start < pos => ~TooLong(Quoted(x)))
       \/ Stopped(q, s, l) /\ TooLong(Quoted(x))
  BY <1>12, <1>13, <1>14 DEF QuotedRan
<1>16. Took(rd, x, Slice(rd.buf, rd.start, pos))
  BY <1>1, <1>4, <1>9, <1>14, QuotedReader
<1>17. /\ x \in Readers /\ InBounds(x) /\ Fields(x) = Fields(rd) /\ x.line \in Nat /\ x.pending_lf_quoted \in BOOLEAN
       /\ x = [rd EXCEPT !.line = x.line, !.pending_lf_quoted = x.pending_lf_quoted, !.scratch = x.scratch]
  BY <1>16 DEF Took
<1>18. /\ x.num = rd.num /\ x.record_line = rd.record_line /\ x.pending_cr = rd.pending_cr
       /\ x.eof = rd.eof /\ x.bom_checked = rd.bom_checked
       /\ x.ranges = rd.ranges /\ x.state = "InQuoted" /\ x.start = rd.start
       /\ x.buf = rd.buf /\ x.scratch_field_start = rd.scratch_field_start
  BY <1>1, <1>4, <1>17 DEF Readers
<1>19. FieldTooLong(Len(x.scratch) - rd.scratch_field_start) = TooLong(Quoted(x)) /\ Quoted(x) \in Buffers
  <2>1. Quoted(x) \in Buffers /\ Len(Quoted(x)) = Len(x.scratch) - x.scratch_field_start
    BY <1>17, <1>18, QuotedType
  <2> QED
    BY <1>18, <2>1 DEF FieldTooLong, TooLong
<1>20. PICK t : t = QuotedState(s, x)
  OBVIOUS
<1>21. /\ t \in RefStates /\ t.st = "quoted" /\ t.cur = Quoted(x) /\ t.fields = Fields(x)
       /\ t.num = s.num /\ t.from = s.from /\ t.rows = s.rows /\ t.line = x.line /\ t.cr = x.pending_lf_quoted
  <2>1. t = [s EXCEPT !.cur = Quoted(x), !.line = x.line, !.cr = x.pending_lf_quoted]
    BY <1>20 DEF QuotedState
  <2> QED
    BY <1>5, <1>6, <1>17, <1>19, <2>1 DEF RefStates
<1>22. ~TooWide(t)
  BY <1>6, <1>7, <1>17, <1>21 DEF TooWide
<1>23. ASSUME NEW w, w.start = pos, w.buf = rd.buf PROVE Unread(w, source, q)
  <2>1. w.start = rd.start + n /\ rd.start + n <= Len(rd.buf) /\ w.buf = rd.buf
    BY <1>9, <1>11, <1>23
  <2>2. Unread(w, source, p + n)
    BY <1>1, <1>5, <2>1, UnreadSkip
  <2> QED
    BY <1>13, <2>2
<1>24. PICK z : z = [x EXCEPT !.start = pos]
  OBVIOUS
<1>25. /\ z.num = rd.num /\ z.line = x.line /\ z.record_line = rd.record_line /\ z.pending_cr = rd.pending_cr
       /\ z.eof = rd.eof /\ z.bom_checked = rd.bom_checked /\ z.pending_lf_quoted = x.pending_lf_quoted
       /\ z.ranges = x.ranges /\ z.state = "InQuoted" /\ z.start = pos /\ z.scratch = x.scratch
       /\ z.buf = rd.buf /\ z.scratch_field_start = x.scratch_field_start /\ z \in Readers
  BY <1>9, <1>17, <1>18, <1>24 DEF Readers
<1>26. ASSUME pos < Len(rd.buf), Reference[q] = t
       PROVE  /\ q + 1 \in 0..Len(Body) /\ Reference[q + 1] = QuotedByte(t, "q") /\ "q" \in Bytes
              /\ Reference[q + 1] \in RefStates
              /\ \A v : v.start = pos + 1 /\ v.buf = rd.buf => Unread(v, source, q + 1)
  <2>1. Unread(z, source, q) /\ z.start < Len(z.buf) /\ z.buf[z.start + 1] = "q"
    BY <1>9, <1>23, <1>25, <1>26
  <2>2. /\ q + 1 \in 0..Len(Body) /\ Reference[q + 1] = Take(t, "q") /\ "q" \in Bytes /\ Reference[q + 1] \in RefStates
        /\ \A v : v.start = pos + 1 /\ v.buf = rd.buf => Unread(v, source, q + 1)
    BY <1>1, <1>25, <1>26, <2>1, UnreadByte
  <2> QED
    BY <1>21, <1>22, <2>2 DEF Take
<1>27. CASE TooLong(Quoted(x))
  <2>1. Refuse(x, "field") \/ Refuse(rd, "field")
    BY <1>8, <1>14, <1>19, <1>27 DEF InQuoted, QuotedTo
  <2>2. "field" \in Errors
    BY DEF Errors
  <2>3. ASSUME NEW m \in 0..Len(Body), Stopped(m, s, l) PROVE Over'
    <3>1. Reference[m].st = "stop" /\ Reference[m].rows = EndOf(s, Fields(rd), "field", l).rows
      BY <1>6, <2>3 DEF Stopped
    <3>2. CASE Refuse(rd, "field")
      BY <1>1, <1>2, <1>4, <1>5, <2>2, <3>1, <3>2, RefusedIsOver
    <3>3. CASE Refuse(x, "field")
      <4>1. s.num = x.num /\ s.from = x.record_line /\ s.rows = rows /\ x.bom_checked
        BY <1>2, <1>5, <1>18
      <4>2. Reference[m].rows = EndOf(s, Fields(x), "field", l).rows
        BY <1>17, <3>1
      <4> QED
        BY <1>4, <1>5, <1>17, <2>2, <3>1, <3>3, <4>1, <4>2, RefusedIsOver
    <3> QED
      BY <2>1, <3>2, <3>3
  <2>4. CASE Stopped(q, s, l)
    BY <2>3, <2>4
  <2>5. CASE Reference[q] = QuotedState(s, x) /\ (rd.start < pos => ~TooLong(Quoted(x)))
    <3>1. pos < Len(rd.buf)
      BY <1>1, <1>4, <1>9, <1>27, <2>5
    <3>2. q + 1 \in 0..Len(Body) /\ Reference[q + 1] = QuotedByte(t, "q")
      BY <1>20, <1>26, <2>5, <3>1
    <3>3. QuotedByte(t, "q") = Stop(t, "field")
      BY <1>21, <1>27, <3>1 DEF QuotedByte
    <3>4. Stop(t, "field").st = "stop" /\ Stop(t, "field").rows = EndOf(t, t.fields, "field", l).rows
      BY <1>21, <2>2, StopIs
    <3>5. EndOf(t, t.fields, "field", l).rows = EndOf(s, s.fields, "field", l).rows
      <4>1. t.fields = s.fields
        BY <1>6, <1>17, <1>21
      <4> QED
        BY <1>5, <1>21, <4>1, SameEnd
    <3>6. Stopped(q + 1, s, l)
      BY <3>2, <3>3, <3>4, <3>5 DEF Stopped
    <3> QED
      BY <2>3, <3>2, <3>6
  <2> QED
    BY <1>15, <2>4, <2>5
<1>28. CASE ~TooLong(Quoted(x)) /\ pos = Len(rd.buf)
  <2>1. z = rd' /\ UNCHANGED <<call, rows>>
    BY <1>8, <1>14, <1>19, <1>24, <1>28 DEF InQuoted, QuotedTo
  <2>2. Reference[q] = t
    BY <1>15, <1>20, <1>28
  <2>3. Fields(z) = Fields(x) /\ Quoted(z) = Quoted(x)
    <3>1. RangesFit(x) /\ z.buf = x.buf
      BY <1>17, <1>18, <1>25 DEF InBounds
    <3>2. Fields(z) = Fields(x)
      BY <1>17, <1>25, <3>1, SameFields
    <3> QED
      BY <1>25, <3>2 DEF Quoted
  <2>4. Unread(z, source, q)
    BY <1>23, <1>25
  <2>5. Match(z, t, "loop")
    BY <1>4, <1>5, <1>21, <1>25, <2>3 DEF Match, MatchLoop, MatchQuoted
  <2>6. z.bom_checked /\ (z.eof => source = <<>>) /\ rows = t.rows
    BY <1>2, <1>5, <1>21, <1>25
  <2> QED
    BY <1>2, <1>4, <2>1, <2>2, <2>4, <2>5, <2>6, NormalLoop
<1>29. CASE ~TooLong(Quoted(x)) /\ pos # Len(rd.buf)
  <2>1. PICK y, v : y = [x EXCEPT !.pending_lf_quoted = FALSE] /\ v = [t EXCEPT !.st = "quote", !.cr = FALSE]
    OBVIOUS
  <2>2. pos < Len(rd.buf) /\ Reference[q] = t /\ pos + 1 \in Nat /\ pos + 1 <= Len(rd.buf)
    BY <1>1, <1>9, <1>15, <1>20, <1>29
  <2>3. /\ q + 1 \in 0..Len(Body) /\ Reference[q + 1] = QuotedByte(t, "q") /\ "q" \in Bytes
        /\ Reference[q + 1] \in RefStates
        /\ \A w : w.start = pos + 1 /\ w.buf = rd.buf => Unread(w, source, q + 1)
    BY <1>26, <2>2
  <2>4. Reference[q + 1] = v
    BY <1>21, <1>29, <2>1, <2>3 DEF QuotedByte
  <2>5. y \in Readers /\ InBounds(y) /\ Fields(y) = Fields(rd)
    BY <1>1, <1>4, <1>9, <1>14, <2>1, <2>2, QuotedEnd
  <2>6. /\ y.num = x.num /\ y.record_line = x.record_line /\ y.pending_cr = x.pending_cr /\ ~y.pending_lf_quoted
        /\ y.eof = x.eof /\ y.bom_checked = x.bom_checked /\ y.start = x.start /\ y.buf = x.buf
        /\ y.state = x.state /\ y.line = x.line /\ y.scratch = x.scratch /\ y.scratch_field_start = x.scratch_field_start
    BY <1>17, <2>1 DEF Readers
  <2>7. /\ v.st = "quote" /\ v.cur = t.cur /\ v.fields = t.fields /\ v.line = t.line /\ v.cr = FALSE
        /\ v.num = t.num /\ v.from = t.from /\ v.rows = t.rows
    BY <1>21, <2>1 DEF RefStates
  <2>8. Quoted(y) = Quoted(x)
    BY <2>6 DEF Quoted
  <2>9. AtQuote(y, v, s)
    BY <1>17, <1>18, <1>21, <2>3, <2>4, <2>5, <2>6, <2>7, <2>8 DEF AtQuote
  <2>10. pos # Len(rd.buf) /\ UNCHANGED rows /\ rows' = rows
    BY <1>8, <1>14, <1>19, <1>29 DEF InQuoted, QuotedTo
  <2>11. \/ pos + 1 = Len(rd.buf) /\ rd' = [y EXCEPT !.start = pos + 1] /\ call' = "quote"
         \/ /\ call' = call /\ pos + 1 # Len(rd.buf)
            /\ \/ rd.buf[pos + 2] = "q" /\ rd' = [y EXCEPT !.scratch = Append(@, "q"), !.start = pos + 2]
               \/ rd.buf[pos + 2] # "q" /\ rd' = [Push(y, Scratch(y)) EXCEPT !.start = pos + 1, !.state = "AfterQuote"]
    BY <1>8, <1>14, <1>19, <1>29, <2>1 DEF InQuoted, QuotedTo
  <2> QED
    <3>1. PICK m \in 0..Len(Body) : m = q + 1
      BY <2>3
    <3>2. Reference[m] = v /\ \A w : w.start = pos + 1 /\ w.buf = rd.buf => Unread(w, source, m)
      BY <2>3, <2>4, <3>1
    <3>3. /\ UNCHANGED <<input, source, config, failed>> /\ failed = {} /\ rd.bom_checked /\ (rd.eof => source = <<>>)
          /\ call = "loop" /\ ~rd.pending_cr /\ rows' = rows
          /\ s \in RefStates /\ s.num = rd.num /\ s.from = rd.record_line /\ rows = s.rows
          /\ pos \in Nat /\ rd.start <= pos /\ pos + 1 <= Len(rd.buf) /\ "q" \in Bytes
      BY <1>2, <1>4, <1>5, <1>9, <2>2, <2>3, <2>10, SMTT(40)
    <3>4. Normal'
      BY <2>9, <2>11, <3>2, <3>3, BehindQuote
    <3> QED
      BY <3>4
<1> QED
  BY <1>27, <1>28, <1>29

\* The reader that has closed its quoted field.
ClosedTo(x, z) ==
  /\ z \in Readers /\ Fields(z) = Append(Fields(x), Quoted(x)) /\ InBounds(z)
  /\ z.num = x.num /\ z.line = x.line /\ z.record_line = x.record_line /\ z.pending_cr = x.pending_cr
  /\ z.eof = x.eof /\ z.bom_checked = x.bom_checked /\ z.pending_lf_quoted = x.pending_lf_quoted
  /\ z.start = x.start /\ z.buf = x.buf /\ z.state = "AfterQuote"

LEMMA ClosedReader ==
  ASSUME NEW x \in Readers, InBounds(x), x.state = "InQuoted", NEW z, z = Closed(x)
  PROVE  ClosedTo(x, z)
<1>1. /\ z \in Readers /\ InBounds(z) /\ Fields(z) = Append(Fields(x), Quoted(x))
      /\ z = [x EXCEPT !.ranges = Append(x.ranges, Scratch(x)), !.state = "AfterQuote"]
  BY ClosedBounds
<1>2. /\ z.num = x.num /\ z.line = x.line /\ z.record_line = x.record_line /\ z.pending_cr = x.pending_cr
      /\ z.eof = x.eof /\ z.bom_checked = x.bom_checked /\ z.pending_lf_quoted = x.pending_lf_quoted
      /\ z.start = x.start /\ z.buf = x.buf /\ z.state = "AfterQuote"
  BY <1>1 DEF Readers
<1> QED
  BY <1>1, <1>2 DEF ClosedTo

LEMMA NormalQuote ==
  ASSUME CsvTypes, Normal, QuoteMore \/ QuoteEof \/ QuoteFails
  PROVE  Normal' \/ Broken'
<1>0. call = "quote"
  BY DEF QuoteMore, QuoteEof, QuoteFails
<1>1. /\ input \in Buffers /\ source \in Buffers /\ config \in Configs /\ rd \in Readers /\ InBounds(rd)
      /\ rd.start \in Nat /\ Len(rd.buf) \in Nat /\ rd.start = Len(rd.buf) /\ rd.start <= Len(rd.buf)
      /\ rd.state = "InQuoted"
  BY <1>0, CsvFacts DEF StateOf
<1>2. failed = {} /\ rd.bom_checked /\ (rd.eof => source = <<>>)
  BY NormalFacts
<1>3. PICK p \in 0..Len(Body), s \in RefStates : At(p, s)
  BY NormalFacts
<1>4. /\ s = Reference[p] /\ s \in RefStates /\ Unread(rd, source, p) /\ rows = s.rows
      /\ s.num = rd.num /\ s.line = rd.line /\ s.from = rd.record_line
      /\ s.st = "quote" /\ s.fields = Fields(rd) /\ s.cur = Quoted(rd) /\ ~s.cr /\ ~rd.pending_cr /\ ~rd.pending_lf_quoted
  BY <1>0, <1>3 DEF At, Match, MatchQuote, NoCr
<1>5. CASE QuoteMore
  <2>1. PICK n \in 1..Len(source) :
          /\ rd' = IF [rd EXCEPT !.buf = @ \o SubSeq(source, 1, n)].buf[rd.start + 1] = "q"
                   THEN [[rd EXCEPT !.buf = @ \o SubSeq(source, 1, n)] EXCEPT !.scratch = Append(@, "q"), !.start = @ + 1]
                   ELSE Closed([rd EXCEPT !.buf = @ \o SubSeq(source, 1, n)])
          /\ source' = SubSeq(source, n + 1, Len(source))
    <3>1. ASSUME NEW n \in 1..Len(source) PROVE [rd EXCEPT !.buf = @ \o SubSeq(source, 1, n)].start = rd.start
      BY <1>1 DEF Readers
    <3> QED
      BY <1>5, <3>1 DEF QuoteMore
  <2>2. PICK x : x = [rd EXCEPT !.buf = @ \o SubSeq(source, 1, n)]
    OBVIOUS
  <2>3. /\ x \in Readers /\ InBounds(x) /\ Len(x.buf) = Len(rd.buf) + n /\ Fields(x) = Fields(rd)
        /\ Quoted(x) = Quoted(rd)
    <3>1. Grew(rd, x, n)
      BY <1>1, <2>2, ReaderMore
    <3> QED
      BY <3>1 DEF Grew
  <2>4. /\ x.num = rd.num /\ x.line = rd.line /\ x.record_line = rd.record_line /\ x.pending_cr = rd.pending_cr
        /\ x.eof = rd.eof /\ x.bom_checked = rd.bom_checked /\ x.pending_lf_quoted = rd.pending_lf_quoted
        /\ x.start = rd.start /\ x.state = "InQuoted" /\ x.buf = rd.buf \o SubSeq(source, 1, n)
    BY <1>1, <2>2 DEF Readers
  <2>5. PICK a \in Nat : a = x.start + 1 /\ a <= Len(x.buf) /\ a \in 1..Len(x.buf) /\ x.start < Len(x.buf)
    BY <1>1, <2>3, <2>4
  <2>6. PICK z, src : z = rd' /\ src = source' /\ src = SubSeq(source, n + 1, Len(source))
    BY <2>1
  <2>7. src \in Buffers
    BY <1>1, <2>6, Chunk DEF Buffers
  <2>8. Unread(x, src, p)
    BY <1>1, <1>4, <2>4, <2>6, UnreadMore
  <2>9. UNCHANGED <<input, config, rows, failed>> /\ call' = "loop" /\ ~rd.eof
    BY <1>5 DEF QuoteMore
  <2>10. CASE x.buf[a] = "q"
    <3>1. z = [x EXCEPT !.scratch = Append(x.scratch, "q"), !.start = a]
      BY <2>1, <2>2, <2>4, <2>5, <2>6, <2>10
    <3>2. /\ p + 1 \in 0..Len(Body) /\ Reference[p + 1] = Take(Reference[p], x.buf[x.start + 1]) /\ x.buf[x.start + 1] \in Bytes
          /\ \A u : u.start = x.start + 1 /\ u.buf = x.buf => Unread(u, src, p + 1)
      BY <1>1, <2>3, <2>5, <2>7, <2>8, UnreadByte
    <3>3. "q" \in Bytes
      BY <2>5, <2>10, <3>2
    <3>4. Scratched(x, z)
      BY <2>3, <2>4, <2>5, <3>1, <3>3, ScratchQuote
    <3>5. Fields(z) = Fields(rd) /\ Quoted(z) = Append(Quoted(rd), "q")
      BY <2>3, <3>4 DEF Scratched
    <3>6. /\ z.num = x.num /\ z.line = x.line /\ z.record_line = x.record_line /\ z.pending_cr = x.pending_cr
          /\ z.eof = x.eof /\ z.bom_checked = x.bom_checked /\ z.pending_lf_quoted = x.pending_lf_quoted
          /\ z.start = a /\ z.buf = x.buf /\ z.state = x.state
      BY <2>3, <3>1 DEF Readers
    <3>7. Unread(z, src, p + 1)
      BY <2>5, <3>2, <3>6
    <3>8. PICK t : t = Take(s, "q")
      OBVIOUS
    <3>9. t = [s EXCEPT !.st = "quoted", !.cur = Append(@, "q")] /\ t = Reference[p + 1]
      <4>1. t = [s EXCEPT !.st = "quoted", !.cur = Append(@, "q")]
        BY <1>4, <3>8 DEF Take, QuoteByte
      <4> QED
        BY <1>4, <2>5, <2>10, <3>2, <3>8, <4>1
    <3>10. /\ t.st = "quoted" /\ t.cur = Append(s.cur, "q") /\ t.fields = s.fields /\ t.line = s.line /\ ~t.cr
           /\ t.num = s.num /\ t.from = s.from /\ t.rows = s.rows /\ t.cr \in BOOLEAN
      BY <1>4, <3>9 DEF RefStates
    <3>11. MatchQuoted(z, t)
      <4>1. t.st = "quoted" /\ t.fields = Fields(z) /\ t.cur = Quoted(z)
        BY <1>4, <3>5, <3>10
      <4>2. t.cr = z.pending_lf_quoted
        <5>1. z.pending_lf_quoted \in BOOLEAN /\ ~z.pending_lf_quoted
          BY <1>1, <1>4, <2>4, <3>6, ReaderType
        <5> QED
          BY <3>10, <5>1
      <4>3. ~z.pending_cr
        BY <1>4, <2>4, <3>6
      <4> QED
        BY <4>1, <4>2, <4>3 DEF MatchQuoted
    <3>12. z.state = "InQuoted" /\ t.from = z.record_line /\ t.num = z.num /\ t.line = z.line
      BY <1>4, <2>4, <3>6, <3>10
    <3>13. Match(z, t, "loop")
      BY <3>11, <3>12 DEF Match, MatchLoop
    <3>14. /\ z.bom_checked /\ (z.eof => src = <<>>) /\ rows' = Reference[p + 1].rows /\ Match(z, Reference[p + 1], "loop")
           /\ "loop" \in {"idle", "loop", "quote", "skip"} /\ failed' = {} /\ rd' = z /\ source' = src
      BY <1>2, <1>4, <2>4, <2>6, <2>9, <3>6, <3>9, <3>10, <3>13
    <3> QED
      BY <2>9, <3>2, <3>7, <3>14, NormalIntro
  <2>11. CASE x.buf[a] # "q"
    <3>1. z = Closed(x)
      BY <2>1, <2>2, <2>4, <2>5, <2>6, <2>11
    <3>2. ClosedTo(x, z)
      BY <2>3, <2>4, <3>1, ClosedReader
    <3>3. /\ Fields(z) = Append(Fields(x), Quoted(x))
          /\ z.num = x.num /\ z.line = x.line /\ z.record_line = x.record_line /\ z.pending_cr = x.pending_cr
          /\ z.eof = x.eof /\ z.bom_checked = x.bom_checked /\ z.pending_lf_quoted = x.pending_lf_quoted
          /\ z.start = x.start /\ z.buf = x.buf /\ z.state = "AfterQuote"
      BY <3>2 DEF ClosedTo
    <3>4. Unread(z, src, p)
      BY <2>8, <3>3 DEF Unread
    <3>5. MatchAfterQuote(z, s)
      <4>1. Append(s.fields, s.cur) = Fields(z) /\ NoCr(z, s)
        BY <1>4, <2>3, <2>4, <3>3 DEF NoCr
      <4>2. z.start < Len(z.buf) /\ z.buf[z.start + 1] # "q"
        BY <2>5, <2>11, <3>3
      <4> QED
        BY <1>4, <4>1, <4>2 DEF MatchAfterQuote
    <3>6. s.num = z.num /\ s.line = z.line /\ s.from = z.record_line
      BY <1>4, <2>4, <3>3
    <3>7. Match(z, s, "loop")
      BY <3>3, <3>5, <3>6 DEF Match, MatchLoop
    <3>8. /\ z.bom_checked /\ (z.eof => src = <<>>) /\ rows' = Reference[p].rows /\ Match(z, Reference[p], "loop")
          /\ "loop" \in {"idle", "loop", "quote", "skip"} /\ failed' = {} /\ rd' = z /\ source' = src
      BY <1>2, <1>4, <2>4, <2>6, <2>9, <3>3, <3>7
    <3> QED
      BY <2>9, <3>4, <3>8, NormalIntro
  <2> QED
    BY <2>10, <2>11, SMTT(40)
<1>6. CASE QuoteEof
  <2>1. PICK x : x = [rd EXCEPT !.eof = TRUE]
    OBVIOUS
  <2>2. x \in Readers /\ InBounds(x) /\ Fields(x) = Fields(rd) /\ Unquoted(x) = Unquoted(rd) /\ Quoted(x) = Quoted(rd)
    BY <1>1, <2>1, EofBounds
  <2>3. /\ x.num = rd.num /\ x.line = rd.line /\ x.record_line = rd.record_line /\ x.pending_cr = rd.pending_cr
        /\ x.eof /\ x.bom_checked = rd.bom_checked /\ x.pending_lf_quoted = rd.pending_lf_quoted
        /\ x.start = rd.start /\ x.state = "InQuoted" /\ x.buf = rd.buf
    BY <1>1, <2>1 DEF Readers
  <2>4. rd' = Closed(x) /\ call' = "loop" /\ AtEof /\ UNCHANGED <<input, source, config, rows, failed>>
    BY <1>6, <2>1 DEF QuoteEof
  <2>5. PICK z : z = rd'
    OBVIOUS
  <2>6. ClosedTo(x, z)
    BY <2>2, <2>3, <2>4, <2>5, ClosedReader
  <2>7. /\ Fields(z) = Append(Fields(x), Quoted(x))
        /\ z.num = x.num /\ z.line = x.line /\ z.record_line = x.record_line /\ z.pending_cr = x.pending_cr
        /\ z.eof = x.eof /\ z.bom_checked = x.bom_checked /\ z.pending_lf_quoted = x.pending_lf_quoted
        /\ z.start = x.start /\ z.buf = x.buf /\ z.state = "AfterQuote"
    BY <2>6 DEF ClosedTo
  <2>8. Unread(z, source, p)
    BY <1>4, <2>3, <2>7 DEF Unread
  <2>9. MatchAfterQuote(z, s)
    <3>1. Append(s.fields, s.cur) = Fields(z) /\ NoCr(z, s)
      BY <1>4, <2>2, <2>3, <2>7 DEF NoCr
    <3>2. z.eof /\ ~(z.start < Len(z.buf))
      BY <1>1, <2>3, <2>7
    <3> QED
      BY <1>4, <3>1, <3>2 DEF MatchAfterQuote
  <2>10. s.num = z.num /\ s.line = z.line /\ s.from = z.record_line
    BY <1>4, <2>3, <2>7
  <2>11. Match(z, s, "loop")
    BY <2>7, <2>9, <2>10 DEF Match, MatchLoop
  <2>12. /\ z.bom_checked /\ (z.eof => source = <<>>) /\ rows' = Reference[p].rows /\ Match(z, Reference[p], "loop")
         /\ "loop" \in {"idle", "loop", "quote", "skip"} /\ failed' = {} /\ rd' = z /\ source' = source
    BY <1>2, <1>4, <2>3, <2>4, <2>5, <2>7, <2>11 DEF AtEof
  <2> QED
    BY <2>4, <2>8, <2>12, NormalIntro
<1>7. CASE QuoteFails
  <2>1. PICK x : x = Closed(rd)
    OBVIOUS
  <2>2. x \in Readers /\ InBounds(x) /\ x.bom_checked = rd.bom_checked
    <3>1. ClosedTo(rd, x)
      BY <1>1, <2>1, ClosedReader
    <3> QED
      BY <3>1 DEF ClosedTo
  <2>3. PICK e \in BOOLEAN : Return([x EXCEPT !.eof = e], "io")
    BY <1>7, <2>1 DEF QuoteFails
  <2>4. PICK y : y = [x EXCEPT !.eof = e]
    OBVIOUS
  <2>5. y \in Readers /\ InBounds(y)
    BY <2>2, <2>4, EofBounds
  <2>6. y.bom_checked /\ Return(y, "io")
    BY <1>2, <2>2, <2>3, <2>4 DEF Readers
  <2>7. "io" \in Errors /\ "io" # "none" /\ UNCHANGED <<input, source, config>> /\ failed' = failed \cup {"quote"}
    BY <1>7 DEF Errors, QuoteFails, ReadFails
  <2>8. "quote" \in {"bom", "quote"} /\ rows = Reference[p].rows
    BY <1>4
  <2> QED
    BY <2>5, <2>6, <2>7, <2>8, FailedIsBroken
<1> QED
  BY <1>5, <1>6, <1>7, SMTT(40)

LEMMA NormalAfter ==
  ASSUME CsvTypes, Normal, AfterQuote
  PROVE  Normal'
<1>1. /\ input \in Buffers /\ source \in Buffers /\ config \in Configs /\ rd \in Readers /\ InBounds(rd)
      /\ RangesFit(rd) /\ rd.start \in Nat /\ Len(rd.buf) \in Nat
  BY CsvFacts
<1>2. failed = {} /\ rd.bom_checked /\ (rd.eof => source = <<>>)
  BY NormalFacts
<1>3. PICK p \in 0..Len(Body), s \in RefStates : At(p, s)
  BY NormalFacts
<1>4. /\ call = "loop" /\ rd.start < Len(rd.buf) /\ ~TooManyColumns /\ ~rd.pending_cr /\ rd.state = "AfterQuote"
      /\ UNCHANGED <<input, source, config, failed>> /\ failed' = {}
  BY <1>2 DEF AfterQuote, ParsingIn, Parsing
<1>5. /\ s = Reference[p] /\ s \in RefStates /\ Unread(rd, source, p) /\ rows = s.rows
      /\ s.num = rd.num /\ s.line = rd.line /\ s.from = rd.record_line /\ MatchAfterQuote(rd, s)
  BY <1>3, <1>4 DEF At, Match, MatchLoop
<1>6. PICK c : c = rd.buf[rd.start + 1]
  OBVIOUS
<1>7. s.st = "quote" /\ Append(s.fields, s.cur) = Fields(rd) /\ NoCr(rd, s) /\ c # "q"
  BY <1>4, <1>5, <1>6 DEF MatchAfterQuote
<1>8. /\ p + 1 \in 0..Len(Body) /\ Reference[p + 1] = Take(s, c) /\ c \in Bytes
      /\ \A w : w.start = rd.start + 1 /\ w.buf = rd.buf => Unread(w, source, p + 1)
  BY <1>1, <1>4, <1>5, <1>6, UnreadByte
<1>9. PICK t : t = [s EXCEPT !.fields = Append(@, s.cur), !.cur = <<>>]
  OBVIOUS
<1>10. Len(Fields(rd)) = Len(rd.ranges) /\ Fields(rd) \in FieldLists
  BY <1>1, FieldsType
<1>11. /\ t \in RefStates /\ t.fields = Fields(rd) /\ t.cur = <<>> /\ t.num = rd.num /\ t.from = rd.record_line
       /\ t.rows = rows /\ t.line = rd.line /\ ~t.cr
  <2>1. <<>> \in Buffers /\ t = [s EXCEPT !.fields = Fields(rd), !.cur = <<>>]
    BY <1>7, <1>9 DEF Buffers
  <2>2. ~s.cr
    BY <1>7 DEF NoCr
  <2> QED
    BY <1>5, <1>10, <2>1, <2>2 DEF RefStates
<1>12. ~TooWide(t)
  BY <1>4, <1>10, <1>11 DEF TooWide, TooManyColumns
<1>13. Reference[p + 1] = AfterByte(t, c)
  BY <1>7, <1>8, <1>9 DEF Take, QuoteByte
<1>14. Byte = c /\ c \in {"d", "r", "n", "b"}
  BY <1>6, <1>7, <1>8, CsvAssumption DEF Byte
<1>15. CASE c = "d"
  <2>1. PICK a \in Nat : a = rd.start + 1
    BY <1>1
  <2>2. PICK y : y = rd'
    OBVIOUS
  <2>3. y = [rd EXCEPT !.start = a, !.state = "StartOfField"] /\ UNCHANGED <<call, rows>>
    BY <1>14, <1>15, <2>1, <2>2 DEF AfterQuote, Newline
  <2>4. /\ y.num = rd.num /\ y.line = rd.line /\ y.record_line = rd.record_line /\ y.pending_cr = rd.pending_cr
        /\ y.eof = rd.eof /\ y.bom_checked = rd.bom_checked /\ y.pending_lf_quoted = rd.pending_lf_quoted
        /\ y.ranges = rd.ranges /\ y.state = "StartOfField" /\ y.start = rd.start + 1 /\ y.scratch = rd.scratch
        /\ y.buf = rd.buf
    BY <1>1, <2>1, <2>3 DEF Readers
  <2>5. Fields(y) = Fields(rd)
    BY <1>1, <2>4, SameFields
  <2>6. Unread(y, source, p + 1)
    BY <1>8, <2>4
  <2>7. PICK v : v = AfterByte(t, c)
    OBVIOUS
  <2>8. v = [t EXCEPT !.st = "start"]
    BY <1>12, <1>15, <2>7 DEF AfterByte, Newline
  <2>9. /\ v.st = "start" /\ v.fields = t.fields /\ v.cur = t.cur /\ v.num = t.num /\ v.from = t.from
        /\ v.rows = t.rows /\ v.line = t.line /\ v.cr = t.cr
    BY <1>11, <2>8 DEF RefStates
  <2>10. Match(y, v, "loop")
    BY <1>4, <1>7, <1>11, <2>4, <2>5, <2>9 DEF Match, MatchLoop, MatchStart, NoCr, SameCr
  <2>11. y.bom_checked /\ (y.eof => source = <<>>) /\ rows = v.rows /\ v = Reference[p + 1]
    BY <1>2, <1>11, <1>13, <2>4, <2>7, <2>9
  <2> QED
    BY <1>2, <1>4, <1>8, <2>2, <2>3, <2>6, <2>10, <2>11, NormalLoop
<1>16. CASE c \in Newline
  <2>1. Return(ConsumeNewline(rd), "none")
    BY <1>14, <1>16 DEF AfterQuote, Newline
  <2>2. AfterByte(t, c) = EndLine(t, t.fields, "none", c)
    BY <1>12, <1>16 DEF AfterByte, Newline
  <2>3. "none" \in Errors
    BY DEF Errors
  <2>4. /\ rd.state # "InQuoted" /\ rd.state # "InUnquoted"
        /\ Reference[p + 1] = EndLine(t, Fields(rd), "none", rd.buf[rd.start + 1]) /\ rd.buf[rd.start + 1] \in Newline
    BY <1>4, <1>6, <1>11, <1>13, <1>16, <2>2
  <2> QED
    BY <1>1, <1>2, <1>4, <1>5, <1>11, <2>1, <2>3, <2>4, ReturnAtLineEnd
<1>17. CASE c = "b"
  <2>1. call' = "skip" /\ UNCHANGED <<rd, rows>>
    BY <1>14, <1>17 DEF AfterQuote, Newline
  <2>2. MatchSkip(rd, s)
    BY <1>4, <1>5, <1>6, <1>7, <1>17 DEF MatchSkip, TooManyColumns
  <2>3. Match(rd, Reference[p], "skip")
    BY <1>5, <2>2 DEF Match
  <2>4. PICK y : y = rd /\ rd' = y
    BY <2>1
  <2>5. /\ y.bom_checked /\ (y.eof => source = <<>>) /\ Unread(y, source, p) /\ Match(y, Reference[p], "skip")
        /\ rows' = Reference[p].rows /\ "skip" \in {"idle", "loop", "quote", "skip"} /\ source' = source
    BY <1>2, <1>4, <1>5, <2>1, <2>3, <2>4
  <2> QED
    BY <1>4, <2>1, <2>4, <2>5, NormalIntro
<1> QED
  BY <1>14, <1>15, <1>16, <1>17 DEF Newline

LEMMA InRange ==
  ASSUME NEW j \in Nat, NEW n \in Nat, j + 1 <= n
  PROVE  j + 1 \in 1..n
  OBVIOUS

\* The rest of a malformed record changes nothing.
NoLineEnd(x, n) == \A i \in Nat : x.start <= i /\ i < x.start + n => x.buf[i + 1] \notin Newline

LEMMA SkipRun ==
  ASSUME input \in Buffers, NEW src \in Buffers, NEW x \in Readers, x.start <= Len(x.buf),
         NEW p \in 0..Len(Body), NEW t, t = Reference[p], Unread(x, src, p), t.st = "skip",
         NEW n \in Nat, x.start + n <= Len(x.buf),
         NoLineEnd(x, n)
  PROVE  p + n \in 0..Len(Body) /\ Reference[p + n] = t
<1>1. /\ x.start \in Nat /\ Len(x.buf) \in Nat /\ p \in Nat /\ Len(Body) \in Nat
  <2>1. Body \in Seq(Bytes)
    BY BodyType DEF Buffers
  <2> QED
    BY <2>1, ReaderType
<1>2. PICK a \in Nat : a = x.start
  BY <1>1
<1>3. PICK y : y = [x EXCEPT !.start = a + n]
  OBVIOUS
<1>4. y.start = x.start + n /\ y.buf = x.buf
  BY <1>2, <1>3 DEF Readers
<1>5. p + n \in 0..Len(Body) /\ \A i \in 1..n : Body[p + i] = x.buf[x.start + i]
  <2>1. x.start + n <= Len(x.buf) /\ x.start <= Len(x.buf) /\ Unread(x, src, p)
    OBVIOUS
  <2>2. /\ p + n \in 0..Len(Body) /\ Unread(y, src, p + n)
        /\ \A i \in 1..n : Body[p + i] = x.buf[x.start + i]
    BY <1>4, <2>1, UnreadSkip, SMTT(60)
  <2> QED
    BY <2>2, Zenon
<1> DEFINE S == {j \in Nat : j <= n => Reference[p + j] = t}
<1>6. 0 \in S
  <2>1. p + 0 = p
    BY <1>1
  <2> QED
    BY <2>1
<1>7. ASSUME NEW j \in S PROVE j + 1 \in S
  <2>1. j \in Nat /\ (j <= n => Reference[p + j] = t)
    OBVIOUS
  <2>2. ASSUME j + 1 <= n PROVE Reference[p + (j + 1)] = t
    <3>0. PICK b \in Nat : b = Len(Body)
      BY <1>1
    <3>1. PICK m \in Nat, q \in Nat : m = a + j /\ m + 1 = a + (j + 1) /\ q = p + j /\ q + 1 = p + (j + 1)
      <4>1. /\ a + j \in Nat /\ (a + j) + 1 = a + (j + 1)
            /\ p + j \in Nat /\ (p + j) + 1 = p + (j + 1)
        BY <1>1, <2>1, Further
      <4> QED
        BY <4>1
    <3>2. q \in 0..Len(Body) /\ q < Len(Body)
      <4>1. p + n <= b
        BY <1>5, <3>0
      <4>2. q <= b /\ q < b
        BY <1>1, <2>1, <2>2, <3>0, <3>1, <4>1
      <4> QED
        BY <3>0, <3>1, <4>2
    <3>3. x.start <= m /\ m < x.start + n
      <4>1. a <= m /\ m < a + n
        BY <1>1, <2>1, <2>2, <3>1
      <4> QED
        BY <1>2, <4>1
    <3>4. x.buf[m + 1] \notin Newline
      BY <3>3 DEF NoLineEnd
    <3>5. Body[q + 1] = x.buf[m + 1]
      <4>2. j + 1 \in 1..n
        BY <2>1, <2>2, InRange
      <4>1. j + 1 \in 1..n /\ x.start + (j + 1) = m + 1
        BY <1>2, <3>1, <4>2
      <4> QED
        BY <1>5, <3>1, <4>1
    <3>6. Reference[q] = t
      BY <2>1, <2>2, <3>1
    <3>7. Reference[q + 1] = Take(t, x.buf[m + 1])
      BY <3>2, <3>5, <3>6, ReferenceStep
    <3>8. Reference[q + 1] = t
      BY <3>4, <3>7 DEF Take, SkipByte
    <3> QED
      BY <3>1, <3>8
  <2> QED
    BY <2>1, <2>2
<1>8. S = Nat
  <2> HIDE DEF S
  <2>1. S \in SUBSET Nat
    BY DEF S
  <2> QED
    BY <1>6, <1>7, <2>1, Induction
<1>9. n <= n => Reference[p + n] = t
  <2>1. n \in S
    <3> HIDE DEF S
    <3> QED
      BY <1>8
  <2> QED
    BY <2>1
<1> QED
  BY <1>5, <1>9

\* On to the line end, from a byte where the record is known to be malformed.
LEMMA SkipFrom ==
  ASSUME CsvTypes, Skip, failed = {}, rd.bom_checked, rd.eof => source = <<>>, ~rd.pending_cr,
         NEW a \in Nat, rd.start <= a, a <= Find(Newline),
         NEW x \in Readers, x.start = a, x.buf = rd.buf, NEW p \in 0..Len(Body), Unread(x, source, p),
         NEW t \in RefStates, t = Reference[p], t.st = "skip", t.fields = Fields(rd), t.num = rd.num,
         t.from = rd.record_line, t.rows = rows, t.line = rd.line
  PROVE  Normal'
<1>1. /\ input \in Buffers /\ source \in Buffers /\ config \in Configs /\ rd \in Readers /\ InBounds(rd)
      /\ RangesFit(rd) /\ rd.start \in Nat /\ Len(rd.buf) \in Nat /\ rd.start <= Len(rd.buf)
  BY CsvFacts
<1>2. call = "skip" /\ rd.start < Len(rd.buf) /\ UNCHANGED <<input, source, config, failed>> /\ failed' = {}
  BY DEF Skip
<1>3. rd.state = "AfterQuote"
  BY <1>2, CsvFacts DEF StateOf
<1>4. PICK pos : pos = Find(Newline)
  OBVIOUS
<1>5. /\ pos \in Nat /\ rd.start <= pos /\ pos <= Len(rd.buf)
      /\ \A i \in Nat : rd.start <= i /\ i < pos => rd.buf[i + 1] \notin Newline
      /\ pos < Len(rd.buf) => rd.buf[pos + 1] \in Newline
  BY <1>1, <1>4, FindProps
<1>6. PICK n \in Nat : pos = a + n
  <2>1. pos - a \in Nat /\ a + (pos - a) = pos
    BY <1>4, <1>5, Difference
  <2> QED
    BY <2>1
<1>7. /\ x.start + n <= Len(x.buf) /\ x.start <= Len(x.buf)
      /\ NoLineEnd(x, n)
  <2>1. \A i \in Nat : a <= i => rd.start <= i
    BY <1>1
  <2>2. a <= Len(rd.buf)
    BY <1>1, <1>4, <1>5
  <2> QED
    BY <1>5, <1>6, <2>1, <2>2 DEF NoLineEnd
<1>8. p + n \in 0..Len(Body) /\ Reference[p + n] = t
  BY <1>1, <1>7, SkipRun
<1>9. PICK q \in 0..Len(Body) : q = p + n
  BY <1>8
<1>10. PICK y : y = [rd EXCEPT !.start = pos]
  OBVIOUS
<1>11. /\ y \in Readers /\ y.num = rd.num /\ y.line = rd.line /\ y.record_line = rd.record_line
       /\ y.pending_cr = rd.pending_cr
       /\ y.eof = rd.eof /\ y.bom_checked = rd.bom_checked /\ y.pending_lf_quoted = rd.pending_lf_quoted
       /\ y.ranges = rd.ranges /\ y.state = "AfterQuote" /\ y.start = pos /\ y.scratch = rd.scratch
       /\ y.buf = rd.buf
  BY <1>1, <1>3, <1>5, <1>10 DEF Readers
<1>12. Fields(y) = Fields(rd) /\ RangesFit(y)
  BY <1>1, <1>11, SameFields
<1>13. Unread(y, source, q)
  <2>1. y.start = x.start + n /\ y.buf = x.buf
    BY <1>6, <1>11
  <2>2. Unread(y, source, p + n)
    BY <1>1, <1>7, <2>1, UnreadSkip
  <2> QED
    BY <1>9, <2>2
<1>14. CASE pos = Len(rd.buf)
  <2>1. rd' = y /\ UNCHANGED <<call, rows>>
    BY <1>4, <1>10, <1>14 DEF Skip
  <2>2. MatchSkip(y, t)
    BY <1>11, <1>12 DEF MatchSkip
  <2>3. Match(y, Reference[q], "skip")
    BY <1>8, <1>9, <1>11, <2>2 DEF Match
  <2>4. /\ y.bom_checked /\ (y.eof => source = <<>>) /\ rows' = Reference[q].rows
        /\ "skip" \in {"idle", "loop", "quote", "skip"} /\ source' = source /\ call' = "skip"
    BY <1>2, <1>8, <1>9, <1>11, <2>1
  <2> QED
    BY <1>2, <1>13, <2>1, <2>3, <2>4, NormalIntro
<1>15. CASE pos # Len(rd.buf)
  <2>1. Return(ConsumeNewline(y), "trailing")
    BY <1>4, <1>10, <1>15 DEF Skip
  <2>2. pos < Len(rd.buf)
    BY <1>1, <1>5, <1>15
  <2>3. y.start < Len(y.buf) /\ y.buf[y.start + 1] \in Newline
    BY <1>5, <1>11, <2>2
  <2>4. PICK c : c = y.buf[y.start + 1]
    OBVIOUS
  <2>5. Reference[q + 1] = Take(Reference[q], y.buf[y.start + 1])
    BY <1>1, <1>11, <1>13, <2>3, UnreadByte
  <2>6. Take(t, c) = EndLine(t, t.fields, "trailing", c)
    BY <2>3, <2>4 DEF Take, SkipByte
  <2>7. "trailing" \in Errors
    BY DEF Errors
  <2>8. /\ Reference[q + 1] = EndLine(t, Fields(y), "trailing", y.buf[y.start + 1])
        /\ t.num = y.num /\ t.from = y.record_line /\ t.rows = rows /\ t.line = y.line
        /\ y.state # "InQuoted" /\ y.state # "InUnquoted" /\ ~y.pending_cr /\ y.bom_checked /\ (y.eof => source = <<>>)
    BY <1>8, <1>9, <1>11, <1>12, <2>4, <2>5, <2>6
  <2> QED
    BY <1>2, <1>11, <1>12, <1>13, <2>1, <2>3, <2>7, <2>8, ReturnAtLineEnd
<1> QED
  BY <1>14, <1>15

LEMMA NormalSkip ==
  ASSUME CsvTypes, Normal, Skip
  PROVE  Normal'
<1>1. /\ input \in Buffers /\ source \in Buffers /\ config \in Configs /\ rd \in Readers /\ InBounds(rd)
      /\ RangesFit(rd) /\ rd.start \in Nat /\ Len(rd.buf) \in Nat /\ rd.start <= Len(rd.buf)
  BY CsvFacts
<1>2. failed = {} /\ rd.bom_checked /\ (rd.eof => source = <<>>)
  BY NormalFacts
<1>3. PICK p \in 0..Len(Body), s \in RefStates : At(p, s)
  BY NormalFacts
<1>4. call = "skip" /\ rd.start < Len(rd.buf)
  BY DEF Skip
<1>5. /\ s = Reference[p] /\ s \in RefStates /\ Unread(rd, source, p) /\ rows = s.rows
      /\ s.num = rd.num /\ s.line = rd.line /\ MatchSkip(rd, s)
  BY <1>3, <1>4 DEF At, Match
<1>6. s.from = rd.record_line /\ ~rd.pending_cr
  BY <1>5 DEF MatchSkip
<1>7. /\ Find(Newline) \in Nat /\ rd.start <= Find(Newline) /\ Find(Newline) <= Len(rd.buf)
      /\ Find(Newline) < Len(rd.buf) => rd.buf[Find(Newline) + 1] \in Newline
  BY <1>1, FindProps
<1>8. CASE s.st = "skip" /\ s.fields = Fields(rd)
  <2>1. PICK a \in Nat : a = rd.start /\ rd.start <= a /\ a <= Find(Newline)
    BY <1>1, <1>7
  <2> QED
    BY <1>1, <1>2, <1>5, <1>6, <1>8, <2>1, SkipFrom
<1>9. CASE /\ s.st = "quote" /\ Append(s.fields, s.cur) = Fields(rd) /\ rd.buf[rd.start + 1] = "b"
           /\ ~(config.columns # NoLimit /\ Len(rd.ranges) > config.columns)
  <2>1. PICK a \in Nat : a = rd.start + 1 /\ rd.start <= a /\ a <= Find(Newline)
    <3>1. rd.start # Find(Newline)
      BY <1>4, <1>7, <1>9 DEF Newline
    <3> QED
      BY <1>1, <1>7, <3>1
  <2>2. PICK x : x = [rd EXCEPT !.start = a]
    OBVIOUS
  <2>3. x \in Readers /\ x.start = a /\ x.buf = rd.buf
    BY <1>1, <2>2 DEF Readers
  <2>4. /\ p + 1 \in 0..Len(Body) /\ Reference[p + 1] = Take(Reference[p], rd.buf[rd.start + 1])
        /\ Reference[p + 1] \in RefStates
        /\ \A w : w.start = rd.start + 1 /\ w.buf = rd.buf => Unread(w, source, p + 1)
    BY <1>1, <1>4, <1>5, UnreadByte
  <2>5. Unread(x, source, p + 1)
    BY <2>1, <2>3, <2>4
  <2>6. PICK v : v = [s EXCEPT !.fields = Append(@, s.cur), !.cur = <<>>]
    OBVIOUS
  <2>7. Len(Fields(rd)) = Len(rd.ranges) /\ Fields(rd) \in FieldLists
    BY <1>1, FieldsType
  <2>8. /\ v \in RefStates /\ v.fields = Fields(rd) /\ v.num = rd.num /\ v.from = rd.record_line
        /\ v.rows = rows /\ v.line = rd.line
    <3>1. <<>> \in Buffers /\ v = [s EXCEPT !.fields = Fields(rd), !.cur = <<>>]
      BY <1>9, <2>6 DEF Buffers
    <3> QED
      BY <1>5, <1>6, <2>7, <3>1 DEF RefStates
  <2>9. ~TooWide(v)
    BY <1>9, <2>7, <2>8 DEF TooWide
  <2>10. Take(s, "b") = [v EXCEPT !.st = "skip"]
    BY <1>9, <2>6, <2>9 DEF Take, QuoteByte, AfterByte, Newline
  <2>11. PICK t \in RefStates : t = Reference[p + 1] /\ t = [v EXCEPT !.st = "skip"]
    BY <1>5, <1>9, <2>4, <2>10
  <2>12. /\ t.st = "skip" /\ t.fields = Fields(rd) /\ t.num = rd.num /\ t.from = rd.record_line
         /\ t.rows = rows /\ t.line = rd.line
    BY <2>8, <2>11 DEF RefStates
  <2> QED
    BY <1>2, <1>6, <2>1, <2>3, <2>4, <2>5, <2>11, <2>12, SkipFrom
<1> QED
  BY <1>5, <1>8, <1>9 DEF MatchSkip

LEMMA NormalSkipEnds ==
  ASSUME CsvTypes, Normal, SkipEnds
  PROVE  Over' \/ Broken'
<1>1. /\ input \in Buffers /\ rd \in Readers /\ InBounds(rd) /\ rd.start \in Nat
  BY CsvFacts
<1>2. failed = {} /\ rd.bom_checked
  BY NormalFacts
<1>3. PICK p \in 0..Len(Body), s \in RefStates : At(p, s)
  BY NormalFacts
<1>4. /\ call = "skip" /\ rd.start = Len(rd.buf) /\ UNCHANGED <<input, source, config>>
  BY DEF SkipEnds
<1>5. /\ s \in RefStates /\ rows = s.rows /\ s = Reference[p] /\ s.num = rd.num /\ s.line = rd.line /\ MatchSkip(rd, s)
  BY <1>3, <1>4 DEF At, Match
<1>6. s.from = rd.record_line /\ s.st = "skip" /\ s.fields = Fields(rd)
  BY <1>1, <1>4, <1>5 DEF MatchSkip
<1>7. PICK y : y = [rd EXCEPT !.eof = TRUE]
  OBVIOUS
<1>8. y \in Readers /\ InBounds(y) /\ Fields(y) = Fields(rd) /\ Unquoted(y) = Unquoted(rd) /\ Quoted(y) = Quoted(rd)
  BY <1>1, <1>7, EofBounds
<1>9. /\ y.num = rd.num /\ y.line = rd.line /\ y.record_line = rd.record_line /\ y.eof /\ y.bom_checked
      /\ y.start = Len(y.buf)
  BY <1>1, <1>2, <1>4, <1>7 DEF Readers
<1>10. Return(y, "trailing") /\ "trailing" \in Errors /\ "trailing" # "none"
  BY <1>7 DEF SkipEnds, Errors
<1>11. CASE AtEof /\ UNCHANGED failed
  <2>1. s = Parsed /\ Parsed \in RefStates /\ source = <<>>
    BY <1>3, <1>4, <1>11, AtTheEnd
  <2>2. Expected = EndOf(Parsed, Fields(y), "trailing", Parsed.line).rows
    BY <1>6, <1>8, <2>1 DEF Expected, Finish
  <2>3. Parsed.num = y.num /\ Parsed.from = y.record_line /\ Parsed.rows = rows /\ Parsed.line = y.line /\ failed' = {}
    BY <1>2, <1>5, <1>6, <1>9, <1>11, <2>1
  <2> QED
    BY <1>4, <1>8, <1>9, <1>10, <2>1, <2>2, <2>3, LastRowIsOver
<1>12. CASE ReadFails("skip")
  <2>1. failed' = failed \cup {"skip"} /\ rows = Reference[p].rows
    BY <1>5, <1>12 DEF ReadFails
  <2> QED
    BY <1>4, <1>8, <1>9, <1>10, <2>1, FailedIsBroken
<1> QED
  BY <1>11, <1>12 DEF SkipEnds

-----------------------------------------------------------------------------
(* Before the first byte is parsed. *)

\* The input is what is in the buffer and what the source has.
LEMMA WholeInput ==
  ASSUME NEW b \in Buffers, NEW src \in Buffers, NEW w, w = b \o src
  PROVE  /\ w \in Seq(Bytes) /\ Len(w) = Len(b) + Len(src) /\ StartsWith(w, b)
         /\ \A i \in 1..Len(b) : w[i] = b[i]
         /\ \A i \in 1..Len(src) : w[Len(b) + i] = src[i]
         /\ src = <<>> => w = b
<1>1. b \in Seq(Bytes) /\ src \in Seq(Bytes) /\ Len(b) \in Nat /\ Len(src) \in Nat
  BY DEF Buffers
<1>2. w \in Seq(Bytes) /\ Len(w) = Len(b) + Len(src)
  BY <1>1, ConcatProperties
<1>3. StartsWith(w, b)
  BY <1>1, GrowConcat
<1>4. ASSUME NEW i \in 1..Len(src) PROVE w[Len(b) + i] = src[i]
  BY <1>1
<1>5. src = <<>> => w = b
  BY <1>1, ConcatEmptySeq
<1> QED
  BY <1>2, <1>3, <1>4, <1>5 DEF StartsWith

LEMMA SameHead ==
  ASSUME NEW S, NEW u \in Seq(S), NEW w \in Seq(S), StartsWith(w, u), NEW k \in Nat, k <= Len(u)
  PROVE  SubSeq(w, 1, k) = SubSeq(u, 1, k)
<1>1. Slice(w, 0, k) = Slice(u, 0, k)
  BY SliceGrow
<1> QED
  BY <1>1 DEF Slice

\* The mark is in the buffer if it is in the input.
LEMMA MarkAhead ==
  ASSUME NEW b \in Buffers, NEW src \in Buffers, NEW w, w = b \o src, Len(b) >= Len(Bom) \/ src = <<>>
  PROVE  IsPrefix(Bom, w) <=> IsPrefix(Bom, b)
<1>1. b \in Seq(Bytes) /\ w \in Seq(Bytes) /\ Len(b) \in Nat /\ Len(src) \in Nat /\ Len(w) = Len(b) + Len(src)
      /\ StartsWith(w, b)
  <2>1. b \in Seq(Bytes) /\ src \in Seq(Bytes)
    BY DEF Buffers
  <2>2. w \in Seq(Bytes) /\ Len(w) = Len(b) + Len(src) /\ StartsWith(w, b)
    BY WholeInput, ZenonT(60)
  <2> QED
    BY <2>1, <2>2
<1>2. CASE src = <<>>
  BY <1>2, WholeInput
<1>3. CASE Len(b) >= Len(Bom)
  <2>1. PICK k \in Nat : k = Len(Bom)
    BY CsvAssumption
  <2>2. k <= Len(b) /\ k <= Len(w) /\ 0 \in Nat /\ 0 <= k /\ 0 + 1 = 1
    BY <1>1, <1>3, <2>1
  <2>4. SubSeq(w, 1, k) = SubSeq(b, 1, k)
    BY <1>1, <2>2, SameHead
  <2> QED
    BY <2>1, <2>2, <2>4 DEF IsPrefix
<1> QED
  BY <1>2, <1>3

\* The whole body is ahead.
LEMMA BodyAhead ==
  ASSUME NEW b \in Buffers, source \in Buffers, input = b \o source, NEW y, y.buf = b,
         \/ Body = input /\ y.start = 0
         \/ Body = SubSeq(input, Len(Bom) + 1, Len(input)) /\ y.start = Len(Bom) /\ Len(Bom) <= Len(b)
  PROVE  Unread(y, source, 0)
<1>1. /\ input \in Seq(Bytes) /\ Len(b) \in Nat /\ Len(source) \in Nat /\ Len(input) = Len(b) + Len(source)
      /\ \A i \in 1..Len(b) : input[i] = b[i]
      /\ \A i \in 1..Len(source) : input[Len(b) + i] = source[i]
  BY WholeInput DEF Buffers
<1>2. \E k \in Nat : /\ k <= Len(b) /\ y.start = k /\ Len(Body) = Len(input) - k
                     /\ \A i \in 1..(Len(input) - k) : Body[i] = input[k + i]
  <2>1. CASE Body = input /\ y.start = 0
    <3>1. Len(Body) = Len(input) - 0 /\ \A i \in 1..(Len(input) - 0) : Body[i] = input[0 + i]
      BY <1>1, <2>1
    <3> QED
      BY <1>1, <2>1, <3>1
  <2>2. CASE Body = SubSeq(input, Len(Bom) + 1, Len(input)) /\ y.start = Len(Bom) /\ Len(Bom) <= Len(b)
    <3>1. PICK k \in Nat : k = Len(Bom)
      BY CsvAssumption
    <3>2. k <= Len(input) /\ Len(input) \in Nat /\ Len(input) <= Len(input)
      BY <1>1, <2>2, <3>1
    <3>3. Body = Slice(input, k, Len(input))
      BY <2>2, <3>1 DEF Slice
    <3>4. Len(Body) = Len(input) - k /\ \A i \in 1..(Len(input) - k) : Body[i] = input[k + i]
      <4> DEFINE u == Slice(input, k, Len(input))
      <4>1. Len(u) = Len(input) - k /\ \A i \in 1..(Len(input) - k) : u[i] = input[k + i]
        <5>1. PICK n \in Nat : n = Len(input) /\ k <= n /\ n <= Len(input)
          BY <3>2
        <5>3. input \in Seq(Bytes) /\ k <= n /\ n <= Len(input)
          BY <1>1, <5>1
        <5>2. /\ Slice(input, k, n) \in Seq(Bytes)
              /\ Len(Slice(input, k, n)) = n - k
              /\ \A i \in 1..(n - k) : Slice(input, k, n)[i] = input[k + i]
          BY <5>3, SliceProps
        <5> QED
          BY <5>1, <5>2
      <4> HIDE DEF u
      <4>2. Body = u
        BY <3>3 DEF u
      <4> QED
        BY <4>1, <4>2
    <3> QED
      BY <2>2, <3>1, <3>4
  <2> QED
    BY <2>1, <2>2
<1>3. PICK k \in Nat : /\ k <= Len(b) /\ y.start = k /\ Len(Body) = Len(input) - k
                       /\ \A i \in 1..(Len(input) - k) : Body[i] = input[k + i]
  BY <1>2
<1>4. PICK a \in Nat : a = Len(b) - k
  <2>1. PICK n \in Nat : n = Len(b) /\ k <= n
    BY <1>1, <1>3
  <2>2. n - k \in Nat
    BY <2>1
  <2> QED
    BY <2>1, <2>2
<1>5. Len(y.buf) - y.start = a /\ Len(Body) = 0 + a + Len(source)
  BY <1>1, <1>3, <1>4
<1>6. ASSUME NEW i \in 1..a PROVE y.buf[y.start + i] = Body[0 + i]
  <2>1. i \in 1..(Len(input) - k) /\ k + i \in 1..Len(b) /\ 0 + i = i
    BY <1>1, <1>3, <1>4
  <2> QED
    BY <1>1, <1>3, <2>1
<1>7. ASSUME NEW i \in 1..Len(source) PROVE source[i] = Body[0 + a + i]
  <2>1. a + i \in 1..(Len(input) - k) /\ k + (a + i) = Len(b) + i /\ 0 + a + i = a + i
    BY <1>1, <1>3, <1>4
  <2>2. Body[a + i] = input[Len(b) + i]
    BY <1>3, <2>1
  <2> QED
    BY <1>1, <2>1, <2>2
<1> QED
  BY <1>5, <1>6, <1>7 DEF Unread

\* The parser starts where the reference does.
LEMMA StartsNormal ==
  ASSUME CsvTypes, UNCHANGED <<input, source, config, rows, failed>>, failed = {}, rows = <<>>, call' = "loop",
         NEW y, y = rd', y.bom_checked, y.eof => source = <<>>, y.state = "StartOfField", y.ranges = <<>>,
         y.num = 0, y.line = 1, y.record_line = 1, ~y.pending_cr, ~y.pending_lf_quoted, Unread(y, source, 0)
  PROVE  Normal'
<1>1. Body \in Seq(Bytes) /\ 0 \in 0..Len(Body)
  BY CsvFacts, BodyType DEF Buffers
<1>2. PICK s : s = Reference[0] /\ s = Start
  BY ReferenceDef
<1>3. Fields(y) = <<>>
  BY DEF Fields
<1>4. Match(y, s, "loop") /\ s.rows = <<>>
  BY <1>2, <1>3 DEF Match, MatchLoop, MatchStart, SameCr, Start
<1>5. rd' = y /\ failed' = {} /\ source' = source /\ rows' = Reference[0].rows /\ "loop" \in {"idle", "loop", "quote", "skip"}
      /\ Match(y, Reference[0], "loop")
  BY <1>2, <1>4
<1> QED
  BY <1>1, <1>5, NormalIntro

\* Where a call is says what it can do.
LEMMA StepOf ==
  ASSUME CsvNext
  PROVE  /\ call = "idle" => ReadRow
         /\ call = "bom" => BomMore \/ BomEof \/ BomStrip \/ BomFails
         /\ call = "loop" => \/ LoopMore \/ LoopEof \/ LoopFails \/ RefuseColumns \/ PendingCr
                             \/ StartOfField \/ InUnquoted \/ InQuoted \/ AfterQuote
         /\ call = "quote" => QuoteMore \/ QuoteEof \/ QuoteFails
         /\ call = "skip" => Skip \/ SkipMore \/ SkipEnds
         /\ call # "done"
<1>1. (ReadRow => call = "idle")
  BY DEF ReadRow
<1>2. (BomMore \/ BomEof \/ BomStrip \/ BomFails) => call = "bom"
  BY DEF BomMore, BomEof, BomStrip, BomFails
<1>3. (LoopMore \/ LoopEof \/ LoopFails \/ RefuseColumns) => call = "loop"
  BY DEF LoopMore, LoopEof, LoopFails, RefuseColumns
<1>4. (PendingCr \/ StartOfField \/ InUnquoted \/ InQuoted \/ AfterQuote) => call = "loop"
  BY DEF PendingCr, StartOfField, InUnquoted, InQuoted, AfterQuote, ParsingIn, Parsing
<1>5. (QuoteMore \/ QuoteEof \/ QuoteFails) => call = "quote"
  BY DEF QuoteMore, QuoteEof, QuoteFails
<1>6. (Skip \/ SkipMore \/ SkipEnds) => call = "skip"
  BY DEF Skip, SkipMore, SkipEnds
<1>7. \/ ReadRow \/ BomMore \/ BomEof \/ BomStrip \/ BomFails
      \/ LoopMore \/ LoopEof \/ LoopFails \/ RefuseColumns \/ PendingCr
      \/ StartOfField \/ InUnquoted \/ InQuoted \/ AfterQuote
      \/ QuoteMore \/ QuoteEof \/ QuoteFails \/ Skip \/ SkipMore \/ SkipEnds
  BY DEF CsvNext, Parse, Fill, End, Fail
<1> QED
  BY <1>1, <1>2, <1>3, <1>4, <1>5, <1>6, <1>7

\* The fields of a reader that looks for the mark.
LEMMA LooksForMark ==
  ASSUME CsvTypes, AtStart, call = "bom"
  PROVE  /\ failed = {} /\ rows = <<>> /\ input = rd.buf \o source /\ (rd.eof => source = <<>>) /\ config.strip
         /\ rd.start = 0 /\ rd.state = "StartOfField" /\ rd.ranges = <<>> /\ rd.num = 0 /\ rd.line = 1
         /\ rd.record_line = 1 /\ ~rd.pending_cr /\ ~rd.pending_lf_quoted /\ rd.bom_checked
         /\ rd = [NewReader EXCEPT !.buf = rd.buf, !.eof = rd.eof, !.bom_checked = TRUE]
<1>1. /\ failed = {} /\ rows = <<>> /\ input = rd.buf \o source /\ (rd.eof => source = <<>>) /\ config.strip
      /\ rd = [NewReader EXCEPT !.buf = rd.buf, !.eof = rd.eof, !.bom_checked = TRUE]
  BY DEF AtStart
<1>2. PICK b, e : rd = [NewReader EXCEPT !.buf = b, !.eof = e, !.bom_checked = TRUE]
  BY <1>1
<1>3. /\ rd.start = 0 /\ rd.state = "StartOfField" /\ rd.ranges = <<>> /\ rd.num = 0 /\ rd.line = 1
      /\ rd.record_line = 1 /\ ~rd.pending_cr /\ ~rd.pending_lf_quoted /\ rd.bom_checked
  BY <1>2 DEF NewReader
<1> QED
  BY <1>1, <1>3

LEMMA StartReadRow ==
  ASSUME CsvTypes, AtStart, ReadRow
  PROVE  AtStart' \/ Normal'
<1>1. call = "idle" /\ rd = NewReader /\ failed = {} /\ rows = <<>> /\ input = rd.buf \o source
  BY DEF AtStart, ReadRow
<1>2. source \in Buffers /\ input \in Buffers /\ <<>> \in Buffers
  BY CsvFacts DEF Buffers
<1>3. rd.buf = <<>> /\ rd.start = 0 /\ rd.eof = FALSE /\ rd.bom_checked = FALSE /\ rd.line = 1
  BY <1>1 DEF NewReader
<1>4. Compact(rd) = rd
  BY <1>3 DEF Compact
<1>5. PICK y : y = rd'
  OBVIOUS
<1>6. /\ y = [rd EXCEPT !.ranges = <<>>, !.scratch = <<>>, !.state = "StartOfField", !.pending_lf_quoted = FALSE,
                        !.record_line = rd.line, !.bom_checked = TRUE]
      /\ call' = IF config.strip THEN "bom" ELSE "loop"
      /\ UNCHANGED <<input, source, config, rows, failed>>
  BY <1>3, <1>4, <1>5 DEF ReadRow
<1>7. y = [NewReader EXCEPT !.bom_checked = TRUE]
  <2>1. PICK r \in Readers : r = NewReader /\ r = rd
    BY <1>1, CsvFacts
  <2>2. PICK f \in BOOLEAN, t \in BOOLEAN : f = FALSE /\ t = TRUE
    OBVIOUS
  <2>6. r.pending_lf_quoted \in BOOLEAN /\ ~r.pending_lf_quoted
    <3>1. r.pending_lf_quoted \in BOOLEAN
      BY DEF Readers
    <3>2. ~r.pending_lf_quoted
      BY <2>1 DEF NewReader
    <3> QED
      BY <3>1, <3>2
  <2>3. /\ r.ranges = <<>> /\ r.scratch = <<>> /\ r.state = "StartOfField" /\ r.pending_lf_quoted = f
        /\ r.record_line = r.line
    <3>1. r.ranges = <<>> /\ r.scratch = <<>> /\ r.state = "StartOfField" /\ r.record_line = r.line
      BY <2>1 DEF NewReader
    <3> QED
      BY <2>2, <2>6, <3>1
  <2>4. y = [r EXCEPT !.ranges = r.ranges, !.scratch = r.scratch, !.state = r.state,
                      !.pending_lf_quoted = r.pending_lf_quoted, !.record_line = r.record_line, !.bom_checked = t]
    BY <1>6, <2>1, <2>2, <2>3
  <2>5. y = [r EXCEPT !.bom_checked = t]
    BY <2>4 DEF Readers
  <2> QED
    BY <2>1, <2>2, <2>5
<1>8. /\ y.buf = <<>> /\ y.eof = FALSE /\ y.bom_checked /\ y.state = "StartOfField" /\ y.ranges = <<>> /\ y.num = 0
      /\ y.line = 1 /\ y.record_line = 1 /\ ~y.pending_cr /\ ~y.pending_lf_quoted /\ y.start = 0
  BY <1>7 DEF NewReader
<1>9. CASE config.strip
  <2>1. y = [NewReader EXCEPT !.buf = y.buf, !.eof = y.eof, !.bom_checked = TRUE]
    BY <1>7, <1>8 DEF NewReader
  <2>2. config'.strip /\ call' = "bom" /\ input' = y.buf \o source' /\ failed' = {} /\ rows' = <<>>
    BY <1>1, <1>3, <1>6, <1>8, <1>9
  <2> QED
    BY <1>5, <1>8, <2>1, <2>2 DEF AtStart, NewReader
<1>10. CASE ~config.strip
  <2>1. Body = input
    BY <1>10 DEF Body
  <2>2. Unread(y, source, 0)
    BY <1>1, <1>2, <1>3, <1>8, <2>1, BodyAhead
  <2> QED
    BY <1>1, <1>5, <1>6, <1>8, <1>10, <2>2, StartsNormal
<1> QED
  BY <1>9, <1>10

LEMMA Regroup ==
  ASSUME NEW b \in Seq(Bytes), NEW src \in Seq(Bytes), NEW n \in 1..Len(src)
  PROVE  b \o src = (b \o SubSeq(src, 1, n)) \o SubSeq(src, n + 1, Len(src))
<1> DEFINE u == SubSeq(src, 1, n)
           v == SubSeq(src, n + 1, Len(src))
<1>1. /\ u \in Seq(Bytes) /\ Len(u) = n /\ \A i \in 1..n : u[i] = src[i]
      /\ v \in Seq(Bytes) /\ Len(v) = Len(src) - n /\ \A i \in 1..(Len(src) - n) : v[i] = src[n + i]
  BY Chunk
<1>0. n \in Nat /\ Len(src) \in Nat /\ n <= Len(src) /\ n + (Len(src) - n) = Len(src)
  OBVIOUS
<1> HIDE DEF u, v
<1>2. u \o v = src
  <2>1. u \o v \in Seq(Bytes) /\ Len(u \o v) = Len(src)
    <3>1. u \o v \in Seq(Bytes) /\ Len(u \o v) = Len(u) + Len(v)
      BY <1>1, ConcatProperties
    <3> QED
      BY <1>0, <1>1, <3>1
  <2>2. ASSUME NEW i \in 1..Len(src) PROVE (u \o v)[i] = src[i]
    <3>1. CASE i <= n
      BY <1>1, <3>1
    <3>2. CASE i > n
      <4>1. i - n \in 1..(Len(src) - n) /\ n + (i - n) = i
        BY <3>2
      <4>2. (u \o v)[i] = v[i - n]
        BY <1>1, <3>2
      <4> QED
        BY <1>1, <4>1, <4>2
    <3>3. i <= n \/ i > n
      BY <1>0
    <3> QED
      BY <3>1, <3>2, <3>3
  <2> QED
    BY <2>1, <2>2, SeqEqual
<1>3. (b \o u) \o v = b \o (u \o v)
  <2>1. b \in Seq(Bytes) /\ u \in Seq(Bytes) /\ v \in Seq(Bytes)
    BY <1>1
  <2> QED
    BY <2>1, ConcatAssociative, SMTT(40)
<1> QED
  BY <1>2, <1>3 DEF u, v

LEMMA StartBom ==
  ASSUME CsvTypes, AtStart, BomMore \/ BomEof \/ BomStrip \/ BomFails
  PROVE  AtStart' \/ Normal' \/ Broken'
<1>1. /\ source \in Buffers /\ source \in Seq(Bytes) /\ input \in Buffers /\ rd \in Readers /\ InBounds(rd)
      /\ rd.buf \in Buffers /\ rd.buf \in Seq(Bytes)
  BY CsvFacts, ReaderType DEF Buffers
<1>2. call = "bom"
  BY DEF BomMore, BomEof, BomStrip, BomFails
<1>3. /\ failed = {} /\ rows = <<>> /\ input = rd.buf \o source /\ (rd.eof => source = <<>>) /\ config.strip
      /\ rd.start = 0 /\ rd.state = "StartOfField" /\ rd.ranges = <<>> /\ rd.num = 0 /\ rd.line = 1
      /\ rd.record_line = 1 /\ ~rd.pending_cr /\ ~rd.pending_lf_quoted /\ rd.bom_checked
      /\ rd = [NewReader EXCEPT !.buf = rd.buf, !.eof = rd.eof, !.bom_checked = TRUE]
  BY <1>2, LooksForMark
<1>4. PICK y : y = rd'
  OBVIOUS
<1>5. ASSUME y = [NewReader EXCEPT !.buf = y.buf, !.eof = y.eof, !.bom_checked = TRUE],
             input = y.buf \o source', y.eof => source' = <<>>, UNCHANGED <<input, config, call, rows, failed>>
      PROVE  AtStart'
  BY <1>2, <1>3, <1>4, <1>5 DEF AtStart, NewReader
<1>6. CASE BomMore
  <2>1. UNCHANGED <<input, config, call, rows, failed>>
    BY <1>6 DEF BomMore
  <2>2. PICK n \in 1..Len(source) :
          /\ y = [rd EXCEPT !.buf = @ \o SubSeq(source, 1, n)]
          /\ source' = SubSeq(source, n + 1, Len(source)) /\ ~rd.eof
    BY <1>4, <1>6 DEF BomMore, More
  <2>3. y.buf = rd.buf \o SubSeq(source, 1, n) /\ y.eof = rd.eof
    BY <1>1, <2>2 DEF Readers
  <2>4. input = y.buf \o source'
    BY <1>1, <1>3, <2>2, <2>3, Regroup
  <2>5. y = [NewReader EXCEPT !.buf = y.buf, !.eof = y.eof, !.bom_checked = TRUE]
    BY <1>3, <2>2, <2>3 DEF NewReader
  <2> QED
    BY <1>5, <2>1, <2>2, <2>3, <2>4, <2>5
<1>7. CASE BomEof
  <2>1. y = [rd EXCEPT !.eof = TRUE] /\ UNCHANGED <<input, source, config, call, rows, failed>> /\ source = <<>>
    BY <1>4, <1>7 DEF BomEof, AtEof
  <2>2. y.buf = rd.buf /\ y.eof
    BY <1>1, <2>1 DEF Readers
  <2>3. y = [NewReader EXCEPT !.buf = y.buf, !.eof = y.eof, !.bom_checked = TRUE]
    <3>1. y.eof = TRUE
      BY <1>1, <2>1 DEF Readers
    <3> QED
      BY <1>3, <2>1, <2>2, <3>1 DEF NewReader
  <2> QED
    BY <1>3, <1>5, <2>1, <2>2, <2>3
<1>8. CASE BomStrip
  <2>1. /\ Len(rd.buf) >= Len(Bom) \/ source = <<>>
        /\ y = IF IsPrefix(Bom, rd.buf) THEN [rd EXCEPT !.start = Len(Bom)] ELSE rd
        /\ call' = "loop" /\ UNCHANGED <<input, source, config, rows, failed>>
    BY <1>3, <1>4, <1>8 DEF BomStrip
  <2>2. IsPrefix(Bom, input) <=> IsPrefix(Bom, rd.buf)
    BY <1>1, <1>3, <2>1, MarkAhead, ZenonT(60)
  <2>3. /\ y.buf = rd.buf /\ y.eof = rd.eof /\ y.state = "StartOfField" /\ y.ranges = <<>> /\ y.num = 0 /\ y.line = 1
        /\ y.record_line = 1 /\ ~y.pending_cr /\ ~y.pending_lf_quoted /\ y.bom_checked
    BY <1>1, <1>3, <2>1 DEF Readers
  <2>4. Unread(y, source, 0)
    <3>1. CASE IsPrefix(Bom, rd.buf)
      <4>1. Body = SubSeq(input, Len(Bom) + 1, Len(input)) /\ Len(Bom) <= Len(rd.buf)
        BY <1>3, <2>2, <3>1 DEF Body, IsPrefix
      <4>2. y.start = Len(Bom)
        BY <1>1, <2>1, <3>1 DEF Readers
      <4> QED
        BY <1>1, <1>3, <2>3, <4>1, <4>2, BodyAhead
    <3>2. CASE ~IsPrefix(Bom, rd.buf)
      <4>1. Body = input /\ y.start = 0
        BY <1>3, <2>1, <2>2, <3>2 DEF Body
      <4> QED
        BY <1>1, <1>3, <2>3, <4>1, BodyAhead
    <3> QED
      BY <3>1, <3>2
  <2> QED
    BY <1>3, <1>4, <2>1, <2>3, <2>4, StartsNormal
<1>9. CASE BomFails
  <2>1. /\ Return([rd EXCEPT !.eof = TRUE], "io") /\ UNCHANGED <<input, source, config>> /\ failed' = failed \cup {"bom"}
    BY <1>9 DEF BomFails, ReadFails
  <2>2. PICK z : z = [rd EXCEPT !.eof = TRUE] /\ z \in Readers /\ InBounds(z)
    BY <1>1, EofBounds
  <2>3. z.bom_checked
    BY <1>1, <1>3, <2>2 DEF Readers
  <2>4. "io" \in Errors /\ "io" # "none"
    BY DEF Errors
  <2>5. 0 \in 0..Len(Body) /\ rows = Reference[0].rows
    <3>1. Body \in Seq(Bytes)
      BY <1>1, BodyType DEF Buffers
    <3>2. Reference[0] = Start
      BY ReferenceDef
    <3> QED
      BY <1>3, <3>1, <3>2 DEF Start
  <2> QED
    BY <2>1, <2>2, <2>3, <2>4, <2>5, FailedIsBroken
<1> QED
  BY <1>6, <1>7, <1>8, <1>9

-----------------------------------------------------------------------------
(* When there is nothing left to read. *)

LEMMA EndedStep ==
  ASSUME CsvTypes, Ended, CsvNext
  PROVE  Ended' /\ UNCHANGED <<rows, failed, input, config>> /\ rd'.line = rd.line
<1>1. rd \in Readers /\ rd.start <= Len(rd.buf) /\ rd.start \in Nat /\ Len(rd.buf) \in Nat
  BY CsvFacts
<1>2. /\ rd.bom_checked /\ rd.eof /\ rd.start = Len(rd.buf) /\ call \in {"idle", "loop", "done"}
      /\ call = "loop" => rd.ranges = <<>> /\ rd.state = "StartOfField"
  BY DEF Ended
<1>3. PICK y : y = rd'
  OBVIOUS
<1>4. CASE call = "idle"
  <2>1. ReadRow
    BY <1>4, StepOf
  <2>2. /\ y = HeadOf(rd) /\ call' = "loop" /\ UNCHANGED <<input, source, config, rows, failed>>
    BY <1>2, <1>3, <2>1 DEF ReadRow, HeadOf
  <2>3. y \in Readers /\ y.state = "StartOfField" /\ SameAhead(y, rd)
    BY <1>1, <2>2, HeadReader
  <2>4. y = [rd EXCEPT !.buf = y.buf, !.start = y.start, !.ranges = <<>>, !.scratch = <<>>,
                       !.state = "StartOfField", !.pending_lf_quoted = FALSE,
                       !.record_line = rd.line, !.bom_checked = TRUE]
    BY <1>1, <2>2, HeadReader
  <2>5. y.eof = rd.eof /\ y.ranges = <<>> /\ y.line = rd.line /\ y.bom_checked
    BY <1>1, <2>4 DEF Readers
  <2>6. y.start \in Nat /\ Len(y.buf) \in Nat
    BY <2>3, ReaderType
  <2>7. Len(y.buf) - y.start = Len(rd.buf) - rd.start
    BY <2>3 DEF SameAhead
  <2>8. y.start = Len(y.buf)
    BY <1>1, <1>2, <2>6, <2>7
  <2> QED
    BY <1>2, <1>3, <2>2, <2>3, <2>5, <2>8 DEF Ended
<1>5. CASE call = "loop"
  <2>1. ~LoopMore /\ ~LoopFails
    BY <1>2 DEF LoopMore, LoopFails, More, ReadFails
  <2>2. ~RefuseColumns /\ ~PendingCr /\ ~StartOfField /\ ~InUnquoted /\ ~InQuoted /\ ~AfterQuote
    <3>1. ~(rd.start < Len(rd.buf))
      BY <1>1, <1>2
    <3>2. ~Parsing /\ ~RefuseColumns
      BY <3>1 DEF Parsing, RefuseColumns
    <3> QED
      BY <3>2 DEF PendingCr, StartOfField, InUnquoted, InQuoted, AfterQuote, ParsingIn
  <2>3. LoopEof
    BY <1>5, <2>1, <2>2, StepOf
  <2>4. /\ y = [rd EXCEPT !.eof = TRUE] /\ call' = "done" /\ UNCHANGED rows
        /\ UNCHANGED <<input, source, config, failed>>
    BY <1>2, <1>3, <1>5, <2>3 DEF LoopEof
  <2>5. y.eof /\ y.bom_checked /\ y.start = rd.start /\ y.buf = rd.buf /\ y.line = rd.line
    BY <1>1, <1>2, <2>4 DEF Readers
  <2> QED
    BY <1>2, <1>3, <2>4, <2>5 DEF Ended
<1>6. CASE call = "done"
  BY <1>6, StepOf
<1> QED
  BY <1>2, <1>4, <1>5, <1>6

LEMMA OverStep ==
  ASSUME CsvTypes, Over, CsvNext
  PROVE  Over'
<1>1. Ended' /\ UNCHANGED <<rows, failed, input, config>> /\ rd'.line = rd.line
  BY EndedStep DEF Over
<1>2. Expected' = Expected /\ Parsed' = Parsed
  BY <1>1, Rigid
<1> QED
  BY <1>1, <1>2 DEF Over

-----------------------------------------------------------------------------
(* After a read that failed, rows are only added. *)

Marked(x) == "bom_checked" \in DOMAIN x /\ x.bom_checked

LEMMA MarkedHelpers ==
  ASSUME NEW x, Marked(x)
  PROVE  /\ \A f : Marked(Push(x, f))
         /\ Marked(Finalize(x)) /\ Marked(ConsumeNewline(x)) /\ Marked(Closed(x))
         /\ \A b : Marked(CountLineBreaks(x, b))
         /\ \A v : Marked([x EXCEPT !.eof = v]) /\ Marked([x EXCEPT !.start = v])
<1>1. \A f : Marked(Push(x, f))
  BY DEF Marked, Push
<1>2. Marked(Finalize(x))
  BY <1>1 DEF Finalize
<1>3. Marked(ConsumeNewline(x))
  BY DEF Marked, ConsumeNewline
<1>4. Marked(Closed(x))
  <2>1. PICK z : z = Push(x, Scratch(x)) /\ Marked(z)
    BY <1>1
  <2>2. Closed(x) = [z EXCEPT !.state = "AfterQuote"]
    BY <2>1 DEF Closed
  <2> QED
    BY <2>1, <2>2 DEF Marked
<1>5. \A b : Marked(CountLineBreaks(x, b))
  BY DEF Marked, CountLineBreaks
<1>6. \A v : Marked([x EXCEPT !.eof = v]) /\ Marked([x EXCEPT !.start = v])
  BY DEF Marked
<1> QED
  BY <1>1, <1>2, <1>3, <1>4, <1>5, <1>6

\* At most one row is returned.
OneRow == rows' = rows \/ \E r : rows' = Append(rows, r)

LEMMA MarkedReturn ==
  ASSUME NEW x, Marked(x), NEW err, Return(x, err)
  PROVE  Marked(rd') /\ OneRow
<1>1. rd' = x \/ \E n : rd' = [x EXCEPT !.num = n]
  BY DEF Return, BuildRow
<1>2. Marked(rd')
  BY <1>1 DEF Marked
<1>3. OneRow
  BY DEF Return, BuildRow, OneRow
<1> QED
  BY <1>2, <1>3

LEMMA MarkedRefuse ==
  ASSUME NEW x, Marked(x), NEW err, Refuse(x, err)
  PROVE  Marked(rd') /\ OneRow
<1>1. PICK y : y = [x EXCEPT !.start = Len(x.buf), !.eof = TRUE]
  OBVIOUS
<1>2. Marked(y)
  BY <1>1 DEF Marked
<1>3. Return(y, err)
  BY <1>1 DEF Refuse
<1> QED
  BY <1>2, <1>3, MarkedReturn

Grows == Marked(rd') /\ OneRow /\ failed \subseteq failed' /\ UNCHANGED <<input, config>>

LEMMA GrowsFill ==
  ASSUME Marked(rd), More, UNCHANGED <<input, config, rows, failed>>
  PROVE  Grows
<1>1. PICK b : rd' = [rd EXCEPT !.buf = b]
  BY DEF More
<1>2. Marked(rd')
  BY <1>1 DEF Marked
<1> QED
  BY <1>2 DEF Grows, OneRow

LEMMA GrowsReturn ==
  ASSUME NEW x, Marked(x), NEW err, Return(x, err) \/ Refuse(x, err), failed \subseteq failed', UNCHANGED <<input, config>>
  PROVE  Grows
  BY MarkedReturn, MarkedRefuse DEF Grows

LEMMA GrowsLoop ==
  ASSUME Marked(rd), RefuseColumns \/ PendingCr \/ StartOfField \/ InUnquoted \/ AfterQuote \/ LoopEof \/ LoopFails
  PROVE  Grows
<1>1. CASE RefuseColumns
  <2>1. Refuse(rd, "columns") /\ UNCHANGED <<input, config, failed>>
    BY <1>1 DEF RefuseColumns
  <2> QED
    BY <2>1, GrowsReturn
<1>2. CASE PendingCr
  <2>1. PICK a : rd' = [rd EXCEPT !.pending_cr = FALSE, !.start = a]
    BY <1>2 DEF PendingCr
  <2>2. Marked(rd')
    BY <2>1 DEF Marked
  <2>3. UNCHANGED <<input, config, rows, failed>>
    BY <1>2 DEF PendingCr
  <2> QED
    BY <2>2, <2>3 DEF Grows, OneRow
<1>3. CASE StartOfField
  <2>1. UNCHANGED <<input, config, failed>>
    BY <1>3 DEF StartOfField
  <2>2. \/ Return(ConsumeNewline(Push(rd, Empty)), "none")
        \/ UNCHANGED rows /\ Marked(rd')
    <3>1. \/ Return(ConsumeNewline(Push(rd, Empty)), "none")
          \/ /\ UNCHANGED rows
             /\ \/ rd' = ConsumeNewline(rd)
                \/ rd' = [Push(rd, Empty) EXCEPT !.start = @ + 1, !.field_start = rd.start]
                \/ rd' = [rd EXCEPT !.start = @ + 1, !.field_start = rd.start, !.state = "InQuoted",
                                    !.scratch_field_start = Len(rd.scratch)]
                \/ rd' = [rd EXCEPT !.start = @ + 1, !.field_start = rd.start, !.state = "InUnquoted"]
      BY <1>3 DEF StartOfField
    <3>2. PICK z : z = Push(rd, Empty) /\ Marked(z)
      BY MarkedHelpers
    <3>3. Marked([z EXCEPT !.start = @ + 1, !.field_start = rd.start])
      BY <3>2 DEF Marked
    <3>4. /\ Marked([rd EXCEPT !.start = @ + 1, !.field_start = rd.start, !.state = "InQuoted",
                               !.scratch_field_start = Len(rd.scratch)])
          /\ Marked([rd EXCEPT !.start = @ + 1, !.field_start = rd.start, !.state = "InUnquoted"])
      BY DEF Marked
    <3>5. Marked(ConsumeNewline(rd))
      BY MarkedHelpers
    <3> QED
      BY <3>1, <3>2, <3>3, <3>4, <3>5
  <2>3. Marked(ConsumeNewline(Push(rd, Empty)))
    <3>1. PICK z : z = Push(rd, Empty) /\ Marked(z)
      BY MarkedHelpers
    <3> QED
      BY <3>1, MarkedHelpers
  <2>4. CASE Return(ConsumeNewline(Push(rd, Empty)), "none")
    BY <2>1, <2>3, <2>4, GrowsReturn
  <2>5. CASE UNCHANGED rows /\ Marked(rd')
    BY <2>1, <2>5 DEF Grows, OneRow
  <2> QED
    BY <2>2, <2>4, <2>5
<1>4. CASE InUnquoted
  <2>1. UNCHANGED <<input, config, failed>>
    BY <1>4 DEF InUnquoted
  <2>2. PICK pos : pos = Find({"d"} \cup Newline)
    OBVIOUS
  <2>3. PICK x : x = [Push(rd, Raw("buf", rd.field_start, pos)) EXCEPT !.start = pos]
    OBVIOUS
  <2>4. Marked(x)
    <3>1. PICK z : z = Push(rd, Raw("buf", rd.field_start, pos)) /\ Marked(z)
      BY MarkedHelpers
    <3> QED
      BY <2>3, <3>1 DEF Marked
  <2>5. \/ Refuse(rd, "field") \/ Return(ConsumeNewline(x), "none")
        \/ UNCHANGED rows /\ (rd' = [rd EXCEPT !.start = pos] \/ rd' = [x EXCEPT !.start = pos + 1, !.state = "StartOfField"])
    BY <1>4, <2>2, <2>3 DEF InUnquoted
  <2>6. CASE Refuse(rd, "field")
    BY <2>1, <2>6, GrowsReturn
  <2>7. CASE Return(ConsumeNewline(x), "none")
    <3>1. Marked(ConsumeNewline(x))
      BY <2>4, MarkedHelpers
    <3> QED
      BY <2>1, <2>7, <3>1, GrowsReturn
  <2>8. CASE UNCHANGED rows /\ (rd' = [rd EXCEPT !.start = pos] \/ rd' = [x EXCEPT !.start = pos + 1, !.state = "StartOfField"])
    <3>1. Marked(rd')
      BY <2>4, <2>8 DEF Marked
    <3> QED
      BY <2>1, <2>8, <3>1 DEF Grows, OneRow
  <2> QED
    BY <2>5, <2>6, <2>7, <2>8
<1>5. CASE AfterQuote
  <2>1. UNCHANGED <<input, config, failed>>
    BY <1>5 DEF AfterQuote
  <2>2. \/ Return(ConsumeNewline(rd), "none")
        \/ UNCHANGED rows /\ (rd' = rd \/ rd' = [rd EXCEPT !.start = @ + 1, !.state = "StartOfField"])
    BY <1>5 DEF AfterQuote
  <2>3. CASE Return(ConsumeNewline(rd), "none")
    <3>1. Marked(ConsumeNewline(rd))
      BY MarkedHelpers
    <3> QED
      BY <2>1, <2>3, <3>1, GrowsReturn
  <2>4. CASE UNCHANGED rows /\ (rd' = rd \/ rd' = [rd EXCEPT !.start = @ + 1, !.state = "StartOfField"])
    <3>1. Marked(rd')
      BY <2>4 DEF Marked
    <3> QED
      BY <2>1, <2>4, <3>1 DEF Grows, OneRow
  <2> QED
    BY <2>2, <2>3, <2>4
<1>6. ASSUME LoopEof \/ LoopFails
      PROVE  Grows
  <2>0. PICK x : x = [rd EXCEPT !.eof = TRUE] /\ Marked(x)
    BY MarkedHelpers
  <2>1. x = [rd EXCEPT !.eof = TRUE] /\ Marked(x) /\ Marked(Finalize(x))
    BY <2>0, MarkedHelpers
  <2>2. UNCHANGED <<input, config>> /\ failed \subseteq failed'
    BY <1>6 DEF LoopEof, LoopFails, ReadFails
  <2>3. \/ Return(x, "unterminated") \/ Return(Finalize(x), "none") \/ Return(Finalize(x), "io")
        \/ rd' = x /\ UNCHANGED rows
    BY <1>6, <2>1 DEF LoopEof, LoopFails
  <2>4. CASE rd' = x /\ UNCHANGED rows
    BY <2>1, <2>2, <2>4 DEF Grows, OneRow
  <2> QED
    BY <2>1, <2>2, <2>3, <2>4, GrowsReturn
<1> QED
  BY <1>1, <1>2, <1>3, <1>4, <1>5, <1>6

LEMMA GrowsQuoted ==
  ASSUME Marked(rd), InQuoted
  PROVE  Grows
<1>1. UNCHANGED <<input, config, failed>>
  BY DEF InQuoted
<1>2. PICK pos : pos = Find({"q"})
  OBVIOUS
<1>3. PICK bytes : bytes = Slice(rd.buf, rd.start, pos)
  OBVIOUS
<1>4. PICK x : x = [CountLineBreaks(rd, bytes) EXCEPT !.scratch = @ \o bytes] /\ Marked(x)
  <2>1. PICK z : z = CountLineBreaks(rd, bytes) /\ Marked(z)
    BY MarkedHelpers
  <2>2. Marked([z EXCEPT !.scratch = @ \o bytes])
    BY <2>1 DEF Marked
  <2> QED
    BY <2>1, <2>2
<1>5. PICK y : y = [x EXCEPT !.pending_lf_quoted = FALSE] /\ Marked(y)
  <2>1. Marked([x EXCEPT !.pending_lf_quoted = FALSE])
    BY <1>4 DEF Marked
  <2> QED
    BY <2>1
<1>6. PICK z : z = Push(y, Scratch(y)) /\ Marked(z)
  BY <1>5, MarkedHelpers
<1>7. \/ Refuse(x, "field") \/ Refuse(rd, "field")
      \/ /\ UNCHANGED rows
         /\ \/ rd' = [x EXCEPT !.start = pos]
            \/ rd' = [y EXCEPT !.start = pos + 1]
            \/ rd' = [y EXCEPT !.scratch = Append(@, "q"), !.start = pos + 2]
            \/ rd' = [z EXCEPT !.start = pos + 1, !.state = "AfterQuote"]
  BY <1>2, <1>3, <1>4, <1>5, <1>6 DEF InQuoted
<1>8. CASE Refuse(x, "field") \/ Refuse(rd, "field")
  BY <1>1, <1>4, <1>8, GrowsReturn
<1>9. CASE /\ UNCHANGED rows
           /\ \/ rd' = [x EXCEPT !.start = pos]
              \/ rd' = [y EXCEPT !.start = pos + 1]
              \/ rd' = [y EXCEPT !.scratch = Append(@, "q"), !.start = pos + 2]
              \/ rd' = [z EXCEPT !.start = pos + 1, !.state = "AfterQuote"]
  <2>1. Marked(rd')
    BY <1>4, <1>5, <1>6, <1>9 DEF Marked
  <2> QED
    BY <1>1, <1>9, <2>1 DEF Grows, OneRow
<1> QED
  BY <1>7, <1>8, <1>9

LEMMA GrowsBehind ==
  ASSUME Marked(rd), QuoteMore \/ QuoteEof \/ QuoteFails \/ Skip \/ SkipEnds \/ BomEof \/ BomStrip \/ BomFails
  PROVE  Grows
<1>1. CASE QuoteMore
  <2>1. PICK b, x : /\ x = [rd EXCEPT !.buf = b]
                    /\ rd' = [x EXCEPT !.scratch = Append(@, "q"), !.start = @ + 1] \/ rd' = Closed(x)
    BY <1>1 DEF QuoteMore
  <2>2. Marked(x)
    BY <2>1 DEF Marked
  <2>3. Marked([x EXCEPT !.scratch = Append(@, "q"), !.start = @ + 1]) /\ Marked(Closed(x))
    <3>1. Marked([x EXCEPT !.scratch = Append(@, "q"), !.start = @ + 1])
      BY <2>2 DEF Marked
    <3> QED
      BY <2>2, <3>1, MarkedHelpers
  <2>4. UNCHANGED <<input, config, rows, failed>>
    BY <1>1 DEF QuoteMore
  <2> QED
    BY <2>1, <2>3, <2>4, SMTT(40) DEF Grows, OneRow
<1>2. CASE QuoteEof
  <2>1. PICK x : x = [rd EXCEPT !.eof = TRUE] /\ Marked(x)
    BY MarkedHelpers
  <2>2. rd' = Closed(x) /\ UNCHANGED <<input, config, rows, failed>>
    BY <1>2, <2>1 DEF QuoteEof
  <2>3. Marked(Closed(x))
    BY <2>1, MarkedHelpers
  <2> QED
    BY <2>2, <2>3 DEF Grows, OneRow
<1>3. CASE QuoteFails
  <2>1. PICK eof \in BOOLEAN : Return([Closed(rd) EXCEPT !.eof = eof], "io")
    BY <1>3 DEF QuoteFails
  <2>2. PICK z : z = Closed(rd) /\ Marked(z)
    BY MarkedHelpers
  <2>3. PICK x : x = [z EXCEPT !.eof = eof] /\ Marked(x)
    BY <2>2, MarkedHelpers
  <2>4. Return(x, "io") /\ UNCHANGED <<input, config>> /\ failed \subseteq failed'
    BY <1>3, <2>1, <2>2, <2>3 DEF QuoteFails, ReadFails
  <2> QED
    BY <2>3, <2>4, GrowsReturn
<1>4. CASE Skip
  <2>1. UNCHANGED <<input, config, failed>>
    BY <1>4 DEF Skip
  <2>2. PICK x : x = [rd EXCEPT !.start = Find(Newline)] /\ Marked(x)
    BY MarkedHelpers
  <2>3. (rd' = x /\ UNCHANGED rows) \/ Return(ConsumeNewline(x), "trailing")
    BY <1>4, <2>2 DEF Skip
  <2>4. Marked(ConsumeNewline(x))
    BY <2>2, MarkedHelpers
  <2>5. CASE rd' = x /\ UNCHANGED rows
    BY <2>1, <2>2, <2>5 DEF Grows, OneRow
  <2>6. CASE Return(ConsumeNewline(x), "trailing")
    BY <2>1, <2>4, <2>6, GrowsReturn
  <2> QED
    BY <2>3, <2>5, <2>6
<1>5. CASE SkipEnds
  <2>1. PICK x : x = [rd EXCEPT !.eof = TRUE] /\ Marked(x)
    BY MarkedHelpers
  <2>2. Return(x, "trailing") /\ UNCHANGED <<input, config>> /\ failed \subseteq failed'
    BY <1>5, <2>1 DEF SkipEnds, ReadFails
  <2> QED
    BY <2>1, <2>2, GrowsReturn
<1>6. CASE BomFails
  <2>1. PICK x : x = [rd EXCEPT !.eof = TRUE] /\ Marked(x)
    BY MarkedHelpers
  <2>2. Return(x, "io") /\ UNCHANGED <<input, config>> /\ failed \subseteq failed'
    BY <1>6, <2>1 DEF BomFails, ReadFails
  <2> QED
    BY <2>1, <2>2, GrowsReturn
<1>7. CASE BomEof \/ BomStrip
  <2>1. UNCHANGED <<input, config, rows, failed>>
    BY <1>7 DEF BomEof, BomStrip
  <2>2. rd' = rd \/ (\E v : rd' = [rd EXCEPT !.eof = v]) \/ (\E v : rd' = [rd EXCEPT !.start = v])
    BY <1>7 DEF BomEof, BomStrip
  <2>3. Marked(rd')
    BY <2>2 DEF Marked
  <2> QED
    BY <2>1, <2>3 DEF Grows, OneRow
<1> QED
  BY <1>1, <1>2, <1>3, <1>4, <1>5, <1>6, <1>7

LEMMA GrowsStep ==
  ASSUME CsvTypes, CsvNext, rd.bom_checked
  PROVE  rd'.bom_checked /\ OneRow /\ failed \subseteq failed' /\ UNCHANGED <<input, config>>
<1>1. rd \in Readers /\ rd.start <= Len(rd.buf)
  BY CsvFacts
<1>2. Marked(rd)
  BY <1>1 DEF Marked, Readers
<1>3. CASE ReadRow
  <2>1. rd' = HeadOf(rd) /\ UNCHANGED <<input, config, rows, failed>>
    BY <1>3 DEF ReadRow, HeadOf
  <2>2. PICK y : y = HeadOf(rd)
    OBVIOUS
  <2>3. /\ y \in Readers
        /\ y = [rd EXCEPT !.buf = y.buf, !.start = y.start, !.ranges = <<>>, !.scratch = <<>>,
                          !.state = "StartOfField", !.pending_lf_quoted = FALSE,
                          !.record_line = rd.line, !.bom_checked = TRUE]
    BY <1>1, <2>2, HeadReader
  <2>4. y.bom_checked
    BY <1>1, <2>3 DEF Readers
  <2> QED
    BY <2>1, <2>2, <2>4 DEF OneRow
<1>4. CASE BomMore \/ LoopMore \/ SkipMore
  <2>1. More /\ UNCHANGED <<input, config, rows, failed>>
    BY <1>4 DEF BomMore, LoopMore, SkipMore
  <2> QED
    BY <1>2, <2>1, GrowsFill DEF Grows, Marked
<1>5. ASSUME ~ReadRow, ~(BomMore \/ LoopMore \/ SkipMore)
      PROVE  Grows
  BY <1>2, <1>5, GrowsLoop, GrowsQuoted, GrowsBehind DEF CsvNext, Parse, Fill, End, Fail
<1> QED
  BY <1>3, <1>4, <1>5 DEF Grows, Marked

LEMMA SameRows ==
  ASSUME NEW s \in Seq(Rows), NEW t \in Seq(Rows), t = s \/ (\E r : t = Append(s, r)), NEW k \in 1..Len(s)
  PROVE  k \in 1..Len(t) /\ t[k] = s[k] /\ SubSeq(t, 1, k - 1) = SubSeq(s, 1, k - 1)
<1>1. Len(s) \in Nat /\ k \in Nat /\ k - 1 \in Nat /\ k - 1 <= Len(s)
  OBVIOUS
<1>2. CASE t = s
  BY <1>2
<1>3. CASE \E r : t = Append(s, r)
  <2>1. Len(t) = Len(s) + 1 /\ \A i \in 1..Len(s) : t[i] = s[i]
    BY <1>3
  <2>2. StartsWith(t, s)
    BY <1>1, <2>1 DEF StartsWith
  <2>5. SubSeq(t, 1, k - 1) = SubSeq(s, 1, k - 1)
    BY <1>1, <2>2, SameHead
  <2> QED
    BY <1>1, <2>1, <2>5
<1> QED
  BY <1>2, <1>3

LEMMA BrokenStep ==
  ASSUME CsvTypes, Broken, CsvNext
  PROVE  Broken'
<1>1. failed # {} /\ rd.bom_checked
  BY DEF Broken
<1>2. PICK k \in 1..Len(rows) :
        /\ rows[k].err # "none" /\ IsPrefix(SubSeq(rows, 1, k - 1), Expected)
        /\ failed \cap {"bom", "quote"} # {} \/ (k = Len(rows) /\ Ended)
  BY DEF Broken
<1>3. rd'.bom_checked /\ OneRow /\ failed \subseteq failed' /\ UNCHANGED <<input, config>>
  BY <1>1, GrowsStep
<1>4. Expected' = Expected
  BY <1>3, Rigid
<1>5. rows \in Seq(Rows) /\ rows' \in Seq(Rows)
  <2>1. CsvTypes'
    BY Bounded
  <2> QED
    BY <2>1 DEF CsvTypes
<1>6. CASE failed \cap {"bom", "quote"} # {}
  <2>1. PICK t : t = rows'
    OBVIOUS
  <2>2. t \in Seq(Rows) /\ (t = rows \/ (\E r : t = Append(rows, r)))
    BY <1>3, <1>5, <2>1 DEF OneRow
  <2>3. k \in 1..Len(t) /\ t[k] = rows[k] /\ SubSeq(t, 1, k - 1) = SubSeq(rows, 1, k - 1)
    BY <1>5, <2>2, SameRows
  <2>4. failed' # {} /\ failed' \cap {"bom", "quote"} # {}
    BY <1>1, <1>3, <1>6
  <2>5. k \in 1..Len(rows') /\ rows'[k].err # "none" /\ IsPrefix(SubSeq(rows', 1, k - 1), Expected')
    BY <1>2, <1>4, <2>1, <2>3
  <2> QED
    BY <1>3, <2>4, <2>5 DEF Broken
<1>7. CASE k = Len(rows) /\ Ended
  <2>1. Ended' /\ UNCHANGED <<rows, failed, input, config>>
    BY <1>7, EndedStep
  <2>2. /\ k \in 1..Len(rows') /\ rows'[k].err # "none" /\ IsPrefix(SubSeq(rows', 1, k - 1), Expected')
        /\ k = Len(rows') /\ failed' # {}
    BY <1>1, <1>2, <1>4, <1>7, <2>1
  <2> QED
    BY <1>3, <2>1, <2>2 DEF Broken
<1> QED
  BY <1>2, <1>6, <1>7

-----------------------------------------------------------------------------
(* Every behaviour. *)

LEMMA Stutters ==
  ASSUME AtStart \/ Normal \/ Over \/ Broken, UNCHANGED csvVars
  PROVE  (AtStart \/ Normal \/ Over \/ Broken)'
<1>1. UNCHANGED <<input, source, config, rd, call, rows, failed>>
  BY DEF csvVars
<1>2. Body' = Body /\ Reference' = Reference /\ Parsed' = Parsed /\ Expected' = Expected
  BY <1>1, Rigid
<1>3. CASE AtStart
  BY <1>1, <1>3 DEF AtStart, NewReader
<1>4. CASE Normal
  <2>1. failed = {} /\ rd.bom_checked /\ call \in {"idle", "loop", "quote", "skip"} /\ (rd.eof => source = <<>>)
    BY <1>4 DEF Normal
  <2>2. PICK p \in 0..Len(Body) :
          Unread(rd, source, p) /\ Match(rd, Reference[p], call) /\ rows = Reference[p].rows
    BY <1>4 DEF Normal
  <2>3. PICK y, c, src : y = rd /\ c = call /\ src = source
    OBVIOUS
  <2>4. /\ rd' = y /\ call' = c /\ source' = src /\ failed' = {} /\ y.bom_checked /\ (y.eof => src = <<>>)
        /\ c \in {"idle", "loop", "quote", "skip"} /\ Unread(y, src, p) /\ Match(y, Reference[p], c)
        /\ rows' = Reference[p].rows /\ UNCHANGED <<input, config>>
    BY <1>1, <2>1, <2>2, <2>3
  <2> QED
    BY <2>4, NormalIntro
<1>5. CASE Over
  BY <1>1, <1>2, <1>5 DEF Over, Ended
<1>6. CASE Broken
  BY <1>1, <1>2, <1>6 DEF Broken, Ended
<1> QED
  BY <1>3, <1>4, <1>5, <1>6

LEMMA NormalStep ==
  ASSUME CsvTypes, Normal, CsvNext
  PROVE  Normal' \/ Over' \/ Broken'
<1>1. call \in {"idle", "loop", "quote", "skip"}
  BY DEF Normal
<1>2. CASE call = "idle"
  BY <1>2, StepOf, NormalReadRow
<1>3. CASE call = "loop"
  BY <1>3, StepOf, NormalMore, NormalLoopEof, NormalLoopFails, NormalRefuseColumns, NormalPendingCr, NormalStart,
     NormalUnquoted, NormalQuoted, NormalAfter
<1>4. CASE call = "quote"
  BY <1>4, StepOf, NormalQuote
<1>5. CASE call = "skip"
  BY <1>5, StepOf, NormalSkip, NormalMore, NormalSkipEnds
<1> QED
  BY <1>1, <1>2, <1>3, <1>4, <1>5

LEMMA StartStep ==
  ASSUME CsvTypes, AtStart, CsvNext
  PROVE  AtStart' \/ Normal' \/ Broken'
<1>1. call \in {"idle", "bom"}
  BY DEF AtStart
<1> QED
  BY <1>1, StepOf, StartReadRow, StartBom

\* The invariant is inductive.
LEMMA CsvStep ==
  ASSUME CsvInv, [CsvNext]_csvVars
  PROVE  CsvInv'
<1>1. CsvTypes /\ (AtStart \/ Normal \/ Over \/ Broken)
  BY DEF CsvInv
<1>2. CsvTypes'
  BY <1>1, Bounded
<1>3. (AtStart \/ Normal \/ Over \/ Broken)'
  <2>1. CASE UNCHANGED csvVars
    BY <1>1, <2>1, Stutters
  <2>2. CASE CsvNext
    BY <1>1, <2>2, StartStep, NormalStep, OverStep, BrokenStep
  <2> QED
    BY <2>1, <2>2
<1> QED
  BY <1>2, <1>3 DEF CsvInv

LEMMA CsvInitInv ==
  ASSUME CsvInit
  PROVE  CsvInv
<1>1. /\ input \in BoundedSeq(Bytes, MaxLen) /\ source = input /\ config \in Configs /\ rd = NewReader
      /\ call = "idle" /\ rows = <<>> /\ failed = {}
  BY DEF CsvInit
<1>2. input \in Seq(Bytes)
  <2>1. PICK n \in 0..MaxLen : input \in [1..n -> Bytes]
    BY <1>1 DEF BoundedSeq, SeqOf
  <2>2. n \in Nat
    BY <2>1, CsvAssumption
  <2> QED
    BY <2>1, <2>2
<1>3. rd \in Readers
  BY <1>1 DEF NewReader, Readers, Buffers, States
<1>4. rd.start = 0 /\ rd.buf = <<>> /\ rd.ranges = <<>> /\ rd.state = "StartOfField" /\ rd.eof = FALSE
  BY <1>1 DEF NewReader
<1>5. InBounds(rd) /\ StateOf(rd, call)
  BY <1>1, <1>4 DEF InBounds, RangesFit, StateOf
<1>6. CsvTypes
  BY <1>1, <1>2, <1>3, <1>5 DEF CsvTypes, Buffers
<1>7. input = <<>> \o source
  BY <1>1, <1>2, ConcatEmptySeq
<1>8. AtStart
  BY <1>1, <1>4, <1>7 DEF AtStart
<1> QED
  BY <1>6, <1>8 DEF CsvInv

LEMMA CsvInvRows ==
  ASSUME CsvInv
  PROVE  RowsOfTheInput
<1>1. CsvTypes /\ (AtStart \/ Normal \/ Over \/ Broken)
  BY DEF CsvInv
<1>2. CsvTypeOK
  <2>1. /\ source \in Seq(Bytes) /\ rd.start \in 0..Len(rd.buf) /\ rd.num \in Nat /\ rd.state \in States
        /\ call \in {"idle", "bom", "loop", "quote", "skip", "done"} /\ RangesFit(rd)
    <3>1. rd.num \in Nat /\ source \in Seq(Bytes) /\ call \in {"idle", "bom", "loop", "quote", "skip", "done"}
      BY <1>1 DEF CsvTypes, Readers, Buffers
    <3> QED
      BY <1>1, <3>1, CsvFacts
  <2>2. rd.ranges \in Seq(RawFields)
    BY <1>1 DEF CsvTypes, Readers
  <2>3. ASSUME NEW f \in Range(rd.ranges)
        PROVE  f.start <= f.end /\ f.end <= Len(IF f.src = "buf" THEN rd.buf ELSE rd.scratch)
    <3>1. PICK i \in 1..Len(rd.ranges) : f = rd.ranges[i]
      BY <2>2 DEF Range
    <3> QED
      BY <2>1, <3>1 DEF RangesFit, SrcOf
  <2> QED
    BY <2>1, <2>3 DEF CsvTypeOK, States
<1>3. ASSUME call = "done"
      PROVE  \/ rows = Expected /\ (Parsed.st = "stop" \/ rd.line = Parsed.line)
             \/ /\ failed # {}
                /\ \E k \in 1..Len(rows) :
                     /\ rows[k].err # "none" /\ IsPrefix(SubSeq(rows, 1, k - 1), Expected)
                     /\ k = Len(rows) \/ failed \cap {"bom", "quote"} # {}
  <2>1. ~AtStart /\ ~Normal
    BY <1>3 DEF AtStart, Normal
  <2>2. CASE Over
    BY <2>2 DEF Over
  <2>3. CASE Broken
    BY <2>3 DEF Broken
  <2> QED
    BY <1>1, <2>1, <2>2, <2>3
<1> QED
  BY <1>2, <1>3 DEF RowsOfTheInput

\* The rows the iterator returns, their fields, errors and line numbers are those
\* of the code's parser on the whole input, for every input, every configuration
\* without max_record_bytes, every way the source splits the input into reads and
\* every threshold of compact; a failing read leaves the rows before it right;
\* and no position or field range is ever outside of the buffer it indexes.
THEOREM RowsAreThoseOfTheInput == CsvSpec => []RowsOfTheInput
<1>1. CsvInit => CsvInv
  BY CsvInitInv
<1>2. CsvInv /\ [CsvNext]_csvVars => CsvInv'
  BY CsvStep
<1>3. CsvInv => RowsOfTheInput
  BY CsvInvRows
<1> QED
  BY <1>1, <1>2, <1>3, PTL DEF CsvSpec

\* A caller may use a row before it asks for the next one: as long as no read
\* failed, what was returned so far is a prefix of the rows of the input.
RowsSoFar == failed = {} => IsPrefix(rows, Expected)

LEMMA EmptyPrefix ==
  ASSUME input \in Buffers
  PROVE  IsPrefix(<<>>, Expected)
<1>1. Body \in Seq(Bytes) /\ 0 \in 0..Len(Body)
  BY BodyType DEF Buffers
<1>2. Reference[0].rows = <<>>
  BY ReferenceDef DEF Start
<1> QED
  BY <1>1, <1>2, PrefixOfExpected

LEMMA CsvInvSoFar ==
  ASSUME CsvInv
  PROVE  RowsSoFar
<1>1. CsvTypes /\ (AtStart \/ Normal \/ Over \/ Broken)
  BY DEF CsvInv
<1>2. input \in Buffers
  BY <1>1, CsvFacts
<1>3. CASE AtStart
  <2>1. rows = <<>>
    BY <1>3 DEF AtStart
  <2> QED
    BY <1>2, <2>1, EmptyPrefix DEF RowsSoFar
<1>4. CASE Normal
  <2>1. PICK p \in 0..Len(Body) : rows = Reference[p].rows
    BY <1>4 DEF Normal
  <2> QED
    BY <1>2, <2>1, PrefixOfExpected DEF RowsSoFar
<1>5. CASE Over
  <2>1. rows = Expected
    BY <1>5 DEF Over
  <2> QED
    BY <2>1 DEF RowsSoFar, IsPrefix
<1>6. CASE Broken
  BY <1>6 DEF Broken, RowsSoFar
<1> QED
  BY <1>1, <1>3, <1>4, <1>5, <1>6

\* The rows are right as they come, and not only when the iterator is at its end.
THEOREM RowsAreRightAsTheyCome == CsvSpec => []RowsSoFar
<1>1. CsvInit => CsvInv
  BY CsvInitInv
<1>2. CsvInv /\ [CsvNext]_csvVars => CsvInv'
  BY CsvStep
<1>3. CsvInv => RowsSoFar
  BY CsvInvSoFar
<1> QED
  BY <1>1, <1>2, <1>3, PTL DEF CsvSpec
=============================================================================
