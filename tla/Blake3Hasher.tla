---------------------------- MODULE Blake3Hasher ----------------------------
(***************************************************************************)
(* The incremental BLAKE3 hasher and its one-shot twin                     *)
(* (crypto/src/blake3/hasher.rs): which bytes, counters and flags enter    *)
(* which compression.                                                      *)
(*                                                                         *)
(* Compression is taken to be injective: a chunk's output is the record of *)
(* its counter and blocks, a parent's the record of its children.  A byte  *)
(* is its position in the input, so that two equal trees are the same hash *)
(* for every input, and two different ones are not.  Key and mode flags    *)
(* are the same in every node of a hasher and left out.  hash_many hashes  *)
(* whole chunks as ChunkState does, whatever its SIMD degree.              *)
(***************************************************************************)
EXTENDS Naturals, Sequences, FiniteSets, FiniteSetsExt, SequencesExt

CONSTANTS
  BlockLen,
  ChunkLen,
  MaxDepth,     \* log2 of the number of chunks of the longest input
  MaxBytes,     \* bound on the bytes hashed
  MaxUpdate,    \* bound on the length of an update
  MaxOut,       \* bound on the bytes read from an OutputReader
  SimdDegrees   \* the degrees Platform::detect may find

ASSUME HasherAssumption ==
  /\ BlockLen \in Nat \ {0} /\ ChunkLen % BlockLen = 0
  /\ MaxBytes <= 2^MaxDepth * ChunkLen
  /\ \E k \in 0..ChunkLen : ChunkLen = 2^k
  /\ \A d \in SimdDegrees : \E k \in 0..d : d = 2^k

VARIABLES
  simd,    \* platform.simd_degree()
  h,       \* Hasher: [chunk, stack]
  fed,     \* bytes absorbed so far
  pending, \* bytes of the running update that are left
  xof,     \* OutputReader: [counter, position]
  out,     \* what it has written, as <<counter, position in the block>>
  pc       \* "idle" between two calls, in update's loop, or reading output

hasherVars == <<simd, h, fed, pending, xof, out, pc>>

-----------------------------------------------------------------------------
(* ChunkState. *)

NewChunk(counter) == [counter |-> counter, blocks |-> <<>>, buf |-> <<>>]
Count(c) == BlockLen * Len(c.blocks) + Len(c.buf)
Block(c, end) == [bytes |-> c.buf, start |-> c.blocks = <<>>, end |-> end]
ChunkOutput(c) == [counter |-> c.counter, blocks |-> Append(c.blocks, Block(c, TRUE))]

\* update: a full block is compressed only when another byte is there.
RECURSIVE ChunkUpdate(_, _)
ChunkUpdate(c, bytes) ==
  LET take == Min({BlockLen - Len(c.buf), Len(bytes)}) IN
  CASE bytes = <<>> -> c
    [] bytes # <<>> /\ Len(c.buf) = BlockLen ->
         ChunkUpdate([c EXCEPT !.blocks = Append(@, Block(c, FALSE)), !.buf = <<>>], bytes)
    [] OTHER -> ChunkUpdate([c EXCEPT !.buf = @ \o SubSeq(bytes, 1, take)],
                            SubSeq(bytes, take + 1, Len(bytes)))

\* The n bytes at position from.
BytesFrom(from, n) == [i \in 1..n |-> from + i - 1]
Parent(l, r) == [left |-> l, right |-> r]

Powers == {2^k : k \in 0..MaxDepth + ChunkLen}

-----------------------------------------------------------------------------
(* Whole subtrees. *)

CompressChunksParallel(from, n, counter) ==
  [i \in 1..((n + ChunkLen - 1) \div ChunkLen) |->
     LET at == (i - 1) * ChunkLen
     IN ChunkOutput(ChunkUpdate(NewChunk(counter + i - 1),
                                BytesFrom(from + at, Min({ChunkLen, n - at}))))]

\* A leftover odd child is passed through.
CompressParentsParallel(cvs) ==
  [i \in 1..((Len(cvs) + 1) \div 2) |->
     IF 2 * i <= Len(cvs) THEN Parent(cvs[2 * i - 1], cvs[2 * i]) ELSE cvs[2 * i - 1]]

\* hazmat_left_subtree_len.
LeftSubtreeLen(n) == Max({p \in Powers : p <= (n - 1) \div ChunkLen}) * ChunkLen

RECURSIVE CompressSubtreeWide(_, _, _)
CompressSubtreeWide(from, n, counter) ==
  IF n <= simd * ChunkLen THEN CompressChunksParallel(from, n, counter)
  ELSE LET ll == LeftSubtreeLen(n)
           l == CompressSubtreeWide(from, ll, counter)
           r == CompressSubtreeWide(from + ll, n - ll, counter + ll \div ChunkLen)
       IN IF Len(l) = 1 THEN l \o r ELSE CompressParentsParallel(l \o r)

\* The children of the subtree's topmost node.
RECURSIVE Condense(_)
Condense(cvs) == IF Len(cvs) > 2 THEN Condense(CompressParentsParallel(cvs)) ELSE cvs
SubtreeChildren(from, n, counter) == Condense(CompressSubtreeWide(from, n, counter))

HashAllAtOnce(n) ==
  IF n <= ChunkLen THEN ChunkOutput(ChunkUpdate(NewChunk(0), BytesFrom(0, n)))
  ELSE LET cvs == SubtreeChildren(0, n, 0) IN Parent(cvs[1], cvs[2])

-----------------------------------------------------------------------------
(* Hasher. *)

PopCount(n) == Cardinality({k \in 0..MaxDepth + 1 : (n \div 2^k) % 2 = 1})

\* merge_cv_stack, down to n entries.
RECURSIVE MergeTo(_, _)
MergeTo(stack, n) ==
  IF Len(stack) <= n THEN stack
  ELSE MergeTo(Append(SubSeq(stack, 1, Len(stack) - 2),
                      Parent(stack[Len(stack) - 1], stack[Len(stack)])), n)

PushCv(stack, cv, counter) == Append(MergeTo(stack, PopCount(counter)), cv)

HasherInit ==
  /\ simd \in SimdDegrees
  /\ h = [chunk |-> NewChunk(0), stack |-> <<>>]
  /\ fed = 0 /\ pending = 0
  /\ xof = [counter |-> 0, position |-> 0]
  /\ out = <<>>
  /\ pc = "idle"

\* update, as far as the partial chunk: it is closed when more input follows.
Update(n) ==
  LET c == h.chunk
      take == IF Count(c) = 0 THEN 0 ELSE Min({ChunkLen - Count(c), n})
      d == ChunkUpdate(c, BytesFrom(fed, take))
  IN
  /\ pc = "idle" /\ fed + n <= MaxBytes
  /\ fed' = fed + take
  /\ IF take = n
     THEN h' = [h EXCEPT !.chunk = d] /\ UNCHANGED <<pending, pc>>
     ELSE /\ h' = IF Count(c) = 0 THEN h
                  ELSE [chunk |-> NewChunk(c.counter + 1),
                        stack |-> PushCv(h.stack, ChunkOutput(d), c.counter)]
          /\ pending' = n - take /\ pc' = "update"
  /\ UNCHANGED <<simd, xof, out>>

\* Mutant: the subtree is as large as the input allows.
SubtreeLenGreedy(n) == Max({p \in Powers : p <= n})

\* The largest power of two that fits and divides what was hashed so far.
SubtreeLen(n) ==
  Max({p \in Powers : p <= n /\ (h.chunk.counter * ChunkLen) % p = 0})

\* One round of the loop: a whole subtree goes on the stack as its two halves,
\* so that the root is never compressed early.
Subtree ==
  LET n == SubtreeLen(pending)
      c == h.chunk.counter
      cvs == SubtreeChildren(fed, n, c)
      chunks == n \div ChunkLen
  IN
  /\ pc = "update" /\ pending > ChunkLen
  /\ h' = [chunk |-> NewChunk(c + chunks),
           stack |-> IF n <= ChunkLen
                     THEN PushCv(h.stack, ChunkOutput(ChunkUpdate(NewChunk(c), BytesFrom(fed, n))), c)
                     ELSE PushCv(PushCv(h.stack, cvs[1], c), cvs[2], c + chunks \div 2)]
  /\ fed' = fed + n /\ pending' = pending - n
  /\ UNCHANGED <<simd, xof, out, pc>>

\* Mutant: the extra merge is left out.
RestUnmerged ==
  /\ pc = "update" /\ pending <= ChunkLen
  /\ h' = [h EXCEPT !.chunk = ChunkUpdate(@, BytesFrom(fed, pending))]
  /\ fed' = fed + pending /\ pending' = 0 /\ pc' = "idle"
  /\ UNCHANGED <<simd, xof, out>>

\* One chunk or less remains; with bytes in it the stack cannot be the root.
Rest ==
  /\ pc = "update" /\ pending <= ChunkLen
  /\ h' = IF pending = 0 THEN h
          ELSE [chunk |-> ChunkUpdate(h.chunk, BytesFrom(fed, pending)),
                stack |-> MergeTo(h.stack, PopCount(h.chunk.counter))]
  /\ fed' = fed + pending /\ pending' = 0 /\ pc' = "idle"
  /\ UNCHANGED <<simd, xof, out>>

\* The stack is folded from its top.
FinalOutput ==
  LET s == h.stack
      Fold(cvs, node) == FoldRight(LAMBDA cv, acc : Parent(cv, acc), cvs, node)
  IN CASE s = <<>> -> ChunkOutput(h.chunk)
       [] s # <<>> /\ Count(h.chunk) > 0 -> Fold(s, ChunkOutput(h.chunk))
       [] OTHER -> Fold(SubSeq(s, 1, Len(s) - 2), Parent(s[Len(s) - 1], s[Len(s)]))

-----------------------------------------------------------------------------
(* finalize_xof and OutputReader. *)

FinalizeXof ==
  /\ pc = "idle"
  /\ pc' = "xof"
  /\ UNCHANGED <<simd, h, fed, pending, xof, out>>

\* The bytes of block counter from position on.
OutputBytes(counter, from, n) == [i \in 1..n |-> <<counter, from + i - 1>>]

FillOneBlock(x, n) ==
  LET take == Min({n, BlockLen - x.position})
      full == x.position + take = BlockLen
  IN [counter |-> IF full THEN x.counter + 1 ELSE x.counter,
      position |-> IF full THEN 0 ELSE x.position + take]

\* fill: the rest of a block, whole blocks, the head of a block.
FillOutput(n) ==
  LET head == IF xof.position = 0 THEN 0 ELSE Min({n, BlockLen - xof.position})
      x == IF head = 0 THEN xof ELSE FillOneBlock(xof, n)
      full == (n - head) \div BlockLen
      y == [x EXCEPT !.counter = @ + full]
      tail == (n - head) % BlockLen
  IN
  /\ pc = "xof" /\ Len(out) + n <= MaxOut
  /\ xof' = IF tail = 0 THEN y ELSE FillOneBlock(y, tail)
  /\ out' = out \o OutputBytes(xof.counter, xof.position, head)
                \o FlattenSeq([b \in 1..full |-> OutputBytes(x.counter + b - 1, 0, BlockLen)])
                \o OutputBytes(y.counter, y.position, tail)
  /\ UNCHANGED <<simd, h, fed, pending, pc>>

HasherNext ==
  \/ \E n \in 0..MaxUpdate : Update(n)
  \/ Subtree \/ Rest \/ FinalizeXof
  \/ \E n \in 1..MaxOut : FillOutput(n)

HasherSpec == HasherInit /\ [][HasherNext]_hasherVars

-----------------------------------------------------------------------------

\* The tree of BLAKE3: chunks, and left subtrees that are as large a power of
\* two of chunks as leaves the right one a byte.
RECURSIVE Tree(_, _, _)
Tree(from, n, counter) ==
  IF n <= ChunkLen
  THEN LET blocks == Max({1, (n + BlockLen - 1) \div BlockLen})
       IN [counter |-> counter,
           blocks |-> [b \in 1..blocks |->
             [bytes |-> BytesFrom(from + (b - 1) * BlockLen, Min({BlockLen, n - (b - 1) * BlockLen})),
              start |-> b = 1, end |-> b = blocks]]]
  ELSE LET l == CHOOSE l \in {2^k * ChunkLen : k \in 0..MaxDepth} : l < n /\ n <= 2 * l
       IN Parent(Tree(from, l, counter), Tree(from + l, n - l, counter + l \div ChunkLen))

\* "The stack is `MAX_DEPTH + 1` entries because merging is lazy"
\* (hasher.rs:459): it never needs more, and when a chunk is open it "does not
\* need a merge" (hasher.rs:624-628), which final_output relies on.
StackFits ==
  /\ Len(h.stack) <= MaxDepth + 1
  /\ pc # "update" /\ Count(h.chunk) > 0 => Len(h.stack) = PopCount(h.chunk.counter)
  /\ pc # "update" /\ Count(h.chunk) = 0 => Len(h.stack) # 1

\* However the input is split into updates, and whatever the SIMD degree, the
\* hasher's root is that of BLAKE3's tree, and so is the one-shot function's;
\* however the output is split into reads, each goes on where the one before
\* ended.
HashOfTheInput ==
  /\ pc # "update" => FinalOutput = Tree(0, fed, 0) /\ HashAllAtOnce(fed) = Tree(0, fed, 0)
  /\ \A i \in 1..Len(out) : out[i] = <<(i - 1) \div BlockLen, (i - 1) % BlockLen>>
=============================================================================
