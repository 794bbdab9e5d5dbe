------------------------------ MODULE FastUdp -------------------------------
(***************************************************************************)
(* FastUdpSocket::send_many on Linux (tokio_fast_udp/socket.rs): one call, *)
(* with whatever the kernel answers to each of its system calls.           *)
(*                                                                         *)
(* An item is one datagram, or data to be cut into size datagrams, at      *)
(* least one: by the kernel (GSO) if it is alone in its call and the       *)
(* kernel accepts that, else in user space.  AsyncFd::async_io calls       *)
(* send_batch again, with the same SendState, when it returns WouldBlock.  *)
(* chunk_offset is counted in segments.  An action is one system call.     *)
(***************************************************************************)
EXTENDS Naturals, Sequences

CONSTANTS
  Batches,   \* the sequences of items handed to send_many
  MaxBatch,  \* caps.max_batch
  MmsgMax    \* SENDMMSG_MAX

ASSUME FastUdpAssumption ==
  /\ MaxBatch \in Nat /\ MmsgMax \in Nat \ {0}
  /\ \A b \in Batches : b \in Seq([segment_size : {"none", "zero", "some"}, size : Nat \ {0}])

VARIABLES
  items,     \* the items of the call, cut to max_batch
  caps,      \* [gso, sendmmsg]
  state,     \* SendState: [gso_einval, chunk_offset]
  count,     \* items sent in this round of send_batch (total_sent of sendmmsg)
  at,        \* which loop the call is in, or how it returned
  wire       \* the datagrams the kernel accepted, as <<item, segment>>

udpVars == <<items, caps, state, count, at, wire>>

UdpTypeOK ==
  /\ state \in [gso_einval : BOOLEAN, chunk_offset : Nat]
  /\ at \in {"ready", "gso", "mmsg", "loop", "ok", "err"}
  /\ count \in 0..Len(items)
  /\ at = "loop" /\ count < Len(items) => state.chunk_offset <= items[count + 1].size

Calls == {SubSeq(b, 1, IF Len(b) < MaxBatch THEN Len(b) ELSE MaxBatch) : b \in Batches}

UdpInit ==
  /\ items \in Calls
  /\ caps \in [gso : BOOLEAN, sendmmsg : BOOLEAN]
  /\ state = [gso_einval |-> FALSE, chunk_offset |-> 0]
  /\ count = 0
  /\ at = "ready"
  /\ wire = <<>>

Segmented(i) == items[i].segment_size = "some"

\* What item i is on the wire.
Datagrams(i) == IF Segmented(i) THEN [k \in 1..items[i].size |-> <<i, k>>] ELSE << <<i, 1>> >>

-----------------------------------------------------------------------------

\* The socket is writable, as far as tokio knows: the head of send_batch.
SendBatch ==
  /\ at = "ready"
  /\ count' = 0
  /\ at' = CASE items = <<>> -> "ok"
             [] \E i \in DOMAIN items : items[i].segment_size = "zero" -> "err"
             [] Len(items) = 1 /\ Segmented(1) /\ caps.gso /\ ~state.gso_einval -> "gso"
             [] Len(items) > 1 /\ caps.sendmmsg /\ \A i \in DOMAIN items : ~Segmented(i) -> "mmsg"
             [] OTHER -> "loop"
  /\ UNCHANGED <<items, caps, state, wire>>

\* sendmsg with UDP_SEGMENT: all segments or none.
Gso ==
  /\ at = "gso"
  /\ \/ /\ wire' = wire \o Datagrams(1)
        /\ count' = 1 /\ at' = "ok"
        /\ state' = [state EXCEPT !.chunk_offset = 0]
     \/ /\ at' = "loop" /\ state' = [state EXCEPT !.gso_einval = TRUE]
        /\ UNCHANGED <<count, wire>>
     \/ at' \in {"ready", "err"} /\ UNCHANGED <<count, wire, state>>
  /\ UNCHANGED <<items, caps>>

MmsgChunk == IF Len(items) - count < MmsgMax THEN Len(items) - count ELSE MmsgMax

\* Mutant: WouldBlock is passed on whatever was sent before.
MmsgAgain ==
  /\ at = "mmsg"
  /\ \/ \E sent \in 1..MmsgChunk :
          /\ wire' = wire \o [k \in 1..sent |-> <<count + k, 1>>]
          /\ count' = count + sent
          /\ at' = IF sent < MmsgChunk \/ count + sent = Len(items) THEN "ok" ELSE "mmsg"
     \/ at' = "ready" /\ UNCHANGED <<count, wire>>
     \/ at' = "err" /\ UNCHANGED <<count, wire>>
  /\ UNCHANGED <<items, caps, state>>

\* Mutant: the whole chunk counts as sent.
MmsgCountsChunk ==
  /\ at = "mmsg"
  /\ \/ \E sent \in 1..MmsgChunk :
          /\ wire' = wire \o [k \in 1..sent |-> <<count + k, 1>>]
          /\ count' = count + MmsgChunk
          /\ at' = IF sent < MmsgChunk \/ count + sent = Len(items) THEN "ok" ELSE "mmsg"
     \/ at' = (IF count > 0 THEN "ok" ELSE "ready") /\ UNCHANGED <<count, wire>>
     \/ at' = "err" /\ UNCHANGED <<count, wire>>
  /\ UNCHANGED <<items, caps, state>>

\* One sendmmsg: some of the chunk, or WouldBlock, or another error.
Mmsg ==
  /\ at = "mmsg"
  /\ \/ \E sent \in 1..MmsgChunk :
          /\ wire' = wire \o [k \in 1..sent |-> <<count + k, 1>>]
          /\ count' = count + sent
          /\ at' = IF sent < MmsgChunk \/ count + sent = Len(items) THEN "ok" ELSE "mmsg"
     \/ at' = (IF count > 0 THEN "ok" ELSE "ready") /\ UNCHANGED <<count, wire>>
     \/ at' = "err" /\ UNCHANGED <<count, wire>>
  /\ UNCHANGED <<items, caps, state>>

\* The loop over the items is through.
LoopEnds ==
  /\ at = "loop" /\ count = Len(items)
  /\ at' = "ok"
  /\ UNCHANGED <<items, caps, state, count, wire>>

\* An item of one datagram.
Plain ==
  /\ at = "loop" /\ count < Len(items) /\ ~Segmented(count + 1)
  /\ \/ wire' = Append(wire, <<count + 1, 1>>) /\ count' = count + 1 /\ UNCHANGED at
     \/ at' = (IF count = 0 THEN "ready" ELSE "ok") /\ UNCHANGED <<count, wire>>
     \/ at' = "err" /\ UNCHANGED <<count, wire>>
  /\ UNCHANGED <<items, caps, state>>

\* The next segment of an item that is cut in user space.
Segment ==
  /\ at = "loop" /\ count < Len(items) /\ Segmented(count + 1)
  /\ state.chunk_offset < items[count + 1].size
  /\ \/ /\ wire' = Append(wire, <<count + 1, state.chunk_offset + 1>>)
        /\ state' = [state EXCEPT !.chunk_offset = @ + 1]
        /\ UNCHANGED at
     \/ /\ at' = IF count = 0 /\ state.chunk_offset = 0 THEN "ready" ELSE "ok"
        /\ UNCHANGED <<wire, state>>
     \/ at' = "err" /\ UNCHANGED <<wire, state>>
  /\ UNCHANGED <<items, caps, count>>

\* All segments of the item are sent.
SegmentsEnd ==
  /\ at = "loop" /\ count < Len(items) /\ Segmented(count + 1)
  /\ state.chunk_offset = items[count + 1].size
  /\ state' = [state EXCEPT !.chunk_offset = 0]
  /\ count' = count + 1
  /\ UNCHANGED <<items, caps, at, wire>>

UdpNext == SendBatch \/ Gso \/ Mmsg \/ LoopEnds \/ Plain \/ Segment \/ SegmentsEnd

UdpSpec == UdpInit /\ [][UdpNext]_udpVars

-----------------------------------------------------------------------------

\* The datagram that follows d, and the one that follows what is on the wire.
After(d) ==
  IF Segmented(d[1]) /\ d[2] < items[d[1]].size THEN <<d[1], d[2] + 1>> ELSE <<d[1] + 1, 1>>
Upcoming == IF wire = <<>> THEN <<1, 1>> ELSE After(wire[Len(wire)])

\* Whatever the kernel answers (WouldBlock, a batch cut short, EINVAL for the
\* offload, an error) and however often async_io starts over, a call sends the
\* datagrams of its items in order and each at most once, none is left out and
\* none is invented, and it slices no item past its end.
InOrderOnce ==
  /\ UdpTypeOK
  /\ \A j \in 1..Len(wire) :
       /\ wire[j] = IF j = 1 THEN <<1, 1>> ELSE After(wire[j - 1])
       /\ wire[j][1] \in 1..Len(items)

\* The count that is returned is that of the items that are on the wire: the
\* datagrams of the first count items are, and nothing of a later one, but for
\* the first segments of one that was being cut in user space.
CountIsSent ==
  at = "ok" =>
    /\ Upcoming[1] = count + 1
    /\ count < Len(items) /\ ~Segmented(count + 1) => Upcoming[2] = 1
=============================================================================
