------------------------------ MODULE MCSplits ------------------------------
(***************************************************************************)
(* Small instances of CsvReader, FastUdp and Blake3Hasher for TLC, each on *)
(* its own: the environment of each splits the work as it likes (the bytes *)
(* of a read, the datagrams a system call accepts, the bytes of an update) *)
(* and the result must not depend on it.  A behaviour is one of one unit;  *)
(* the others stay in a final state.                                       *)
(***************************************************************************)
EXTENDS CsvReader, FastUdp, Blake3Hasher

VARIABLE unit

Mark == <<"b", "b">>
Settings ==
  {[flexible |-> FALSE, strip |-> TRUE, field |-> NoLimit, columns |-> NoLimit],
   [flexible |-> TRUE, strip |-> FALSE, field |-> 1, columns |-> 1],
   [flexible |-> FALSE, strip |-> FALSE, field |-> 0, columns |-> 0]}

Item(s, n) == [segment_size |-> s, size |-> n]
SomeItems == {Item("none", 1), Item("zero", 1), Item("some", 1), Item("some", 3)}
SomeBatches == BoundedSeq(SomeItems, 4)

CsvOff ==
  /\ input = <<>> /\ source = <<>> /\ rows = <<>> /\ failed = {}
  /\ config = CHOOSE c \in Configs : TRUE
  /\ rd = NewReader
  /\ call = "done"

UdpOff ==
  /\ items = <<>> /\ wire = <<>> /\ count = 0 /\ at = "ok"
  /\ caps = [gso |-> FALSE, sendmmsg |-> FALSE]
  /\ state = [gso_einval |-> FALSE, chunk_offset |-> 0]

HasherOff ==
  /\ simd = 1 /\ fed = 0 /\ pending = 0 /\ out = <<>> /\ pc = "xof"
  /\ h = [chunk |-> NewChunk(0), stack |-> <<>>]
  /\ xof = [counter |-> 0, position |-> 0]

Init ==
  \/ unit = "csv" /\ CsvInit /\ UdpOff /\ HasherOff
  \/ unit = "udp" /\ CsvOff /\ UdpInit /\ HasherOff
  \/ unit = "blake3" /\ CsvOff /\ UdpOff /\ HasherInit

Next ==
  \/ unit = "csv" /\ CsvNext /\ UNCHANGED <<unit, udpVars, hasherVars>>
  \/ unit = "udp" /\ UdpNext /\ UNCHANGED <<unit, csvVars, hasherVars>>
  \/ unit = "blake3" /\ HasherNext /\ UNCHANGED <<unit, csvVars, udpVars>>

Spec == Init /\ [][Next]_<<unit, csvVars, udpVars, hasherVars>> /\ WF_csvVars(unit = "csv" /\ CsvNext)
=============================================================================
