SPECIFICATION Spec
CONSTANTS
  Callers = {g1, g2, g3, g4}
  Permits = {p1, p2}
  MinConnections = 1
  MaxStreams = 1
  NoPermit = none
SYMMETRY Symmetry
INVARIANTS NoSharing NoLeak NoOrphanConnection ClosedPoolIsEmpty NoStall
