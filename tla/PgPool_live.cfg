SPECIFICATION FairSpec
CONSTANTS
  Callers = {g1, g2, g3}
  Permits = {p1}
  MinConnections = 1
  MaxStreams = 0
  NoPermit = none
PROPERTIES ImplementsBoundedPool CloseEndsWaits ConnectReturns
