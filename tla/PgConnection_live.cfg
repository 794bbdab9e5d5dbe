SPECIFICATION FairSpec
CONSTANTS
  Requests = {r1, r2}
  Kinds = {"fetch", "script", "copyin"}
  None = None
  Scripts <- PlainScripts
  Statements = {"rows", "copyin"}
  Cap = 1
  MaxRows = 1
  Garbled = {}
  MaxExtra = 0
  Losing = TRUE
  Unencodable = FALSE
PROPERTY EveryRequestAnswered
