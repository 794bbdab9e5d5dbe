SPECIFICATION Spec
CONSTANTS
  Requests = {r1, r2}
  Kinds = {"fetch", "execute"}
  None = None
  Scripts <- PlainScripts
  Statements = {"rows"}
  Cap = 1
  MaxRows = 1
  Garbled = {}
  MaxExtra = 0
  Losing = TRUE
  Unencodable = FALSE
INVARIANT NeverSilentlyWrong
