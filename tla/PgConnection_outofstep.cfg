SPECIFICATION Spec
CONSTANTS
  Requests = {r1, r2}
  Kinds = {"execute"}
  None = None
  Scripts <- PlainScripts
  Statements = {"rows"}
  Cap = 1
  MaxRows = 0
  Garbled = {"describe"}
  MaxExtra = 1
  Losing = FALSE
  Unencodable = FALSE
INVARIANT NoFalseSuccess
