SPECIFICATION Spec
CONSTANTS
  Requests = {r1, r2}
  Kinds = {"fetch", "execute", "script", "copyin", "copyout"}
  None = None
  Scripts <- PlainScripts
  Statements = {"rows", "copyin", "copyout"}
  Cap = 1
  MaxRows = 2
  Garbled = {"bind", "execute", "query", "copydata", "copydone", "copyfail"}
  MaxExtra = 1
  Losing = TRUE
  Unencodable = TRUE
SYMMETRY Symmetry
CONSTRAINT OneFault
INVARIANTS
  InStep
  NoFalseSuccess
  CopyAllOrNothing
  NoSilentTruncation
  RowsInOrder
