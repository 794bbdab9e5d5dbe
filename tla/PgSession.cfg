SPECIFICATION SessionSpec
CONSTANTS
  Sqls <- FourSqls
  Hash <- CollidingHash
  Sizes = {0, 1, 2}
  MaxNames = 4
  NoSql = NoSql
  Unencodable = TRUE
  Forgetful = TRUE
  Sessions = {s1, s2, s3}
  None = None
  Failing = TRUE
  StalePlans = TRUE
  Garbling = TRUE
  CancellingBegin = TRUE
  MaxQueue = 3
SYMMETRY Symmetry
INVARIANTS
  BindsItsStatement
  ServerStaysBounded
  NoLeakedStatement
  EndsWithItsHandle
  OnlyCommittedSurvives
