SPECIFICATION Spec
CONSTANTS
  f1 = f1
  f2 = f2
  f3 = f3
  Files = {f1, f2, f3}
  NameOf <- OwnNames
  Discovered <- ThreeFiles
  InvoicePaths = Null
  Null = Null
  MaxConcurrent = 2
  MoveProcessed = TRUE
  WriteMode = "append"
  MaxRows = 2
INVARIANTS
  TypeOK
  ArchivedIsPersisted
  SummaryIsFaithful
PROPERTIES
  NoMoveUnderAReader
  BatchEnds
