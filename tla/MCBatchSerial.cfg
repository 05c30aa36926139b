SPECIFICATION Spec
CONSTANTS
  f1 = f1
  f2 = f2
  f3 = f3
  Files = {f1, f2, f3}
  NameOf <- Namesakes
  Discovered <- ThreeFiles
  InvoicePaths <- TwiceAndNamesake
  Null = Null
  MaxConcurrent = 0
  MoveProcessed = TRUE
  WriteMode = "merge"
  MaxRows = 2
INVARIANTS
  ReplacedRowsAreReported
  FilesAreAccountedFor
  ConcurrencyIsCapped
PROPERTIES
  BatchEnds
