SPECIFICATION Spec
CONSTANTS
  NotADict = NotADict
  NoValue = NoValue
  NotANumber = NotANumber
  NaN = NaN
  Cleaned <- MCCleaned
  FloatOf <- MCFloatOf
  TextOrder <- MCTextOrder
  Rows1 <- MCRows1
  Rows2 <- MCRows2
  MaxRows = 3
INVARIANTS
  MatchIsSound
  MatchIsComplete
  ScalarsAreKept
