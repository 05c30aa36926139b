SPECIFICATION PipelineSpec
CONSTANTS
  i1 = i1
  i2 = i2
  textA = textA
  textB = textB
  Invoices = {i1, i2}
  TextOf <- OwnTexts
  NoText = NoText
  Null = Null
  NoEntry = NoEntry
  NotADict = NotADict
  NoValue = NoValue
  NotANumber = NotANumber
  NaN = NaN
  Cleaned <- MCCleaned
  FloatOf <- MCFloatOf
  TextOrder <- MCTextOrder
  Answers <- FewAnswers
  Verdicts <- OneVerdict
  EnableCache = TRUE
  MaxEntries = 3
  WriteMode = "merge"
  Order <- MCOrder
  MaxConcurrent = 2
  MoveProcessed = TRUE
  MaxRows = 2
INVARIANTS
  ArchivedIsExtracted
PROPERTIES
  ImplementsBatch
  PipelineEnds
