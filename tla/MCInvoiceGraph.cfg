SPECIFICATION Spec
CONSTANTS
  i1 = i1
  i2 = i2
  textA = textA
  textB = textB
  Invoices = {i1, i2}
  TextOf <- SharedText
  NoText = NoText
  Null = Null
  NoEntry = NoEntry
  NotADict = NotADict
  NoValue = NoValue
  NotANumber = NotANumber
  NaN = NaN
  Cleaned <- MCCleaned
  FloatOf <- MCFloatOf
  TextOrder <- MCTextOrder
  Answers <- MCAnswers
  Verdicts <- MCVerdicts
  EnableCache = TRUE
  MaxEntries = 1
  WriteMode = "append"
INVARIANTS
  TypeOK
  RowsComeFromTheInvoice
  EveryRowIsSettled
  ReportMatchesTable
  CacheIsBounded
  StatsCountEveryLookup
PROPERTIES
  EveryRunEnds
