SPECIFICATION Spec
CONSTANTS
  Nothing = Nothing
  Raises = Raises
  Unread = Unread
  Rows <- MCRows
  Chunks <- MCChunks
  Texts <- MCTexts
  Files <- MCFiles
  Environments <- MCEnvironments
  Widgets <- MCWidgets
  IntOf <- MCIntOf
  LowerOf <- MCLowerOf
INVARIANTS
  OneDocumentIsRecovered
  RowsOfOneDocument
  WholePrintOrNone
  SettingsTakeEffect
