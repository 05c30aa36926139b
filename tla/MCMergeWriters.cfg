SPECIFICATION Spec
CONSTANTS
  w1 = w1
  w2 = w2
  w3 = w3
  i1 = i1
  i2 = i2
  Writes = {w1, w2, w3}
  InvoiceOf <- MCInvoiceOf
  MaxRows = 2
  WriteMode = "merge"
  TableExists = FALSE
  MayOverlap = FALSE
INVARIANTS
  OneVersion
PROPERTIES
  SuccessReplacesTheInvoice
