--------------------------- MODULE MCDeltaWriters ---------------------------
(* An invoice processed twice while another one is.                        *)
EXTENDS DeltaWriters

CONSTANTS w1, w2, w3, i1, i2

MCInvoiceOf == [w \in Writes |-> IF w = w3 THEN i2 ELSE i1]
=============================================================================
