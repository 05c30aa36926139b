------------------------------- MODULE MCBatch -------------------------------
(* Three invoices of their own, and lists in which names or files repeat.  *)
EXTENDS Batch

CONSTANTS f1, f2, f3

OwnNames == [f \in Files |-> f]
Namesakes == [f \in Files |-> IF f = f3 THEN f1 ELSE f]

ThreeFiles == <<f1, f2, f3>>
TwiceAndNamesake == <<f1, f2, f1, f3>>
=============================================================================
