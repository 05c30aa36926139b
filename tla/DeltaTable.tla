----------------------------- MODULE DeltaTable -----------------------------
(***************************************************************************)
(* The result table as one write of delta_writer.py changes it.  A write   *)
(* carries the rows of one invoice, all with its invoice_id, and is one    *)
(* Delta transaction: it commits whole or not at all.                      *)
(*                                                                         *)
(* The table is a function from invoice ids to the rows with that id.      *)
(* Appending to it and MERGE are Delta Lake's operations, modelled from    *)
(* the clauses _merge_into_delta gives them.                               *)
(***************************************************************************)
EXTENDS Integers, Sequences

AfterAppend(table, id, rows) == [table EXCEPT ![id] = @ \o rows]

(* A MERGE in which two source rows update one target row is an error.     *)
MergeIsAmbiguous(table, id, rows) == Len(rows) > 1 /\ Len(table[id]) > 0

AfterMerge_InsertsOnly(table, id, rows) ==
  [table EXCEPT ![id] = IF Len(@) = 0 THEN rows ELSE @]
AfterMerge_InsertsAlways(table, id, rows) == [table EXCEPT ![id] = @ \o rows]

(* Not matched: insert all.  Matched: the one source row replaces the      *)
(* contents of every row with the same invoice_id.                         *)
AfterMerge(table, id, rows) ==
  [table EXCEPT ![id] = IF Len(@) = 0 THEN rows
                        ELSE [i \in DOMAIN @ |-> rows[1]]]
=============================================================================
