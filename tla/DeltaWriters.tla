---------------------------- MODULE DeltaWriters ----------------------------
(***************************************************************************)
(* delta_writer.py seen from the table: every execution of write_to_delta  *)
(* over the life of the table, by the threads of one batch and by the      *)
(* batches of later job runs that process an invoice again.                *)
(*                                                                         *)
(* _merge_into_delta asks whether the table exists and then appends or     *)
(* merges, two steps between which another writer may create it.  Spark    *)
(* commits the rows of one write together or not at all, and what it       *)
(* raises, before the commit or after it, is reported as write_error.      *)
(***************************************************************************)
EXTENDS Integers, Sequences, FiniteSets, DeltaTable

CONSTANTS
  Writes,         \* the executions of write_to_delta
  InvoiceOf,      \* write -> the invoice_id it writes
  MaxRows,        \* bound: rows of one write
  WriteMode,      \* config.storage.write_mode
  TableExists,    \* whether the table is there at the start
  MayOverlap      \* whether two writes of one invoice may run at a time

Invoices == {InvoiceOf[w] : w \in Writes}

ASSUME WritersAssumption ==
  /\ MaxRows \in Nat \ {0}
  /\ WriteMode \in {"append", "merge"}
  /\ TableExists \in BOOLEAN /\ MayOverlap \in BOOLEAN

VARIABLES
  exists,  \* spark.catalog.tableExists(target_table)
  table,   \* [Invoices -> rows]
  pc,      \* [Writes -> step of write_to_delta]
  frame,   \* [Writes -> combined_df]
  report   \* [Writes -> what the node returns: [rows_written, write_error]]

vars == <<exists, table, pc, frame, report>>

Init ==
  /\ exists = TableExists
  /\ table = [i \in Invoices |-> << >>]
  /\ pc = [w \in Writes |-> "idle"]
  /\ frame = [w \in Writes |-> << >>]
  /\ report = [w \in Writes |-> [rows_written |-> 0, write_error |-> "none"]]

FrameSizes_NoFloor == 0..MaxRows
(* max(len(df1), len(df2), 1)                                              *)
FrameSizes == 1..MaxRows

(* build_result_dataframe; each row is known by its write and its line.    *)
Build(w) ==
  /\ pc[w] = "idle"
  /\ MayOverlap \/ \A v \in Writes :
                     InvoiceOf[v] = InvoiceOf[w] => pc[v] \in {"idle", "returned"}
  /\ \E n \in FrameSizes :
       frame' = [frame EXCEPT ![w] = [k \in 1..n |-> [write |-> w, line |-> k]]]
  /\ pc' = [pc EXCEPT ![w] = IF WriteMode = "merge" THEN "check" ELSE "append"]
  /\ UNCHANGED <<exists, table, report>>

CheckTable(w) ==
  /\ pc[w] = "check"
  /\ pc' = [pc EXCEPT ![w] = IF exists THEN "merge" ELSE "append"]
  /\ UNCHANGED <<exists, table, frame, report>>

AppendToTable(w) ==
  /\ table' = AfterAppend(table, InvoiceOf[w], frame[w])
  /\ exists' = TRUE

Merge(w) ==
  /\ ~MergeIsAmbiguous(table, InvoiceOf[w], frame[w])
  /\ table' = AfterMerge(table, InvoiceOf[w], frame[w])
  /\ UNCHANGED exists

Commit(w) == (pc[w] = "append" /\ AppendToTable(w)) \/ (pc[w] = "merge" /\ Merge(w))

Return(w, rows, error) ==
  /\ pc' = [pc EXCEPT ![w] = "returned"]
  /\ report' = [report EXCEPT ![w] = [rows_written |-> rows, write_error |-> error]]
  /\ UNCHANGED frame

(* rows_written is the length of the frame, not what the table gained.     *)
Succeed(w) == Commit(w) /\ Return(w, Len(frame[w]), "none")

(* MERGE refuses two source rows for one target row.                       *)
Refused(w) ==
  /\ pc[w] = "merge"
  /\ MergeIsAmbiguous(table, InvoiceOf[w], frame[w])
  /\ Return(w, 0, "refused")
  /\ UNCHANGED <<exists, table>>

(* A conflict, a lost session, a bad column type, a lost acknowledgement.  *)
Fail(w) ==
  /\ pc[w] \in {"append", "merge"}
  /\ Commit(w) \/ UNCHANGED <<exists, table>>
  /\ Return(w, 0, "spark")

Finished == (\A w \in Writes : pc[w] = "returned") /\ UNCHANGED vars

Next ==
  \/ \E w \in Writes : Build(w) \/ CheckTable(w) \/ Succeed(w) \/ Refused(w) \/ Fail(w)
  \/ Finished

Spec == Init /\ [][Next]_vars

-----------------------------------------------------------------------------
(* Under "merge", as long as an invoice is not written twice at a time,    *)
(* all its rows come from one and the same processing of it, also when the *)
(* writers of several invoices create the table together.                  *)
OneVersion ==
  WriteMode = "merge" =>
    \A i \in Invoices : \A j, k \in DOMAIN table[i] : table[i][j].write = table[i][k].write

(* Under "merge" a write that reports success has replaced whatever the    *)
(* table had of its invoice: nothing older is left, and there is a row.    *)
SuccessReplacesTheInvoice ==
  [][WriteMode = "merge" =>
       \A w \in Writes :
         pc[w] # "returned" /\ pc'[w] = "returned" /\ report'[w].write_error = "none" =>
           /\ table'[InvoiceOf[w]] # << >>
           /\ \A k \in DOMAIN table'[InvoiceOf[w]] : table'[InvoiceOf[w]][k].write = w]_vars

(* "Idempotent upsert keyed by invoice_id, so re-running a job for the     *)
(* same invoice does not duplicate rows."                                  *)
MergeDoesNotDuplicate ==
  WriteMode = "merge" =>
    \A i \in Invoices : \A j, k \in DOMAIN table[i] : table[i][j] = table[i][k] => j = k
=============================================================================
