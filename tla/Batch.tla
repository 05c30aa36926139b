------------------------------- MODULE Batch -------------------------------
(***************************************************************************)
(* runner.py: one run_batch.  The main thread submits a task per invoice   *)
(* to a thread pool, collects results as tasks complete and moves each     *)
(* PDF to the archive or to quarantine; up to MaxWorkers tasks run         *)
(* _process_one at the same time.                                          *)
(*                                                                         *)
(* app.invoke is abstracted to what its caller sees of it (InvoiceGraph    *)
(* has the detail): it reads the PDF, and then it raises, or it writes the *)
(* invoice's rows, or the write fails.  A run whose PDF cannot be read     *)
(* asks no model anything and writes one row of nulls.                     *)
(***************************************************************************)
EXTENDS Integers, Sequences, FiniteSets, DeltaTable

CONSTANTS
  Files,          \* the PDFs
  NameOf,         \* file -> its basename, and so its invoice_id
  Discovered,     \* sorted(glob(...)): the files in the input volume
  InvoicePaths,   \* the argument invoice_paths: a sequence of files, or Null
  Null,           \* None
  MaxConcurrent,  \* config.max_concurrent_invoices
  MoveProcessed,  \* the argument move_processed
  WriteMode,      \* config.storage.write_mode
  MaxRows         \* bound: rows of one invoice

Names == {NameOf[f] : f \in Files}

(* invoice_paths or discover_invoices(...): an empty list counts as none.  *)
Paths == IF InvoicePaths \in {Null, << >>} THEN Discovered ELSE InvoicePaths
Tasks == DOMAIN Paths
IdOf(t) == NameOf[Paths[t]]

ASSUME BatchAssumption ==
  /\ Paths \in Seq(Files)
  /\ NameOf \in [Files -> Names]
  /\ MaxConcurrent \in Int
  /\ MoveProcessed \in BOOLEAN
  /\ WriteMode \in {"append", "merge"}
  /\ MaxRows \in Nat \ {0}

MaxWorkers_NoFloor == IF MaxConcurrent < Len(Paths) THEN MaxConcurrent ELSE Len(Paths)
MaxWorkers_All == Len(Paths)
(* max(1, min(max_concurrent_invoices, len(paths)))                        *)
MaxWorkers ==
  LET wanted == IF MaxConcurrent < Len(Paths) THEN MaxConcurrent ELSE Len(Paths)
  IN  IF wanted > 1 THEN wanted ELSE 1

VARIABLES
  main,     \* the main thread: "submit", "collect", "move" or "done"
  current,  \* the task whose result is being handled, 0 when none
  pc,       \* [Tasks -> step of _process_one]
  result,   \* [Tasks -> the InvoiceRunResult, once returned]
  table,    \* [Names -> rows with that invoice_id]
  where,    \* [Files -> the directory that holds the file, "lost" if overwritten]
  summary   \* the BatchSummary

vars == <<main, current, pc, result, table, where, summary>>

Running == {t \in Tasks : pc[t] \in {"started", "read", "unreadable"}}

NoResult == [success |-> FALSE, rows_written |-> 0, flagged |-> FALSE]
EmptySummary == [total |-> 0, succeeded |-> 0, failed |-> 0, flagged |-> 0]

Init ==
  /\ main = IF Paths = << >> THEN "done" ELSE "submit"
  /\ current = 0
  /\ pc = [t \in Tasks |-> "new"]
  /\ result = [t \in Tasks |-> NoResult]
  /\ table = [n \in Names |-> << >>]
  /\ where = [f \in Files |-> "input"]
  /\ summary = EmptySummary

-----------------------------------------------------------------------------
(* executor.submit, in the order of the list.                              *)
Submit(t) ==
  /\ main = "submit"
  /\ pc[t] = "new"
  /\ \A u \in Tasks : u < t => pc[u] # "new"
  /\ pc' = [pc EXCEPT ![t] = "queued"]
  /\ main' = IF t = Len(Paths) THEN "collect" ELSE main
  /\ UNCHANGED <<current, result, table, where, summary>>

(* A worker thread takes the oldest task of the queue.                     *)
Start(t) ==
  /\ pc[t] = "queued"
  /\ \A u \in Tasks : u < t => pc[u] # "queued"
  /\ Cardinality(Running) < MaxWorkers
  /\ pc' = [pc EXCEPT ![t] = "started"]
  /\ UNCHANGED <<main, current, result, table, where, summary>>

(* load_invoice: a file that is not where the path says cannot be read,    *)
(* and one that is there may have no text.                                 *)
Read(t) ==
  /\ pc[t] = "started"
  /\ \/ where[Paths[t]] = "input" /\ pc' = [pc EXCEPT ![t] = "read"]
     \/ pc' = [pc EXCEPT ![t] = "unreadable"]
  /\ UNCHANGED <<main, current, result, table, where, summary>>

Return(t, success, rows, flagged) ==
  /\ pc' = [pc EXCEPT ![t] = "returned"]
  /\ result' = [result EXCEPT ![t] =
                  [success |-> success, rows_written |-> rows, flagged |-> flagged]]

(* An agent or the judge raised; _process_one catches it.                  *)
GraphRaises(t) ==
  /\ pc[t] = "read"
  /\ Return(t, FALSE, 0, FALSE)
  /\ UNCHANGED <<main, current, table, where, summary>>

Rows(t, n) == [k \in 1..n |-> [task |-> t, read |-> pc[t] = "read"]]
RowCounts(t) == IF pc[t] = "read" THEN 1..MaxRows ELSE {1}

(* write_to_delta, see DeltaTable.                                         *)
Commit(t, n) ==
  IF WriteMode = "merge"
  THEN /\ ~MergeIsAmbiguous(table, IdOf(t), Rows(t, n))
       /\ table' = AfterMerge(table, IdOf(t), Rows(t, n))
  ELSE table' = AfterAppend(table, IdOf(t), Rows(t, n))

Succeeds_WriteOnly(loadError, writeError) == ~writeError
(* error = load_error or write_error; success = error is None              *)
Succeeds(loadError, writeError) == ~loadError /\ ~writeError

(* Only runs that read their PDF can reach the judge and be flagged.       *)
GraphWrites(t) ==
  /\ pc[t] \in {"read", "unreadable"}
  /\ \E n \in RowCounts(t), flagged \in BOOLEAN :
       /\ flagged => pc[t] = "read"
       /\ Commit(t, n)
       /\ Return(t, Succeeds(pc[t] = "unreadable", FALSE), n, flagged)
  /\ UNCHANGED <<main, current, where, summary>>

(* The error may come before the commit or after it.                       *)
GraphWriteFails(t) ==
  /\ pc[t] \in {"read", "unreadable"}
  /\ \E n \in RowCounts(t), flagged \in BOOLEAN :
       /\ flagged => pc[t] = "read"
       /\ UNCHANGED table \/ Commit(t, n)
       /\ Return(t, Succeeds(pc[t] = "unreadable", TRUE), 0, flagged)
  /\ UNCHANGED <<main, current, where, summary>>

-----------------------------------------------------------------------------
Collect_StaleCurrent(t) ==
  /\ main = "collect"
  /\ pc[t] = "returned"
  /\ pc' = [pc EXCEPT ![t] = "collected"]
  /\ main' = "move"
  /\ UNCHANGED <<current, result, table, where, summary>>

(* as_completed yields each finished future once, in any order.  What      *)
(* _process_one raises past its own handler would be a failed result here. *)
Collect(t) ==
  /\ main = "collect"
  /\ pc[t] = "returned"
  /\ pc' = [pc EXCEPT ![t] = "collected"]
  /\ current' = t
  /\ main' = "move"
  /\ UNCHANGED <<result, table, where, summary>>

Destination_Swapped(t) == IF result[t].success THEN "quarantine" ELSE "archive"
Destination(t) == IF result[t].success THEN "archive" ELSE "quarantine"

SameTarget_Always(f, g) == TRUE
(* os.path.join(destination_dir, os.path.basename(path))                   *)
SameTarget(f, g) == NameOf[f] = NameOf[g]

(* shutil.move replaces a file of that name in the destination.            *)
Moved(f, destination) ==
  [g \in Files |->
     IF g = f THEN destination
     ELSE IF where[g] = destination /\ SameTarget(f, g) THEN "lost" ELSE where[g]]

MaybeMove_LastPath ==
  /\ main = "move"
  /\ \/ /\ MoveProcessed
        /\ where[Paths[Len(Paths)]] = "input"
        /\ where' = Moved(Paths[Len(Paths)], Destination(current))
     \/ UNCHANGED where
  /\ current' = 0
  /\ main' = "collect"
  /\ UNCHANGED <<pc, result, table, summary>>

MaybeMove_Raises ==
  /\ main = "move"
  /\ \/ /\ MoveProcessed
        /\ where[Paths[current]] = "input"
        /\ where' = Moved(Paths[current], Destination(current))
        /\ main' = "collect"
     \/ UNCHANGED where /\ main' = IF MoveProcessed THEN "raised" ELSE "collect"
  /\ current' = 0
  /\ UNCHANGED <<pc, result, table, summary>>

(* _maybe_move of the current task: best effort.                           *)
MaybeMove ==
  /\ main = "move"
  /\ \/ /\ MoveProcessed
        /\ where[Paths[current]] = "input"
        /\ where' = Moved(Paths[current], Destination(current))
     \/ UNCHANGED where
  /\ current' = 0
  /\ main' = "collect"
  /\ UNCHANGED <<pc, result, table, summary>>

Succeeded == {t \in Tasks : pc[t] = "collected" /\ result[t].success}
Flagged == {t \in Tasks : pc[t] = "collected" /\ result[t].flagged}

(* _build_summary, after the last future.                                  *)
Summarise ==
  /\ main = "collect"
  /\ \A t \in Tasks : pc[t] = "collected"
  /\ summary' = [ total     |-> Len(Paths),
                   succeeded |-> Cardinality(Succeeded),
                   failed    |-> Len(Paths) - Cardinality(Succeeded),
                   flagged   |-> Cardinality(Flagged) ]
  /\ main' = "done"
  /\ UNCHANGED <<current, pc, result, table, where>>

-----------------------------------------------------------------------------
WorkerStep(t) ==
  \/ Start(t) \/ Read(t) \/ GraphRaises(t) \/ GraphWrites(t) \/ GraphWriteFails(t)

MainStep == (\E t \in Tasks : Submit(t) \/ Collect(t)) \/ MaybeMove \/ Summarise

Finished == main = "done" /\ UNCHANGED vars

Next == MainStep \/ (\E t \in Tasks : WorkerStep(t)) \/ Finished

(* The main thread and each worker thread make progress; an app.invoke     *)
(* ends (InvoiceGraph, EveryRunEnds).                                      *)
Spec ==
  /\ Init /\ [][Next]_vars
  /\ WF_vars(MainStep)
  /\ \A t \in Tasks : WF_vars(WorkerStep(t))

-----------------------------------------------------------------------------
(* The values each variable ranges over.                                   *)
TypeOK ==
  /\ main \in {"submit", "collect", "move", "done"}
  /\ current \in Tasks \union {0}
  /\ main = "move" => current \in Tasks
  /\ pc \in [Tasks -> {"new", "queued", "started", "read", "unreadable",
                       "returned", "collected"}]
  /\ result \in [Tasks -> [success : BOOLEAN, rows_written : Nat, flagged : BOOLEAN]]
  /\ table \in [Names -> Seq([task : Tasks, read : BOOLEAN])]
  /\ where \in [Files -> {"input", "archive", "quarantine", "lost"}]

(* No other task of the batch has the invoice_id of task t.                *)
Alone(t) == \A u \in Tasks : IdOf(u) = IdOf(t) => u = t

RowsOf(t) == {k \in DOMAIN table[IdOf(t)] : table[IdOf(t)][k].task = t}

(* A PDF in the archive has been extracted: the table holds rows that were *)
(* made from its text.  The move is made from a result, long after the     *)
(* write, while other tasks write.  Under "merge" this needs an invoice_id *)
(* of its own, since the id is all a MERGE goes by.                        *)
ArchivedIsPersisted ==
  \A t \in Tasks :
    where[Paths[t]] = "archive" /\ (WriteMode = "append" \/ Alone(t)) =>
      \E u \in Tasks : /\ Paths[u] = Paths[t]
                       /\ \E k \in RowsOf(u) : table[IdOf(u)][k].read

(* Under "merge" a later task of the same invoice_id, for the same PDF or  *)
(* for a namesake, replaces the rows of a PDF in the archive.  When nothing*)
(* read is left of them, one of the tasks of that id is reported to fail.  *)
ReplacedRowsAreReported ==
  \A t \in Tasks :
    where[Paths[t]] = "archive" =>
      \/ \E k \in DOMAIN table[IdOf(t)] : table[IdOf(t)][k].read
      \/ \E u \in Tasks : /\ IdOf(u) = IdOf(t) /\ pc[u] \in {"returned", "collected"}
                         /\ ~result[u].success

(* A PDF that left the input volume is where the result of a task of its   *)
(* own says, or a namesake that the batch moved after it overwrote it.     *)
FilesAreAccountedFor ==
  \A t \in Tasks :
    LET Collected(success) == \E u \in Tasks : /\ Paths[u] = Paths[t] /\ pc[u] = "collected"
                                             /\ result[u].success = success
        Overwritten == \E u \in Tasks : /\ IdOf(u) = IdOf(t) /\ Paths[u] # Paths[t]
                                      /\ where[Paths[u]] \in {"archive", "quarantine"}
    IN  \/ where[Paths[t]] = "input"
        \/ where[Paths[t]] = "archive" /\ Collected(TRUE)
        \/ where[Paths[t]] = "quarantine" /\ Collected(FALSE)
        \/ where[Paths[t]] = "lost" /\ Overwritten

(* A PDF is not moved under a task that still has to read it, when each    *)
(* task has a file of its own.                                             *)
NoMoveUnderAReader ==
  [][(\A t \in Tasks : Alone(t)) =>
       \A t \in Tasks : where'[Paths[t]] # where[Paths[t]] => pc[t] = "collected"]_vars

(* At most max_concurrent_invoices graphs run at a time, and one when the  *)
(* setting is zero or negative.                                            *)
ConcurrencyIsCapped ==
  Cardinality(Running) <= IF MaxConcurrent > 1 THEN MaxConcurrent ELSE 1

(* The summary covers every invoice once, and agrees with the archive, the *)
(* quarantine and the table.                                               *)
SummaryIsFaithful ==
  main = "done" =>
    /\ summary.total = Len(Paths)
    /\ summary.succeeded + summary.failed = summary.total
    /\ \A t \in Tasks : pc[t] = "collected"
    /\ Cardinality({f \in Files : where[f] = "archive"}) <= summary.succeeded
    /\ Cardinality({f \in Files : where[f] = "quarantine"}) <= summary.failed
    /\ WriteMode = "append" =>
         \A t \in Tasks : Cardinality(RowsOf(t)) >= result[t].rows_written

(* "A failure in one invoice never blocks or cancels the others": whatever *)
(* fails, the batch ends with a summary.                                   *)
BatchEnds == <>(main = "done")
=============================================================================
