------------------------------ MODULE Pipeline ------------------------------
(***************************************************************************)
(* run_batch over the compiled graph: InvoiceGraph's concurrent runs, each *)
(* started by a worker of Batch's thread pool, collected by its main       *)
(* thread, which then moves the PDF.  One cache and one table for all.     *)
(*                                                                         *)
(* Batch reduces app.invoke to what its caller sees.  Here the invocation  *)
(* is the graph itself, and Batch is the abstract specification: its pc,   *)
(* result and table are functions of the pool and of the graph's state.    *)
(***************************************************************************)
EXTENDS InvoiceGraph

CONSTANTS
  Order,          \* sorted(glob(...)): the invoices in the input volume
  MaxConcurrent,  \* config.max_concurrent_invoices
  MoveProcessed,  \* the argument move_processed
  MaxRows         \* bound: rows of one invoice

ASSUME PipelineAssumption ==
  /\ Order \in Seq(Invoices)
  /\ \A i \in Invoices : \E t \in DOMAIN Order : Order[t] = i
  /\ \A t, u \in DOMAIN Order : Order[t] = Order[u] => t = u
  /\ MaxConcurrent \in Int
  /\ MoveProcessed \in BOOLEAN
  /\ MaxRows \in Nat \ {0}
  /\ \A i \in Invoices, a \in Agents : \A rows \in Answers[<<a, TextOf[i]>>] : Len(rows) <= MaxRows

VARIABLES
  main,     \* the main thread, as in Batch
  current,  \* the task whose result is being handled, 0 when none
  pool,     \* [tasks -> "new", "queued", "started" or "collected"]
  where,    \* [Invoices -> the directory that holds the PDF]
  summary   \* the BatchSummary

pipelineVars == <<main, current, pool, where, summary, vars>>

TaskOf(i) == CHOOSE t \in DOMAIN Order : Order[t] = i

-----------------------------------------------------------------------------
(* What the batch sees of task t.                                          *)
Step(t) ==
  LET i == Order[t]
  IN  IF pool[t] # "started" THEN pool[t]
      ELSE IF node[i] = "load_invoice" THEN "started"
      ELSE IF node[i] \in {"END", "raised"} THEN "returned"
      ELSE IF state[i].load_error THEN "unreadable" ELSE "read"

Result_OfTheWrite(t) ==
  LET s == state[Order[t]]
  IN  [ success      |-> node[Order[t]] = "END" /\ ~s.write_error,
        rows_written |-> s.rows_written, flagged |-> s.flag_disagreement ]

(* _process_one: what it returns, made from the final state or from the    *)
(* exception that app.invoke raised.                                       *)
Result(t) ==
  LET s == state[Order[t]]
  IN  IF node[Order[t]] # "END"
      THEN [success |-> FALSE, rows_written |-> 0, flagged |-> FALSE]
      ELSE [ success      |-> ~s.load_error /\ ~s.write_error,
             rows_written |-> s.rows_written,
             flagged      |-> s.flag_disagreement ]

RowsWritten(i) ==
  [k \in DOMAIN table[i] |-> [task |-> TaskOf(i), read |-> ~state[i].load_error]]

B == INSTANCE Batch WITH
       Files        <- Invoices,
       NameOf       <- [i \in Invoices |-> i],
       Discovered   <- Order,
       InvoicePaths <- Null,
       pc           <- [t \in DOMAIN Order |-> Step(t)],
       result       <- [t \in DOMAIN Order |-> Result(t)],
       table        <- [i \in Invoices |-> RowsWritten(i)]

-----------------------------------------------------------------------------
PipelineInit ==
  /\ Init
  /\ main = IF Order = << >> THEN "done" ELSE "submit"
  /\ current = 0
  /\ pool = [t \in DOMAIN Order |-> "new"]
  /\ where = [i \in Invoices |-> "input"]
  /\ summary = B!EmptySummary

SetPool(t, step) == pool' = [pool EXCEPT ![t] = step] /\ UNCHANGED vars

Submit(t) == SetPool(t, "queued") /\ B!Submit(t)

(* A worker takes the task and calls app.invoke.                           *)
Start(t) == SetPool(t, "started") /\ B!Start(t)

(* future.result(), once the graph has ended.                              *)
Collect(t) == SetPool(t, "collected") /\ B!Collect(t)

MaybeMove == UNCHANGED <<vars, pool>> /\ B!MaybeMove

Summarise == UNCHANGED <<vars, pool>> /\ B!Summarise

(* A step of the graph, in a thread of a worker; a PDF that is not in the  *)
(* input volume any more cannot be read.                                   *)
Running(t) == pool[t] = "started" /\ UNCHANGED <<main, current, pool, where, summary>>

RunGraph(t) ==
  /\ Running(t)
  /\ GraphStep(Order[t])
  /\ node[Order[t]] = "load_invoice" /\ where[Order[t]] # "input" => state'[Order[t]].load_error

RunAgent(t, a) == Running(t) /\ AgentStep(Order[t], a)

MainStep == (\E t \in DOMAIN Order : Submit(t) \/ Collect(t)) \/ MaybeMove \/ Summarise

PipelineDone == main = "done" /\ UNCHANGED pipelineVars

PipelineNext ==
  \/ MainStep
  \/ \E t \in DOMAIN Order : Start(t) \/ RunGraph(t) \/ \E a \in Agents : RunAgent(t, a)
  \/ PipelineDone

(* The main thread, the pool's workers and the threads of the graph run.   *)
PipelineSpec ==
  /\ PipelineInit /\ [][PipelineNext]_pipelineVars
  /\ WF_pipelineVars(MainStep)
  /\ \A t \in DOMAIN Order :
       /\ WF_pipelineVars(Start(t)) /\ WF_pipelineVars(RunGraph(t))
       /\ \A a \in Agents : WF_pipelineVars(RunAgent(t, a))

-----------------------------------------------------------------------------
(* The detailed pipeline implements Batch: whatever the threads of the     *)
(* graph do, its caller sees an invocation that reads, then raises or      *)
(* writes, and a result and a table that agree.  So what is proved of      *)
(* Batch holds of run_batch over the real graph.                           *)
ImplementsBatch == B!Init /\ [][B!Next]_(B!vars)

(* A PDF that the main thread archived is in the table with all the rows   *)
(* that its run reported, and they are, on either side, one answer of that *)
(* agent to the text of that very PDF, whatever the threads of other runs  *)
(* of the batch did to the shared cache and table.  It is about invoices   *)
(* that had no rows in the table before the batch, as Init has it.         *)
ArchivedIsExtracted ==
  \A i \in Invoices : where[i] = "archive" =>
    /\ Len(table[i]) = state[i].rows_written /\ Len(table[i]) >= 1
    /\ \A a \in Agents :
         LET columns == IF a = "agent1" THEN A1Fields ELSE A2Fields
         IN  \E rows \in Answers[<<a, TextOf[i]>>] :
               /\ Len(rows) <= Len(table[i])
               /\ \A k \in DOMAIN table[i] : table[i][k].cells[a] = Side(rows, columns, k)

(* The batch ends with a summary, also when agents, judge, writes or moves *)
(* fail and the cache is shared by all that run.                           *)
PipelineEnds == <>(main = "done")
=============================================================================
