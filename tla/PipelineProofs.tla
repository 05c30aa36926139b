--------------------------- MODULE PipelineProofs ---------------------------
(***************************************************************************)
(* Proofs about Pipeline: run_batch over the graph implements Batch, for   *)
(* every list of distinct invoices, any texts, answers and verdicts, any   *)
(* limit of the pool, any capacity of the cache and both write modes.      *)
(***************************************************************************)
EXTENDS Pipeline, InvoiceGraphProofs

-----------------------------------------------------------------------------
(* Every step of the pipeline is one of the graph or leaves it alone, so   *)
(* what is proved of the graph holds of it in the pipeline too.            *)
LEMMA PipelineStepIsAGraphStep == [PipelineNext]_pipelineVars => [Next]_vars
<1> SUFFICES ASSUME [PipelineNext]_pipelineVars PROVE [Next]_vars
  OBVIOUS
<1>1. ASSUME NEW t \in DOMAIN Order PROVE Order[t] \in Invoices
  BY PipelineAssumption
<1>2. ASSUME NEW t \in DOMAIN Order, RunGraph(t) PROVE Next
  BY <1>1, <1>2 DEF RunGraph, Next
<1>3. ASSUME NEW t \in DOMAIN Order, NEW a \in Agents, RunAgent(t, a) PROVE Next
  BY <1>1, <1>3 DEF RunAgent, Next
<1>4. ASSUME NEW t \in DOMAIN Order, Submit(t) \/ Start(t) \/ Collect(t)
      PROVE  UNCHANGED vars
  BY <1>4 DEF Submit, Start, Collect, SetPool
<1>5. CASE MaybeMove \/ Summarise \/ PipelineDone \/ UNCHANGED pipelineVars
  BY <1>5 DEF MaybeMove, Summarise, PipelineDone, pipelineVars, vars
<1> QED
  BY <1>2, <1>3, <1>4, <1>5 DEF PipelineNext, MainStep

(* The invariant of the graph is one of the pipeline.                      *)
LEMMA PipelineKeepsGraphInv == PipelineSpec => []GraphInv
<1>1. PipelineInit => GraphInv
  BY GraphInit DEF PipelineInit
<1>2. GraphInv /\ [PipelineNext]_pipelineVars => GraphInv'
  BY PipelineStepIsAGraphStep, GraphStepKeepsInv
<1> QED
  BY <1>1, <1>2, PTL DEF PipelineSpec


-----------------------------------------------------------------------------
(* What the batch sees.                                                    *)
LEMMA OrderFacts ==
  /\ Order \in Seq(Invoices) /\ Len(Order) \in Nat /\ DOMAIN Order = 1..Len(Order)
  /\ \A t \in DOMAIN Order : Order[t] \in Invoices /\ TaskOf(Order[t]) = t
  /\ \A t, u \in DOMAIN Order : u # t => Order[u] # Order[t]
<1>1. ASSUME NEW t \in DOMAIN Order PROVE TaskOf(Order[t]) = t
  BY PipelineAssumption DEF TaskOf
<1> QED
  BY <1>1, PipelineAssumption

(* Batch, as Pipeline instantiates it, lists the invoices in order.        *)
LEMMA BatchFacts ==
  /\ B!Paths = Order /\ B!Tasks = DOMAIN Order /\ B!Names = Invoices
  /\ \A t \in DOMAIN Order : B!IdOf(t) = Order[t]
<1>1. B!Paths = Order
  BY DEF B!Paths
<1>2. B!Names = Invoices
  BY DEF B!Names
<1> QED
  BY <1>1, <1>2, OrderFacts DEF B!Tasks, B!IdOf

(* The initial state of the pipeline is one of Batch.                      *)
LEMMA PipelineInitImplements == PipelineInit => B!Init
<1> SUFFICES ASSUME PipelineInit PROVE B!Init
  OBVIOUS
<1>1. \A i \in Invoices : node[i] = "load_invoice" /\ RowsWritten(i) = << >>
  BY DEF PipelineInit, Init, RowsWritten
<1>2. \A t \in DOMAIN Order : Step(t) = "new" /\ Result(t) = B!NoResult
  BY <1>1, OrderFacts DEF PipelineInit, Step, Result, B!NoResult
<1> QED
  BY <1>1, <1>2, BatchFacts DEF PipelineInit, B!Init

(* A step of one run changes nothing that the batch sees of the others.    *)
LEMMA OthersLookTheSame ==
  ASSUME NEW t \in DOMAIN Order, UNCHANGED pool,
         \A j \in Invoices \ {Order[t]} :
           node'[j] = node[j] /\ state'[j] = state[j] /\ table'[j] = table[j]
  PROVE  /\ \A u \in DOMAIN Order : u # t => Step(u)' = Step(u) /\ Result(u)' = Result(u)
         /\ \A j \in Invoices : j # Order[t] => RowsWritten(j)' = RowsWritten(j)
<1>1. ASSUME NEW u \in DOMAIN Order, u # t
      PROVE  Step(u)' = Step(u) /\ Result(u)' = Result(u)
  <2>1. Order[u] \in Invoices \ {Order[t]}
    BY <1>1, OrderFacts
  <2> QED
    BY <2>1 DEF Step, Result
<1>2. ASSUME NEW j \in Invoices, j # Order[t] PROVE RowsWritten(j)' = RowsWritten(j)
  BY <1>2 DEF RowsWritten
<1> QED
  BY <1>1, <1>2

(* A step after which the batch sees nothing new is a stutter.             *)
LEMMA Stutters ==
  ASSUME NEW t \in DOMAIN Order, Running(t),
         \A j \in Invoices \ {Order[t]} :
           node'[j] = node[j] /\ state'[j] = state[j] /\ table'[j] = table[j],
         Step(t)' = Step(t), Result(t)' = Result(t),
         RowsWritten(Order[t])' = RowsWritten(Order[t])
  PROVE  UNCHANGED B!vars
<1>1. /\ \A u \in DOMAIN Order : Step(u)' = Step(u) /\ Result(u)' = Result(u)
      /\ \A j \in Invoices : RowsWritten(j)' = RowsWritten(j)
  BY OthersLookTheSame DEF Running
<1> QED
  BY <1>1 DEF B!vars, Running

(* And one that changes the step, the result or the rows of its task only. *)
LEMMA OneTaskChanges ==
  ASSUME NEW t \in DOMAIN Order, Running(t),
         \A j \in Invoices \ {Order[t]} :
           node'[j] = node[j] /\ state'[j] = state[j] /\ table'[j] = table[j]
  PROVE  /\ [u \in DOMAIN Order |-> Step(u)]'
              = [[u \in DOMAIN Order |-> Step(u)] EXCEPT ![t] = Step(t)']
         /\ [u \in DOMAIN Order |-> Result(u)]'
              = [[u \in DOMAIN Order |-> Result(u)] EXCEPT ![t] = Result(t)']
         /\ [j \in Invoices |-> RowsWritten(j)]'
              = [[j \in Invoices |-> RowsWritten(j)] EXCEPT
                   ![Order[t]] = RowsWritten(Order[t])']
         /\ UNCHANGED <<main, current, where, summary>>
<1>1. /\ \A u \in DOMAIN Order : u # t => Step(u)' = Step(u) /\ Result(u)' = Result(u)
      /\ \A j \in Invoices : j # Order[t] => RowsWritten(j)' = RowsWritten(j)
  BY OthersLookTheSame DEF Running
<1> QED
  BY <1>1 DEF Running


-----------------------------------------------------------------------------
(* The steps of the graph.                                                 *)

(* load_invoice is the Read of the batch.                                  *)
LEMMA LoadImplements ==
  ASSUME GraphInv, NEW t \in DOMAIN Order, RunGraph(t), LoadInvoice(Order[t])
  PROVE  B!Read(t)
<1> DEFINE i == Order[t]
<1>1. i \in Invoices /\ TypeInv /\ RunInv(i)
  BY OrderFacts DEF GraphInv
<1>2. \A j \in Invoices \ {i} :
        node'[j] = node[j] /\ state'[j] = state[j] /\ table'[j] = table[j]
  BY <1>1, NodeStep
<1>3. Running(t) /\ pool[t] = "started" /\ UNCHANGED pool
  BY DEF RunGraph, Running
<1>4. node[i] = "load_invoice" /\ node'[i] = "extract" /\ table[i] = << >> /\ table'[i] = << >>
  BY <1>1 DEF LoadInvoice, TypeInv, RunInv, WriteInv
<1>5. Step(t) = "started" /\ Step(t)' = IF state'[i].load_error THEN "unreadable" ELSE "read"
  BY <1>3, <1>4 DEF Step
<1>6. Result(t)' = Result(t) /\ RowsWritten(i)' = RowsWritten(i)
  BY <1>4 DEF Result, RowsWritten
<1>7. where[i] # "input" => state'[i].load_error
  BY <1>4 DEF RunGraph
<1>8. UNCHANGED <<main, current, where, summary>>
  BY <1>3 DEF Running
<1> QED
  BY <1>1, <1>2, <1>3, <1>5, <1>6, <1>7, <1>8, OneTaskChanges, BatchFacts DEF B!Read

(* An exception that leaves the graph: only runs that have a text come to  *)
(* the model, so the batch has seen them read.                             *)
LEMMA RaiseImplements ==
  ASSUME GraphInv, NEW t \in DOMAIN Order, Running(t),
         JoinExtract(Order[t]) \/ JudgeFails(Order[t]), node'[Order[t]] = "raised"
  PROVE  B!GraphRaises(t)
<1> DEFINE i == Order[t]
<1>1. i \in Invoices /\ TypeInv /\ RunInv(i)
  BY OrderFacts DEF GraphInv
<1>2. /\ RunInv(i)'
      /\ \A j \in Invoices \ {i} :
           node'[j] = node[j] /\ state'[j] = state[j] /\ table'[j] = table[j]
  BY <1>1, NodeStep
<1>3. pool[t] = "started" /\ UNCHANGED <<pool, main, current, where, summary>>
  BY DEF Running
<1>4. node[i] \in {"extract", "judge_disagreement"} /\ UNCHANGED table
  BY DEF JoinExtract, JudgeFails
<1>5. UNCHANGED state
  BY <1>1, <1>4 DEF JoinExtract, JudgeFails, TypeInv
<1>6. ~state[i].load_error
  BY <1>2, <1>5 DEF RunInv, TextInv
<1>7. Step(t) = "read" /\ Step(t)' = "returned"
  BY <1>3, <1>4, <1>6 DEF Step
<1>8. Result(t)' = [success |-> FALSE, rows_written |-> 0, flagged |-> FALSE]
  BY DEF Result
<1>9. RowsWritten(i)' = RowsWritten(i)
  BY <1>4, <1>5 DEF RowsWritten
<1> QED
  BY <1>1, <1>2, <1>3, <1>7, <1>8, <1>9, OneTaskChanges, BatchFacts
     DEF B!GraphRaises, B!Return

(* Between the two the batch sees nothing of a run.                        *)
LEMMA InnerStepStutters ==
  ASSUME GraphInv, NEW t \in DOMAIN Order, Running(t),
         \/ JoinExtract(Order[t]) /\ node'[Order[t]] # "raised"
         \/ Compare(Order[t]) \/ JudgeDisagreement(Order[t])
         \/ \E a \in Agents : AgentStep(Order[t], a)
  PROVE  UNCHANGED B!vars
<1> DEFINE i == Order[t]
           Inside == {"extract", "compare_outputs", "judge_disagreement", "write_to_delta"}
<1>1. i \in Invoices /\ TypeInv /\ CacheIsBounded /\ RunInv(i)
  BY OrderFacts DEF GraphInv
<1>2. pool[t] = "started" /\ UNCHANGED pool
  BY DEF Running
<1>3. /\ i \in Invoices /\ state[i] \in States
      /\ state \in [Invoices -> States] /\ node \in [Invoices -> Nodes]
  BY <1>1 DEF TypeInv
<1>4. ASSUME node[i] \in Inside, node'[i] \in Inside, table'[i] = table[i],
             state'[i].load_error = state[i].load_error,
             \A j \in Invoices \ {i} :
               node'[j] = node[j] /\ state'[j] = state[j] /\ table'[j] = table[j]
      PROVE  UNCHANGED B!vars
  <2>1. Step(t)' = Step(t)
    BY <1>2, <1>4 DEF Step
  <2>2. Result(t)' = Result(t) /\ RowsWritten(i)' = RowsWritten(i)
    BY <1>4 DEF Result, RowsWritten
  <2> QED
    BY <1>4, <2>1, <2>2, Stutters
<1>5. ASSUME NEW a \in Agents, AgentStep(i, a) PROVE UNCHANGED B!vars
  <2>1. UNCHANGED <<node, state, table>>
    BY <1>1, <1>5, ThreadStep
  <2>2. node[i] \in Inside
    BY <1>1, <1>5 DEF AgentStep, SkipExtraction, LookupCache, CallModel, ModelFails,
                      StoreAnswer, CancelSibling, Starting, RunInv, ThreadInv
  <2> QED
    BY <1>4, <2>1, <2>2
<1>6. ASSUME JoinExtract(i) \/ Compare(i) \/ JudgeDisagreement(i), node'[i] # "raised"
      PROVE  UNCHANGED B!vars
  <2>1. \A j \in Invoices \ {i} :
          node'[j] = node[j] /\ state'[j] = state[j] /\ table'[j] = table[j]
    BY <1>1, <1>6, NodeStep
  <2>2. CASE JoinExtract(i)
    <3>1. /\ node[i] = "extract" /\ node'[i] = "compare_outputs" /\ UNCHANGED table
          /\ state' = [state EXCEPT ![i].output = local[i]]
      BY <1>3, <1>6, <2>2 DEF JoinExtract
    <3>2. state'[i].load_error = state[i].load_error
      BY <1>3, <3>1 DEF States
    <3> QED
      BY <1>4, <2>1, <3>1, <3>2
  <2>3. CASE Compare(i)
    <3>1. /\ node[i] = "compare_outputs" /\ UNCHANGED table
          /\ node'[i] \in {"write_to_delta", "judge_disagreement"}
      BY <1>3, <2>3 DEF Compare
    <3>2. state'[i].load_error = state[i].load_error
      BY <1>3, <2>3 DEF Compare, States
    <3> QED
      BY <1>4, <2>1, <3>1, <3>2
  <2>4. CASE JudgeDisagreement(i)
    <3>1. /\ node[i] = "judge_disagreement" /\ UNCHANGED table
          /\ node'[i] = "write_to_delta"
      BY <1>3, <2>4 DEF JudgeDisagreement
    <3>2. state'[i].load_error = state[i].load_error
      <4>1. PICK winner, reason :
              state' = [state EXCEPT ![i].flag_disagreement = TRUE,
                                     ![i].agent_winner = winner,
                                     ![i].justification = reason]
        BY <2>4 DEF JudgeDisagreement
      <4> QED
        BY <1>3, <4>1 DEF States
    <3> QED
      BY <1>4, <2>1, <3>1, <3>2
  <2> QED
    BY <1>6, <2>2, <2>3, <2>4
<1>7. Compare(i) \/ JudgeDisagreement(i) => node'[i] # "raised"
  BY <1>3 DEF Compare, JudgeDisagreement
<1> QED
  BY <1>5, <1>6, <1>7


(* What a run that writes has, and so what the batch may see written.      *)
LEMMA WriteFacts ==
  ASSUME GraphInv, NEW t \in DOMAIN Order, Running(t), node[Order[t]] = "write_to_delta"
  PROVE  LET s == state[Order[t]]
             n == Len(ResultRows(s))
         IN  /\ Step(t) = IF s.load_error THEN "unreadable" ELSE "read"
             /\ s.load_error \in BOOLEAN /\ s.flag_disagreement \in BOOLEAN
             /\ ~s.write_error /\ s.rows_written = 0 /\ table[Order[t]] = << >>
             /\ s.flag_disagreement => Step(t) = "read"
             /\ n \in B!RowCounts(t) /\ n \in Nat /\ DOMAIN ResultRows(s) = 1..n
<1> DEFINE i == Order[t]
           s == state[i]
           n == FrameLength(s.output["agent1"], s.output["agent2"])
<1>1. i \in Invoices /\ TypeInv /\ RunInv(i)
  BY OrderFacts DEF GraphInv
<1>2. s \in States
  BY <1>1 DEF TypeInv
<1>3. Step(t) = IF s.load_error THEN "unreadable" ELSE "read"
  BY DEF Step, Running
<1>4. /\ s.load_error \in BOOLEAN /\ s.flag_disagreement \in BOOLEAN
      /\ s.output["agent1"] \in AnyAnswer /\ s.output["agent2"] \in AnyAnswer
  BY <1>2 DEF States, Agents
<1>5. ~s.write_error /\ s.rows_written = 0 /\ table[i] = << >>
  BY <1>1 DEF RunInv, WriteInv
<1>6. \A a \in Agents : s.output[a] \in Given(i, a)
  BY <1>1 DEF RunInv, ReviewInv, ThreadInv
<1>7. /\ Len(s.output["agent1"]) \in Nat /\ Len(s.output["agent2"]) \in Nat
      /\ n \in {Len(s.output["agent1"]), Len(s.output["agent2"]), 1} /\ n >= 1
  BY <1>4, AnswersAreLists, FrameLengthIsMaximal
<1>8. Len(ResultRows(s)) = n /\ DOMAIN ResultRows(s) = 1..n /\ n \in Nat
  BY <1>4, ResultRowsAreAFrame
<1>9. s.load_error => s.output["agent1"] = << >> /\ s.output["agent2"] = << >>
  BY <1>6 DEF Given, Agents
<1>10. s.flag_disagreement => ~s.load_error
  <2>1. s.match = CompareOutputs(s.output["agent1"], s.output["agent2"])
        /\ (s.flag_disagreement => ~s.match)
    BY <1>1 DEF RunInv, ReviewInv
  <2> QED
    BY <1>9, <2>1, NothingMatches
<1>11. n \in B!RowCounts(t)
  <2>1. CASE s.load_error
    <3>1. n = 1
      BY <1>7, <1>9, <2>1
    <3> QED
      BY <1>3, <2>1, <3>1 DEF B!RowCounts
  <2>2. CASE ~s.load_error
    <3>1. ASSUME NEW a \in Agents PROVE Len(s.output[a]) <= MaxRows
      <4>1. s.output[a] \in Answers[<<a, TextOf[i]>>]
        BY <1>6, <2>2 DEF Given
      <4> HIDE DEF i, s
      <4> QED
        BY <1>1, <4>1, PipelineAssumption
    <3>2. n <= MaxRows /\ MaxRows \in Nat
      BY <1>7, <3>1, PipelineAssumption DEF Agents
    <3> QED
      BY <1>3, <1>7, <1>8, <2>2, <3>2 DEF B!RowCounts
  <2> QED
    BY <2>1, <2>2
<1> QED
  BY <1>3, <1>4, <1>5, <1>8, <1>10, <1>11

(* Rows for an id that has none yet: an append and a MERGE do the same.    *)
LEMMA FirstRows ==
  ASSUME NEW T, NEW id, NEW S, NEW rows \in Seq(S), T[id] = << >>
  PROVE  /\ B!AfterAppend(T, id, rows) = [T EXCEPT ![id] = rows]
         /\ B!AfterMerge(T, id, rows) = [T EXCEPT ![id] = rows]
         /\ ~B!MergeIsAmbiguous(T, id, rows)
<1>1. Len(T[id]) = 0 /\ T[id] \o rows = rows
  OBVIOUS
<1>2. B!AfterAppend(T, id, rows) = [T EXCEPT ![id] = T[id] \o rows]
  BY DEF B!AfterAppend
<1>3. B!AfterMerge(T, id, rows) =
        [T EXCEPT ![id] = IF Len(T[id]) = 0 THEN rows ELSE [k \in DOMAIN T[id] |-> rows[1]]]
  BY DEF B!AfterMerge
<1>4. ~B!MergeIsAmbiguous(T, id, rows)
  BY <1>1 DEF B!MergeIsAmbiguous
<1> QED
  BY <1>1, <1>2, <1>3, <1>4

(* The first rows of an invoice are a commit of the batch.                 *)
LEMMA CommitImplements ==
  ASSUME GraphInv, NEW t \in DOMAIN Order, Running(t), Writes(Order[t]),
         table' = [table EXCEPT ![Order[t]] = ResultRows(state[Order[t]])]
  PROVE  B!Commit(t, Len(ResultRows(state[Order[t]])))
<1> DEFINE i == Order[t]
           s == state[i]
           n == Len(ResultRows(s))
           seen == [j \in Invoices |-> RowsWritten(j)]
<1>1. i \in Invoices /\ TypeInv /\ RunInv(i) /\ TaskOf(i) = t
  BY OrderFacts DEF GraphInv
<1>2. /\ Step(t) = IF s.load_error THEN "unreadable" ELSE "read"
      /\ s.load_error \in BOOLEAN /\ table[i] = << >>
      /\ n \in Nat /\ DOMAIN ResultRows(s) = 1..n
  BY WriteFacts DEF Writes
<1>3. table'[i] = ResultRows(s)
  BY <1>1 DEF TypeInv
<1>4. state'[i].load_error = s.load_error
  BY <1>1 DEF TypeInv, States, Writes
<1>5. RowsWritten(i)' = B!Rows(t, n)
  BY <1>1, <1>2, <1>3, <1>4 DEF RowsWritten, B!Rows
<1>6. RowsWritten(i) = << >> /\ seen[i] = << >>
  BY <1>1, <1>2 DEF RowsWritten
<1>7. seen' = [seen EXCEPT ![i] = B!Rows(t, n)]
  <2>1. \A j \in Invoices \ {i} :
          node'[j] = node[j] /\ state'[j] = state[j] /\ table'[j] = table[j]
    BY <1>1, NodeStep
  <2>2. seen' = [seen EXCEPT ![i] = RowsWritten(i)']
    BY <2>1, OneTaskChanges
  <2> QED
    BY <1>5, <2>2
<1>8. B!Rows(t, n) \in Seq({B!Rows(t, n)[k] : k \in 1..n})
  BY <1>2 DEF B!Rows
<1>9. /\ B!AfterAppend(seen, i, B!Rows(t, n)) = [seen EXCEPT ![i] = B!Rows(t, n)]
      /\ B!AfterMerge(seen, i, B!Rows(t, n)) = [seen EXCEPT ![i] = B!Rows(t, n)]
      /\ ~B!MergeIsAmbiguous(seen, i, B!Rows(t, n))
  BY <1>6, <1>8, FirstRows
<1>10. B!IdOf(t) = i
  BY BatchFacts
<1>11. B!Commit(t, n)
  <2> HIDE DEF n
  <2> QED
    BY <1>7, <1>9, <1>10 DEF B!Commit
<1> QED
  BY <1>11

(* The write of a run is one of the batch, or a failed one.                *)
LEMMA WriteImplements ==
  ASSUME GraphInv, NEW t \in DOMAIN Order, Running(t), Writes(Order[t])
  PROVE  B!GraphWrites(t) \/ B!GraphWriteFails(t)
<1> DEFINE i == Order[t]
           s == state[i]
           n == Len(ResultRows(s))
<1>1. i \in Invoices /\ TypeInv /\ RunInv(i) /\ s \in States
  BY OrderFacts DEF GraphInv, TypeInv
<1>2. /\ Step(t) = IF s.load_error THEN "unreadable" ELSE "read"
      /\ s.load_error \in BOOLEAN /\ s.flag_disagreement \in BOOLEAN
      /\ ~s.write_error /\ s.rows_written = 0 /\ table[i] = << >>
      /\ s.flag_disagreement => Step(t) = "read"
      /\ n \in B!RowCounts(t) /\ n \in Nat
  BY WriteFacts DEF Writes
<1>3. \A j \in Invoices \ {i} :
        node'[j] = node[j] /\ state'[j] = state[j] /\ table'[j] = table[j]
  BY <1>1, NodeStep
<1>4. pool[t] = "started" /\ UNCHANGED <<pool, main, current, where, summary>>
  BY DEF Running
<1>5. node'[i] = "END" /\ Step(t)' = "returned"
  BY <1>1, <1>4 DEF Writes, TypeInv, Step
<1>6. CASE /\ table' = [table EXCEPT ![i] = ResultRows(s)]
           /\ state' = [state EXCEPT ![i].rows_written = n]
  <2>1. /\ state'[i].load_error = s.load_error /\ state'[i].write_error = s.write_error
        /\ state'[i].flag_disagreement = s.flag_disagreement /\ state'[i].rows_written = n
    BY <1>1, <1>6 DEF TypeInv, States
  <2>2. Result(t)' = [ success |-> B!Succeeds(Step(t) = "unreadable", FALSE),
                       rows_written |-> n, flagged |-> s.flag_disagreement ]
    BY <1>2, <1>5, <2>1 DEF Result, B!Succeeds
  <2>3. B!Commit(t, n)
    BY <1>6, CommitImplements
  <2>4. B!Return(t, B!Succeeds(Step(t) = "unreadable", FALSE), n, s.flag_disagreement)
    BY <1>3, <1>5, <2>2, OneTaskChanges DEF B!Return
  <2>5. B!GraphWrites(t)
    BY <1>2, <1>4, <2>3, <2>4 DEF B!GraphWrites
  <2> QED
    BY <2>5
<1>7. CASE /\ table' = table \/ table' = [table EXCEPT ![i] = ResultRows(s)]
           /\ state' = [state EXCEPT ![i].write_error = TRUE]
  <2>1. /\ state'[i].load_error = s.load_error /\ state'[i].write_error
        /\ state'[i].flag_disagreement = s.flag_disagreement /\ state'[i].rows_written = 0
    BY <1>1, <1>2, <1>7 DEF TypeInv, States
  <2>2. Result(t)' = [ success |-> B!Succeeds(Step(t) = "unreadable", TRUE),
                       rows_written |-> 0, flagged |-> s.flag_disagreement ]
    BY <1>2, <1>5, <2>1 DEF Result, B!Succeeds
  <2>3. UNCHANGED [j \in Invoices |-> RowsWritten(j)] \/ B!Commit(t, n)
    <3>1. CASE table' = table
      <4>1. \A j \in Invoices : RowsWritten(j)' = RowsWritten(j)
        BY <1>3, <2>1, <3>1 DEF RowsWritten
      <4> QED
        BY <4>1
    <3>2. CASE table' = [table EXCEPT ![i] = ResultRows(s)]
      BY <3>2, CommitImplements
    <3> QED
      BY <1>7, <3>1, <3>2
  <2>4. B!Return(t, B!Succeeds(Step(t) = "unreadable", TRUE), 0, s.flag_disagreement)
    BY <1>3, <1>5, <2>2, OneTaskChanges DEF B!Return
  <2>5. B!GraphWriteFails(t)
    BY <1>2, <1>4, <2>3, <2>4 DEF B!GraphWriteFails
  <2> QED
    BY <2>5
<1> QED
  BY <1>6, <1>7 DEF Writes


(* Every step of the pipeline is a step of Batch, or one it does not see.  *)
LEMMA PipelineStepImplements ==
  ASSUME GraphInv, [PipelineNext]_pipelineVars
  PROVE  [B!Next]_(B!vars)
<1>0. \A t \in DOMAIN Order : Order[t] \in Invoices
  BY OrderFacts
<1>1. ASSUME NEW t \in DOMAIN Order, RunGraph(t) PROVE [B!Next]_(B!vars)
  <2>1. Running(t)
    BY <1>1 DEF RunGraph
  <2>2. CASE LoadInvoice(Order[t])
    BY <1>1, <2>2, LoadImplements, BatchFacts DEF B!Next, B!WorkerStep
  <2>3. CASE (JoinExtract(Order[t]) \/ JudgeFails(Order[t])) /\ node'[Order[t]] = "raised"
    BY <2>1, <2>3, RaiseImplements, BatchFacts DEF B!Next, B!WorkerStep
  <2>4. CASE \/ JoinExtract(Order[t]) /\ node'[Order[t]] # "raised"
             \/ Compare(Order[t]) \/ JudgeDisagreement(Order[t])
    BY <2>1, <2>4, InnerStepStutters
  <2>5. CASE WriteToDelta(Order[t]) \/ WriteFails(Order[t])
    <3>1. Writes(Order[t])
      BY <1>0, <2>5, WriteStep DEF GraphInv
    <3> QED
      BY <2>1, <3>1, WriteImplements, BatchFacts DEF B!Next, B!WorkerStep
  <2>6. JudgeFails(Order[t]) => node'[Order[t]] = "raised"
    BY <1>0 DEF JudgeFails, GraphInv, TypeInv
  <2> QED
    BY <1>1, <2>2, <2>3, <2>4, <2>5, <2>6 DEF RunGraph, GraphStep
<1>2. ASSUME NEW t \in DOMAIN Order, NEW a \in Agents, RunAgent(t, a)
      PROVE  [B!Next]_(B!vars)
  BY <1>2, InnerStepStutters DEF RunAgent
<1>3. ASSUME NEW t \in DOMAIN Order, Submit(t) \/ Start(t) \/ Collect(t)
      PROVE  [B!Next]_(B!vars)
  BY <1>3, BatchFacts DEF Submit, Start, Collect, B!Next, B!MainStep, B!WorkerStep
<1>4. CASE MaybeMove \/ Summarise
  BY <1>4 DEF MaybeMove, Summarise, B!Next, B!MainStep
<1>5. CASE PipelineDone \/ UNCHANGED pipelineVars
  BY <1>5 DEF PipelineDone, pipelineVars, vars, B!vars, Step, Result, RowsWritten
<1> QED
  BY <1>1, <1>2, <1>3, <1>4, <1>5 DEF PipelineNext, MainStep

(* The pipeline implements Batch: to its caller, run_batch over the real   *)
(* graph, with its agents' threads, its shared cache, its judge and its    *)
(* writes, behaves as over an app.invoke that reads and then raises or     *)
(* writes once.                                                            *)
THEOREM ImplementsBatchHolds == PipelineSpec => ImplementsBatch
<1>1. PipelineInit => B!Init
  BY PipelineInitImplements
<1>2. GraphInv /\ [PipelineNext]_pipelineVars => [B!Next]_(B!vars)
  BY PipelineStepImplements
<1> QED
  BY <1>1, <1>2, PipelineKeepsGraphInv, PTL DEF PipelineSpec, ImplementsBatch

(* Also when a batch runs the graphs, in a pool and beside moves of the    *)
(* PDFs, each invoice has the rows of its own text.                        *)
THEOREM PipelineRowsHold == PipelineSpec => []RowsComeFromTheInvoice
<1>1. GraphInv => RowsComeFromTheInvoice
  BY GraphInvGivesRows
<1> QED
  BY <1>1, PipelineKeepsGraphInv, PTL


-----------------------------------------------------------------------------
(* Batch with the proofs about it, over the same mapping as B.             *)
BP == INSTANCE BatchProofs WITH
        Files        <- Invoices,
        NameOf       <- [i \in Invoices |-> i],
        Discovered   <- Order,
        InvoicePaths <- Null,
        pc           <- [t \in DOMAIN Order |-> Step(t)],
        result       <- [t \in DOMAIN Order |-> Result(t)],
        table        <- [i \in Invoices |-> RowsWritten(i)]

(* What the proofs about Batch assume, the pipeline's constants satisfy.   *)
LEMMA BatchAssumptionHolds == BP!BatchAssumption
  BY PipelineAssumption, GraphAssumption, OrderFacts DEF BP!BatchAssumption, BP!Paths, BP!Names

(* The two instances say the same: first the state, then each action.      *)
LEMMA SameState ==
  /\ BP!vars = B!vars /\ BP!vars' = B!vars'
  /\ BP!Tasks = B!Tasks /\ BP!Paths = B!Paths /\ \A t : BP!IdOf(t) = B!IdOf(t)
  /\ BP!Running = B!Running /\ BP!MaxWorkers = B!MaxWorkers
<1>1. BP!Paths = B!Paths
  BY DEF BP!Paths, B!Paths
<1>2. BP!Tasks = B!Tasks /\ BP!MaxWorkers = B!MaxWorkers /\ \A t : BP!IdOf(t) = B!IdOf(t)
  BY <1>1 DEF BP!Tasks, B!Tasks, BP!MaxWorkers, B!MaxWorkers, BP!IdOf, B!IdOf
<1>3. BP!Running = B!Running
  BY <1>2 DEF BP!Running, B!Running
<1> QED
  BY <1>1, <1>2, <1>3 DEF BP!vars, B!vars

(* The two instances of Batch have the same initial states,                *)
LEMMA SameInit == BP!Init <=> B!Init
<1>1. BP!Names = B!Names
  BY DEF BP!Names, B!Names
<1> QED
  BY <1>1, SameState
     DEF BP!Init, B!Init, BP!NoResult, B!NoResult, BP!EmptySummary, B!EmptySummary

(* count alike,                                                            *)
LEMMA SameCardinality == \A S : BP!Cardinality(S) = B!Cardinality(S)
  BY DEF BP!Cardinality, B!Cardinality

(* write alike,                                                            *)
LEMMA SameWrites ==
  ASSUME NEW t
  PROVE  /\ BP!GraphWrites(t) <=> B!GraphWrites(t)
         /\ BP!GraphWriteFails(t) <=> B!GraphWriteFails(t)
<1>1. BP!RowCounts(t) = B!RowCounts(t) /\ \A n : BP!Rows(t, n) = B!Rows(t, n)
  BY DEF BP!RowCounts, B!RowCounts, BP!Rows, B!Rows
<1>2. ASSUME NEW T, NEW id, NEW rows
      PROVE  /\ BP!AfterAppend(T, id, rows) = B!AfterAppend(T, id, rows)
             /\ BP!AfterMerge(T, id, rows) = B!AfterMerge(T, id, rows)
             /\ BP!MergeIsAmbiguous(T, id, rows) <=> B!MergeIsAmbiguous(T, id, rows)
  BY DEF BP!AfterAppend, B!AfterAppend, BP!AfterMerge, B!AfterMerge,
         BP!MergeIsAmbiguous, B!MergeIsAmbiguous
<1>3. ASSUME NEW n PROVE BP!Commit(t, n) <=> B!Commit(t, n)
  BY <1>1, <1>2, SameState DEF BP!Commit, B!Commit
<1>4. BP!GraphWrites(t) <=> B!GraphWrites(t)
  BY <1>1, <1>3 DEF BP!GraphWrites, B!GraphWrites, BP!Return, B!Return,
                    BP!Succeeds, B!Succeeds
<1>5. BP!GraphWriteFails(t) <=> B!GraphWriteFails(t)
  BY <1>1, <1>3 DEF BP!GraphWriteFails, B!GraphWriteFails, BP!Return, B!Return,
                    BP!Succeeds, B!Succeeds
<1> QED
  BY <1>4, <1>5

(* and take the same steps.                                                *)
LEMMA SameNext == BP!Next <=> B!Next
<1>1. ASSUME NEW t PROVE BP!Submit(t) <=> B!Submit(t)
  BY SameState DEF BP!Submit, B!Submit
<1>2. ASSUME NEW t PROVE BP!Start(t) <=> B!Start(t)
  BY SameState, SameCardinality DEF BP!Start, B!Start
<1>3. ASSUME NEW t PROVE BP!Read(t) <=> B!Read(t)
  BY SameState DEF BP!Read, B!Read
<1>4. ASSUME NEW t PROVE BP!GraphRaises(t) <=> B!GraphRaises(t)
  BY DEF BP!GraphRaises, B!GraphRaises, BP!Return, B!Return
<1>5. ASSUME NEW t PROVE BP!Collect(t) <=> B!Collect(t)
  BY DEF BP!Collect, B!Collect
<1>6. BP!MaybeMove <=> B!MaybeMove
  <2>1. ASSUME NEW t PROVE BP!Destination(t) = B!Destination(t)
    BY DEF BP!Destination, B!Destination
  <2>2. ASSUME NEW f, NEW d PROVE BP!Moved(f, d) = B!Moved(f, d)
    BY DEF BP!Moved, B!Moved, BP!SameTarget, B!SameTarget
  <2> QED
    BY <2>1, <2>2, SameState DEF BP!MaybeMove, B!MaybeMove
<1>7. BP!Summarise <=> B!Summarise
  <2>1. BP!Succeeded = B!Succeeded /\ BP!Flagged = B!Flagged
    BY SameState DEF BP!Succeeded, B!Succeeded, BP!Flagged, B!Flagged
  <2> QED
    BY <2>1, SameState, SameCardinality DEF BP!Summarise, B!Summarise
<1> QED
  BY <1>1, <1>2, <1>3, <1>4, <1>5, <1>6, <1>7, SameState, SameWrites
     DEF BP!Next, B!Next, BP!MainStep, B!MainStep, BP!WorkerStep, B!WorkerStep,
         BP!Finished, B!Finished

-----------------------------------------------------------------------------
(* What the steps of Batch keep, the steps of the pipeline keep.           *)
BatchInv == BP!SummaryInv /\ BP!PoolInv /\ BP!LostInv /\ BP!ReplacedInv

(* The invariants of Batch hold at first.                                  *)
LEMMA PipelineInitKeeps == PipelineInit => BatchInv
<1> SUFFICES ASSUME PipelineInit PROVE BatchInv
  OBVIOUS
<1>1. BP!Init
  BY PipelineInitImplements, SameInit
<1>2. BP!SummaryInv
  BY <1>1, BatchAssumptionHolds, BP!SummaryInit DEF BP!SummaryInit
<1>3. BP!PoolInv
  BY <1>1, BatchAssumptionHolds, BP!PoolInit DEF BP!PoolInit
<1>4. BP!LostInv
  BY <1>1, BatchAssumptionHolds, BP!LostInit DEF BP!LostInit
<1>5. BP!ReplacedInv
  BY <1>1, BatchAssumptionHolds, BP!ReplacedInit DEF BP!ReplacedInit
<1> QED
  BY <1>2, <1>3, <1>4, <1>5 DEF BatchInv

(* A step of Pipeline is one of Batch, and those keep the invariants.      *)
LEMMA PipelineStepKeeps == GraphInv /\ BatchInv /\ [PipelineNext]_pipelineVars => BatchInv'
<1> SUFFICES ASSUME GraphInv, BatchInv, [PipelineNext]_pipelineVars PROVE BatchInv'
  OBVIOUS
<1>1. [BP!Next]_(BP!vars)
  BY PipelineStepImplements, SameNext, SameState
<1>2. /\ BP!SummaryInv /\ BP!PersistInv /\ BP!TypeOK
      /\ BP!PoolInv /\ BP!LostInv /\ BP!ReplacedInv
  BY DEF BatchInv, BP!SummaryInv, BP!PersistInv
<1>3. BP!SummaryInv'
  BY <1>1, <1>2, BatchAssumptionHolds, BP!SummaryStep DEF BP!SummaryStep
<1>4. BP!PoolInv'
  BY <1>1, <1>2, BatchAssumptionHolds, BP!PoolStep DEF BP!PoolStep
<1>5. BP!LostInv'
  BY <1>1, <1>2, BatchAssumptionHolds, BP!LostStep DEF BP!LostStep
<1>6. BP!ReplacedInv'
  BY <1>1, <1>2, BatchAssumptionHolds, BP!ReplacedStep DEF BP!ReplacedStep
<1> QED
  BY <1>3, <1>4, <1>5, <1>6 DEF BatchInv

(* So the properties proved of Batch hold of run_batch over the graph: an  *)
(* archived PDF has rows made from its text in the table, every PDF is     *)
(* where a result of its own says, rows are replaced by nulls only with a  *)
(* failure reported, the pool is never exceeded, and the summary agrees    *)
(* with the archive, the quarantine and the table.                         *)
THEOREM BatchPropertiesHold ==
  PipelineSpec => [](/\ BP!ArchivedIsPersisted /\ BP!ReplacedRowsAreReported
                     /\ BP!FilesAreAccountedFor /\ BP!ConcurrencyIsCapped /\ BP!SummaryIsFaithful)
<1>1. BatchInv => /\ BP!ArchivedIsPersisted /\ BP!ReplacedRowsAreReported
                  /\ BP!FilesAreAccountedFor /\ BP!ConcurrencyIsCapped /\ BP!SummaryIsFaithful
  <2> SUFFICES ASSUME BatchInv
               PROVE  /\ BP!ArchivedIsPersisted /\ BP!ReplacedRowsAreReported
                      /\ BP!FilesAreAccountedFor /\ BP!ConcurrencyIsCapped /\ BP!SummaryIsFaithful
    OBVIOUS
  <2>1. BP!SummaryInv /\ BP!PersistInv /\ BP!PoolInv /\ BP!LostInv /\ BP!ReplacedInv
    BY DEF BatchInv, BP!SummaryInv
  <2>2. BP!ArchivedIsPersisted
    BY <2>1, BatchAssumptionHolds, BP!PersistImplies DEF BP!PersistImplies
  <2>3. BP!ConcurrencyIsCapped
    BY <2>1, BatchAssumptionHolds, BP!PoolImplies DEF BP!PoolImplies
  <2>4. BP!SummaryIsFaithful
    BY <2>1, BatchAssumptionHolds, BP!SummaryImplies DEF BP!SummaryImplies
  <2>5. BP!FilesAreAccountedFor
    BY <2>1, BatchAssumptionHolds, BP!FilesImplies DEF BP!FilesImplies
  <2>6. BP!ReplacedRowsAreReported
    BY <2>1, BatchAssumptionHolds, BP!ReplacedImplies DEF BP!ReplacedImplies
  <2> QED
    BY <2>2, <2>3, <2>4, <2>5, <2>6
<1> QED
  BY <1>1, PipelineInitKeeps, PipelineStepKeeps, PipelineKeepsGraphInv, PTL DEF PipelineSpec


(* End to end: a PDF reaches the archive only when its rows, all those its *)
(* run reported, are in the table, and they are the answers of the two     *)
(* agents to its own text.                                                 *)
THEOREM ArchivedIsExtractedHolds == PipelineSpec => []ArchivedIsExtracted
<1>1. GraphInv /\ BatchInv => ArchivedIsExtracted
  <2>1. SUFFICES ASSUME GraphInv, BatchInv, NEW i \in Invoices, where[i] = "archive"
        PROVE  /\ Len(table[i]) = state[i].rows_written /\ Len(table[i]) >= 1
               /\ \A a \in Agents :
                    LET columns == IF a = "agent1" THEN A1Fields ELSE A2Fields
                    IN  \E rows \in Answers[<<a, TextOf[i]>>] :
                          /\ Len(rows) <= Len(table[i])
                          /\ \A k \in DOMAIN table[i] :
                               table[i][k].cells[a] = Side(rows, columns, k)
    BY DEF ArchivedIsExtracted
  <2>2. BP!ArchiveInv
    BY <2>1 DEF BatchInv, BP!SummaryInv, BP!PersistInv
  <2>3. PICK t \in DOMAIN Order : Order[t] = i /\ Result(t).success
    <3>1. BP!Tasks = DOMAIN Order /\ BP!Paths = Order
      BY SameState, BatchFacts
    <3> QED
      BY <2>1, <2>2, <3>1 DEF BP!ArchiveInv
  <2>4. node[i] = "END" /\ ~state[i].load_error /\ ~state[i].write_error
    BY <2>3 DEF Result
  <2>5. /\ ReportMatchesTable /\ RowsComeFromTheInvoice
    BY <2>1, GraphInvGivesReport, GraphInvGivesRows
  <2>6. Len(table[i]) = state[i].rows_written /\ Len(table[i]) >= 1
    BY <2>4, <2>5 DEF ReportMatchesTable
  <2>7. table[i] # << >>
    BY <2>6
  <2> QED
    BY <2>4, <2>5, <2>6, <2>7 DEF RowsComeFromTheInvoice
<1> QED
  BY <1>1, PipelineInitKeeps, PipelineStepKeeps, PipelineKeepsGraphInv, PTL DEF PipelineSpec
=============================================================================
