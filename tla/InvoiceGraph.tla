---------------------------- MODULE InvoiceGraph ----------------------------
(***************************************************************************)
(* graph.py: concurrent runs of the compiled graph, app.invoke(state), one *)
(* per invoice, over one extraction cache, one chat model and one table.   *)
(*                                                                         *)
(*   load_invoice -> agent1_extract || agent2_extract -> compare_outputs   *)
(*     -> (judge_disagreement ->) write_to_delta -> END                    *)
(*                                                                         *)
(* LangGraph runs the nodes of a superstep in threads of their own and     *)
(* applies what they return when all have returned; if one raises, invoke  *)
(* waits for the ones that run and raises.  The chat model is any member   *)
(* of Answers and Verdicts, or an exception that with_retry (Retry.tla)    *)
(* lets through.  The table exists already (_merge_into_delta's other      *)
(* branch appends).                                                        *)
(***************************************************************************)
EXTENDS Comparison, ResponseCache, DeltaTable

CONSTANTS
  Invoices,     \* the invoices; invoice_id is the invoice itself
  TextOf,       \* invoice -> the cleaned text of its PDF
  NoText,       \* the empty text
  Null,         \* None
  Answers,      \* <<agent, text>> -> what extract_json may make of an answer
  Verdicts,     \* parsed[0] of the judge: [winner, justification], Null if absent
  EnableCache,  \* config.llm.enable_cache
  WriteMode     \* config.storage.write_mode

Agents == {"agent1", "agent2"}

(* The justification when the judge's answer has none.                     *)
NotParsed == "Judge response could not be parsed."

(* extract_json returns a list, whatever its elements are.                 *)
IsAList(rows) == rows \in Seq({rows[k] : k \in DOMAIN rows})

ASSUME GraphAssumption ==
  /\ MaxEntries \in Nat \ {0}
  /\ EnableCache \in BOOLEAN
  /\ WriteMode \in {"append", "merge"}
  /\ \A i \in Invoices : TextOf[i] # NoText
  /\ Null \notin Agents \union {"unresolved", NotParsed}
  /\ IsFiniteSet(Invoices)
  /\ \A i \in Invoices, a \in Agents : \A rows \in Answers[<<a, TextOf[i]>>] : IsAList(rows)

VARIABLES
  node,    \* [Invoices -> the node the run is at, "END" or "raised"]
  state,   \* [Invoices -> InvoiceState]
  thread,  \* [Invoices -> [Agents -> step of that agent's node in the superstep]]
  local,   \* [Invoices -> [Agents -> the value the node is about to return]]
  cache,   \* the InMemoryCache of this graph build
  table    \* [Invoices -> rows with that invoice_id]

vars == <<node, state, thread, local, cache, table>>

-----------------------------------------------------------------------------
(* initial_state(path, invoice_id)                                         *)
InitialState ==
  [ raw_pdf_text |-> NoText, load_error |-> FALSE,
    output |-> [a \in Agents |-> << >>], match |-> FALSE,
    flag_disagreement |-> FALSE, agent_winner |-> Null, justification |-> Null,
    rows_written |-> 0, write_error |-> FALSE ]

Init ==
  /\ node = [i \in Invoices |-> "load_invoice"]
  /\ state = [i \in Invoices |-> InitialState]
  /\ thread = [i \in Invoices |-> [a \in Agents |-> "idle"]]
  /\ local = [i \in Invoices |-> [a \in Agents |-> << >>]]
  /\ cache = EmptyCache
  /\ table = [i \in Invoices |-> << >>]

(* The PDF gives its text, or an error that becomes load_error.  Both      *)
(* edges out of load_invoice are unconditional.                            *)
LoadInvoice(i) ==
  /\ node[i] = "load_invoice"
  /\ \/ state' = [state EXCEPT ![i].raw_pdf_text = TextOf[i]]
     \/ state' = [state EXCEPT ![i].load_error = TRUE]
  /\ node' = [node EXCEPT ![i] = "extract"]
  /\ thread' = [thread EXCEPT ![i] = [a \in Agents |-> "start"]]
  /\ UNCHANGED <<local, cache, table>>

-----------------------------------------------------------------------------
(* ExtractionAgent.run, in the thread of one agent of one run.             *)

CacheKey_TextOnly(a, text) == <<text>>
CacheKey_AgentOnly(a, text) == <<a>>
(* cache_key(prompt_version, state_key, raw_text)                          *)
CacheKey(a, text) == <<a, text>>

KeyOf(i, a) == CacheKey(a, state[i].raw_pdf_text)

Starting(i, a) == node[i] = "extract" /\ thread[i][a] = "start"

IsHit_Always(cached) == TRUE
IsHit(cached) == cached # NoEntry

SkipExtraction(i, a) ==
  /\ Starting(i, a)
  /\ state[i].raw_pdf_text = NoText
  /\ thread' = [thread EXCEPT ![i][a] = "done"]
  /\ UNCHANGED <<node, state, local, cache, table>>

LookupCache(i, a) ==
  /\ Starting(i, a)
  /\ state[i].raw_pdf_text # NoText
  /\ IF ~EnableCache
     THEN /\ thread' = [thread EXCEPT ![i][a] = "call"]
          /\ UNCHANGED <<local, cache>>
     ELSE LET cached == Lookup(cache, KeyOf(i, a))
          IN  /\ cache' = AfterGet(cache, KeyOf(i, a))
              /\ IF IsHit(cached)
                 THEN /\ local' = [local EXCEPT ![i][a] = cached]
                      /\ thread' = [thread EXCEPT ![i][a] = "done"]
                 ELSE /\ thread' = [thread EXCEPT ![i][a] = "call"]
                      /\ UNCHANGED local
  /\ UNCHANGED <<node, state, table>>

(* Only an answer with rows is worth a cache entry.                        *)
CallModel(i, a) ==
  /\ thread[i][a] = "call"
  /\ \E rows \in Answers[<<a, state[i].raw_pdf_text>>] :
       /\ local' = [local EXCEPT ![i][a] = rows]
       /\ thread' = [thread EXCEPT ![i][a] =
                       IF EnableCache /\ rows # << >> THEN "store" ELSE "done"]
  /\ UNCHANGED <<node, state, cache, table>>

(* with_retry gave up: the exception leaves the node.                      *)
ModelFails(i, a) ==
  /\ thread[i][a] = "call"
  /\ thread' = [thread EXCEPT ![i][a] = "failed"]
  /\ UNCHANGED <<node, state, local, cache, table>>

StoreAnswer(i, a) ==
  /\ thread[i][a] = "store"
  /\ cache' = AfterSet(cache, KeyOf(i, a), local[i][a])
  /\ thread' = [thread EXCEPT ![i][a] = "done"]
  /\ UNCHANGED <<node, state, local, table>>

(* A node of the superstep that has not started when its sibling fails.    *)
CancelSibling(i, a) ==
  /\ Starting(i, a)
  /\ \E b \in Agents : thread[i][b] = "failed"
  /\ thread' = [thread EXCEPT ![i][a] = "cancelled"]
  /\ UNCHANGED <<node, state, local, cache, table>>

JoinExtract_NeedsBoth(i) ==
  /\ node[i] = "extract"
  /\ \A a \in Agents : thread[i][a] = "done"
  /\ state' = [state EXCEPT ![i].output = local[i]]
  /\ node' = [node EXCEPT ![i] = "compare_outputs"]
  /\ UNCHANGED <<thread, local, cache, table>>

(* The superstep ends: both outputs go into the state, or invoke raises.   *)
JoinExtract(i) ==
  /\ node[i] = "extract"
  /\ \A a \in Agents : thread[i][a] \in {"done", "failed", "cancelled"}
  /\ IF \A a \in Agents : thread[i][a] = "done"
     THEN /\ state' = [state EXCEPT ![i].output = local[i]]
          /\ node' = [node EXCEPT ![i] = "compare_outputs"]
     ELSE /\ node' = [node EXCEPT ![i] = "raised"]
          /\ UNCHANGED state
  /\ UNCHANGED <<thread, local, cache, table>>

-----------------------------------------------------------------------------
Compare(i) ==
  /\ node[i] = "compare_outputs"
  /\ LET match == CompareOutputs(state[i].output["agent1"], state[i].output["agent2"])
     IN  /\ state' = [state EXCEPT ![i].match = match]
         /\ node' = [node EXCEPT ![i] =
                       IF match THEN "write_to_delta" ELSE "judge_disagreement"]
  /\ UNCHANGED <<thread, local, cache, table>>

Resolution_AsGiven(verdict) == verdict

(* A winner that is not an agent is kept as it is, with a default where    *)
(* the judge's answer has nothing.                                         *)
Resolution(verdict) ==
  IF verdict.winner \in Agents THEN verdict
  ELSE [ winner |-> IF verdict.winner = Null THEN "unresolved" ELSE verdict.winner,
         justification |-> IF verdict.justification = Null
                           THEN NotParsed
                           ELSE verdict.justification ]

JudgeDisagreement(i) ==
  /\ node[i] = "judge_disagreement"
  /\ \E verdict \in Verdicts :
       state' = [state EXCEPT ![i].flag_disagreement = TRUE,
                              ![i].agent_winner = Resolution(verdict).winner,
                              ![i].justification = Resolution(verdict).justification]
  /\ node' = [node EXCEPT ![i] = "write_to_delta"]
  /\ UNCHANGED <<thread, local, cache, table>>

(* The model fails for good, or parsed[0] is no JSON object.               *)
JudgeFails(i) ==
  /\ node[i] = "judge_disagreement"
  /\ node' = [node EXCEPT ![i] = "raised"]
  /\ UNCHANGED <<state, thread, local, cache, table>>

-----------------------------------------------------------------------------
(* build_result_dataframe                                                  *)
ResultRows(s) ==
  LET frame == ResultFrame(s.output["agent1"], s.output["agent2"])
  IN  [k \in DOMAIN frame |->
         [ cells |-> frame[k], match |-> s.match,
           agent_winner |-> s.agent_winner, justification |-> s.justification ]]

Commit(i, rows) ==
  IF WriteMode = "merge"
  THEN ~MergeIsAmbiguous(table, i, rows) /\ table' = AfterMerge(table, i, rows)
  ELSE table' = AfterAppend(table, i, rows)

WriteToDelta_CountsAgentRows(i) ==
  /\ node[i] = "write_to_delta"
  /\ Commit(i, ResultRows(state[i]))
  /\ state' = [state EXCEPT ![i].rows_written = Len(state[i].output["agent1"])]
  /\ node' = [node EXCEPT ![i] = "END"]
  /\ UNCHANGED <<thread, local, cache>>

WriteToDelta(i) ==
  /\ node[i] = "write_to_delta"
  /\ Commit(i, ResultRows(state[i]))
  /\ state' = [state EXCEPT ![i].rows_written = Len(ResultRows(state[i]))]
  /\ node' = [node EXCEPT ![i] = "END"]
  /\ UNCHANGED <<thread, local, cache>>

(* Whatever is raised, before the commit or after it, is a write_error.    *)
WriteFails(i) ==
  /\ node[i] = "write_to_delta"
  /\ UNCHANGED table \/ Commit(i, ResultRows(state[i]))
  /\ state' = [state EXCEPT ![i].write_error = TRUE]
  /\ node' = [node EXCEPT ![i] = "END"]
  /\ UNCHANGED <<thread, local, cache>>

-----------------------------------------------------------------------------
AgentStep(i, a) ==
  \/ SkipExtraction(i, a) \/ LookupCache(i, a) \/ CallModel(i, a)
  \/ ModelFails(i, a) \/ StoreAnswer(i, a) \/ CancelSibling(i, a)

GraphStep(i) ==
  \/ LoadInvoice(i) \/ JoinExtract(i) \/ Compare(i)
  \/ JudgeDisagreement(i) \/ JudgeFails(i) \/ WriteToDelta(i) \/ WriteFails(i)

Finished == (\A i \in Invoices : node[i] \in {"END", "raised"}) /\ UNCHANGED vars

Next ==
  \/ \E i \in Invoices : GraphStep(i) \/ \E a \in Agents : AgentStep(i, a)
  \/ Finished

(* Every thread runs, and every call of the chat model and of Spark ends.  *)
Fairness ==
  \A i \in Invoices : WF_vars(GraphStep(i)) /\ \A a \in Agents : WF_vars(AgentStep(i, a))

Spec == Init /\ [][Next]_vars /\ Fairness

-----------------------------------------------------------------------------
(* The values each variable ranges over.                                   *)
TypeOK ==
  /\ node \in [Invoices -> {"load_invoice", "extract", "compare_outputs",
                            "judge_disagreement", "write_to_delta", "END", "raised"}]
  /\ thread \in [Invoices -> [Agents -> {"idle", "start", "call", "store", "done",
                                         "failed", "cancelled"}]]
  /\ \A i \in Invoices :
       /\ \A a \in Agents : local[i][a] \in {<< >>} \union Answers[<<a, TextOf[i]>>]
       /\ state[i].raw_pdf_text \in {TextOf[i], NoText}
       /\ state[i].match \in BOOLEAN /\ state[i].flag_disagreement \in BOOLEAN
       /\ state[i].rows_written \in Nat
  /\ cache.hits \in Nat /\ cache.misses \in Nat

(* The rows of an invoice are, on either side, one answer that agent gave  *)
(* for the text of that very invoice, however runs interleave on the       *)
(* shared cache: no agent is served the other's rows or another invoice's. *)
(* Only a PDF without text has the row of nulls instead.                   *)
RowsComeFromTheInvoice ==
  \A i \in Invoices : table[i] # << >> =>
    \A a \in Agents :
      LET columns == IF a = "agent1" THEN A1Fields ELSE A2Fields
          given   == IF state[i].load_error THEN {<< >>} ELSE Answers[<<a, TextOf[i]>>]
      IN  \E rows \in given :
            /\ Len(rows) <= Len(table[i])
            /\ \A k \in DOMAIN table[i] : table[i][k].cells[a] = Side(rows, columns, k)

(* A row reaches the table only when both extractions of its invoice       *)
(* ended without an error and, unless they agree, after the judge: it      *)
(* names a winner, and one that is no agent comes with an explanation.     *)
EveryRowIsSettled ==
  \A i \in Invoices : \A k \in DOMAIN table[i] :
    LET row == table[i][k]
    IN  /\ \A a \in Agents : thread[i][a] = "done"
        /\ row.match = CompareOutputs(local[i]["agent1"], local[i]["agent2"])
        /\ ~row.match =>
             /\ row.agent_winner # Null
             /\ row.agent_winner \in Agents \/ row.justification # Null
             /\ state[i].flag_disagreement

(* What a run reports is what the table has: the rows it counts are there, *)
(* once, and no row is there for a run that raised.  The table starts      *)
(* without rows of these invoices: MERGE of one row over two reports one.  *)
ReportMatchesTable ==
  \A i \in Invoices :
    /\ node[i] = "END" /\ ~state[i].write_error =>
         /\ Len(table[i]) = state[i].rows_written
         /\ \A a \in Agents : Len(state[i].output[a]) <= Len(table[i])
         /\ Len(table[i]) >= 1
    /\ node[i] = "raised" => table[i] = << >>

(* The cache never outgrows its capacity nor holds a key twice, whatever   *)
(* the order in which threads look up and store.                           *)
CacheIsBounded ==
  /\ Len(cache.entries) <= MaxEntries
  /\ \A j, k \in DOMAIN cache.entries :
       cache.entries[j].key = cache.entries[k].key => j = k

(* hits + misses counts every lookup, so the cache_stats of the batch      *)
(* summary lose no agent run.                                              *)
StatsCountEveryLookup ==
  EnableCache =>
    cache.hits + cache.misses =
      Cardinality({ia \in Invoices \X Agents :
        /\ state[ia[1]].raw_pdf_text # NoText
        /\ thread[ia[1]][ia[2]] \in {"call", "store", "done", "failed"}})

(* Every run of the graph ends, also when an agent or the judge fails.     *)
EveryRunEnds == \A i \in Invoices : <>(node[i] \in {"END", "raised"})
=============================================================================
