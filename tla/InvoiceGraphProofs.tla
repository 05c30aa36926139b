------------------------ MODULE InvoiceGraphProofs ------------------------
(***************************************************************************)
(* Proofs about InvoiceGraph, for every set of invoices, any texts,        *)
(* answers and verdicts, any capacity of the cache and both write modes.   *)
(***************************************************************************)
EXTENDS InvoiceGraph, FiniteSetTheorems, TLAPS

-----------------------------------------------------------------------------
(* The cache.                                                              *)

Distinct(entries) ==
  \A j, k \in DOMAIN entries : entries[j].key = entries[k].key => j = k

(* Eviction makes room: what is left are entries that were there.          *)
LEMMA EvictedMakesRoom ==
  ASSUME NEW S, NEW entries \in Seq(S), Len(entries) <= MaxEntries, Distinct(entries)
  PROVE  /\ Evicted(entries) \in Seq(S)
         /\ Len(Evicted(entries)) < MaxEntries
         /\ Distinct(Evicted(entries))
<1>1. MaxEntries \in Nat /\ MaxEntries >= 1
  BY GraphAssumption
<1>2. CASE Len(entries) >= MaxEntries
  <2>1. /\ Tail(entries) \in Seq(S)
        /\ Len(Tail(entries)) = Len(entries) - 1
        /\ \A k \in 1..Len(Tail(entries)) : Tail(entries)[k] = entries[k + 1]
    BY <1>1, <1>2
  <2>2. Distinct(Tail(entries))
    BY <2>1 DEF Distinct
  <2> QED
    BY <1>1, <1>2, <2>1, <2>2 DEF Evicted
<1>3. CASE ~(Len(entries) >= MaxEntries)
  BY <1>1, <1>3 DEF Evicted
<1> QED
  BY <1>2, <1>3

(* An assignment adds one entry at most, and none for a key that is there. *)
LEMMA AssignAddsOne ==
  ASSUME NEW S, NEW entries \in Seq(S), Distinct(entries),
         NEW key, NEW value, [key |-> key, value |-> value] \in S
  PROVE  /\ Assign(entries, key, value) \in Seq(S)
         /\ Len(Assign(entries, key, value)) <= Len(entries) + 1
         /\ Distinct(Assign(entries, key, value))
<1> DEFINE new == [key |-> key, value |-> value]
<1>1. new.key = key
  OBVIOUS
<1>2. CASE \E i \in DOMAIN entries : entries[i].key = key
  <2> DEFINE result == [i \in DOMAIN entries |->
                          IF entries[i].key = key THEN new ELSE entries[i]]
  <2>1. /\ result \in Seq(S) /\ Len(result) = Len(entries) /\ DOMAIN result = DOMAIN entries
        /\ \A i \in DOMAIN entries : result[i].key = entries[i].key
    BY <1>1
  <2>2. Assign(entries, key, value) = result
    BY <1>2 DEF Assign
  <2> HIDE DEF result
  <2> QED
    BY <2>1, <2>2 DEF Distinct
<1>3. CASE ~(\E i \in DOMAIN entries : entries[i].key = key)
  <2> HIDE DEF new
  <2>1. Assign(entries, key, value) = Append(entries, new)
    BY <1>3 DEF Assign, new
  <2>2. /\ Append(entries, new) \in Seq(S) /\ Len(Append(entries, new)) = Len(entries) + 1
        /\ \A k \in 1..Len(entries) : Append(entries, new)[k] = entries[k]
        /\ Append(entries, new)[Len(entries) + 1] = new
    BY DEF new
  <2> QED
    BY <1>1, <1>3, <2>1, <2>2 DEF Distinct
<1> QED
  BY <1>2, <1>3

-----------------------------------------------------------------------------
(* The values the variables range over.                                    *)

Texts == {TextOf[i] : i \in Invoices}
MaybeText == {NoText} \union Texts
Keys == Agents \X Texts
AnyAnswer == {<< >>} \union UNION {Answers[k] : k \in Keys}
Entry == {e \in [key : Keys, value : AnyAnswer] : e.value \in Answers[e.key]}

Winners == {Null, "unresolved"} \union {v.winner : v \in Verdicts}
Reasons == {Null, NotParsed} \union {v.justification : v \in Verdicts}

States ==
  [ raw_pdf_text : MaybeText, load_error : BOOLEAN,
    output : [Agents -> AnyAnswer], match : BOOLEAN,
    flag_disagreement : BOOLEAN, agent_winner : Winners, justification : Reasons,
    rows_written : Nat, write_error : BOOLEAN ]

Nodes == {"load_invoice", "extract", "compare_outputs", "judge_disagreement",
          "write_to_delta", "END", "raised"}
Steps == {"idle", "start", "call", "store", "done", "failed", "cancelled"}

TypeInv ==
  /\ node \in [Invoices -> Nodes]
  /\ state \in [Invoices -> States]
  /\ thread \in [Invoices -> [Agents -> Steps]]
  /\ local \in [Invoices -> [Agents -> AnyAnswer]]
  /\ cache \in [entries : Seq(Entry), hits : Nat, misses : Nat]
  /\ table = [i \in Invoices |-> table[i]]

(* What an agent may return for the PDF of i: nothing, when it has no text. *)
Given(i, a) == IF state[i].load_error THEN {<< >>} ELSE Answers[<<a, TextOf[i]>>]

(* Where a thread is depends on where its run is; only a run with a text   *)
(* comes to a call; what a thread is done with is an answer to its text.   *)
ThreadInv(i, a) ==
  /\ node[i] = "load_invoice" <=> thread[i][a] = "idle"
  /\ thread[i][a] \in {"call", "store"} => node[i] = "extract"
  /\ thread[i][a] \in {"call", "store", "failed", "cancelled"} => ~state[i].load_error
  /\ thread[i][a] = "failed" => node[i] \in {"extract", "raised"}
  /\ local[i][a] \in IF thread[i][a] \in {"store", "done"} THEN Given(i, a) ELSE {<< >>}

(* Until the run has a text it has none, and it never gets another's.      *)
TextInv(i) ==
  /\ state[i].raw_pdf_text = IF node[i] = "load_invoice" \/ state[i].load_error
                             THEN NoText ELSE TextOf[i]
  /\ node[i] \in {"load_invoice", "raised"} => ~state[i].load_error

(* After the superstep the state holds what the threads returned; after    *)
(* the comparison, what it says of that; after the judge, a judgement.     *)
ReviewInv(i) ==
  LET s == state[i]
  IN  /\ node[i] \notin {"load_invoice", "extract", "raised"} =>
           s.output = local[i] /\ \A a \in Agents : thread[i][a] = "done"
      /\ node[i] \in {"judge_disagreement", "write_to_delta", "END"} =>
           s.match = CompareOutputs(s.output["agent1"], s.output["agent2"])
      /\ node[i] = "judge_disagreement" => ~s.match
      /\ node[i] \in {"write_to_delta", "END"} /\ ~s.match =>
           /\ s.agent_winner # Null
           /\ s.agent_winner \in Agents \/ s.justification # Null
      /\ s.flag_disagreement <=> node[i] \in {"write_to_delta", "END"} /\ ~s.match

(* Only the last step of a run writes: all of its rows, once, or none.     *)
WriteInv(i) ==
  LET s == state[i]
  IN  /\ table[i] # << >> => node[i] = "END" /\ table[i] = ResultRows(s)
      /\ node[i] # "END" => s.rows_written = 0 /\ ~s.write_error
      /\ node[i] = "END" /\ ~s.write_error =>
           table[i] = ResultRows(s) /\ s.rows_written = Len(table[i])

RunInv(i) == (\A a \in Agents : ThreadInv(i, a)) /\ TextInv(i) /\ ReviewInv(i) /\ WriteInv(i)
GraphInv == TypeInv /\ CacheIsBounded /\ \A i \in Invoices : RunInv(i)

(* An agent's key is its name and the text it reads, never the lack of     *)
(* one.                                                                    *)
LEMMA KeyFacts ==
  ASSUME NEW i \in Invoices, NEW a \in Agents
  PROVE  /\ <<a, TextOf[i]>> \in Keys /\ TextOf[i] \in MaybeText /\ TextOf[i] # NoText
         /\ Answers[<<a, TextOf[i]>>] \subseteq AnyAnswer
<1>1. <<a, TextOf[i]>> \in Keys /\ TextOf[i] \in MaybeText
  BY DEF Keys, Texts, MaybeText
<1> QED
  BY <1>1, GraphAssumption DEF AnyAnswer

(* What a thread that has a text looks up or stores.                       *)
LEMMA KeyOfText ==
  ASSUME NEW i \in Invoices, NEW a \in Agents, TextInv(i), state[i].raw_pdf_text # NoText
  PROVE  /\ KeyOf(i, a) = <<a, TextOf[i]>> /\ state[i].raw_pdf_text = TextOf[i]
         /\ node[i] # "load_invoice" /\ ~state[i].load_error
BY DEF TextInv, KeyOf, CacheKey

(* A hit is an answer of that agent to that text.                          *)
LEMMA HitIsAnAnswer ==
  ASSUME TypeInv, NEW key \in Keys, IsHit(Lookup(cache, key))
  PROVE  Lookup(cache, key) \in Answers[key]
<1>1. key \in CachedKeys(cache)
  BY DEF IsHit, Lookup
<1>2. PICK j \in DOMAIN cache.entries : cache.entries[j].key = key
  BY <1>1 DEF CachedKeys
<1> DEFINE m == CHOOSE k \in DOMAIN cache.entries : cache.entries[k].key = key
<1>3. m \in DOMAIN cache.entries /\ cache.entries[m].key = key
  BY <1>2
<1>4. Lookup(cache, key) = cache.entries[m].value
  BY <1>1 DEF Lookup
<1> HIDE DEF m
<1>5. cache.entries[m] \in Entry
  BY <1>3 DEF TypeInv
<1> QED
  BY <1>3, <1>4, <1>5 DEF Entry

(* The cache after a lookup, and after a store of an answer.               *)
LEMMA CacheAfterGet ==
  ASSUME TypeInv, NEW key
  PROVE  /\ AfterGet(cache, key) \in [entries : Seq(Entry), hits : Nat, misses : Nat]
         /\ AfterGet(cache, key).entries = cache.entries
         /\ AfterGet(cache, key).hits + AfterGet(cache, key).misses = cache.hits + cache.misses + 1
<1>1. cache \in [entries : Seq(Entry), hits : Nat, misses : Nat]
  BY DEF TypeInv
<1> QED
  BY <1>1 DEF AfterGet

(* A store keeps the cache within its bound, its keys distinct, and every  *)
(* entry an answer to its key.                                             *)
LEMMA CacheAfterSet ==
  ASSUME TypeInv, CacheIsBounded, NEW key \in Keys, NEW value \in Answers[key]
  PROVE  /\ AfterSet(cache, key, value) \in [entries : Seq(Entry), hits : Nat, misses : Nat]
         /\ AfterSet(cache, key, value).hits = cache.hits
         /\ AfterSet(cache, key, value).misses = cache.misses
         /\ Len(AfterSet(cache, key, value).entries) <= MaxEntries
         /\ Distinct(AfterSet(cache, key, value).entries)
<1>1. [key |-> key, value |-> value] \in Entry
  BY DEF Entry, AnyAnswer
<1>2. /\ cache.entries \in Seq(Entry) /\ Len(cache.entries) <= MaxEntries
      /\ Distinct(cache.entries) /\ MaxEntries \in Nat
  BY GraphAssumption DEF TypeInv, CacheIsBounded, Distinct
<1> DEFINE rest == Evicted(cache.entries)
<1>3. rest \in Seq(Entry) /\ Len(rest) < MaxEntries /\ Distinct(rest)
  BY <1>2, EvictedMakesRoom
<1> HIDE DEF rest
<1>4. /\ Assign(rest, key, value) \in Seq(Entry)
      /\ Len(Assign(rest, key, value)) <= Len(rest) + 1
      /\ Distinct(Assign(rest, key, value))
  BY <1>1, <1>3, AssignAddsOne
<1>5. AfterSet(cache, key, value) = [cache EXCEPT !.entries = Assign(rest, key, value)]
  BY DEF AfterSet, rest
<1>6. cache \in [entries : Seq(Entry), hits : Nat, misses : Nat] /\ Len(rest) \in Nat
  BY <1>3 DEF TypeInv
<1>7. Len(Assign(rest, key, value)) <= MaxEntries
  BY <1>2, <1>3, <1>4, <1>6
<1> HIDE DEF rest
<1> QED
  BY <1>4, <1>5, <1>6, <1>7

-----------------------------------------------------------------------------
(* The frame that is written.                                              *)

(* What extract_json returns is a sequence.                                *)
LEMMA AnswersAreLists ==
  ASSUME NEW rows \in AnyAnswer
  PROVE  IsAList(rows) /\ Len(rows) \in Nat /\ DOMAIN rows = 1..Len(rows)
<1>1. IsAList(rows)
  <2>1. CASE rows = << >>
    BY <2>1 DEF IsAList
  <2>2. CASE rows # << >>
    BY <2>2, GraphAssumption DEF AnyAnswer, Keys, Texts
  <2> QED
    BY <2>1, <2>2
<1> QED
  BY <1>1 DEF IsAList

(* The frame is as long as the longer output, and has one row at least.    *)
LEMMA FrameLengthIsMaximal ==
  ASSUME NEW rows1, NEW rows2, Len(rows1) \in Nat, Len(rows2) \in Nat
  PROVE  /\ FrameLength(rows1, rows2) \in {Len(rows1), Len(rows2), 1}
         /\ FrameLength(rows1, rows2) >= Len(rows1)
         /\ FrameLength(rows1, rows2) >= Len(rows2)
         /\ FrameLength(rows1, rows2) >= 1
<1> DEFINE Longest(n) == n >= Len(rows1) /\ n >= Len(rows2) /\ n >= 1
<1>1. \E n \in {Len(rows1), Len(rows2), 1} : Longest(n)
  <2>1. Longest(Len(rows1)) \/ Longest(Len(rows2)) \/ Longest(1)
    OBVIOUS
  <2> QED
    BY <2>1
<1>2. FrameLength(rows1, rows2) = CHOOSE n \in {Len(rows1), Len(rows2), 1} : Longest(n)
  BY DEF FrameLength
<1> QED
  BY <1>1, <1>2

(* The rows that are written are the two outputs side by side, padded to   *)
(* the longer one, with the judgement of the run in each.                  *)
LEMMA ResultRowsAreAFrame ==
  ASSUME NEW s, s.output["agent1"] \in AnyAnswer, s.output["agent2"] \in AnyAnswer
  PROVE  LET n == FrameLength(s.output["agent1"], s.output["agent2"])
         IN  /\ IsAList(ResultRows(s)) /\ Len(ResultRows(s)) = n /\ n \in Nat
             /\ DOMAIN ResultRows(s) = 1..n
             /\ \A k \in 1..n :
                  /\ ResultRows(s)[k].cells["agent1"] = Side(s.output["agent1"], A1Fields, k)
                  /\ ResultRows(s)[k].cells["agent2"] = Side(s.output["agent2"], A2Fields, k)
                  /\ ResultRows(s)[k].match = s.match
                  /\ ResultRows(s)[k].agent_winner = s.agent_winner
                  /\ ResultRows(s)[k].justification = s.justification
<1> DEFINE n == FrameLength(s.output["agent1"], s.output["agent2"])
           frame == ResultFrame(s.output["agent1"], s.output["agent2"])
           row(k) == [ cells |-> [agent1 |-> Side(s.output["agent1"], A1Fields, k),
                                  agent2 |-> Side(s.output["agent2"], A2Fields, k)],
                       match |-> s.match, agent_winner |-> s.agent_winner,
                       justification |-> s.justification ]
<1>1. n \in Nat
  BY AnswersAreLists, FrameLengthIsMaximal
<1>2. frame = [k \in 1..n |-> [agent1 |-> Side(s.output["agent1"], A1Fields, k),
                               agent2 |-> Side(s.output["agent2"], A2Fields, k)]]
  BY DEF ResultFrame
<1>3. ResultRows(s) = [k \in 1..n |-> row(k)]
  BY <1>2 DEF ResultRows
<1> HIDE DEF n, row
<1>4. /\ ResultRows(s) \in [1..n -> {ResultRows(s)[k] : k \in 1..n}]
      /\ DOMAIN ResultRows(s) = 1..n
  BY <1>3
<1>5. IsAList(ResultRows(s)) /\ Len(ResultRows(s)) = n
  BY <1>1, <1>4 DEF IsAList
<1>6. ASSUME NEW k \in 1..n
      PROVE  /\ ResultRows(s)[k].cells["agent1"] = Side(s.output["agent1"], A1Fields, k)
             /\ ResultRows(s)[k].cells["agent2"] = Side(s.output["agent2"], A2Fields, k)
             /\ ResultRows(s)[k].match = s.match
             /\ ResultRows(s)[k].agent_winner = s.agent_winner
             /\ ResultRows(s)[k].justification = s.justification
  <2>1. ResultRows(s)[k] = row(k)
    BY <1>3
  <2> QED
    BY <2>1 DEF row
<1> QED
  BY <1>1, <1>4, <1>5, <1>6 DEF n

-----------------------------------------------------------------------------
(* The steps.                                                              *)

(* Before its write an invoice has no rows, so both kinds of commit give   *)
(* it the rows of the frame.                                               *)
LEMMA FirstCommit ==
  ASSUME NEW i \in Invoices, TypeInv, table[i] = << >>,
         NEW rows, IsAList(rows), Commit(i, rows)
  PROVE  table' = [table EXCEPT ![i] = rows]
<1>1. Len(table[i]) = 0 /\ table[i] \o rows = rows
  BY DEF IsAList
<1>2. table = [j \in Invoices |-> table[j]]
  BY DEF TypeInv
<1> QED
  BY <1>1, <1>2 DEF Commit, AfterMerge, AfterAppend

(* What the write of a run does: all of its rows, or none and an error.    *)
Writes(i) ==
  /\ node[i] = "write_to_delta" /\ node' = [node EXCEPT ![i] = "END"]
  /\ UNCHANGED <<thread, local, cache>>
  /\ \/ /\ table' = [table EXCEPT ![i] = ResultRows(state[i])]
        /\ state' = [state EXCEPT ![i].rows_written = Len(ResultRows(state[i]))]
     \/ /\ table' = table \/ table' = [table EXCEPT ![i] = ResultRows(state[i])]
        /\ state' = [state EXCEPT ![i].write_error = TRUE]

(* A write stores the rows of its run, a list of one or more.              *)
LEMMA WriteStep ==
  ASSUME TypeInv, NEW i \in Invoices, RunInv(i), WriteToDelta(i) \/ WriteFails(i)
  PROVE  Writes(i) /\ IsAList(ResultRows(state[i])) /\ Len(ResultRows(state[i])) \in Nat
<1>1. node[i] = "write_to_delta" /\ table[i] = << >>
  BY DEF WriteToDelta, WriteFails, RunInv, WriteInv
<1>2. state[i].output["agent1"] \in AnyAnswer /\ state[i].output["agent2"] \in AnyAnswer
  BY DEF TypeInv, States, Agents
<1>3. IsAList(ResultRows(state[i])) /\ Len(ResultRows(state[i])) \in Nat
  BY <1>2, ResultRowsAreAFrame
<1>4. Commit(i, ResultRows(state[i])) => table' = [table EXCEPT ![i] = ResultRows(state[i])]
  BY <1>1, <1>3, FirstCommit
<1> QED
  BY <1>1, <1>3, <1>4 DEF Writes, WriteToDelta, WriteFails

(* The ways a step of the specification can go.                            *)
LEMMA StepCases ==
  ASSUME [Next]_vars, TypeInv, \A i \in Invoices : RunInv(i)
  PROVE  \/ \E i \in Invoices :
              \/ LoadInvoice(i) \/ JoinExtract(i) \/ Compare(i)
              \/ JudgeDisagreement(i) \/ JudgeFails(i) \/ Writes(i)
              \/ \E a \in Agents : AgentStep(i, a)
         \/ UNCHANGED vars
BY WriteStep DEF Next, GraphStep, Finished

(* The judge node leaves a winner, which is an agent or has a              *)
(* justification.                                                          *)
LEMMA ResolutionType ==
  ASSUME NEW v \in Verdicts
  PROVE  /\ Resolution(v).winner \in Winners /\ Resolution(v).justification \in Reasons
         /\ Resolution(v).winner # Null
         /\ Resolution(v).winner \in Agents \/ Resolution(v).justification # Null
<1>1. v.winner \in Winners /\ v.justification \in Reasons
  BY DEF Winners, Reasons
<1> QED
  BY <1>1, GraphAssumption DEF Resolution, Winners, Reasons

(* Setting the fields that a node sets keeps a run's state in its range.   *)
LEMMA FieldUpdates ==
  ASSUME NEW s \in States
  PROVE  /\ \A answers \in [Agents -> AnyAnswer] : [s EXCEPT !.output = answers] \in States
         /\ \A n \in Nat : [s EXCEPT !.rows_written = n] \in States
         /\ [s EXCEPT !.write_error = TRUE] \in States
         /\ \A winner \in Winners, reason \in Reasons :
              [s EXCEPT !.flag_disagreement = TRUE, !.agent_winner = winner,
                        !.justification = reason] \in States
<1>1. ASSUME NEW answers \in [Agents -> AnyAnswer]
      PROVE  [s EXCEPT !.output = answers] \in States
  BY DEF States
<1>2. ASSUME NEW n \in Nat PROVE [s EXCEPT !.rows_written = n] \in States
  BY DEF States
<1>3. [s EXCEPT !.write_error = TRUE] \in States
  BY DEF States
<1>4. ASSUME NEW winner \in Winners, NEW reason \in Reasons
      PROVE  [s EXCEPT !.flag_disagreement = TRUE, !.agent_winner = winner,
                       !.justification = reason] \in States
  BY DEF States
<1> QED
  BY <1>1, <1>2, <1>3, <1>4

(* Every variable keeps its range.                                         *)
LEMMA TypeStep ==
  ASSUME GraphInv, [Next]_vars
  PROVE  TypeInv'
<1>0. TypeInv /\ \A i \in Invoices : RunInv(i)
  BY DEF GraphInv
<1>a. node \in [Invoices -> Nodes] /\ thread \in [Invoices -> [Agents -> Steps]]
  BY <1>0 DEF TypeInv
<1>b. state \in [Invoices -> States]
  BY <1>0 DEF TypeInv
<1>c. local \in [Invoices -> [Agents -> AnyAnswer]]
  BY <1>0 DEF TypeInv
<1>d. cache \in [entries : Seq(Entry), hits : Nat, misses : Nat]
  BY <1>0 DEF TypeInv
<1>e. table = [i \in Invoices |-> table[i]]
  BY <1>0 DEF TypeInv
<1>1. ASSUME NEW i \in Invoices, LoadInvoice(i) PROVE TypeInv'
  <2>1. node' \in [Invoices -> Nodes] /\ thread' \in [Invoices -> [Agents -> Steps]]
    BY <1>1, <1>a DEF LoadInvoice, Nodes, Steps
  <2>2. state' \in [Invoices -> States]
    <3>1. TextOf[i] \in MaybeText
      BY DEF Texts, MaybeText
    <3>2. \/ state' = [state EXCEPT ![i].raw_pdf_text = TextOf[i]]
          \/ state' = [state EXCEPT ![i].load_error = TRUE]
      BY <1>1 DEF LoadInvoice
    <3>3. CASE state' = [state EXCEPT ![i].raw_pdf_text = TextOf[i]]
      BY <1>b, <3>1, <3>3 DEF States
    <3>4. CASE state' = [state EXCEPT ![i].load_error = TRUE]
      BY <1>b, <3>4 DEF States
    <3> QED
      BY <3>2, <3>3, <3>4
  <2> QED
    BY <1>1, <1>c, <1>d, <1>e, <2>1, <2>2 DEF LoadInvoice, TypeInv
<1>2. ASSUME NEW i \in Invoices, JoinExtract(i) PROVE TypeInv'
  <2>1. node' \in [Invoices -> Nodes]
    BY <1>2, <1>a DEF JoinExtract, Nodes
  <2>2. state' \in [Invoices -> States]
    <3>1. state' = [state EXCEPT ![i].output = local[i]] \/ state' = state
      BY <1>2 DEF JoinExtract
    <3>2. [state[i] EXCEPT !.output = local[i]] \in States
      BY <1>b, <1>c, FieldUpdates
    <3> QED
      BY <1>b, <3>1, <3>2
  <2> QED
    BY <1>2, <1>a, <1>c, <1>d, <1>e, <2>1, <2>2 DEF JoinExtract, TypeInv
<1>3. ASSUME NEW i \in Invoices, Compare(i) PROVE TypeInv'
  <2>1. CompareOutputs(state[i].output["agent1"], state[i].output["agent2"]) \in BOOLEAN
    BY DEF CompareOutputs
  <2>2. node' \in [Invoices -> Nodes]
    BY <1>3, <1>a DEF Compare, Nodes
  <2>3. state' \in [Invoices -> States]
    <3>1. PICK match \in BOOLEAN : state' = [state EXCEPT ![i].match = match]
      BY <1>3, <2>1 DEF Compare
    <3> QED
      BY <1>b, <3>1 DEF States
  <2> QED
    BY <1>3, <1>a, <1>c, <1>d, <1>e, <2>2, <2>3 DEF Compare, TypeInv
<1>4. ASSUME NEW i \in Invoices, JudgeDisagreement(i) PROVE TypeInv'
  <2>1. node' \in [Invoices -> Nodes]
    BY <1>4, <1>a DEF JudgeDisagreement, Nodes
  <2>2. state' \in [Invoices -> States]
    <3>1. PICK winner \in Winners, reason \in Reasons :
            state' = [state EXCEPT ![i].flag_disagreement = TRUE,
                                   ![i].agent_winner = winner,
                                   ![i].justification = reason]
      BY <1>4, ResolutionType DEF JudgeDisagreement
    <3>2. [state[i] EXCEPT !.flag_disagreement = TRUE, !.agent_winner = winner,
                           !.justification = reason] \in States
      BY <1>b, FieldUpdates
    <3> QED
      BY <1>b, <3>1, <3>2
  <2> QED
    BY <1>4, <1>a, <1>c, <1>d, <1>e, <2>1, <2>2 DEF JudgeDisagreement, TypeInv
<1>5. ASSUME NEW i \in Invoices, JudgeFails(i) PROVE TypeInv'
  <2>1. node' \in [Invoices -> Nodes]
    BY <1>5, <1>a DEF JudgeFails, Nodes
  <2> QED
    BY <1>5, <1>a, <1>b, <1>c, <1>d, <1>e, <2>1 DEF JudgeFails, TypeInv
<1>6. ASSUME NEW i \in Invoices, Writes(i) PROVE TypeInv'
  <2>1. Len(ResultRows(state[i])) \in Nat
    BY <1>b, ResultRowsAreAFrame DEF States, Agents
  <2>2. node' \in [Invoices -> Nodes]
    BY <1>6, <1>a DEF Writes, Nodes
  <2>3. state' \in [Invoices -> States]
    <3>1. \/ \E n \in Nat : state' = [state EXCEPT ![i].rows_written = n]
          \/ state' = [state EXCEPT ![i].write_error = TRUE]
      BY <1>6, <2>1 DEF Writes
    <3>2. /\ \A n \in Nat : [state[i] EXCEPT !.rows_written = n] \in States
          /\ [state[i] EXCEPT !.write_error = TRUE] \in States
      BY <1>b, FieldUpdates
    <3> QED
      BY <1>b, <3>1, <3>2
  <2>4. table' = [j \in Invoices |-> table'[j]]
    BY <1>6, <1>e DEF Writes
  <2> QED
    BY <1>6, <1>a, <1>c, <1>d, <2>2, <2>3, <2>4 DEF Writes, TypeInv
<1>7. ASSUME NEW i \in Invoices, NEW a \in Agents, AgentStep(i, a) PROVE TypeInv'
  <2>0. /\ UNCHANGED <<node, state, table>>
        /\ \E step \in Steps : thread' = [thread EXCEPT ![i][a] = step]
    BY <1>7 DEF AgentStep, SkipExtraction, LookupCache, CallModel, ModelFails, StoreAnswer,
                CancelSibling, Steps
  <2>1. thread' \in [Invoices -> [Agents -> Steps]]
    BY <1>a, <2>0
  <2>2. local' \in [Invoices -> [Agents -> AnyAnswer]]
    <3>1. CASE LookupCache(i, a)
      <4>1. KeyOf(i, a) \in Keys
        BY <1>0, <3>1, KeyOfText, KeyFacts DEF LookupCache, RunInv
      <4>2. \/ local' = local
            \/ /\ local' = [local EXCEPT ![i][a] = Lookup(cache, KeyOf(i, a))]
               /\ IsHit(Lookup(cache, KeyOf(i, a)))
        BY <3>1 DEF LookupCache
      <4>3. IsHit(Lookup(cache, KeyOf(i, a))) => Lookup(cache, KeyOf(i, a)) \in AnyAnswer
        BY <1>0, <4>1, HitIsAnAnswer DEF AnyAnswer
      <4> QED
        BY <1>c, <4>2, <4>3
    <3>2. CASE CallModel(i, a)
      <4>1. state[i].raw_pdf_text = TextOf[i]
        BY <1>0, <3>2, GraphAssumption DEF CallModel, RunInv, ThreadInv, TextInv
      <4>2. PICK rows \in AnyAnswer : local' = [local EXCEPT ![i][a] = rows]
        BY <3>2, <4>1, KeyFacts DEF CallModel
      <4> QED
        BY <1>c, <4>2
    <3> QED
      BY <1>c, <1>7, <3>1, <3>2 DEF AgentStep, SkipExtraction, ModelFails, StoreAnswer, CancelSibling
  <2>3. cache' \in [entries : Seq(Entry), hits : Nat, misses : Nat]
    <3>1. CASE LookupCache(i, a)
      BY <1>0, <1>d, <3>1, CacheAfterGet DEF LookupCache
    <3>2. CASE StoreAnswer(i, a)
      <4>1. local[i][a] \in Answers[<<a, TextOf[i]>>]
        BY <1>0, <3>2 DEF StoreAnswer, RunInv, ThreadInv, Given
      <4>2. KeyOf(i, a) = <<a, TextOf[i]>>
        BY <1>0, <3>2 DEF StoreAnswer, RunInv, ThreadInv, TextInv, KeyOf, CacheKey
      <4> QED
        BY <1>0, <3>2, <4>1, <4>2, CacheAfterSet, KeyFacts DEF StoreAnswer, GraphInv
    <3> QED
      BY <1>d, <1>7, <3>1, <3>2 DEF AgentStep, SkipExtraction, ModelFails, CallModel, CancelSibling
  <2> QED
    BY <1>a, <1>b, <1>e, <2>0, <2>1, <2>2, <2>3 DEF TypeInv
<1>8. CASE UNCHANGED vars
  BY <1>0, <1>8 DEF vars, TypeInv
<1> QED
  BY <1>0, <1>1, <1>2, <1>3, <1>4, <1>5, <1>6, <1>7, <1>8, StepCases

(* What a step leaves alone keeps its invariant.                           *)
LEMMA Untouched ==
  ASSUME NEW j \in Invoices, RunInv(j),
         node'[j] = node[j], state'[j] = state[j], thread'[j] = thread[j],
         local'[j] = local[j], table'[j] = table[j]
  PROVE  RunInv(j)'
BY DEF RunInv, ThreadInv, TextInv, ReviewInv, WriteInv, Given

(* The rows depend on the outputs and the judgement only.                  *)
LEMMA SameFrame ==
  ASSUME NEW s, NEW t, s.output = t.output, s.match = t.match,
         s.agent_winner = t.agent_winner, s.justification = t.justification
  PROVE  ResultRows(s) = ResultRows(t)
BY DEF ResultRows

(* Two outputs without rows match: a PDF without text gets no judge.       *)
LEMMA NothingMatches == CompareOutputs(<< >>, << >>)
<1>1. DOMAIN Normalized(<< >>) = {}
  BY DEF Normalized
<1>2. DOMAIN Mapped(Normalized(<< >>)) = {}
  BY <1>1 DEF Mapped
<1>3. DOMAIN Sorted(Mapped(Normalized(<< >>))) = {}
  BY <1>2 DEF Sorted
<1> QED
  BY <1>3 DEF CompareOutputs

(* The nodes of a run: each keeps the invariant of its run.                *)
LEMMA NodeStep ==
  ASSUME TypeInv, NEW i \in Invoices, RunInv(i),
         LoadInvoice(i) \/ JoinExtract(i) \/ Compare(i)
           \/ JudgeDisagreement(i) \/ JudgeFails(i) \/ Writes(i)
  PROVE  /\ RunInv(i)' /\ UNCHANGED cache
         /\ \A j \in Invoices \ {i} :
              /\ node'[j] = node[j] /\ state'[j] = state[j] /\ thread'[j] = thread[j]
              /\ local'[j] = local[j] /\ table'[j] = table[j]
<1>a. node \in [Invoices -> Nodes] /\ state \in [Invoices -> States]
  BY DEF TypeInv
<1>b. /\ thread \in [Invoices -> [Agents -> Steps]]
      /\ local \in [Invoices -> [Agents -> AnyAnswer]]
      /\ table = [j \in Invoices |-> table[j]]
  BY DEF TypeInv
<1>c. state[i] \in States
  BY <1>a
<1> DEFINE s == state[i]
           t == state'[i]
           Others == \A j \in Invoices \ {i} :
              /\ node'[j] = node[j] /\ state'[j] = state[j] /\ thread'[j] = thread[j]
              /\ local'[j] = local[j] /\ table'[j] = table[j]
<1>1. CASE LoadInvoice(i)
  <2>1. /\ node[i] = "load_invoice" /\ node' = [node EXCEPT ![i] = "extract"]
        /\ thread' = [thread EXCEPT ![i] = [a \in Agents |-> "start"]]
        /\ UNCHANGED <<local, cache, table>>
    BY <1>1 DEF LoadInvoice
  <2>2. \/ state' = [state EXCEPT ![i].raw_pdf_text = TextOf[i]]
        \/ state' = [state EXCEPT ![i].load_error = TRUE]
    BY <1>1 DEF LoadInvoice
  <2>3. Others
    BY <1>a, <1>b, <2>1, <2>2
  <2>4. /\ t.load_error \in BOOLEAN
        /\ t.raw_pdf_text = IF t.load_error THEN NoText ELSE TextOf[i]
        /\ t.flag_disagreement = s.flag_disagreement
        /\ t.rows_written = s.rows_written /\ t.write_error = s.write_error
    <3>1. s.raw_pdf_text = NoText /\ ~s.load_error
      BY <2>1 DEF RunInv, TextInv
    <3>2. \/ t = [s EXCEPT !.raw_pdf_text = TextOf[i]]
          \/ t = [s EXCEPT !.load_error = TRUE]
      BY <1>a, <2>2
    <3> QED
      BY <1>c, <3>1, <3>2 DEF States
  <2>5. node'[i] = "extract" /\ \A a \in Agents : thread'[i][a] = "start"
    BY <1>a, <1>b, <2>1
  <2>6. TextInv(i)' /\ \A a \in Agents : ThreadInv(i, a)'
    BY <2>1, <2>4, <2>5 DEF RunInv, TextInv, ThreadInv
  <2>7. ReviewInv(i)' /\ WriteInv(i)'
    BY <2>1, <2>4, <2>5 DEF RunInv, ReviewInv, WriteInv
  <2> QED
    BY <2>1, <2>3, <2>6, <2>7 DEF RunInv
<1>2. CASE JoinExtract(i)
  <2>1. /\ node[i] = "extract" /\ UNCHANGED <<thread, local, cache, table>>
        /\ \A a \in Agents : thread[i][a] \in {"done", "failed", "cancelled"}
    BY <1>2 DEF JoinExtract
  <2>2. CASE \A a \in Agents : thread[i][a] = "done"
    <3>1. /\ state' = [state EXCEPT ![i].output = local[i]]
          /\ node' = [node EXCEPT ![i] = "compare_outputs"]
      BY <1>2, <2>2 DEF JoinExtract
    <3>2. Others /\ node'[i] = "compare_outputs"
      BY <1>a, <1>b, <2>1, <3>1
    <3>3. /\ t.output = local[i] /\ t.load_error = s.load_error
          /\ t.raw_pdf_text = s.raw_pdf_text /\ t.rows_written = s.rows_written
          /\ t.flag_disagreement = s.flag_disagreement /\ t.write_error = s.write_error
      BY <1>a, <1>c, <3>1 DEF States
    <3>4. TextInv(i)' /\ \A a \in Agents : ThreadInv(i, a)'
      BY <2>1, <2>2, <3>2, <3>3 DEF RunInv, TextInv, ThreadInv, Given
    <3>5. ReviewInv(i)' /\ WriteInv(i)'
      BY <2>1, <2>2, <3>2, <3>3 DEF RunInv, ReviewInv, WriteInv
    <3> QED
      BY <2>1, <3>2, <3>4, <3>5 DEF RunInv
  <2>3. CASE ~(\A a \in Agents : thread[i][a] = "done")
    <3>1. UNCHANGED state /\ node' = [node EXCEPT ![i] = "raised"]
      BY <1>2, <2>3 DEF JoinExtract
    <3>2. Others /\ node'[i] = "raised"
      BY <1>a, <1>b, <2>1, <3>1
    <3>3. ~s.load_error
      BY <2>1, <2>3 DEF RunInv, ThreadInv
    <3>4. TextInv(i)' /\ \A a \in Agents : ThreadInv(i, a)'
      BY <2>1, <3>1, <3>2, <3>3 DEF RunInv, TextInv, ThreadInv, Given
    <3>5. ReviewInv(i)' /\ WriteInv(i)'
      BY <2>1, <3>1, <3>2 DEF RunInv, ReviewInv, WriteInv
    <3> QED
      BY <2>1, <3>2, <3>4, <3>5 DEF RunInv
  <2> QED
    BY <2>2, <2>3
<1>3. CASE Compare(i)
  <2> DEFINE match == CompareOutputs(s.output["agent1"], s.output["agent2"])
  <2>1. /\ node[i] = "compare_outputs" /\ UNCHANGED <<thread, local, cache, table>>
        /\ state' = [state EXCEPT ![i].match = match]
        /\ node' = [node EXCEPT ![i] = IF match THEN "write_to_delta" ELSE "judge_disagreement"]
    BY <1>3 DEF Compare
  <2>2. match \in BOOLEAN
    BY DEF CompareOutputs
  <2> HIDE DEF match
  <2>3. Others /\ node'[i] = IF match THEN "write_to_delta" ELSE "judge_disagreement"
    BY <1>a, <1>b, <2>1
  <2>4. /\ t.output = s.output /\ t.load_error = s.load_error /\ t.match = match
        /\ t.raw_pdf_text = s.raw_pdf_text /\ t.rows_written = s.rows_written
        /\ t.flag_disagreement = s.flag_disagreement /\ t.write_error = s.write_error
    BY <1>a, <1>c, <2>1 DEF States
  <2>5. TextInv(i)' /\ \A a \in Agents : ThreadInv(i, a)'
    BY <2>1, <2>2, <2>3, <2>4 DEF RunInv, TextInv, ThreadInv, Given
  <2>6. ReviewInv(i)'
    BY <1>c, <2>1, <2>2, <2>3, <2>4 DEF RunInv, ReviewInv, match, States
  <2>7. WriteInv(i)'
    BY <2>1, <2>2, <2>3, <2>4 DEF RunInv, WriteInv
  <2> QED
    BY <2>1, <2>3, <2>5, <2>6, <2>7 DEF RunInv
<1>4. CASE JudgeDisagreement(i)
  <2>1. /\ node[i] = "judge_disagreement" /\ UNCHANGED <<thread, local, cache, table>>
        /\ node' = [node EXCEPT ![i] = "write_to_delta"]
    BY <1>4 DEF JudgeDisagreement
  <2>2. PICK winner \in Winners, reason \in Reasons :
          /\ state' = [state EXCEPT ![i].flag_disagreement = TRUE,
                                    ![i].agent_winner = winner,
                                    ![i].justification = reason]
          /\ winner # Null /\ (winner \in Agents \/ reason # Null)
    BY <1>4, ResolutionType DEF JudgeDisagreement
  <2>3. Others /\ node'[i] = "write_to_delta"
    BY <1>a, <1>b, <2>1, <2>2
  <2>4. /\ t.output = s.output /\ t.load_error = s.load_error /\ t.match = s.match
        /\ t.raw_pdf_text = s.raw_pdf_text /\ t.rows_written = s.rows_written
        /\ t.flag_disagreement = TRUE /\ t.agent_winner = winner /\ t.justification = reason
        /\ t.write_error = s.write_error
    BY <1>a, <1>c, <2>2 DEF States
  <2>5. TextInv(i)' /\ \A a \in Agents : ThreadInv(i, a)'
    BY <2>1, <2>3, <2>4 DEF RunInv, TextInv, ThreadInv, Given
  <2>6. ReviewInv(i)'
    BY <2>1, <2>2, <2>3, <2>4 DEF RunInv, ReviewInv
  <2>7. WriteInv(i)'
    BY <2>1, <2>3, <2>4 DEF RunInv, WriteInv
  <2> QED
    BY <2>1, <2>3, <2>5, <2>6, <2>7 DEF RunInv
<1>5. CASE JudgeFails(i)
  <2>1. /\ node[i] = "judge_disagreement" /\ UNCHANGED <<state, thread, local, cache, table>>
        /\ node' = [node EXCEPT ![i] = "raised"]
    BY <1>5 DEF JudgeFails
  <2>2. Others /\ node'[i] = "raised"
    BY <1>a, <1>b, <2>1
  <2>3. ~s.load_error
    <3>1. SUFFICES ASSUME s.load_error PROVE FALSE
      BY <1>c DEF States
    <3>2. local[i]["agent1"] = << >> /\ local[i]["agent2"] = << >>
      BY <2>1, <3>1 DEF RunInv, ReviewInv, ThreadInv, Given, Agents
    <3>3. s.output = local[i] /\ ~CompareOutputs(s.output["agent1"], s.output["agent2"])
      BY <2>1 DEF RunInv, ReviewInv
    <3> QED
      BY <3>2, <3>3, NothingMatches
  <2>4. TextInv(i)' /\ \A a \in Agents : ThreadInv(i, a)'
    BY <2>1, <2>2, <2>3 DEF RunInv, TextInv, ThreadInv, Given
  <2>5. ReviewInv(i)' /\ WriteInv(i)'
    BY <2>1, <2>2 DEF RunInv, ReviewInv, WriteInv
  <2> QED
    BY <2>1, <2>2, <2>4, <2>5 DEF RunInv
<1>6. CASE Writes(i)
  <2>1. /\ node[i] = "write_to_delta" /\ UNCHANGED <<thread, local, cache>>
        /\ node' = [node EXCEPT ![i] = "END"]
    BY <1>6 DEF Writes
  <2>2. /\ table' = table \/ table' = [table EXCEPT ![i] = ResultRows(s)]
        /\ \/ /\ table' = [table EXCEPT ![i] = ResultRows(s)]
              /\ state' = [state EXCEPT ![i].rows_written = Len(ResultRows(s))]
           \/ state' = [state EXCEPT ![i].write_error = TRUE]
    BY <1>6 DEF Writes
  <2>3. Others /\ node'[i] = "END"
    BY <1>a, <1>b, <2>1, <2>2
  <2>4. /\ t.output = s.output /\ t.load_error = s.load_error /\ t.match = s.match
        /\ t.raw_pdf_text = s.raw_pdf_text /\ t.flag_disagreement = s.flag_disagreement
        /\ t.agent_winner = s.agent_winner /\ t.justification = s.justification
    BY <1>a, <1>c, <2>2 DEF States
  <2>5. ResultRows(t) = ResultRows(s)
    BY <2>4, SameFrame
  <2>6. TextInv(i)' /\ \A a \in Agents : ThreadInv(i, a)'
    BY <2>1, <2>3, <2>4 DEF RunInv, TextInv, ThreadInv, Given
  <2>7. ReviewInv(i)'
    BY <2>1, <2>3, <2>4 DEF RunInv, ReviewInv
  <2>8. WriteInv(i)'
    <3>1. table[i] = << >>
      BY <2>1 DEF RunInv, WriteInv
    <3>2. table'[i] \in {<< >>, ResultRows(t)}
      BY <1>b, <2>2, <2>5, <3>1
    <3>3. ~t.write_error => table'[i] = ResultRows(t) /\ t.rows_written = Len(table'[i])
      BY <1>a, <1>b, <1>c, <2>2, <2>5 DEF States
    <3> QED
      BY <2>3, <3>2, <3>3 DEF WriteInv
  <2> QED
    BY <2>1, <2>3, <2>6, <2>7, <2>8 DEF RunInv
<1> QED
  BY <1>1, <1>2, <1>3, <1>4, <1>5, <1>6

(* The threads of the agents: whatever the cache serves and in whatever    *)
(* order they step, each ends with an answer to its own text.              *)
LEMMA ThreadStep ==
  ASSUME TypeInv, CacheIsBounded, NEW i \in Invoices, RunInv(i),
         NEW a \in Agents, AgentStep(i, a)
  PROVE  /\ RunInv(i)' /\ CacheIsBounded'
         /\ UNCHANGED <<node, state, table>>
         /\ \A j \in Invoices \ {i} : thread'[j] = thread[j] /\ local'[j] = local[j]
<1>a. /\ thread \in [Invoices -> [Agents -> Steps]]
      /\ local \in [Invoices -> [Agents -> AnyAnswer]]
  BY DEF TypeInv
<1>b. ThreadInv(i, a) /\ TextInv(i) /\ ReviewInv(i) /\ WriteInv(i)
  BY DEF RunInv
<1>0. UNCHANGED <<node, state, table>>
  BY DEF AgentStep, SkipExtraction, LookupCache, CallModel, ModelFails, StoreAnswer, CancelSibling
(* The step in one form: where the thread gets to, and what it then holds. *)
<1>1. \E step \in Steps, value \in AnyAnswer :
        /\ thread' = [thread EXCEPT ![i][a] = step]
        /\ local' = [local EXCEPT ![i][a] = value]
        /\ node[i] = "extract" /\ thread[i][a] \in {"start", "call", "store"} /\ step # "idle"
        /\ step \in {"call", "store", "failed", "cancelled"} => ~state[i].load_error
        /\ value \in IF step \in {"store", "done"} THEN Given(i, a) ELSE {<< >>}
  <2>0. local[i][a] \in AnyAnswer /\ local = [local EXCEPT ![i][a] = local[i][a]]
    BY <1>a
  <2>1. CASE SkipExtraction(i, a)
    <3>1. state[i].load_error /\ local[i][a] = << >>
      BY <1>b, <2>1, GraphAssumption DEF SkipExtraction, Starting, TextInv, ThreadInv
    <3> QED
      BY <2>0, <2>1, <3>1 DEF SkipExtraction, Starting, Given, Steps
  <2>2. CASE LookupCache(i, a)
    <3>1. /\ KeyOf(i, a) = <<a, TextOf[i]>> /\ ~state[i].load_error
          /\ <<a, TextOf[i]>> \in Keys /\ local[i][a] = << >>
          /\ node[i] = "extract" /\ thread[i][a] = "start"
      BY <1>b, <2>2, KeyOfText, KeyFacts DEF LookupCache, Starting, ThreadInv
    <3>2. CASE IsHit(Lookup(cache, KeyOf(i, a))) /\ EnableCache
      <4>1. /\ thread' = [thread EXCEPT ![i][a] = "done"]
            /\ local' = [local EXCEPT ![i][a] = Lookup(cache, KeyOf(i, a))]
        BY <2>2, <3>2 DEF LookupCache
      <4>2. Lookup(cache, KeyOf(i, a)) \in Given(i, a)
        BY <3>1, <3>2, HitIsAnAnswer DEF Given
      <4>3. Lookup(cache, KeyOf(i, a)) \in AnyAnswer
        BY <3>1, <4>2, KeyFacts DEF Given
      <4> QED
        BY <3>1, <4>1, <4>2, <4>3 DEF Steps
    <3>3. CASE ~(IsHit(Lookup(cache, KeyOf(i, a))) /\ EnableCache)
      <4>1. thread' = [thread EXCEPT ![i][a] = "call"] /\ local' = local
        BY <2>2, <3>3 DEF LookupCache
      <4> QED
        BY <2>0, <3>1, <4>1 DEF Steps
    <3> QED
      BY <3>2, <3>3
  <2>3. CASE CallModel(i, a)
    <3>1. /\ node[i] = "extract" /\ thread[i][a] = "call" /\ ~state[i].load_error
          /\ state[i].raw_pdf_text = TextOf[i]
      BY <1>b, <2>3 DEF CallModel, ThreadInv, TextInv
    <3>2. PICK rows \in Answers[<<a, TextOf[i]>>] :
            /\ local' = [local EXCEPT ![i][a] = rows]
            /\ thread' = [thread EXCEPT ![i][a] =
                            IF EnableCache /\ rows # << >> THEN "store" ELSE "done"]
      BY <2>3, <3>1 DEF CallModel
    <3>3. rows \in AnyAnswer /\ rows \in Given(i, a)
      BY <3>1, KeyFacts DEF Given
    <3> QED
      BY <3>1, <3>2, <3>3 DEF Steps
  <2>4. CASE ModelFails(i, a)
    BY <1>b, <2>0, <2>4 DEF ModelFails, ThreadInv, Steps
  <2>5. CASE StoreAnswer(i, a)
    BY <1>b, <2>0, <2>5 DEF StoreAnswer, ThreadInv, Steps
  <2>6. CASE CancelSibling(i, a)
    <3>1. PICK b \in Agents : thread[i][b] = "failed"
      BY <2>6 DEF CancelSibling
    <3>2. ~state[i].load_error
      BY <3>1 DEF RunInv, ThreadInv
    <3> QED
      BY <1>b, <2>0, <2>6, <3>2 DEF CancelSibling, Starting, ThreadInv, Steps
  <2> QED
    BY <2>1, <2>2, <2>3, <2>4, <2>5, <2>6 DEF AgentStep
<1>2. PICK step \in Steps, value \in AnyAnswer :
        /\ thread' = [thread EXCEPT ![i][a] = step]
        /\ local' = [local EXCEPT ![i][a] = value]
        /\ node[i] = "extract" /\ thread[i][a] \in {"start", "call", "store"} /\ step # "idle"
        /\ step \in {"call", "store", "failed", "cancelled"} => ~state[i].load_error
        /\ value \in IF step \in {"store", "done"} THEN Given(i, a) ELSE {<< >>}
  BY <1>1
<1>3. /\ \A j \in Invoices \ {i} : thread'[j] = thread[j] /\ local'[j] = local[j]
      /\ \A b \in Agents \ {a} : thread'[i][b] = thread[i][b] /\ local'[i][b] = local[i][b]
      /\ thread'[i][a] = step /\ local'[i][a] = value
  BY <1>a, <1>2
<1>4. \A b \in Agents : Given(i, b)' = Given(i, b)
  BY <1>0 DEF Given
<1>5. \A b \in Agents : ThreadInv(i, b)'
  <2>1. ThreadInv(i, a)'
    BY <1>0, <1>2, <1>3, <1>4 DEF ThreadInv
  <2>2. ASSUME NEW b \in Agents \ {a} PROVE ThreadInv(i, b)'
    BY <1>0, <1>3, <1>4 DEF RunInv, ThreadInv
  <2> QED
    BY <2>1, <2>2
<1>6. TextInv(i)' /\ ReviewInv(i)' /\ WriteInv(i)'
  BY <1>0, <1>2, <1>b DEF TextInv, ReviewInv, WriteInv
<1>7. CacheIsBounded'
  <2>1. CASE LookupCache(i, a)
    <3>1. cache'.entries = cache.entries
      BY <2>1, CacheAfterGet DEF LookupCache
    <3> QED
      BY <3>1 DEF CacheIsBounded
  <2>2. CASE StoreAnswer(i, a)
    <3>1. KeyOf(i, a) = <<a, TextOf[i]>> /\ local[i][a] \in Answers[<<a, TextOf[i]>>]
      BY <1>b, <2>2 DEF StoreAnswer, ThreadInv, TextInv, Given, KeyOf, CacheKey
    <3>2. Len(cache'.entries) <= MaxEntries /\ Distinct(cache'.entries)
      BY <2>2, <3>1, CacheAfterSet, KeyFacts DEF StoreAnswer
    <3> QED
      BY <3>2 DEF CacheIsBounded, Distinct
  <2>3. CASE UNCHANGED cache
    BY <2>3 DEF CacheIsBounded
  <2> QED
    BY <2>1, <2>2, <2>3 DEF AgentStep, SkipExtraction, CallModel, ModelFails, CancelSibling
<1> QED
  BY <1>0, <1>3, <1>5, <1>6, <1>7 DEF RunInv

(* No graph has started and the cache is empty.                            *)
LEMMA GraphInit == Init => GraphInv
<1> SUFFICES ASSUME Init PROVE GraphInv
  OBVIOUS
<1>1. InitialState \in States
  BY DEF InitialState, States, MaybeText, AnyAnswer, Winners, Reasons
<1>2. TypeInv
  <2>1. EmptyCache \in [entries : Seq(Entry), hits : Nat, misses : Nat]
    BY DEF EmptyCache
  <2>2. /\ local \in [Invoices -> [Agents -> AnyAnswer]]
        /\ table = [i \in Invoices |-> table[i]]
    BY DEF Init, AnyAnswer
  <2> QED
    BY <1>1, <2>1, <2>2 DEF Init, TypeInv, Nodes, Steps
<1>3. CacheIsBounded
  BY GraphAssumption DEF Init, EmptyCache, CacheIsBounded
<1>4. ASSUME NEW i \in Invoices PROVE RunInv(i)
  BY DEF Init, InitialState, RunInv, ThreadInv, TextInv, ReviewInv, WriteInv
<1> QED
  BY <1>2, <1>3, <1>4 DEF GraphInv

(* The invariant holds at the start, and every step keeps it.              *)
LEMMA GraphStepKeepsInv ==
  ASSUME GraphInv, [Next]_vars
  PROVE  GraphInv'
<1>0. TypeInv /\ CacheIsBounded /\ \A i \in Invoices : RunInv(i)
  BY DEF GraphInv
<1>1. TypeInv'
  BY TypeStep
<1>2. ASSUME NEW i \in Invoices,
             LoadInvoice(i) \/ JoinExtract(i) \/ Compare(i)
               \/ JudgeDisagreement(i) \/ JudgeFails(i) \/ Writes(i)
      PROVE  CacheIsBounded' /\ \A j \in Invoices : RunInv(j)'
  <2>1. CacheIsBounded'
    BY <1>0, <1>2, NodeStep DEF CacheIsBounded
  <2>2. RunInv(i)' /\ \A j \in Invoices \ {i} : RunInv(j)'
    BY <1>0, <1>2, NodeStep, Untouched
  <2> QED
    BY <2>1, <2>2
<1>3. ASSUME NEW i \in Invoices, NEW a \in Agents, AgentStep(i, a)
      PROVE  CacheIsBounded' /\ \A j \in Invoices : RunInv(j)'
  <2>1. RunInv(i)' /\ CacheIsBounded' /\ \A j \in Invoices \ {i} : RunInv(j)'
    BY <1>0, <1>3, ThreadStep, Untouched
  <2> QED
    BY <2>1
<1>4. CASE UNCHANGED vars
  <2>1. CacheIsBounded' /\ \A j \in Invoices : RunInv(j)'
    BY <1>0, <1>4, Untouched DEF vars, CacheIsBounded
  <2> QED
    BY <1>1, <2>1 DEF GraphInv
<1> QED
  BY <1>0, <1>1, <1>2, <1>3, <1>4, StepCases DEF GraphInv

(* The invariant holds of every behaviour.                                 *)
LEMMA GraphInvHolds == Spec => []GraphInv
BY GraphInit, GraphStepKeepsInv, PTL DEF Spec

-----------------------------------------------------------------------------
(* The theorems.                                                           *)

(* Every variable of a run keeps its range, whatever agents, judge and     *)
(* cache answer.                                                           *)
THEOREM TypeCorrect == Spec => []TypeOK
<1>1. GraphInv => TypeOK
  <2>1. SUFFICES ASSUME GraphInv PROVE TypeOK
    OBVIOUS
  <2>2. TypeInv /\ \A i \in Invoices : RunInv(i)
    BY <2>1 DEF GraphInv
  <2>3. /\ node \in [Invoices -> Nodes] /\ thread \in [Invoices -> [Agents -> Steps]]
        /\ cache.hits \in Nat /\ cache.misses \in Nat
    BY <2>2 DEF TypeInv
  <2>4. ASSUME NEW i \in Invoices
        PROVE  /\ \A a \in Agents : local[i][a] \in {<< >>} \union Answers[<<a, TextOf[i]>>]
               /\ state[i].raw_pdf_text \in {TextOf[i], NoText}
               /\ state[i].match \in BOOLEAN /\ state[i].flag_disagreement \in BOOLEAN
               /\ state[i].rows_written \in Nat
    <3>1. state[i] \in States
      BY <2>2 DEF TypeInv
    <3>2. /\ state[i].match \in BOOLEAN /\ state[i].flag_disagreement \in BOOLEAN
          /\ state[i].rows_written \in Nat
      BY <3>1 DEF States
    <3> QED
      BY <2>2, <3>2 DEF RunInv, ThreadInv, TextInv, Given
  <2> QED
    BY <2>3, <2>4 DEF TypeOK, Nodes, Steps
<1> QED
  BY <1>1, GraphInvHolds, PTL

(* The shared cache never outgrows its capacity nor holds a key twice,     *)
(* for any number of graphs whose threads look up and store in any order.  *)
THEOREM CacheIsBoundedHolds == Spec => []CacheIsBounded
<1>1. GraphInv => CacheIsBounded
  BY DEF GraphInv
<1> QED
  BY <1>1, GraphInvHolds, PTL

(* The invariant says where the rows of an invoice come from.              *)
LEMMA GraphInvGivesRows == GraphInv => RowsComeFromTheInvoice
<1>1. SUFFICES ASSUME GraphInv, NEW i \in Invoices, table[i] # << >>, NEW a \in Agents
               PROVE  LET columns == IF a = "agent1" THEN A1Fields ELSE A2Fields
                          given   == IF state[i].load_error THEN {<< >>}
                                     ELSE Answers[<<a, TextOf[i]>>]
                      IN  \E rows \in given :
                            /\ Len(rows) <= Len(table[i])
                            /\ \A k \in DOMAIN table[i] :
                                 table[i][k].cells[a] = Side(rows, columns, k)
  BY DEF RowsComeFromTheInvoice
<1> DEFINE s == state[i]
           rows == local[i][a]
<1>2. TypeInv /\ RunInv(i)
  BY <1>1 DEF GraphInv
<1>3. node[i] = "END" /\ table[i] = ResultRows(s)
  BY <1>1, <1>2 DEF RunInv, WriteInv
<1>4. s.output = local[i] /\ rows \in Given(i, a)
  BY <1>2, <1>3 DEF RunInv, ReviewInv, ThreadInv
<1>5. \A b \in Agents : s.output[b] \in AnyAnswer /\ Len(s.output[b]) \in Nat
  <2>1. s.output \in [Agents -> AnyAnswer]
    BY <1>2 DEF TypeInv, States
  <2> QED
    BY <2>1, AnswersAreLists
<1>6. s.output["agent1"] \in AnyAnswer /\ s.output["agent2"] \in AnyAnswer
  BY <1>5 DEF Agents
<1> DEFINE n == FrameLength(s.output["agent1"], s.output["agent2"])
<1>7. Len(table[i]) = n /\ DOMAIN table[i] = 1..n
  BY <1>3, <1>6, ResultRowsAreAFrame
<1>8. /\ \A k \in 1..n : table[i][k].cells["agent1"] = Side(s.output["agent1"], A1Fields, k)
      /\ \A k \in 1..n : table[i][k].cells["agent2"] = Side(s.output["agent2"], A2Fields, k)
  BY <1>3, <1>6, ResultRowsAreAFrame
<1>9. Len(rows) <= n
  BY <1>4, <1>5, FrameLengthIsMaximal DEF Agents
<1> DEFINE columns == IF a = "agent1" THEN A1Fields ELSE A2Fields
<1>10. \A k \in DOMAIN table[i] : table[i][k].cells[a] = Side(rows, columns, k)
  <2>1. CASE a = "agent1"
    BY <1>4, <1>7, <1>8, <2>1
  <2>2. CASE a = "agent2"
    BY <1>4, <1>7, <1>8, <2>2
  <2> QED
    BY <2>1, <2>2 DEF Agents
<1> HIDE DEF n, s, columns
<1>11. /\ rows \in IF state[i].load_error THEN {<< >>} ELSE Answers[<<a, TextOf[i]>>]
       /\ Len(rows) <= Len(table[i])
  BY <1>4, <1>7, <1>9 DEF Given
<1> QED
  BY <1>10, <1>11 DEF columns

(* On each side of the table an invoice has one answer of that side's      *)
(* agent to its own text: no interleaving on the shared cache serves the   *)
(* rows of another invoice's text, or of the other agent.                  *)
THEOREM RowsComeFromTheInvoiceHolds == Spec => []RowsComeFromTheInvoice
<1>1. QED
  BY GraphInvGivesRows, GraphInvHolds, PTL

(* A row is in the table only after both extractions ended well, with what *)
(* the comparison said of them and, unless that was a match, a judgement.  *)
THEOREM EveryRowIsSettledHolds == Spec => []EveryRowIsSettled
<1>1. GraphInv => EveryRowIsSettled
  <2>1. SUFFICES ASSUME GraphInv, NEW i \in Invoices, NEW k \in DOMAIN table[i]
                 PROVE  LET row == table[i][k]
                        IN  /\ \A a \in Agents : thread[i][a] = "done"
                            /\ row.match = CompareOutputs(local[i]["agent1"], local[i]["agent2"])
                            /\ ~row.match =>
                                 /\ row.agent_winner # Null
                                 /\ row.agent_winner \in Agents \/ row.justification # Null
                                 /\ state[i].flag_disagreement
    BY DEF EveryRowIsSettled
  <2> DEFINE s == state[i]
  <2>2. TypeInv /\ RunInv(i)
    BY <2>1 DEF GraphInv
  <2>3. node[i] = "END" /\ table[i] = ResultRows(s)
    <3>1. table[i] # << >>
      BY <2>1
    <3> QED
      BY <2>2, <3>1 DEF RunInv, WriteInv
  <2>4. s.output["agent1"] \in AnyAnswer /\ s.output["agent2"] \in AnyAnswer
    <3>1. s.output \in [Agents -> AnyAnswer]
      BY <2>2 DEF TypeInv, States
    <3> QED
      BY <3>1 DEF Agents
  <2>5. /\ table[i][k].match = s.match /\ table[i][k].agent_winner = s.agent_winner
        /\ table[i][k].justification = s.justification
    <3> HIDE DEF s
    <3>1. DOMAIN table[i] = 1..FrameLength(s.output["agent1"], s.output["agent2"])
      BY <2>3, <2>4, ResultRowsAreAFrame
    <3> QED
      BY <2>1, <2>3, <2>4, <3>1, ResultRowsAreAFrame
  <2> QED
    BY <2>2, <2>3, <2>5 DEF RunInv, ReviewInv
<1> QED
  BY <1>1, GraphInvHolds, PTL

(* And that what a run reports is in the table.                           *)
LEMMA GraphInvGivesReport == GraphInv => ReportMatchesTable
<1>1. SUFFICES ASSUME GraphInv, NEW i \in Invoices
               PROVE  /\ node[i] = "END" /\ ~state[i].write_error =>
                           /\ Len(table[i]) = state[i].rows_written
                           /\ \A a \in Agents : Len(state[i].output[a]) <= Len(table[i])
                           /\ Len(table[i]) >= 1
                      /\ node[i] = "raised" => table[i] = << >>
  BY DEF ReportMatchesTable
<1> DEFINE s == state[i]
<1>2. TypeInv /\ RunInv(i)
  BY <1>1 DEF GraphInv
<1>3. ASSUME node[i] = "END", ~s.write_error
      PROVE  /\ Len(table[i]) = s.rows_written /\ Len(table[i]) >= 1
             /\ \A a \in Agents : Len(s.output[a]) <= Len(table[i])
  <2>1. table[i] = ResultRows(s) /\ s.rows_written = Len(table[i])
    BY <1>2, <1>3 DEF RunInv, WriteInv
  <2>2. s.output["agent1"] \in AnyAnswer /\ s.output["agent2"] \in AnyAnswer
    <3>1. s.output \in [Agents -> AnyAnswer]
      BY <1>2 DEF TypeInv, States
    <3> QED
      BY <3>1 DEF Agents
  <2>3. Len(table[i]) = FrameLength(s.output["agent1"], s.output["agent2"])
    BY <2>1, <2>2, ResultRowsAreAFrame
  <2>4. /\ Len(table[i]) >= Len(s.output["agent1"]) /\ Len(table[i]) >= 1
        /\ Len(table[i]) >= Len(s.output["agent2"])
        /\ Len(s.output["agent1"]) \in Nat /\ Len(s.output["agent2"]) \in Nat
        /\ Len(table[i]) \in Nat
    BY <2>2, <2>3, AnswersAreLists, FrameLengthIsMaximal
  <2>5. ASSUME NEW a \in Agents PROVE Len(s.output[a]) <= Len(table[i])
    BY <2>4 DEF Agents
  <2> QED
    BY <2>1, <2>4, <2>5
<1>4. node[i] = "raised" => table[i] = << >>
  BY <1>2 DEF RunInv, WriteInv
<1> QED
  BY <1>3, <1>4

(* A run that ends without a write error reports the rows that are in the  *)
(* table, all of them; a run that raised has left none.                    *)
THEOREM ReportMatchesTableHolds == Spec => []ReportMatchesTable
<1>1. QED
  BY GraphInvGivesReport, GraphInvHolds, PTL

(* The agent runs that have looked something up.                           *)
HasLookedUp(i, a) ==
  /\ state[i].raw_pdf_text # NoText
  /\ thread[i][a] \in {"call", "store", "done", "failed"}
Lookups == {ia \in Invoices \X Agents : HasLookedUp(ia[1], ia[2])}

(* Each thread looks up once at most, and there are finitely many.         *)
LEMMA LookupsAreFinite == IsFiniteSet(Lookups)
<1>1. IsFiniteSet(Agents)
  <2>1. IsFiniteSet({"agent1"})
    BY FS_Singleton
  <2>2. IsFiniteSet({"agent1"} \union {"agent2"})
    BY <2>1, FS_AddElement
  <2>3. Agents = {"agent1"} \union {"agent2"}
    BY DEF Agents
  <2> QED
    BY <2>2, <2>3
<1>2. IsFiniteSet(Invoices \X Agents)
  BY <1>1, FS_Product, GraphAssumption
<1>3. Lookups \in SUBSET (Invoices \X Agents)
  BY DEF Lookups
<1> QED
  BY <1>2, <1>3, FS_Subset

(* Only a lookup makes a difference to who has looked something up.        *)
LEMMA LookupsStep ==
  ASSUME GraphInv, [Next]_vars
  PROVE  \/ Lookups' = Lookups /\ cache'.hits + cache'.misses = cache.hits + cache.misses
         \/ ~EnableCache
         \/ \E i \in Invoices, a \in Agents :
              /\ <<i, a>> \notin Lookups /\ Lookups' = Lookups \union {<<i, a>>}
              /\ cache'.hits + cache'.misses = cache.hits + cache.misses + 1
<1>0. TypeInv /\ CacheIsBounded /\ \A i \in Invoices : RunInv(i)
  BY DEF GraphInv
<1>a. /\ thread \in [Invoices -> [Agents -> Steps]] /\ state \in [Invoices -> States]
      /\ node \in [Invoices -> Nodes]
  BY <1>0 DEF TypeInv
<1>b. ASSUME \A i \in Invoices, a \in Agents : HasLookedUp(i, a)' <=> HasLookedUp(i, a)
      PROVE  Lookups' = Lookups
  BY <1>b DEF Lookups
<1>1. ASSUME NEW i \in Invoices, LoadInvoice(i)
      PROVE  Lookups' = Lookups /\ cache' = cache
  <2>1. /\ \A a \in Agents : thread[i][a] = "idle" /\ thread'[i][a] = "start"
        /\ UNCHANGED cache
    BY <1>0, <1>1, <1>a DEF LoadInvoice, RunInv, ThreadInv
  <2>2. \A j \in Invoices \ {i} : state'[j] = state[j] /\ thread'[j] = thread[j]
    BY <1>0, <1>1, NodeStep
  <2>3. \A j \in Invoices, a \in Agents : HasLookedUp(j, a)' <=> HasLookedUp(j, a)
    BY <2>1, <2>2 DEF HasLookedUp
  <2> QED
    BY <1>b, <2>1, <2>3
<1>2. ASSUME NEW i \in Invoices,
             JoinExtract(i) \/ Compare(i) \/ JudgeDisagreement(i) \/ JudgeFails(i) \/ Writes(i)
      PROVE  Lookups' = Lookups /\ cache' = cache
  <2>1. UNCHANGED <<thread, cache>>
    BY <1>2 DEF JoinExtract, Compare, JudgeDisagreement, JudgeFails, Writes
  <2>2. \A j \in Invoices \ {i} : state'[j] = state[j]
    BY <1>0, <1>2, NodeStep
  <2>3. node[i] # "load_invoice" /\ node'[i] # "load_invoice"
    BY <1>2, <1>a DEF JoinExtract, Compare, JudgeDisagreement, JudgeFails, Writes
  <2>4. RunInv(i) /\ RunInv(i)'
    BY <1>0, <1>2, NodeStep
  <2>5. state'[i].load_error <=> state[i].load_error
    <3>1. state[i] \in States
      BY <1>a
    <3>2. CASE JoinExtract(i)
      <4>1. state' = state \/ state' = [state EXCEPT ![i].output = local[i]]
        BY <3>2 DEF JoinExtract
      <4> QED
        BY <1>a, <3>1, <4>1 DEF States
    <3>3. CASE Compare(i)
      BY <1>a, <3>1, <3>3 DEF Compare, States
    <3>4. CASE JudgeDisagreement(i)
      BY <1>a, <3>1, <3>4 DEF JudgeDisagreement, States
    <3>5. CASE JudgeFails(i)
      BY <3>5 DEF JudgeFails
    <3>6. CASE Writes(i)
      <4>1. \/ \E n : state' = [state EXCEPT ![i].rows_written = n]
            \/ state' = [state EXCEPT ![i].write_error = TRUE]
        BY <3>6 DEF Writes
      <4> QED
        BY <1>a, <3>1, <4>1 DEF States
    <3> QED
      BY <1>2, <3>2, <3>3, <3>4, <3>5, <3>6
  <2>6. \A a \in Agents : HasLookedUp(i, a)' <=> HasLookedUp(i, a)
    BY <2>1, <2>3, <2>4, <2>5 DEF RunInv, TextInv, HasLookedUp
  <2>7. \A j \in Invoices, a \in Agents : HasLookedUp(j, a)' <=> HasLookedUp(j, a)
    BY <2>1, <2>2, <2>6 DEF HasLookedUp
  <2> QED
    BY <1>b, <2>1, <2>7
<1>3. ASSUME NEW i \in Invoices, NEW a \in Agents, AgentStep(i, a)
      PROVE  \/ Lookups' = Lookups /\ cache'.hits + cache'.misses = cache.hits + cache.misses
             \/ ~EnableCache
             \/ /\ <<i, a>> \notin Lookups /\ Lookups' = Lookups \union {<<i, a>>}
                /\ cache'.hits + cache'.misses = cache.hits + cache.misses + 1
  <2>0. /\ RunInv(i) /\ UNCHANGED <<node, state, table>>
        /\ \A j \in Invoices \ {i} : thread'[j] = thread[j]
    BY <1>0, <1>3, ThreadStep
  <2>1. CASE LookupCache(i, a) /\ EnableCache
    <3>1. /\ thread' \in {[thread EXCEPT ![i][a] = "done"], [thread EXCEPT ![i][a] = "call"]}
          /\ cache' = AfterGet(cache, KeyOf(i, a)) /\ thread[i][a] = "start"
          /\ state[i].raw_pdf_text # NoText
      BY <2>1 DEF LookupCache, Starting
    <3>2. /\ HasLookedUp(i, a)' /\ ~HasLookedUp(i, a)
          /\ \A j \in Invoices, b \in Agents :
               <<j, b>> # <<i, a>> => (HasLookedUp(j, b)' <=> HasLookedUp(j, b))
      BY <1>a, <2>0, <3>1 DEF HasLookedUp
    <3>3. <<i, a>> \notin Lookups /\ Lookups' = Lookups \union {<<i, a>>}
      BY <3>2 DEF Lookups
    <3> QED
      BY <1>0, <3>1, <3>3, CacheAfterGet
  <2>2. CASE ~LookupCache(i, a)
    <3>1. /\ \/ thread[i][a] = "start" /\ thread'[i][a] = "cancelled"
             \/ thread[i][a] \in {"call", "store"} /\ thread'[i][a] \in {"store", "done", "failed"}
             \/ thread[i][a] = "start" /\ state[i].raw_pdf_text = NoText
          /\ \A b \in Agents \ {a} : thread'[i][b] = thread[i][b]
      <4>1. CASE SkipExtraction(i, a)
        BY <1>a, <4>1 DEF SkipExtraction, Starting
      <4>2. CASE CallModel(i, a)
        BY <1>a, <4>2 DEF CallModel
      <4>3. CASE ModelFails(i, a) \/ StoreAnswer(i, a)
        BY <1>a, <4>3 DEF ModelFails, StoreAnswer
      <4>4. CASE CancelSibling(i, a)
        BY <1>a, <4>4 DEF CancelSibling, Starting
      <4> QED
        BY <1>3, <2>2, <4>1, <4>2, <4>3, <4>4 DEF AgentStep
    <3>2. \A b \in Agents : HasLookedUp(i, b)' <=> HasLookedUp(i, b)
      BY <2>0, <3>1 DEF HasLookedUp
    <3>3. \A j \in Invoices, b \in Agents : HasLookedUp(j, b)' <=> HasLookedUp(j, b)
      BY <2>0, <3>2 DEF HasLookedUp
    <3>4. Lookups' = Lookups
      BY <1>b, <3>3
    <3>5. cache'.hits = cache.hits /\ cache'.misses = cache.misses
      <4>1. CASE StoreAnswer(i, a)
        <5>1. KeyOf(i, a) = <<a, TextOf[i]>> /\ local[i][a] \in Answers[<<a, TextOf[i]>>]
          BY <2>0, <4>1 DEF StoreAnswer, RunInv, ThreadInv, TextInv, Given, KeyOf, CacheKey
        <5> QED
          BY <1>0, <4>1, <5>1, CacheAfterSet, KeyFacts DEF StoreAnswer
      <4> QED
        BY <1>3, <2>2, <4>1 DEF AgentStep, SkipExtraction, CallModel, ModelFails, CancelSibling
    <3> QED
      BY <3>4, <3>5
  <2> QED
    BY <2>1, <2>2
<1>4. CASE UNCHANGED vars
  BY <1>4, <1>b DEF vars, HasLookedUp
<1> QED
  BY <1>0, <1>1, <1>2, <1>3, <1>4, StepCases

(* hits + misses is the number of agent runs that looked something up: no  *)
(* interleaving of their threads loses a count.                            *)
THEOREM StatsCountEveryLookupHolds == Spec => []StatsCountEveryLookup
<1> DEFINE Stats == EnableCache => cache.hits + cache.misses = Cardinality(Lookups)
<1>1. Init => Stats
  <2>1. SUFFICES ASSUME Init PROVE cache.hits + cache.misses = Cardinality(Lookups)
    OBVIOUS
  <2>2. Lookups = {}
    BY <2>1 DEF Init, InitialState, Lookups, HasLookedUp
  <2>3. cache.hits + cache.misses = 0
    BY <2>1 DEF Init, EmptyCache
  <2> QED
    BY <2>2, <2>3, FS_EmptySet
<1>2. GraphInv /\ Stats /\ [Next]_vars => Stats'
  <2>1. SUFFICES ASSUME GraphInv, EnableCache, [Next]_vars,
                        cache.hits + cache.misses = Cardinality(Lookups)
                 PROVE  cache'.hits + cache'.misses = Cardinality(Lookups')
    OBVIOUS
  <2>2. CASE \E i \in Invoices, a \in Agents :
              /\ <<i, a>> \notin Lookups /\ Lookups' = Lookups \union {<<i, a>>}
              /\ cache'.hits + cache'.misses = cache.hits + cache.misses + 1
    BY <2>1, <2>2, LookupsAreFinite, FS_AddElement
  <2> QED
    BY <2>1, <2>2, LookupsStep
<1>3. Stats => StatsCountEveryLookup
  BY DEF StatsCountEveryLookup, Lookups, HasLookedUp
<1> QED
  <2> HIDE DEF Stats
  <2> QED
    BY <1>1, <1>2, <1>3, GraphInvHolds, PTL DEF Spec
=============================================================================
