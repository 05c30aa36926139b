---------------------------- MODULE BatchProofs ----------------------------
(***************************************************************************)
(* Proofs about Batch, for every list of invoices, every assignment of     *)
(* basenames, every concurrency limit and both write modes.                *)
(***************************************************************************)
EXTENDS Batch, FiniteSetTheorems, TLAPS

Row == [task : Tasks, read : BOOLEAN]

-----------------------------------------------------------------------------
(* Tasks are the positions of the list; each has a file and an id.         *)
LEMMA TaskFacts ==
  /\ Len(Paths) \in Nat
  /\ Tasks = 1..Len(Paths)
  /\ 0 \notin Tasks
  /\ \A t \in Tasks : Paths[t] \in Files /\ IdOf(t) \in Names
  BY BatchAssumption DEF Tasks, IdOf, Names

(* The rows of one write.                                                  *)
LEMMA RowsFacts ==
  ASSUME NEW t \in Tasks, NEW n \in RowCounts(t)
  PROVE  /\ n \in Nat /\ n >= 1
         /\ Rows(t, n) \in Seq(Row)
         /\ Len(Rows(t, n)) = n
         /\ DOMAIN Rows(t, n) = 1..n
         /\ \A k \in 1..n : Rows(t, n)[k] = [task |-> t, read |-> pc[t] = "read"]
         /\ Rows(t, n)[1] \in Row
<1>1. n \in Nat /\ n >= 1
  BY BatchAssumption DEF RowCounts
<1>2. \A k \in 1..n : [task |-> t, read |-> pc[t] = "read"] \in Row
  BY DEF Row
<1> QED
  BY <1>1, <1>2 DEF Rows

(* A commit touches one invoice_id, and leaves a table.                    *)
LEMMA CommitType ==
  ASSUME table \in [Names -> Seq(Row)],
         NEW t \in Tasks, NEW n \in RowCounts(t), Commit(t, n)
  PROVE  /\ table' \in [Names -> Seq(Row)]
         /\ \A id \in Names : id # IdOf(t) => table'[id] = table[id]
<1> DEFINE rows == Rows(t, n)
           old == table[IdOf(t)]
<1>1. IdOf(t) \in Names /\ old \in Seq(Row)
  BY TaskFacts
<1>2. rows \in Seq(Row) /\ Len(rows) >= 1 /\ rows[1] \in Row
  BY RowsFacts
<1>3. CASE WriteMode = "merge"
  <2>1. table' = [table EXCEPT ![IdOf(t)] =
                    IF Len(old) = 0 THEN rows ELSE [i \in DOMAIN old |-> rows[1]]]
    BY <1>3, <1>1 DEF Commit, AfterMerge
  <2>2. [i \in DOMAIN old |-> rows[1]] \in Seq(Row)
    <3> HIDE DEF rows
    <3> QED
      BY <1>1, <1>2
  <2> HIDE DEF rows, old
  <2> QED
    BY <1>1, <1>2, <2>1, <2>2
<1>4. CASE WriteMode # "merge"
  <2>1. table' = [table EXCEPT ![IdOf(t)] = old \o rows]
    BY <1>4, <1>1 DEF Commit, AfterAppend
  <2>2. old \o rows \in Seq(Row)
    <3> HIDE DEF rows, old
    <3> QED
      BY <1>1, <1>2
  <2> HIDE DEF rows, old
  <2> QED
    BY <1>1, <1>2, <2>1, <2>2
<1> QED
  BY <1>3, <1>4

(* A committed write is in the table.                                      *)
LEMMA CommitStores ==
  ASSUME table \in [Names -> Seq(Row)],
         NEW t \in Tasks, NEW n \in RowCounts(t), Commit(t, n)
  PROVE  \E k \in DOMAIN table'[IdOf(t)] :
           table'[IdOf(t)][k] = [task |-> t, read |-> pc[t] = "read"]
<1> DEFINE rows == Rows(t, n)
           old == table[IdOf(t)]
           row == [task |-> t, read |-> pc[t] = "read"]
<1>1. IdOf(t) \in Names /\ old \in Seq(Row)
  BY TaskFacts
<1>2. rows \in Seq(Row) /\ Len(rows) >= 1 /\ rows[1] = row /\ 1 \in DOMAIN rows
  BY RowsFacts
<1>3. CASE WriteMode = "merge"
  <2>1. table'[IdOf(t)] =
          IF Len(old) = 0 THEN rows ELSE [i \in DOMAIN old |-> rows[1]]
    BY <1>3, <1>1 DEF Commit, AfterMerge
  <2> HIDE DEF rows, old
  <2>2. CASE Len(old) = 0
    BY <1>2, <2>1, <2>2
  <2>3. CASE Len(old) # 0
    <3>1. 1 \in DOMAIN old
      BY <1>1, <2>3
    <3> QED
      BY <1>2, <2>1, <2>3, <3>1
  <2> QED
    BY <2>2, <2>3
<1>4. CASE WriteMode # "merge"
  <2>1. table'[IdOf(t)] = old \o rows
    BY <1>4, <1>1 DEF Commit, AfterAppend
  <2> HIDE DEF rows, old
  <2>2. /\ Len(old) + 1 \in DOMAIN (old \o rows)
        /\ (old \o rows)[Len(old) + 1] = rows[1]
    BY <1>1, <1>2
  <2> QED
    BY <1>2, <2>1, <2>2
<1> QED
  BY <1>3, <1>4

(* An append keeps every row where it is.                                  *)
LEMMA AppendKeeps ==
  ASSUME table \in [Names -> Seq(Row)], WriteMode = "append",
         NEW t \in Tasks, NEW n \in RowCounts(t), Commit(t, n),
         NEW id \in Names, NEW k \in DOMAIN table[id]
  PROVE  k \in DOMAIN table'[id] /\ table'[id][k] = table[id][k]
<1> DEFINE rows == Rows(t, n)
<1>1. table[id] \in Seq(Row) /\ rows \in Seq(Row)
  BY RowsFacts
<1>2. table' = [table EXCEPT ![IdOf(t)] = table[IdOf(t)] \o rows]
  BY TaskFacts DEF Commit, AfterAppend
<1> HIDE DEF rows
<1>3. CASE id = IdOf(t)
  <2>1. table'[id] = table[id] \o rows
    BY <1>2, <1>3
  <2> QED
    BY <1>1, <2>1
<1>4. CASE id # IdOf(t)
  BY <1>2, <1>4
<1> QED
  BY <1>3, <1>4

-----------------------------------------------------------------------------
(* What the writing step of a task leaves, whichever way the write ended.  *)
LEMMA WriteStep ==
  ASSUME TypeOK, NEW t \in Tasks, GraphWrites(t) \/ GraphWriteFails(t)
  PROVE  /\ pc[t] \in {"read", "unreadable"}
         /\ pc' = [pc EXCEPT ![t] = "returned"]
         /\ \E r \in [success : BOOLEAN, rows_written : Nat, flagged : BOOLEAN] :
              /\ result' = [result EXCEPT ![t] = r]
              /\ r.success => /\ pc[t] = "read"
                             /\ \E n \in RowCounts(t) : Commit(t, n)
              /\ r.rows_written # 0 =>
                   \E n \in RowCounts(t) : Commit(t, n) /\ r.rows_written = n
         /\ UNCHANGED table \/ \E n \in RowCounts(t) : Commit(t, n)
         /\ UNCHANGED <<main, current, where, summary>>
<1>1. CASE GraphWrites(t)
  <2>1. PICK n \in RowCounts(t), flagged \in BOOLEAN :
          Commit(t, n) /\ Return(t, Succeeds(pc[t] = "unreadable", FALSE), n, flagged)
    BY <1>1 DEF GraphWrites
  <2>2. n \in Nat
    BY RowsFacts
  <2> DEFINE r == [ success |-> Succeeds(pc[t] = "unreadable", FALSE),
                    rows_written |-> n, flagged |-> flagged ]
  <2>3. r \in [success : BOOLEAN, rows_written : Nat, flagged : BOOLEAN]
    BY <2>2 DEF Succeeds
  <2>4. result' = [result EXCEPT ![t] = r] /\ pc' = [pc EXCEPT ![t] = "returned"]
    BY <2>1 DEF Return
  <2>5. r.success => pc[t] = "read"
    BY <1>1 DEF Succeeds, GraphWrites
  <2> QED
    BY <1>1, <2>1, <2>3, <2>4, <2>5 DEF GraphWrites
<1>2. CASE GraphWriteFails(t)
  <2>1. PICK n \in RowCounts(t), flagged \in BOOLEAN :
          /\ UNCHANGED table \/ Commit(t, n)
          /\ Return(t, Succeeds(pc[t] = "unreadable", TRUE), 0, flagged)
    BY <1>2 DEF GraphWriteFails
  <2> DEFINE r == [ success |-> Succeeds(pc[t] = "unreadable", TRUE),
                    rows_written |-> 0, flagged |-> flagged ]
  <2>2. r \in [success : BOOLEAN, rows_written : Nat, flagged : BOOLEAN] /\ ~r.success
    BY DEF Succeeds
  <2>3. result' = [result EXCEPT ![t] = r] /\ pc' = [pc EXCEPT ![t] = "returned"]
    BY <2>1 DEF Return
  <2> QED
    BY <1>2, <2>1, <2>2, <2>3 DEF GraphWriteFails
<1> QED
  BY <1>1, <1>2

(* The initial state is well typed.                                        *)
LEMMA TypeInit == Init => TypeOK
  BY TaskFacts, BatchAssumption DEF Init, TypeOK, NoResult, Names

(* Every step keeps the types.                                             *)
LEMMA TypeStep == TypeOK /\ [Next]_vars => TypeOK'
<1> SUFFICES ASSUME TypeOK, [Next]_vars PROVE TypeOK'
  OBVIOUS
<1> USE TaskFacts DEF TypeOK
<1>1. ASSUME NEW t \in Tasks, Submit(t) PROVE TypeOK'
  BY <1>1 DEF Submit
<1>2. ASSUME NEW t \in Tasks, Collect(t) PROVE TypeOK'
  BY <1>2 DEF Collect
<1>3. CASE MaybeMove
  <2>1. where' \in [Files -> {"input", "archive", "quarantine", "lost"}]
    <3>1. where' = where \/ where' = Moved(Paths[current], Destination(current))
      BY <1>3 DEF MaybeMove
    <3>2. Destination(current) \in {"archive", "quarantine"}
      BY DEF Destination
    <3> QED
      BY <3>1, <3>2 DEF Moved
  <2>2. main' = "collect" /\ current' = 0 /\ UNCHANGED <<pc, result, table, summary>>
    BY <1>3 DEF MaybeMove
  <2> QED
    BY <2>1, <2>2
<1>4. CASE Summarise
  BY <1>4 DEF Summarise
<1>5. ASSUME NEW t \in Tasks, Start(t) PROVE TypeOK'
  BY <1>5 DEF Start
<1>6. ASSUME NEW t \in Tasks, Read(t) PROVE TypeOK'
  BY <1>6 DEF Read
<1>7. ASSUME NEW t \in Tasks, GraphRaises(t) PROVE TypeOK'
  BY <1>7 DEF GraphRaises, Return
<1>8. ASSUME NEW t \in Tasks, GraphWrites(t) \/ GraphWriteFails(t) PROVE TypeOK'
  <2>1. table' \in [Names -> Seq([task : Tasks, read : BOOLEAN])]
    BY <1>8, WriteStep, CommitType DEF Row
  <2>2. PICK r \in [success : BOOLEAN, rows_written : Nat, flagged : BOOLEAN] :
          result' = [result EXCEPT ![t] = r]
    <3> HIDE DEF TypeOK
    <3> QED
      BY <1>8, WriteStep
  <2>3. pc' = [pc EXCEPT ![t] = "returned"] /\ UNCHANGED <<main, current, where, summary>>
    BY <1>8, WriteStep
  <2> QED
    BY <2>1, <2>2, <2>3
<1>9. CASE Finished \/ UNCHANGED vars
  BY <1>9 DEF Finished, vars
<1> QED
  BY <1>1, <1>2, <1>3, <1>4, <1>5, <1>6, <1>7, <1>8, <1>9
     DEF Next, MainStep, WorkerStep

(* The variables of a batch stay in their types.                           *)
THEOREM TypeCorrect == Spec => []TypeOK
<1>1. QED
  BY TypeInit, TypeStep, PTL DEF Spec

-----------------------------------------------------------------------------
(* The chain from a PDF in the archive to rows in the table: the move was  *)
(* made from the result of a collected task, the result from its write,    *)
(* and what the write stored is still there.                               *)
Keeps(t) == WriteMode = "append" \/ Alone(t)
Stored(t) == \E k \in RowsOf(t) : table[IdOf(t)][k].read

SuccessInv == \A t \in Tasks : result[t].success => pc[t] \in {"returned", "collected"}
StoredInv == \A t \in Tasks : result[t].success /\ Keeps(t) => Stored(t)
CurrentInv == main = "move" => pc[current] = "collected"
ArchiveInv ==
  \A f \in Files : where[f] = "archive" =>
    \E t \in Tasks : Paths[t] = f /\ pc[t] = "collected" /\ result[t].success

PersistInv == TypeOK /\ SuccessInv /\ StoredInv /\ CurrentInv /\ ArchiveInv

(* The invariant gives the property.                                       *)
LEMMA PersistImplies == PersistInv => ArchivedIsPersisted
<1> SUFFICES ASSUME PersistInv, NEW t \in Tasks,
                    where[Paths[t]] = "archive", Keeps(t)
             PROVE  \E u \in Tasks : Paths[u] = Paths[t] /\ Stored(u)
  BY DEF ArchivedIsPersisted, Keeps, Stored
<1>1. PICK u \in Tasks : Paths[u] = Paths[t] /\ result[u].success
  BY TaskFacts DEF PersistInv, ArchiveInv
<1>2. Keeps(u)
  BY <1>1 DEF Keeps, Alone, IdOf
<1> QED
  BY <1>1, <1>2 DEF PersistInv, StoredInv

(* It holds before anything is submitted.                                  *)
LEMMA PersistInit == Init => PersistInv
<1> SUFFICES ASSUME Init PROVE PersistInv
  OBVIOUS
<1>1. \A t \in Tasks : result[t].success = FALSE
  BY DEF Init, NoResult
<1>2. CurrentInv /\ ArchiveInv
  BY DEF Init, CurrentInv, ArchiveInv
<1> QED
  BY <1>1, <1>2, TypeInit DEF PersistInv, SuccessInv, StoredInv

(* A write of task t leaves the good rows of another task u in place: an   *)
(* append keeps all rows, and a merge those of other invoice_ids.          *)
LEMMA WriteKeeps ==
  ASSUME TypeOK, NEW t \in Tasks, NEW u \in Tasks, u # t, Keeps(u), Stored(u),
         UNCHANGED table \/ \E n \in RowCounts(t) : Commit(t, n)
  PROVE  Stored(u)'
<1>1. PICK k \in DOMAIN table[IdOf(u)] :
        table[IdOf(u)][k].task = u /\ table[IdOf(u)][k].read
  BY DEF Stored, RowsOf
<1>2. SUFFICES k \in DOMAIN table'[IdOf(u)] /\ table'[IdOf(u)][k] = table[IdOf(u)][k]
  BY <1>1 DEF Stored, RowsOf
<1>3. CASE UNCHANGED table
  BY <1>1, <1>3
<1>4. ASSUME NEW n \in RowCounts(t), Commit(t, n)
      PROVE  k \in DOMAIN table'[IdOf(u)] /\ table'[IdOf(u)][k] = table[IdOf(u)][k]
  <2>1. table \in [Names -> Seq(Row)] /\ IdOf(u) \in Names
    BY TaskFacts DEF TypeOK, Row
  <2>2. CASE WriteMode = "append"
    BY <1>1, <1>4, <2>1, <2>2, AppendKeeps
  <2>3. CASE Alone(u)
    <3>1. IdOf(t) # IdOf(u)
      BY <2>3 DEF Alone
    <3>2. table'[IdOf(u)] = table[IdOf(u)]
      BY <1>4, <2>1, <3>1, CommitType
    <3> QED
      BY <1>1, <3>2
  <2> QED
    BY <2>2, <2>3 DEF Keeps
<1> QED
  BY <1>3, <1>4

(* Steps that write nothing keep what is stored.                           *)
LEMMA StoredUnchanged ==
  ASSUME StoredInv, UNCHANGED table,
         \A t \in Tasks : result'[t].success => result[t].success
  PROVE  StoredInv'
  BY DEF StoredInv, Stored, RowsOf, Keeps, Alone

(* A task that returns does not disturb the collected ones.                *)
LEMMA OthersStayCollected ==
  ASSUME TypeOK, ArchiveInv, NEW t \in Tasks, pc[t] # "collected", NEW r,
         pc' = [pc EXCEPT ![t] = "returned"], result' = [result EXCEPT ![t] = r],
         UNCHANGED where
  PROVE  ArchiveInv'
<1> SUFFICES ASSUME NEW f \in Files, where[f] = "archive"
             PROVE  \E u \in Tasks : Paths[u] = f /\ pc'[u] = "collected" /\ result'[u].success
  BY DEF ArchiveInv
<1>1. PICK u \in Tasks : Paths[u] = f /\ pc[u] = "collected" /\ result[u].success
  BY DEF ArchiveInv
<1>2. pc'[u] = pc[u] /\ result'[u] = result[u]
  BY <1>1 DEF TypeOK
<1> QED
  BY <1>1, <1>2

(* Every step keeps the chain.                                             *)
LEMMA PersistStep == PersistInv /\ [Next]_vars => PersistInv'
<1> SUFFICES ASSUME PersistInv, [Next]_vars PROVE PersistInv'
  OBVIOUS
<1>0. TypeOK'
  BY TypeStep DEF PersistInv
<1> SUFFICES SuccessInv' /\ StoredInv' /\ CurrentInv' /\ ArchiveInv'
  BY <1>0 DEF PersistInv
<1> USE TaskFacts DEF PersistInv, SuccessInv, CurrentInv, ArchiveInv, TypeOK
<1>1. ASSUME NEW t \in Tasks, Submit(t) \/ Start(t) \/ Read(t)
      PROVE  SuccessInv' /\ StoredInv' /\ CurrentInv' /\ ArchiveInv'
  <2>1. /\ pc[t] \in {"new", "queued", "started"} /\ UNCHANGED <<current, result, table, where>>
        /\ \E step \in {"queued", "started", "read", "unreadable"} : pc' = [pc EXCEPT ![t] = step]
        /\ main' = main \/ main' = "collect"
    BY <1>1 DEF Submit, Start, Read
  <2>2. StoredInv'
    BY <2>1, StoredUnchanged
  <2>3. SuccessInv' /\ CurrentInv'
    BY <2>1
  <2>4. ArchiveInv'
    BY <2>1
  <2> QED
    BY <2>2, <2>3, <2>4
<1>2. ASSUME NEW t \in Tasks, Collect(t)
      PROVE  SuccessInv' /\ StoredInv' /\ CurrentInv' /\ ArchiveInv'
  <2>1. /\ pc' = [pc EXCEPT ![t] = "collected"] /\ current' = t
        /\ UNCHANGED <<result, table, where>>
    BY <1>2 DEF Collect
  <2>2. StoredInv'
    BY <2>1, StoredUnchanged
  <2> QED
    BY <2>1, <2>2
<1>3. CASE MaybeMove
  <2>1. main = "move" /\ main' = "collect" /\ UNCHANGED <<pc, result, table>>
    BY <1>3 DEF MaybeMove
  <2>2. StoredInv'
    BY <2>1, StoredUnchanged
  <2>3. ArchiveInv'
    <3>1. CASE UNCHANGED where
      BY <2>1, <3>1
    <3>2. CASE where' = Moved(Paths[current], Destination(current))
      <4> SUFFICES ASSUME NEW f \in Files, where'[f] = "archive"
                   PROVE  \E t \in Tasks : Paths[t] = f /\ pc[t] = "collected"
                                           /\ result[t].success
        BY <2>1
      <4>1. CASE f = Paths[current]
        <5>1. current \in Tasks /\ pc[current] = "collected"
          BY <2>1
        <5>2. result[current].success
          BY <3>2, <4>1 DEF Moved, Destination
        <5> QED
          BY <4>1, <5>1, <5>2
      <4>2. CASE f # Paths[current]
        BY <3>2, <4>2 DEF Moved
      <4> QED
        BY <4>1, <4>2
    <3> QED
      BY <1>3, <3>1, <3>2 DEF MaybeMove
  <2> QED
    BY <2>1, <2>2, <2>3
<1>4. CASE Summarise
  BY <1>4, StoredUnchanged DEF Summarise
<1>5. ASSUME NEW t \in Tasks, GraphRaises(t)
      PROVE  SuccessInv' /\ StoredInv' /\ CurrentInv' /\ ArchiveInv'
  <2>1. /\ pc[t] = "read" /\ pc' = [pc EXCEPT ![t] = "returned"]
        /\ UNCHANGED <<main, current, table, where>>
        /\ result' = [result EXCEPT ![t] = NoResult] /\ ~NoResult.success
    BY <1>5 DEF GraphRaises, Return, NoResult
  <2>2. \A u \in Tasks : result'[u].success => result[u].success
    BY <2>1
  <2>3. StoredInv'
    BY <2>1, <2>2, StoredUnchanged
  <2>4. ArchiveInv'
    BY <2>1, OthersStayCollected
  <2> QED
    BY <2>1, <2>2, <2>3, <2>4
<1>6. ASSUME NEW t \in Tasks, GraphWrites(t) \/ GraphWriteFails(t)
      PROVE  SuccessInv' /\ StoredInv' /\ CurrentInv' /\ ArchiveInv'
  <2>1. PICK r \in [success : BOOLEAN, rows_written : Nat, flagged : BOOLEAN] :
          /\ result' = [result EXCEPT ![t] = r]
          /\ r.success => pc[t] = "read" /\ \E n \in RowCounts(t) : Commit(t, n)
    BY <1>6, WriteStep
  <2>2. /\ pc[t] \in {"read", "unreadable"} /\ pc' = [pc EXCEPT ![t] = "returned"]
        /\ UNCHANGED <<main, current, where>>
        /\ UNCHANGED table \/ \E n \in RowCounts(t) : Commit(t, n)
    BY <1>6, WriteStep
  <2>3. StoredInv'
    <3> SUFFICES ASSUME NEW u \in Tasks, result'[u].success, Keeps(u)
                 PROVE  Stored(u)'
      BY DEF StoredInv, Keeps, Alone
    <3>1. CASE u = t
      <4>1. pc[t] = "read" /\ \E n \in RowCounts(t) : Commit(t, n)
        BY <2>1, <3>1
      <4>2. \E k \in DOMAIN table'[IdOf(t)] :
              table'[IdOf(t)][k] = [task |-> t, read |-> pc[t] = "read"]
        BY <4>1, CommitStores DEF Row
      <4>3. PICK k \in DOMAIN table'[IdOf(t)] :
              table'[IdOf(t)][k] = [task |-> t, read |-> TRUE]
        BY <4>1, <4>2
      <4>4. table'[IdOf(t)][k].task = t /\ table'[IdOf(t)][k].read
        BY <4>3
      <4> QED
        BY <3>1, <4>3, <4>4 DEF Stored, RowsOf
    <3>2. CASE u # t
      <4>1. Stored(u)
        BY <2>1, <3>2 DEF StoredInv
      <4> QED
        BY <2>2, <3>2, <4>1, WriteKeeps
    <3> QED
      BY <3>1, <3>2
  <2>4. SuccessInv'
    BY <2>1, <2>2
  <2>5. CurrentInv'
    BY <2>2
  <2>6. ArchiveInv'
    BY <2>1, <2>2, OthersStayCollected
  <2> QED
    BY <2>3, <2>4, <2>5, <2>6
<1>7. CASE Finished \/ UNCHANGED vars
  <2>1. UNCHANGED <<main, current, pc, result, table, where>>
    BY <1>7 DEF Finished, vars
  <2>2. StoredInv'
    BY <2>1, StoredUnchanged
  <2> QED
    BY <2>1, <2>2
<1> QED
  BY <1>1, <1>2, <1>3, <1>4, <1>5, <1>6, <1>7 DEF Next, MainStep, WorkerStep

(* A PDF in the archive has rows made from its text in the table.          *)
THEOREM ArchivedIsPersistedHolds == Spec => []ArchivedIsPersisted
<1>1. QED
  BY PersistInit, PersistStep, PersistImplies, PTL DEF Spec

-----------------------------------------------------------------------------
(* The pool has a worker at least and no more than the setting allows.     *)
LEMMA WorkersFacts ==
  /\ MaxWorkers \in Nat
  /\ MaxWorkers <= IF MaxConcurrent > 1 THEN MaxConcurrent ELSE 1
  BY TaskFacts, BatchAssumption DEF MaxWorkers

(* There are finitely many tasks, so the running ones can be counted.      *)
LEMMA RunningFinite == IsFiniteSet(Running) /\ Cardinality(Running) \in Nat
<1>1. IsFiniteSet(Tasks)
  BY TaskFacts, FS_Interval, 1 \in Int
<1>2. IsFiniteSet(Running)
  BY <1>1, FS_Subset DEF Running
<1> QED
  BY <1>2, FS_CardinalityType

PoolInv == Cardinality(Running) <= MaxWorkers

(* Only Start adds a running task, and only when a worker is free.         *)
LEMMA PoolStep == TypeOK /\ PoolInv /\ [Next]_vars => PoolInv'
<1> SUFFICES ASSUME TypeOK, PoolInv, [Next]_vars PROVE PoolInv'
  OBVIOUS
<1>1. ASSUME Running' \subseteq Running PROVE PoolInv'
  <2>1. Cardinality(Running') <= Cardinality(Running) /\ Cardinality(Running') \in Nat
    BY <1>1, RunningFinite, FS_Subset, FS_CardinalityType
  <2> QED
    BY <2>1, RunningFinite, WorkersFacts DEF PoolInv, MaxWorkers
<1>2. ASSUME NEW t \in Tasks, Start(t) PROVE PoolInv'
  <2>1. Cardinality(Running) < MaxWorkers
    BY <1>2 DEF Start
  <2>2. Running' = Running \union {t}
    BY <1>2 DEF Start, Running, TypeOK
  <2>3. Cardinality(Running') <= Cardinality(Running) + 1
    BY <2>2, RunningFinite, FS_AddElement
  <2>4. Cardinality(Running') \in Nat
    BY <2>2, RunningFinite, FS_AddElement, FS_CardinalityType
  <2> QED
    BY <2>1, <2>3, <2>4, RunningFinite, WorkersFacts DEF PoolInv, MaxWorkers
<1>3. ASSUME NEW t \in Tasks,
             Submit(t) \/ Collect(t) \/ Read(t) \/ GraphRaises(t)
      PROVE  Running' \subseteq Running
  BY <1>3 DEF Submit, Collect, Read, GraphRaises, Return, Running, TypeOK
<1>4. ASSUME NEW t \in Tasks, GraphWrites(t) \/ GraphWriteFails(t)
      PROVE  Running' \subseteq Running
  <2>1. pc' = [pc EXCEPT ![t] = "returned"]
    BY <1>4, WriteStep
  <2> QED
    BY <2>1 DEF Running, TypeOK
<1>5. CASE MaybeMove \/ Summarise \/ Finished \/ UNCHANGED vars
  <2>1. Running' \subseteq Running
    BY <1>5 DEF MaybeMove, Summarise, Finished, vars, Running
  <2> QED
    BY <1>1, <2>1
<1> QED
  BY <1>1, <1>2, <1>3, <1>4, <1>5 DEF Next, MainStep, WorkerStep

(* Before the first task there is nothing running.                         *)
LEMMA PoolInit == Init => PoolInv
<1> SUFFICES ASSUME Init PROVE PoolInv
  OBVIOUS
<1>1. Running = {}
  BY DEF Init, Running
<1> QED
  BY <1>1, FS_EmptySet, WorkersFacts DEF PoolInv

(* As many tasks run as workers are busy, and those are within the pool.   *)
LEMMA PoolImplies == PoolInv => ConcurrencyIsCapped
  BY RunningFinite, WorkersFacts, BatchAssumption DEF PoolInv, ConcurrencyIsCapped

(* No more graphs run at a time than max_concurrent_invoices, and no more  *)
(* than one when that is zero or negative.                                 *)
THEOREM ConcurrencyIsCappedHolds == Spec => []ConcurrencyIsCapped
<1>1. QED
  BY PoolInit, PoolStep, PoolImplies, TypeCorrect, PTL DEF Spec

-----------------------------------------------------------------------------
AllAlone == \A t \in Tasks : Alone(t)

(* A step that moves a file is the main thread's, for a collected task;    *)
(* with basenames of their own, no other task's file moves.                *)
LEMMA MoveStep ==
  ASSUME TypeOK, CurrentInv, AllAlone, MaybeMove, NEW t \in Tasks
  PROVE  \/ where'[Paths[t]] = where[Paths[t]]
         \/ /\ pc[t] = "collected"
            /\ where'[Paths[t]] = Destination(t)
<1>1. current \in Tasks /\ pc[current] = "collected"
  BY DEF MaybeMove, TypeOK, CurrentInv
<1>2. CASE UNCHANGED where
  BY <1>2
<1>3. CASE where' = Moved(Paths[current], Destination(current)) /\ t = current
  BY <1>1, <1>3, TaskFacts DEF Moved
<1>4. CASE where' = Moved(Paths[current], Destination(current)) /\ t # current
  <2>1. NameOf[Paths[t]] # NameOf[Paths[current]]
    BY <1>1, <1>4 DEF AllAlone, Alone, IdOf
  <2> QED
    BY <1>4, <2>1, TaskFacts DEF Moved, SameTarget
<1> QED
  BY <1>2, <1>3, <1>4 DEF MaybeMove

(* Only MaybeMove moves files.                                             *)
LEMMA OnlyMoveMoves == TypeOK /\ [Next]_vars /\ where' # where => MaybeMove
<1> SUFFICES ASSUME TypeOK, [Next]_vars, where' # where PROVE MaybeMove
  OBVIOUS
<1>1. ASSUME NEW t \in Tasks, GraphWrites(t) \/ GraphWriteFails(t) PROVE FALSE
  BY <1>1, WriteStep
<1> QED
  BY <1>1 DEF Next, MainStep, WorkerStep, Submit, Collect, Summarise, Start, Read,
              GraphRaises, Finished, vars

(* No PDF is moved under a task that has still to read it.                 *)
THEOREM NoMoveUnderAReaderHolds == Spec => NoMoveUnderAReader
<1>1. PersistInv /\ [Next]_vars =>
        [AllAlone => \A t \in Tasks :
           where'[Paths[t]] # where[Paths[t]] => pc[t] = "collected"]_vars
  <2> SUFFICES ASSUME PersistInv, [Next]_vars, AllAlone, NEW t \in Tasks,
                      where'[Paths[t]] # where[Paths[t]]
               PROVE  pc[t] = "collected"
    OBVIOUS
  <2>1. TypeOK /\ CurrentInv
    BY DEF PersistInv
  <2>2. MaybeMove
    BY <2>1, OnlyMoveMoves
  <2> QED
    BY <2>1, <2>2, MoveStep
<1> QED
  BY <1>1, PersistInit, PersistStep, PTL DEF Spec, NoMoveUnderAReader, AllAlone

-----------------------------------------------------------------------------
(* The summary: once it is made nothing that it counts changes, the main   *)
(* thread makes it from collected tasks, and a PDF in quarantine is there  *)
(* for one that failed, as one in the archive is for one that succeeded.   *)
QuarantineInv ==
  \A f \in Files : where[f] = "quarantine" =>
    \E t \in Tasks : Paths[t] = f /\ pc[t] = "collected" /\ ~result[t].success

DoneInv ==
  main = "done" =>
    /\ \A t \in Tasks : pc[t] = "collected"
    /\ summary = [ total     |-> Len(Paths),
                   succeeded |-> Cardinality(Succeeded),
                   failed    |-> Len(Paths) - Cardinality(Succeeded),
                   flagged   |-> Cardinality(Flagged) ]

(* Under append, the rows a task reports are in the table to stay.         *)
ReportedInv ==
  WriteMode = "append" =>
    \A t \in Tasks : Cardinality(RowsOf(t)) >= result[t].rows_written

SummaryInv == PersistInv /\ QuarantineInv /\ DoneInv /\ ReportedInv

(* There are finitely many tasks, and a PDF in a directory for each of     *)
(* some of them is no more than these.                                     *)
LEMMA TasksFinite ==
  /\ IsFiniteSet(Tasks) /\ Cardinality(Tasks) = Len(Paths)
  /\ \A T \in SUBSET Tasks : IsFiniteSet(T) /\ Cardinality(T) \in Nat
<1>1. IsFiniteSet(Tasks) /\ Cardinality(Tasks) = Len(Paths)
  <2>1. Len(Paths) \in Nat /\ Tasks = 1..Len(Paths)
    BY TaskFacts
  <2>2. /\ IsFiniteSet(1..Len(Paths))
        /\ Cardinality(1..Len(Paths)) = IF 1 > Len(Paths) THEN 0 ELSE Len(Paths) - 1 + 1
    BY <2>1, FS_Interval, 1 \in Int, Len(Paths) \in Int
  <2> QED
    BY <2>1, <2>2
<1> QED
  BY <1>1, FS_Subset, FS_CardinalityType

(* There are no more files than tasks that list them.                      *)
LEMMA OneTaskPerFile ==
  ASSUME NEW T \in SUBSET Tasks, NEW F \in SUBSET Files,
         \A f \in F : \E t \in T : Paths[t] = f
  PROVE  IsFiniteSet(F) /\ Cardinality(F) <= Cardinality(T)
<1> DEFINE task == [f \in F |-> CHOOSE t \in T : Paths[t] = f]
<1>1. \A f \in F : task[f] \in T /\ Paths[task[f]] = f
  OBVIOUS
<1> HIDE DEF task
<1>2. task \in [F -> T]
  BY <1>1 DEF task
<1>3. task \in Injection(F, T)
  BY <1>1, <1>2 DEF Injection, IsInjective
<1> QED
  BY <1>3, TasksFinite, FS_Injection

(* The rows of a task are positions of a sequence.                         *)
LEMMA RowsOfFinite ==
  TypeOK => \A t \in Tasks : IsFiniteSet(RowsOf(t)) /\ Cardinality(RowsOf(t)) \in Nat
<1> SUFFICES ASSUME TypeOK, NEW t \in Tasks
             PROVE  IsFiniteSet(RowsOf(t)) /\ Cardinality(RowsOf(t)) \in Nat
  OBVIOUS
<1>1. table[IdOf(t)] \in Seq([task : Tasks, read : BOOLEAN])
  BY TaskFacts DEF TypeOK
<1>2. IsFiniteSet(DOMAIN table[IdOf(t)])
  BY <1>1, FS_Interval, 1 \in Int
<1> QED
  BY <1>2, FS_Subset, FS_CardinalityType DEF RowsOf

(* The invariant says what the summary says.                               *)
LEMMA SummaryImplies == SummaryInv => SummaryIsFaithful
<1> SUFFICES ASSUME SummaryInv, main = "done" PROVE SummaryIsFaithful
  BY DEF SummaryIsFaithful
<1> DEFINE Failed == Tasks \ Succeeded
<1>1. /\ \A t \in Tasks : pc[t] = "collected"
      /\ summary = [ total     |-> Len(Paths),
                     succeeded |-> Cardinality(Succeeded),
                     failed    |-> Len(Paths) - Cardinality(Succeeded),
                     flagged   |-> Cardinality(Flagged) ]
  BY DEF SummaryInv, DoneInv
<1>2. Succeeded \in SUBSET Tasks /\ Cardinality(Succeeded) \in Nat /\ Len(Paths) \in Nat
  BY TaskFacts, TasksFinite DEF Succeeded
<1>3. Cardinality({f \in Files : where[f] = "archive"}) <= Cardinality(Succeeded)
  <2>1. \A f \in {g \in Files : where[g] = "archive"} : \E t \in Succeeded : Paths[t] = f
    BY DEF SummaryInv, PersistInv, ArchiveInv, Succeeded
  <2> QED
    BY <1>2, <2>1, OneTaskPerFile
<1>4. Cardinality({f \in Files : where[f] = "quarantine"}) <= Len(Paths) - Cardinality(Succeeded)
  <2>1. \A f \in {g \in Files : where[g] = "quarantine"} : \E t \in Failed : Paths[t] = f
    BY DEF SummaryInv, QuarantineInv, Succeeded
  <2>2. Cardinality({f \in Files : where[f] = "quarantine"}) <= Cardinality(Failed)
    BY <2>1, OneTaskPerFile
  <2>3. Cardinality(Failed) = Cardinality(Tasks) - Cardinality(Tasks \cap Succeeded)
    BY TasksFinite, FS_Difference
  <2>4. Tasks \cap Succeeded = Succeeded
    BY <1>2
  <2> QED
    BY <2>2, <2>3, <2>4, TasksFinite
<1>5. WriteMode = "append" => \A t \in Tasks : Cardinality(RowsOf(t)) >= result[t].rows_written
  BY DEF SummaryInv, ReportedInv
<1>6. /\ summary.total = Len(Paths) /\ summary.succeeded = Cardinality(Succeeded)
      /\ summary.failed = Len(Paths) - Cardinality(Succeeded)
  BY <1>1
<1> QED
  BY <1>1, <1>2, <1>3, <1>4, <1>5, <1>6 DEF SummaryIsFaithful

(* No task has a result and nothing has been reported.                     *)
LEMMA SummaryInit == Init => SummaryInv
<1> SUFFICES ASSUME Init PROVE SummaryInv
  OBVIOUS
<1>1. PersistInv /\ QuarantineInv
  BY PersistInit DEF Init, QuarantineInv
<1>2. DoneInv
  <2>1. SUFFICES ASSUME Paths = << >> PROVE DoneInv
    BY DEF Init, DoneInv
  <2>2. Tasks = {} /\ Len(Paths) = 0
    BY <2>1, TaskFacts
  <2>3. Succeeded = {} /\ Flagged = {}
    BY <2>2 DEF Succeeded, Flagged
  <2>4. Cardinality(Succeeded) = 0 /\ Cardinality(Flagged) = 0
    BY <2>3, FS_EmptySet
  <2> QED
    BY <2>2, <2>4 DEF Init, DoneInv, EmptySummary
<1>3. ReportedInv
  <2>1. \A t \in Tasks : result[t].rows_written = 0
    BY DEF Init, NoResult
  <2> QED
    BY <1>1, <2>1, RowsOfFinite DEF ReportedInv, PersistInv
<1> QED
  BY <1>1, <1>2, <1>3 DEF SummaryInv


(* Steps that leave the results of tasks and the files alone keep it.      *)
LEMMA QuarantineKept ==
  ASSUME QuarantineInv, UNCHANGED where,
         \A t \in Tasks : pc[t] = "collected" => pc'[t] = "collected" /\ result'[t] = result[t]
  PROVE  QuarantineInv'
  BY DEF QuarantineInv

(* A step that collects nothing leaves the totals of the summary right.    *)
LEMMA ReportedKept ==
  ASSUME ReportedInv, UNCHANGED table,
         \A t \in Tasks : result'[t].rows_written = result[t].rows_written
  PROVE  ReportedInv'
  BY DEF ReportedInv, RowsOf

(* An append of n rows of a task adds n positions that hold its rows, and  *)
(* leaves those of the others.                                             *)
LEMMA AppendReports ==
  ASSUME TypeOK, WriteMode = "append", NEW t \in Tasks, NEW n \in RowCounts(t), Commit(t, n),
         table' \in [Names -> Seq(Row)]
  PROVE  /\ n <= Cardinality(RowsOf(t)')
         /\ \A u \in Tasks : /\ Cardinality(RowsOf(u)') \in Nat
                             /\ Cardinality(RowsOf(u)) <= Cardinality(RowsOf(u)')
<1> DEFINE rows == Rows(t, n)
           old == table[IdOf(t)]
           new == table'[IdOf(t)]
           added == (Len(old) + 1)..(Len(old) + n)
<1>0. table \in [Names -> Seq(Row)] /\ \A u \in Tasks : IdOf(u) \in Names
  BY TaskFacts DEF TypeOK, Row
<1>a. \A u \in Tasks : IsFiniteSet(RowsOf(u)')
  <2>1. ASSUME NEW u \in Tasks PROVE IsFiniteSet(RowsOf(u)')
    <3>1. table'[IdOf(u)] \in Seq(Row)
      BY <1>0
    <3>2. DOMAIN table'[IdOf(u)] = 1..Len(table'[IdOf(u)]) /\ Len(table'[IdOf(u)]) \in Int
      BY <3>1
    <3>3. IsFiniteSet(DOMAIN table'[IdOf(u)])
      BY <3>2, FS_Interval, 1 \in Int
    <3> QED
      BY <3>3, FS_Subset DEF RowsOf
  <2> QED
    BY <2>1
<1>1. \A u \in Tasks : Cardinality(RowsOf(u)) <= Cardinality(RowsOf(u)')
  <2>1. \A u \in Tasks : RowsOf(u) \subseteq RowsOf(u)'
    BY <1>0, AppendKeeps DEF RowsOf
  <2> QED
    BY <1>a, <2>1, FS_Subset
<1>2. /\ n \in Nat /\ rows \in Seq(Row) /\ Len(rows) = n /\ old \in Seq(Row)
      /\ \A k \in 1..n : rows[k] = [task |-> t, read |-> pc[t] = "read"]
  BY <1>0, RowsFacts
<1>3. new = old \o rows
  BY <1>0 DEF Commit, AfterAppend
<1>4. added \in SUBSET RowsOf(t)'
  <2> HIDE DEF rows, old
  <2>1. SUFFICES ASSUME NEW k \in added PROVE k \in DOMAIN new /\ new[k].task = t
    BY DEF RowsOf
  <2>2. k \in 1..(Len(old) + Len(rows)) /\ k - Len(old) \in 1..n /\ k > Len(old)
    BY <1>2
  <2>3. k \in DOMAIN new /\ new[k] = rows[k - Len(old)]
    BY <1>2, <1>3, <2>2
  <2>4. rows[k - Len(old)] = [task |-> t, read |-> pc[t] = "read"]
    BY <1>2, <2>2
  <2>5. [task |-> t, read |-> pc[t] = "read"].task = t
    OBVIOUS
  <2> QED
    BY <2>3, <2>4, <2>5
<1>5. Cardinality(added) = n
  <2>1. Len(old) + 1 \in Int /\ Len(old) + n \in Int
    BY <1>2
  <2>2. Cardinality(added) = IF Len(old) + 1 > Len(old) + n THEN 0
                             ELSE (Len(old) + n) - (Len(old) + 1) + 1
    BY <2>1, FS_Interval
  <2> HIDE DEF old
  <2> QED
    BY <1>2, <2>1, <2>2
<1>6. n <= Cardinality(RowsOf(t)')
  <2> HIDE DEF added
  <2> QED
    BY <1>a, <1>4, <1>5, FS_Subset
<1> QED
  BY <1>a, <1>1, <1>6, FS_CardinalityType


(* Every step keeps it: in "done" all is collected, so no task can step.   *)
LEMMA SummaryStep == SummaryInv /\ [Next]_vars => SummaryInv'
<1> SUFFICES ASSUME SummaryInv, [Next]_vars PROVE SummaryInv'
  OBVIOUS
<1>0. PersistInv /\ TypeOK /\ CurrentInv /\ PersistInv'
  BY PersistStep DEF SummaryInv, PersistInv
<1> SUFFICES QuarantineInv' /\ DoneInv' /\ ReportedInv'
  BY <1>0 DEF SummaryInv
<1>a. QuarantineInv /\ DoneInv /\ ReportedInv
  BY DEF SummaryInv
<1>b. /\ pc \in [Tasks -> {"new", "queued", "started", "read", "unreadable",
                           "returned", "collected"}]
      /\ result \in [Tasks -> [success : BOOLEAN, rows_written : Nat, flagged : BOOLEAN]]
  BY <1>0 DEF TypeOK
<1>1. ASSUME NEW t \in Tasks, Submit(t) \/ Start(t) \/ Read(t)
      PROVE  QuarantineInv' /\ DoneInv' /\ ReportedInv'
  <2>1. /\ pc[t] \in {"new", "queued", "started"} /\ UNCHANGED <<result, table, where>>
        /\ \E step \in {"queued", "started", "read", "unreadable"} : pc' = [pc EXCEPT ![t] = step]
        /\ main' = main \/ main' = "collect"
    BY <1>1 DEF Submit, Start, Read
  <2>2. QuarantineInv'
    BY <1>a, <1>b, <2>1, QuarantineKept
  <2>3. DoneInv'
    BY <1>a, <2>1 DEF DoneInv
  <2> QED
    BY <1>a, <2>1, <2>2, <2>3, ReportedKept
<1>2. ASSUME NEW t \in Tasks, Collect(t)
      PROVE  QuarantineInv' /\ DoneInv' /\ ReportedInv'
  <2>1. /\ pc' = [pc EXCEPT ![t] = "collected"] /\ main' = "move"
        /\ UNCHANGED <<result, table, where>>
    BY <1>2 DEF Collect
  <2>2. QuarantineInv'
    BY <1>a, <1>b, <2>1, QuarantineKept
  <2> QED
    BY <1>a, <2>1, <2>2, ReportedKept DEF DoneInv
<1>3. CASE MaybeMove
  <2>1. main = "move" /\ main' = "collect" /\ UNCHANGED <<pc, result, table>>
    BY <1>3 DEF MaybeMove
  <2>2. QuarantineInv'
    <3>1. CASE UNCHANGED where
      BY <1>a, <2>1, <3>1, QuarantineKept
    <3>2. CASE where' = Moved(Paths[current], Destination(current))
      <4> SUFFICES ASSUME NEW f \in Files, where'[f] = "quarantine"
                   PROVE  \E t \in Tasks : Paths[t] = f /\ pc[t] = "collected"
                                           /\ ~result[t].success
        BY <2>1 DEF QuarantineInv
      <4>1. CASE f = Paths[current]
        <5>1. current \in Tasks /\ pc[current] = "collected"
          BY <1>0, <2>1 DEF TypeOK, CurrentInv
        <5>2. ~result[current].success
          BY <3>2, <4>1 DEF Moved, Destination
        <5> QED
          BY <4>1, <5>1, <5>2
      <4>2. CASE f # Paths[current]
        BY <1>a, <3>2, <4>2 DEF Moved, QuarantineInv
      <4> QED
        BY <4>1, <4>2
    <3> QED
      BY <1>3, <3>1, <3>2 DEF MaybeMove
  <2> QED
    BY <1>a, <2>1, <2>2, ReportedKept DEF DoneInv
<1>4. CASE Summarise
  <2>1. /\ UNCHANGED <<pc, result, table, where>>
        /\ \A t \in Tasks : pc[t] = "collected"
        /\ summary' = [ total     |-> Len(Paths),
                        succeeded |-> Cardinality(Succeeded),
                        failed    |-> Len(Paths) - Cardinality(Succeeded),
                        flagged   |-> Cardinality(Flagged) ]
    BY <1>4 DEF Summarise
  <2>2. Succeeded' = Succeeded /\ Flagged' = Flagged
    BY <2>1 DEF Succeeded, Flagged
  <2>3. DoneInv'
    BY <2>1, <2>2 DEF DoneInv
  <2> QED
    BY <1>a, <2>1, <2>3, QuarantineKept, ReportedKept
<1>5. ASSUME NEW t \in Tasks, GraphRaises(t) \/ GraphWrites(t) \/ GraphWriteFails(t)
      PROVE  QuarantineInv' /\ DoneInv' /\ ReportedInv'
  <2>1. /\ pc[t] \in {"read", "unreadable"} /\ pc' = [pc EXCEPT ![t] = "returned"]
        /\ UNCHANGED <<main, current, where, summary>>
        /\ UNCHANGED table \/ \E n \in RowCounts(t) : Commit(t, n)
    <3>1. CASE GraphRaises(t)
      BY <3>1 DEF GraphRaises, Return
    <3>2. CASE GraphWrites(t) \/ GraphWriteFails(t)
      BY <1>0, <3>2, WriteStep
    <3> QED
      BY <1>5, <3>1, <3>2
  <2>2. PICK r \in [success : BOOLEAN, rows_written : Nat, flagged : BOOLEAN] :
          /\ result' = [result EXCEPT ![t] = r]
          /\ r.rows_written # 0 =>
               \E n \in RowCounts(t) : Commit(t, n) /\ r.rows_written = n
    <3>1. CASE GraphRaises(t)
      <4>1. result' = [result EXCEPT ![t] = NoResult] /\ NoResult.rows_written = 0
        BY <3>1 DEF GraphRaises, Return, NoResult
      <4>2. NoResult \in [success : BOOLEAN, rows_written : Nat, flagged : BOOLEAN]
        BY DEF NoResult
      <4> QED
        BY <4>1, <4>2
    <3>2. CASE GraphWrites(t) \/ GraphWriteFails(t)
      BY <1>0, <3>2, WriteStep
    <3> QED
      BY <1>5, <3>1, <3>2
  <2>3. QuarantineInv'
    BY <1>a, <1>b, <2>1, <2>2, QuarantineKept
  <2>4. DoneInv'
    BY <1>a, <2>1 DEF DoneInv
  <2>5. ReportedInv'
    <3> SUFFICES ASSUME WriteMode = "append", NEW u \in Tasks
                 PROVE  Cardinality(RowsOf(u)') >= result'[u].rows_written
      BY DEF ReportedInv
    <3>1. Cardinality(RowsOf(u)) \in Nat /\ table' \in [Names -> Seq(Row)]
      BY <1>0, RowsOfFinite DEF PersistInv, TypeOK, Row
    <3>2. Cardinality(RowsOf(u)') \in Nat /\ Cardinality(RowsOf(u)) <= Cardinality(RowsOf(u)')
      <4>1. CASE UNCHANGED table
        <5>1. RowsOf(u)' = RowsOf(u)
          BY <4>1 DEF RowsOf
        <5> QED
          BY <3>1, <5>1
      <4>2. CASE \E n \in RowCounts(t) : Commit(t, n)
        BY <1>0, <3>1, <4>2, AppendReports
      <4> QED
        BY <2>1, <4>1, <4>2
    <3>3. CASE u # t \/ r.rows_written = 0
      <4>1. result'[u].rows_written \in {result[u].rows_written, 0} /\ result[u].rows_written \in Nat
        BY <1>b, <2>2, <3>3
      <4>2. result[u].rows_written <= Cardinality(RowsOf(u))
        BY <1>a DEF ReportedInv
      <4> QED
        BY <3>1, <3>2, <4>1, <4>2
    <3>4. CASE u = t /\ r.rows_written # 0
      <4>1. PICK n \in RowCounts(t) : Commit(t, n) /\ r.rows_written = n
        BY <2>2, <3>4
      <4>2. n <= Cardinality(RowsOf(t)')
        BY <1>0, <3>1, <4>1, AppendReports
      <4>3. result'[u].rows_written = n /\ n \in Nat
        BY <1>b, <2>2, <3>4, <4>1
      <4> QED
        BY <3>1, <3>4, <4>2, <4>3
    <3> QED
      BY <3>3, <3>4
  <2> QED
    BY <2>3, <2>4, <2>5
<1>6. CASE Finished \/ UNCHANGED vars
  <2>1. UNCHANGED <<main, pc, result, table, where, summary>>
    BY <1>6 DEF Finished, vars
  <2>2. Succeeded' = Succeeded /\ Flagged' = Flagged
    BY <2>1 DEF Succeeded, Flagged
  <2>3. DoneInv'
    BY <1>a, <2>1, <2>2 DEF DoneInv
  <2> QED
    BY <1>a, <2>1, <2>3, QuarantineKept, ReportedKept
<1> QED
  BY <1>1, <1>2, <1>3, <1>4, <1>5, <1>6 DEF Next, MainStep, WorkerStep

(* The summary covers every invoice once; it counts no fewer successes     *)
(* than the archive holds PDFs, no fewer failures than the quarantine, and *)
(* under append every row that a result reports is in the table.           *)
THEOREM SummaryIsFaithfulHolds == Spec => []SummaryIsFaithful
<1>1. QED
  BY SummaryInit, SummaryStep, SummaryImplies, PTL DEF Spec

-----------------------------------------------------------------------------
(* A PDF is overwritten by a namesake of the list, and there is always one *)
(* that has not been overwritten in turn.                                  *)
LostInv ==
  \A t \in Tasks : where[Paths[t]] = "lost" =>
    \E u \in Tasks : /\ IdOf(u) = IdOf(t) /\ Paths[u] # Paths[t]
                    /\ where[Paths[u]] \in {"archive", "quarantine"}

(* Before the batch every listed file is in the input directory.           *)
LEMMA LostInit == Init => LostInv
  BY TaskFacts DEF Init, LostInv

(* The file that takes the place of another is of its name, and is new     *)
(* there: it comes from the input directory.                               *)
LEMMA LostStep == TypeOK /\ LostInv /\ [Next]_vars => LostInv'
<1> SUFFICES ASSUME TypeOK, LostInv, [Next]_vars PROVE LostInv'
  OBVIOUS
<1>1. CASE UNCHANGED where
  BY <1>1 DEF LostInv
<1>2. CASE where' # where
  <2>1. MaybeMove
    BY <1>2, OnlyMoveMoves
  <2>2. /\ current \in Tasks /\ where[Paths[current]] = "input"
        /\ where' = Moved(Paths[current], Destination(current))
        /\ Destination(current) \in {"archive", "quarantine"}
    BY <1>2, <2>1 DEF MaybeMove, TypeOK, Destination
  <2> DEFINE f == Paths[current]
             d == Destination(current)
  <2>3. f \in Files /\ where'[f] = d
    BY <2>2, TaskFacts DEF Moved
  <2>4. ASSUME NEW g \in Files, g # f
        PROVE  where'[g] = IF where[g] = d /\ NameOf[f] = NameOf[g] THEN "lost" ELSE where[g]
    BY <2>2, <2>4 DEF Moved, SameTarget
  <2>5. SUFFICES ASSUME NEW t \in Tasks, where'[Paths[t]] = "lost"
                 PROVE  \E u \in Tasks : /\ IdOf(u) = IdOf(t) /\ Paths[u] # Paths[t]
                                        /\ where'[Paths[u]] \in {"archive", "quarantine"}
    BY DEF LostInv
  <2>6. Paths[t] \in Files /\ Paths[t] # f
    BY <2>2, <2>3, <2>5, TaskFacts
  <2>7. CASE where[Paths[t]] # "lost"
    <3>1. NameOf[f] = NameOf[Paths[t]]
      BY <2>4, <2>5, <2>6, <2>7
    <3>2. IdOf(current) = IdOf(t) /\ f # Paths[t]
      BY <2>6, <3>1 DEF IdOf
    <3> QED
      BY <2>2, <2>3, <3>2
  <2>8. CASE where[Paths[t]] = "lost"
    <3>1. PICK u \in Tasks : /\ IdOf(u) = IdOf(t) /\ Paths[u] # Paths[t]
                             /\ where[Paths[u]] \in {"archive", "quarantine"}
      BY <2>8 DEF LostInv
    <3>2. Paths[u] \in Files /\ Paths[u] # f
      BY <2>2, <3>1, TaskFacts
    <3>3. CASE where'[Paths[u]] = where[Paths[u]]
      BY <3>1, <3>3
    <3>4. CASE where'[Paths[u]] # where[Paths[u]]
      <4>1. NameOf[f] = NameOf[Paths[u]]
        BY <2>4, <3>2, <3>4
      <4>2. IdOf(current) = IdOf(t)
        BY <3>1, <4>1 DEF IdOf
      <4> QED
        BY <2>2, <2>3, <2>6, <4>2
    <3> QED
      BY <3>3, <3>4
  <2> QED
    BY <2>7, <2>8
<1> QED
  BY <1>1, <1>2

(* With what is known of the archive and the quarantine, that is all.      *)
LEMMA FilesImplies == SummaryInv /\ LostInv => FilesAreAccountedFor
<1> SUFFICES ASSUME SummaryInv, LostInv, NEW t \in Tasks
             PROVE  \/ where[Paths[t]] = "input"
                    \/ /\ where[Paths[t]] = "archive"
                       /\ \E u \in Tasks : /\ Paths[u] = Paths[t] /\ pc[u] = "collected"
                                          /\ result[u].success = TRUE
                    \/ /\ where[Paths[t]] = "quarantine"
                       /\ \E u \in Tasks : /\ Paths[u] = Paths[t] /\ pc[u] = "collected"
                                          /\ result[u].success = FALSE
                    \/ /\ where[Paths[t]] = "lost"
                       /\ \E u \in Tasks : /\ IdOf(u) = IdOf(t) /\ Paths[u] # Paths[t]
                                          /\ where[Paths[u]] \in {"archive", "quarantine"}
  BY DEF FilesAreAccountedFor
<1>1. /\ TypeOK /\ ArchiveInv /\ QuarantineInv
      /\ Paths[t] \in Files
  BY TaskFacts DEF SummaryInv, PersistInv
<1>2. /\ where[Paths[t]] \in {"input", "archive", "quarantine", "lost"}
      /\ \A u \in Tasks : result[u].success \in BOOLEAN
  BY <1>1 DEF TypeOK
<1>3. where[Paths[t]] = "archive" =>
        \E u \in Tasks : Paths[u] = Paths[t] /\ pc[u] = "collected" /\ result[u].success = TRUE
  BY <1>1, <1>2 DEF ArchiveInv
<1>4. where[Paths[t]] = "quarantine" =>
        \E u \in Tasks : Paths[u] = Paths[t] /\ pc[u] = "collected" /\ result[u].success = FALSE
  BY <1>1, <1>2 DEF QuarantineInv
<1> QED
  BY <1>2, <1>3, <1>4 DEF LostInv

(* Every PDF that left the input volume is where the result of a task of   *)
(* its own says, or was overwritten by a namesake of the same batch.       *)
THEOREM FilesAreAccountedForHolds == Spec => []FilesAreAccountedFor
<1>1. QED
  BY SummaryInit, SummaryStep, LostInit, LostStep, FilesImplies, TypeCorrect, PTL DEF Spec

-----------------------------------------------------------------------------
(* A success has read rows under its id, or a task of that id has failed.  *)
ReadUnder(id) == \E k \in DOMAIN table[id] : table[id][k].read
FailedUnder(id) ==
  \E u \in Tasks : IdOf(u) = id /\ pc[u] \in {"returned", "collected"} /\ ~result[u].success
ReplacedInv ==
  \A t \in Tasks : result[t].success => ReadUnder(IdOf(t)) \/ FailedUnder(IdOf(t))

(* No task has succeeded before the first step.                            *)
LEMMA ReplacedInit == Init => ReplacedInv
  BY DEF Init, NoResult, ReplacedInv

(* A step that leaves the table and what was returned keeps it.            *)
LEMMA ReplacedKept ==
  ASSUME ReplacedInv, UNCHANGED table,
         \A t \in Tasks : result'[t].success => result[t].success,
         \A t \in Tasks : pc[t] \in {"returned", "collected"} /\ ~result[t].success =>
                          pc'[t] \in {"returned", "collected"} /\ ~result'[t].success
  PROVE  ReplacedInv'
<1> SUFFICES ASSUME NEW t \in Tasks, result'[t].success
             PROVE  ReadUnder(IdOf(t))' \/ FailedUnder(IdOf(t))'
  BY DEF ReplacedInv, IdOf
<1>1. CASE ReadUnder(IdOf(t))
  BY <1>1 DEF ReadUnder
<1>2. CASE FailedUnder(IdOf(t))
  BY <1>2 DEF FailedUnder
<1> QED
  BY <1>1, <1>2 DEF ReplacedInv

(* A write leaves a read row under its id, or is one of a failure.         *)
LEMMA ReplacedByWrite ==
  ASSUME TypeOK, ReplacedInv, NEW t \in Tasks, GraphWrites(t) \/ GraphWriteFails(t)
  PROVE  ReplacedInv'
<1>1. PICK r \in [success : BOOLEAN, rows_written : Nat, flagged : BOOLEAN] :
        /\ result' = [result EXCEPT ![t] = r]
        /\ r.success => pc[t] = "read" /\ \E n \in RowCounts(t) : Commit(t, n)
  BY WriteStep
<1>2. /\ pc[t] \in {"read", "unreadable"} /\ pc' = [pc EXCEPT ![t] = "returned"]
      /\ UNCHANGED table \/ \E n \in RowCounts(t) : Commit(t, n)
  BY WriteStep
<1>3. /\ table \in [Names -> Seq(Row)] /\ IdOf(t) \in Names
      /\ pc'[t] = "returned" /\ result'[t] = r
      /\ \A u \in Tasks : u # t => pc'[u] = pc[u] /\ result'[u] = result[u]
  BY <1>1, <1>2, TaskFacts DEF TypeOK, Row
<1>4. ASSUME NEW id, FailedUnder(id) PROVE FailedUnder(id)'
  BY <1>2, <1>3, <1>4 DEF FailedUnder, IdOf
<1>5. ASSUME NEW n \in RowCounts(t), Commit(t, n)
      PROVE  ReadUnder(IdOf(t))' \/ FailedUnder(IdOf(t))'
  <2>1. CASE pc[t] = "read"
    <3>1. PICK k \in DOMAIN table'[IdOf(t)] :
            table'[IdOf(t)][k] = [task |-> t, read |-> TRUE]
      BY <1>3, <1>5, <2>1, CommitStores
    <3>2. [task |-> t, read |-> TRUE].read
      OBVIOUS
    <3> QED
      BY <3>1, <3>2 DEF ReadUnder, IdOf
  <2>2. CASE pc[t] # "read"
    BY <1>1, <1>3, <2>2 DEF FailedUnder, IdOf
  <2> QED
    BY <2>1, <2>2
<1> SUFFICES ASSUME NEW u \in Tasks, result'[u].success
             PROVE  ReadUnder(IdOf(u))' \/ FailedUnder(IdOf(u))'
  BY DEF ReplacedInv, IdOf
<1>6. CASE IdOf(u) = IdOf(t) /\ \E n \in RowCounts(t) : Commit(t, n)
  BY <1>5, <1>6 DEF IdOf
<1>7. CASE ~ (IdOf(u) = IdOf(t) /\ \E n \in RowCounts(t) : Commit(t, n))
  <2>1. IdOf(u) \in Names /\ table'[IdOf(u)] = table[IdOf(u)]
    BY <1>2, <1>3, <1>7, CommitType, TaskFacts
  <2>2. result[u].success
    BY <1>1, <1>3, <1>7
  <2>3. ReadUnder(IdOf(u)) => ReadUnder(IdOf(u))'
    BY <2>1 DEF ReadUnder, IdOf
  <2> QED
    BY <1>4, <2>2, <2>3 DEF ReplacedInv, IdOf
<1> QED
  BY <1>6, <1>7

(* Every step keeps it.                                                    *)
LEMMA ReplacedStep == TypeOK /\ ReplacedInv /\ [Next]_vars => ReplacedInv'
<1> SUFFICES ASSUME TypeOK, ReplacedInv, [Next]_vars PROVE ReplacedInv'
  OBVIOUS
<1>1. ASSUME NEW t \in Tasks, Submit(t) \/ Start(t) \/ Read(t) \/ Collect(t) PROVE ReplacedInv'
  <2>1. /\ UNCHANGED <<result, table>>
        /\ pc[t] # "collected" /\ pc'[t] # "new"
        /\ \A u \in Tasks : u # t => pc'[u] = pc[u]
        /\ pc[t] = "returned" => pc'[t] = "collected"
    BY <1>1 DEF Submit, Start, Read, Collect, TypeOK
  <2> QED
    BY <2>1, ReplacedKept
<1>2. CASE MaybeMove \/ Summarise \/ Finished \/ UNCHANGED vars
  <2>1. UNCHANGED <<pc, result, table>>
    BY <1>2 DEF MaybeMove, Summarise, Finished, vars
  <2> QED
    BY <2>1, ReplacedKept
<1>3. ASSUME NEW t \in Tasks, GraphRaises(t) PROVE ReplacedInv'
  <2>1. /\ pc[t] = "read" /\ UNCHANGED table
        /\ result'[t] = NoResult /\ ~NoResult.success
        /\ \A u \in Tasks : u # t => pc'[u] = pc[u] /\ result'[u] = result[u]
    BY <1>3 DEF GraphRaises, Return, NoResult, TypeOK
  <2> QED
    BY <2>1, ReplacedKept
<1>4. ASSUME NEW t \in Tasks, GraphWrites(t) \/ GraphWriteFails(t) PROVE ReplacedInv'
  BY <1>4, ReplacedByWrite
<1> QED
  BY <1>1, <1>2, <1>3, <1>4 DEF Next, MainStep, WorkerStep

(* What is in the archive got there by a success.                          *)
LEMMA ReplacedImplies == PersistInv /\ ReplacedInv => ReplacedRowsAreReported
<1> SUFFICES ASSUME PersistInv, ReplacedInv, NEW t \in Tasks, where[Paths[t]] = "archive"
             PROVE  ReadUnder(IdOf(t)) \/ FailedUnder(IdOf(t))
  BY DEF ReplacedRowsAreReported, ReadUnder, FailedUnder
<1>1. PICK u \in Tasks : Paths[u] = Paths[t] /\ result[u].success
  BY TaskFacts DEF PersistInv, ArchiveInv
<1>2. IdOf(u) = IdOf(t)
  BY <1>1 DEF IdOf
<1> QED
  BY <1>1, <1>2 DEF ReplacedInv

(* The rows of an archived PDF are not replaced by nulls without a failure *)
(* in the results, however often its name occurs in the list.              *)
THEOREM ReplacedRowsAreReportedHolds == Spec => []ReplacedRowsAreReported
<1>1. QED
  BY PersistInit, PersistStep, ReplacedInit, ReplacedStep, ReplacedImplies, TypeCorrect, PTL DEF Spec
=============================================================================
