------------------------- MODULE DeltaWritersProofs -------------------------
(***************************************************************************)
(* Proofs about DeltaWriters, for every set of writes of every set of      *)
(* invoices.                                                               *)
(***************************************************************************)
EXTENDS DeltaWriters, TLAPS

Row == [write : Writes, line : Nat]
Report == [rows_written : Nat, write_error : {"none", "refused", "spark"}]
InFlight(w) == pc[w] \in {"check", "append", "merge"}

(* Frames and table hold rows, and a frame those of its own write.         *)
RowsInv ==
  /\ table \in [Invoices -> Seq(Row)]
  /\ pc \in [Writes -> {"idle", "check", "append", "merge", "returned"}]
  /\ frame \in [Writes -> Seq(Row)]
  /\ \A w \in Writes : \A k \in DOMAIN frame[w] : frame[w][k].write = w
  /\ \A w \in Writes : pc[w] # "idle" => Len(frame[w]) >= 1
  /\ report \in [Writes -> Report]

(* A write that is about to append because it saw no table is the only one *)
(* of its invoice in flight, so the table still has nothing of the invoice;*)
(* one that is about to merge saw the table, which no step drops.          *)
AloneInv == \A v, w \in Writes :
  v # w /\ InvoiceOf[v] = InvoiceOf[w] => ~(InFlight(v) /\ InFlight(w))
EmptyInv ==
  /\ ~exists => \A i \in Invoices : table[i] = << >>
  /\ \A w \in Writes : pc[w] = "append" => table[InvoiceOf[w]] = << >>
  /\ \A w \in Writes : pc[w] = "merge" => exists = TRUE

VersionInv == RowsInv /\ AloneInv /\ EmptyInv /\ OneVersion

(* Both kinds of commit leave one version of the invoice they write and    *)
(* all other invoices alone.                                               *)
LEMMA CommitVersion ==
  ASSUME WriteMode = "merge", VersionInv, NEW w \in Writes, Commit(w)
  PROVE  /\ table' \in [Invoices -> Seq(Row)]
         /\ \A i \in Invoices : i # InvoiceOf[w] => table'[i] = table[i]
         /\ \A k \in DOMAIN table'[InvoiceOf[w]] : table'[InvoiceOf[w]][k].write = w
         /\ table'[InvoiceOf[w]] # << >>
         /\ pc[w] = "append" => exists' = TRUE
         /\ pc[w] = "merge" => exists' = exists
<1> DEFINE i == InvoiceOf[w]
<1>1. /\ i \in Invoices /\ table[i] \in Seq(Row) /\ frame[w] \in Seq(Row)
      /\ \A k \in DOMAIN frame[w] : frame[w][k].write = w
      /\ table \in [Invoices -> Seq(Row)]
  BY DEF VersionInv, RowsInv, Invoices
<1>2. CASE pc[w] = "append"
  <2>1. table' = [table EXCEPT ![i] = table[i] \o frame[w]] /\ exists' = TRUE
    BY <1>1, <1>2 DEF Commit, AppendToTable, AfterAppend
  <2>2. table[i] = << >>
    BY <1>2 DEF VersionInv, EmptyInv
  <2>3. table[i] \o frame[w] = frame[w]
    BY <1>1, <2>2
  <2> HIDE DEF i
  <2>4. table'[i] = frame[w]
    BY <1>1, <2>1, <2>3
  <2>5. Len(frame[w]) >= 1
    BY <1>2 DEF VersionInv, RowsInv
  <2>6. frame[w] # << >>
    BY <1>1, <2>5
  <2> QED
    BY <1>1, <1>2, <2>1, <2>3, <2>4, <2>6 DEF i
<1>3. CASE pc[w] = "merge"
  <2>1. /\ table' = [table EXCEPT ![i] = IF Len(table[i]) = 0 THEN frame[w]
                                         ELSE [k \in DOMAIN table[i] |-> frame[w][1]]]
        /\ exists' = exists
    BY <1>1, <1>3 DEF Commit, Merge, AfterMerge
  <2>2. 1 \in DOMAIN frame[w] /\ frame[w][1] \in Row /\ frame[w][1].write = w
    <3>1. Len(frame[w]) >= 1
      BY <1>3 DEF VersionInv, RowsInv
    <3> QED
      BY <1>1, <3>1
  <2> HIDE DEF i
  <2>3. [k \in DOMAIN table[i] |-> frame[w][1]] \in Seq(Row)
    BY <1>1, <2>2
  <2>4. table' \in [Invoices -> Seq(Row)]
    BY <1>1, <2>1, <2>3
  <2>5. \A k \in DOMAIN table'[i] : table'[i][k].write = w
    BY <1>1, <2>1, <2>2
  <2>6. table'[i] # << >>
    <3>1. CASE Len(table[i]) = 0
      <4>1. table'[i] = frame[w]
        BY <1>1, <2>1, <3>1
      <4> QED
        BY <1>1, <2>2, <4>1
    <3>2. CASE Len(table[i]) # 0
      <4>1. table'[i] = [k \in DOMAIN table[i] |-> frame[w][1]]
        BY <1>1, <2>1, <3>2
      <4>2. 1 \in DOMAIN table'[i]
        BY <1>1, <3>2, <4>1
      <4> QED
        BY <4>2
    <3> QED
      BY <3>1, <3>2
  <2> QED
    BY <1>1, <1>3, <2>1, <2>4, <2>5, <2>6 DEF i
<1> QED
  BY <1>2, <1>3 DEF Commit

(* What a write that ends does, whichever way it ends.                     *)
LEMMA EndStep ==
  ASSUME VersionInv, NEW w \in Writes, Succeed(w) \/ Refused(w) \/ Fail(w)
  PROVE  /\ pc[w] \in {"append", "merge"}
         /\ pc' = [pc EXCEPT ![w] = "returned"]
         /\ UNCHANGED frame
         /\ Commit(w) \/ UNCHANGED <<exists, table>>
         /\ report' \in [Writes -> Report]
<1>1. /\ pc[w] \in {"append", "merge"}
      /\ pc' = [pc EXCEPT ![w] = "returned"]
      /\ UNCHANGED frame
      /\ Commit(w) \/ UNCHANGED <<exists, table>>
  BY DEF Succeed, Refused, Fail, Return, Commit
<1>2. Len(frame[w]) \in Nat /\ report \in [Writes -> Report]
  BY DEF VersionInv, RowsInv
<1>3. PICK n \in Nat, e \in {"none", "refused", "spark"} :
        report' = [report EXCEPT ![w] = [rows_written |-> n, write_error |-> e]]
  BY <1>2 DEF Succeed, Refused, Fail, Return
<1>4. [rows_written |-> n, write_error |-> e] \in Report
  BY DEF Report
<1>5. report' \in [Writes -> Report]
  BY <1>2, <1>3, <1>4
<1> QED
  BY <1>1, <1>5

(* Every step keeps the invariant.                                         *)
LEMMA VersionStep ==
  ASSUME WriteMode = "merge", MayOverlap = FALSE
  PROVE  VersionInv /\ [Next]_vars => VersionInv'
<1> SUFFICES ASSUME VersionInv, [Next]_vars PROVE VersionInv'
  OBVIOUS
<1>1. ASSUME NEW w \in Writes, Build(w) PROVE VersionInv'
  <2>1. PICK n \in FrameSizes :
          frame' = [frame EXCEPT ![w] = [k \in 1..n |-> [write |-> w, line |-> k]]]
    BY <1>1 DEF Build
  <2>2. n \in Nat /\ n >= 1
    BY WritersAssumption DEF FrameSizes
  <2> DEFINE rows == [k \in 1..n |-> [write |-> w, line |-> k]]
  <2>3. rows \in Seq(Row) /\ Len(rows) >= 1 /\ \A k \in DOMAIN rows : rows[k].write = w
    BY <2>2 DEF Row
  <2>4. /\ pc' = [pc EXCEPT ![w] = "check"] /\ UNCHANGED <<exists, table, report>>
        /\ \A v \in Writes : InvoiceOf[v] = InvoiceOf[w] => ~InFlight(v)
    BY <1>1 DEF Build, InFlight
  <2> HIDE DEF rows
  <2>5. RowsInv'
    BY <2>1, <2>3, <2>4 DEF rows, VersionInv, RowsInv
  <2>6. AloneInv'
    BY <2>4 DEF VersionInv, RowsInv, AloneInv, InFlight
  <2>7. EmptyInv'
    BY <2>4 DEF VersionInv, RowsInv, EmptyInv
  <2>8. OneVersion'
    BY <2>4 DEF VersionInv, OneVersion
  <2> QED
    BY <2>5, <2>6, <2>7, <2>8 DEF VersionInv
<1>2. ASSUME NEW w \in Writes, CheckTable(w) PROVE VersionInv'
  <2>1. /\ pc[w] = "check" /\ UNCHANGED <<exists, table, frame, report>>
        /\ pc' = [pc EXCEPT ![w] = IF exists THEN "merge" ELSE "append"]
    BY <1>2 DEF CheckTable
  <2>2. RowsInv'
    BY <2>1 DEF VersionInv, RowsInv
  <2>3. AloneInv'
    BY <2>1 DEF VersionInv, RowsInv, AloneInv, InFlight
  <2>4. EmptyInv'
    BY <2>1 DEF VersionInv, RowsInv, EmptyInv, Invoices
  <2>5. OneVersion'
    BY <2>1 DEF VersionInv, OneVersion
  <2> QED
    BY <2>2, <2>3, <2>4, <2>5 DEF VersionInv
<1>3. ASSUME NEW w \in Writes, Succeed(w) \/ Refused(w) \/ Fail(w) PROVE VersionInv'
  <2>1. /\ pc[w] \in {"append", "merge"} /\ pc' = [pc EXCEPT ![w] = "returned"]
        /\ UNCHANGED frame
        /\ Commit(w) \/ UNCHANGED <<exists, table>>
        /\ report' \in [Writes -> Report]
    BY <1>3, EndStep
  <2>2. AloneInv'
    BY <2>1 DEF VersionInv, RowsInv, AloneInv, InFlight
  <2>3. /\ pc' \in [Writes -> {"idle", "check", "append", "merge", "returned"}]
        /\ frame' \in [Writes -> Seq(Row)]
        /\ \A v \in Writes : \A k \in DOMAIN frame'[v] : frame'[v][k].write = v
        /\ \A v \in Writes : pc'[v] # "idle" => Len(frame'[v]) >= 1
    <3>1. \A v \in Writes : pc'[v] # "idle" => pc[v] # "idle"
      BY <2>1 DEF VersionInv, RowsInv
    <3> QED
      BY <2>1, <3>1 DEF VersionInv, RowsInv
  <2>4. CASE UNCHANGED <<exists, table>>
    <3>1. RowsInv'
      BY <2>1, <2>3, <2>4 DEF VersionInv, RowsInv
    <3>2. EmptyInv'
      BY <2>1, <2>4 DEF VersionInv, RowsInv, EmptyInv
    <3>3. OneVersion'
      BY <2>4 DEF VersionInv, OneVersion
    <3> QED
      BY <2>2, <3>1, <3>2, <3>3 DEF VersionInv
  <2>5. CASE Commit(w)
    <3>1. /\ table' \in [Invoices -> Seq(Row)]
          /\ \A i \in Invoices : i # InvoiceOf[w] => table'[i] = table[i]
          /\ \A k \in DOMAIN table'[InvoiceOf[w]] : table'[InvoiceOf[w]][k].write = w
      BY <2>5, CommitVersion
    <3>2. RowsInv'
      BY <2>1, <2>3, <3>1 DEF RowsInv
    <3>3. \A v \in Writes : pc'[v] = "append" => table'[InvoiceOf[v]] = << >>
      <4> SUFFICES ASSUME NEW v \in Writes, pc'[v] = "append"
                   PROVE  table'[InvoiceOf[v]] = << >>
        OBVIOUS
      <4>1. v # w /\ pc[v] = "append"
        BY <2>1 DEF VersionInv, RowsInv
      <4>2. InvoiceOf[v] # InvoiceOf[w]
        BY <2>1, <4>1 DEF VersionInv, AloneInv, InFlight
      <4> QED
        BY <3>1, <4>1, <4>2 DEF VersionInv, EmptyInv, Invoices
    <3>4. exists' = TRUE
      BY <2>1, <2>5, CommitVersion DEF VersionInv, EmptyInv
    <3>5. OneVersion'
      BY <3>1 DEF VersionInv, OneVersion
    <3> QED
      BY <2>2, <3>2, <3>3, <3>4, <3>5 DEF VersionInv, EmptyInv
  <2> QED
    BY <2>1, <2>4, <2>5
<1>4. CASE Finished \/ UNCHANGED vars
  <2>1. UNCHANGED <<exists, table, pc, frame, report>>
    BY <1>4 DEF Finished, vars
  <2> QED
    BY <2>1 DEF VersionInv, RowsInv, AloneInv, InFlight, EmptyInv, OneVersion
<1> QED
  BY <1>1, <1>2, <1>3, <1>4 DEF Next

(* No write has begun and there is no table.                               *)
LEMMA VersionInit == Init => VersionInv
<1> SUFFICES ASSUME Init PROVE VersionInv
  OBVIOUS
<1>1. RowsInv
  BY DEF Init, RowsInv, Report
<1>2. AloneInv /\ EmptyInv
  BY DEF Init, AloneInv, EmptyInv, InFlight, Invoices
<1>3. OneVersion
  BY DEF Init, OneVersion
<1> QED
  BY <1>1, <1>2, <1>3 DEF VersionInv

(* As long as no invoice is written twice at a time, under "merge" all the *)
(* rows of an invoice come from one processing of it, for any number of    *)
(* writers of any number of invoices, also when several of them find no    *)
(* table and create it together (write_to_delta, _merge_into_delta).       *)
THEOREM OneVersionHolds ==
  ASSUME MayOverlap = FALSE
  PROVE  Spec => []OneVersion
<1>1. CASE WriteMode = "merge"
  <2>1. VersionInv => OneVersion
    BY DEF VersionInv
  <2> QED
    BY <1>1, <2>1, VersionInit, VersionStep, PTL DEF Spec
<1>2. CASE WriteMode # "merge"
  <2>1. OneVersion
    BY <1>2 DEF OneVersion
  <2> QED
    BY <2>1, PTL
<1> QED
  BY <1>1, <1>2

(* A step of a write that ends with success is its commit.                 *)
LEMMA SuccessIsACommit ==
  ASSUME VersionInv, Next, NEW w \in Writes,
         pc[w] # "returned", pc'[w] = "returned", report'[w].write_error = "none"
  PROVE  Commit(w)
<1>1. ASSUME NEW v \in Writes, Build(v) \/ CheckTable(v) PROVE FALSE
  BY <1>1, WritersAssumption DEF Build, CheckTable, VersionInv, RowsInv
<1>2. ASSUME NEW v \in Writes, Succeed(v) PROVE Commit(w)
  BY <1>2 DEF Succeed, Return, VersionInv, RowsInv
<1>3. ASSUME NEW v \in Writes, Refused(v) \/ Fail(v) PROVE FALSE
  BY <1>3 DEF Refused, Fail, Return, VersionInv, RowsInv
<1>4. CASE Finished
  BY <1>4 DEF Finished, vars
<1> QED
  BY <1>1, <1>2, <1>3, <1>4 DEF Next

(* As long as no invoice is written twice at a time, under "merge" a write *)
(* that reports success leaves rows of its own and no older ones.          *)
THEOREM SuccessReplacesTheInvoiceHolds ==
  ASSUME MayOverlap = FALSE
  PROVE  Spec => SuccessReplacesTheInvoice
<1> DEFINE Replaces == WriteMode = "merge" =>
      \A w \in Writes :
        pc[w] # "returned" /\ pc'[w] = "returned" /\ report'[w].write_error = "none" =>
          /\ table'[InvoiceOf[w]] # << >>
          /\ \A k \in DOMAIN table'[InvoiceOf[w]] : table'[InvoiceOf[w]][k].write = w
<1>1. CASE WriteMode = "merge"
  <2>1. VersionInv /\ [Next]_vars => [Replaces]_vars
    BY <1>1, SuccessIsACommit, CommitVersion
  <2> QED
    BY <1>1, <2>1, VersionInit, VersionStep, PTL DEF Spec, SuccessReplacesTheInvoice
<1>2. CASE WriteMode # "merge"
  <2>1. Replaces
    BY <1>2
  <2> QED
    BY <2>1, PTL DEF SuccessReplacesTheInvoice
<1> QED
  BY <1>1, <1>2
=============================================================================
