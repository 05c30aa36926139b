----------------------------- MODULE JobProofs -----------------------------
(***************************************************************************)
(* Proofs about Job, for every set of names, any number of uploads, rows,  *)
(* retries and deaths, and both write modes.                               *)
(***************************************************************************)
EXTENDS Job, TLAPS

Row == [edition : Nat \ {0}, read : BOOLEAN]

(* TypeOK, and the types of the history variables.                         *)
TypeInv ==
  /\ TypeOK
  /\ success \in [Names -> BOOLEAN]
  /\ uploads \in [Names -> Nat]
  /\ late \in [Names -> SUBSET [edition : Nat, copied : BOOLEAN]]

(* Until its move is over, a file that was listed is in the input volume,  *)
(* and one that was read was read from there.                              *)
PresentInv == \A n \in Names :
  /\ step[n] = "listed" \/ UnderWay(n) => volume["input"][n] # None
  /\ step[n] \notin {"none", "listed"} => seen[n] # None

(* The input volume holds the newest edition or none.  A file that is      *)
(* copied already is at its destination too, unless a newer one came since.*)
LatestInv == \A n \in Names :
  /\ volume["input"][n] \in {None, uploads[n]}
  /\ step[n] = "copied" /\ [edition |-> uploads[n], copied |-> TRUE] \notin late[n] =>
       volume[Destination(n)][n] = uploads[n]

(* What the path holds after the read is what was read, or is late.        *)
FreshInv == \A n \in Names :
  UnderWay(n) => volume["input"][n] \in {seen[n]} \union {l.edition : l \in late[n]}

(* A task that returned with success has its rows in the table.            *)
WrittenInv == \A n \in Names :
  step[n] \in {"returned", "copied", "handled"} /\ success[n] => HasRows(n, seen[n])

FilesInv == TypeInv /\ PresentInv /\ LatestInv /\ FreshInv /\ NothingIsLost
JobInv == FilesInv /\ WrittenInv /\ RerunsDoNotPileUp

(* The graph ends in one of three ways; for the runner they are one.       *)
GraphEnds(n) == GraphRaises(n) \/ GraphWrites(n) \/ GraphWriteFails(n)

(* Only a task under way returns, with the outcome that its read allows.   *)
LEMMA GraphReturns ==
  ASSUME NEW n \in Names, GraphEnds(n)
  PROVE  /\ step[n] \in {"read", "unreadable"}
         /\ UNCHANGED table \/ \E rows \in Frames(n) : Commit(n, rows)
         /\ \/ Return(n, FALSE)
            \/ (\E rows \in Frames(n) : Commit(n, rows)) /\ Return(n, step[n] = "read")
<1>1. CASE GraphRaises(n)
  BY <1>1 DEF GraphRaises
<1>2. CASE GraphWrites(n)
  BY <1>2 DEF GraphWrites, Succeeds
<1>3. CASE GraphWriteFails(n)
  BY <1>3 DEF GraphWriteFails
<1> QED
  BY <1>1, <1>2, <1>3 DEF GraphEnds

(* What a step of the specification is.                                    *)
LEMMA StepCases ==
  ASSUME [Next]_vars
  PROVE  \/ \E n \in Names : \/ Upload(n) \/ Read(n) \/ GraphEnds(n)
                             \/ Copy(n) \/ Remove(n) \/ MoveFails(n)
         \/ job \in {"idle", "failed"} /\ Attempt(1)
         \/ job = "waiting" /\ Attempt(attempt + 1)
         \/ job = "attempt" /\ UNCHANGED volume /\
              (Over("idle") \/ Over("failed") \/ Over(AfterFailure))
         \/ UNCHANGED vars
BY Zenon DEF Next, JobStep, ProcessStep, StartRun, Retry, EndBatch, Crash, TimeOut, Dies, GraphEnds

(* The rows of a frame are alike: of the edition that was read.            *)
LEMMA FrameRows ==
  ASSUME TypeInv, PresentInv, NEW n \in Names, step[n] \in {"read", "unreadable"},
         NEW rows \in Frames(n)
  PROVE  /\ rows \in Seq(Row) /\ Len(rows) \in 1..MaxRows[n]
         /\ \A k \in DOMAIN rows : rows[k] = [edition |-> seen[n], read |-> step[n] = "read"]
<1> DEFINE r == [edition |-> seen[n], read |-> step[n] = "read"]
<1>1. MaxRows[n] \in Nat /\ MaxRows[n] >= 1
  BY JobAssumption
<1>2. r \in Row
  BY DEF TypeInv, TypeOK, PresentInv, None, Row
<1>3. PICK m \in 1..MaxRows[n] : rows = [k \in 1..m |-> r]
  BY <1>1 DEF Frames
<1> HIDE DEF r
<1>4. m \in Nat /\ rows \in Seq(Row) /\ Len(rows) = m /\ DOMAIN rows = 1..m
  BY <1>1, <1>2, <1>3
<1>5. \A k \in DOMAIN rows : rows[k] = r
  BY <1>3, <1>4
<1> QED
  BY <1>1, <1>4, <1>5 DEF r

(* A commit changes the rows of one invoice, to or by rows of the edition  *)
(* that was read; a MERGE leaves them all alike.                           *)
LEMMA CommitRows ==
  ASSUME TypeInv, PresentInv, NEW n \in Names, step[n] \in {"read", "unreadable"},
         NEW rows \in Frames(n), Commit(n, rows)
  PROVE  /\ table' \in [Names -> Seq(Row)]
         /\ \A m \in Names \ {n} : table'[m] = table[m]
         /\ \E k \in DOMAIN table'[n] :
              table'[n][k] = [edition |-> seen[n], read |-> step[n] = "read"]
         /\ WriteMode = "merge" /\ Len(table[n]) <= MaxRows[n] =>
              /\ Len(table'[n]) <= MaxRows[n]
              /\ \A j, k \in DOMAIN table'[n] : table'[n][j] = table'[n][k]
<1> DEFINE r == [edition |-> seen[n], read |-> step[n] = "read"]
<1>1. /\ rows \in Seq(Row) /\ Len(rows) \in 1..MaxRows[n]
      /\ \A k \in DOMAIN rows : rows[k] = r
  BY FrameRows
<1>2. table \in [Names -> Seq(Row)] /\ table[n] \in Seq(Row) /\ Len(table[n]) \in Nat
  BY DEF TypeInv, TypeOK, Row
<1>3. MaxRows[n] \in Nat /\ WriteMode \in {"append", "merge"}
  BY JobAssumption
<1> HIDE DEF r
<1>4. 1 \in DOMAIN rows /\ rows[1] = r /\ r \in Row
  BY <1>1, <1>3
<1>5. CASE WriteMode = "append"
  <2>1. table' = [table EXCEPT ![n] = table[n] \o rows]
    BY <1>5 DEF Commit, AfterAppend
  <2>2. /\ table[n] \o rows \in Seq(Row)
        /\ Len(table[n]) + 1 \in DOMAIN (table[n] \o rows)
        /\ (table[n] \o rows)[Len(table[n]) + 1] = r
    BY <1>1, <1>2, <1>3, <1>4
  <2> QED
    BY <1>2, <1>5, <2>1, <2>2 DEF r
<1>6. CASE WriteMode = "merge" /\ Len(table[n]) = 0
  <2>1. table' = [table EXCEPT ![n] = rows]
    BY <1>6 DEF Commit, AfterMerge
  <2>2. table'[n] = rows
    BY <1>2, <2>1
  <2> QED
    BY <1>1, <1>2, <1>3, <1>4, <2>1, <2>2 DEF r
<1>7. CASE WriteMode = "merge" /\ Len(table[n]) # 0
  <2> DEFINE new == [k \in DOMAIN table[n] |-> rows[1]]
  <2>1. table' = [table EXCEPT ![n] = new]
    BY <1>7 DEF Commit, AfterMerge
  <2>2. /\ new \in Seq(Row) /\ Len(new) = Len(table[n]) /\ 1 \in DOMAIN new
        /\ \A k \in DOMAIN new : new[k] = r
    BY <1>2, <1>4, <1>7
  <2> HIDE DEF new
  <2>3. table'[n] = new
    BY <1>2, <2>1
  <2> QED
    BY <1>2, <1>3, <2>1, <2>2, <2>3 DEF r
<1> QED
  BY <1>2, <1>3, <1>5, <1>6, <1>7

(* Every step keeps the types.                                             *)
LEMMA TypeStep ==
  ASSUME TypeInv, PresentInv, [Next]_vars
  PROVE  TypeInv'
<1> USE DEF TypeInv, TypeOK, run, batch, None, Directories
<1>1. ASSUME NEW n \in Names, Upload(n) PROVE TypeInv'
  <2>1. /\ uploads' = [uploads EXCEPT ![n] = uploads[n] + 1] /\ uploads'[n] \in Nat
        /\ volume' = [volume EXCEPT !["input"][n] = uploads'[n]]
        /\ UNCHANGED <<table, run, batch>>
    BY <1>1 DEF Upload
  <2>2. late' \in [Names -> SUBSET [edition : Nat, copied : BOOLEAN]]
    <3> DEFINE l == [edition |-> uploads'[n], copied |-> step[n] = "copied"]
    <3>1. l \in [edition : Nat, copied : BOOLEAN]
      BY <2>1
    <3>2. late' = late \/ late' = [late EXCEPT ![n] = late[n] \union {l}]
      BY <1>1 DEF Upload
    <3> HIDE DEF l
    <3>3. late[n] \union {l} \in SUBSET [edition : Nat, copied : BOOLEAN]
      BY <3>1
    <3> QED
      BY <3>2, <3>3
  <2>3. volume' \in [Directories -> [Names -> Nat]]
    BY <2>1
  <2> QED
    BY <2>1, <2>2, <2>3
<1>2. ASSUME NEW k \in Nat, k <= MaxRetries + 1, Attempt(k) PROVE TypeInv'
  BY <1>2, JobAssumption DEF Attempt
<1>3. ASSUME NEW n \in Names, Read(n) PROVE TypeInv'
  BY <1>3 DEF Read
<1>4. ASSUME NEW n \in Names, GraphEnds(n) PROVE TypeInv'
  <2>1. PICK ok \in BOOLEAN : Return(n, ok)
    BY <1>4, GraphReturns
  <2>2. table' \in [Names -> Seq(Row)]
    <3>1. CASE UNCHANGED table
      BY <3>1 DEF Row
    <3>2. CASE \E rows \in Frames(n) : Commit(n, rows)
      BY <1>4, <3>2, GraphReturns, CommitRows
    <3> QED
      BY <1>4, <3>1, <3>2, GraphReturns
  <2> QED
    BY <2>1, <2>2 DEF Return, Row
<1>5. ASSUME NEW n \in Names, Copy(n) PROVE TypeInv'
  BY <1>5 DEF Copy, Destination
<1>6. ASSUME NEW n \in Names, Remove(n) PROVE TypeInv'
  BY <1>6 DEF Remove
<1>7. ASSUME NEW n \in Names, MoveFails(n) PROVE TypeInv'
  BY <1>7 DEF MoveFails
<1>8. ASSUME job = "attempt", UNCHANGED volume,
             Over("idle") \/ Over("failed") \/ Over(AfterFailure)
      PROVE  TypeInv'
  <2>1. AfterFailure \in {"waiting", "failed"} /\ (AfterFailure = "waiting" => attempt <= MaxRetries)
    BY DEF AfterFailure
  <2>2. PICK next \in {"idle", "failed", "waiting"} :
          Over(next) /\ (next = "waiting" => attempt <= MaxRetries)
    BY <1>8, <2>1
  <2> QED
    BY <1>8, <2>2, JobAssumption DEF Over
<1>9. CASE UNCHANGED vars
  BY <1>9 DEF vars
<1>10. 1 <= MaxRetries + 1 /\ 1 \in Nat /\ attempt + 1 \in Nat
       /\ (job = "waiting" => attempt + 1 <= MaxRetries + 1)
  BY JobAssumption
<1> QED
  BY <1>1, <1>2, <1>3, <1>4, <1>5, <1>6, <1>7, <1>8, <1>9, <1>10, StepCases

(* The file under its name, and its copies.                                *)
LEMMA FilesStep ==
  ASSUME FilesInv, [Next]_vars
  PROVE  FilesInv'
<1> USE DEF FilesInv, PresentInv, LatestInv, FreshInv, NothingIsLost, UnderWay, run, batch, None, Directories
<1>0. /\ volume \in [Directories -> [Names -> Nat]]
      /\ step \in [Names -> {"none", "listed", "read", "unreadable", "returned", "copied", "handled"}]
      /\ seen \in [Names -> Nat] /\ success \in [Names -> BOOLEAN]
      /\ uploads \in [Names -> Nat]
      /\ late \in [Names -> SUBSET [edition : Nat, copied : BOOLEAN]]
      /\ TypeInv'
  BY TypeStep DEF TypeInv, TypeOK
<1>1. ASSUME NEW n \in Names, Upload(n) PROVE FilesInv'
  <2>1. /\ uploads' = [uploads EXCEPT ![n] = uploads[n] + 1]
        /\ volume' = [volume EXCEPT !["input"][n] = uploads'[n]]
        /\ UNCHANGED <<step, seen, success>>
    BY <1>1 DEF Upload
  <2>2. /\ uploads'[n] # None /\ volume'["input"][n] = uploads'[n]
        /\ \A d \in Directories \ {"input"} : volume'[d] = volume[d]
    BY <1>0, <2>1
  <2>3. \A m \in Names \ {n} : /\ uploads'[m] = uploads[m] /\ late'[m] = late[m]
                              /\ \A d \in Directories : volume'[d][m] = volume[d][m]
    BY <1>0, <1>1, <2>1 DEF Upload
  <2>4. UnderWay(n) =>
          [edition |-> uploads'[n], copied |-> step[n] = "copied"] \in late'[n]
    BY <1>0, <1>1 DEF Upload
  <2>5. \A m \in Names : Destination(m) \in Directories \ {"input"} /\ Destination(m)' = Destination(m)
    BY <2>1 DEF Destination
  <2>6. PresentInv'
    BY <2>1, <2>2, <2>3
  <2>7. LatestInv'
    <3>1. step[n] = "copied" => [edition |-> uploads'[n], copied |-> TRUE] \in late'[n]
      BY <2>4
    <3>2. ASSUME NEW m \in Names \ {n}
          PROVE  /\ volume'["input"][m] \in {None, uploads'[m]}
                 /\ step'[m] = "copied" /\ [edition |-> uploads'[m], copied |-> TRUE] \notin late'[m] =>
                      volume'[Destination(m)'][m] = uploads'[m]
      <4>1. volume'[Destination(m)'][m] = volume[Destination(m)][m]
        BY <2>3, <2>5
      <4> QED
        BY <2>1, <2>3, <4>1
    <3> QED
      BY <2>1, <2>2, <3>1, <3>2
  <2>8. FreshInv'
    <3>1. ASSUME UnderWay(n) PROVE volume'["input"][n] \in {l.edition : l \in late'[n]}
      <4> DEFINE l == [edition |-> uploads'[n], copied |-> step[n] = "copied"]
      <4>1. l \in late'[n] /\ l.edition = volume'["input"][n]
        BY <2>2, <2>4, <3>1
      <4> HIDE DEF l
      <4> QED
        BY <4>1
    <3>2. ASSUME NEW m \in Names \ {n}, UnderWay(m)'
          PROVE  volume'["input"][m] \in {seen'[m]} \union {l.edition : l \in late'[m]}
      <4>1. volume["input"][m] \in {seen[m]} \union {l.edition : l \in late[m]}
        BY <2>1, <3>2
      <4> QED
        BY <2>1, <2>3, <4>1
    <3> QED
      BY <2>1, <3>1, <3>2
  <2>9. NothingIsLost'
    BY <2>2, <2>3
  <2> QED
    BY <1>0, <2>6, <2>7, <2>8, <2>9
<1>2. ASSUME NEW k \in Nat, Attempt(k) PROVE FilesInv'
  BY <1>0, <1>2 DEF Attempt, Listed, Destination
<1>3. ASSUME NEW n \in Names, Read(n) PROVE FilesInv'
  BY <1>0, <1>3 DEF Read, Destination
<1>4. ASSUME NEW n \in Names, GraphEnds(n) PROVE FilesInv'
  <2>1. /\ step[n] \in {"read", "unreadable"} /\ \E ok \in BOOLEAN : Return(n, ok)
    BY <1>4, GraphReturns
  <2> QED
    BY <1>0, <2>1 DEF Return, Destination
<1>5. ASSUME NEW n \in Names, Copy(n) PROVE FilesInv'
  BY <1>0, <1>5 DEF Copy, Destination
<1>6. ASSUME NEW n \in Names, Remove(n) PROVE FilesInv'
  BY <1>0, <1>6 DEF Remove, Destination
<1>7. ASSUME NEW n \in Names, MoveFails(n) PROVE FilesInv'
  BY <1>0, <1>7 DEF MoveFails, Destination
<1>8. ASSUME job = "attempt", UNCHANGED volume,
             Over("idle") \/ Over("failed") \/ Over(AfterFailure)
      PROVE  FilesInv'
  BY <1>0, <1>8 DEF Over, Destination
<1>9. CASE UNCHANGED vars
  BY <1>0, <1>9 DEF vars, Destination
<1>10. attempt + 1 \in Nat
  BY DEF TypeInv, TypeOK
<1> QED
  BY <1>1, <1>2, <1>3, <1>4, <1>5, <1>6, <1>7, <1>8, <1>9, <1>10, StepCases

(* Rows in the table: those of a success stay, and a MERGE leaves one      *)
(* version.                                                                *)
LEMMA RowsStep ==
  ASSUME JobInv, [Next]_vars
  PROVE  WrittenInv' /\ RerunsDoNotPileUp'
<1> USE DEF WrittenInv, RerunsDoNotPileUp, HasRows, run, batch
<1>0. /\ table \in [Names -> Seq(Row)]
      /\ step \in [Names -> {"none", "listed", "read", "unreadable", "returned", "copied", "handled"}]
      /\ seen \in [Names -> Nat] /\ success \in [Names -> BOOLEAN]
      /\ TypeInv /\ PresentInv /\ WrittenInv /\ RerunsDoNotPileUp
  BY DEF JobInv, FilesInv, TypeInv, TypeOK, Row
<1>1. ASSUME NEW n \in Names, Upload(n) PROVE WrittenInv' /\ RerunsDoNotPileUp'
  BY <1>0, <1>1 DEF Upload
<1>2. ASSUME NEW k \in Nat, Attempt(k) PROVE WrittenInv' /\ RerunsDoNotPileUp'
  BY <1>0, <1>2 DEF Attempt
<1>3. ASSUME NEW n \in Names, Read(n) PROVE WrittenInv' /\ RerunsDoNotPileUp'
  BY <1>0, <1>3 DEF Read
<1>4. ASSUME NEW n \in Names, GraphEnds(n) PROVE WrittenInv' /\ RerunsDoNotPileUp'
  <2>1. step[n] \in {"read", "unreadable"}
    BY <1>4, GraphReturns
  <2>2. PICK ok \in BOOLEAN : /\ Return(n, ok)
                              /\ ok => step[n] = "read" /\ \E rows \in Frames(n) : Commit(n, rows)
    BY <1>4, GraphReturns
  <2>3. \A m \in Names \ {n} : table'[m] = table[m] /\ step'[m] = step[m] /\ success'[m] = success[m]
    <3>1. \A m \in Names \ {n} : step'[m] = step[m] /\ success'[m] = success[m]
      BY <1>0, <2>2 DEF Return
    <3>2. UNCHANGED table \/ \E rows \in Frames(n) : Commit(n, rows)
      BY <1>4, GraphReturns
    <3>3. (\E rows \in Frames(n) : Commit(n, rows)) => \A m \in Names \ {n} : table'[m] = table[m]
      BY <1>0, <2>1, CommitRows
    <3> QED
      BY <3>1, <3>2, <3>3
  <2>4. UNCHANGED seen /\ success'[n] = ok
    BY <1>0, <2>2 DEF Return
  <2>5. ok => \E k \in DOMAIN table'[n] : table'[n][k].edition = seen'[n] /\ table'[n][k].read
    <3> HAVE ok
    <3>1. PICK rows \in Frames(n) : Commit(n, rows)
      BY <2>2
    <3>2. PICK k \in DOMAIN table'[n] :
            table'[n][k] = [edition |-> seen[n], read |-> step[n] = "read"]
      BY <1>0, <2>1, <3>1, CommitRows
    <3>3. step[n] = "read"
      BY <2>2
    <3>4. table'[n][k] = [edition |-> seen[n], read |-> TRUE]
      BY <3>2, <3>3, Zenon
    <3>5. table'[n][k].edition = seen'[n] /\ table'[n][k].read
      BY <2>4, <3>4
    <3> QED
      BY <3>5
  <2>6. WrittenInv'
    <3>1. ASSUME NEW m \in Names \ {n}, step'[m] \in {"returned", "copied", "handled"}, success'[m]
          PROVE  HasRows(m, seen[m])'
      <4>1. HasRows(m, seen[m])
        BY <1>0, <2>3, <3>1
      <4> QED
        BY <2>3, <2>4, <4>1
    <3>2. success'[n] => HasRows(n, seen[n])'
      BY <2>4, <2>5
    <3> QED
      BY <3>1, <3>2
  <2>7. RerunsDoNotPileUp'
    <3> HAVE WriteMode = "merge"
    <3>1. CASE UNCHANGED table
      BY <1>0, <3>1
    <3>2. CASE \E rows \in Frames(n) : Commit(n, rows)
      <4>1. Len(table[n]) <= MaxRows[n]
        BY <1>0
      <4>2. /\ Len(table'[n]) <= MaxRows[n]
            /\ \A j, k \in DOMAIN table'[n] : table'[n][j] = table'[n][k]
        BY <1>0, <2>1, <3>2, <4>1, CommitRows
      <4> QED
        BY <1>0, <2>3, <4>2
    <3> QED
      BY <1>4, <3>1, <3>2, GraphReturns
  <2> QED
    BY <2>6, <2>7
<1>5. ASSUME NEW n \in Names, Copy(n) \/ Remove(n) \/ MoveFails(n)
      PROVE  WrittenInv' /\ RerunsDoNotPileUp'
  <2>1. /\ step[n] \in {"returned", "copied"}
        /\ \A m \in Names \ {n} : step'[m] = step[m]
        /\ UNCHANGED <<table, seen, success>>
    BY <1>0, <1>5 DEF Copy, Remove, MoveFails
  <2>2. WrittenInv'
    <3> SUFFICES ASSUME NEW m \in Names, step'[m] \in {"returned", "copied", "handled"}, success'[m]
                 PROVE  HasRows(m, seen[m])
      BY <2>1
    <3> QED
      BY <1>0, <2>1
  <2>3. RerunsDoNotPileUp'
    BY <1>0, <2>1
  <2> QED
    BY <2>2, <2>3
<1>6. ASSUME Over("idle") \/ Over("failed") \/ Over(AfterFailure)
      PROVE  WrittenInv' /\ RerunsDoNotPileUp'
  BY <1>0, <1>6 DEF Over
<1>7. CASE UNCHANGED vars
  BY <1>0, <1>7 DEF vars
<1>8. attempt + 1 \in Nat
  BY <1>0 DEF TypeInv, TypeOK
<1> QED
  BY <1>1, <1>2, <1>3, <1>4, <1>5, <1>6, <1>7, <1>8, StepCases

(* The invariant holds at the start, and every step keeps it.              *)
LEMMA JobInvHolds == Spec => []JobInv
<1>1. Init => JobInv
  BY JobAssumption DEF Init, JobInv, FilesInv, TypeInv, TypeOK, PresentInv, LatestInv, FreshInv,
     NothingIsLost, WrittenInv, RerunsDoNotPileUp, UnderWay, None, Directories
<1>2. JobInv /\ [Next]_vars => JobInv'
  BY FilesStep, RowsStep DEF JobInv
<1> QED
  BY <1>1, <1>2, PTL DEF Spec

(* Every variable keeps its range, and a run never has more attempts than  *)
(* the job's max_retries allows.                                           *)
THEOREM TypeCorrect == Spec => []TypeOK
<1>1. JobInv => TypeOK
  BY DEF JobInv, FilesInv, TypeInv
<1> QED
  BY <1>1, JobInvHolds, PTL

(* The newest edition of every invoice stays in one of the volumes,        *)
(* wherever an attempt dies and whatever move fails.                       *)
THEOREM NothingIsLostHolds == Spec => []NothingIsLost
<1>1. JobInv => NothingIsLost
  BY DEF JobInv, FilesInv
<1> QED
  BY <1>1, JobInvHolds, PTL

(* Under merge the table has one version of an invoice, however often it   *)
(* is processed.                                                           *)
THEOREM RerunsDoNotPileUpHolds == Spec => []RerunsDoNotPileUp
<1>1. JobInv => RerunsDoNotPileUp
  BY DEF JobInv
<1> QED
  BY <1>1, JobInvHolds, PTL

(* Only a copy changes the archive, and it copies what the path holds.     *)
THEOREM ArchivesWhatWasWrittenHolds == Spec => ArchivesWhatWasWritten
<1> DEFINE Safe == \A n \in Names :
             volume'["archive"][n] # volume["archive"][n] =>
               /\ volume'["archive"][n] \in {seen[n]} \union {l.edition : l \in late[n]}
               /\ HasRows(n, seen[n])
<1>1. ASSUME JobInv, [Next]_vars PROVE Safe \/ UNCHANGED vars
  <2>0. volume \in [Directories -> [Names -> Nat]]
    BY <1>1 DEF JobInv, FilesInv, TypeInv, TypeOK
  <2>1. ASSUME NEW n \in Names, Copy(n) PROVE Safe
    <3>1. /\ volume' = [volume EXCEPT ![Destination(n)][n] = volume["input"][n]]
          /\ step[n] = "returned"
      BY <2>1 DEF Copy
    <3>2. ASSUME NEW m \in Names, volume'["archive"][m] # volume["archive"][m]
          PROVE  m = n /\ success[n] /\ volume'["archive"][m] = volume["input"][n]
      BY <2>0, <3>1, <3>2 DEF Destination, Directories
    <3>3. volume["input"][n] \in {seen[n]} \union {l.edition : l \in late[n]}
      BY <1>1, <3>1 DEF JobInv, FilesInv, FreshInv, UnderWay
    <3>4. success[n] => HasRows(n, seen[n])
      BY <1>1, <3>1 DEF JobInv, WrittenInv
    <3> QED
      BY <3>2, <3>3, <3>4
  <2>2. ASSUME NEW n \in Names, Upload(n) \/ Remove(n) PROVE Safe
    BY <2>0, <2>2 DEF Upload, Remove, Directories
  <2>3. ASSUME NEW n \in Names, Read(n) \/ GraphEnds(n) \/ MoveFails(n) PROVE Safe
    <3>1. UNCHANGED volume
      BY <2>3, GraphReturns DEF Read, Return, MoveFails
    <3> QED
      BY <3>1
  <2>4. ASSUME Attempt(1) \/ Attempt(attempt + 1) PROVE Safe
    BY <2>4 DEF Attempt
  <2>5. CASE UNCHANGED volume
    BY <2>5
  <2> HIDE DEF Safe
  <2> QED
    BY <1>1, <2>1, <2>2, <2>3, <2>4, <2>5, StepCases
<1>2. JobInv /\ [Next]_vars => [Safe]_vars
  BY <1>1
<1>3. Spec => [][Safe]_vars
  <2> HIDE DEF Safe
  <2> QED
    BY <1>2, JobInvHolds, PTL DEF Spec
<1> QED
  BY <1>3, PTL DEF ArchivesWhatWasWritten

(* A run ends well only by EndBatch, with every listed file handled and    *)
(* every result a success.                                                 *)
THEOREM SuccessMeansPersistedHolds == Spec => SuccessMeansPersisted
<1> DEFINE Persisted == job = "attempt" /\ job' = "idle" =>
                          \A n \in Handled : HasRows(n, seen[n])
<1>1. ASSUME JobInv, [Next]_vars, job = "attempt", job' = "idle"
      PROVE  \A n \in Handled : HasRows(n, seen[n])
  <2>1. EndBatch
    <3>1. AfterFailure # "idle"
      BY DEF AfterFailure
    <3> QED
      BY <1>1, <3>1 DEF Next, JobStep, ProcessStep, StartRun, Retry, Crash, TimeOut, Dies, Over,
         Upload, Read, GraphRaises, GraphWrites, GraphWriteFails, Return, Copy, Remove, MoveFails,
         Attempt, run, vars
  <2>2. ~SomeFailed
    BY <1>1, <2>1 DEF EndBatch, Over, AfterFailure
  <2> QED
    BY <1>1, <2>1, <2>2 DEF EndBatch, SomeFailed, Handled, JobInv, WrittenInv
<1>2. JobInv /\ [Next]_vars => [Persisted]_vars
  BY <1>1
<1>3. Spec => [][Persisted]_vars
  <2> HIDE DEF Persisted
  <2> QED
    BY <1>2, JobInvHolds, PTL DEF Spec
<1> QED
  BY <1>3, PTL DEF SuccessMeansPersisted
=============================================================================
