-------------------------- MODULE OutputComparison --------------------------
(***************************************************************************)
(* Comparison over every pair of outputs made of given rows: an invoice's  *)
(* two outputs are compared, then laid out as table rows.                  *)
(***************************************************************************)
EXTENDS Comparison

CONSTANTS
  Rows1,     \* the rows agent 1 may give
  Rows2,     \* the rows agent 2 may give
  MaxRows    \* longest output

VARIABLES output1, output2, step, match, frame
vars == <<output1, output2, step, match, frame>>

(* A sort key is the place of a string in string order, whatever the row:  *)
(* str() is total and strings are totally ordered.  NaN is no string.      *)
ASSUME ComparisonAssumption ==
  /\ MaxRows \in Nat
  /\ \A row \in Rows1 : SortKey(Canonical(NormalizeRow(row))) \in Int
  /\ \A row \in Rows2 : SortKey(NormalizeRow(row)) \in Int
  /\ NaN # ""

Outputs(rows) == UNION {[1..n -> rows] : n \in 0..MaxRows}

Init ==
  /\ output1 \in Outputs(Rows1)
  /\ output2 \in Outputs(Rows2)
  /\ step = "compare"
  /\ match = FALSE
  /\ frame = << >>

Compare ==
  /\ step = "compare"
  /\ match' = CompareOutputs(output1, output2)
  /\ step' = "build"
  /\ UNCHANGED <<output1, output2, frame>>

Build ==
  /\ step = "build"
  /\ frame' = ResultFrame(output1, output2)
  /\ step' = "done"
  /\ UNCHANGED <<output1, output2, match>>

Done == step = "done" /\ UNCHANGED vars

Next == Compare \/ Build \/ Done

Spec == Init /\ [][Next]_vars

-----------------------------------------------------------------------------
Table1 == Mapped(Normalized(output1))
Table2 == Normalized(output2)
Pairings == {p \in [DOMAIN output1 -> DOMAIN output2] :
               \A i, j \in DOMAIN output1 : p[i] = p[j] => i = j}

(* The reference: the two outputs hold the same rows, whatever the order.  *)
SameRows ==
  /\ Len(output1) = Len(output2)
  /\ \E p \in Pairings : \A i \in DOMAIN output1 : SameRow(Table1[i], Table2[p[i]])

Name(row) == IF "name" \in DOMAIN row THEN row["name"] ELSE Cell("str", "")
AllRows == {Table1[i] : i \in DOMAIN Table1} \union {Table2[i] : i \in DOMAIN Table2}

(* Sorting both sides lines equal rows up: rows whose names are equal sort *)
(* alike, and rows that sort alike are the same row.                       *)
SortSeparates ==
  \A r, s \in AllRows :
    /\ SameValue(Name(r), Name(s)) => SortKey(r) = SortKey(s)
    /\ SortKey(r) = SortKey(s) => SameRow(r, s)

(* compare_outputs says "match" only of outputs that hold the same rows    *)
(* after normalisation, so an invoice that skips the judge has two         *)
(* agreeing extractions.                                                   *)
MatchIsSound == step # "compare" /\ match => SameRows

(* Outputs that hold the same rows in another order match, unless the sort *)
(* key cannot line them up (equal keys on different rows, or an int and a  *)
(* numeric string for the same name): the judge is not paid for an order.  *)
MatchIsComplete == step # "compare" /\ SameRows /\ SortSeparates => match

HasCell(output, i, f) ==
  i \in DOMAIN output /\ output[i] # NotADict /\ f \in DOMAIN output[i]

(* The frame is as long as the longer output, and one row at least; every  *)
(* cell that an agent gave under a field name of its prompt is in the row  *)
(* of its number, unless the cell is an object, which the writer drops;    *)
(* and a value in the frame is one that the agent gave there.              *)
ScalarsAreKept ==
  step = "done" =>
    /\ Len(frame) \in {Len(output1), Len(output2), 1}
    /\ \A i \in DOMAIN output1 \union DOMAIN output2 : i \in DOMAIN frame
    /\ \A i \in DOMAIN frame :
         /\ \A f \in A1Fields :
              \/ HasCell(output1, i, f) /\ frame[i].agent1[f] = output1[i][f]
              \/ /\ HasCell(output1, i, f) => output1[i][f].type = "object"
                 /\ frame[i].agent1[f] = NoValue
         /\ \A f \in A2Fields :
              \/ HasCell(output2, i, f) /\ frame[i].agent2[f] = output2[i][f]
              \/ /\ HasCell(output2, i, f) => output2[i][f].type = "object"
                 /\ frame[i].agent2[f] = NoValue

(* Both agents followed their prompts.                                     *)
WellFormed ==
  /\ \A i \in DOMAIN output1 : output1[i] # NotADict /\ DOMAIN output1[i] = A1Fields
  /\ \A i \in DOMAIN output2 : output2[i] # NotADict /\ DOMAIN output2[i] = A2Fields

(* "one row-aligned DataFrame": when the outputs match, the two sides of   *)
(* each table row are the same line of the invoice.                        *)
RowAligned ==
  step = "done" /\ match /\ WellFormed /\ output1 # << >>
    => \A i \in DOMAIN frame : SameRow(Table1[i], Table2[i])
=============================================================================
