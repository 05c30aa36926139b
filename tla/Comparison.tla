----------------------------- MODULE Comparison -----------------------------
(***************************************************************************)
(* The pure part of the pipeline: what compare_outputs decides about the   *)
(* two agents' outputs, and the rows build_result_dataframe makes of them. *)
(*                                                                         *)
(* An output is a sequence of rows.  A row is a dict, a function from      *)
(* field names to cells, or NotADict: another JSON value.  The eight       *)
(* fields of a row are represented by two: "name" stands for the four the  *)
(* sort key reads, "amount" for the four it does not.  A cell is a record  *)
(* [type, value], of type "object" when it is a JSON object; the string    *)
(* methods and float() are given as functions on the strings that occur.   *)
(***************************************************************************)
EXTENDS Integers, Sequences, FiniteSets

CONSTANTS
  NotADict,    \* a list element that is not a JSON object
  NoValue,     \* pd.NA: a column the row does not have
  NotANumber,  \* float() raises ValueError
  NaN,         \* float("nan")
  Cleaned,     \* string -> strip, lower, "$" "," and white space removed
  FloatOf,     \* cleaned string -> a number, NaN, or NotANumber
  TextOrder    \* cell -> the place of str(value).lower() in string order

-----------------------------------------------------------------------------
(* Dict keys: what the prompts ask agent 1 and agent 2 to use.             *)
A1Fields == {"name_1", "amount_1"}
A2Fields == {"name", "amount"}

StripSuffix(field) ==
  CASE field = "name_1"   -> "name"
    [] field = "amount_1" -> "amount"
    [] OTHER              -> field

Cell(type, value) == [type |-> type, value |-> value]
IsNumber(cell) == cell.type \in {"int", "float"}

(* Strings that read as a number become one; everything else is kept.      *)
NormalizeValue(cell) ==
  IF cell.type # "str" THEN cell
  ELSE LET text   == Cleaned[cell.value]
           number == FloatOf[text]
       IN  IF number = NotANumber THEN Cell("str", text)
                                  ELSE Cell("float", number)

EmptyRow == [field \in {} |-> NoValue]

NormalizeRow(row) ==
  IF row = NotADict THEN EmptyRow
  ELSE [field \in DOMAIN row |-> NormalizeValue(row[field])]

(* Agent 1's rows under agent 2's field names.  Rows that carry one field  *)
(* under both names are left out of the inputs.                            *)
Canonical(row) ==
  [field \in {StripSuffix(f) : f \in DOMAIN row} |->
     row[CHOOSE f \in DOMAIN row : StripSuffix(f) = field]]

(* Python's == on two values: 525 == 525.0, and nan equals nothing.       *)
SameValue(c, d) ==
  /\ c.type = d.type \/ (IsNumber(c) /\ IsNumber(d))
  /\ c.value = d.value
  /\ c.value # NaN

SameRow(row1, row2) ==
  /\ DOMAIN row1 = DOMAIN row2
  /\ \A f \in DOMAIN row1 : SameValue(row1[f], row2[f])

(* The key is a tuple of strings: numbers are compared by their digits.    *)
SortKey(row) ==
  TextOrder[IF "name" \in DOMAIN row THEN row["name"] ELSE Cell("str", "")]

Sorted_AsGiven(rows) == rows
(* sorted() is stable: ties keep the order of the list.                    *)
Sorted(rows) ==
  LET Precedes(i, j) ==
        \/ SortKey(rows[i]) < SortKey(rows[j])
        \/ SortKey(rows[i]) = SortKey(rows[j]) /\ i < j
      Place(i) == 1 + Cardinality({j \in DOMAIN rows : Precedes(j, i)})
  IN  [p \in DOMAIN rows |-> rows[CHOOSE i \in DOMAIN rows : Place(i) = p]]

Normalized(output) == [i \in DOMAIN output |-> NormalizeRow(output[i])]
Mapped(normalized) == [i \in DOMAIN normalized |-> Canonical(normalized[i])]

(* The "match" that compare_outputs returns.                               *)
CompareOutputs_NoCount(output1, output2) ==
  LET sorted1 == Sorted(Mapped(Normalized(output1)))
      sorted2 == Sorted(Normalized(output2))
  IN  \A i \in DOMAIN sorted1 \intersect DOMAIN sorted2 : SameRow(sorted1[i], sorted2[i])

CompareOutputs(output1, output2) ==
  /\ Len(output1) = Len(output2)
  /\ LET sorted1 == Sorted(Mapped(Normalized(output1)))
         sorted2 == Sorted(Normalized(output2))
     IN  \A i \in DOMAIN sorted1 : SameRow(sorted1[i], sorted2[i])

-----------------------------------------------------------------------------
(* _ensure_cols and reindex: row i of one side of the table, restricted to *)
(* the columns of that side, NoValue where the output has nothing.         *)
(* json_normalize puts an object under other columns, "field.key", which   *)
(* are not among those.                                                    *)
Side(output, columns, i) ==
  [c \in columns |->
     IF /\ i \in DOMAIN output /\ output[i] # NotADict /\ c \in DOMAIN output[i]
        /\ output[i][c].type # "object"
     THEN output[i][c] ELSE NoValue]

FrameLength_ShortestSide(output1, output2) ==
  IF Len(output1) < Len(output2) THEN Len(output1) ELSE Len(output2)

(* max(len(df1), len(df2), 1)                                              *)
FrameLength(output1, output2) ==
  CHOOSE n \in {Len(output1), Len(output2), 1} :
    n >= Len(output1) /\ n >= Len(output2) /\ n >= 1

(* The two outputs side by side, in the order the agents gave them.        *)
ResultFrame(output1, output2) ==
  [i \in 1..FrameLength(output1, output2) |->
     [agent1 |-> Side(output1, A1Fields, i), agent2 |-> Side(output2, A2Fields, i)]]
=============================================================================
