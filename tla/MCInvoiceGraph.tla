--------------------------- MODULE MCInvoiceGraph ---------------------------
(* Two invoices with one text between them, or with one each.              *)
EXTENDS InvoiceGraph

CONSTANTS i1, i2, textA, textB

SharedText == [i \in Invoices |-> textA]
OwnTexts == [i \in Invoices |-> IF i = i1 THEN textA ELSE textB]

Str(s) == Cell("str", s)
MCStrings == {"a", "b", "x", ""}
MCCleaned == [s \in MCStrings |-> s]
MCFloatOf == [s \in MCStrings |-> NotANumber]
MCTextOrder == [c \in {Str(s) : s \in MCStrings} |->
  CASE c.value = "" -> 0 [] c.value = "a" -> 1 [] c.value = "b" -> 2 [] OTHER -> 3]

Row(fields, s) == [f \in fields |-> Str(s)]
Line(text) == IF text = textA THEN "a" ELSE "b"

(* Agent 1 reads the line right or answers without JSON; agent 2 reads it  *)
(* right or sees a line too many.                                          *)
MCAnswers ==
  [at \in Agents \X {textA, textB} |->
     LET s == Line(at[2])
     IN  IF at[1] = "agent1"
         THEN { << >>, <<Row(A1Fields, s)>> }
         ELSE { <<Row(A2Fields, s)>>, <<Row(A2Fields, s), Row(A2Fields, "x")>> }]

MCVerdicts ==
  { [winner |-> "agent1", justification |-> Null],
    [winner |-> "neither", justification |-> "given"],
    [winner |-> Null, justification |-> Null] }
=============================================================================
