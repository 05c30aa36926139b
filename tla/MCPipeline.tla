----------------------------- MODULE MCPipeline -----------------------------
(* Two invoices with a text each, in one batch of two workers.             *)
EXTENDS Pipeline, MCInvoiceGraph

MCOrder == <<i1, i2>>

(* The agents agree on the second invoice; the judge names nobody.         *)
FewAnswers ==
  [at \in Agents \X {textA, textB} |->
     IF at[2] = textA THEN MCAnswers[at]
     ELSE {<<Row(IF at[1] = "agent1" THEN A1Fields ELSE A2Fields, "b")>>}]

OneVerdict == {[winner |-> Null, justification |-> Null]}
=============================================================================
