---------------------------- MODULE MCComparison ----------------------------
(***************************************************************************)
(* Every pair of outputs of up to MaxRows rows, drawn from rows that tell  *)
(* the cases of normalisation and sorting apart.                           *)
(***************************************************************************)
EXTENDS OutputComparison

(* "7" and 7 are the same number, but "7" sorts before "7-a" and "7.0"     *)
(* after it.                                                               *)
MCCleaned == [s \in {" Acme", "acme", "7", "007", "7-a", "Nan", "$525.00", ""} |->
  CASE s = " Acme" -> "acme" [] s = "$525.00" -> "525.00"
    [] s = "Nan" -> "nan"    [] OTHER -> s]

MCFloatOf == [s \in {"acme", "7", "007", "7-a", "nan", "525.00", ""} |->
  CASE s \in {"7", "007"} -> 7 [] s = "525.00" -> 525
    [] s = "nan" -> NaN        [] OTHER -> NotANumber]

Int7 == Cell("int", 7)
Float7 == Cell("float", 7)
NaNCell == Cell("float", NaN)
Str(s) == Cell("str", s)

MCTextOrder == [c \in {Str(""), Int7, Str("7-a"), Float7, Str("acme"), NaNCell} |->
  CASE c = Str("") -> 0 [] c = Int7 -> 1 [] c = Str("7-a") -> 2
    [] c = Float7 -> 3  [] c = Str("acme") -> 4 [] OTHER -> 5]

Row1(name, amount) == [f \in A1Fields |-> IF f = "name_1" THEN name ELSE amount]
Row2(name, amount) == [f \in A2Fields |-> IF f = "name" THEN name ELSE amount]
Amount == Cell("float", 525)
Object == Cell("object", "value and currency")
MCRows1 ==
  { Row1(Str(" Acme"), Str("$525.00")), Row1(Str("acme"), Int7),
    Row1(Str("007"), Amount), Row1(Str("7-a"), Amount),
    Row1(Str("Nan"), Amount), Row1(Str("acme"), Object),
    Row2(Str("acme"), Amount), NotADict }
MCRows2 ==
  { Row2(Str("acme"), Amount), Row2(Str("acme"), Float7),
    Row2(Int7, Amount), Row2(Str("7-a"), Amount), Row2(Str("Nan"), Amount),
    Row2(Str("acme"), Object),
    [f \in {"amount"} |-> Amount], NotADict }
=============================================================================
