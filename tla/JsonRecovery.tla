---------------------------- MODULE JsonRecovery ----------------------------
(***************************************************************************)
(* utils/json_utils.py: the list that extract_json finds in a chat answer. *)
(*                                                                         *)
(* An answer is a sequence of chunks, records [kind, rows]:                *)
(*   "words"    prose without brackets                                     *)
(*   "braces"   prose with something like "[{...}]" in it, no JSON         *)
(*   "fence"    three backquotes, with or without "json"                   *)
(*   "array"    a JSON array of objects, the rows                          *)
(*   "list"     a JSON array of other values, the rows                     *)
(*   "object"   a JSON object, the first row, and the rows of an array of  *)
(*              objects inside it: the judge's final_output                *)
(*   "scalar"   any other JSON value                                       *)
(*   "cut"      an array of objects that breaks off after these rows, in   *)
(*              the middle of one more                                     *)
(* The brackets in a chunk are all that the regular expressions look at.   *)
(***************************************************************************)
EXTENDS Integers, Sequences, FiniteSets

CONSTANT Nothing   \* None: no match, or one that does not parse

Chunk(kind, rows) == [kind |-> kind, rows |-> rows]

(* _try_parse: exactly one document, wrapped when it is an object.         *)
TryParse(text) ==
  IF Len(text) # 1 THEN Nothing
  ELSE CASE text[1].kind \in {"array", "list"} -> text[1].rows
         [] text[1].kind = "object"            -> <<text[1].rows[1]>>
         [] OTHER                              -> Nothing

Fences(text) == {i \in DOMAIN text : text[i].kind = "fence"}

Fenced_ToTheLast(text) ==
  IF Cardinality(Fences(text)) < 2 THEN << >>
  ELSE LET first == CHOOSE i \in Fences(text) : \A j \in Fences(text) : i <= j
           last  == CHOOSE i \in Fences(text) : \A j \in Fences(text) : i >= j
       IN  SubSeq(text, first + 1, last - 1)

(* _FENCE_RE: what is between the first two fences.                        *)
Fenced(text) ==
  IF Cardinality(Fences(text)) < 2 THEN << >>
  ELSE LET first  == CHOOSE i \in Fences(text) : \A j \in Fences(text) : i <= j
           second == CHOOSE i \in Fences(text) \ {first} :
                       \A j \in Fences(text) \ {first} : i <= j
       IN  SubSeq(text, first + 1, second - 1)

(* Where a chunk has "[{", "}]", "{" and "}".                              *)
OpensArray(c) ==
  \/ c.kind \in {"braces", "cut"}
  \/ c.kind = "array" /\ c.rows # << >>
  \/ c.kind = "object" /\ Len(c.rows) > 1
ClosesArray(c) == OpensArray(c) /\ c.kind # "cut"
OpensObject(c) == OpensArray(c) \/ c.kind = "object"
ClosesObject(c) == OpensObject(c) /\ (c.kind = "cut" => c.rows # << >>)

(* The regular expressions are greedy: from the first opening to the last  *)
(* closing bracket, which is JSON only if both are in one chunk.           *)
Spanned(text, Opens(_), Closes(_)) ==
  {i \in DOMAIN text :
     /\ Opens(text[i]) /\ Closes(text[i])
     /\ \A j \in DOMAIN text : (Opens(text[j]) => i <= j) /\ (Closes(text[j]) => j <= i)}

(* _ARRAY_RE: an array, or the one inside an object.                       *)
ArrayIn(text) ==
  LET found == {i \in Spanned(text, OpensArray, ClosesArray) : text[i].kind # "braces"}
  IN  IF found = {} THEN Nothing
      ELSE LET c == text[CHOOSE i \in found : TRUE]
           IN  IF c.kind = "array" THEN c.rows ELSE Tail(c.rows)

ObjectIn_Shortest(text) ==
  LET found == {i \in DOMAIN text : ClosesObject(text[i]) /\ text[i].kind # "braces"}
  IN  IF found = {} THEN Nothing
      ELSE <<text[CHOOSE i \in found : \A j \in found : i <= j].rows[1]>>

(* _OBJECT_RE: an object, or the only complete one of an array cut short.  *)
ObjectIn(text) ==
  LET found == {i \in Spanned(text, OpensObject, ClosesObject) :
                  \/ text[i].kind = "object"
                  \/ text[i].kind \in {"array", "cut"} /\ Len(text[i].rows) = 1}
  IN  IF found = {} THEN Nothing ELSE <<text[CHOOSE i \in found : TRUE].rows[1]>>

(* The first candidate that parses; an empty list when none does.          *)
ExtractJson(text) ==
  LET candidates == <<TryParse(text), TryParse(Fenced(text)), ArrayIn(text), ObjectIn(text)>>
      parsed     == {k \in 1..4 : candidates[k] # Nothing}
  IN  IF parsed = {} THEN << >>
      ELSE candidates[CHOOSE k \in parsed : \A l \in parsed : k <= l]
=============================================================================
