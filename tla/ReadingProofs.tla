---------------------------- MODULE ReadingProofs ----------------------------
(***************************************************************************)
(* Theorems about Reading for every answer, file, environment and setting  *)
(* of the widgets.                                                         *)
(***************************************************************************)
EXTENDS Reading, FiniteSetTheorems, TLAPS

-----------------------------------------------------------------------------
(* The candidate that extract_json returns is the first that parses.       *)
LEMMA FirstThatParses ==
  ASSUME NEW text
  PROVE  LET whole  == TryParse(text)
             fenced == TryParse(Fenced(text))
             array  == ArrayIn(text)
             object == ObjectIn(text)
         IN  /\ whole # Nothing => ExtractJson(text) = whole
             /\ whole = Nothing /\ fenced # Nothing => ExtractJson(text) = fenced
             /\ whole = Nothing /\ fenced = Nothing /\ array # Nothing
                  => ExtractJson(text) = array
             /\ whole = Nothing /\ fenced = Nothing /\ array = Nothing /\ object # Nothing
                  => ExtractJson(text) = object
             /\ whole = Nothing /\ fenced = Nothing /\ array = Nothing /\ object = Nothing
                  => ExtractJson(text) = << >>
<1> DEFINE candidates == <<TryParse(text), TryParse(Fenced(text)), ArrayIn(text), ObjectIn(text)>>
           parsed     == {k \in 1..4 : candidates[k] # Nothing}
<1>1. ExtractJson(text) =
        IF parsed = {} THEN << >>
        ELSE candidates[CHOOSE k \in parsed : \A l \in parsed : k <= l]
  BY DEF ExtractJson
<1>2. ASSUME NEW k \in parsed, \A l \in parsed : k <= l
      PROVE  ExtractJson(text) = candidates[k]
  <2>1. (CHOOSE m \in parsed : \A l \in parsed : m <= l) = k
    BY <1>2
  <2> QED
    BY <1>1, <2>1
<1>3. \A k \in 1..4 : k \in parsed <=> candidates[k] # Nothing
  OBVIOUS
<1>4. /\ candidates[1] = TryParse(text)
      /\ candidates[2] = TryParse(Fenced(text))
      /\ candidates[3] = ArrayIn(text)
      /\ candidates[4] = ObjectIn(text)
      /\ parsed \subseteq 1..4
  OBVIOUS
<1> HIDE DEF candidates, parsed
<1>5. ASSUME NEW k \in 1..4, candidates[k] # Nothing,
             \A l \in 1..4 : l < k => candidates[l] = Nothing
      PROVE  ExtractJson(text) = candidates[k]
  BY <1>2, <1>3, <1>4, <1>5
<1>6. candidates[1] # Nothing => ExtractJson(text) = candidates[1]
  BY <1>5
<1>7. candidates[1] = Nothing /\ candidates[2] # Nothing => ExtractJson(text) = candidates[2]
  BY <1>5
<1>8. candidates[1] = Nothing /\ candidates[2] = Nothing /\ candidates[3] # Nothing
        => ExtractJson(text) = candidates[3]
  BY <1>5
<1>9. (\A l \in 1..3 : candidates[l] = Nothing) /\ candidates[4] # Nothing
        => ExtractJson(text) = candidates[4]
  BY <1>5
<1>10. (\A l \in 1..3 : candidates[l] = Nothing) /\ candidates[4] = Nothing
        => ExtractJson(text) = << >>
  BY <1>1, <1>3, <1>4
<1> QED
  BY <1>4, <1>6, <1>7, <1>8, <1>9, <1>10

-----------------------------------------------------------------------------
(* A set of positions has a least element: the intervals below them are    *)
(* finite sets, which strict inclusion orders well.                        *)
LEMMA LeastElement ==
  ASSUME NEW n \in Nat, NEW T \in SUBSET (1..n), T # {}
  PROVE  \E m \in T : \A i \in T : m <= i
<1> DEFINE below == {1..i : i \in T}
<1>1. IsWellFoundedOn(StrictSubsetOrdering(1..n), FiniteSubsetsOf(1..n))
  BY FS_StrictSubsetOrderingWellFounded
<1>2. below \subseteq FiniteSubsetsOf(1..n) /\ below # {}
  <2>1. ASSUME NEW i \in T PROVE 1..i \in FiniteSubsetsOf(1..n)
    <3>1. i \in 1..n /\ i \in Int
      OBVIOUS
    <3>2. 1..i \subseteq 1..n
      BY <3>1
    <3>3. IsFiniteSet(1..i)
      BY <3>1, FS_Interval
    <3> QED
      BY <3>2, <3>3 DEF FiniteSubsetsOf
  <2> QED
    BY <2>1
<1>3. PICK X \in below : \A Y \in below : ~ (<<Y, X>> \in StrictSubsetOrdering(1..n))
  BY <1>1, <1>2, WFMin
<1>4. PICK m \in T : X = 1..m
  OBVIOUS
<1>5. ASSUME NEW i \in T PROVE m <= i
  <2>1. SUFFICES ASSUME i < m PROVE FALSE
    OBVIOUS
  <2>2. 1..i \subseteq 1..m /\ 1..i # 1..m /\ 1..m \subseteq 1..n
    BY <2>1
  <2>3. <<1..i, X>> \in StrictSubsetOrdering(1..n)
    BY <1>4, <2>2 DEF StrictSubsetOrdering
  <2> QED
    BY <1>3, <2>3
<1> QED
  BY <1>5

(* An answer is a sequence of chunks, whose rows are a list.               *)
LEMMA TextFacts ==
  ASSUME NEW text \in Texts
  PROVE  /\ text \in Seq(Chunks)
         /\ Len(text) \in Nat
         /\ DOMAIN text = 1..Len(text)
         /\ \A i \in DOMAIN text :
              /\ text[i] \in Chunks
              /\ text[i].rows \in Seq(Rows)
              /\ text[i].kind = "object" => text[i].rows # << >>
<1>1. text \in Seq(Chunks)
  BY ReadingAssumption
<1>2. \A c \in Chunks : c.rows \in Seq(Rows) /\ (c.kind = "object" => c.rows # << >>)
  BY ReadingAssumption
<1> QED
  BY <1>1, <1>2

(* A candidate that parses is not None.                                    *)
LEMMA NothingIsNoList == Nothing \notin Seq(Rows)
BY ReadingAssumption

(* One fence and the next one after it.                                    *)
FirstFence(text) ==
  CHOOSE i \in Fences(text) : \A j \in Fences(text) : i <= j
SecondFence(text) ==
  CHOOSE i \in Fences(text) \ {FirstFence(text)} :
    \A j \in Fences(text) \ {FirstFence(text)} : i <= j

(* The fenced candidate is what the first two fences enclose.              *)
LEMMA FencedIsBetween ==
  ASSUME NEW text
  PROVE  Fenced(text) =
           IF Cardinality(Fences(text)) < 2 THEN << >>
           ELSE SubSeq(text, FirstFence(text) + 1, SecondFence(text) - 1)
BY DEF Fenced, FirstFence, SecondFence

(* The two fences exist when there are two.                                *)
LEMMA FirstTwoFences ==
  ASSUME NEW text \in Texts, ~ (Cardinality(Fences(text)) < 2)
  PROVE  /\ FirstFence(text) \in Fences(text)
         /\ SecondFence(text) \in Fences(text) \ {FirstFence(text)}
         /\ \A j \in Fences(text) : FirstFence(text) <= j
         /\ \A j \in Fences(text) \ {FirstFence(text)} : SecondFence(text) <= j
<1>1. /\ Len(text) \in Nat
      /\ Fences(text) \subseteq 1..Len(text)
  BY TextFacts DEF Fences
<1>2. IsFiniteSet(1..Len(text))
  BY <1>1, FS_Interval
<1>3. IsFiniteSet(Fences(text)) /\ Cardinality(Fences(text)) \in Nat
  BY <1>1, <1>2, FS_Subset, FS_CardinalityType
<1>4. Fences(text) # {}
  BY <1>3, FS_EmptySet
<1>5. \E m \in Fences(text) : \A j \in Fences(text) : m <= j
  BY <1>1, <1>4, LeastElement
<1>6. FirstFence(text) \in Fences(text) /\ \A j \in Fences(text) : FirstFence(text) <= j
  BY <1>5 DEF FirstFence
<1> DEFINE others == Fences(text) \ {FirstFence(text)}
<1>7. IsFiniteSet(others) /\ Cardinality(others) = Cardinality(Fences(text)) - 1
  BY <1>3, <1>6, FS_RemoveElement
<1>8. others # {}
  BY <1>3, <1>7, FS_EmptySet
<1>9. \E m \in others : \A j \in others : m <= j
  <2>1. others \subseteq 1..Len(text)
    BY <1>1
  <2> HIDE DEF others
  <2> QED
    BY <1>1, <1>8, <2>1, LeastElement
<1>10. SecondFence(text) \in others /\ \A j \in others : SecondFence(text) <= j
  BY <1>9 DEF SecondFence
<1> QED
  BY <1>6, <1>10

(* A sequence of length one.                                               *)
LEMMA OnlyElement ==
  ASSUME NEW S, NEW s \in Seq(S), Len(s) = 1
  PROVE  s = <<s[1]>>
OBVIOUS

(* A subsequence of length one.                                            *)
LEMMA OneElement ==
  ASSUME NEW S, NEW s \in Seq(S), NEW i \in 1..Len(s)
  PROVE  SubSeq(s, i, i) = <<s[i]>>
<1>1. SubSeq(s, i, i) \in Seq(S) /\ Len(SubSeq(s, i, i)) = 1
  OBVIOUS
<1>2. SubSeq(s, i, i)[1] = s[i]
  OBVIOUS
<1>3. SubSeq(s, i, i) = <<SubSeq(s, i, i)[1]>>
  BY <1>1, OnlyElement
<1> QED
  BY <1>2, <1>3

(* What is between the first two fences, when it is one chunk.             *)
LEMMA FencedChunk ==
  ASSUME NEW text \in Texts, Len(Fenced(text)) = 1
  PROVE  \E i \in DOMAIN text : Fenced(text) = <<text[i]>>
<1> DEFINE first  == FirstFence(text)
           second == SecondFence(text)
<1>1. /\ text \in Seq(Chunks)
      /\ Len(text) \in Nat
      /\ DOMAIN text = 1..Len(text)
  BY TextFacts
<1>2. ~ (Cardinality(Fences(text)) < 2)
  BY FencedIsBetween
<1>3. /\ first \in 1..Len(text) /\ second \in 1..Len(text)
      /\ first < second
  <2>1. Fences(text) \subseteq 1..Len(text)
    BY <1>1 DEF Fences
  <2> QED
    BY <1>2, <2>1, FirstTwoFences
<1>4. Fenced(text) = SubSeq(text, first + 1, second - 1)
  BY <1>2, FencedIsBetween
<1> HIDE DEF first, second
<1>5. second = first + 2
  <2>1. first \in Int /\ second \in Int
    BY <1>3
  <2>2. CASE first + 1 <= second - 1
    <3>1. Len(Fenced(text)) = second - 1 - (first + 1) + 1
      BY <1>1, <1>3, <1>4, <2>2
    <3>2. ASSUME NEW f \in Int, NEW s \in Int, s - 1 - (f + 1) + 1 = 1 PROVE s = f + 2
      BY <3>2
    <3> QED
      BY <2>1, <3>1, <3>2
  <2>3. CASE ~ (first + 1 <= second - 1)
    <3>1. Len(Fenced(text)) = 0
      BY <1>1, <1>3, <1>4, <2>3
    <3> QED
      BY <3>1
  <2> QED
    BY <2>2, <2>3
<1>6. first + 1 \in DOMAIN text
  BY <1>1, <1>3, <1>5
<1>7. SubSeq(text, first + 1, first + 1) = <<text[first + 1]>>
  BY <1>1, <1>6, OneElement
<1>8. second - 1 = first + 1
  BY <1>3, <1>5
<1> QED
  BY <1>4, <1>6, <1>7, <1>8

-----------------------------------------------------------------------------
(* Rows that are one chunk's: a whole array, an object, and, by the        *)
(* patterns, the array in an object and the only complete row of a cut one.*)
RowsOfAChunk(c, rows) ==
  \/ c.kind \in {"array", "list"} /\ rows = c.rows
  \/ c.kind = "object" /\ rows = <<Head(c.rows)>>
  \/ c.kind = "cut" /\ rows = c.rows /\ Len(c.rows) = 1

(* A candidate that is one chunk gives the rows of that chunk.             *)
LEMMA ParsedIsAChunk ==
  ASSUME NEW c, c.rows \in Seq(Rows), c.kind = "object" => c.rows # << >>,
         TryParse(<<c>>) # Nothing
  PROVE  RowsOfAChunk(c, TryParse(<<c>>))
<1>1. Len(<<c>>) = 1 /\ <<c>>[1] = c
  OBVIOUS
<1>2. CASE c.kind \in {"array", "list"}
  BY <1>1, <1>2 DEF TryParse, RowsOfAChunk
<1>3. CASE c.kind = "object"
  <2>1. TryParse(<<c>>) = <<c.rows[1]>>
    BY <1>1, <1>3 DEF TryParse
  <2>2. Head(c.rows) = c.rows[1]
    BY <1>3
  <2> QED
    BY <1>3, <2>1, <2>2 DEF RowsOfAChunk
<1>4. CASE c.kind \notin {"array", "list", "object"}
  BY <1>1, <1>4 DEF TryParse
<1> QED
  BY <1>2, <1>3, <1>4

(* A span of the array pattern that parses lies in one chunk: an array, or *)
(* an object with an array in it.                                          *)
LEMMA ArrayIsAChunk ==
  ASSUME NEW text \in Texts, ArrayIn(text) # Nothing
  PROVE  \E i \in DOMAIN text :
           \/ RowsOfAChunk(text[i], ArrayIn(text))
           \/ text[i].kind = "object" /\ ArrayIn(text) = Tail(text[i].rows)
<1> DEFINE found == {i \in Spanned(text, OpensArray, ClosesArray) : text[i].kind # "braces"}
           k     == CHOOSE i \in found : TRUE
<1>1. found # {} /\ ArrayIn(text) = IF text[k].kind = "array" THEN text[k].rows
                                    ELSE Tail(text[k].rows)
  BY DEF ArrayIn
<1>2. k \in found
  BY <1>1
<1> HIDE DEF k
<1>3. /\ k \in DOMAIN text
      /\ ClosesArray(text[k])
      /\ text[k].kind # "braces"
  BY <1>2 DEF Spanned
<1>4. text[k].kind \in {"array", "object"}
  BY <1>3 DEF ClosesArray, OpensArray
<1> QED
  BY <1>1, <1>3, <1>4 DEF RowsOfAChunk

(* So does one of the object pattern.                                      *)
LEMMA ObjectIsAChunk ==
  ASSUME NEW text \in Texts, ObjectIn(text) # Nothing
  PROVE  \E i \in DOMAIN text : RowsOfAChunk(text[i], ObjectIn(text))
<1> DEFINE found == {i \in Spanned(text, OpensObject, ClosesObject) :
                       \/ text[i].kind = "object"
                       \/ text[i].kind \in {"array", "cut"} /\ Len(text[i].rows) = 1}
           k     == CHOOSE i \in found : TRUE
<1>1. found # {} /\ ObjectIn(text) = <<text[k].rows[1]>>
  BY DEF ObjectIn
<1>2. k \in found
  BY <1>1
<1> HIDE DEF k
<1>3. /\ k \in DOMAIN text
      /\ \/ text[k].kind = "object"
         \/ text[k].kind \in {"array", "cut"} /\ Len(text[k].rows) = 1
  BY <1>2 DEF Spanned
<1>4. text[k].rows \in Seq(Rows) /\ (text[k].kind = "object" => text[k].rows # << >>)
  BY <1>3, TextFacts
<1> HIDE DEF found
<1>5. CASE text[k].kind = "object"
  <2>1. Head(text[k].rows) = text[k].rows[1]
    BY <1>4, <1>5
  <2> QED
    BY <1>1, <1>3, <1>5, <2>1 DEF RowsOfAChunk
<1>6. CASE text[k].kind \in {"array", "cut"} /\ Len(text[k].rows) = 1
  <2>1. <<text[k].rows[1]>> = text[k].rows
    BY <1>4, <1>6
  <2> QED
    BY <1>1, <1>3, <1>6, <2>1 DEF RowsOfAChunk
<1> QED
  BY <1>3, <1>5, <1>6

(* A document parses, to a list.                                           *)
LEMMA DocumentParses ==
  ASSUME NEW text \in Texts, NEW i \in DOMAIN text, IsDocument(text[i])
  PROVE  TryParse(<<text[i]>>) # Nothing
<1> DEFINE c == text[i]
<1>1. c.rows \in Seq(Rows) /\ (c.kind = "object" => c.rows # << >>)
  BY TextFacts
<1> HIDE DEF c
<1>2. Len(<<c>>) = 1 /\ <<c>>[1] = c
  OBVIOUS
<1>3. CASE c.kind \in {"array", "list"}
  <2>1. TryParse(<<c>>) = c.rows
    BY <1>2, <1>3 DEF TryParse
  <2> QED
    BY <1>1, <2>1, NothingIsNoList DEF c
<1>4. CASE c.kind = "object"
  <2>1. TryParse(<<c>>) = <<c.rows[1]>>
    BY <1>2, <1>4 DEF TryParse
  <2>2. <<c.rows[1]>> \in Seq(Rows)
    BY <1>1, <1>4
  <2> QED
    BY <2>1, <2>2, NothingIsNoList DEF c
<1> QED
  BY <1>3, <1>4 DEF IsDocument, c

(* Whatever extract_json finds is one chunk's; an object that is the whole *)
(* answer is not taken apart.                                              *)
LEMMA ExtractedIsAChunk ==
  ASSUME NEW text \in Texts, ExtractJson(text) # << >>
  PROVE  \E i \in DOMAIN text :
           \/ RowsOfAChunk(text[i], ExtractJson(text))
           \/ /\ text[i].kind = "object" /\ ExtractJson(text) = Tail(text[i].rows)
              /\ Len(text) > 1
<1>1. /\ text \in Seq(Chunks)
      /\ DOMAIN text = 1..Len(text)
      /\ \A i \in DOMAIN text :
           /\ text[i].rows \in Seq(Rows)
           /\ text[i].kind = "object" => text[i].rows # << >>
  BY TextFacts
<1>2. CASE TryParse(text) # Nothing
  <2>1. Len(text) = 1
    BY <1>2 DEF TryParse
  <2>2. text = <<text[1]>> /\ 1 \in DOMAIN text
    BY <1>1, <2>1
  <2>3. ExtractJson(text) = TryParse(<<text[1]>>) /\ TryParse(<<text[1]>>) # Nothing
    BY <1>2, <2>2, FirstThatParses
  <2> QED
    BY <1>1, <2>2, <2>3, ParsedIsAChunk
<1>3. CASE TryParse(text) = Nothing /\ TryParse(Fenced(text)) # Nothing
  <2>1. Len(Fenced(text)) = 1
    BY <1>3 DEF TryParse
  <2>2. PICK i \in DOMAIN text : Fenced(text) = <<text[i]>>
    BY <2>1, FencedChunk
  <2>3. ExtractJson(text) = TryParse(<<text[i]>>) /\ TryParse(<<text[i]>>) # Nothing
    BY <1>3, <2>2, FirstThatParses
  <2> QED
    BY <1>1, <2>3, ParsedIsAChunk
<1>4. CASE /\ TryParse(text) = Nothing /\ TryParse(Fenced(text)) = Nothing
           /\ ArrayIn(text) # Nothing
  <2>1. ExtractJson(text) = ArrayIn(text)
    BY <1>4, FirstThatParses
  <2>2. PICK i \in DOMAIN text :
          \/ RowsOfAChunk(text[i], ArrayIn(text))
          \/ text[i].kind = "object" /\ ArrayIn(text) = Tail(text[i].rows)
    BY <1>4, ArrayIsAChunk
  <2>3. text[i].kind = "object" => Len(text) > 1
    <3>1. SUFFICES ASSUME text[i].kind = "object", Len(text) = 1 PROVE FALSE
      BY <1>1
    <3>2. text = <<text[i]>>
      BY <1>1, <3>1
    <3>3. TryParse(<<text[i]>>) # Nothing
      BY <3>1, DocumentParses DEF IsDocument
    <3> QED
      BY <1>4, <3>2, <3>3
  <2> QED
    BY <2>1, <2>2, <2>3
<1>5. CASE /\ TryParse(text) = Nothing /\ TryParse(Fenced(text)) = Nothing
           /\ ArrayIn(text) = Nothing /\ ObjectIn(text) # Nothing
  <2>1. ExtractJson(text) = ObjectIn(text)
    BY <1>5, FirstThatParses
  <2> QED
    BY <1>5, <2>1, ObjectIsAChunk
<1>6. CASE /\ TryParse(text) = Nothing /\ TryParse(Fenced(text)) = Nothing
           /\ ArrayIn(text) = Nothing /\ ObjectIn(text) = Nothing
  BY <1>6, FirstThatParses
<1> QED
  BY <1>2, <1>3, <1>4, <1>5, <1>6

-----------------------------------------------------------------------------
(* Alone, it is the first candidate.                                       *)
LEMMA AloneIsRecovered ==
  ASSUME NEW text \in Texts, NEW i \in DOMAIN text, IsDocument(text[i]), Len(text) = 1
  PROVE  ExtractJson(text) = TryParse(<<text[i]>>)
<1>1. text \in Seq(Chunks) /\ DOMAIN text = 1..Len(text)
  BY TextFacts
<1>2. i = 1 /\ text = <<text[1]>>
  BY <1>1, OnlyElement
<1>3. TryParse(<<text[i]>>) # Nothing
  BY DocumentParses
<1> QED
  BY <1>2, <1>3, FirstThatParses

(* Between the first two fences, it is all there is.                       *)
LEMMA FencedIsRecovered ==
  ASSUME NEW text \in Texts, NEW i \in DOMAIN text, IsDocument(text[i]),
         {i - 1, i + 1} \subseteq Fences(text), \A f \in Fences(text) : f >= i - 1
  PROVE  ExtractJson(text) = TryParse(<<text[i]>>)
<1>1. /\ text \in Seq(Chunks)
      /\ Len(text) \in Nat
      /\ DOMAIN text = 1..Len(text)
  BY TextFacts
<1>2. Fences(text) \subseteq 1..Len(text) /\ i \in 1..Len(text) /\ i \in Int
  BY <1>1 DEF Fences
<1>3. ~ (Cardinality(Fences(text)) < 2)
  <2>1. IsFiniteSet({i - 1}) /\ Cardinality({i - 1}) = 1
    BY FS_Singleton
  <2>2. Cardinality({i - 1} \union {i + 1}) = 2
    <3>1. i + 1 \notin {i - 1}
      BY <1>2
    <3>2. Cardinality({i - 1} \union {i + 1}) = Cardinality({i - 1}) + 1
      BY <2>1, <3>1, FS_AddElement
    <3> QED
      BY <2>1, <3>2
  <2>3. IsFiniteSet(Fences(text)) /\ Cardinality(Fences(text)) \in Nat
    <3>1. IsFiniteSet(1..Len(text))
      BY <1>1, FS_Interval
    <3> QED
      BY <1>2, <3>1, FS_Subset, FS_CardinalityType
  <2>4. {i - 1} \union {i + 1} \subseteq Fences(text)
    OBVIOUS
  <2>5. Cardinality({i - 1} \union {i + 1}) <= Cardinality(Fences(text))
    BY <2>3, <2>4, FS_Subset
  <2> QED
    BY <2>2, <2>3, <2>5
<1>4. FirstFence(text) = i - 1
  <2>1. FirstFence(text) \in Fences(text) /\ FirstFence(text) <= i - 1
    BY <1>3, FirstTwoFences
  <2> QED
    BY <1>2, <2>1
<1>5. i \notin Fences(text)
  BY DEF Fences, IsDocument
<1>6. SecondFence(text) = i + 1
  <2>1. SecondFence(text) \in Fences(text) \ {i - 1} /\ SecondFence(text) <= i + 1
    BY <1>2, <1>3, <1>4, FirstTwoFences
  <2>2. SecondFence(text) \in Int /\ SecondFence(text) >= i - 1
    BY <1>2, <2>1
  <2> QED
    BY <1>2, <1>5, <2>1, <2>2
<1>7. Fenced(text) = <<text[i]>>
  <2>1. Fenced(text) = SubSeq(text, (i - 1) + 1, (i + 1) - 1)
    BY <1>3, <1>4, <1>6, FencedIsBetween
  <2>2. (i - 1) + 1 = i /\ (i + 1) - 1 = i
    BY <1>2
  <2> QED
    BY <1>1, <1>2, <2>1, <2>2, OneElement
<1>8. TryParse(text) = Nothing
  <2>1. Len(text) # 1
    BY <1>2
  <2> QED
    BY <2>1 DEF TryParse
<1> QED
  BY <1>7, <1>8, DocumentParses, FirstThatParses

(* Among prose, the brackets are the document's: the regular expressions   *)
(* span it and nothing else.                                               *)
LEMMA AmongWordsIsRecovered ==
  ASSUME NEW text \in Texts, NEW i \in DOMAIN text,
         \A j \in DOMAIN text \ {i} : text[j].kind \in {"words", "scalar"},
         text[i].kind = "array" \/ (text[i].kind = "object" /\ Len(text[i].rows) = 1)
  PROVE  ExtractJson(text) = TryParse(<<text[i]>>)
<1> DEFINE c == text[i]
<1>1. /\ Len(text) \in Nat
      /\ DOMAIN text = 1..Len(text)
      /\ c.rows \in Seq(Rows)
      /\ text \in Seq(Chunks)
  BY TextFacts
<1>2. IsDocument(text[i])
  BY DEF IsDocument
<1>3. TryParse(<<c>>) = IF c.kind = "array" THEN c.rows ELSE <<c.rows[1]>>
  <2>1. Len(<<c>>) = 1 /\ <<c>>[1] = c
    OBVIOUS
  <2> QED
    BY <2>1 DEF TryParse
<1>4. CASE Len(text) = 1
  BY <1>2, <1>4, AloneIsRecovered
<1>5. CASE Len(text) # 1
  <2>1. TryParse(text) = Nothing
    BY <1>5 DEF TryParse
  <2>2. Fences(text) = {}
    BY DEF Fences
  <2>3. TryParse(Fenced(text)) = Nothing
    <3>1. Cardinality(Fences(text)) = 0
      BY <2>2, FS_EmptySet
    <3>2. Fenced(text) = << >>
      BY <3>1, FencedIsBetween
    <3> QED
      BY <3>2 DEF TryParse
  <2>4. \A j \in DOMAIN text :
          /\ OpensArray(text[j]) => j = i
          /\ ClosesArray(text[j]) => j = i
          /\ OpensObject(text[j]) => j = i
          /\ ClosesObject(text[j]) => j = i
    <3>1. \A j \in DOMAIN text : OpensObject(text[j]) => j = i
      BY DEF OpensObject, OpensArray
    <3> QED
      BY <3>1 DEF ClosesObject, ClosesArray, OpensObject
  <2>5. i \in Int
    BY <1>1
  <2>6. CASE c.kind = "array" /\ c.rows # << >>
    <3>1. OpensArray(c) /\ ClosesArray(c)
      BY <2>6 DEF OpensArray, ClosesArray
    <3>2. Spanned(text, OpensArray, ClosesArray) = {i}
      BY <2>4, <2>5, <3>1 DEF Spanned
    <3>3. {k \in Spanned(text, OpensArray, ClosesArray) : text[k].kind # "braces"} = {i}
      BY <2>6, <3>2
    <3>4. ArrayIn(text) = c.rows
      BY <2>6, <3>3 DEF ArrayIn
    <3> QED
      BY <1>1, <1>3, <2>1, <2>3, <2>6, <3>4, NothingIsNoList, FirstThatParses
  <2>7. CASE ~ (c.kind = "array" /\ c.rows # << >>)
    <3>1. ~ OpensArray(c)
      <4>1. CASE c.kind = "array"
        BY <2>7, <4>1 DEF OpensArray
      <4>2. CASE c.kind = "object" /\ Len(c.rows) = 1
        BY <4>2 DEF OpensArray
      <4> QED
        BY <4>1, <4>2
    <3>2. Spanned(text, OpensArray, ClosesArray) = {}
      BY <2>4, <3>1 DEF Spanned
    <3>3. ArrayIn(text) = Nothing
      BY <3>2 DEF ArrayIn
    <3>4. CASE c.kind = "array"
      <4>1. ~ OpensObject(c)
        BY <3>1, <3>4 DEF OpensObject
      <4>2. Spanned(text, OpensObject, ClosesObject) = {}
        BY <2>4, <4>1 DEF Spanned
      <4>3. ObjectIn(text) = Nothing
        BY <4>2 DEF ObjectIn
      <4> QED
        BY <1>3, <2>1, <2>3, <2>7, <3>3, <3>4, <4>3, FirstThatParses
    <3>5. CASE c.kind = "object"
      <4>1. OpensObject(c) /\ ClosesObject(c)
        BY <3>5 DEF OpensObject, ClosesObject
      <4>2. Spanned(text, OpensObject, ClosesObject) = {i}
        BY <2>4, <2>5, <4>1 DEF Spanned
      <4>3. ObjectIn(text) = <<c.rows[1]>>
        BY <3>5, <4>2 DEF ObjectIn
      <4>4. TryParse(<<c>>) # Nothing
        BY <1>2, DocumentParses
      <4> QED
        BY <1>3, <2>1, <2>3, <3>3, <3>5, <4>3, <4>4, FirstThatParses
    <3> QED
      BY <3>4, <3>5
  <2> QED
    BY <2>6, <2>7
<1> QED
  BY <1>4, <1>5

-----------------------------------------------------------------------------
(* What is left of the pages after cleaning is what is printed on them.    *)
LEMMA PrintIsExtracted ==
  ASSUME NEW pages, NEW ocr
  PROVE  CleanRawText(ExtractText(pages, ocr)) =
           {<<p, "legible">> : p \in {q \in DOMAIN pages : pages[q].text = "legible"}}
<1> DEFINE parts(p) == IF pages[p].text \in {"legible", "blank"} THEN {<<p, pages[p].text>>}
                       ELSE IF ocr = "on" THEN OcrPage(p, pages[p]) ELSE {}
<1>1. ExtractText(pages, ocr) = UNION {parts(p) : p \in DOMAIN pages}
  BY DEF ExtractText
<1>2. ASSUME NEW p
      PROVE  parts(p) = IF pages[p].text \in {"legible", "blank"} THEN {<<p, pages[p].text>>}
                        ELSE {}
  BY DEF OcrPage
<1>3. ASSUME NEW part
      PROVE  /\ part \in ExtractText(pages, ocr)
                  <=> \E p \in DOMAIN pages :
                        /\ pages[p].text \in {"legible", "blank"}
                        /\ part = <<p, pages[p].text>>
  <2> HIDE DEF parts
  <2>1. part \in ExtractText(pages, ocr) <=> \E p \in DOMAIN pages : part \in parts(p)
    BY <1>1
  <2> QED
    BY <1>2, <2>1
<1>4. ASSUME NEW part
      PROVE  part \in CleanRawText(ExtractText(pages, ocr))
                <=> \E p \in DOMAIN pages :
                      pages[p].text = "legible" /\ part = <<p, "legible">>
  <2>1. part \in CleanRawText(ExtractText(pages, ocr))
          <=> part \in ExtractText(pages, ocr) /\ part[2] # "blank"
    BY DEF CleanRawText
  <2> QED
    BY <1>3, <2>1
<1> QED
  BY <1>4

(* load_invoice gives all of the print, or an error and no text.           *)
LEMMA LoadedText ==
  ASSUME NEW file, NEW ocr
  PROVE  LET readable == file.opens /\ \A p \in DOMAIN file.pages : ~PageRaises(file.pages[p], ocr)
             print == {<<p, "legible">> :
                        p \in {q \in DOMAIN file.pages : file.pages[q].text = "legible"}}
         IN  /\ readable => LoadInvoice(file, ocr).raw_pdf_text = print
             /\ ~readable => LoadInvoice(file, ocr).raw_pdf_text = {}
             /\ LoadInvoice(file, ocr).load_error = (LoadInvoice(file, ocr).raw_pdf_text = {})
<1> DEFINE readable == file.opens /\ \A p \in DOMAIN file.pages : ~PageRaises(file.pages[p], ocr)
           text == IF readable THEN CleanRawText(ExtractText(file.pages, ocr)) ELSE {}
<1>1. LoadInvoice(file, ocr) = [raw_pdf_text |-> text, load_error |-> text = {}]
  BY DEF LoadInvoice
<1>2. CleanRawText(ExtractText(file.pages, ocr)) =
        {<<p, "legible">> : p \in {q \in DOMAIN file.pages : file.pages[q].text = "legible"}}
  BY PrintIsExtracted
<1>3. LoadInvoice(file, ocr).raw_pdf_text = text /\ LoadInvoice(file, ocr).load_error = (text = {})
  <2> HIDE DEF text
  <2> QED
    BY <1>1
<1> QED
  BY <1>2, <1>3

-----------------------------------------------------------------------------
(* A batch that starts runs with the configuration it was given.           *)
LEMMA StartsAsConfigured ==
  ASSUME NEW config, StartUp(config) # Raises
  PROVE  /\ config # Raises
         /\ StartUp(config).model = config.provider
         /\ StartUp(config).branch = config.write_mode
         /\ StartUp(config).config = config
<1>1. /\ config # Raises /\ IsValid(config)
      /\ BuildChatModel(config) # Raises
      /\ StartUp(config) = [model  |-> BuildChatModel(config),
                            branch |-> WriteBranch(config), config |-> config]
  BY DEF StartUp
<1>2. BuildChatModel(config) = config.provider
  BY <1>1 DEF BuildChatModel
<1>3. WriteBranch(config) = config.write_mode
  BY <1>1 DEF WriteBranch, IsValid
<1> QED
  BY <1>1, <1>2, <1>3

(* from_env takes each name that is set, and its default else.             *)
LEMMA EnvironmentTakesEffect ==
  ASSUME NEW env, FromEnv(env) # Raises
  PROVE  /\ FromEnv(env).provider = GetEnv(env, "LLM_PROVIDER", DefaultConfig.provider)
         /\ FromEnv(env).write_mode = GetEnv(env, "WRITE_MODE", DefaultConfig.write_mode)
         /\ FromEnv(env).catalog = GetEnv(env, "CATALOG", DefaultConfig.catalog)
<1>1. \E flag, workers :
        FromEnv(env) = [ provider     |-> GetEnv(env, "LLM_PROVIDER", "databricks"),
                         enable_cache |-> flag,
                         catalog      |-> GetEnv(env, "CATALOG", "finance"),
                         write_mode   |-> GetEnv(env, "WRITE_MODE", "append"),
                         workers      |-> workers ]
  BY DEF FromEnv
<1> QED
  BY <1>1 DEF DefaultConfig

(* The notebook takes what has a widget, and the default else.             *)
LEMMA WidgetsTakeEffect ==
  ASSUME NEW w, FromWidgets(w) # Raises
  PROVE  /\ FromWidgets(w).provider = DefaultConfig.provider
         /\ FromWidgets(w).write_mode = w["WRITE_MODE"]
         /\ FromWidgets(w).catalog = w["CATALOG"]
BY DEF FromWidgets, DefaultConfig

(* Nothing set: from_env repeats the defaults of the dataclasses, and they *)
(* are valid.                                                              *)
LEMMA DefaultsStart ==
  ASSUME NEW env, DOMAIN env = {}
  PROVE  /\ StartUp(FromEnv(env)) # Raises
         /\ StartUp(FromEnv(env)).config = DefaultConfig
<1>1. IntOf["8"] = 8 /\ LowerOf["true"] = "true" /\ 8 # Raises
  BY ReadingAssumption, Zenon
<1>2. /\ "databricks" # Raises
      /\ DefaultConfig # Raises
      /\ [model |-> "databricks", branch |-> "append", config |-> DefaultConfig] # Raises
  BY ReadingAssumption, Zenon
<1>3. \A name, default : GetEnv(env, name, default) = default
  BY DEF GetEnv
<1>4. FromEnv(env) = DefaultConfig
  <2>1. /\ IntOf[GetEnv(env, "MAX_CONCURRENT_INVOICES", "8")] = 8
        /\ LowerOf[GetEnv(env, "LLM_ENABLE_CACHE", "true")] = "true"
    BY <1>1, <1>3
  <2>2. FromEnv(env) =
          [ provider     |-> GetEnv(env, "LLM_PROVIDER", "databricks"),
            enable_cache |-> LowerOf[GetEnv(env, "LLM_ENABLE_CACHE", "true")] = "true",
            catalog      |-> GetEnv(env, "CATALOG", "finance"),
            write_mode   |-> GetEnv(env, "WRITE_MODE", "append"),
            workers      |-> 8 ]
    BY <1>1, <2>1, Zenon DEF FromEnv
  <2>3. /\ GetEnv(env, "LLM_PROVIDER", "databricks") = "databricks"
        /\ GetEnv(env, "CATALOG", "finance") = "finance"
        /\ GetEnv(env, "WRITE_MODE", "append") = "append"
    BY <1>3
  <2>4. (LowerOf[GetEnv(env, "LLM_ENABLE_CACHE", "true")] = "true") = TRUE
    BY <2>1
  <2> QED
    BY <2>2, <2>3, <2>4, Zenon DEF DefaultConfig
<1>5. /\ IsValid(DefaultConfig)
      /\ BuildChatModel(DefaultConfig) = "databricks"
      /\ WriteBranch(DefaultConfig) = "append"
  BY DEF IsValid, BuildChatModel, Builders, WriteBranch, DefaultConfig
<1>6. StartUp(DefaultConfig) =
        [model |-> "databricks", branch |-> "append", config |-> DefaultConfig]
  BY <1>2, <1>5, Zenon DEF StartUp
<1>7. StartUp(DefaultConfig).config = DefaultConfig
  BY <1>6
<1> QED
  BY <1>2, <1>4, <1>6, <1>7, Zenon

-----------------------------------------------------------------------------
(* What has been read is what the reader makes of the input.               *)
ReadingInv ==
  /\ \/ input.kind = "answer" /\ input.text \in Texts
     \/ input.kind = "pdf"
     \/ input.kind = "environment"
     \/ input.kind = "widgets" /\ DOMAIN input.names = WidgetNames
  /\ outcome # Unread =>
       /\ input.kind = "answer" => outcome = ExtractJson(input.text)
       /\ input.kind = "pdf" => outcome = LoadInvoice(input.file, input.ocr)
       /\ input.kind = "environment" => outcome = StartUp(FromEnv(input.names))
       /\ input.kind = "widgets" => outcome = StartUp(FromWidgets(input.names))

(* Each input is read once, by the reader of its kind.                     *)
LEMMA ReadingInvHolds == Spec => []ReadingInv
<1>1. Init => ReadingInv
  <2> SUFFICES ASSUME Init PROVE ReadingInv
    OBVIOUS
  <2>1. CASE \E text \in Texts : input = [kind |-> "answer", text |-> text]
    BY <2>1 DEF Init, ReadingInv
  <2>2. CASE \E file \in Files, ocr \in {"on", "off", "missing"} :
               input = [kind |-> "pdf", file |-> file, ocr |-> ocr]
    BY <2>2 DEF Init, ReadingInv
  <2>3. CASE \E env \in Environments : input = [kind |-> "environment", names |-> env]
    BY <2>3 DEF Init, ReadingInv
  <2>4. CASE \E w \in Widgets : input = [kind |-> "widgets", names |-> w]
    BY <2>4, ReadingAssumption DEF Init, ReadingInv
  <2> QED
    BY <2>1, <2>2, <2>3, <2>4 DEF Init
<1>2. ReadingInv /\ [Next]_vars => ReadingInv'
  <2> SUFFICES ASSUME ReadingInv, [Next]_vars PROVE ReadingInv'
    OBVIOUS
  <2>1. CASE ReadAnswer
    BY <2>1 DEF ReadingInv, ReadAnswer, Read
  <2>2. CASE ReadPdf
    BY <2>2 DEF ReadingInv, ReadPdf, Read
  <2>3. CASE ReadEnvironment
    BY <2>3 DEF ReadingInv, ReadEnvironment, Read
  <2>4. CASE ReadWidgets
    BY <2>4 DEF ReadingInv, ReadWidgets, Read
  <2>5. CASE UNCHANGED vars
    BY <2>5 DEF ReadingInv, vars
  <2> QED
    BY <2>1, <2>2, <2>3, <2>4, <2>5 DEF Next
<1> QED
  BY <1>1, <1>2, PTL DEF Spec

(* An answer that is one document, has one alone between its first two     *)
(* fences, or has one among words, is read by extract_json as that         *)
(* document, however long the answer is.                                   *)
THEOREM OneDocumentIsRecoveredHolds == Spec => []OneDocumentIsRecovered
<1>1. ReadingInv => OneDocumentIsRecovered
  <2> SUFFICES ASSUME ReadingInv, Was("answer") PROVE OneDocumentIsRecovered
    BY DEF OneDocumentIsRecovered
  <2>1. input.text \in Texts /\ outcome = ExtractJson(input.text)
    BY DEF ReadingInv, Was
  <2>2. \A i \in DOMAIN input.text :
          IsDocument(input.text[i]) /\ Len(input.text) = 1 =>
            outcome = TryParse(<<input.text[i]>>)
    BY <2>1, AloneIsRecovered
  <2>3. \A i \in DOMAIN input.text :
          /\ IsDocument(input.text[i])
          /\ {i - 1, i + 1} \subseteq Fences(input.text)
          /\ \A f \in Fences(input.text) : f >= i - 1
          => outcome = TryParse(<<input.text[i]>>)
    BY <2>1, FencedIsRecovered
  <2>4. \A i \in DOMAIN input.text :
          /\ \A j \in DOMAIN input.text \ {i} : input.text[j].kind \in {"words", "scalar"}
          /\ \/ input.text[i].kind = "array"
             \/ input.text[i].kind = "object" /\ Len(input.text[i].rows) = 1
          => outcome = TryParse(<<input.text[i]>>)
    BY <2>1, AmongWordsIsRecovered
  <2> QED
    BY <2>2, <2>3, <2>4 DEF OneDocumentIsRecovered
<1> QED
  BY <1>1, ReadingInvHolds, PTL

(* The rows that extract_json returns are those of one chunk of the answer,*)
(* all of them: never rows of two, never some of several complete ones.    *)
THEOREM RowsOfOneDocumentHolds == Spec => []RowsOfOneDocument
<1>1. ReadingInv => RowsOfOneDocument
  <2> SUFFICES ASSUME ReadingInv, Was("answer"), outcome # << >>
               PROVE  RowsOfOneDocument
    BY DEF RowsOfOneDocument
  <2>1. input.text \in Texts /\ outcome = ExtractJson(input.text)
    BY DEF ReadingInv, Was
  <2>2. \E i \in DOMAIN input.text :
          \/ RowsOfAChunk(input.text[i], outcome)
          \/ /\ input.text[i].kind = "object" /\ outcome = Tail(input.text[i].rows)
             /\ Len(input.text) > 1
    BY <2>1, ExtractedIsAChunk
  <2> QED
    BY <2>2 DEF RowsOfOneDocument, RowsOfAChunk
<1> QED
  BY <1>1, ReadingInvHolds, PTL

(* load_invoice gives every printed page, or an error and no text at all;  *)
(* it gives an error for a file with print only when the file or one of    *)
(* its pages raises.                                                       *)
THEOREM WholePrintOrNoneHolds == Spec => []WholePrintOrNone
<1>1. ReadingInv => WholePrintOrNone
  <2> SUFFICES ASSUME ReadingInv, Was("pdf") PROVE WholePrintOrNone
    BY DEF WholePrintOrNone
  <2>1. outcome = LoadInvoice(input.file, input.ocr)
    BY DEF ReadingInv, Was
  <2> DEFINE pages    == input.file.pages
             printed  == {p \in DOMAIN pages : pages[p].text = "legible"}
             print    == {<<p, "legible">> : p \in printed}
             readable == /\ input.file.opens
                         /\ \A p \in DOMAIN pages : ~PageRaises(pages[p], input.ocr)
  <2>2. /\ readable => outcome.raw_pdf_text = print
        /\ ~readable => outcome.raw_pdf_text = {}
        /\ outcome.load_error = (outcome.raw_pdf_text = {})
    BY <2>1, LoadedText
  <2>3. ASSUME ~outcome.load_error
        PROVE  /\ input.file.opens /\ \A p \in DOMAIN pages : pages[p].text # "raises"
               /\ outcome.raw_pdf_text = print
    <3>1. readable
      BY <2>2, <2>3
    <3> QED
      BY <2>2, <3>1 DEF PageRaises
  <2>4. ASSUME input.file.opens, printed # {},
               \A p \in DOMAIN pages : pages[p].text # "raises" /\ pages[p].images # "raises"
        PROVE  ~outcome.load_error
    <3>1. readable
      BY <2>4 DEF PageRaises
    <3>2. print # {}
      BY <2>4
    <3> QED
      BY <2>2, <3>1, <3>2
  <2> QED
    BY <2>2, <2>3, <2>4 DEF WholePrintOrNone
<1> QED
  BY <1>1, ReadingInvHolds, PTL

(* The batch runs with the provider, the write mode and the catalog that   *)
(* the environment or the widgets ask for, the defaults when they do not,  *)
(* or it does not start.                                                   *)
THEOREM SettingsTakeEffectHolds == Spec => []SettingsTakeEffect
<1>1. ReadingInv => SettingsTakeEffect
  <2> SUFFICES ASSUME ReadingInv, Was("environment") \/ Was("widgets")
               PROVE  SettingsTakeEffect
    BY DEF SettingsTakeEffect
  <2>1. CASE Was("environment")
    <3>1. outcome = StartUp(FromEnv(input.names))
      BY <2>1 DEF ReadingInv, Was
    <3>2. outcome # Raises =>
            /\ outcome.model = GetEnv(input.names, "LLM_PROVIDER", DefaultConfig.provider)
            /\ outcome.branch = GetEnv(input.names, "WRITE_MODE", DefaultConfig.write_mode)
            /\ outcome.config.catalog = GetEnv(input.names, "CATALOG", DefaultConfig.catalog)
      BY <3>1, StartsAsConfigured, EnvironmentTakesEffect
    <3>3. DOMAIN input.names = {} => outcome # Raises /\ outcome.config = DefaultConfig
      BY <3>1, DefaultsStart
    <3> QED
      BY <3>2, <3>3 DEF SettingsTakeEffect, GetEnv
  <2>2. CASE Was("widgets")
    <3>1. outcome = StartUp(FromWidgets(input.names)) /\ DOMAIN input.names = WidgetNames
      BY <2>2 DEF ReadingInv, Was
    <3>2. outcome # Raises =>
            /\ outcome.model = DefaultConfig.provider
            /\ outcome.branch = input.names["WRITE_MODE"]
            /\ outcome.config.catalog = input.names["CATALOG"]
      BY <3>1, StartsAsConfigured, WidgetsTakeEffect
    <3>3. /\ "LLM_PROVIDER" \notin DOMAIN input.names
          /\ {"WRITE_MODE", "CATALOG"} \subseteq DOMAIN input.names
          /\ DOMAIN input.names # {}
      BY <3>1 DEF WidgetNames
    <3> QED
      BY <3>2, <3>3 DEF SettingsTakeEffect
  <2> QED
    BY <2>1, <2>2
<1> QED
  BY <1>1, ReadingInvHolds, PTL
=============================================================================
