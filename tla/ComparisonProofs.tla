-------------------------- MODULE ComparisonProofs --------------------------
(***************************************************************************)
(* Theorems about OutputComparison for every choice of rows, longest       *)
(* output, normalisation of strings and string order.                      *)
(*                                                                         *)
(* Sorted is shown to be a permutation whose keys do not decrease; two     *)
(* such arrangements of the same keys agree place by place.                *)
(***************************************************************************)
EXTENDS OutputComparison, FiniteSetTheorems, TLAPS

-----------------------------------------------------------------------------
(* Arithmetic of finite intervals.                                         *)

(* An injection of 1..n into itself takes every value.                     *)
LEMMA InjectionIsOnto ==
  ASSUME NEW n \in Nat, NEW f \in Injection(1..n, 1..n)
  PROVE  \A q \in 1..n : \E p \in 1..n : f[p] = q
<1>1. IsFiniteSet(1..n)
  BY FS_Interval
<1>2. f \in Surjection(1..n, 1..n)
  BY <1>1, FS_Injection
<1> QED
  BY <1>2 DEF Surjection

(* No injection squeezes 1..k into 1..(k - 1).                             *)
LEMMA NoSqueeze ==
  ASSUME NEW k \in Nat, k >= 1, NEW f \in Injection(1..k, 1..(k - 1))
  PROVE  FALSE
<1>1. IsFiniteSet(1..(k - 1)) /\ Cardinality(1..(k - 1)) = k - 1 /\ Cardinality(1..k) = k
  BY FS_Interval
<1>2. Cardinality(1..k) <= Cardinality(1..(k - 1))
  BY <1>1, FS_Injection
<1> QED
  BY <1>1, <1>2

(* When every key of a nondecreasing a occurs in a nondecreasing b, at a   *)
(* place of its own, a is nowhere below b.                                 *)
LEMMA RearrangedIsNotBelow ==
  ASSUME NEW n \in Nat,
         NEW a \in [1..n -> Int], NEW b \in [1..n -> Int],
         \A p, q \in 1..n : p <= q => a[p] <= a[q],
         \A p, q \in 1..n : p <= q => b[p] <= b[q],
         NEW h \in Injection(1..n, 1..n),
         \A p \in 1..n : a[p] = b[h[p]],
         NEW k \in 1..n
  PROVE  b[k] <= a[k]
<1>1. SUFFICES ASSUME a[k] < b[k] PROVE FALSE
  OBVIOUS
<1>2. /\ h \in [1..n -> 1..n]
      /\ \A i, j \in 1..n : h[i] = h[j] => i = j
  BY DEF Injection, IsInjective
<1>3. ASSUME NEW j \in 1..k
      PROVE  h[j] \in 1..(k - 1)
  <2>1. j \in 1..n /\ h[j] \in 1..n
    BY <1>2
  <2>2. b[h[j]] < b[k]
    BY <1>1, <2>1
  <2>3. ~ (k <= h[j])
    BY <2>1, <2>2
  <2> QED
    BY <2>1, <2>3
<1> DEFINE f == [j \in 1..k |-> h[j]]
<1>4. f \in Injection(1..k, 1..(k - 1))
  <2>1. f \in [1..k -> 1..(k - 1)]
    BY <1>3
  <2>2. ASSUME NEW i \in 1..k, NEW j \in 1..k, f[i] = f[j]
        PROVE  i = j
    BY <1>2, <2>2
  <2> QED
    BY <2>1, <2>2 DEF Injection, IsInjective
<1> HIDE DEF f
<1>5. k \in Nat /\ k >= 1
  OBVIOUS
<1> QED
  BY <1>4, <1>5, NoSqueeze

(* The inverse of an injection of 1..n into itself.                        *)
LEMMA InverseOfInjection ==
  ASSUME NEW n \in Nat, NEW f \in Injection(1..n, 1..n)
  PROVE  \E g \in Injection(1..n, 1..n) : \A q \in 1..n : f[g[q]] = q /\ g[f[q]] = q
<1>1. /\ f \in [1..n -> 1..n]
      /\ \A i, j \in 1..n : f[i] = f[j] => i = j
  BY DEF Injection, IsInjective
<1>2. \A q \in 1..n : \E p \in 1..n : f[p] = q
  BY InjectionIsOnto
<1> DEFINE g == [q \in 1..n |-> CHOOSE p \in 1..n : f[p] = q]
<1>3. \A q \in 1..n : g[q] \in 1..n /\ f[g[q]] = q
  BY <1>2
<1>4. g \in [1..n -> 1..n]
  BY <1>3
<1> HIDE DEF g
<1>5. \A q \in 1..n : g[f[q]] = q
  BY <1>1, <1>3
<1>6. g \in Injection(1..n, 1..n)
  BY <1>3, <1>4 DEF Injection, IsInjective
<1> QED
  BY <1>3, <1>5, <1>6

(* Two nondecreasing arrangements of the same keys are equal.              *)
LEMMA SameArrangement ==
  ASSUME NEW n \in Nat,
         NEW a \in [1..n -> Int], NEW b \in [1..n -> Int],
         \A p, q \in 1..n : p <= q => a[p] <= a[q],
         \A p, q \in 1..n : p <= q => b[p] <= b[q],
         NEW h \in Injection(1..n, 1..n),
         \A p \in 1..n : a[p] = b[h[p]],
         NEW k \in 1..n
  PROVE  a[k] = b[k]
<1>1. b[k] <= a[k]
  BY RearrangedIsNotBelow
<1>2. PICK g \in Injection(1..n, 1..n) : \A q \in 1..n : h[g[q]] = q /\ g[h[q]] = q
  BY InverseOfInjection
<1>3. \A q \in 1..n : g[q] \in 1..n
  BY DEF Injection
<1>4. \A q \in 1..n : b[q] = a[g[q]]
  BY <1>2, <1>3
<1>5. a[k] <= b[k]
  BY <1>4, RearrangedIsNotBelow
<1> QED
  BY <1>1, <1>5

-----------------------------------------------------------------------------
(* What sorted(rows, key=_sort_key) returns.                               *)
Precedes(rows, i, j) ==
  \/ SortKey(rows[i]) < SortKey(rows[j])
  \/ SortKey(rows[i]) = SortKey(rows[j]) /\ i < j

Before(rows, i) == {j \in DOMAIN rows : Precedes(rows, j, i)}
Place(rows, i) == 1 + Cardinality(Before(rows, i))
RowAt(rows, p) == CHOOSE i \in DOMAIN rows : Place(rows, i) = p

(* Sorted puts at place p the row whose place is p.                        *)
LEMMA SortedByPlace ==
  ASSUME NEW rows
  PROVE  Sorted(rows) = [p \in DOMAIN rows |-> rows[RowAt(rows, p)]]
BY DEF Sorted, RowAt, Place, Before, Precedes

(* A row has at most n - 1 rows before it, and more than the rows before.  *)
LEMMA PlaceOrder ==
  ASSUME NEW n \in Nat, NEW rows, DOMAIN rows = 1..n,
         \A i \in 1..n : SortKey(rows[i]) \in Int
  PROVE  /\ \A i \in 1..n : Place(rows, i) \in 1..n
         /\ \A i, j \in 1..n : Precedes(rows, i, j) => Place(rows, i) < Place(rows, j)
<1>1. IsFiniteSet(1..n) /\ Cardinality(1..n) = n
  BY FS_Interval
<1>2. \A i \in 1..n : Before(rows, i) \subseteq 1..n /\ i \notin Before(rows, i)
  BY DEF Before, Precedes
<1>3. \A i \in 1..n : IsFiniteSet(Before(rows, i)) /\ Cardinality(Before(rows, i)) \in Nat
  BY <1>1, <1>2, FS_Subset, FS_CardinalityType
<1>4. ASSUME NEW i \in 1..n
      PROVE  Place(rows, i) \in 1..n
  <2>1. Before(rows, i) # 1..n
    BY <1>2
  <2>2. Cardinality(Before(rows, i)) < Cardinality(1..n)
    BY <1>1, <1>2, <2>1, FS_Subset, FS_CardinalityType
  <2> QED
    BY <1>1, <1>3, <2>2 DEF Place
<1>5. ASSUME NEW i \in 1..n, NEW j \in 1..n, Precedes(rows, i, j)
      PROVE  Place(rows, i) < Place(rows, j)
  <2>1. Before(rows, i) \subseteq Before(rows, j)
    BY <1>5 DEF Before, Precedes
  <2>2. i \in Before(rows, j)
    BY <1>5 DEF Before
  <2>3. Before(rows, i) # Before(rows, j)
    BY <1>2, <2>2
  <2>4. Cardinality(Before(rows, i)) < Cardinality(Before(rows, j))
    <3>1. IsFiniteSet(Before(rows, j))
      BY <1>3
    <3>2. /\ Cardinality(Before(rows, i)) <= Cardinality(Before(rows, j))
          /\ Cardinality(Before(rows, j)) # Cardinality(Before(rows, i))
      BY <2>1, <2>3, <3>1, FS_Subset
    <3> QED
      BY <1>3, <3>2
  <2> QED
    BY <1>3, <2>4 DEF Place
<1> QED
  BY <1>4, <1>5

(* Sorting permutes the rows, and leaves their keys in nondecreasing       *)
(* order.                                                                  *)
LEMMA SortedIsAPermutation ==
  ASSUME NEW n \in Nat, NEW rows, DOMAIN rows = 1..n,
         \A i \in 1..n : SortKey(rows[i]) \in Int
  PROVE  \E at \in Injection(1..n, 1..n) :
           /\ DOMAIN Sorted(rows) = 1..n
           /\ \A p \in 1..n : Sorted(rows)[p] = rows[at[p]]
           /\ \A p, q \in 1..n :
                p <= q => SortKey(rows[at[p]]) <= SortKey(rows[at[q]])
<1>1. /\ \A i \in 1..n : Place(rows, i) \in 1..n
      /\ \A i, j \in 1..n : Precedes(rows, i, j) => Place(rows, i) < Place(rows, j)
  BY PlaceOrder
<1>2. \A i, j \in 1..n : i # j => Precedes(rows, i, j) \/ Precedes(rows, j, i)
  BY DEF Precedes
<1> DEFINE place == [i \in 1..n |-> Place(rows, i)]
<1>3. place \in Injection(1..n, 1..n)
  <2>1. place \in [1..n -> 1..n]
    BY <1>1
  <2>2. ASSUME NEW i \in 1..n, NEW j \in 1..n, place[i] = place[j]
        PROVE  i = j
    <3>1. Place(rows, i) = Place(rows, j) /\ Place(rows, i) \in Int
      BY <1>1, <2>2
    <3>2. ~ Precedes(rows, i, j) /\ ~ Precedes(rows, j, i)
      <4> HIDE DEF place
      <4> QED
        BY <1>1, <3>1
    <3> QED
      BY <1>2, <3>2
  <2> QED
    BY <2>1, <2>2 DEF Injection, IsInjective
<1>4. \A p \in 1..n : \E i \in 1..n : Place(rows, i) = p
  <2> HIDE DEF place
  <2>1. \A p \in 1..n : \E i \in 1..n : place[i] = p
    BY <1>3, InjectionIsOnto
  <2> QED
    BY <2>1 DEF place
<1> DEFINE at == [p \in 1..n |-> RowAt(rows, p)]
<1>5. \A p \in 1..n : at[p] \in 1..n /\ Place(rows, at[p]) = p
  BY <1>4 DEF RowAt
<1>6. at \in [1..n -> 1..n]
  BY <1>5
<1>7. /\ DOMAIN Sorted(rows) = 1..n
      /\ \A p \in 1..n : Sorted(rows)[p] = rows[at[p]]
  BY SortedByPlace
<1> HIDE DEF at, place
<1>8. at \in Injection(1..n, 1..n)
  <2>1. \A p, q \in 1..n : at[p] = at[q] => p = q
    BY <1>5
  <2> QED
    BY <1>6, <2>1 DEF Injection, IsInjective
<1>9. ASSUME NEW p \in 1..n, NEW q \in 1..n, p <= q
      PROVE  SortKey(rows[at[p]]) <= SortKey(rows[at[q]])
  <2>1. SUFFICES ASSUME SortKey(rows[at[q]]) < SortKey(rows[at[p]]) PROVE FALSE
    BY <1>5
  <2>2. Precedes(rows, at[q], at[p])
    BY <2>1 DEF Precedes
  <2>3. q < p
    BY <1>1, <1>5, <2>2
  <2> QED
    BY <1>9, <2>3
<1> QED
  BY <1>7, <1>8, <1>9

-----------------------------------------------------------------------------
(* Outputs and their normalised tables.                                    *)

(* The parts of the assumption that are not about sort keys.               *)
LEMMA MaxRowsIsNat == MaxRows \in Nat
BY ComparisonAssumption, Zenon

(* The empty name of a row without one equals itself.                      *)
LEMMA NaNIsNoString == NaN # ""
BY ComparisonAssumption, Zenon

(* An output is a sequence of the given rows.                              *)
LEMMA OutputIsASequence ==
  ASSUME NEW rows, NEW output \in Outputs(rows)
  PROVE  /\ Len(output) \in Nat
         /\ DOMAIN output = 1..Len(output)
         /\ \A i \in DOMAIN output : output[i] \in rows
<1>1. PICK n \in 0..MaxRows : output \in [1..n -> rows]
  BY DEF Outputs
<1>2. n \in Nat
  BY MaxRowsIsNat, <1>1
<1>3. output \in Seq(rows)
  BY <1>1, <1>2
<1> QED
  BY <1>3

(* Every row of a table has a sort key.                                    *)
LEMMA TablesHaveKeys ==
  ASSUME output1 \in Outputs(Rows1), output2 \in Outputs(Rows2)
  PROVE  /\ DOMAIN Table1 = 1..Len(output1)
         /\ DOMAIN Table2 = 1..Len(output2)
         /\ \A i \in DOMAIN Table1 : SortKey(Table1[i]) \in Int
         /\ \A i \in DOMAIN Table2 : SortKey(Table2[i]) \in Int
<1>1. /\ DOMAIN output1 = 1..Len(output1)
      /\ \A i \in DOMAIN output1 : output1[i] \in Rows1
      /\ DOMAIN output2 = 1..Len(output2)
      /\ \A i \in DOMAIN output2 : output2[i] \in Rows2
  BY OutputIsASequence
<1>2. \A i \in DOMAIN output1 : Table1[i] = Canonical(NormalizeRow(output1[i]))
  BY DEF Table1, Mapped, Normalized
<1>3. \A i \in DOMAIN output2 : Table2[i] = NormalizeRow(output2[i])
  BY DEF Table2, Normalized
<1>4. DOMAIN Table1 = DOMAIN output1 /\ DOMAIN Table2 = DOMAIN output2
  BY DEF Table1, Table2, Mapped, Normalized
<1> QED
  BY ComparisonAssumption, <1>1, <1>2, <1>3, <1>4

(* compare_outputs in terms of the two tables.                             *)
LEMMA CompareTables ==
  CompareOutputs(output1, output2) <=>
    /\ Len(output1) = Len(output2)
    /\ \A i \in DOMAIN Sorted(Table1) : SameRow(Sorted(Table1)[i], Sorted(Table2)[i])
BY DEF CompareOutputs, Table1, Table2

(* A string other than NaN equals itself.                                  *)
LEMMA EqualsItself ==
  ASSUME NEW value, value # NaN
  PROVE  SameValue(Cell("str", value), Cell("str", value))
BY DEF SameValue, Cell

(* Equal rows have equal names: a row without one is given "".             *)
LEMMA SameRowSameName ==
  ASSUME NEW r, NEW s, SameRow(r, s)
  PROVE  SameValue(Name(r), Name(s))
<1>1. CASE "name" \in DOMAIN r
  BY <1>1 DEF SameRow, Name
<1>2. CASE "name" \notin DOMAIN r
  <2>1. Name(r) = Cell("str", "") /\ Name(s) = Cell("str", "")
    BY <1>2 DEF SameRow, Name
  <2> QED
    BY <2>1, NaNIsNoString, EqualsItself, Zenon
<1> QED
  BY <1>1, <1>2

-----------------------------------------------------------------------------
(* A match pairs the rows: the row sorted to place p on one side with the  *)
(* row sorted to place p on the other.                                     *)
LEMMA MatchPairsRows ==
  ASSUME output1 \in Outputs(Rows1), output2 \in Outputs(Rows2),
         CompareOutputs(output1, output2)
  PROVE  SameRows
<1> DEFINE n == Len(output1)
<1>1. /\ n \in Nat /\ Len(output2) = n
      /\ DOMAIN output1 = 1..n /\ DOMAIN output2 = 1..n
  BY OutputIsASequence, CompareTables
<1>2. /\ DOMAIN Table1 = 1..n /\ DOMAIN Table2 = 1..n
      /\ \A i \in 1..n : SortKey(Table1[i]) \in Int
      /\ \A i \in 1..n : SortKey(Table2[i]) \in Int
  BY <1>1, TablesHaveKeys
<1> HIDE DEF n
<1>3. PICK at1 \in Injection(1..n, 1..n) :
        /\ DOMAIN Sorted(Table1) = 1..n
        /\ \A p \in 1..n : Sorted(Table1)[p] = Table1[at1[p]]
        /\ \A p, q \in 1..n : p <= q => SortKey(Table1[at1[p]]) <= SortKey(Table1[at1[q]])
  <2>1. n \in Nat
    BY <1>1
  <2>2. DOMAIN Table1 = 1..n
    BY <1>2
  <2>3. \A i \in 1..n : SortKey(Table1[i]) \in Int
    BY <1>2
  <2> QED
    BY <2>1, <2>2, <2>3, SortedIsAPermutation
<1>4. PICK at2 \in Injection(1..n, 1..n) :
        /\ DOMAIN Sorted(Table2) = 1..n
        /\ \A p \in 1..n : Sorted(Table2)[p] = Table2[at2[p]]
        /\ \A p, q \in 1..n : p <= q => SortKey(Table2[at2[p]]) <= SortKey(Table2[at2[q]])
  <2>1. n \in Nat
    BY <1>1
  <2>2. DOMAIN Table2 = 1..n
    BY <1>2
  <2>3. \A i \in 1..n : SortKey(Table2[i]) \in Int
    BY <1>2
  <2> QED
    BY <2>1, <2>2, <2>3, SortedIsAPermutation
<1>5. PICK to1 \in Injection(1..n, 1..n) : \A i \in 1..n : at1[to1[i]] = i
  BY <1>1, InverseOfInjection
<1>6. /\ \A i \in 1..n : to1[i] \in 1..n
      /\ \A i, j \in 1..n : to1[i] = to1[j] => i = j
      /\ \A i \in 1..n : at2[i] \in 1..n
      /\ \A i, j \in 1..n : at2[i] = at2[j] => i = j
  BY DEF Injection, IsInjective
<1> DEFINE pair == [i \in 1..n |-> at2[to1[i]]]
<1>7. pair \in Pairings
  <2>1. pair \in [DOMAIN output1 -> DOMAIN output2]
    BY <1>1, <1>6
  <2>2. \A i, j \in DOMAIN output1 : pair[i] = pair[j] => i = j
    BY <1>1, <1>6
  <2> QED
    BY <2>1, <2>2 DEF Pairings
<1>8. ASSUME NEW i \in 1..n
      PROVE  SameRow(Table1[i], Table2[pair[i]])
  <2>1. SameRow(Sorted(Table1)[to1[i]], Sorted(Table2)[to1[i]])
    BY <1>3, <1>6, CompareTables
  <2>2. Sorted(Table1)[to1[i]] = Table1[i]
    BY <1>3, <1>5, <1>6
  <2>3. Sorted(Table2)[to1[i]] = Table2[pair[i]]
    BY <1>4, <1>6
  <2> QED
    BY <2>1, <2>2, <2>3
<1> QED
  <2> HIDE DEF pair
  <2> QED
    BY <1>1, <1>7, <1>8 DEF SameRows, n

(* Tables of the same rows, whose sort separates them, line up: their      *)
(* sorted keys are two arrangements of the same keys.                      *)
LEMMA SameRowsMatch ==
  ASSUME output1 \in Outputs(Rows1), output2 \in Outputs(Rows2),
         SameRows, SortSeparates
  PROVE  CompareOutputs(output1, output2)
<1> DEFINE n == Len(output1)
<1>1. /\ n \in Nat /\ Len(output2) = n
      /\ DOMAIN output1 = 1..n /\ DOMAIN output2 = 1..n
  BY OutputIsASequence DEF SameRows
<1>2. /\ DOMAIN Table1 = 1..n /\ DOMAIN Table2 = 1..n
      /\ \A i \in 1..n : SortKey(Table1[i]) \in Int
      /\ \A i \in 1..n : SortKey(Table2[i]) \in Int
  BY <1>1, TablesHaveKeys
<1> HIDE DEF n
<1>3. PICK at1 \in Injection(1..n, 1..n) :
        /\ DOMAIN Sorted(Table1) = 1..n
        /\ \A p \in 1..n : Sorted(Table1)[p] = Table1[at1[p]]
        /\ \A p, q \in 1..n : p <= q => SortKey(Table1[at1[p]]) <= SortKey(Table1[at1[q]])
  <2>1. n \in Nat
    BY <1>1
  <2>2. DOMAIN Table1 = 1..n
    BY <1>2
  <2>3. \A i \in 1..n : SortKey(Table1[i]) \in Int
    BY <1>2
  <2> QED
    BY <2>1, <2>2, <2>3, SortedIsAPermutation
<1>4. PICK at2 \in Injection(1..n, 1..n) :
        /\ DOMAIN Sorted(Table2) = 1..n
        /\ \A p \in 1..n : Sorted(Table2)[p] = Table2[at2[p]]
        /\ \A p, q \in 1..n : p <= q => SortKey(Table2[at2[p]]) <= SortKey(Table2[at2[q]])
  <2>1. n \in Nat
    BY <1>1
  <2>2. DOMAIN Table2 = 1..n
    BY <1>2
  <2>3. \A i \in 1..n : SortKey(Table2[i]) \in Int
    BY <1>2
  <2> QED
    BY <2>1, <2>2, <2>3, SortedIsAPermutation
<1>5. PICK to2 \in Injection(1..n, 1..n) : \A i \in 1..n : at2[to2[i]] = i
  BY <1>1, InverseOfInjection
<1>6. PICK pair \in Pairings : \A i \in 1..n : SameRow(Table1[i], Table2[pair[i]])
  BY <1>1 DEF SameRows
<1>7. /\ \A i \in 1..n : pair[i] \in 1..n
      /\ \A i, j \in 1..n : pair[i] = pair[j] => i = j
  BY <1>1, <1>6 DEF Pairings
<1>8. /\ \A i \in 1..n : at1[i] \in 1..n /\ at2[i] \in 1..n /\ to2[i] \in 1..n
      /\ \A i, j \in 1..n : at1[i] = at1[j] => i = j
      /\ \A i, j \in 1..n : to2[i] = to2[j] => i = j
  BY DEF Injection, IsInjective
<1>9. \A i, j \in 1..n : Table1[i] \in AllRows /\ Table2[j] \in AllRows
  BY <1>2 DEF AllRows
<1>10. \A i \in 1..n : SortKey(Table1[i]) = SortKey(Table2[pair[i]])
  BY <1>6, <1>7, <1>9, SameRowSameName DEF SortSeparates
<1> DEFINE a == [p \in 1..n |-> SortKey(Table1[at1[p]])]
           b == [p \in 1..n |-> SortKey(Table2[at2[p]])]
           h == [p \in 1..n |-> to2[pair[at1[p]]]]
<1>11. a \in [1..n -> Int] /\ b \in [1..n -> Int]
  BY <1>2, <1>8
<1>12. /\ \A p, q \in 1..n : p <= q => a[p] <= a[q]
       /\ \A p, q \in 1..n : p <= q => b[p] <= b[q]
  BY <1>3, <1>4
<1>13. h \in Injection(1..n, 1..n)
  <2>1. h \in [1..n -> 1..n]
    BY <1>7, <1>8
  <2>2. ASSUME NEW p \in 1..n, NEW q \in 1..n, h[p] = h[q]
        PROVE  p = q
    <3>1. pair[at1[p]] = pair[at1[q]]
      BY <1>7, <1>8, <2>2
    <3> QED
      BY <1>7, <1>8, <3>1
  <2> QED
    BY <2>1, <2>2 DEF Injection, IsInjective
<1>14. \A p \in 1..n : a[p] = b[h[p]]
  BY <1>5, <1>7, <1>8, <1>10
<1>15. \A p \in 1..n : a[p] = b[p]
  <2> HIDE DEF a, b, h
  <2> QED
    <3>1. n \in Nat
      BY <1>1
    <3>2. a \in [1..n -> Int]
      BY <1>11
    <3>3. b \in [1..n -> Int]
      BY <1>11
    <3>4. \A p, q \in 1..n : p <= q => a[p] <= a[q]
      BY <1>12
    <3>5. \A p, q \in 1..n : p <= q => b[p] <= b[q]
      BY <1>12
    <3> QED
      BY <3>1, <3>2, <3>3, <3>4, <3>5, <1>13, <1>14, SameArrangement
<1>16. \A p \in 1..n : SameRow(Table1[at1[p]], Table2[at2[p]])
  BY <1>8, <1>9, <1>15 DEF SortSeparates
<1>17. \A p \in 1..n : SameRow(Sorted(Table1)[p], Sorted(Table2)[p])
  BY <1>3, <1>4, <1>16
<1> QED
  BY <1>1, <1>3, <1>17, CompareTables DEF n

-----------------------------------------------------------------------------
(* The table has at least as many rows as each output, and one at least.   *)
LEMMA FrameIsLongEnough ==
  ASSUME NEW o1, NEW o2, Len(o1) \in Nat, Len(o2) \in Nat
  PROVE  /\ FrameLength(o1, o2) \in Nat
         /\ FrameLength(o1, o2) >= Len(o1)
         /\ FrameLength(o1, o2) >= Len(o2)
         /\ FrameLength(o1, o2) >= 1
         /\ FrameLength(o1, o2) \in {Len(o1), Len(o2), 1}
<1>1. \E n \in {Len(o1), Len(o2), 1} : n >= Len(o1) /\ n >= Len(o2) /\ n >= 1
  OBVIOUS
<1> QED
  BY <1>1 DEF FrameLength

(* A cell under a known field name is in the row of its side, or it is an  *)
(* object; nothing else is in that row.                                    *)
LEMMA SideOfACell ==
  ASSUME NEW output, NEW columns, NEW i, NEW f \in columns
  PROVE  \/ HasCell(output, i, f) /\ Side(output, columns, i)[f] = output[i][f]
         \/ /\ HasCell(output, i, f) => output[i][f].type = "object"
            /\ Side(output, columns, i)[f] = NoValue
BY DEF Side, HasCell

(* What compare_outputs and build_result_dataframe leave behind is what    *)
(* they computed from the two outputs.                                     *)
ComparisonInv ==
  /\ output1 \in Outputs(Rows1)
  /\ output2 \in Outputs(Rows2)
  /\ step \in {"compare", "build", "done"}
  /\ step # "compare" => match = CompareOutputs(output1, output2)
  /\ step = "done" => frame = ResultFrame(output1, output2)

(* Each step computes its part once, from outputs that stay as they are.   *)
LEMMA ComparisonInvHolds == Spec => []ComparisonInv
<1>1. Init => ComparisonInv
  BY DEF Init, ComparisonInv
<1>2. ComparisonInv /\ [Next]_vars => ComparisonInv'
  <2> SUFFICES ASSUME ComparisonInv, [Next]_vars PROVE ComparisonInv'
    OBVIOUS
  <2>1. CASE Compare
    BY <2>1 DEF ComparisonInv, Compare
  <2>2. CASE Build
    BY <2>2 DEF ComparisonInv, Build
  <2>3. CASE Done \/ UNCHANGED vars
    BY <2>3 DEF ComparisonInv, Done, vars
  <2> QED
    BY <2>1, <2>2, <2>3 DEF Next
<1> QED
  BY <1>1, <1>2, PTL DEF Spec

(* An invoice that skips the judge has two agreeing extractions: when      *)
(* compare_outputs says "match" the rows of the two outputs, normalised,   *)
(* pair off, however many there are and whatever is in them.               *)
THEOREM MatchIsSoundHolds == Spec => []MatchIsSound
<1>1. ComparisonInv => MatchIsSound
  BY MatchPairsRows DEF ComparisonInv, MatchIsSound
<1> QED
  BY <1>1, ComparisonInvHolds, PTL

(* Two outputs of the same rows in any order match, when the sort key of   *)
(* compare_outputs tells those rows apart: order alone never costs a call  *)
(* of the judge.                                                           *)
THEOREM MatchIsCompleteHolds == Spec => []MatchIsComplete
<1>1. ComparisonInv => MatchIsComplete
  BY SameRowsMatch DEF ComparisonInv, MatchIsComplete
<1> QED
  BY <1>1, ComparisonInvHolds, PTL

(* build_result_dataframe pads the shorter side, and of the cells given    *)
(* under the field names of the prompts it drops objects only.             *)
THEOREM ScalarsAreKeptHolds == Spec => []ScalarsAreKept
<1>1. ComparisonInv => ScalarsAreKept
  <2> SUFFICES ASSUME ComparisonInv, step = "done" PROVE ScalarsAreKept
    BY DEF ScalarsAreKept
  <2> DEFINE n == FrameLength(output1, output2)
  <2>1. /\ Len(output1) \in Nat /\ DOMAIN output1 = 1..Len(output1)
        /\ Len(output2) \in Nat /\ DOMAIN output2 = 1..Len(output2)
    BY OutputIsASequence DEF ComparisonInv
  <2>2. n \in Nat /\ n >= Len(output1) /\ n >= Len(output2) /\ n >= 1
    BY <2>1, FrameIsLongEnough
  <2>7. n \in {Len(output1), Len(output2), 1}
    BY <2>1, FrameIsLongEnough
  <2> HIDE DEF n
  <2>3. frame = [i \in 1..n |->
          [agent1 |-> Side(output1, A1Fields, i), agent2 |-> Side(output2, A2Fields, i)]]
    BY DEF ComparisonInv, ResultFrame, n
  <2>4. Len(frame) = n
    BY <2>2, <2>3
  <2>5. /\ \A i \in DOMAIN output1 : i \in DOMAIN frame
        /\ \A i \in DOMAIN output2 : i \in DOMAIN frame
    BY <2>1, <2>2, <2>3
  <2>6. \A i \in DOMAIN frame : /\ frame[i].agent1 = Side(output1, A1Fields, i)
                                /\ frame[i].agent2 = Side(output2, A2Fields, i)
    BY <2>3
  <2> QED
    BY <2>4, <2>5, <2>6, <2>7, SideOfACell DEF ScalarsAreKept
<1> QED
  BY <1>1, ComparisonInvHolds, PTL
=============================================================================
