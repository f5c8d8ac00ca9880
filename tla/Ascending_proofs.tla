--------------------------- MODULE Ascending_proofs ---------------------------
(***************************************************************************)
(* ListBy lists a finite set in order, each element once, and is the only *)
(* list that does.                                                         *)
(***************************************************************************)
EXTENDS Ascending, Sequences, FiniteSetTheorems, TLAPS

\* The pairs of order put any two elements of S in order.
IsOrderOn(order, S) ==
    /\ \A x \in S : <<x, x>> \notin order
    /\ \A x, y \in S : x # y => <<x, y>> \in order \/ <<y, x>> \in order
    /\ \A x, y, z \in S : <<x, y>> \in order /\ <<y, z>> \in order => <<x, z>> \in order

LEMMA OrderOnPart ==
    ASSUME NEW S, NEW order, IsOrderOn(order, S), NEW T \in SUBSET S
    PROVE  IsOrderOn(order, T)
  BY DEF IsOrderOn

\* Whoever is above another has more below it.
LEMMA BelowGrows ==
    ASSUME NEW S, IsFiniteSet(S), NEW order, IsOrderOn(order, S),
           NEW x \in S, NEW y \in S, <<x, y>> \in order
    PROVE  Cardinality(Below(S, order, x)) < Cardinality(Below(S, order, y))
<1> DEFINE low == Below(S, order, x)
           high == Below(S, order, y)
<1>1. low \in SUBSET high /\ high \in SUBSET S /\ x \in high /\ x \notin low
  BY DEF Below, IsOrderOn
<1> HIDE DEF low, high
<1>2. IsFiniteSet(high)
  BY <1>1, FS_Subset
<1>3. IsFiniteSet(low) /\ Cardinality(low) <= Cardinality(high)
  BY <1>1, <1>2, FS_Subset
<1>4. Cardinality(low) # Cardinality(high)
  BY <1>1, <1>2, FS_Subset
<1>5. Cardinality(low) \in Nat /\ Cardinality(high) \in Nat
  BY <1>2, <1>3, FS_CardinalityType
<1>6. QED
  BY <1>3, <1>4, <1>5 DEF low, high

\* The place of each element, and an element for each place.
LEMMA PlacesOfElements ==
    ASSUME NEW S, IsFiniteSet(S), NEW order, IsOrderOn(order, S)
    PROVE  /\ \A x \in S : Cardinality(Below(S, order, x)) \in 0..Cardinality(S) - 1
           /\ \A x, y \in S :
                 Cardinality(Below(S, order, x)) = Cardinality(Below(S, order, y)) => x = y
           /\ \A i \in 1..Cardinality(S) :
                 \E x \in S : Cardinality(Below(S, order, x)) = i - 1
<1> DEFINE place == [x \in S |-> Cardinality(Below(S, order, x)) + 1]
           n == Cardinality(S)
<1>1. n \in Nat
  BY FS_CardinalityType
<1>2. ASSUME NEW x \in S PROVE Cardinality(Below(S, order, x)) \in 0..n - 1
  <2>1. Below(S, order, x) \in SUBSET S /\ x \notin Below(S, order, x)
    BY DEF Below, IsOrderOn
  <2>2. /\ IsFiniteSet(Below(S, order, x)) /\ Cardinality(Below(S, order, x)) <= n
        /\ Cardinality(Below(S, order, x)) # n
    BY <2>1, FS_Subset
  <2>3. Cardinality(Below(S, order, x)) \in Nat
    BY <2>2, FS_CardinalityType
  <2>4. QED
    BY <1>1, <2>2, <2>3
<1>3. place \in [S -> 1..n]
  BY <1>1, <1>2
<1>4. ASSUME NEW x \in S, NEW y \in S, x # y
      PROVE  Cardinality(Below(S, order, x)) # Cardinality(Below(S, order, y))
  <2>1. <<x, y>> \in order \/ <<y, x>> \in order
    BY <1>4 DEF IsOrderOn
  <2>2. \/ Cardinality(Below(S, order, x)) < Cardinality(Below(S, order, y))
        \/ Cardinality(Below(S, order, y)) < Cardinality(Below(S, order, x))
    BY <2>1, BelowGrows
  <2>3. QED
    BY <1>1, <1>2, <2>2
<1>5. place \in Injection(S, 1..n)
  <2>1. \A x, y \in S : x # y => place[x] # place[y]
    BY <1>1, <1>2, <1>4
  <2>2. QED
    BY <1>3, <2>1 DEF Injection, IsInjective
<1>6. IsFiniteSet(1..n) /\ Cardinality(1..n) = n
  BY <1>1, FS_Interval
<1>7. place \in Surjection(S, 1..n)
  BY <1>5, <1>6, FS_Injection
<1>8. ASSUME NEW i \in 1..n PROVE \E x \in S : Cardinality(Below(S, order, x)) = i - 1
  <2>1. PICK x \in S : place[x] = i
    BY <1>7 DEF Surjection
  <2>2. QED
    BY <1>1, <1>2, <2>1
<1>9. QED
  BY <1>2, <1>4, <1>8

\* ListBy(S, order): each element of S once, the lower before the higher.
LEMMA ListByLists ==
    ASSUME NEW S, IsFiniteSet(S), NEW order, IsOrderOn(order, S)
    PROVE  /\ ListBy(S, order) \in Seq(S)
           /\ Cardinality(S) \in Nat
           /\ DOMAIN ListBy(S, order) = 1..Cardinality(S)
           /\ Len(ListBy(S, order)) = Cardinality(S)
           /\ \A x \in S : \E i \in DOMAIN ListBy(S, order) : ListBy(S, order)[i] = x
           /\ \A i, k \in DOMAIN ListBy(S, order) :
                 i < k => <<ListBy(S, order)[i], ListBy(S, order)[k]>> \in order
<1> DEFINE n == Cardinality(S)
           s == ListBy(S, order)
<1>1. n \in Nat
  BY FS_CardinalityType
<1>2. DOMAIN s = 1..n
  BY DEF ListBy
<1>3. ASSUME NEW i \in 1..n PROVE s[i] \in S /\ Cardinality(Below(S, order, s[i])) = i - 1
  <2>1. \E x \in S : Cardinality(Below(S, order, x)) = i - 1
    BY PlacesOfElements
  <2>2. s[i] = CHOOSE x \in S : Cardinality(Below(S, order, x)) = i - 1
    BY DEF ListBy
  <2>3. QED
    BY <2>1, <2>2
<1>4. s \in [1..n -> S]
  BY <1>2, <1>3 DEF ListBy
<1>5. s \in Seq(S) /\ Len(s) = n
  BY <1>1, <1>2, <1>4
<1>6. ASSUME NEW x \in S PROVE \E i \in 1..n : s[i] = x
  <2> DEFINE i == Cardinality(Below(S, order, x)) + 1
  <2>1. i \in 1..n /\ Cardinality(Below(S, order, x)) = i - 1
    BY <1>1, PlacesOfElements
  <2>2. s[i] \in S /\ Cardinality(Below(S, order, s[i])) = Cardinality(Below(S, order, x))
    BY <1>3, <2>1
  <2>3. QED
    BY <2>1, <2>2, PlacesOfElements
<1>7. ASSUME NEW i \in 1..n, NEW k \in 1..n, i < k PROVE <<s[i], s[k]>> \in order
  <2>1. /\ s[i] \in S /\ Cardinality(Below(S, order, s[i])) = i - 1
        /\ s[k] \in S /\ Cardinality(Below(S, order, s[k])) = k - 1
    BY <1>3
  <2>2. s[i] # s[k]
    BY <1>1, <1>7, <2>1
  <2>3. <<s[k], s[i]>> \notin order
    <3>1. ASSUME <<s[k], s[i]>> \in order PROVE k - 1 < i - 1
      BY <2>1, <3>1, BelowGrows
    <3>2. QED
      BY <1>1, <1>7, <3>1
  <2>4. QED
    BY <2>1, <2>2, <2>3 DEF IsOrderOn
<1>8. QED
  BY <1>1, <1>2, <1>5, <1>6, <1>7

\* Ascending(S): each element of S once, the smaller before the greater.
LEMMA AscendingLists ==
    ASSUME NEW S \in SUBSET Nat, IsFiniteSet(S)
    PROVE  /\ Ascending(S) \in Seq(S)
           /\ DOMAIN Ascending(S) = 1..Cardinality(S)
           /\ Len(Ascending(S)) = Cardinality(S)
           /\ \A x \in S : \E i \in DOMAIN Ascending(S) : Ascending(S)[i] = x
           /\ \A i, k \in DOMAIN Ascending(S) : i < k => Ascending(S)[i] < Ascending(S)[k]
<1> DEFINE order == {pair \in S \X S : pair[1] < pair[2]}
<1>1. \A x, y \in S : <<x, y>> \in order <=> x < y
  OBVIOUS
<1>2. \A x \in S : x \in Nat
  OBVIOUS
<1>3. Ascending(S) = ListBy(S, order)
  BY DEF Ascending
<1> HIDE DEF order
<1>4. IsOrderOn(order, S)
  BY <1>1, <1>2 DEF IsOrderOn
<1>5. /\ Ascending(S) \in Seq(S) /\ Cardinality(S) \in Nat
      /\ DOMAIN Ascending(S) = 1..Cardinality(S)
      /\ Len(Ascending(S)) = Cardinality(S)
      /\ \A x \in S : \E i \in DOMAIN Ascending(S) : Ascending(S)[i] = x
      /\ \A i, k \in DOMAIN Ascending(S) : i < k => <<Ascending(S)[i], Ascending(S)[k]>> \in order
  BY <1>3, <1>4, ListByLists
<1>6. \A i \in DOMAIN Ascending(S) : Ascending(S)[i] \in S
  BY <1>5
<1>7. QED
  BY <1>1, <1>5, <1>6

\* A finite set of numbers has a least and a greatest one.
LEMMA LeastAndGreatest ==
    ASSUME NEW S \in SUBSET Nat, IsFiniteSet(S), S # {}
    PROVE  /\ \E x \in S : \A y \in S : x <= y
           /\ \E x \in S : \A y \in S : x >= y
<1> DEFINE n == Cardinality(S)
           s == Ascending(S)
<1>1. n \in Nat /\ n # 0
  BY FS_CardinalityType, FS_EmptySet
<1>2. /\ s \in Seq(S) /\ DOMAIN s = 1..n /\ Len(s) = n
      /\ \A x \in S : \E i \in DOMAIN s : s[i] = x
      /\ \A i, k \in DOMAIN s : i < k => s[i] < s[k]
  BY AscendingLists
<1> HIDE DEF n, s
<1>3. s[1] \in S /\ s[n] \in S
  BY <1>1, <1>2
<1>4. ASSUME NEW y \in S PROVE s[1] <= y /\ y <= s[n]
  <2>1. PICK i \in 1..n : s[i] = y
    BY <1>2
  <2>2. (1 < i => s[1] < s[i]) /\ (i < n => s[i] < s[n]) /\ 1 \in 1..n /\ n \in 1..n
    BY <1>1, <1>2
  <2>3. s[1] \in Nat /\ s[n] \in Nat /\ y \in Nat
    BY <1>3
  <2>4. QED
    BY <1>1, <2>1, <2>2, <2>3
<1>5. QED
  BY <1>3, <1>4

\* Any numbers have a least one.
LEMMA LeastOf ==
    ASSUME NEW S \in SUBSET Nat, S # {}
    PROVE  \E x \in S : \A y \in S : x <= y
<1>1. PICK n \in S : TRUE
  OBVIOUS
<1> DEFINE T == S \cap (0..n)
<1>2. n \in Nat /\ T \in SUBSET Nat /\ n \in T
  BY <1>1
<1>3. IsFiniteSet(T)
  <2>1. IsFiniteSet(0..n)
    BY <1>2, FS_Interval
  <2>2. QED
    BY <2>1, FS_Subset
<1>4. PICK x \in T : \A y \in T : x <= y
  BY <1>2, <1>3, LeastAndGreatest
<1>5. ASSUME NEW y \in S PROVE x <= y
  <2>1. y \in Nat /\ x \in Nat /\ x <= n
    BY <1>2, <1>4
  <2>2. y \in T \/ n < y
    BY <1>2, <2>1
  <2>3. QED
    BY <1>2, <1>4, <2>1, <2>2
<1>6. QED
  BY <1>4, <1>5
=============================================================================
