-------------------------- MODULE EnumerationProofs --------------------------
(***************************************************************************)
(* Every strict total order on a finite set places its elements one by     *)
(* one, and what follows for numbers and for parts of sequences.           *)
(***************************************************************************)
EXTENDS Enumeration, FiniteSetTheorems, WellFoundedInduction, TLAPS

\* A strict total order, as a set of pairs <<ahead, behind>>.
Orders(R, S) ==
    /\ \A x \in S : <<x, x>> \notin R
    /\ \A x, y, z \in S : <<x, y>> \in R /\ <<y, z>> \in R => <<x, z>> \in R
    /\ \A x, y \in S : x # y => <<x, y>> \in R \/ <<y, x>> \in R

AheadOf(R, S, x) == {y \in S : <<y, x>> \in R}

Rank(R, S, x) == Cardinality(AheadOf(R, S, x)) + 1

AtRank(R, S, i) == CHOOSE x \in S : Cardinality(AheadOf(R, S, x)) = i - 1

LEMMA RanksGrow ==
    ASSUME NEW S, IsFiniteSet(S), NEW R, Orders(R, S), NEW x \in S
    PROVE  /\ Rank(R, S, x) \in 1..Cardinality(S)
           /\ \A y \in S : <<x, y>> \in R => Rank(R, S, x) < Rank(R, S, y)
<1> DEFINE A(z) == AheadOf(R, S, z)
<1>1. \A z \in S : A(z) \in SUBSET (S \ {z}) /\ IsFiniteSet(A(z)) /\ Cardinality(A(z)) \in Nat
  <2>1. \A z \in S : A(z) \in SUBSET (S \ {z}) /\ A(z) \in SUBSET S
    BY DEF Orders, AheadOf
  <2>2. QED
    BY <2>1, FS_Subset, FS_CardinalityType
<1>2. Cardinality(A(x)) < Cardinality(S)
  <2>1. IsFiniteSet(S \ {x}) /\ Cardinality(S \ {x}) = Cardinality(S) - 1
    BY FS_RemoveElement
  <2>2. Cardinality(A(x)) <= Cardinality(S \ {x})
    BY <1>1, <2>1, FS_Subset
  <2>3. Cardinality(S) \in Nat
    BY FS_CardinalityType
  <2>4. QED
    BY <1>1, <2>1, <2>2, <2>3
<1>3. ASSUME NEW y \in S, <<x, y>> \in R
      PROVE  Cardinality(A(x)) < Cardinality(A(y))
  <2>1. A(x) \in SUBSET A(y) /\ x \in A(y) /\ x \notin A(x)
    BY <1>3 DEF Orders, AheadOf
  <2>2. Cardinality(A(x)) <= Cardinality(A(y)) /\ Cardinality(A(x)) # Cardinality(A(y))
    BY <1>1, <2>1, FS_Subset
  <2>3. QED
    BY <1>1, <2>2
<1>4. Cardinality(S) \in Nat
  BY FS_CardinalityType
<1>5. QED
  BY <1>1, <1>2, <1>3, <1>4 DEF Rank

\* No two elements have a rank, and no rank is without its element.
LEMMA RanksAreTaken ==
    ASSUME NEW S, IsFiniteSet(S), NEW R, Orders(R, S)
    PROVE  /\ Cardinality(S) \in Nat
           /\ \A i \in 1..Cardinality(S) : AtRank(R, S, i) \in S /\ Rank(R, S, AtRank(R, S, i)) = i
           /\ \A x \in S : Rank(R, S, x) \in 1..Cardinality(S) /\ AtRank(R, S, Rank(R, S, x)) = x
           /\ \A i, j \in 1..Cardinality(S) : i < j => <<AtRank(R, S, i), AtRank(R, S, j)>> \in R
<1> DEFINE n == Cardinality(S)
           rank == [x \in S |-> Rank(R, S, x)]
<1>1. n \in Nat /\ IsFiniteSet(1..n) /\ Cardinality(1..n) = n
  BY FS_CardinalityType, FS_Interval
<1>2. \A x \in S : rank[x] \in 1..n
  BY RanksGrow
<1>3. \A x, y \in S : rank[x] = rank[y] => x = y
  <2>1. ASSUME NEW x \in S, NEW y \in S, rank[x] = rank[y], x # y
        PROVE  FALSE
    <3>1. <<x, y>> \in R \/ <<y, x>> \in R
      BY <2>1 DEF Orders
    <3>2. rank[x] < rank[y] \/ rank[y] < rank[x]
      BY <3>1, RanksGrow
    <3>3. rank[x] \in Int /\ rank[y] \in Int
      BY <1>2
    <3>4. QED
      BY <2>1, <3>2, <3>3
  <2>2. QED
    BY <2>1
<1>4. rank \in Injection(S, 1..n)
  BY <1>2, <1>3 DEF Injection, IsInjective
<1>5. rank \in Surjection(S, 1..n)
  BY <1>1, <1>4, FS_Injection
<1>6. \A x \in S : Cardinality(AheadOf(R, S, x)) \in Nat
  <2>1. \A x \in S : AheadOf(R, S, x) \in SUBSET S
    BY DEF AheadOf
  <2>2. QED
    BY <2>1, FS_Subset, FS_CardinalityType
<1>7. \A x \in S, i \in 1..n : rank[x] = i <=> Cardinality(AheadOf(R, S, x)) = i - 1
  BY <1>6 DEF Rank
<1>8. ASSUME NEW i \in 1..n PROVE AtRank(R, S, i) \in S /\ rank[AtRank(R, S, i)] = i
  <2>1. \E x \in S : rank[x] = i
    BY <1>5 DEF Surjection
  <2>2. \E x \in S : Cardinality(AheadOf(R, S, x)) = i - 1
    BY <1>7, <2>1
  <2>3. AtRank(R, S, i) \in S /\ Cardinality(AheadOf(R, S, AtRank(R, S, i))) = i - 1
    BY <2>2 DEF AtRank
  <2>4. QED
    BY <1>7, <2>3
<1>9. ASSUME NEW x \in S PROVE AtRank(R, S, rank[x]) = x
  BY <1>2, <1>3, <1>8
<1>10. ASSUME NEW i \in 1..n, NEW j \in 1..n, i < j
       PROVE  <<AtRank(R, S, i), AtRank(R, S, j)>> \in R
  <2>0. rank[AtRank(R, S, i)] = i /\ rank[AtRank(R, S, j)] = j /\ i # j
    BY <1>1, <1>8, <1>10
  <2>1. AtRank(R, S, i) \in S /\ AtRank(R, S, j) \in S /\ AtRank(R, S, i) # AtRank(R, S, j)
    BY <1>8, <1>10, <2>0, Zenon
  <2>2. ~ <<AtRank(R, S, j), AtRank(R, S, i)>> \in R
    <3>1. SUFFICES ASSUME <<AtRank(R, S, j), AtRank(R, S, i)>> \in R PROVE FALSE
      OBVIOUS
    <3>2. rank[AtRank(R, S, j)] < rank[AtRank(R, S, i)]
      BY <2>1, <3>1, RanksGrow
    <3>3. QED
      BY <1>8, <1>10, <3>2
  <2>3. QED
    BY <2>1, <2>2 DEF Orders
<1>11. QED
  BY <1>1, <1>2, <1>8, <1>9, <1>10

-----------------------------------------------------------------------------
(***************************************************************************)
(* Numbers and parts of sequences.                                         *)
(***************************************************************************)
LEMMA NthInOrder ==
    ASSUME NEW S \in SUBSET Int, IsFiniteSet(S)
    PROVE  /\ Cardinality(S) \in Nat
           /\ \A i \in 1..Cardinality(S) : Nth(S, i) \in S
           /\ \A x \in S : \E i \in 1..Cardinality(S) : Nth(S, i) = x
           /\ \A i, j \in 1..Cardinality(S) : i < j => Nth(S, i) < Nth(S, j)
<1> DEFINE R == {p \in S \X S : p[1] < p[2]}
<1>1. \A x, y \in S : <<x, y>> \in R <=> x < y
  OBVIOUS
<1>2. Orders(R, S)
  BY <1>1 DEF Orders
<1>3. ASSUME NEW x \in S PROVE {y \in S : y < x} = AheadOf(R, S, x)
  BY <1>1 DEF AheadOf
<1> HIDE DEF R
<1>4. ASSUME NEW i PROVE Nth(S, i) = AtRank(R, S, i)
  <2>1. \A x \in S : (Cardinality({y \in S : y < x}) = i - 1)
                       <=> (Cardinality(AheadOf(R, S, x)) = i - 1)
    BY <1>3
  <2>2. QED
    BY <2>1 DEF Nth, AtRank
<1>5. Cardinality(S) \in Nat /\ \A i \in 1..Cardinality(S) : Nth(S, i) \in S
  BY <1>2, <1>4, RanksAreTaken
<1>6. \A x \in S : \E i \in 1..Cardinality(S) : Nth(S, i) = x
  BY <1>2, <1>4, RanksAreTaken
<1>7. ASSUME NEW i \in 1..Cardinality(S), NEW j \in 1..Cardinality(S), i < j
      PROVE  Nth(S, i) < Nth(S, j)
  BY <1>1, <1>2, <1>4, <1>5, <1>7, RanksAreTaken
<1>8. QED
  BY <1>5, <1>6, <1>7

\* A set put in order holds each of its elements once.
LEMMA AscendingHoldsTheSet ==
    ASSUME NEW S \in SUBSET Int, IsFiniteSet(S)
    PROVE  /\ Ascending(S) \in Seq(S) /\ Len(Ascending(S)) = Cardinality(S)
           /\ \A x \in S : \E i \in DOMAIN Ascending(S) : Ascending(S)[i] = x
           /\ \A i, j \in DOMAIN Ascending(S) : i < j => Ascending(S)[i] < Ascending(S)[j]
<1> DEFINE n == Cardinality(S)
<1>1. n \in Nat /\ \A i \in 1..n : Nth(S, i) \in S
  BY NthInOrder
<1> HIDE DEF n
<1>2. Ascending(S) = [i \in 1..n |-> Nth(S, i)]
  BY DEF Ascending, n
<1>3. Ascending(S) \in Seq(S) /\ Len(Ascending(S)) = n
  BY <1>1, <1>2
<1>4. QED
  BY <1>2, <1>3, NthInOrder DEF n

\* What is picked keeps its order, and nothing picked is left out.
LEMMA PickedKeepsOrder ==
    ASSUME NEW T, NEW s \in Seq(T), NEW places \in SUBSET DOMAIN s
    PROVE  /\ IsFiniteSet(places) /\ Picked(s, places) \in Seq(T)
           /\ Len(Picked(s, places)) = Cardinality(places)
           /\ Cardinality(places) <= Len(s)
           /\ \A i \in DOMAIN Picked(s, places) :
                 Nth(places, i) \in places /\ Picked(s, places)[i] = s[Nth(places, i)]
           /\ \A k \in places : \E i \in DOMAIN Picked(s, places) : Nth(places, i) = k
           /\ \A i, j \in DOMAIN Picked(s, places) :
                 i < j => Nth(places, i) < Nth(places, j)
<1> DEFINE n == Cardinality(places)
<1>1. Len(s) \in Nat /\ DOMAIN s = 1..Len(s) /\ \A i \in DOMAIN s : s[i] \in T
  OBVIOUS
<1>2. IsFiniteSet(1..Len(s)) /\ Cardinality(1..Len(s)) = Len(s)
  <2>1. \A m \in Nat : IsFiniteSet(1..m) /\ Cardinality(1..m) = m
    BY FS_Interval
  <2>2. QED
    BY <1>1, <2>1
<1>3. IsFiniteSet(places) /\ n <= Len(s) /\ places \in SUBSET Int
  BY <1>1, <1>2, FS_Subset
<1>4. /\ n \in Nat
      /\ \A i \in 1..n : Nth(places, i) \in places
      /\ \A k \in places : \E i \in 1..n : Nth(places, i) = k
      /\ \A i, j \in 1..n : i < j => Nth(places, i) < Nth(places, j)
  BY <1>3, NthInOrder
<1> HIDE DEF n
<1>5. Picked(s, places) = [i \in 1..n |-> s[Nth(places, i)]]
  BY DEF Picked, n
<1>6. Picked(s, places) \in Seq(T) /\ Len(Picked(s, places)) = n
      /\ DOMAIN Picked(s, places) = 1..n
  BY <1>1, <1>4, <1>5
<1>7. QED
  BY <1>3, <1>4, <1>5, <1>6 DEF n

(***************************************************************************)
(* A set of numbers has one enumeration, least first.                      *)
(***************************************************************************)
Enumerates(g, m, T) ==
    /\ g \in [1..m -> T]
    /\ \A i, j \in 1..m : i < j => g[i] < g[j]
    /\ \A x \in T : \E i \in 1..m : g[i] = x

LEMMA IncreasingOnto ==
    ASSUME NEW m \in Nat, NEW n \in Nat, NEW g, Enumerates(g, m, 1..n)
    PROVE  m = n /\ \A i \in 1..m : g[i] = i
<1>0. /\ g \in [1..m -> 1..n]
      /\ \A i, j \in 1..m : i < j => g[i] < g[j]
      /\ \A k \in 1..n : \E i \in 1..m : g[i] = k
  BY DEF Enumerates
<1>1. \A i \in 1..m : g[i] = i
  <2> DEFINE smaller == OpToRel(<, Nat)
             T == {i \in 1..m : g[i] # i}
  <2>1. IsWellFoundedOn(smaller, Nat)
    BY NatLessThanWellFounded, Zenon
  <2>2. ASSUME NEW x \in Nat, NEW y \in Nat, y < x PROVE <<y, x>> \in smaller
    BY <2>2, Zenon DEF OpToRel
  <2> HIDE DEF smaller
  <2>3. ASSUME T # {} PROVE FALSE
    <3>1. T \subseteq Nat
      OBVIOUS
    <3>2. PICK i \in T : \A j \in T : <<j, i>> \notin smaller
      BY <2>1, <2>3, <3>1, WFMin
    <3>3. i \in 1..m /\ g[i] \in 1..n /\ g[i] # i
      BY <1>0
    <3>4. ASSUME NEW j \in 1..m, j < i PROVE g[j] = j
      BY <2>2, <3>1, <3>2, <3>4
    <3>5. CASE g[i] < i
      <4>1. g[i] \in 1..m
        BY <3>3, <3>5
      <4>2. g[g[i]] = g[i]
        BY <3>4, <3>5, <4>1
      <4>3. g[g[i]] < g[i]
        BY <1>0, <3>3, <3>5, <4>1
      <4>4. QED
        BY <3>3, <4>2, <4>3
    <3>6. CASE i < g[i]
      <4>1. i \in 1..n
        BY <3>3, <3>6
      <4>2. PICK j \in 1..m : g[j] = i
        BY <1>0, <4>1
      <4>3. ~(j < i)
        BY <3>4, <4>2
      <4>4. ~(i < j)
        BY <1>0, <3>3, <3>6, <4>2
      <4>5. j = i
        BY <3>3, <4>3, <4>4
      <4>6. QED
        BY <3>3, <4>2, <4>5
    <3>7. QED
      BY <3>3, <3>5, <3>6
  <2>4. QED
    BY <2>3
<1>2. m <= n
  <2>1. m # 0 => m \in 1..m
    OBVIOUS
  <2>2. QED
    BY <1>0, <1>1, <2>1
<1>3. n <= m
  <2>1. n # 0 => n \in 1..n
    OBVIOUS
  <2>2. QED
    BY <1>0, <1>1, <2>1
<1>4. QED
  BY <1>1, <1>2, <1>3

LEMMA OneEnumeration ==
    ASSUME NEW T \in SUBSET Int, NEW m \in Nat, NEW n \in Nat, NEW a, NEW b,
           Enumerates(a, m, T), Enumerates(b, n, T)
    PROVE  m = n /\ \A i \in 1..m : a[i] = b[i]
<1>0. /\ a \in [1..m -> T] /\ b \in [1..n -> T]
      /\ \A i, j \in 1..m : i < j => a[i] < a[j]
      /\ \A i, j \in 1..n : i < j => b[i] < b[j]
      /\ \A x \in T : \E i \in 1..m : a[i] = x
      /\ \A x \in T : \E i \in 1..n : b[i] = x
  BY DEF Enumerates
<1> DEFINE g == [i \in 1..m |-> CHOOSE k \in 1..n : b[k] = a[i]]
<1>1. ASSUME NEW i \in 1..m PROVE g[i] \in 1..n /\ b[g[i]] = a[i]
  <2>1. a[i] \in T
    BY <1>0
  <2>2. \E k \in 1..n : b[k] = a[i]
    BY <1>0, <2>1
  <2>3. QED
    BY <2>2
<1>2. ASSUME NEW k \in 1..n, NEW l \in 1..n, b[k] = b[l] PROVE k = l
  <2>1. b[k] \in Int
    BY <1>0
  <2>2. ~(k < l) /\ ~(l < k)
    BY <1>0, <1>2, <2>1
  <2>3. QED
    BY <2>2
<1>3. \E h \in [1..m -> 1..n] : \A i \in 1..m : b[h[i]] = a[i]
  <2>1. g \in [1..m -> 1..n] /\ \A i \in 1..m : b[g[i]] = a[i]
    BY <1>1
  <2>2. QED
    BY <2>1
<1> HIDE DEF g
<1> PICK h \in [1..m -> 1..n] : \A i \in 1..m : b[h[i]] = a[i]
  BY <1>3
<1>4. ASSUME NEW i \in 1..m, NEW j \in 1..m, i < j PROVE h[i] < h[j]
  <2>1. /\ a[i] < a[j] /\ a[i] \in Int /\ a[j] \in Int
        /\ b[h[i]] = a[i] /\ b[h[j]] = a[j] /\ h[i] \in 1..n /\ h[j] \in 1..n
    BY <1>0, <1>4
  <2>2. h[i] # h[j]
    BY <2>1
  <2>3. ~(h[j] < h[i])
    BY <1>0, <2>1
  <2>4. QED
    BY <2>1, <2>2, <2>3
<1>5. ASSUME NEW k \in 1..n PROVE \E i \in 1..m : h[i] = k
  <2>1. b[k] \in T
    BY <1>0
  <2>2. PICK i \in 1..m : a[i] = b[k]
    BY <1>0, <2>1
  <2>3. h[i] = k
    BY <1>2, <2>2
  <2>4. QED
    BY <2>3
<1>6. m = n /\ \A i \in 1..m : h[i] = i
  <2>1. \A i, j \in 1..m : i < j => h[i] < h[j]
    BY <1>4
  <2>2. \A k \in 1..n : \E i \in 1..m : h[i] = k
    BY <1>5
  <2>3. Enumerates(h, m, 1..n)
    BY <2>1, <2>2 DEF Enumerates
  <2>4. QED
    BY <2>3, IncreasingOnto
<1>7. QED
  BY <1>6
=============================================================================
