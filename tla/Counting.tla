------------------------------ MODULE Counting ------------------------------
(***************************************************************************)
(* How many elements a set has: what proofs about counted IPBlocks and     *)
(* addresses rest on.                                                      *)
(***************************************************************************)
EXTENDS FiniteSetTheorems, FunctionTheorems, WellFoundedInduction, TLAPS

\* A nonempty set of natural numbers has a least element.
LEMMA LeastElement ==
  ASSUME NEW S \in SUBSET Nat, S # {}
  PROVE  \E c \in S : \A d \in S : c <= d
<1>1. PICK c \in S : \A d \in S : ~(<<d, c>> \in OpToRel(<, Nat))
  BY NatLessThanWellFounded, WFMin
<1>2. \A d \in S : ~(d < c)
  BY <1>1 DEF OpToRel
<1>3. QED
  BY <1>2

\* An injective function maps a finite set to one of the same size when it reaches all
\* of it.
LEMMA CountByMatching ==
  ASSUME NEW S, NEW T, IsFiniteSet(S), NEW f \in [S -> T],
         \A x, y \in S : f[x] = f[y] => x = y,
         \A z \in T : \E x \in S : f[x] = z
  PROVE  Cardinality(T) = Cardinality(S)
<1>1. f \in Bijection(S, T)
  BY Fun_IsBij
<1>2. QED
  BY <1>1, FS_Bijection DEF ExistsBijection

\* How many numbers there are below n.
LEMMA UpTo ==
  ASSUME NEW n \in Nat
  PROVE  IsFiniteSet(0 .. n - 1) /\ Cardinality(0 .. n - 1) = n
<1>1. IsFiniteSet(0 .. n - 1) /\ Cardinality(0 .. n - 1) = IF 0 > n - 1 THEN 0 ELSE n - 1 - 0 + 1
  BY FS_Interval
<1>2. QED
  BY <1>1

\* A set of numbers is numbered from below by how many of its members are less.
LEMMA RankNumbers ==
  ASSUME NEW S \in SUBSET Nat, IsFiniteSet(S)
  PROVE  LET below == [x \in S |-> Cardinality({y \in S : y < x})]
         IN  below \in Bijection(S, 0 .. Cardinality(S) - 1)
<1> DEFINE Less(x) == {y \in S : y < x}
           below == [x \in S |-> Cardinality(Less(x))]
<1>1. \A x \in S : IsFiniteSet(Less(x)) /\ Cardinality(Less(x)) \in Nat
  BY FS_Subset, FS_CardinalityType
<1>2. Cardinality(S) \in Nat
  BY FS_CardinalityType
<1>3. ASSUME NEW x \in S PROVE below[x] \in 0 .. Cardinality(S) - 1
  <2>1. Less(x) \in SUBSET S /\ Less(x) # S
    OBVIOUS
  <2>2. Cardinality(Less(x)) < Cardinality(S)
    BY <1>1, <1>2, <2>1, FS_Subset
  <2>3. QED
    BY <1>1, <1>2, <2>2
<1>4. ASSUME NEW x \in S, NEW z \in S, x < z PROVE below[x] < below[z]
  <2>1. Less(x) \in SUBSET Less(z)
    <3>1. x \in Nat /\ z \in Nat /\ \A y \in S : y \in Nat
      OBVIOUS
    <3>2. \A y \in S : y < x => y < z
      BY <1>4, <3>1
    <3>3. QED
      BY <3>2
  <2>2. x \in Less(z) /\ x \notin Less(x)
    BY <1>4
  <2>3. Cardinality(Less(x)) < Cardinality(Less(z))
    BY <1>1, <2>1, <2>2, FS_Subset
  <2>4. QED
    BY <2>3
<1>5. below \in Injection(S, 0 .. Cardinality(S) - 1)
  <2>1. below \in [S -> 0 .. Cardinality(S) - 1]
    BY <1>3
  <2>2. \A x, z \in S : below[x] = below[z] => x = z
    <3> SUFFICES ASSUME NEW x \in S, NEW z \in S, below[x] = below[z], x # z PROVE FALSE
      OBVIOUS
    <3>1. below[x] \in Int /\ (x < z \/ z < x)
      BY <1>3
    <3>2. QED
      BY <1>4, <3>1
  <2> HIDE DEF below
  <2>3. QED
    BY <2>1, <2>2, Fun_IsInj
<1>6. IsFiniteSet(0 .. Cardinality(S) - 1) /\ Cardinality(0 .. Cardinality(S) - 1) = Cardinality(S)
  BY <1>2, UpTo
<1>7. below \in Surjection(S, 0 .. Cardinality(S) - 1)
  <2> HIDE DEF below
  <2>1. QED
    BY <1>5, <1>6, FS_Injection
<1>8. below \in Bijection(S, 0 .. Cardinality(S) - 1)
  <2> HIDE DEF below
  <2>1. QED
    BY <1>5, <1>7, Fun_IsBij
<1>9. QED
  BY <1>8

\* Sets of the same size that are apart, counted together: as many elements as there
\* are sets, times their size.
LEMMA CountInParts ==
  ASSUME NEW B, IsFiniteSet(B), NEW n \in Nat,
         \A b \in B : IsFiniteSet(b) /\ Cardinality(b) = n,
         \A b, c \in B : b # c => b \cap c = {}
  PROVE  IsFiniteSet(UNION B) /\ Cardinality(UNION B) = Cardinality(B) * n
<1> DEFINE number(b) == CHOOSE g \in Bijection(1 .. n, b) : TRUE
           f == [c \in B \X (1 .. n) |-> number(c[1])[c[2]]]
<1>1. ASSUME NEW b \in B PROVE number(b) \in Bijection(1 .. n, b)
  <2>1. Bijection(1 .. n, b) # {}
    BY FS_CardinalityType DEF ExistsBijection
  <2>2. QED
    BY <2>1
<1> HIDE DEF number
<1>2. ASSUME NEW b \in B
      PROVE  /\ number(b) \in [1 .. n -> b]
             /\ \A i, j \in 1 .. n : number(b)[i] = number(b)[j] => i = j
             /\ \A z \in b : \E i \in 1 .. n : number(b)[i] = z
  BY <1>1 DEF Bijection, Injection, Surjection, IsInjective
<1>3. ASSUME NEW b \in B, NEW i \in 1 .. n
      PROVE  f[<<b, i>>] = number(b)[i] /\ f[<<b, i>>] \in b
  BY <1>2
<1>4. f \in [B \X (1 .. n) -> UNION B]
  <2>1. ASSUME NEW c \in B \X (1 .. n) PROVE f[c] \in UNION B
    <3>1. PICK b \in B, i \in 1 .. n : c = <<b, i>>
      OBVIOUS
    <3>2. f[<<b, i>>] \in b
      BY <1>3
    <3> HIDE DEF f
    <3>3. QED
      BY <3>1, <3>2
  <2>2. f = [c \in B \X (1 .. n) |-> f[c]]
    OBVIOUS
  <2> HIDE DEF f
  <2>3. QED
    BY <2>1, <2>2
<1> HIDE DEF f
<1>5. ASSUME NEW x \in B \X (1 .. n), NEW y \in B \X (1 .. n), f[x] = f[y]
      PROVE  x = y
  <2>1. PICK b \in B, i \in 1 .. n : x = <<b, i>>
    OBVIOUS
  <2>2. PICK c \in B, j \in 1 .. n : y = <<c, j>>
    OBVIOUS
  <2>3. b = c
    BY <1>3, <1>5, <2>1, <2>2
  <2>4. i = j
    BY <1>2, <1>3, <1>5, <2>1, <2>2, <2>3
  <2>5. QED
    BY <2>1, <2>2, <2>3, <2>4
<1>6. ASSUME NEW z \in UNION B
      PROVE  \E x \in B \X (1 .. n) : f[x] = z
  <2>1. PICK b \in B : z \in b
    OBVIOUS
  <2>2. PICK i \in 1 .. n : number(b)[i] = z
    BY <1>2, <2>1
  <2>3. f[<<b, i>>] = z
    BY <1>3, <2>2
  <2>4. QED
    BY <2>3
<1>7. IsFiniteSet(1 .. n) /\ Cardinality(1 .. n) = n
  <2>1. \A a, b \in Int : IsFiniteSet(a .. b) /\ Cardinality(a .. b) = IF a > b THEN 0 ELSE b - a + 1
    BY FS_Interval
  <2>2. 1 \in Int /\ n \in Int
    OBVIOUS
  <2>3. IsFiniteSet(1 .. n) /\ Cardinality(1 .. n) = IF 1 > n THEN 0 ELSE n - 1 + 1
    BY <2>1, <2>2, Zenon
  <2>4. QED
    BY <2>3
<1>8. IsFiniteSet(B \X (1 .. n)) /\ Cardinality(B \X (1 .. n)) = Cardinality(B) * n
  <2> DEFINE I == 1 .. n
  <2>1. IsFiniteSet(I) /\ Cardinality(I) = n
    BY <1>7
  <2> HIDE DEF I
  <2>2. IsFiniteSet(B \X I) /\ Cardinality(B \X I) = Cardinality(B) * Cardinality(I)
    BY <2>1, FS_Product
  <2>3. QED
    BY <2>1, <2>2 DEF I
<1>9. IsFiniteSet(UNION B)
  BY FS_UNION
<1>10. Cardinality(UNION B) = Cardinality(B \X (1 .. n))
  BY <1>4, <1>5, <1>6, <1>8, CountByMatching
<1>11. QED
  BY <1>8, <1>9, <1>10

\* Dividing undoes multiplying: so many addresses are so many IPBlocks.
LEMMA WholeParts ==
  ASSUME NEW k \in Nat, NEW n \in Nat \ {0}
  PROVE  (k * n) \div n = k
<1> DEFINE q == (k * n) \div n
<1>1. k * n \in Nat
  OBVIOUS
<1>2. q \in Nat /\ n * q <= k * n /\ k * n < n * (q + 1)
  BY <1>1
<1> HIDE DEF q
<1>3. ~(q < k)
  <2> SUFFICES ASSUME q + 1 <= k PROVE FALSE
    BY <1>2
  <2>1. n * (q + 1) <= n * k
    BY <1>2
  <2>2. QED
    BY <1>2, <2>1
<1>4. ~(q > k)
  <2> SUFFICES ASSUME k + 1 <= q PROVE FALSE
    BY <1>2
  <2>1. n * (k + 1) <= n * q
    BY <1>2
  <2>2. n * (k + 1) = k * n + n
    OBVIOUS
  <2>3. QED
    BY <1>1, <1>2, <2>1, <2>2
<1>5. QED
  BY <1>2, <1>3, <1>4 DEF q
=============================================================================
