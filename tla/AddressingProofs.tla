-------------------------- MODULE AddressingProofs --------------------------
(***************************************************************************)
(* What the operators on addresses and IPBlocks return.                    *)
(***************************************************************************)
EXTENDS Addressing, Counting

\* There are finitely many addresses and IPBlocks, and sets of them have a size:
\* the counts the code keeps as decimal strings are natural numbers.
LEMMA SizesAreNatural ==
  /\ \A S \in SUBSET IPs : IsFiniteSet(S) /\ Cardinality(S) \in Nat
  /\ \A B \in SUBSET Blocks : IsFiniteSet(B) /\ Cardinality(B) \in Nat
<1>1. NumBlocks * BlockSize - 1 \in Int /\ NumBlocks - 1 \in Int
  BY NumBlocksAssumption, BlockSizeAssumption
<1>2. IsFiniteSet(IPs) /\ IsFiniteSet(Blocks)
  BY <1>1, FS_Interval DEF IPs, Blocks
<1>3. QED
  BY <1>2, FS_Subset, FS_CardinalityType

\* IPRanges.Slice selects: it returns no address that was not there.
LEMMA LowestSelects ==
  ASSUME NEW S, NEW n
  PROVE  Lowest(S, n) \subseteq S
BY DEF Lowest

\* IPBlocks do not overlap: an address belongs to the block it is computed for.
LEMMA IPsOfProperties ==
  /\ \A B : IPsOf(B) \subseteq IPs
  /\ \A B, C : B \subseteq C => IPsOf(B) \subseteq IPsOf(C)
  /\ \A B, C : B \cap C = {} => IPsOf(B) \cap IPsOf(C) = {}
  /\ \A B, C : IPsOf(B \ C) = IPsOf(B) \ IPsOf(C)
  /\ \A b : IPsOf({b}) = BlockIPs(b)
BY DEF IPsOf, BlockIPs

\* Linear probing stays within the free IPBlocks it was given.
LEMMA NextBlockIsFree ==
  ASSUME NEW F \in SUBSET Blocks, F # {}, NEW b \in Blocks
  PROVE  NextBlock(F, b) \in F
<1> DEFINE later == {c \in F : c > b}
           ring  == IF later = {} THEN F ELSE later
<1>1. ring \in SUBSET F /\ ring # {}
  OBVIOUS
<1>2. F \in SUBSET Nat
  BY NumBlocksAssumption DEF Blocks
<1>3. \E c \in ring : \A d \in ring : c <= d
  BY <1>1, <1>2, LeastElement
<1>4. NextBlock(F, b) \in ring
  <2> HIDE DEF ring
  <2>1. NextBlock(F, b) = CHOOSE c \in ring : \A d \in ring : c <= d
    BY DEF NextBlock, ring
  <2>2. QED
    BY <1>3, <2>1
<1>5. QED
  BY <1>1, <1>4
\* The addresses of an IPBlock are the step that follows its first one.
LEMMA BlockOfAddress ==
  ASSUME NEW b \in Nat, NEW i \in 0 .. BlockSize - 1
  PROVE  BlockOf(b * BlockSize + i) = b
<1> DEFINE q == BlockOf(b * BlockSize + i)
<1>1. BlockSize \in Nat /\ BlockSize > 0 /\ b * BlockSize \in Nat /\ i \in Nat /\ i < BlockSize
  BY BlockSizeAssumption
<1>2. /\ q \in Int
      /\ BlockSize * q <= b * BlockSize + i
      /\ b * BlockSize + i < BlockSize * (q + 1)
  BY <1>1 DEF BlockOf
<1> HIDE DEF q
<1>3. ~(q < b)
  <2> SUFFICES ASSUME q < b PROVE FALSE
    OBVIOUS
  <2>1. BlockSize * (q + 1) <= BlockSize * b
    BY <1>1, <1>2
  <2>2. QED
    BY <1>1, <1>2, <2>1
<1>4. ~(q > b)
  <2> SUFFICES ASSUME q > b PROVE FALSE
    OBVIOUS
  <2>1. BlockSize * (b + 1) <= BlockSize * q
    BY <1>1, <1>2
  <2>2. QED
    BY <1>1, <1>2, <2>1
<1>5. QED
  BY <1>2, <1>3, <1>4 DEF q
\* IPBlocks hold step addresses each.
LEMMA IPsOfSize ==
  ASSUME NEW B \in SUBSET Blocks
  PROVE  Cardinality(IPsOf(B)) = Cardinality(B) * BlockSize
<1> DEFINE f == [c \in B \X (0 .. BlockSize - 1) |-> c[1] * BlockSize + c[2]]
<1>1. BlockSize \in Nat /\ BlockSize > 0 /\ NumBlocks \in Nat /\ B \subseteq Nat
  BY BlockSizeAssumption, NumBlocksAssumption DEF Blocks
<1>2. ASSUME NEW b \in B, NEW i \in 0 .. BlockSize - 1
      PROVE  f[<<b, i>>] = b * BlockSize + i /\ f[<<b, i>>] \in IPsOf(B) /\ BlockOf(f[<<b, i>>]) = b
  <2>1. f[<<b, i>>] = b * BlockSize + i
    OBVIOUS
  <2>2. b \in Nat /\ b <= NumBlocks - 1 /\ i \in Nat /\ i <= BlockSize - 1
    BY <1>1 DEF Blocks
  <2>3. (b + 1) * BlockSize <= NumBlocks * BlockSize
    BY <1>1, <2>2
  <2>4. b * BlockSize + i \in IPs
    BY <1>1, <2>2, <2>3 DEF IPs
  <2>5. QED
    BY <1>1, <2>1, <2>4, BlockOfAddress DEF IPsOf
<1>3. f \in [B \X (0 .. BlockSize - 1) -> IPsOf(B)]
  BY <1>2
<1> HIDE DEF f
<1>4. ASSUME NEW x \in B \X (0 .. BlockSize - 1), NEW y \in B \X (0 .. BlockSize - 1), f[x] = f[y]
      PROVE  x = y
  <2>1. PICK b \in B, i \in 0 .. BlockSize - 1 : x = <<b, i>>
    OBVIOUS
  <2>2. PICK c \in B, j \in 0 .. BlockSize - 1 : y = <<c, j>>
    OBVIOUS
  <2>3. b = c
    BY <1>2, <1>4, <2>1, <2>2
  <2>4. b * BlockSize + i = b * BlockSize + j
    BY <1>2, <1>4, <2>1, <2>2, <2>3
  <2>5. b * BlockSize \in Nat
    BY <1>1
  <2>6. QED
    BY <1>1, <2>1, <2>2, <2>3, <2>4, <2>5
<1>5. ASSUME NEW z \in IPsOf(B)
      PROVE  \E x \in B \X (0 .. BlockSize - 1) : f[x] = z
  <2>1. z \in Nat /\ BlockOf(z) \in B
    BY <1>1 DEF IPsOf, IPs
  <2> DEFINE i == z - BlockOf(z) * BlockSize
  <2>2. i \in 0 .. BlockSize - 1
    BY <1>1, <2>1 DEF BlockOf
  <2>3. f[<<BlockOf(z), i>>] = BlockOf(z) * BlockSize + i
    BY <1>2, <2>1, <2>2
  <2>4. BlockOf(z) * BlockSize + i = z
    <3>1. \A b, y \in Nat : b * BlockSize + (y - b * BlockSize) = y
      BY <1>1
    <3>2. BlockOf(z) \in Nat /\ z \in Nat
      BY <1>1, <2>1
    <3>3. QED
      BY <3>1, <3>2
  <2> HIDE DEF i
  <2>5. QED
    BY <2>1, <2>2, <2>3, <2>4
<1>6. IsFiniteSet(B) /\ Cardinality(B) \in Nat
  BY SizesAreNatural
<1>7. IsFiniteSet(0 .. BlockSize - 1) /\ Cardinality(0 .. BlockSize - 1) = BlockSize
  BY <1>1, FS_Interval
<1>8. /\ IsFiniteSet(B \X (0 .. BlockSize - 1))
      /\ Cardinality(B \X (0 .. BlockSize - 1)) = Cardinality(B) * BlockSize
  BY <1>6, <1>7, FS_Product
<1>9. QED
  BY <1>3, <1>4, <1>5, <1>8, CountByMatching

\* As many IPBlocks as BlocksFor says hold the addresses they are for.
LEMMA BlocksForEnough ==
  ASSUME NEW n \in Nat \ {0}
  PROVE  /\ BlocksFor(n) \in Nat \ {0}
         /\ n <= BlocksFor(n) * BlockSize
<1>1. BlockSize \in Nat /\ BlockSize > 0
  BY BlockSizeAssumption
<1>2. /\ BlocksFor(n) \in Int
      /\ BlockSize * BlocksFor(n) <= n + BlockSize - 1
      /\ n + BlockSize - 1 < BlockSize * (BlocksFor(n) + 1)
  BY <1>1 DEF BlocksFor
<1>3. n <= BlocksFor(n) * BlockSize
  BY <1>1, <1>2
<1>4. QED
  BY <1>1, <1>2, <1>3

\* IPRanges.Slice returns as many addresses as were asked for, or all there are.
LEMMA LowestSize ==
  ASSUME NEW S \in SUBSET Nat, IsFiniteSet(S), NEW n \in Nat
  PROVE  /\ Cardinality(S) <= n => Lowest(S, n) = S
         /\ n <= Cardinality(S) => Cardinality(Lowest(S, n)) = n
<1> DEFINE below == [x \in S |-> Cardinality({y \in S : y < x})]
<1>1. Cardinality(S) \in Nat
  BY FS_CardinalityType
<1>2. below \in Bijection(S, 0 .. Cardinality(S) - 1)
  BY RankNumbers
<1>3. Lowest(S, n) = {x \in S : below[x] < n}
  BY DEF Lowest
<1> HIDE DEF below
<1>4. /\ below \in [S -> 0 .. Cardinality(S) - 1]
      /\ \A x, z \in S : below[x] = below[z] => x = z
      /\ \A i \in 0 .. Cardinality(S) - 1 : \E x \in S : below[x] = i
  <2> DEFINE T == 0 .. Cardinality(S) - 1
  <2>1. below \in Bijection(S, T)
    BY <1>2
  <2> HIDE DEF T
  <2>2. /\ below \in [S -> T]
        /\ \A x, z \in S : below[x] = below[z] => x = z
        /\ \A i \in T : \E x \in S : below[x] = i
    BY <2>1 DEF Bijection, Injection, Surjection, IsInjective
  <2>3. QED
    BY <2>2 DEF T
<1>5. ASSUME Cardinality(S) <= n PROVE Lowest(S, n) = S
  <2>1. ASSUME NEW x \in S PROVE below[x] < n
    <3>1. below[x] \in 0 .. Cardinality(S) - 1
      BY <1>4
    <3>2. QED
      BY <1>1, <1>5, <3>1
  <2>2. QED
    BY <1>3, <2>1
<1>6. ASSUME n <= Cardinality(S) PROVE Cardinality(Lowest(S, n)) = n
  <2> DEFINE f == [x \in Lowest(S, n) |-> below[x]]
  <2>1. IsFiniteSet(Lowest(S, n))
    BY LowestSelects, FS_Subset
  <2>2. f \in [Lowest(S, n) -> 0 .. n - 1]
    <3> SUFFICES ASSUME NEW x \in Lowest(S, n) PROVE below[x] \in 0 .. n - 1
      OBVIOUS
    <3>1. x \in S /\ below[x] < n
      BY <1>3
    <3>2. below[x] \in 0 .. Cardinality(S) - 1
      BY <1>4, <3>1
    <3>3. QED
      BY <1>1, <3>1, <3>2
  <2>3. \A x, z \in Lowest(S, n) : f[x] = f[z] => x = z
    BY <1>3, <1>4
  <2>4. \A i \in 0 .. n - 1 : \E x \in Lowest(S, n) : f[x] = i
    BY <1>1, <1>3, <1>4, <1>6
  <2>5. Cardinality(0 .. n - 1) = n
    BY FS_Interval
  <2> HIDE DEF f
  <2>6. QED
    BY <2>1, <2>2, <2>3, <2>4, <2>5, CountByMatching
<1>7. QED
  BY <1>5, <1>6
=============================================================================
