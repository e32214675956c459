---------------------------- MODULE MemoryProofs ----------------------------
(***************************************************************************)
(* The buddy allocator for every size of RAM, of pages and of blocks, and  *)
(* every sequence of allocations and releases.  The free blocks and the    *)
(* blocks of the chunks are tiles: aligned, apart, and together the pages  *)
(* that Memory::init found free.  Buddy::insert and Buddy::remove put some *)
(* tiles in place of others that had the same units (Regroup), because     *)
(* the halves of a block are a block and its buddy (Halves, MergedCover).  *)
(* That no two free blocks are buddies makes a failed allocation mean that *)
(* there is no room (NoRoomLeft).                                          *)
(***************************************************************************)
EXTENDS Memory, FiniteSetTheorems, WellFoundedInduction, TLAPS

-----------------------------------------------------------------------------
(* Remainders, smallest numbers and powers of two.  A smallest             *)
(* counterexample takes the place of induction.                            *)

\* A number is its quotient and its remainder.
LEMMA Division ==
  ASSUME NEW n \in Nat \ {0}, NEW x \in Int
  PROVE  /\ x % n \in 0..(n - 1)
         /\ \E k \in Int : x = n * k + (x % n)
<1> DEFINE k == x \div n
           r == x % n
<1>1. r \in 0..(n - 1)
  OBVIOUS
<1>2. k \in Int
  OBVIOUS
<1>3. x = n * k + r
  OBVIOUS
<1>4. QED  BY <1>1, <1>2, <1>3

\* A multiple of n between -n and n is zero.
LEMMA SmallMultiple ==
  ASSUME NEW n \in Nat \ {0}, NEW d \in Int, -n < n * d, n * d < n
  PROVE  d = 0
<1>1. ASSUME d >= 1  PROVE n * d >= n
  BY <1>1
<1>2. ASSUME d <= -1  PROVE n * d <= -n
  BY <1>2
<1>3. QED  BY <1>1, <1>2

\* There is one remainder in range.
LEMMA RemainderUnique ==
  ASSUME NEW n \in Nat \ {0}, NEW k \in Int, NEW r \in 0..(n - 1),
         NEW x \in Int, x = n * k + r
  PROVE  x % n = r
<1>1. PICK q \in Int : x = n * q + (x % n)
  BY Division
<1>2. x % n \in 0..(n - 1)
  BY Division
<1> DEFINE m == x % n
<1> HIDE DEF m
<1>3. m \in 0..(n - 1)
  BY <1>2 DEF m
<1>8. x = n * q + m
  BY <1>1 DEF m
<1>4. n * (k - q) = m - r
  BY <1>3, <1>8
<1>5. k - q = 0
  BY <1>3, <1>4, SmallMultiple
<1>6. m = r
  BY <1>3, <1>8, <1>5
<1>7. QED  BY <1>6 DEF m

\* A non-empty set of numbers has a smallest element.
LEMMA LeastNumber ==
  ASSUME NEW T, T \subseteq Nat, T # {}
  PROVE  \E x \in T : \A y \in T : x <= y
<1> DEFINE R == {ss \in Nat \X Nat : ss[1] < ss[2]}
<1>1. IsWellFoundedOn(R, Nat)
  <2>1. R = OpToRel(<, Nat)
    BY Zenon DEF OpToRel
  <2> QED
    BY <2>1, NatLessThanWellFounded, Zenon
<1> HIDE DEF R
<1>2. PICK x \in T : \A y \in T : ~(<<y, x>> \in R)
  BY <1>1, WFMin, Zenon
<1>3. ASSUME NEW y \in T PROVE x <= y
  <2>1. x \in Nat /\ y \in Nat
    OBVIOUS
  <2>2. y < x => <<y, x>> \in R
    BY <2>1 DEF R
  <2>3. ~(<<y, x>> \in R)
    BY <1>2, Zenon
  <2> QED BY <2>1, <2>2, <2>3
<1> QED BY <1>3, Zenon

\* A power of two is the number of subsets of a set.
LEMMA PowersOfTwo ==
  /\ 2^0 = 1
  /\ \A k \in Nat : 2^k \in Nat \ {0} /\ 2^(k + 1) = 2 * 2^k
<1>1. ASSUME NEW k \in Nat
      PROVE  /\ IsFiniteSet(SUBSET (1..k)) /\ Cardinality(SUBSET (1..k)) = 2^k
             /\ 2^k \in Nat
  <2>1. IsFiniteSet(1..k) /\ Cardinality(1..k) = k
    BY FS_Interval
  <2>2. IsFiniteSet(SUBSET (1..k)) /\ Cardinality(SUBSET (1..k)) = 2^Cardinality(1..k)
    BY <2>1, FS_SUBSET
  <2>3. Cardinality(SUBSET (1..k)) = 2^k
    BY <2>1, <2>2, Zenon
  <2>4. Cardinality(SUBSET (1..k)) \in Nat
    BY <2>2, FS_CardinalityType
  <2> QED BY <2>2, <2>3, <2>4, Zenon
<1>2. 2^0 = 1
  <2>1. SUBSET (1..0) = {{}}
    OBVIOUS
  <2>2. Cardinality({{}}) = 1
    BY FS_Singleton
  <2> QED BY <1>1, <2>1, <2>2, Zenon
<1>3. ASSUME NEW k \in Nat
      PROVE  2^k # 0 /\ 2^(k + 1) = 2 * 2^k
  <2> DEFINE S == SUBSET (1..k)
             T == {s \in SUBSET (1..(k + 1)) : k + 1 \in s}
             f == [s \in S |-> s \cup {k + 1}]
  <2>1. 1..(k + 1) = (1..k) \cup {k + 1} /\ k + 1 \notin 1..k
    OBVIOUS
  <2>2. SUBSET (1..(k + 1)) = S \cup T /\ S \cap T = {}
    BY <2>1
  <2>3. f \in Bijection(S, T)
    <3>1. f \in [S -> T]
      BY <2>1
    <3>2. \A s, r \in S : f[s] = f[r] => s = r
      BY <2>1
    <3>3. \A t \in T : \E s \in S : f[s] = t
      <4> TAKE t \in T
      <4>1. t \ {k + 1} \in S /\ f[t \ {k + 1}] = t
        BY <2>1
      <4> QED BY <4>1
    <3> HIDE DEF S, T, f
    <3>4. f \in Injection(S, T)
      BY <3>1, <3>2, Zenon DEF Injection, IsInjective
    <3>5. f \in Surjection(S, T)
      BY <3>1, <3>3, Zenon DEF Surjection
    <3> QED BY <3>4, <3>5, Zenon DEF Bijection
  <2>4. IsFiniteSet(S) /\ Cardinality(S) = 2^k /\ 2^k \in Nat
    BY <1>1, Zenon
  <2>5. IsFiniteSet(T) /\ Cardinality(T) = Cardinality(S)
    <3>1. ExistsBijection(S, T)
      <4> HIDE DEF S, T, f
      <4> QED BY <2>3 DEF ExistsBijection
    <3> HIDE DEF S, T
    <3> QED BY <2>4, <3>1, FS_Bijection, Zenon
  <2>6. Cardinality(S \cup T) = Cardinality(S) + Cardinality(T) - Cardinality(S \cap T)
    <3> HIDE DEF S, T
    <3> QED BY <2>4, <2>5, FS_Union, Zenon
  <2>7. Cardinality(S \cap T) = 0
    BY <2>2, FS_EmptySet, Zenon
  <2>8. Cardinality(S \cup T) = 2^(k + 1)
    <3>1. k + 1 \in Nat
      OBVIOUS
    <3>2. Cardinality(SUBSET (1..(k + 1))) = 2^(k + 1)
      BY <1>1, <3>1, Zenon
    <3> QED BY <2>2, <3>2, Zenon
  <2>9. {} \in S
    OBVIOUS
  <2>10. Cardinality(S) # 0
    <3> HIDE DEF S
    <3> QED BY <2>4, <2>9, FS_EmptySet
  <2> HIDE DEF S, T
  <2> QED BY <2>4, <2>5, <2>6, <2>7, <2>8, <2>10
<1> QED BY <1>1, <1>2, <1>3

\* A power of two is a multiple of every smaller one, and larger than its
\* exponent.
LEMMA PowersDivide ==
  /\ \A k, j \in Nat : \E m \in Nat \ {0} : 2^(k + j) = m * 2^k
  /\ \A k \in Nat : 2^k > k
<1>1. ASSUME NEW k \in Nat, NEW j \in Nat
      PROVE  \E m \in Nat \ {0} : 2^(k + j) = m * 2^k
  <2> DEFINE Bad == {i \in Nat : ~ \E m \in Nat \ {0} : 2^(k + i) = m * 2^k}
  <2> SUFFICES ASSUME Bad # {} PROVE FALSE
    OBVIOUS
  <2>1. PICK i \in Bad : \A h \in Bad : i <= h
    <3>1. Bad \subseteq Nat /\ Bad # {}
      OBVIOUS
    <3> HIDE DEF Bad
    <3> QED BY <3>1, LeastNumber
  <2>2. k + 0 = k /\ 2^k \in Nat /\ 2^k = 1 * 2^k
    BY PowersOfTwo
  <2>3. i # 0
    BY <2>1, <2>2
  <2>4. i - 1 \in Nat /\ i - 1 \notin Bad /\ k + (i - 1) \in Nat
        /\ (k + (i - 1)) + 1 = k + i
    BY <2>1, <2>3
  <2>5. PICK m \in Nat \ {0} : 2^(k + (i - 1)) = m * 2^k
    BY <2>4
  <2>6. 2^(k + i) = 2 * 2^(k + (i - 1))
    BY <2>4, PowersOfTwo
  <2>7. 2 * m \in Nat \ {0} /\ 2 * (m * 2^k) = (2 * m) * 2^k
    BY <2>2
  <2>8. 2^(k + i) = (2 * m) * 2^k
    BY <2>5, <2>6, <2>7, Zenon
  <2> QED BY <2>1, <2>7, <2>8
<1>2. ASSUME NEW k \in Nat PROVE 2^k > k
  <2> DEFINE Bad == {i \in Nat : ~(2^i > i)}
  <2> SUFFICES ASSUME Bad # {} PROVE FALSE
    OBVIOUS
  <2>1. PICK i \in Bad : \A h \in Bad : i <= h
    <3>1. Bad \subseteq Nat /\ Bad # {}
      OBVIOUS
    <3> HIDE DEF Bad
    <3> QED BY <3>1, LeastNumber
  <2>2. i # 0
    BY <2>1, PowersOfTwo
  <2>3. i - 1 \in Nat /\ i - 1 \notin Bad /\ (i - 1) + 1 = i
    BY <2>1, <2>2
  <2>4. 2^i = 2 * 2^(i - 1) /\ 2^(i - 1) \in Nat
    BY <2>3, PowersOfTwo
  <2>5. 2^(i - 1) > i - 1
    BY <2>3
  <2>6. 2^i > i
    BY <2>3, <2>4, <2>5
  <2> QED BY <2>1, <2>6
<1> QED BY <1>1, <1>2

-----------------------------------------------------------------------------
(* Blocks: powers of two, multiples, buddies.                              *)

\* A larger power of two is larger.
LEMMA PowersGrow ==
  ASSUME NEW k \in Nat, NEW j \in Nat, k < j
  PROVE  2^k < 2^j
<1>1. k + 1 \in Nat /\ j - (k + 1) \in Nat /\ (k + 1) + (j - (k + 1)) = j
  OBVIOUS
<1>2. PICK m \in Nat \ {0} : 2^((k + 1) + (j - (k + 1))) = m * 2^(k + 1)
  BY <1>1, PowersDivide
<1>3. 2^j = m * 2^(k + 1)
  BY <1>1, <1>2, Zenon
<1>4. 2^(k + 1) = 2 * 2^k /\ 2^k \in Nat \ {0}
  BY PowersOfTwo
<1> DEFINE p == 2^k
           q == 2^j
<1>5. p \in Nat \ {0} /\ q = m * (2 * p)
  BY <1>3, <1>4, Zenon
<1> HIDE DEF p, q
<1>6. m * (2 * p) >= 2 * p
  BY <1>5
<1>7. p < q
  BY <1>5, <1>6
<1> QED BY <1>7 DEF p, q

\* Each level's blocks are twice as large as those below it.
LEMMA BlockSizes ==
  /\ \A n \in Nat : BlockSize(n) \in Nat \ {0} /\ BlockSize(n + 1) = 2 * BlockSize(n)
  /\ \A n, m \in Nat : n <= m => \E k \in Nat \ {0} : BlockSize(m) = k * BlockSize(n)
<1>1. Minimum \in Nat
  BY MemoryAssumption
<1>2. ASSUME NEW n \in Nat
      PROVE  BlockSize(n) \in Nat \ {0} /\ BlockSize(n + 1) = 2 * BlockSize(n)
  <2>1. n + Minimum \in Nat /\ (n + 1) + Minimum = (n + Minimum) + 1
    BY <1>1
  <2>2. 2^(n + Minimum) \in Nat \ {0} /\ 2^((n + Minimum) + 1) = 2 * 2^(n + Minimum)
    BY <2>1, PowersOfTwo
  <2>3. 2^((n + 1) + Minimum) = 2 * 2^(n + Minimum)
    BY <2>1, <2>2, Zenon
  <2> QED BY <2>2, <2>3, Zenon DEF BlockSize
<1>3. ASSUME NEW n \in Nat, NEW m \in Nat, n <= m
      PROVE  \E k \in Nat \ {0} : BlockSize(m) = k * BlockSize(n)
  <2>1. n + Minimum \in Nat /\ m - n \in Nat /\ (n + Minimum) + (m - n) = m + Minimum
    BY <1>1, <1>3
  <2>2. PICK k \in Nat \ {0} : 2^((n + Minimum) + (m - n)) = k * 2^(n + Minimum)
    BY <2>1, PowersDivide
  <2>3. 2^(m + Minimum) = k * 2^(n + Minimum)
    BY <2>1, <2>2, Zenon
  <2> QED BY <2>3, Zenon DEF BlockSize
<1> QED BY <1>2, <1>3

Aligned(a, n) == a \in Nat /\ \E q \in Nat : a = q * BlockSize(n)

\* A natural number is a multiple and a remainder.
LEMMA NatDivision ==
  ASSUME NEW b \in Nat \ {0}, NEW x \in Nat
  PROVE  \E q \in Nat, r \in 0..(b - 1) : x = q * b + r /\ x % b = r
<1>0. x \in Int
  OBVIOUS
<1>1. PICK k \in Int : x = b * k + (x % b)
  BY <1>0, Division
<1>2. PICK r \in 0..(b - 1) : r = x % b
  BY Division
<1>3. x = b * k + r
  BY <1>1, <1>2
<1>4. k >= 0
  <2> SUFFICES ASSUME k <= -1 PROVE FALSE
    BY <1>1
  <2>1. b * k <= -b
    OBVIOUS
  <2> QED BY <1>3, <2>1
<1>5. k \in Nat /\ b * k = k * b
  BY <1>4
<1> QED BY <1>2, <1>3, <1>5

\* What Buddy::insert asserts, in terms of multiples.
LEMMA AlignedRemainder ==
  ASSUME NEW a \in Nat, NEW n \in Nat
  PROVE  Aligned(a, n) <=> a % BlockSize(n) = 0
<1>1. BlockSize(n) \in Nat \ {0}
  BY BlockSizes
<1> DEFINE b == BlockSize(n)
<1>2. b \in Nat \ {0}
  BY <1>1
<1> HIDE DEF b
<1>3. ASSUME NEW q \in Nat, a = q * b PROVE a % b = 0
  <2>1. a = b * q + 0 /\ 0 \in 0..(b - 1) /\ q \in Int /\ a \in Int
    BY <1>2, <1>3
  <2> QED BY <1>2, <2>1, RemainderUnique
<1>4. ASSUME a % b = 0 PROVE \E q \in Nat : a = q * b
  <2>1. PICK q \in Nat, r \in 0..(b - 1) : a = q * b + r /\ a % b = r
    BY <1>2, NatDivision
  <2>2. a = q * b
    BY <1>2, <1>4, <2>1
  <2> QED BY <2>2
<1> QED BY <1>3, <1>4 DEF Aligned, b

\* Multiples of b that differ do so by at least b.
LEMMA MultiplesApart ==
  ASSUME NEW b \in Nat, NEW p \in Int, NEW q \in Int, p < q
  PROVE  p * b + b <= q * b
<1>1. (p + 1) * b <= q * b
  <2>1. (q - (p + 1)) * b >= 0
    <3>1. q - (p + 1) \in Nat
      OBVIOUS
    <3> DEFINE d == q - (p + 1)
    <3> HIDE DEF d
    <3>2. d \in Nat
      BY <3>1 DEF d
    <3>3. d * b >= 0
      BY <3>2
    <3> QED BY <3>3 DEF d
  <2>2. (q - (p + 1)) * b = q * b - (p + 1) * b
    OBVIOUS
  <2> QED BY <2>1, <2>2
<1> QED BY <1>1

\* Two blocks are apart, or the smaller lies in the larger.
LEMMA Nested ==
  ASSUME NEW a, NEW n \in Nat, NEW b, NEW m \in Nat, n <= m, Aligned(a, n), Aligned(b, m)
  PROVE  \/ a + BlockSize(n) <= b
         \/ b + BlockSize(m) <= a
         \/ b <= a /\ a + BlockSize(n) <= b + BlockSize(m)
<1>1. BlockSize(n) \in Nat \ {0} /\ BlockSize(m) \in Nat \ {0}
  BY BlockSizes
<1>2. PICK k \in Nat \ {0} : BlockSize(m) = k * BlockSize(n)
  BY BlockSizes
<1>3. PICK q \in Nat : a = q * BlockSize(n)
  BY DEF Aligned
<1>4. PICK r \in Nat : b = r * BlockSize(m)
  BY DEF Aligned
<1> DEFINE s == BlockSize(n)
           t == BlockSize(m)
           f == r * k
<1>5. s \in Nat \ {0} /\ t \in Nat \ {0} /\ a = q * s /\ f \in Nat
  BY <1>1, <1>3
<1>6. b = f * s /\ b + t = (f + k) * s
  <2>1. t = k * s /\ b = r * t /\ s \in Nat
    BY <1>2, <1>4, <1>5
  <2> HIDE DEF s, t
  <2>2. b = r * (k * s)
    BY <2>1
  <2>3. r * (k * s) = (r * k) * s
    BY <2>1
  <2>4. (f + k) * s = f * s + k * s
    BY <2>1
  <2> QED BY <2>1, <2>2, <2>3, <2>4
<1> HIDE DEF s, t, f
<1>7. CASE q < f
  BY <1>5, <1>6, <1>7, MultiplesApart DEF s
<1>8. CASE f <= q /\ q < f + k
  <2>1. f * s <= q * s
    <3>1. CASE f = q
      BY <3>1, <1>5
    <3>2. CASE f < q
      BY <3>2, <1>5, MultiplesApart
    <3> QED BY <1>8, <1>5, <3>1, <3>2
  <2>2. q * s + s <= (f + k) * s
    BY <1>5, <1>8, MultiplesApart
  <2> QED BY <1>5, <1>6, <2>1, <2>2 DEF s, t
<1>9. CASE f + k <= q
  <2>1. (f + k) * s <= q * s
    <3>1. CASE f + k = q
      BY <3>1, <1>5
    <3>2. CASE f + k < q
      BY <3>2, <1>5, MultiplesApart
    <3> QED BY <1>9, <1>5, <3>1, <3>2
  <2> QED BY <1>5, <1>6, <2>1 DEF t
<1> QED BY <1>5, <1>7, <1>8, <1>9

\* The block around an address is the only aligned one that holds it.
LEMMA AlignIs ==
  ASSUME NEW x \in Nat, NEW n \in Nat
  PROVE  /\ Aligned(Align(x, n), n) /\ Align(x, n) <= x /\ x < Align(x, n) + BlockSize(n)
         /\ \A b : Aligned(b, n) /\ b <= x /\ x < b + BlockSize(n) => b = Align(x, n)
<1> DEFINE s == BlockSize(n)
<1>1. s \in Nat \ {0}
  BY BlockSizes
<1> HIDE DEF s
<1>2. PICK q \in Nat, r \in 0..(s - 1) : x = q * s + r /\ x % s = r
  BY <1>1, NatDivision
<1>3. Align(x, n) = q * s /\ q * s \in Nat
  BY <1>1, <1>2 DEF Align, s
<1>4. ASSUME NEW b, NEW k \in Nat, b = k * s, b <= x, x < b + s
      PROVE  k = q
  <2>1. CASE k < q
    <3>1. k * s + s <= q * s
      BY <1>1, <2>1, MultiplesApart
    <3> QED BY <1>1, <1>2, <1>4, <3>1
  <2>2. CASE q < k
    <3>1. q * s + s <= k * s
      BY <1>1, <2>2, MultiplesApart
    <3> QED BY <1>1, <1>2, <1>4, <3>1
  <2> QED BY <2>1, <2>2
<1>5. Aligned(q * s, n)
  BY <1>3 DEF Aligned, s
<1>6. q * s <= x /\ x < q * s + s
  BY <1>1, <1>2
<1>7. ASSUME NEW b, Aligned(b, n), b <= x, x < b + s PROVE b = Align(x, n)
  <2>1. PICK k \in Nat : b = k * s
    BY <1>7 DEF Aligned, s
  <2>2. k = q
    BY <1>4, <1>7, <2>1
  <2> QED BY <1>3, <2>1, <2>2
<1> QED BY <1>3, <1>5, <1>6, <1>7 DEF s

\* The quotient of a multiple.
LEMMA Quotient ==
  ASSUME NEW b \in Nat \ {0}, NEW q \in Nat
  PROVE  (q * b) \div b = q
<1> DEFINE x == q * b
           k == x \div b
           r == x % b
<1>1. x \in Int
  OBVIOUS
<1> HIDE DEF x
<1>2. k \in Int /\ r \in 0..(b - 1) /\ x = b * k + r
  BY <1>1
<1>3. x = b * q + 0 /\ 0 \in 0..(b - 1) /\ q \in Int
  BY DEF x
<1>4. r = 0
  BY <1>1, <1>3, RemainderUnique
<1> HIDE DEF k, r
<1>5. b * (k - q) = 0 /\ k - q \in Int
  BY <1>2, <1>3, <1>4
<1>6. k - q = 0
  BY <1>5, SmallMultiple
<1>7. k = q
  BY <1>2, <1>6
<1> QED BY <1>7 DEF k, x

\* Two buddies are the halves of the block that they are merged to.
LEMMA Halves ==
  ASSUME NEW n \in Nat, NEW a, Aligned(a, n)
  PROVE  /\ \/ /\ a = Align(a, n + 1) /\ buddy(a, n) = Align(a, n + 1) + BlockSize(n)
            \/ /\ a = Align(a, n + 1) + BlockSize(n) /\ buddy(a, n) = Align(a, n + 1)
         /\ Aligned(buddy(a, n), n) /\ buddy(buddy(a, n), n) = a
         /\ Align(buddy(a, n), n + 1) = Align(a, n + 1)
         /\ Aligned(a, n + 1) => a = Align(a, n + 1)
<1> DEFINE s == BlockSize(n)
           c == buddy(a, n)
<1>1. s \in Nat \ {0} /\ BlockSize(n + 1) = 2 * s /\ n + 1 \in Nat /\ a \in Nat
  BY BlockSizes DEF Aligned
<1> HIDE DEF s
<1>2. PICK q \in Nat : a = q * s
  BY DEF Aligned, s
<1>3. \A k \in Nat : k * s \in Nat /\ (k * s) \div s = k
  BY <1>1, Quotient
<1>4. ASSUME NEW k \in Nat
      PROVE  buddy(k * s, n) = IF k % 2 = 0 THEN k * s + s ELSE k * s - s
  BY <1>3 DEF buddy, s
<1>5. ASSUME NEW x \in Nat, NEW h \in Nat, x = (2 * h) * s \/ x = (2 * h) * s + s
      PROVE  Align(x, n + 1) = (2 * h) * s
  <2>1. (2 * h) * s = h * (2 * s) /\ (2 * h) * s \in Nat
    BY <1>1
  <2>2. Aligned((2 * h) * s, n + 1)
    BY <1>1, <2>1 DEF Aligned
  <2>3. (2 * h) * s <= x /\ x < (2 * h) * s + BlockSize(n + 1)
    BY <1>1, <1>5, <2>1
  <2> QED BY <1>1, <2>2, <2>3, AlignIs
<1>6. ASSUME NEW k \in Nat PROVE Aligned(k * s, n)
  BY <1>3 DEF Aligned, s
<1>7. CASE q % 2 = 0
  <2>1. PICK h \in Nat : q = 2 * h
    <3>1. q \div 2 \in Nat /\ q = 2 * (q \div 2)
      BY <1>7
    <3> QED BY <3>1
  <2> DEFINE k == 2 * h + 1
  <2>2. k \in Nat /\ k % 2 # 0 /\ k * s = (2 * h) * s + s /\ k * s - s = (2 * h) * s
        /\ (2 * h) * s \in Nat
    BY <1>1
  <2>3. c = k * s
    BY <1>2, <1>4, <1>7, <2>1, <2>2
  <2> HIDE DEF k
  <2>4. Aligned(c, n) /\ c \in Nat
    BY <1>3, <1>6, <2>2, <2>3
  <2>5. buddy(k * s, n) = k * s - s
    BY <1>4, <2>2
  <2>6. buddy(c, n) = a
    BY <1>2, <2>1, <2>2, <2>3, <2>5
  <2>7. Align(a, n + 1) = (2 * h) * s /\ Align(c, n + 1) = (2 * h) * s
    BY <1>1, <1>2, <1>5, <2>1, <2>2, <2>3, <2>4
  <2>8. a = (2 * h) * s /\ c = (2 * h) * s + s
    BY <1>2, <2>1, <2>2, <2>3
  <2> HIDE DEF c
  <2> QED BY <2>4, <2>6, <2>7, <2>8 DEF s, c
<1>8. CASE q % 2 # 0
  <2>1. PICK h \in Nat : q = 2 * h + 1
    <3>1. q \div 2 \in Nat /\ q = 2 * (q \div 2) + 1
      BY <1>8
    <3> QED BY <3>1
  <2> DEFINE k == 2 * h
  <2>2. k \in Nat /\ k % 2 = 0 /\ q * s = k * s + s /\ k * s \in Nat /\ q * s - s = k * s
    BY <1>1, <2>1
  <2>3. c = k * s
    BY <1>2, <1>4, <1>8, <2>2
  <2>4. Aligned(c, n) /\ c \in Nat
    BY <1>6, <2>2, <2>3
  <2>5. buddy(k * s, n) = k * s + s
    BY <1>4, <2>2
  <2>6. buddy(c, n) = a
    BY <1>2, <2>2, <2>3, <2>5
  <2>7. Align(a, n + 1) = k * s /\ Align(c, n + 1) = k * s
    BY <1>1, <1>2, <1>5, <2>1, <2>2, <2>3, <2>4
  <2>8. a = k * s + s
    BY <1>2, <2>2
  <2>9. ~Aligned(a, n + 1)
    <3> SUFFICES ASSUME Aligned(a, n + 1) PROVE FALSE
      OBVIOUS
    <3>1. a <= a /\ a < a + BlockSize(n + 1)
      BY <1>1
    <3>2. a = Align(a, n + 1)
      BY <1>1, <3>1, AlignIs
    <3> QED BY <1>1, <2>7, <2>8, <3>2
  <2> HIDE DEF c, k
  <2> QED BY <2>3, <2>4, <2>6, <2>7, <2>8, <2>9 DEF s, c
<1>9. Aligned(a, n + 1) => a = Align(a, n + 1)
  <2>1. a <= a /\ a < a + BlockSize(n + 1)
    BY <1>1
  <2> QED BY <1>1, <2>1, AlignIs
<1> QED BY <1>7, <1>8, <1>9

\* Blocks of smaller levels around an address lie in those of larger ones.
LEMMA AlignUp ==
  ASSUME NEW x \in Nat, NEW n \in Nat
  PROVE  Align(x, n + 1) = Align(Align(x, n), n + 1)
<1> DEFINE a == Align(x, n)
           b == Align(a, n + 1)
<1>1. BlockSize(n) \in Nat \ {0} /\ BlockSize(n + 1) = 2 * BlockSize(n) /\ n + 1 \in Nat
  BY BlockSizes
<1>2. Aligned(a, n) /\ a <= x /\ x < a + BlockSize(n) /\ a \in Nat
  BY AlignIs DEF Aligned
<1> HIDE DEF a
<1>3. a = b \/ a = b + BlockSize(n)
  BY <1>2, Halves
<1>4. Aligned(b, n + 1) /\ b \in Nat
  BY <1>1, <1>2, AlignIs DEF Aligned
<1> HIDE DEF b
<1>5. b <= x /\ x < b + BlockSize(n + 1)
  BY <1>1, <1>2, <1>3, <1>4
<1>6. b = Align(x, n + 1)
  BY <1>1, <1>4, <1>5, AlignIs
<1> QED BY <1>6 DEF a, b

\* An address of a block is the block around it, on smaller levels too.
LEMMA AlignDown ==
  ASSUME NEW n \in Nat, NEW m \in Nat, n <= m, NEW a, Aligned(a, m)
  PROVE  Aligned(a, n) /\ Align(a, n) = a
<1>1. PICK k \in Nat \ {0} : BlockSize(m) = k * BlockSize(n)
  BY BlockSizes
<1>2. BlockSize(n) \in Nat \ {0}
  BY BlockSizes
<1>3. PICK q \in Nat : a = q * BlockSize(m)
  BY DEF Aligned
<1>4. a \in Nat /\ a = (q * k) * BlockSize(n) /\ q * k \in Nat
  BY <1>1, <1>2, <1>3 DEF Aligned
<1>5. Aligned(a, n)
  BY <1>4 DEF Aligned
<1>6. a <= a /\ a < a + BlockSize(n)
  BY <1>2, <1>4
<1> QED BY <1>4, <1>5, <1>6, AlignIs

\* The halves of a block have its units, each one of them.
LEMMA HalvesCover ==
  ASSUME NEW n \in Nat, NEW a, Aligned(a, n)
  PROVE  /\ \A u : u \in Units(Align(a, n + 1), n + 1)
                     <=> u \in Units(a, n) \/ u \in Units(buddy(a, n), n)
         /\ \A u : ~(u \in Units(a, n) /\ u \in Units(buddy(a, n), n))
<1> DEFINE s == BlockSize(n)
           b == Align(a, n + 1)
           c == buddy(a, n)
<1>1. s \in Nat \ {0} /\ BlockSize(n + 1) = 2 * s /\ n + 1 \in Nat /\ a \in Nat
  BY BlockSizes DEF Aligned
<1>2. b \in Nat
  BY <1>1, AlignIs DEF Aligned
<1>3. (a = b /\ c = b + s) \/ (a = b + s /\ c = b)
  BY Halves
<1> HIDE DEF s, b, c
<1>4. Units(b, n + 1) = b..(b + 2 * s - 1) /\ Units(a, n) = a..(a + s - 1)
      /\ Units(c, n) = c..(c + s - 1)
  BY <1>1, Zenon DEF Units, s
<1>5. \A u : u \in b..(b + 2 * s - 1) <=> u \in a..(a + s - 1) \/ u \in c..(c + s - 1)
  BY <1>1, <1>2, <1>3
<1>6. \A u : ~(u \in a..(a + s - 1) /\ u \in c..(c + s - 1))
  BY <1>1, <1>2, <1>3
<1> QED BY <1>4, <1>5, <1>6, Zenon DEF b, c

\* Block a of level n and the buddies that it has been merged with up to level m
\* cover the block of level m around it.
LEMMA MergedCover ==
  ASSUME NEW n \in Nat, NEW a, Aligned(a, n), NEW m \in Nat, n <= m
  PROVE  \A u : u \in Units(Align(a, m), m)
                  <=> \/ u \in Units(a, n)
                      \/ \E k \in n..(m - 1) : u \in Units(buddy(Align(a, k), k), k)
<1> DEFINE Covers(l) ==
             \A u : u \in Units(Align(a, l), l)
                      <=> \/ u \in Units(a, n)
                          \/ \E k \in n..(l - 1) : u \in Units(buddy(Align(a, k), k), k)
           Bad == {j \in Nat : ~Covers(n + j)}
<1>1. Covers(n)
  <2>1. Align(a, n) = a
    BY AlignDown
  <2>2. ~ \E k \in n..(n - 1) : TRUE
    OBVIOUS
  <2> QED BY <2>1, <2>2, Zenon
<1>2. ASSUME NEW l \in Nat, n <= l, Covers(l)
      PROVE  Covers(l + 1)
  <2>1. a \in Nat /\ Aligned(Align(a, l), l)
    BY AlignIs DEF Aligned
  <2>2. Align(a, l + 1) = Align(Align(a, l), l + 1)
    BY <2>1, AlignUp
  <2>3. \A u : u \in Units(Align(a, l + 1), l + 1)
                 <=> u \in Units(Align(a, l), l) \/ u \in Units(buddy(Align(a, l), l), l)
    BY <2>1, <2>2, HalvesCover, Zenon
  <2>4. \A k : k \in n..((l + 1) - 1) <=> k \in n..(l - 1) \/ k = l
    BY <1>2
  <2> QED BY <1>2, <2>3, <2>4, Zenon
<1>3. Bad = {}
  <2> SUFFICES ASSUME Bad # {} PROVE FALSE
    OBVIOUS
  <2> HIDE DEF Covers
  <2>1. PICK j \in Bad : \A i \in Bad : j <= i
    <3>1. Bad \subseteq Nat /\ Bad # {}
      OBVIOUS
    <3> HIDE DEF Bad
    <3> QED BY <3>1, LeastNumber
  <2>2. j \in Nat /\ ~Covers(n + j)
    OBVIOUS
  <2>3. j # 0
    <3> SUFFICES ASSUME j = 0 PROVE FALSE
      OBVIOUS
    <3>1. n + j = n
      OBVIOUS
    <3> QED BY <1>1, <2>2, <3>1, Zenon
  <2>4. j - 1 \in Nat /\ j - 1 \notin Bad /\ n + (j - 1) \in Nat /\ n <= n + (j - 1)
        /\ (n + (j - 1)) + 1 = n + j
    BY <2>1, <2>2, <2>3
  <2>5. Covers(n + (j - 1))
    BY <2>4
  <2>6. Covers((n + (j - 1)) + 1)
    BY <1>2, <2>4, <2>5
  <2> QED BY <2>2, <2>4, <2>6, Zenon
<1>4. m - n \in Nat /\ n + (m - n) = m
  OBVIOUS
<1>5. Covers(n + (m - n))
  <2> HIDE DEF Covers
  <2> QED BY <1>3, <1>4
<1>6. Covers(m)
  <2> HIDE DEF Covers
  <2> QED BY <1>4, <1>5, Zenon
<1> QED BY <1>6, Zenon

\* These buddies are apart from each other and from the block.
LEMMA MergedApart ==
  ASSUME NEW n \in Nat, NEW a, Aligned(a, n), NEW k \in Nat, n <= k
  PROVE  /\ Aligned(Align(a, k), k) /\ Aligned(buddy(Align(a, k), k), k)
         /\ \A u : ~(u \in Units(a, n) /\ u \in Units(buddy(Align(a, k), k), k))
         /\ \A j \in n..(k - 1) : \A u :
              ~(u \in Units(buddy(Align(a, j), j), j) /\ u \in Units(buddy(Align(a, k), k), k))
<1>1. a \in Nat /\ Aligned(Align(a, k), k)
  BY AlignIs DEF Aligned
<1>2. Aligned(buddy(Align(a, k), k), k)
  BY <1>1, Halves
<1>3. \A u : ~(u \in Units(Align(a, k), k) /\ u \in Units(buddy(Align(a, k), k), k))
  BY <1>1, HalvesCover, Zenon
<1>4. \A u : u \in Units(Align(a, k), k)
               <=> \/ u \in Units(a, n)
                   \/ \E j \in n..(k - 1) : u \in Units(buddy(Align(a, j), j), j)
  BY MergedCover, Zenon
<1> QED BY <1>1, <1>2, <1>3, <1>4, Zenon

\* A block has a unit: its address.
LEMMA FirstUnit ==
  ASSUME NEW n \in Nat, NEW a, Aligned(a, n)
  PROVE  a \in Units(a, n)
<1>1. BlockSize(n) \in Nat \ {0} /\ a \in Nat
  BY BlockSizes DEF Aligned
<1> QED BY <1>1 DEF Units

\* Two blocks that share a unit: the smaller one lies in the larger.
LEMMA Overlap ==
  ASSUME NEW a, NEW n \in Nat, NEW b, NEW m \in Nat, n <= m, Aligned(a, n), Aligned(b, m),
         NEW u, u \in Units(a, n), u \in Units(b, m)
  PROVE  /\ \A v \in Units(a, n) : v \in Units(b, m)
         /\ n = m => a = b
<1> DEFINE s == BlockSize(n)
           t == BlockSize(m)
<1>1. s \in Nat \ {0} /\ t \in Nat \ {0} /\ a \in Nat /\ b \in Nat
  BY BlockSizes DEF Aligned
<1>2. a + s <= b \/ b + t <= a \/ (b <= a /\ a + s <= b + t)
  BY Nested
<1>3. Units(a, n) = a..(a + s - 1) /\ Units(b, m) = b..(b + t - 1)
  BY DEF Units
<1>4. n = m => s = t
  OBVIOUS
<1> HIDE DEF s, t
<1>5. u \in a..(a + s - 1) /\ u \in b..(b + t - 1)
  BY <1>3
<1>6. b <= a /\ a + s <= b + t
  BY <1>1, <1>2, <1>5
<1>7. \A v \in a..(a + s - 1) : v \in b..(b + t - 1)
  BY <1>1, <1>6
<1>8. n = m => a = b
  BY <1>1, <1>4, <1>6
<1> QED BY <1>3, <1>7, <1>8, Zenon

\* log2ceil is some exponent, and that of a power of two is its own.
LEMMA Buckets ==
  /\ \A size \in Nat : log2ceil(size) \in Nat /\ bucket(size) \in Nat
  /\ \A k \in Nat : k >= Minimum => bucket(2^k) = k - Minimum
<1> DEFINE Ceil(size, l) == 2^l >= size /\ \A m \in 0..(l - 1) : 2^m < size
<1>1. ASSUME NEW size \in Nat
      PROVE  log2ceil(size) \in 0..size /\ Ceil(size, log2ceil(size))
  <2> DEFINE Large == {l \in Nat : 2^l >= size}
  <2>1. size \in Large
    <3>1. 2^size > size /\ 2^size \in Nat
      BY PowersDivide, PowersOfTwo
    <3> QED BY <3>1
  <2>2. PICK l \in Large : \A m \in Large : l <= m
    <3>1. Large \subseteq Nat /\ Large # {}
      BY <2>1
    <3> HIDE DEF Large
    <3> QED BY <3>1, LeastNumber
  <2>3. l \in 0..size
    BY <2>1, <2>2
  <2>4. Ceil(size, l)
    <3>1. ASSUME NEW m \in 0..(l - 1) PROVE 2^m < size
      <4>1. m \in Nat /\ m \notin Large
        BY <2>2, <2>3
      <4>2. 2^m \in Nat
        BY <4>1, PowersOfTwo
      <4> QED BY <4>1, <4>2
    <3> QED BY <2>2, <3>1
  <2>5. \E x \in 0..size : Ceil(size, x)
    BY <2>3, <2>4
  <2>6. log2ceil(size) = CHOOSE x \in 0..size : Ceil(size, x)
    BY DEF log2ceil
  <2> HIDE DEF Ceil
  <2> QED BY <2>5, <2>6, Zenon
<1>2. ASSUME NEW size \in Nat PROVE log2ceil(size) \in Nat /\ bucket(size) \in Nat
  <2>1. log2ceil(size) \in Nat
    BY <1>1
  <2> QED BY <2>1, MemoryAssumption DEF bucket
<1>3. ASSUME NEW k \in Nat, k >= Minimum PROVE bucket(2^k) = k - Minimum
  <2>1. 2^k \in Nat
    BY PowersOfTwo
  <2> DEFINE l == log2ceil(2^k)
  <2>2. l \in Nat /\ Ceil(2^k, l)
    <3>1. l \in 0..(2^k) /\ Ceil(2^k, l)
      BY <1>1, <2>1
    <3> QED BY <2>1, <3>1
  <2> HIDE DEF l
  <2>3. 2^l \in Nat
    BY <2>2, PowersOfTwo
  <2>4. CASE l < k
    BY <2>1, <2>2, <2>3, <2>4, PowersGrow
  <2>5. CASE k < l
    <3>1. k \in 0..(l - 1)
      BY <2>2, <2>5
    <3>2. 2^k < 2^k
      BY <2>2, <3>1
    <3> QED BY <2>1, <3>2
  <2>6. CASE l = k
    BY <1>3, <2>6, MemoryAssumption DEF bucket, l
  <2> QED BY <2>2, <2>4, <2>5, <2>6
<1> QED BY <1>2, <1>3

-----------------------------------------------------------------------------
(* Tiles: the blocks that are free and the blocks of the chunks, each with   *)
(* its owner.                                                              *)

\* The free blocks and the blocks of chunks; the third part is the owner.
Tiles(F, U) ==
  {t \in Nat \X Levels \X SUBSET U :
     \/ t[3] = {} /\ t[1] \in F[t[2]]
     \/ \E c \in U : t[3] = {c} /\ t[1] = c.start /\ t[2] = bucket(c.size)}

Triple(t) == \E a, n, x : t = <<a, n, x>>

Covers(t, u) == u \in Units(t[1], t[2])

\* Aligned tiles that are apart and together have the units V.
Tiling(T, V) ==
  /\ \A t \in T : t[2] \in Levels /\ Aligned(t[1], t[2])
  /\ \A s, t \in T : \A u : Covers(s, u) /\ Covers(t, u) => s = t
  /\ \A u : u \in V <=> \E t \in T : Covers(t, u)

\* Which triples are tiles.
LEMMA TileIs ==
  ASSUME NEW F, NEW U, NEW a, NEW n, NEW x
  PROVE  <<a, n, x>> \in Tiles(F, U)
           <=> /\ a \in Nat /\ n \in Levels
               /\ \/ x = {} /\ a \in F[n]
                  \/ \E c \in U : x = {c} /\ a = c.start /\ n = bucket(c.size)
<1> DEFINE t == <<a, n, x>>
<1>1. t[1] = a /\ t[2] = n /\ t[3] = x
  OBVIOUS
<1>2. t \in Nat \X Levels \X SUBSET U <=> a \in Nat /\ n \in Levels /\ x \in SUBSET U
  OBVIOUS
<1>3. x = {} => x \in SUBSET U
  OBVIOUS
<1>4. \A c \in U : x = {c} => x \in SUBSET U
  OBVIOUS
<1>5. t \in Tiles(F, U)
        <=> /\ t \in Nat \X Levels \X SUBSET U
            /\ \/ t[3] = {} /\ t[1] \in F[t[2]]
               \/ \E c \in U : t[3] = {c} /\ t[1] = c.start /\ t[2] = bucket(c.size)
  BY Zenon DEF Tiles
<1> HIDE DEF t
<1>6. t \in Tiles(F, U)
        <=> /\ a \in Nat /\ n \in Levels /\ x \in SUBSET U
            /\ \/ x = {} /\ a \in F[n]
               \/ \E c \in U : x = {c} /\ a = c.start /\ n = bucket(c.size)
  BY <1>1, <1>2, <1>5, Zenon
<1>7. t \in Tiles(F, U)
        <=> /\ a \in Nat /\ n \in Levels
            /\ \/ x = {} /\ a \in F[n]
               \/ \E c \in U : x = {c} /\ a = c.start /\ n = bucket(c.size)
  BY <1>3, <1>4, <1>6, Zenon
<1> QED BY <1>7 DEF t

\* Tiles are triples.
LEMMA TilesAreTriples ==
  ASSUME NEW F, NEW U
  PROVE  \A t \in Tiles(F, U) : Triple(t)
<1> SUFFICES ASSUME NEW t \in Tiles(F, U) PROVE Triple(t)
  OBVIOUS
<1>1. t \in Nat \X Levels \X SUBSET U
  BY DEF Tiles
<1>2. t = <<t[1], t[2], t[3]>>
  BY <1>1
<1> QED BY <1>2, Zenon DEF Triple

\* Some tiles R give way to N, which have units of R or units no tile had.
Regroups(T, V, R, N, T2, V2) ==
  /\ \A t \in R : t \in T
  /\ \A t : t \in T2 <=> (t \in T /\ t \notin R) \/ t \in N
  /\ \A t \in N : t[2] \in Levels /\ Aligned(t[1], t[2])
  /\ \A s, t \in N : \A u : Covers(s, u) /\ Covers(t, u) => s = t
  /\ \A t \in N : \A u : Covers(t, u) => u \notin V \/ \E r \in R : Covers(r, u)
  /\ \A u : u \in V2 <=> \/ u \in V /\ ~ \E r \in R : Covers(r, u)
                         \/ \E t \in N : Covers(t, u)

\* Then they are a tiling again.
LEMMA Regroup ==
  ASSUME NEW T, NEW V, NEW R, NEW N, NEW T2, NEW V2,
         Tiling(T, V), Regroups(T, V, R, N, T2, V2)
  PROVE  Tiling(T2, V2)
<1>0. /\ \A t \in R : t \in T
      /\ \A t : t \in T2 <=> (t \in T /\ t \notin R) \/ t \in N
      /\ \A t \in N : t[2] \in Levels /\ Aligned(t[1], t[2])
      /\ \A s, t \in N : \A u : Covers(s, u) /\ Covers(t, u) => s = t
      /\ \A t \in N : \A u : Covers(t, u) => u \notin V \/ \E r \in R : Covers(r, u)
      /\ \A u : u \in V2 <=> \/ u \in V /\ ~ \E r \in R : Covers(r, u)
                             \/ \E t \in N : Covers(t, u)
  BY Zenon DEF Regroups
<1>1. /\ \A t \in T : t[2] \in Levels /\ Aligned(t[1], t[2])
      /\ \A s, t \in T : \A u : Covers(s, u) /\ Covers(t, u) => s = t
      /\ \A u : u \in V <=> \E t \in T : Covers(t, u)
  BY Zenon DEF Tiling
<1>2. ASSUME NEW t \in T2 PROVE t[2] \in Levels /\ Aligned(t[1], t[2])
  BY <1>0, <1>1, Zenon
<1>3. ASSUME NEW s \in T, s \notin R, NEW t \in N, NEW u, Covers(s, u), Covers(t, u)
      PROVE  FALSE
  <2>1. u \in V
    BY <1>1, <1>3, Zenon
  <2>2. PICK r \in R : Covers(r, u)
    BY <1>0, <1>3, <2>1, Zenon
  <2> QED BY <1>0, <1>1, <1>3, <2>2, Zenon
<1>4. ASSUME NEW s \in T2, NEW t \in T2, NEW u, Covers(s, u), Covers(t, u)
      PROVE  s = t
  <2>1. CASE s \in N /\ t \in N
    BY <1>0, <1>4, <2>1, Zenon
  <2>2. CASE s \in N /\ t \notin N
    BY <1>0, <1>3, <1>4, <2>2, Zenon
  <2>3. CASE s \notin N /\ t \in N
    BY <1>0, <1>3, <1>4, <2>3, Zenon
  <2>4. CASE s \notin N /\ t \notin N
    BY <1>0, <1>1, <1>4, <2>4, Zenon
  <2> QED BY <2>1, <2>2, <2>3, <2>4, Zenon
<1>5. ASSUME NEW u PROVE u \in V2 <=> \E t \in T2 : Covers(t, u)
  <2>1. ASSUME u \in V2 PROVE \E t \in T2 : Covers(t, u)
    <3>1. CASE \E t \in N : Covers(t, u)
      BY <1>0, <3>1, Zenon
    <3>2. CASE u \in V /\ ~ \E r \in R : Covers(r, u)
      BY <1>0, <1>1, <3>2, Zenon
    <3> QED BY <1>0, <2>1, <3>1, <3>2, Zenon
  <2>2. ASSUME NEW t \in T2, Covers(t, u) PROVE u \in V2
    <3>1. CASE t \in N
      BY <1>0, <2>2, <3>1, Zenon
    <3>2. CASE t \in T /\ t \notin R
      <4>1. u \in V
        BY <1>1, <2>2, <3>2, Zenon
      <4>2. ASSUME NEW r \in R, Covers(r, u) PROVE FALSE
        BY <1>0, <1>1, <2>2, <3>2, <4>2, Zenon
      <4> QED BY <1>0, <4>1, <4>2, Zenon
    <3> QED BY <1>0, <2>2, <3>1, <3>2, Zenon
  <2> QED BY <2>1, <2>2, Zenon
<1> QED BY <1>2, <1>4, <1>5, Zenon DEF Tiling

\* What Buddy::insert does to the tiles: block a of level n is merged with its
\* buddies up to level m.
LEMMA InsertTiles ==
  ASSUME NEW F, NEW F2, NEW U, NEW V, NEW V2, Tiling(Tiles(F, U), V),
         NEW n \in Levels, NEW m \in Levels, n <= m, NEW a, Aligned(a, n),
         \A k \in n..(m - 1) : buddy(Align(a, k), k) \in F[k],
         \A k \in Levels :
           \A x : x \in F2[k] <=> \/ k \in n..(m - 1) /\ x \in F[k]
                                     /\ x # buddy(Align(a, k), k)
                                  \/ k = m /\ (x \in F[k] \/ x = Align(a, m))
                                  \/ k \notin n..m /\ x \in F[k],
         \A u : u \in Units(a, n) => u \notin V,
         \A u : u \in V2 <=> u \in V \/ u \in Units(a, n)
  PROVE  Tiling(Tiles(F2, U), V2)
<1> DEFINE R == {<<buddy(Align(a, k), k), k, {}>> : k \in n..(m - 1)}
           N == {<<Align(a, m), m, {}>>}
<1>1. Minimum \in Nat /\ Maximum \in Nat /\ Levels = 0..Maximum
  BY MemoryAssumption DEF Levels, Maximum
<1>2. n \in Nat /\ m \in Nat /\ a \in Nat
  BY <1>1 DEF Aligned
<1>3. \A k \in n..(m - 1) : k \in Nat /\ k \in Levels /\ n <= k
  BY <1>1, <1>2
<1>4. Aligned(Align(a, m), m)
  BY <1>2, AlignIs
<1>5. \A k \in n..(m - 1) : buddy(Align(a, k), k) \in Nat
  <2> SUFFICES ASSUME NEW k \in n..(m - 1) PROVE buddy(Align(a, k), k) \in Nat
    OBVIOUS
  <2>1. Aligned(buddy(Align(a, k), k), k)
    BY <1>2, <1>3, MergedApart
  <2> QED BY <2>1 DEF Aligned
<1>0. \A x, k, o, u : Covers(<<x, k, o>>, u) <=> u \in Units(x, k)
  BY DEF Covers
<1>7. \A u : (\E t \in N : Covers(t, u)) <=> u \in Units(Align(a, m), m)
  BY DEF Covers
<1>8. \A u : u \in Units(Align(a, m), m)
               <=> \/ u \in Units(a, n)
                   \/ \E k \in n..(m - 1) : u \in Units(buddy(Align(a, k), k), k)
  BY <1>2, MergedCover
<1>9. \A t \in R : t \in Tiles(F, U)
  <2> SUFFICES ASSUME NEW k \in n..(m - 1)
               PROVE  <<buddy(Align(a, k), k), k, {}>> \in Tiles(F, U)
    OBVIOUS
  <2> QED BY <1>3, <1>5, TileIs, Zenon
<1>10. \A x, k, o : <<x, k, o>> \in R
                      <=> k \in n..(m - 1) /\ x = buddy(Align(a, k), k) /\ o = {}
  OBVIOUS
<1>11. \A x, k, o : <<x, k, o>> \in N <=> k = m /\ x = Align(a, m) /\ o = {}
  OBVIOUS
<1>12. (\A t \in R : Triple(t)) /\ (\A t \in N : Triple(t))
  BY Zenon DEF Triple
<1>13. \A t \in N : t[2] \in Levels /\ Aligned(t[1], t[2])
  BY <1>4
<1>14. \A s, t \in N : \A u : Covers(s, u) /\ Covers(t, u) => s = t
  OBVIOUS
<1> HIDE DEF R, N
<1>6. \A u : (\E r \in R : Covers(r, u))
               <=> \E k \in n..(m - 1) : u \in Units(buddy(Align(a, k), k), k)
  <2> SUFFICES ASSUME NEW u
               PROVE  (\E r \in R : Covers(r, u))
                        <=> \E k \in n..(m - 1) : u \in Units(buddy(Align(a, k), k), k)
    OBVIOUS
  <2>1. ASSUME NEW r \in R, Covers(r, u)
        PROVE  \E k \in n..(m - 1) : u \in Units(buddy(Align(a, k), k), k)
    <3>1. PICK x, k, o : r = <<x, k, o>>
      BY <1>12, Zenon DEF Triple
    <3>2. u \in Units(x, k)
      BY <1>0, <2>1, <3>1, Zenon
    <3>3. k \in n..(m - 1) /\ x = buddy(Align(a, k), k)
      BY <1>10, <3>1, Zenon
    <3> QED BY <3>2, <3>3, Zenon
  <2>2. ASSUME NEW k \in n..(m - 1), u \in Units(buddy(Align(a, k), k), k)
        PROVE  \E r \in R : Covers(r, u)
    <3>1. <<buddy(Align(a, k), k), k, {}>> \in R
      BY <1>10, Zenon
    <3>2. Covers(<<buddy(Align(a, k), k), k, {}>>, u)
      BY <1>0, <2>2, Zenon
    <3> QED BY <3>1, <3>2, Zenon
  <2> QED BY <2>1, <2>2, Zenon
<1>15. ASSUME NEW x, NEW k, NEW o
       PROVE  <<x, k, o>> \in Tiles(F2, U)
                <=> \/ <<x, k, o>> \in Tiles(F, U) /\ <<x, k, o>> \notin R
                    \/ <<x, k, o>> \in N
  <2> DEFINE Owned == \E c \in U : o = {c} /\ x = c.start /\ k = bucket(c.size)
  <2>1. <<x, k, o>> \in Tiles(F2, U)
          <=> x \in Nat /\ k \in Levels /\ ((o = {} /\ x \in F2[k]) \/ Owned)
    BY TileIs, Zenon
  <2>2. <<x, k, o>> \in Tiles(F, U)
          <=> x \in Nat /\ k \in Levels /\ ((o = {} /\ x \in F[k]) \/ Owned)
    BY TileIs, Zenon
  <2>3. Owned => o # {}
    OBVIOUS
  <2> HIDE DEF Owned
  <2>4. CASE k \notin Levels
    <3>1. k # m
      BY <2>4, Zenon
    <3>2. <<x, k, o>> \notin N
      BY <1>11, <3>1, Zenon
    <3> QED BY <2>1, <2>2, <2>4, <3>2, Zenon
  <2>5. CASE k \in Levels /\ o # {}
    BY <1>10, <1>11, <2>1, <2>2, <2>5, Zenon
  <2>6. CASE k \in Levels /\ o = {}
    <3>1. x \in F2[k] <=> \/ k \in n..(m - 1) /\ x \in F[k] /\ x # buddy(Align(a, k), k)
                          \/ k = m /\ (x \in F[k] \/ x = Align(a, m))
                          \/ k \notin n..m /\ x \in F[k]
      BY <2>6, Zenon
    <3>2. Align(a, m) \in Nat
      BY <1>4 DEF Aligned
    <3>3. k \in n..(m - 1) => k # m /\ k \in n..m
      BY <1>2
    <3>4. k \in n..m => k = m \/ k \in n..(m - 1)
      BY <1>2
    <3>5. m \in n..m
      BY <1>2
    <3>6. x \in F2[k] <=> \/ x \in F[k] /\ ~(k \in n..(m - 1) /\ x = buddy(Align(a, k), k))
                          \/ k = m /\ x = Align(a, m)
      BY <3>1, <3>3, <3>4, <3>5, Zenon
    <3> QED BY <1>10, <1>11, <2>1, <2>2, <2>3, <2>6, <3>2, <3>6, Zenon
  <2> QED BY <2>4, <2>5, <2>6, Zenon
<1>16. \A t : t \in Tiles(F2, U) <=> (t \in Tiles(F, U) /\ t \notin R) \/ t \in N
  <2> SUFFICES ASSUME NEW t
               PROVE  t \in Tiles(F2, U) <=> (t \in Tiles(F, U) /\ t \notin R) \/ t \in N
    OBVIOUS
  <2>1. CASE t \in Tiles(F2, U) \/ t \in Tiles(F, U) \/ t \in N
    <3>0. Triple(t)
      BY <1>12, <2>1, TilesAreTriples, Zenon
    <3>1. PICK x, k, o : t = <<x, k, o>>
      BY <3>0, Zenon DEF Triple
    <3> QED BY <1>15, <3>1, Zenon
  <2> QED BY <2>1, Zenon
<1>17. \A t \in N : \A u : Covers(t, u) => u \notin V \/ \E r \in R : Covers(r, u)
  <2> SUFFICES ASSUME NEW u, \E t \in N : Covers(t, u)
               PROVE  u \notin V \/ \E r \in R : Covers(r, u)
    OBVIOUS
  <2> QED BY <1>6, <1>7, <1>8, Zenon
<1>18. \A r \in R : \A u : Covers(r, u) => u \in V
  BY <1>9, Zenon DEF Tiling
<1>19. \A u : u \in V2 <=> \/ u \in V /\ ~ \E r \in R : Covers(r, u)
                           \/ \E t \in N : Covers(t, u)
  BY <1>6, <1>7, <1>8, <1>18, Zenon
<1> DEFINE T == Tiles(F, U)
           T2 == Tiles(F2, U)
<1>20. Regroups(T, V, R, N, T2, V2)
  BY <1>9, <1>13, <1>14, <1>16, <1>17, <1>19, Zenon DEF Regroups
<1> HIDE DEF T, T2
<1>21. Tiling(T, V)
  BY DEF T
<1>22. Tiling(T2, V2)
  BY <1>20, <1>21, Regroup, Zenon
<1> QED BY <1>22 DEF T2

\* What Memory::free takes out first: the chunk's tile.
LEMMA ReleaseTile ==
  ASSUME NEW F, NEW U, NEW V, NEW V2, Tiling(Tiles(F, U), V), NEW c \in U,
         c.start \in Nat, bucket(c.size) \in Levels,
         \A u : u \in V2 <=> u \in V /\ u \notin Units(c.start, bucket(c.size))
  PROVE  Tiling(Tiles(F, U \ {c}), V2)
<1> DEFINE r == <<c.start, bucket(c.size), {c}>>
           R == {r}
           N == {}
<1>1. r \in Tiles(F, U)
  BY TileIs, Zenon
<1>2. \A u : Covers(r, u) <=> u \in Units(c.start, bucket(c.size))
  BY DEF Covers
<1>3. ASSUME NEW x, NEW k, NEW o
      PROVE  <<x, k, o>> \in Tiles(F, U \ {c})
               <=> <<x, k, o>> \in Tiles(F, U) /\ <<x, k, o>> # r
  <2>1. <<x, k, o>> \in Tiles(F, U \ {c})
          <=> x \in Nat /\ k \in Levels
              /\ \/ o = {} /\ x \in F[k]
                 \/ \E d \in U \ {c} : o = {d} /\ x = d.start /\ k = bucket(d.size)
    BY TileIs, Zenon
  <2>2. <<x, k, o>> \in Tiles(F, U)
          <=> x \in Nat /\ k \in Levels
              /\ \/ o = {} /\ x \in F[k]
                 \/ \E d \in U : o = {d} /\ x = d.start /\ k = bucket(d.size)
    BY TileIs, Zenon
  <2>3. <<x, k, o>> = r <=> x = c.start /\ k = bucket(c.size) /\ o = {c}
    OBVIOUS
  <2>4. \A d : {d} = {c} => d = c
    OBVIOUS
  <2>5. {c} # {}
    OBVIOUS
  <2>6. \A d : d \in U \ {c} <=> d \in U /\ d # c
    OBVIOUS
  <2> HIDE DEF r
  <2> QED BY <2>1, <2>2, <2>3, <2>4, <2>5, <2>6, Zenon
<1>4. \A t : t \in Tiles(F, U \ {c}) <=> (t \in Tiles(F, U) /\ t \notin R) \/ t \in N
  <2> SUFFICES ASSUME NEW t
               PROVE  t \in Tiles(F, U \ {c}) <=> t \in Tiles(F, U) /\ t # r
    BY Zenon
  <2>1. CASE t \in Tiles(F, U \ {c}) \/ t \in Tiles(F, U)
    <3>0. Triple(t)
      BY <2>1, TilesAreTriples, Zenon
    <3>1. PICK x, k, o : t = <<x, k, o>>
      BY <3>0, Zenon DEF Triple
    <3> HIDE DEF r
    <3> QED BY <1>3, <3>1, Zenon
  <2> QED BY <2>1, Zenon
<1> HIDE DEF r
<1>5. \A t \in R : t \in Tiles(F, U)
  BY <1>1
<1>6. \A t : t \notin N
  OBVIOUS
<1>7. \A u : u \in V2 <=> \/ u \in V /\ ~ \E t \in R : Covers(t, u)
                          \/ \E t \in N : Covers(t, u)
  BY <1>2, Zenon
<1> DEFINE T == Tiles(F, U)
           T2 == Tiles(F, U \ {c})
<1>9. \A t \in N : t[2] \in Levels /\ Aligned(t[1], t[2])
  BY <1>6, Zenon
<1>10. \A s, t \in N : \A u : Covers(s, u) /\ Covers(t, u) => s = t
  BY <1>6, Zenon
<1>11. \A t \in N : \A u : Covers(t, u) => u \notin V \/ \E s \in R : Covers(s, u)
  BY <1>6, Zenon
<1> HIDE DEF R, N
<1>12. Regroups(T, V, R, N, T2, V2)
  BY <1>4, <1>5, <1>7, <1>9, <1>10, <1>11, Zenon DEF Regroups
<1> HIDE DEF T, T2
<1>13. Tiling(T, V)
  BY DEF T
<1>14. Tiling(T2, V2)
  BY <1>12, <1>13, Regroup, Zenon
<1> QED BY <1>14 DEF T2

\* What Buddy::remove and Memory::alloc do to the tiles: a free block of level i
\* is split down to level n, and its first part becomes the chunk's.
LEMMA RemoveTiles ==
  ASSUME NEW F, NEW F2, NEW U, NEW V, Tiling(Tiles(F, U), V),
         NEW n \in Levels, NEW i \in Levels, n <= i, NEW node, node \in F[i], node \in Nat,
         NEW c, c.start = node, bucket(c.size) = n, c \notin U,
         \A k \in Levels :
           \A x : x \in F2[k] <=> \/ k = i /\ x \in F[k] /\ x # node
                                  \/ k \in n..(i - 1) /\ (x \in F[k] \/ x = buddy(node, k))
                                  \/ k \notin n..i /\ x \in F[k],
         \A k \in n..(i - 1) : F[k] = {}
  PROVE  Tiling(Tiles(F2, U \cup {c}), V)
<1> DEFINE r == <<node, i, {}>>
           R == {r}
           p == <<node, n, {c}>>
           N == {<<buddy(node, k), k, {}>> : k \in n..(i - 1)} \cup {p}
<1>1. Minimum \in Nat /\ Maximum \in Nat /\ Levels = 0..Maximum
  BY MemoryAssumption DEF Levels, Maximum
<1>2. n \in Nat /\ i \in Nat
  BY <1>1
<1>3. \A k \in n..(i - 1) : /\ k \in Nat /\ k \in Levels
                           /\ n <= k /\ k <= i /\ k # i /\ k + 1 \in Nat
  BY <1>1, <1>2
<1>4. r \in Tiles(F, U)
  BY TileIs, Zenon
<1>5. Aligned(node, i)
  <2>1. Aligned(r[1], r[2])
    BY <1>4, Zenon DEF Tiling
  <2> QED BY <2>1
<1>6. \A k \in Nat : k <= i => Aligned(node, k) /\ Align(node, k) = node
  BY <1>2, <1>5, AlignDown
<1>7. \A k \in n..(i - 1) : Aligned(buddy(node, k), k) /\ buddy(node, k) \in Nat
  <2> SUFFICES ASSUME NEW k \in n..(i - 1) PROVE Aligned(buddy(node, k), k)
    BY DEF Aligned
  <2> QED BY <1>3, <1>6, Halves
<1>8. \A u : Covers(r, u) <=> u \in Units(node, i)
  BY DEF Covers
<1>15. \A x, k, o, u : Covers(<<x, k, o>>, u) <=> u \in Units(x, k)
  BY DEF Covers
<1>10. \A u : u \in Units(node, i)
                <=> \/ u \in Units(node, n)
                    \/ \E k \in n..(i - 1) : u \in Units(buddy(node, k), k)
  <2>1. \A u : u \in Units(Align(node, i), i)
                 <=> \/ u \in Units(node, n)
                     \/ \E k \in n..(i - 1) : u \in Units(buddy(Align(node, k), k), k)
    BY <1>2, <1>6, MergedCover
  <2>2. \A k \in n..(i - 1) : Align(node, k) = node
    BY <1>3, <1>6
  <2>3. Align(node, i) = node
    BY <1>2, <1>6
  <2> QED BY <2>1, <2>2, <2>3, Zenon
<1>11. \A t \in N : t[2] \in Levels /\ Aligned(t[1], t[2])
  BY <1>2, <1>3, <1>6, <1>7
<1>12. \A x, k, o : <<x, k, o>> \in N
         <=> \/ k \in n..(i - 1) /\ x = buddy(node, k) /\ o = {}
             \/ x = node /\ k = n /\ o = {c}
  OBVIOUS
<1>13. \A t \in N : Triple(t)
  BY Zenon DEF Triple
<1>14. \A x, k, o : <<x, k, o>> = r <=> x = node /\ k = i /\ o = {}
  OBVIOUS
<1> HIDE DEF r, N
<1>9. \A u : (\E t \in N : Covers(t, u))
               <=> \/ u \in Units(node, n)
                   \/ \E k \in n..(i - 1) : u \in Units(buddy(node, k), k)
  <2> SUFFICES ASSUME NEW u
               PROVE  (\E t \in N : Covers(t, u))
                        <=> \/ u \in Units(node, n)
                            \/ \E k \in n..(i - 1) : u \in Units(buddy(node, k), k)
    OBVIOUS
  <2>1. ASSUME NEW t \in N, Covers(t, u)
        PROVE  \/ u \in Units(node, n)
               \/ \E k \in n..(i - 1) : u \in Units(buddy(node, k), k)
    <3>1. PICK x, k, o : t = <<x, k, o>>
      BY <1>13, Zenon DEF Triple
    <3>2. u \in Units(x, k)
      BY <1>15, <2>1, <3>1, Zenon
    <3> QED BY <1>12, <3>1, <3>2, Zenon
  <2>2. ASSUME NEW k \in n..(i - 1), u \in Units(buddy(node, k), k)
        PROVE  \E t \in N : Covers(t, u)
    <3>1. <<buddy(node, k), k, {}>> \in N
      BY <1>12, Zenon
    <3>2. Covers(<<buddy(node, k), k, {}>>, u)
      BY <1>15, <2>2, Zenon
    <3> QED BY <3>1, <3>2, Zenon
  <2>3. ASSUME u \in Units(node, n)
        PROVE  \E t \in N : Covers(t, u)
    <3>1. <<node, n, {c}>> \in N
      BY <1>12, Zenon
    <3>2. Covers(<<node, n, {c}>>, u)
      BY <1>15, <2>3, Zenon
    <3> QED BY <3>1, <3>2, Zenon
  <2> QED BY <2>1, <2>2, <2>3, Zenon
<1>16. \A k \in n..(i - 1) : \A u : ~(u \in Units(node, n) /\ u \in Units(buddy(node, k), k))
  <2> SUFFICES ASSUME NEW k \in n..(i - 1)
               PROVE  \A u : ~(u \in Units(node, n) /\ u \in Units(buddy(node, k), k))
    OBVIOUS
  <2>1. Align(node, k) = node /\ Aligned(node, n)
    BY <1>2, <1>3, <1>6
  <2>2. \A u : ~(u \in Units(node, n) /\ u \in Units(buddy(Align(node, k), k), k))
    BY <1>2, <1>3, <2>1, MergedApart
  <2> QED BY <2>1, <2>2, Zenon
<1>17. \A k, j \in n..(i - 1) : j < k =>
         \A u : ~(u \in Units(buddy(node, j), j) /\ u \in Units(buddy(node, k), k))
  <2> SUFFICES ASSUME NEW k \in n..(i - 1), NEW j \in n..(i - 1), j < k
               PROVE  \A u : ~(/\ u \in Units(buddy(node, j), j)
                                /\ u \in Units(buddy(node, k), k))
    OBVIOUS
  <2>1. Align(node, k) = node /\ Align(node, j) = node /\ Aligned(node, n)
    BY <1>2, <1>3, <1>6
  <2>2. j \in n..(k - 1)
    BY <1>2
  <2>3. \A l \in n..(k - 1) : \A u :
          ~(/\ u \in Units(buddy(Align(node, l), l), l)
            /\ u \in Units(buddy(Align(node, k), k), k))
    BY <1>2, <1>3, <2>1, MergedApart
  <2> QED BY <2>1, <2>2, <2>3, Zenon
<1>18. \A s, t \in N : \A u : Covers(s, u) /\ Covers(t, u) => s = t
  <2> SUFFICES ASSUME NEW s \in N, NEW t \in N, NEW u, Covers(s, u), Covers(t, u)
               PROVE  s = t
    OBVIOUS
  <2>1. PICK x, k, o : s = <<x, k, o>>
    BY <1>13, Zenon DEF Triple
  <2>2. PICK y, j, q : t = <<y, j, q>>
    BY <1>13, Zenon DEF Triple
  <2>3. u \in Units(x, k) /\ u \in Units(y, j)
    BY <1>15, <2>1, <2>2, Zenon
  <2>4. \/ k \in n..(i - 1) /\ x = buddy(node, k) /\ o = {}
        \/ x = node /\ k = n /\ o = {c}
    BY <1>12, <2>1, Zenon
  <2>5. \/ j \in n..(i - 1) /\ y = buddy(node, j) /\ q = {}
        \/ y = node /\ j = n /\ q = {c}
    BY <1>12, <2>2, Zenon
  <2>6. CASE k \in n..(i - 1) /\ x = buddy(node, k) /\ o = {}
    <3>1. CASE j \in n..(i - 1) /\ y = buddy(node, j) /\ q = {}
      <4>1. ~(j < k) /\ ~(k < j)
        BY <1>17, <2>3, <2>6, <3>1, Zenon
      <4>2. j = k
        BY <1>2, <2>6, <3>1, <4>1
      <4> QED BY <2>1, <2>2, <2>6, <3>1, <4>2, Zenon
    <3>2. CASE y = node /\ j = n /\ q = {c}
      BY <1>16, <2>3, <2>6, <3>2, Zenon
    <3> QED BY <2>5, <3>1, <3>2, Zenon
  <2>7. CASE x = node /\ k = n /\ o = {c}
    <3>1. CASE j \in n..(i - 1) /\ y = buddy(node, j) /\ q = {}
      BY <1>16, <2>3, <2>7, <3>1, Zenon
    <3>2. CASE y = node /\ j = n /\ q = {c}
      BY <2>1, <2>2, <2>7, <3>2, Zenon
    <3> QED BY <2>5, <3>1, <3>2, Zenon
  <2> QED BY <2>4, <2>6, <2>7, Zenon
<1>19. ASSUME NEW x, NEW k, NEW o
       PROVE  <<x, k, o>> \in Tiles(F2, U \cup {c})
                <=> \/ <<x, k, o>> \in Tiles(F, U) /\ <<x, k, o>> # r
                    \/ <<x, k, o>> \in N
  <2> DEFINE Owned == \E d \in U : o = {d} /\ x = d.start /\ k = bucket(d.size)
  <2>1. <<x, k, o>> \in Tiles(F2, U \cup {c})
          <=> /\ x \in Nat /\ k \in Levels
              /\ \/ o = {} /\ x \in F2[k]
                 \/ \E d \in U \cup {c} : o = {d} /\ x = d.start /\ k = bucket(d.size)
    BY TileIs
  <2>2. (\E d \in U \cup {c} : o = {d} /\ x = d.start /\ k = bucket(d.size))
          <=> Owned \/ (o = {c} /\ x = node /\ k = n)
    OBVIOUS
  <2>3. <<x, k, o>> \in Tiles(F, U)
          <=> x \in Nat /\ k \in Levels /\ ((o = {} /\ x \in F[k]) \/ Owned)
    BY TileIs
  <2>4. (Owned => o # {}) /\ (o = {c} => o # {})
    OBVIOUS
  <2> HIDE DEF Owned
  <2>5. CASE k \notin Levels
    <3>1. k # n /\ k \notin n..(i - 1)
      BY <1>3, <2>5, Zenon
    <3>2. <<x, k, o>> \notin N
      BY <1>12, <3>1, Zenon
    <3> QED BY <2>1, <2>3, <2>5, <3>2, Zenon
  <2>6. CASE k \in Levels /\ o # {}
    <3>1. <<x, k, o>> # r
      BY <1>14, <2>6, Zenon
    <3>2. <<x, k, o>> \in N <=> x = node /\ k = n /\ o = {c}
      BY <1>12, <2>6, Zenon
    <3> QED BY <2>1, <2>2, <2>3, <2>6, <3>1, <3>2, Zenon
  <2>7. CASE k \in Levels /\ o = {}
    <3>1. x \in F2[k] <=> \/ k = i /\ x \in F[k] /\ x # node
                          \/ k \in n..(i - 1) /\ (x \in F[k] \/ x = buddy(node, k))
                          \/ k \notin n..i /\ x \in F[k]
      BY <2>7, Zenon
    <3>2. k \in n..(i - 1) => x \notin F[k] /\ k # i /\ buddy(node, k) \in Nat
      BY <1>3, <1>7
    <3>3. k \notin n..i => k # i /\ k \notin n..(i - 1)
      BY <1>2
    <3>4. k \in n..i => k = i \/ k \in n..(i - 1)
      BY <1>2
    <3>5. i \in n..i
      BY <1>2
    <3>6. x \in F2[k] <=> \/ x \in F[k] /\ ~(k = i /\ x = node)
                          \/ k \in n..(i - 1) /\ x = buddy(node, k)
      BY <3>1, <3>2, <3>3, <3>4, <3>5, Zenon
    <3>7. <<x, k, o>> \in N <=> k \in n..(i - 1) /\ x = buddy(node, k)
      BY <1>12, <2>4, <2>7, Zenon
    <3>8. <<x, k, o>> = r <=> x = node /\ k = i
      <4>1. <<x, k, o>> = r <=> x = node /\ k = i /\ o = {}
        BY <1>14
      <4> QED BY <2>7, <4>1, Zenon
    <3>9. <<x, k, o>> \in Tiles(F2, U \cup {c}) <=> x \in Nat /\ x \in F2[k]
      BY <2>1, <2>2, <2>4, <2>7, Zenon
    <3>10. <<x, k, o>> \in Tiles(F, U) <=> x \in Nat /\ x \in F[k]
      BY <2>3, <2>4, <2>7, Zenon
    <3> QED BY <3>2, <3>6, <3>7, <3>8, <3>9, <3>10, Zenon
  <2> QED BY <2>5, <2>6, <2>7, Zenon
<1>20. \A t : t \in Tiles(F2, U \cup {c}) <=> (t \in Tiles(F, U) /\ t \notin R) \/ t \in N
  <2> SUFFICES ASSUME NEW t
               PROVE  t \in Tiles(F2, U \cup {c}) <=> (t \in Tiles(F, U) /\ t # r) \/ t \in N
    BY Zenon
  <2>1. CASE t \in Tiles(F2, U \cup {c}) \/ t \in Tiles(F, U) \/ t \in N
    <3>0. Triple(t)
      BY <1>13, <2>1, TilesAreTriples, Zenon
    <3>1. PICK x, k, o : t = <<x, k, o>>
      BY <3>0, Zenon DEF Triple
    <3> QED BY <1>19, <3>1, Zenon
  <2> QED BY <2>1, Zenon
<1>21. \A t \in R : t \in Tiles(F, U)
  BY <1>4
<1>22. \A u : (\E t \in R : Covers(t, u)) <=> u \in Units(node, i)
  BY <1>8
<1> HIDE DEF R
<1>23. \A t \in N : \A u : Covers(t, u) => u \notin V \/ \E s \in R : Covers(s, u)
  BY <1>9, <1>10, <1>22, Zenon
<1>24. \A u : u \in Units(node, i) => u \in V
  BY <1>4, <1>8, Zenon DEF Tiling
<1>25. \A u : u \in V <=> \/ u \in V /\ ~ \E s \in R : Covers(s, u)
                          \/ \E t \in N : Covers(t, u)
  BY <1>9, <1>10, <1>22, <1>24, Zenon
<1> DEFINE T == Tiles(F, U)
           T2 == Tiles(F2, U \cup {c})
<1>26. Regroups(T, V, R, N, T2, V)
  BY <1>11, <1>18, <1>20, <1>21, <1>23, <1>25, Zenon DEF Regroups
<1> HIDE DEF T, T2
<1>27. Tiling(T, V)
  BY DEF T
<1>28. Tiling(T2, V)
  BY <1>26, <1>27, Regroup, Zenon
<1> QED BY <1>28 DEF T2

-----------------------------------------------------------------------------
(* The invariant.                                                          *)

\* Types, and what failed says: no block as large as the size was free.
MemoryTypes ==
  /\ free \in [Levels -> SUBSET Nat]
  /\ \E q \in Int : page = q * PageSize
  /\ page \in Int /\ -PageSize <= page /\ page + PageSize <= RamEnd
  /\ IsFiniteSet(used) /\ used \subseteq [start : Nat, size : Nat]
  /\ \A c \in used : bucket(c.size) \in Levels
  /\ failed \in Nat
  /\ page >= 0 => failed = 0
  /\ failed # 0 => \A i \in Levels : i >= bucket(failed) => free[i] = {}

MemoryInvariant ==
  /\ MemoryTypes
  /\ Tiling(Tiles(free, used), Usable)
  /\ BuddiesMerged

\* The constants, as the proofs use them.
LEMMA MemoryConstants ==
  /\ Minimum \in Nat /\ Maximum \in Nat /\ Levels = 0..Maximum
  /\ PageSize \in Nat \ {0} /\ RamEnd \in Nat
  /\ \E l \in Levels : BlockSize(l) = PageSize /\ bucket(PageSize) = l
<1>1. Minimum \in Nat /\ Order \in Nat /\ Minimum <= Order /\ RamEnd \in Nat
      /\ PageSize \in {2^k : k \in Minimum..Order}
  BY MemoryAssumption
<1>2. PICK k \in Minimum..Order : PageSize = 2^k
  BY <1>1
<1>3. k \in Nat /\ k >= Minimum /\ k - Minimum \in 0..(Order - Minimum)
      /\ (k - Minimum) + Minimum = k
  BY <1>1
<1>4. PageSize \in Nat \ {0}
  BY <1>2, <1>3, PowersOfTwo
<1>5. BlockSize(k - Minimum) = PageSize
  BY <1>2, <1>3, Zenon DEF BlockSize
<1>6. bucket(PageSize) = k - Minimum
  BY <1>2, <1>3, Buckets, Zenon
<1>7. k - Minimum \in Levels
  BY <1>3, Zenon DEF Levels, Maximum
<1>8. Maximum \in Nat
  BY <1>1 DEF Maximum
<1> QED BY <1>1, <1>4, <1>5, <1>6, <1>7, <1>8, Zenon DEF Levels

\* Buddy::insert's loop stops at the first level whose buddy is not free.
LEMMA MergeLevelIs ==
  ASSUME NEW a \in Nat, NEW n \in Levels
  PROVE  /\ MergeLevel(a, n) \in Levels /\ n <= MergeLevel(a, n)
         /\ \/ MergeLevel(a, n) = Maximum
            \/ buddy(Align(a, MergeLevel(a, n)), MergeLevel(a, n))
                 \notin free[MergeLevel(a, n)]
         /\ \A k \in n..(MergeLevel(a, n) - 1) : buddy(Align(a, k), k) \in free[k]
<1> DEFINE Stop(m) == m = Maximum \/ buddy(Align(a, m), m) \notin free[m]
           S == {m \in n..Maximum : Stop(m)}
           m == MergeLevel(a, n)
<1>1. Maximum \in Nat /\ Levels = 0..Maximum /\ n \in 0..Maximum
  BY MemoryConstants, Zenon
<1>2. Maximum \in S
  BY <1>1
<1>3. \E x \in S : \A y \in S : x <= y
  <2>1. S \subseteq Nat /\ S # {}
    BY <1>1, <1>2
  <2> HIDE DEF S
  <2> QED BY <2>1, LeastNumber
<1>4. m = CHOOSE x \in S : \A y \in S : x <= y
  BY Zenon DEF MergeLevel, Smallest
<1> HIDE DEF m
<1>5. m \in S /\ \A y \in S : m <= y
  <2> HIDE DEF S
  <2> QED BY <1>3, <1>4, Zenon
<1> HIDE DEF Stop
<1>6. m \in n..Maximum /\ Stop(m)
  BY <1>5
<1>7. \A k \in n..(m - 1) : ~Stop(k)
  BY <1>1, <1>5, <1>6
<1>8. m \in Levels /\ n <= m
  BY <1>1, <1>6
<1> QED BY <1>6, <1>7, <1>8, Zenon DEF Stop, m

\* Buddy::remove takes from the first level that has a block.
LEMMA FoundIs ==
  ASSUME NEW size \in Nat, Found(size) # {}
  PROVE  /\ Smallest(Found(size)) \in Levels /\ bucket(size) <= Smallest(Found(size))
         /\ \A k \in bucket(size)..(Smallest(Found(size)) - 1) : free[k] = {}
<1> DEFINE i == Smallest(Found(size))
<1>1. Maximum \in Nat /\ Levels = 0..Maximum /\ bucket(size) \in Nat
  BY MemoryConstants, Buckets, Zenon
<1>2. \A x : x \in Found(size) <=> x \in Levels /\ x >= bucket(size) /\ free[x] # {}
  BY DEF Found
<1>3. \E x \in Found(size) : \A y \in Found(size) : x <= y
  <2>1. Found(size) \subseteq Nat
    BY <1>1, <1>2
  <2> QED BY <2>1, LeastNumber
<1>4. i = CHOOSE x \in Found(size) : \A y \in Found(size) : x <= y
  BY Zenon DEF Smallest
<1> HIDE DEF i
<1>5. i \in Found(size) /\ \A y \in Found(size) : i <= y
  BY <1>3, <1>4, Zenon
<1>6. i \in Levels /\ i >= bucket(size)
  BY <1>2, <1>5
<1>7. \A k \in bucket(size)..(i - 1) : k \in Levels /\ k >= bucket(size) /\ ~(i <= k)
  BY <1>1, <1>6
<1>8. \A k \in bucket(size)..(i - 1) : free[k] = {}
  BY <1>2, <1>5, <1>7, Zenon
<1>9. bucket(size) <= i
  BY <1>1, <1>6
<1> QED BY <1>6, <1>8, <1>9 DEF i

-----------------------------------------------------------------------------
(* What the invariant says about the blocks.                               *)

\* The addresses of tiles are in RAM.
LEMMA TilesInRam ==
  ASSUME Tiling(Tiles(free, used), Usable), NEW a, NEW n, NEW x,
         <<a, n, x>> \in Tiles(free, used)
  PROVE  /\ a \in Nat /\ n \in Levels /\ n \in Nat /\ Aligned(a, n)
         /\ a \in Units(a, n) /\ a \in Usable /\ a \in Ram
<1> DEFINE t == <<a, n, x>>
<1>1. t[1] = a /\ t[2] = n
  OBVIOUS
<1>2. \A u : Covers(t, u) <=> u \in Units(a, n)
  BY DEF Covers
<1> HIDE DEF t
<1>3. t \in Tiles(free, used)
  BY DEF t
<1>4. n \in Levels /\ Aligned(a, n)
  BY <1>1, <1>3, Zenon DEF Tiling
<1>5. n \in Nat /\ a \in Nat
  BY <1>4, MemoryConstants DEF Aligned
<1>6. a \in Units(a, n)
  BY <1>4, <1>5, FirstUnit
<1>7. a \in Usable
  BY <1>2, <1>3, <1>6, Zenon DEF Tiling
<1>8. a \in Ram
  BY <1>7, Zenon DEF Usable
<1> QED BY <1>4, <1>5, <1>6, <1>7, <1>8

\* Tiles that share a unit are the same.
LEMMA TilesApart ==
  ASSUME Tiling(Tiles(free, used), Usable),
         NEW a, NEW n, NEW x, <<a, n, x>> \in Tiles(free, used),
         NEW b, NEW m, NEW y, <<b, m, y>> \in Tiles(free, used),
         NEW u, u \in Units(a, n), u \in Units(b, m)
  PROVE  a = b /\ n = m /\ x = y
<1> DEFINE s == <<a, n, x>>
           t == <<b, m, y>>
<1>1. Covers(s, u) /\ Covers(t, u)
  BY DEF Covers
<1>2. s = t => a = b /\ n = m /\ x = y
  OBVIOUS
<1> HIDE DEF s, t
<1>3. s \in Tiles(free, used) /\ t \in Tiles(free, used)
  BY DEF s, t
<1>4. s = t
  BY <1>1, <1>3, Zenon DEF Tiling
<1> QED BY <1>2, <1>4, Zenon

\* A usable unit has a tile.
LEMMA UsableHasTile ==
  ASSUME Tiling(Tiles(free, used), Usable), NEW u \in Usable
  PROVE  \E a, n, x : <<a, n, x>> \in Tiles(free, used) /\ u \in Units(a, n)
<1>1. PICK t \in Tiles(free, used) : Covers(t, u)
  BY Zenon DEF Tiling
<1>2. Triple(t)
  BY TilesAreTriples, Zenon
<1>3. PICK a, n, x : t = <<a, n, x>>
  BY <1>2, Zenon DEF Triple
<1>4. u \in Units(a, n)
  BY <1>1, <1>3 DEF Covers
<1> QED BY <1>1, <1>3, <1>4, Zenon

\* And its units are usable.
LEMMA TileIsUsable ==
  ASSUME Tiling(Tiles(free, used), Usable), NEW a, NEW n, NEW x,
         <<a, n, x>> \in Tiles(free, used)
  PROVE  \A u : u \in Units(a, n) => u \in Usable
<1> SUFFICES ASSUME NEW u, u \in Units(a, n) PROVE u \in Usable
  OBVIOUS
<1>1. Covers(<<a, n, x>>, u)
  BY DEF Covers
<1> QED BY <1>1, Zenon DEF Tiling

\* The tiling is the partition that BlocksPartitionMemory states.
LEMMA TilingIsPartition ==
  MemoryTypes /\ Tiling(Tiles(free, used), Usable) => BlocksPartitionMemory
<1> SUFFICES ASSUME MemoryTypes, Tiling(Tiles(free, used), Usable)
             PROVE  BlocksPartitionMemory
  OBVIOUS
<1> DEFINE B(b, x) == <<b[1], b[2], x>> \in Tiles(free, used) /\ b = <<b[1], b[2]>>
           block(c) == <<c.start, bucket(c.size)>>
<1>0. IsFiniteSet(used) /\ \A c \in used : c.start \in Nat /\ bucket(c.size) \in Levels
  BY DEF MemoryTypes
<1>1. \A b \in FreeBlocks : B(b, {})
  <2> SUFFICES ASSUME NEW b \in FreeBlocks PROVE B(b, {})
    OBVIOUS
  <2>1. b \in Ram \X Levels /\ b[1] \in free[b[2]]
    BY DEF FreeBlocks
  <2>2. b = <<b[1], b[2]>> /\ b[1] \in Ram /\ b[2] \in Levels
    BY <2>1
  <2>3. b[1] \in Nat
    BY <2>2 DEF Ram
  <2>4. <<b[1], b[2], {}>> \in Tiles(free, used)
    BY <2>1, <2>2, <2>3, TileIs
  <2> QED BY <2>2, <2>4, Zenon
<1>2. \A c \in used : <<c.start, bucket(c.size), {c}>> \in Tiles(free, used)
  BY <1>0, TileIs, Zenon
<1>3. \A b \in UsedBlocks : \E c \in used : b = block(c) /\ B(b, {c})
  <2> SUFFICES ASSUME NEW c \in used, NEW b, b = block(c) PROVE B(b, {c})
    BY Zenon DEF UsedBlocks
  <2>1. b[1] = c.start /\ b[2] = bucket(c.size) /\ b = <<b[1], b[2]>>
    OBVIOUS
  <2> QED BY <1>2, <2>1, Zenon
<1>4. \A b \in FreeBlocks \cup UsedBlocks : \E x : B(b, x)
  <2> HIDE DEF B
  <2> QED BY <1>1, <1>3, Zenon
<1>5. ASSUME NEW b, NEW x, B(b, x), NEW d, NEW y, B(d, y),
             NEW u, u \in Units(b[1], b[2]), u \in Units(d[1], d[2])
      PROVE  b = d /\ x = y
  <2>1. b[1] = d[1] /\ b[2] = d[2] /\ x = y
    <3> DEFINE p == b[1]
               n == b[2]
               q == d[1]
               m == d[2]
    <3>1. <<p, n, x>> \in Tiles(free, used) /\ <<q, m, y>> \in Tiles(free, used)
          /\ u \in Units(p, n) /\ u \in Units(q, m)
      BY <1>5, Zenon
    <3> HIDE DEF p, n, q, m, B, block
    <3>2. p = q /\ n = m /\ x = y
      BY <3>1, TilesApart, Zenon
    <3> QED BY <3>2, Zenon DEF p, n, q, m
  <2>2. b = <<b[1], b[2]>> /\ d = <<d[1], d[2]>>
    BY <1>5, Zenon
  <2> QED BY <2>1, <2>2, Zenon
<1>6. ASSUME NEW b, NEW x, B(b, x)
      PROVE  /\ b[1] % BlockSize(b[2]) = 0 /\ b[1] \in Units(b[1], b[2]) /\ b[1] \in Ram
             /\ \A u : u \in Units(b[1], b[2]) => u \in Usable
  <2>1. b[1] \in Nat /\ b[2] \in Nat /\ Aligned(b[1], b[2])
        /\ b[1] \in Units(b[1], b[2]) /\ b[1] \in Ram
    BY <1>6, TilesInRam, Zenon
  <2>2. b[1] % BlockSize(b[2]) = 0
    BY <2>1, AlignedRemainder, Zenon
  <2>3. \A u : u \in Units(b[1], b[2]) => u \in Usable
    BY <1>6, TileIsUsable, Zenon
  <2> QED BY <2>1, <2>2, <2>3, Zenon
<1>7. \A c, d \in used : block(c) = block(d) => c = d
  <2> SUFFICES ASSUME NEW c \in used, NEW d \in used, block(c) = block(d) PROVE c = d
    OBVIOUS
  <2>1. <<c.start, bucket(c.size), {c}>> \in Tiles(free, used)
        /\ <<d.start, bucket(d.size), {d}>> \in Tiles(free, used)
    BY <1>2, Zenon
  <2>2. c.start \in Units(c.start, bucket(c.size))
    BY <2>1, TilesInRam, Zenon
  <2>3. c.start = d.start /\ bucket(c.size) = bucket(d.size)
    OBVIOUS
  <2>4. {c} = {d}
    BY <2>1, <2>2, <2>3, TilesApart, Zenon
  <2> QED BY <2>4
<1>8. Cardinality(UsedBlocks) = Cardinality(used)
  <2> DEFINE f == [c \in used |-> block(c)]
  <2>1. f \in Bijection(used, UsedBlocks)
    <3>1. \A c \in used : f[c] = block(c)
      OBVIOUS
    <3>2. f \in [used -> UsedBlocks]
      BY DEF UsedBlocks
    <3>3. \A b \in UsedBlocks : \E c \in used : f[c] = b
      BY Zenon DEF UsedBlocks
    <3> HIDE DEF f, block
    <3>4. \A c, d \in used : f[c] = f[d] => c = d
      BY <1>7, <3>1, Zenon
    <3> QED BY <3>2, <3>3, <3>4, Zenon DEF Bijection, Injection, Surjection, IsInjective
  <2> HIDE DEF f
  <2>2. ExistsBijection(used, UsedBlocks)
    BY <2>1, Zenon DEF ExistsBijection
  <2>3. IsFiniteSet(UsedBlocks) /\ Cardinality(UsedBlocks) = Cardinality(used)
    BY <1>0, <2>2, FS_Bijection, Zenon
  <2> QED BY <2>3
<1> HIDE DEF B, block
<1>9. \A b \in FreeBlocks \cup UsedBlocks : b[1] % BlockSize(b[2]) = 0
  BY <1>4, <1>6, Zenon
<1>10. FreeBlocks \cap UsedBlocks = {}
  <2> SUFFICES ASSUME NEW b, b \in FreeBlocks, b \in UsedBlocks PROVE FALSE
    BY Zenon
  <2>1. B(b, {})
    BY <1>1, Zenon
  <2>2. PICK c \in used : B(b, {c})
    BY <1>3, Zenon
  <2>3. {} = {c}
    <3>1. b[1] \in Units(b[1], b[2])
      BY <1>6, <2>1, Zenon
    <3> QED BY <1>5, <2>1, <2>2, <3>1, Zenon
  <2> QED BY <2>3
<1>11. \A b, d \in FreeBlocks \cup UsedBlocks :
         b # d => Units(b[1], b[2]) \cap Units(d[1], d[2]) = {}
  BY <1>4, <1>5, Zenon
<1>12. \A u : u \in UNION {Units(b[1], b[2]) : b \in FreeBlocks \cup UsedBlocks}
                <=> u \in Usable
  <2> SUFFICES ASSUME NEW u
               PROVE  (\E b \in FreeBlocks \cup UsedBlocks : u \in Units(b[1], b[2]))
                        <=> u \in Usable
    BY Zenon
  <2>1. ASSUME NEW b \in FreeBlocks \cup UsedBlocks, u \in Units(b[1], b[2])
        PROVE  u \in Usable
    BY <1>4, <1>6, <2>1, Zenon
  <2>2. ASSUME u \in Usable
        PROVE  \E b \in FreeBlocks \cup UsedBlocks : u \in Units(b[1], b[2])
    <3>1. PICK a, n, x : <<a, n, x>> \in Tiles(free, used) /\ u \in Units(a, n)
      BY <2>2, UsableHasTile, Zenon
    <3>2. a \in Ram /\ n \in Levels
      BY <3>1, TilesInRam, Zenon
    <3>3. (x = {} /\ a \in free[n]) \/ \E c \in used : a = c.start /\ n = bucket(c.size)
      BY <3>1, TileIs
    <3>4. <<a, n>>[1] = a /\ <<a, n>>[2] = n
      OBVIOUS
    <3>5. CASE a \in free[n]
      <4>1. <<a, n>> \in FreeBlocks
        BY <3>2, <3>5 DEF FreeBlocks
      <4> QED BY <3>1, <3>4, <4>1, Zenon
    <3>6. CASE \E c \in used : a = c.start /\ n = bucket(c.size)
      <4>1. <<a, n>> \in UsedBlocks
        BY <3>6, Zenon DEF UsedBlocks
      <4> QED BY <3>1, <3>4, <4>1, Zenon
    <3> QED BY <3>3, <3>5, <3>6, Zenon
  <2> QED BY <2>1, <2>2, Zenon
<1>13. UNION {Units(b[1], b[2]) : b \in FreeBlocks \cup UsedBlocks} = Usable
  BY <1>12, Zenon
<1> QED BY <1>8, <1>9, <1>10, <1>11, <1>13, Zenon DEF BlocksPartitionMemory

\* The invariant leaves no room for an allocation that failed: of the free blocks in
\* such a room a smallest one would have its buddy next to it, and free.
LEMMA NoRoomLeft ==
  MemoryInvariant => FailsOnlyWhenFull
<1> SUFFICES ASSUME MemoryInvariant, failed # 0,
                    NEW n \in Levels, n >= bucket(failed),
                    NEW a \in Ram, a % BlockSize(n) = 0,
                    Units(a, n) \subseteq Usable,
                    \A c \in used : Units(a, n) \cap Units(c.start, bucket(c.size)) = {}
             PROVE  FALSE
  BY Zenon DEF FailsOnlyWhenFull
<1>1. MemoryTypes /\ Tiling(Tiles(free, used), Usable) /\ BuddiesMerged
  BY DEF MemoryInvariant
<1>2. Maximum \in Nat /\ Levels = 0..Maximum /\ a \in Nat /\ n \in Nat /\ failed \in Nat
      /\ bucket(failed) \in Nat
  BY <1>1, MemoryConstants, Buckets DEF MemoryTypes, Ram
<1>3. Aligned(a, n)
  BY <1>2, AlignedRemainder
<1>4. \A i \in Levels : i >= bucket(failed) => free[i] = {}
  BY <1>1 DEF MemoryTypes
<1>5. ASSUME NEW u, u \in Units(a, n)
      PROVE  \E x, k : /\ <<x, k, {}>> \in Tiles(free, used) /\ u \in Units(x, k)
                       /\ x \in free[k] /\ k \in 0..(n - 1)
  <2>1. u \in Usable
    BY <1>5, Zenon
  <2>2. PICK x, k, o : <<x, k, o>> \in Tiles(free, used) /\ u \in Units(x, k)
    BY <1>1, <2>1, UsableHasTile, Zenon
  <2>3. \/ o = {} /\ x \in free[k]
        \/ \E c \in used : o = {c} /\ x = c.start /\ k = bucket(c.size)
    BY <2>2, TileIs
  <2>4. CASE \E c \in used : o = {c} /\ x = c.start /\ k = bucket(c.size)
    <3>1. PICK c \in used : x = c.start /\ k = bucket(c.size)
      BY <2>4, Zenon
    <3>2. u \in Units(c.start, bucket(c.size))
      BY <2>2, <3>1, Zenon
    <3> QED BY <1>5, <3>2, Zenon
  <2>5. CASE o = {} /\ x \in free[k]
    <3>1. k \in Levels
      BY <1>1, <2>2, TilesInRam, Zenon
    <3>2. free[k] # {}
      BY <2>5
    <3>3. ~(k >= bucket(failed))
      BY <1>4, <3>1, <3>2, Zenon
    <3>4. k \in 0..(n - 1)
      BY <1>2, <3>1, <3>3
    <3> QED BY <2>2, <2>5, <3>4, Zenon
  <2> QED BY <2>3, <2>4, <2>5, Zenon
<1>6. ASSUME NEW x, NEW k, <<x, k, {}>> \in Tiles(free, used), k \in 0..(n - 1),
             NEW u, u \in Units(x, k), u \in Units(a, n)
      PROVE  x \in Units(a, n)
  <2>1. Aligned(x, k) /\ k \in Nat /\ x \in Units(x, k)
    BY <1>1, <1>6, TilesInRam, Zenon
  <2>2. k <= n
    BY <1>2, <1>6
  <2>3. \A v \in Units(x, k) : v \in Units(a, n)
    BY <1>2, <1>3, <1>6, <2>1, <2>2, Overlap
  <2> QED BY <2>1, <2>3, Zenon
<1> DEFINE K == {k \in 0..(n - 1) : \E x : <<x, k, {}>> \in Tiles(free, used) /\ x \in free[k]
                                           /\ x \in Units(a, n)}
<1>7. K # {}
  <2>1. a \in Units(a, n)
    BY <1>2, <1>3, FirstUnit
  <2>2. PICK x, k : /\ <<x, k, {}>> \in Tiles(free, used) /\ a \in Units(x, k)
                    /\ x \in free[k] /\ k \in 0..(n - 1)
    BY <1>5, <2>1, Zenon
  <2>3. x \in Units(a, n)
    BY <1>6, <2>1, <2>2, Zenon
  <2>4. k \in K
    BY <2>2, <2>3, Zenon
  <2> QED BY <2>4, Zenon
<1>8. PICK k \in K : \A j \in K : k <= j
  <2>1. K \subseteq Nat
    BY <1>2
  <2> HIDE DEF K
  <2> QED BY <1>7, <2>1, LeastNumber
<1>9. k \in 0..(n - 1) /\ k \in Nat /\ k + 1 \in Nat /\ k + 1 <= n /\ k \in 0..(Maximum - 1)
  BY <1>2
<1>10. PICK x : <<x, k, {}>> \in Tiles(free, used) /\ x \in free[k] /\ x \in Units(a, n)
  BY <1>8, Zenon
<1> HIDE DEF K
<1> DEFINE y == buddy(x, k)
           p == Align(x, k + 1)
<1>11. Aligned(x, k) /\ x \in Nat /\ x \in Units(x, k)
  BY <1>1, <1>10, TilesInRam, Zenon
<1>12. Aligned(y, k) /\ y \in Units(y, k) /\ Aligned(p, k + 1)
  <2>1. Aligned(y, k)
    BY <1>9, <1>11, Halves
  <2>2. Aligned(p, k + 1)
    BY <1>9, <1>11, AlignIs
  <2> HIDE DEF y
  <2>3. y \in Units(y, k)
    BY <1>9, <2>1, FirstUnit
  <2> QED BY <2>1, <2>2, <2>3
<1>13. x \in Units(p, k + 1) /\ y \in Units(p, k + 1)
  BY <1>9, <1>11, <1>12, HalvesCover, Zenon
<1> HIDE DEF p
<1>14. y \in Units(a, n)
  <2>1. \A v \in Units(p, k + 1) : v \in Units(a, n)
    BY <1>2, <1>3, <1>9, <1>10, <1>12, <1>13, Overlap
  <2> QED BY <1>13, <2>1, Zenon
<1>15. PICK z, j : /\ <<z, j, {}>> \in Tiles(free, used) /\ y \in Units(z, j)
                   /\ z \in free[j] /\ j \in 0..(n - 1)
  BY <1>5, <1>14, Zenon
<1>16. z \in Units(a, n)
  BY <1>6, <1>14, <1>15, Zenon
<1>17. j \in K
  BY <1>15, <1>16, Zenon DEF K
<1>18. k <= j /\ j \in Nat
  BY <1>8, <1>15, <1>17
<1>19. Aligned(z, j)
  BY <1>1, <1>15, TilesInRam, Zenon
<1>20. CASE j = k
  <2> HIDE DEF y
  <2>1. k <= k
    BY <1>9
  <2>2. Aligned(z, k) /\ y \in Units(z, k)
    BY <1>15, <1>19, <1>20
  <2>3. y = z
    BY <1>9, <1>12, <2>1, <2>2, Overlap
  <2>4. y \in free[k]
    BY <1>15, <1>20, <2>3
  <2> QED BY <1>1, <1>9, <1>10, <2>4, Zenon DEF BuddiesMerged, y
<1>21. CASE k < j
  <2> HIDE DEF y
  <2>1. k + 1 <= j
    BY <1>9, <1>18, <1>21
  <2>2. \A v \in Units(p, k + 1) : v \in Units(z, j)
    BY <1>9, <1>12, <1>13, <1>15, <1>18, <1>19, <2>1, Overlap
  <2>3. x \in Units(z, j)
    BY <1>13, <2>2, Zenon
  <2>4. k = j
    <3>1. <<x, k, {}>> \in Tiles(free, used) /\ <<z, j, {}>> \in Tiles(free, used)
          /\ x \in Units(x, k) /\ x \in Units(z, j) /\ Tiling(Tiles(free, used), Usable)
      BY <1>1, <1>10, <1>11, <1>15, <2>3, Zenon
    <3> QED BY <3>1, TilesApart
  <2> QED BY <1>9, <1>21, <2>4
<1> QED BY <1>9, <1>18, <1>20, <1>21

-----------------------------------------------------------------------------
(* The steps.                                                              *)

\* What Buddy::insert leaves merged.
LEMMA InsertMerges ==
  ASSUME BuddiesMerged, NEW n \in Levels, NEW m \in Levels, n <= m,
         NEW A, Aligned(A, m), m = Maximum \/ buddy(A, m) \notin free[m],
         NEW F, \A k \in Levels : \A x \in F[k] : x \in free[k] \/ (k = m /\ x = A),
         \A k \in Levels : \A x \in free[k] : Aligned(x, k)
  PROVE  \A k \in 0..(Maximum - 1) : \A x \in F[k] : buddy(x, k) \notin F[k]
<1> SUFFICES ASSUME NEW k \in 0..(Maximum - 1), NEW x \in F[k], buddy(x, k) \in F[k]
             PROVE  FALSE
  OBVIOUS
<1>1. Maximum \in Nat /\ Levels = 0..Maximum
  BY MemoryConstants
<1>2. k \in Levels /\ k \in Nat /\ k # Maximum
  BY <1>1
<1>3. x \in free[k] \/ (k = m /\ x = A)
  BY <1>2, Zenon
<1>4. buddy(x, k) \in free[k] \/ (k = m /\ buddy(x, k) = A)
  BY <1>2, Zenon
<1>5. CASE x \in free[k] /\ buddy(x, k) \in free[k]
  BY <1>5, Zenon DEF BuddiesMerged
<1>6. CASE k = m /\ x = A /\ buddy(x, k) \in free[k]
  BY <1>2, <1>6, Zenon
<1>7. CASE x \in free[k] /\ k = m /\ buddy(x, k) = A
  <2>1. Aligned(x, k)
    BY <1>2, <1>7, Zenon
  <2>2. buddy(buddy(x, k), k) = x
    BY <1>2, <2>1, Halves
  <2>3. buddy(A, m) = x
    BY <1>7, <2>2, Zenon
  <2> QED BY <1>2, <1>7, <2>3, Zenon
<1>8. CASE k = m /\ x = A /\ buddy(x, k) = A
  <2>1. ~(x \in Units(x, k) /\ x \in Units(buddy(x, k), k))
    BY <1>2, <1>8, HalvesCover, Zenon
  <2>2. x \in Units(x, k)
    BY <1>2, <1>8, FirstUnit
  <2>3. buddy(x, k) = x
    BY <1>8, Zenon
  <2> QED BY <2>1, <2>2, <2>3, Zenon
<1> QED BY <1>3, <1>4, <1>5, <1>6, <1>7, <1>8, Zenon

\* A block is not its own buddy.
LEMMA BuddyDiffers ==
  ASSUME NEW k \in Nat, NEW x, Aligned(x, k)
  PROVE  buddy(x, k) # x /\ buddy(buddy(x, k), k) = x /\ Aligned(buddy(x, k), k)
<1>1. ~(x \in Units(x, k) /\ x \in Units(buddy(x, k), k))
  BY HalvesCover, Zenon
<1>2. x \in Units(x, k)
  BY FirstUnit
<1>3. buddy(x, k) # x
  <2> SUFFICES ASSUME buddy(x, k) = x PROVE FALSE
    OBVIOUS
  <2> QED BY <1>1, <1>2, Zenon
<1>4. buddy(buddy(x, k), k) = x /\ Aligned(buddy(x, k), k)
  BY Halves
<1> QED BY <1>3, <1>4

\* What Buddy::remove leaves merged.
LEMMA RemoveMerges ==
  ASSUME BuddiesMerged, NEW n \in Levels, NEW i \in Levels, n <= i,
         NEW node, Aligned(node, i), \A k \in n..(i - 1) : free[k] = {},
         NEW F, \A k \in Levels : \A x \in F[k] :
                  x \in free[k] \/ (k \in n..(i - 1) /\ x = buddy(node, k))
  PROVE  \A k \in 0..(Maximum - 1) : \A x \in F[k] : buddy(x, k) \notin F[k]
<1> SUFFICES ASSUME NEW k \in 0..(Maximum - 1), NEW x \in F[k], buddy(x, k) \in F[k]
             PROVE  FALSE
  OBVIOUS
<1>1. Maximum \in Nat /\ Levels = 0..Maximum
  BY MemoryConstants
<1>2. k \in Levels /\ k \in Nat
  BY <1>1
<1>3. x \in free[k] \/ (k \in n..(i - 1) /\ x = buddy(node, k))
  BY <1>2, Zenon
<1>4. buddy(x, k) \in free[k] \/ (k \in n..(i - 1) /\ buddy(x, k) = buddy(node, k))
  BY <1>2, Zenon
<1>5. CASE k \notin n..(i - 1)
  BY <1>3, <1>4, <1>5, Zenon DEF BuddiesMerged
<1>6. CASE k \in n..(i - 1)
  <2>1. x = buddy(node, k) /\ buddy(x, k) = buddy(node, k)
    BY <1>3, <1>4, <1>6
  <2>2. i \in Nat /\ k <= i
    BY <1>1, <1>2, <1>6
  <2>3. Aligned(node, k)
    BY <1>2, <2>2, AlignDown
  <2>4. Aligned(buddy(node, k), k)
    BY <1>2, <2>3, BuddyDiffers
  <2>5. buddy(buddy(node, k), k) # buddy(node, k)
    BY <1>2, <2>4, BuddyDiffers
  <2> QED BY <2>1, <2>5, Zenon
<1> QED BY <1>5, <1>6

\* Free blocks are aligned.
LEMMA FreeAligned ==
  ASSUME MemoryTypes, NEW U, NEW V, Tiling(Tiles(free, U), V)
  PROVE  \A k \in Levels : \A x \in free[k] : x \in Nat /\ Aligned(x, k)
<1> SUFFICES ASSUME NEW k \in Levels, NEW x \in free[k] PROVE x \in Nat /\ Aligned(x, k)
  OBVIOUS
<1>1. x \in Nat
  BY DEF MemoryTypes
<1>2. <<x, k, {}>> \in Tiles(free, U)
  BY <1>1, TileIs
<1> DEFINE t == <<x, k, {}>>
<1>3. t[1] = x /\ t[2] = k
  OBVIOUS
<1> HIDE DEF t
<1>4. t \in Tiles(free, U)
  BY <1>2 DEF t
<1>5. Aligned(t[1], t[2])
  BY <1>4, Zenon DEF Tiling
<1> QED BY <1>1, <1>3, <1>5, Zenon

\* Buddy::insert adds the units of the block, which no tile had.
LEMMA InsertStep ==
  ASSUME MemoryTypes, BuddiesMerged, NEW U, NEW V, NEW V2, Tiling(Tiles(free, U), V),
         NEW a, NEW size, bucket(size) \in Levels, Aligned(a, bucket(size)),
         BuddyInsert(a, size),
         \A u : u \in Units(a, bucket(size)) => u \notin V,
         \A u : u \in V2 <=> u \in V \/ u \in Units(a, bucket(size))
  PROVE  free' \in [Levels -> SUBSET Nat] /\ Tiling(Tiles(free', U), V2) /\ BuddiesMerged'
<1> DEFINE n == bucket(size)
           m == MergeLevel(a, n)
           A == Align(a, m)
           F == [k \in Levels |->
                  IF k \in n..(m - 1) THEN free[k] \ {buddy(Align(a, k), k)}
                  ELSE IF k = m THEN free[k] \cup {A} ELSE free[k]]
<1>1. free' = F
  BY Zenon DEF BuddyInsert
<1>2. Maximum \in Nat /\ Levels = 0..Maximum /\ n \in Levels /\ Aligned(a, n) /\ a \in Nat
  BY MemoryConstants DEF Aligned
<1>3. /\ m \in Levels /\ n <= m
      /\ m = Maximum \/ buddy(A, m) \notin free[m]
      /\ \A k \in n..(m - 1) : buddy(Align(a, k), k) \in free[k]
  <2> HIDE DEF n
  <2> QED BY <1>2, MergeLevelIs, Zenon
<1> HIDE DEF m, n
<1>5. n \in Nat /\ m \in Nat /\ free \in [Levels -> SUBSET Nat]
  BY <1>2, <1>3 DEF MemoryTypes
<1>4. Aligned(A, m) /\ A \in Nat
  BY <1>2, <1>5, AlignIs DEF Aligned
<1> HIDE DEF A
<1>6. F \in [Levels -> SUBSET Nat]
  BY <1>4, <1>5
<1>7. \A k \in Levels :
        \A x : x \in F[k] <=> \/ k \in n..(m - 1) /\ x \in free[k] /\ x # buddy(Align(a, k), k)
                              \/ k = m /\ (x \in free[k] \/ x = A)
                              \/ k \notin n..m /\ x \in free[k]
  <2> SUFFICES ASSUME NEW k \in Levels
               PROVE  \A x : x \in F[k]
                        <=> \/ k \in n..(m - 1) /\ x \in free[k] /\ x # buddy(Align(a, k), k)
                            \/ k = m /\ (x \in free[k] \/ x = A)
                            \/ k \notin n..m /\ x \in free[k]
    OBVIOUS
  <2>1. CASE k \in n..(m - 1)
    <3>1. F[k] = free[k] \ {buddy(Align(a, k), k)}
      BY <2>1
    <3>2. k # m /\ k \in n..m
      BY <1>5, <2>1
    <3> HIDE DEF F
    <3> QED BY <2>1, <3>1, <3>2
  <2>2. CASE k = m
    <3>1. k \notin n..(m - 1) /\ k \in n..m
      BY <1>3, <1>5, <2>2
    <3>2. F[k] = free[k] \cup {A}
      BY <2>2, <3>1
    <3> HIDE DEF F
    <3> QED BY <2>2, <3>1, <3>2
  <2>3. CASE k \notin n..(m - 1) /\ k # m
    <3>1. F[k] = free[k]
      BY <2>3
    <3>2. k \notin n..m
      BY <1>5, <2>3
    <3> HIDE DEF F
    <3> QED BY <2>3, <3>1, <3>2
  <2> QED BY <2>1, <2>2, <2>3
<1> HIDE DEF F
<1>8. \A u : u \in Units(a, n) => u \notin V
  BY DEF n
<1>9. \A u : u \in V2 <=> u \in V \/ u \in Units(a, n)
  BY DEF n
<1>10. Tiling(Tiles(F, U), V2)
  <2>1. \A k \in Levels :
          \A x : x \in F[k] <=> \/ k \in n..(m - 1) /\ x \in free[k]
                                   /\ x # buddy(Align(a, k), k)
                                \/ k = m /\ (x \in free[k] \/ x = Align(a, m))
                                \/ k \notin n..m /\ x \in free[k]
    BY <1>7 DEF A
  <2> QED BY <1>2, <1>3, <1>8, <1>9, <2>1, InsertTiles
<1>11. \A k \in 0..(Maximum - 1) : \A x \in F[k] : buddy(x, k) \notin F[k]
  <2>1. \A k \in Levels : \A x \in F[k] : x \in free[k] \/ (k = m /\ x = A)
    BY <1>7, Zenon
  <2>2. \A k \in Levels : \A x \in free[k] : Aligned(x, k)
    BY FreeAligned, Zenon
  <2> QED BY <1>2, <1>3, <1>4, <2>1, <2>2, InsertMerges
<1>12. BuddiesMerged'
  BY <1>1, <1>11, Zenon DEF BuddiesMerged
<1>13. free' \in [Levels -> SUBSET Nat]
  BY <1>1, <1>6, Zenon
<1>14. Tiling(Tiles(free', U), V2)
  BY <1>1, <1>10, Zenon
<1> QED BY <1>12, <1>13, <1>14, Zenon

\* Buddy::remove keeps the units: the chunk gets the first part of the block.
LEMMA RemoveStep ==
  ASSUME MemoryTypes, BuddiesMerged, Tiling(Tiles(free, used), Usable),
         NEW size \in Nat, Found(size) # {}, NEW node \in Ram, BuddyRemove(size, node),
         NEW c, c = [start |-> node, size |-> size]
  PROVE  /\ free' \in [Levels -> SUBSET Nat] /\ Tiling(Tiles(free', used \cup {c}), Usable)
         /\ BuddiesMerged' /\ bucket(size) \in Levels
<1> DEFINE n == bucket(size)
           i == Smallest(Found(size))
           F == [k \in Levels |->
                  IF k = i THEN free[k] \ {node}
                  ELSE IF k \in n..(i - 1) THEN free[k] \cup {buddy(node, k)} ELSE free[k]]
<1>1. free' = F /\ node \in free[i]
  BY Zenon DEF BuddyRemove
<1>2. /\ i \in Levels /\ n <= i
      /\ \A k \in n..(i - 1) : free[k] = {}
  BY FoundIs, Zenon
<1>3. n \in Nat
  BY Buckets, Zenon
<1> HIDE DEF n, i
<1>4. Maximum \in Nat /\ Levels = 0..Maximum
  BY MemoryConstants
<1>5. i \in Nat /\ n \in Levels /\ node \in Nat /\ free \in [Levels -> SUBSET Nat]
  BY <1>2, <1>3, <1>4 DEF MemoryTypes, Ram
<1>6. Aligned(node, i)
  BY <1>1, <1>2, FreeAligned, Zenon
<1>7. \A k \in n..(i - 1) : buddy(node, k) \in Nat
  <2> SUFFICES ASSUME NEW k \in n..(i - 1) PROVE buddy(node, k) \in Nat
    OBVIOUS
  <2>1. k \in Nat /\ k <= i
    BY <1>3, <1>5
  <2>2. Aligned(node, k)
    BY <1>5, <1>6, <2>1, AlignDown
  <2>3. Aligned(buddy(node, k), k)
    BY <2>1, <2>2, Halves
  <2> QED BY <2>3 DEF Aligned
<1>8. F \in [Levels -> SUBSET Nat]
  BY <1>5, <1>7
<1>9. \A k \in Levels :
        \A x : x \in F[k] <=> \/ k = i /\ x \in free[k] /\ x # node
                              \/ k \in n..(i - 1) /\ (x \in free[k] \/ x = buddy(node, k))
                              \/ k \notin n..i /\ x \in free[k]
  <2> SUFFICES ASSUME NEW k \in Levels
               PROVE  \A x : x \in F[k]
                        <=> \/ k = i /\ x \in free[k] /\ x # node
                            \/ k \in n..(i - 1) /\ (x \in free[k] \/ x = buddy(node, k))
                            \/ k \notin n..i /\ x \in free[k]
    OBVIOUS
  <2>1. CASE k \in n..(i - 1)
    <3>2. k # i /\ k \in n..i
      BY <1>3, <1>5, <2>1
    <3>1. F[k] = free[k] \cup {buddy(node, k)}
      BY <2>1, <3>2
    <3> HIDE DEF F
    <3> QED BY <2>1, <3>1, <3>2
  <2>2. CASE k = i
    <3>1. k \notin n..(i - 1) /\ k \in n..i
      BY <1>2, <1>3, <1>5, <2>2
    <3>2. F[k] = free[k] \ {node}
      BY <2>2
    <3> HIDE DEF F
    <3> QED BY <2>2, <3>1, <3>2
  <2>3. CASE k \notin n..(i - 1) /\ k # i
    <3>1. F[k] = free[k]
      BY <2>3
    <3>2. k \notin n..i
      BY <1>3, <1>5, <2>3
    <3> HIDE DEF F
    <3> QED BY <2>3, <3>1, <3>2
  <2> QED BY <2>1, <2>2, <2>3
<1> HIDE DEF F
<1>10. c.start = node /\ c.size = size
  OBVIOUS
<1>11. bucket(c.size) = n
  BY <1>10, Zenon DEF n
<1>12. <<node, i, {}>> \in Tiles(free, used)
  BY <1>1, <1>2, <1>5, TileIs, Zenon
<1>13. c \notin used
  <2> SUFFICES ASSUME c \in used PROVE FALSE
    OBVIOUS
  <2>1. <<node, n, {c}>> \in Tiles(free, used)
    <3>1. \E d \in used : {c} = {d} /\ node = d.start /\ n = bucket(d.size)
      BY <1>10, <1>11, Zenon
    <3> QED BY <1>5, <3>1, TileIs, Zenon
  <2>2. node \in Units(node, n) /\ node \in Units(node, i)
    BY <1>12, <2>1, TilesInRam, Zenon
  <2>3. {} = {c}
    BY <1>12, <2>1, <2>2, TilesApart
  <2> QED BY <2>3
<1>14. Tiling(Tiles(F, used \cup {c}), Usable)
  BY <1>1, <1>2, <1>5, <1>9, <1>10, <1>11, <1>13, RemoveTiles
<1>15. \A k \in 0..(Maximum - 1) : \A x \in F[k] : buddy(x, k) \notin F[k]
  <2>1. \A k \in Levels : \A x \in F[k] :
          x \in free[k] \/ (k \in n..(i - 1) /\ x = buddy(node, k))
    BY <1>9, Zenon
  <2> QED BY <1>2, <1>5, <1>6, <2>1, RemoveMerges, Zenon
<1>16. BuddiesMerged'
  BY <1>1, <1>15, Zenon DEF BuddiesMerged
<1>17. free' \in [Levels -> SUBSET Nat]
  BY <1>1, <1>8, Zenon
<1>18. Tiling(Tiles(free', used \cup {c}), Usable)
  BY <1>1, <1>14, Zenon
<1>19. bucket(size) \in Levels
  BY <1>5 DEF n
<1> QED BY <1>16, <1>17, <1>18, <1>19, Zenon

\* The units of pages above p that no reserved chunk overlaps.
PageFree(p) == \A r \in Reserved : ~overlaps([start |-> p, size |-> PageSize], r)
UsableAbove(p) == {u \in Ram : u - (u % PageSize) > p /\ PageFree(u - (u % PageSize))}

\* One page more: its units, when it is free.
LEMMA NextPage ==
  ASSUME NEW l \in Levels, BlockSize(l) = PageSize,
         NEW p \in Nat, NEW q \in Int, p = q * PageSize, p + PageSize <= RamEnd
  PROVE  /\ Aligned(p, l)
         /\ \A u : u \in UsableAbove(p - PageSize)
                     <=> u \in UsableAbove(p) \/ (PageFree(p) /\ u \in Units(p, l))
         /\ \A u : u \in Units(p, l) => u \notin UsableAbove(p)
<1>1. PageSize \in Nat \ {0} /\ RamEnd \in Nat /\ l \in Nat
  BY MemoryConstants
<1> DEFINE s == PageSize
<1>2. s \in Nat \ {0} /\ BlockSize(l) = s
  BY <1>1
<1> HIDE DEF s
<1>3. p = q * s /\ p + s <= RamEnd
  BY DEF s
<1>4. q \in Nat
  <2> SUFFICES ASSUME q <= -1 PROVE FALSE
    BY <1>2
  <2>1. q * s <= -s
    BY <1>2
  <2> QED BY <1>2, <1>3, <2>1
<1>5. Aligned(p, l)
  BY <1>2, <1>3, <1>4 DEF Aligned
<1>6. \A u : u \in Units(p, l) <=> u \in p..(p + s - 1)
  BY <1>2, Zenon DEF Units
<1>7. ASSUME NEW u \in Ram
      PROVE  LET w == u - (u % s)
             IN  /\ w \in Nat /\ (w > p - s <=> w > p \/ w = p)
                 /\ (w = p <=> u \in p..(p + s - 1))
  <2> DEFINE w == u - (u % s)
  <2>1. u \in Nat
    BY <1>1 DEF Ram
  <2>2. w = Align(u, l)
    BY <1>2, Zenon DEF Align
  <2> HIDE DEF w
  <2>3. Aligned(w, l) /\ w <= u /\ u < w + s
    BY <1>1, <1>2, <2>1, <2>2, AlignIs
  <2>4. Aligned(p, l) /\ p <= u /\ u < p + s => p = w
    BY <1>1, <1>2, <2>1, <2>2, AlignIs
  <2>5. PICK k \in Nat : w = k * s
    BY <1>2, <2>3 DEF Aligned
  <2>6. w \in Nat
    BY <2>3 DEF Aligned
  <2>7. w > p - s => w >= p
    <3> SUFFICES ASSUME w < p PROVE w + s <= p
      BY <1>2, <2>6
    <3>1. k < q
      <4> SUFFICES ASSUME q <= k PROVE FALSE
        BY <1>4
      <4>1. CASE q = k
        BY <1>3, <2>5, <2>6, <4>1
      <4>2. CASE q < k
        <5>1. q * s + s <= k * s
          BY <1>2, <1>4, <4>2, MultiplesApart
        <5> QED BY <1>2, <1>3, <2>5, <2>6, <5>1
      <4> QED BY <1>4, <4>1, <4>2
    <3>2. k * s + s <= q * s
      BY <1>2, <1>4, <3>1, MultiplesApart
    <3> QED BY <1>3, <2>5, <3>2
  <2>8. w > p - s <=> w > p \/ w = p
    BY <1>2, <2>6, <2>7
  <2>9. w = p <=> u \in p..(p + s - 1)
    BY <1>2, <1>5, <2>1, <2>3, <2>4, <2>6
  <2> QED BY <2>6, <2>8, <2>9 DEF w
<1>8. \A u : u \in p..(p + s - 1) => u \in Ram
  BY <1>1, <1>2, <1>3 DEF Ram
<1>9. \A x, u : u \in UsableAbove(x)
                  <=> u \in Ram /\ u - (u % s) > x /\ PageFree(u - (u % s))
  BY Zenon DEF UsableAbove, s
<1>10. \A u : u \in UsableAbove(p - s)
                <=> u \in UsableAbove(p) \/ (PageFree(p) /\ u \in p..(p + s - 1))
  <2> SUFFICES ASSUME NEW u
               PROVE  u \in UsableAbove(p - s)
                        <=> u \in UsableAbove(p) \/ (PageFree(p) /\ u \in p..(p + s - 1))
    OBVIOUS
  <2>1. CASE u \notin Ram
    BY <1>8, <1>9, <2>1, Zenon
  <2>2. CASE u \in Ram
    <3> DEFINE w == u - (u % s)
    <3>1. (w > p - s <=> w > p \/ w = p) /\ (w = p <=> u \in p..(p + s - 1))
      BY <1>7, <2>2
    <3>2. /\ u \in UsableAbove(p - s) <=> w > p - s /\ PageFree(w)
          /\ u \in UsableAbove(p) <=> w > p /\ PageFree(w)
      BY <1>9, <2>2, Zenon
    <3> HIDE DEF w
    <3> QED BY <3>1, <3>2, Zenon
  <2> QED BY <2>1, <2>2
<1>11. \A u : u \in p..(p + s - 1) => u \notin UsableAbove(p)
  <2> SUFFICES ASSUME NEW u, u \in p..(p + s - 1), u \in UsableAbove(p) PROVE FALSE
    OBVIOUS
  <2>1. u \in Ram /\ u - (u % s) > p
    BY <1>9, Zenon
  <2>2. u - (u % s) = p
    BY <1>7, <2>1
  <2> QED BY <2>1, <2>2
<1> QED BY <1>5, <1>6, <1>10, <1>11, Zenon DEF s

\* What Memory::init found free is Usable.
LEMMA UsableIs ==
  /\ \A u : u \in Usable <=> u \in UsableAbove(page)
  /\ \A u : u \in Usable' <=> u \in UsableAbove(page')
<1>1. Usable = UsableAbove(page)
  BY Zenon DEF Usable, UsableAbove, PageFree
<1>2. Usable' = UsableAbove(page')
  BY Zenon DEF Usable, UsableAbove, PageFree
<1> QED BY <1>1, <1>2, Zenon

\* Tiles of the same units are tiles of equal sets of units.
LEMMA SameUnits ==
  ASSUME NEW T, NEW V, NEW V2, Tiling(T, V), \A u : u \in V2 <=> u \in V
  PROVE  Tiling(T, V2)
BY Zenon DEF Tiling

\* Memory starts with no tiles.
LEMMA MemoryInit == Init => MemoryInvariant
<1> SUFFICES ASSUME Init PROVE MemoryInvariant
  OBVIOUS
<1>1. Maximum \in Nat /\ Levels = 0..Maximum /\ PageSize \in Nat \ {0} /\ RamEnd \in Nat
      /\ Minimum \in Nat
  BY MemoryConstants
<1>2. /\ free = [n \in Levels |-> {}] /\ page = RamEnd - PageSize /\ used = {} /\ failed = 0
  BY DEF Init
<1>3. RamEnd % PageSize = 0
  BY MemoryAssumption
<1>4. PICK k \in Int : RamEnd = PageSize * k + (RamEnd % PageSize)
  <2>1. RamEnd \in Int
    BY <1>1
  <2> QED BY <1>1, <2>1, Division, Zenon
<1>5. page = (k - 1) * PageSize /\ page \in Int
  BY <1>1, <1>2, <1>3, <1>4
<1>6. MemoryTypes
  <2>1. \E q \in Int : page = q * PageSize
    <3>1. k - 1 \in Int
      OBVIOUS
    <3> QED BY <1>5, <3>1
  <2>2. IsFiniteSet(used)
    BY <1>2, FS_EmptySet
  <2>3. -PageSize <= page /\ page + PageSize <= RamEnd
    BY <1>1, <1>2
  <2> QED BY <1>2, <1>5, <2>1, <2>2, <2>3 DEF MemoryTypes
<1>7. BuddiesMerged
  BY <1>1, <1>2 DEF BuddiesMerged
<1>8. \A t : t \notin Tiles(free, used)
  <2> SUFFICES ASSUME NEW t \in Tiles(free, used) PROVE FALSE
    OBVIOUS
  <2>1. Triple(t)
    BY TilesAreTriples, Zenon
  <2>2. PICK a, n, x : t = <<a, n, x>>
    BY <2>1, Zenon DEF Triple
  <2>4. <<a, n, x>> \in Tiles(free, used)
    BY <2>2, Zenon
  <2>3. n \in Levels /\ (a \in free[n] \/ \E c \in used : TRUE)
    BY <2>4, TileIs
  <2> QED BY <1>2, <2>3
<1>9. \A u : u \notin Usable
  <2> SUFFICES ASSUME NEW u \in Usable PROVE FALSE
    OBVIOUS
  <2>1. u \in Ram /\ u - (u % PageSize) > page
    BY Zenon DEF Usable
  <2>2. u \in Nat /\ u < RamEnd
    BY <1>1, <2>1 DEF Ram
  <2> DEFINE s == PageSize
             w == u - (u % s)
  <2>3. s \in Nat \ {0} /\ RamEnd = k * s /\ page = (k - 1) * s
    BY <1>1, <1>3, <1>4, <1>5
  <2> HIDE DEF s
  <2>4. PICK q \in Nat, r \in 0..(s - 1) : u = q * s + r /\ u % s = r
    BY <2>2, <2>3, NatDivision
  <2>5. w = q * s /\ q * s <= u
    BY <2>3, <2>4
  <2>6. w > page
    BY <2>1 DEF s
  <2> HIDE DEF w
  <2>7. q * s > (k - 1) * s /\ q * s < k * s
    BY <2>2, <2>3, <2>4, <2>5, <2>6
  <2>8. CASE q >= k
    <3>1. CASE q = k
      BY <2>3, <2>7, <3>1
    <3>2. CASE k < q
      <4>1. k * s + s <= q * s
        BY <2>3, <3>2, MultiplesApart
      <4> QED BY <2>3, <2>7, <4>1
    <3> QED BY <2>8, <3>1, <3>2
  <2>9. CASE q <= k - 1
    <3>1. CASE q = k - 1
      BY <2>3, <2>7, <3>1
    <3>2. CASE q < k - 1
      <4>1. q * s + s <= (k - 1) * s
        BY <2>3, <3>2, MultiplesApart
      <4> QED BY <2>3, <2>7, <4>1
    <3> QED BY <2>9, <3>1, <3>2
  <2> QED BY <2>8, <2>9
<1>10. Tiling(Tiles(free, used), Usable)
  BY <1>8, <1>9, Zenon DEF Tiling
<1> QED BY <1>6, <1>7, <1>10 DEF MemoryInvariant

\* InitPage.
LEMMA InitPageStep ==
  MemoryInvariant /\ InitPage => MemoryInvariant'
<1> SUFFICES ASSUME MemoryInvariant, InitPage PROVE MemoryInvariant'
  OBVIOUS
<1>1. MemoryTypes /\ Tiling(Tiles(free, used), Usable) /\ BuddiesMerged
  BY DEF MemoryInvariant
<1>2. page >= 0 /\ page' = page - PageSize /\ used' = used /\ failed' = failed
  BY DEF InitPage
<1>3. PageSize \in Nat \ {0} /\ RamEnd \in Nat /\ Levels = 0..Maximum /\ Maximum \in Nat
  BY MemoryConstants
<1>4. PICK l \in Levels : BlockSize(l) = PageSize /\ bucket(PageSize) = l
  BY MemoryConstants
<1>5. PICK q \in Int : page = q * PageSize
  BY <1>1 DEF MemoryTypes
<1>6. page \in Nat /\ page + PageSize <= RamEnd /\ failed = 0
  BY <1>1, <1>2 DEF MemoryTypes
<1>7. /\ Aligned(page, l)
      /\ \A u : u \in UsableAbove(page - PageSize)
                  <=> u \in UsableAbove(page) \/ (PageFree(page) /\ u \in Units(page, l))
      /\ \A u : u \in Units(page, l) => u \notin UsableAbove(page)
  BY <1>4, <1>5, <1>6, NextPage
<1>8. /\ \A u : u \in Usable' <=> u \in Usable \/ (PageFree(page) /\ u \in Units(page, l))
      /\ \A u : u \in Units(page, l) => u \notin Usable
  BY <1>2, <1>7, UsableIs, Zenon
<1>9. free' \in [Levels -> SUBSET Nat] /\ Tiling(Tiles(free', used'), Usable')
      /\ BuddiesMerged'
  <2>1. CASE UNCHANGED free /\ ~PageFree(page)
    <3>1. Tiling(Tiles(free, used), Usable')
      BY <1>1, <1>8, <2>1, SameUnits, Zenon
    <3>2. BuddiesMerged'
      BY <1>1, <2>1, Zenon DEF BuddiesMerged
    <3>3. free' \in [Levels -> SUBSET Nat]
      BY <1>1, <2>1, Zenon DEF MemoryTypes
    <3> QED BY <1>2, <2>1, <3>1, <3>2, <3>3, Zenon
  <2>2. CASE BuddyInsert(page, PageSize) /\ PageFree(page)
    <3>1. bucket(PageSize) \in Levels /\ Aligned(page, bucket(PageSize))
      BY <1>4, <1>7
    <3>2. /\ \A u : u \in Units(page, bucket(PageSize)) => u \notin Usable
          /\ \A u : u \in Usable' <=> u \in Usable \/ u \in Units(page, bucket(PageSize))
      BY <1>4, <1>8, <2>2, Zenon
    <3>3. free' \in [Levels -> SUBSET Nat] /\ Tiling(Tiles(free', used), Usable')
          /\ BuddiesMerged'
      BY <1>1, <2>2, <3>1, <3>2, InsertStep
    <3> QED BY <1>2, <3>3, Zenon
  <2>3. \/ UNCHANGED free /\ ~PageFree(page)
        \/ BuddyInsert(page, PageSize) /\ PageFree(page)
    BY Zenon DEF InitPage, PageFree
  <2> QED BY <2>1, <2>2, <2>3
<1>10. MemoryTypes'
  <2>1. page' = (q - 1) * PageSize /\ q - 1 \in Int
    BY <1>2, <1>3, <1>5, <1>6
  <2>2. page' \in Int /\ -PageSize <= page' /\ page' + PageSize <= RamEnd
    BY <1>2, <1>3, <1>6
  <2>3. IsFiniteSet(used') /\ used' \subseteq [start : Nat, size : Nat]
        /\ \A c \in used' : bucket(c.size) \in Levels
    BY <1>1, <1>2, Zenon DEF MemoryTypes
  <2>4. failed' = 0 /\ failed' \in Nat
    BY <1>2, <1>6
  <2>5. \E k \in Int : page' = k * PageSize
    BY <2>1, Zenon
  <2> QED BY <1>9, <2>2, <2>3, <2>4, <2>5, Zenon DEF MemoryTypes
<1> QED BY <1>9, <1>10, Zenon DEF MemoryInvariant

\* Memory::alloc.
LEMMA AllocStep ==
  ASSUME MemoryInvariant, NEW size \in Nat \ {0}, Alloc(size)
  PROVE  MemoryInvariant'
<1>1. MemoryTypes /\ Tiling(Tiles(free, used), Usable) /\ BuddiesMerged
  BY DEF MemoryInvariant
<1>2. page' = page /\ page < 0 /\ failed = 0
  BY DEF Alloc
<1>3. \A u : u \in Usable' <=> u \in Usable
  BY <1>2, UsableIs, Zenon
<1>4. \E k \in Int : page' = k * PageSize
  BY <1>1, <1>2, Zenon DEF MemoryTypes
<1>5. page' \in Int /\ -PageSize <= page' /\ page' + PageSize <= RamEnd /\ ~(page' >= 0)
  BY <1>1, <1>2 DEF MemoryTypes
<1>6. CASE /\ Found(size) = {} /\ failed' = size /\ UNCHANGED <<free, used>>
  <2>1. free' = free /\ used' = used /\ failed' \in Nat
    BY <1>6
  <2>2. \A i \in Levels : i >= bucket(failed') => free'[i] = {}
    <3>1. \A i \in Levels : i >= bucket(size) => free[i] = {}
      BY <1>6, Zenon DEF Found
    <3> QED BY <1>6, <2>1, <3>1, Zenon
  <2>3. MemoryTypes'
    <3>1. /\ free' \in [Levels -> SUBSET Nat]
          /\ IsFiniteSet(used') /\ used' \subseteq [start : Nat, size : Nat]
          /\ \A c \in used' : bucket(c.size) \in Levels
      BY <1>1, <2>1, Zenon DEF MemoryTypes
    <3> QED BY <1>4, <1>5, <2>1, <2>2, <3>1, Zenon DEF MemoryTypes
  <2>4. BuddiesMerged'
    BY <1>1, <2>1, Zenon DEF BuddiesMerged
  <2>5. Tiling(Tiles(free', used'), Usable')
    BY <1>1, <1>3, <2>1, SameUnits, Zenon
  <2> QED BY <2>3, <2>4, <2>5, Zenon DEF MemoryInvariant
<1>7. ASSUME Found(size) # {}, NEW node \in Ram, BuddyRemove(size, node),
             used' = used \cup {[start |-> node, size |-> size]}, failed' = failed
      PROVE  MemoryInvariant'
  <2> DEFINE c == [start |-> node, size |-> size]
  <2>1. /\ free' \in [Levels -> SUBSET Nat] /\ Tiling(Tiles(free', used \cup {c}), Usable)
        /\ BuddiesMerged' /\ bucket(size) \in Levels
    BY <1>1, <1>7, RemoveStep
  <2>2. c \in [start : Nat, size : Nat] /\ c.size = size
    BY MemoryConstants DEF Ram
  <2> HIDE DEF c
  <2>3. used' = used \cup {c}
    BY <1>7 DEF c
  <2>4. MemoryTypes'
    <3>1. IsFiniteSet(used')
      <4>1. IsFiniteSet(used)
        BY <1>1, Zenon DEF MemoryTypes
      <4> QED BY <2>3, <4>1, FS_AddElement, Zenon
    <3>2. used' \subseteq [start : Nat, size : Nat]
      <4>1. used \subseteq [start : Nat, size : Nat]
        BY <1>1, Zenon DEF MemoryTypes
      <4> QED BY <2>2, <2>3, <4>1
    <3>3. \A d \in used' : bucket(d.size) \in Levels
      <4>1. \A d \in used : bucket(d.size) \in Levels
        BY <1>1, Zenon DEF MemoryTypes
      <4>2. bucket(c.size) \in Levels
        BY <2>1, <2>2, Zenon
      <4>3. \A d \in used' : d \in used \/ d = c
        BY <2>3
      <4> QED BY <4>1, <4>2, <4>3, Zenon
    <3>4. failed' = 0 /\ failed' \in Nat
      BY <1>2, <1>7
    <3> QED BY <1>4, <1>5, <2>1, <3>1, <3>2, <3>3, <3>4, Zenon DEF MemoryTypes
  <2>5. Tiling(Tiles(free', used'), Usable')
    BY <1>3, <2>1, <2>3, SameUnits, Zenon
  <2> QED BY <2>1, <2>4, <2>5, Zenon DEF MemoryInvariant
<1>8. \/ /\ Found(size) = {} /\ failed' = size /\ UNCHANGED <<free, used>>
      \/ /\ Found(size) # {} /\ failed' = failed
         /\ \E node \in Ram : /\ BuddyRemove(size, node)
                              /\ used' = used \cup {[start |-> node, size |-> size]}
  BY DEF Alloc
<1> QED BY <1>6, <1>7, <1>8

\* Memory::free.
LEMMA FreeStep ==
  ASSUME MemoryInvariant, NEW c \in used, Free(c)
  PROVE  MemoryInvariant'
<1>1. MemoryTypes /\ Tiling(Tiles(free, used), Usable) /\ BuddiesMerged
  BY DEF MemoryInvariant
<1>2. page' = page /\ page < 0 /\ failed = 0 /\ failed' = 0 /\ used' = used \ {c}
      /\ BuddyInsert(c.start, c.size)
  BY DEF Free
<1>3. \A u : u \in Usable' <=> u \in Usable
  BY <1>2, UsableIs, Zenon
<1>4. c \in [start : Nat, size : Nat] /\ bucket(c.size) \in Levels
  BY <1>1 DEF MemoryTypes
<1> DEFINE n == bucket(c.size)
           V == {u \in Usable : u \notin Units(c.start, n)}
<1>5. c.start \in Nat /\ c.size \in Nat
  BY <1>4
<1>6. <<c.start, n, {c}>> \in Tiles(free, used)
  BY <1>4, <1>5, TileIs, Zenon
<1>7. Aligned(c.start, n) /\ n \in Levels
  BY <1>1, <1>6, TilesInRam, Zenon
<1>8. \A u : u \in Units(c.start, n) => u \in Usable
  BY <1>1, <1>6, TileIsUsable, Zenon
<1>9. Tiling(Tiles(free, used \ {c}), V)
  <2>1. \A u : u \in V <=> u \in Usable /\ u \notin Units(c.start, bucket(c.size))
    OBVIOUS
  <2> HIDE DEF V
  <2> QED BY <1>1, <1>4, <1>5, <2>1, ReleaseTile
<1>10. /\ \A u : u \in Units(c.start, bucket(c.size)) => u \notin V
       /\ \A u : u \in Usable' <=> u \in V \/ u \in Units(c.start, bucket(c.size))
  BY <1>3, <1>8, Zenon
<1>11. /\ free' \in [Levels -> SUBSET Nat] /\ Tiling(Tiles(free', used \ {c}), Usable')
       /\ BuddiesMerged'
  <2>1. Aligned(c.start, bucket(c.size))
    BY <1>7
  <2> HIDE DEF V, n
  <2> QED BY <1>1, <1>2, <1>4, <1>9, <1>10, <2>1, InsertStep
<1>12. MemoryTypes'
  <2>1. \E k \in Int : page' = k * PageSize
    BY <1>1, <1>2, Zenon DEF MemoryTypes
  <2>2. page' \in Int /\ -PageSize <= page' /\ page' + PageSize <= RamEnd /\ ~(page' >= 0)
    BY <1>1, <1>2 DEF MemoryTypes
  <2>3. IsFiniteSet(used) /\ used \subseteq [start : Nat, size : Nat]
        /\ \A d \in used : bucket(d.size) \in Levels
    BY <1>1, Zenon DEF MemoryTypes
  <2>4. IsFiniteSet(used')
    <3>1. used' \subseteq used
      BY <1>2
    <3> QED BY <2>3, <3>1, FS_Subset, Zenon
  <2>5. used' \subseteq [start : Nat, size : Nat] /\ \A d \in used' : bucket(d.size) \in Levels
    BY <1>2, <2>3, Zenon
  <2>6. failed' \in Nat
    BY <1>2
  <2> QED BY <1>2, <1>11, <2>1, <2>2, <2>4, <2>5, <2>6, Zenon DEF MemoryTypes
<1> QED BY <1>2, <1>11, <1>12, Zenon DEF MemoryInvariant

\* Every step keeps the invariant.
LEMMA MemoryStep == MemoryInvariant /\ [Next]_vars => MemoryInvariant'
<1> SUFFICES ASSUME MemoryInvariant, [Next]_vars PROVE MemoryInvariant'
  OBVIOUS
<1>1. CASE InitPage
  BY <1>1, InitPageStep
<1>2. ASSUME NEW size \in Sizes, Alloc(size) \/ New(size) PROVE MemoryInvariant'
  <2>1. size \in Nat \ {0} /\ Header \in Nat
    BY MemoryAssumption
  <2>2. CASE Alloc(size)
    BY <2>1, <2>2, AllocStep
  <2>3. CASE New(size)
    <3>1. size + Header \in Nat \ {0} /\ Alloc(size + Header)
      BY <2>1, <2>3 DEF New
    <3> QED BY <3>1, AllocStep
  <2> QED BY <1>2, <2>2, <2>3
<1>3. ASSUME NEW chunk \in used, Free(chunk) PROVE MemoryInvariant'
  BY <1>3, FreeStep
<1>4. CASE UNCHANGED vars
  <2>1. free' = free /\ page' = page /\ used' = used /\ failed' = failed
    BY <1>4 DEF vars
  <2>2. MemoryTypes /\ Tiling(Tiles(free, used), Usable) /\ BuddiesMerged
    BY DEF MemoryInvariant
  <2>3. MemoryTypes'
    BY <2>1, <2>2, Zenon DEF MemoryTypes
  <2>4. BuddiesMerged'
    BY <2>1, <2>2, Zenon DEF BuddiesMerged
  <2>5. \A u : u \in Usable' <=> u \in Usable
    BY <2>1, UsableIs, Zenon
  <2>6. Tiling(Tiles(free', used'), Usable')
    BY <2>1, <2>2, <2>5, SameUnits, Zenon
  <2> QED BY <2>3, <2>4, <2>6, Zenon DEF MemoryInvariant
<1> QED BY <1>1, <1>2, <1>3, <1>4, Zenon DEF Next, Halted

\* The invariant of Memory holds, whatever the program allocates and frees.
THEOREM MemoryInvariantHolds == Spec => []MemoryInvariant
<1>1. Init => MemoryInvariant
  BY MemoryInit
<1>2. MemoryInvariant /\ [Next]_vars => MemoryInvariant'
  BY MemoryStep
<1> QED BY <1>1, <1>2, PTL DEF Spec

\* Buddy neither hands out a unit twice nor loses one, for every size of RAM,
\* of pages and of blocks and every sequence of allocations and releases.
THEOREM NoBlockLostOrShared == Spec => []BlocksPartitionMemory
<1>1. MemoryInvariant => BlocksPartitionMemory
  BY TilingIsPartition DEF MemoryInvariant
<1> QED BY <1>1, MemoryInvariantHolds, PTL

\* Buddy::insert leaves no two buddies apart in a free list.
THEOREM FreeBuddiesMerged == Spec => []BuddiesMerged
<1>1. MemoryInvariant => BuddiesMerged
  BY DEF MemoryInvariant
<1> QED BY <1>1, MemoryInvariantHolds, PTL

\* "Out of Memory." is the truth: no aligned block of that size is left.
THEOREM OutOfMemoryIsTrue == Spec => []FailsOnlyWhenFull
<1>1. MemoryInvariant => FailsOnlyWhenFull
  BY NoRoomLeft
<1> QED BY <1>1, MemoryInvariantHolds, PTL
=============================================================================
