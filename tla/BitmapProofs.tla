---------------------------- MODULE BitmapProofs ----------------------------
(* Facts about the bit operations of klibc/bitmap.c, for every word width. *)
EXTENDS Bitmap, WellFoundedInduction, TLAPS

(* A nonempty set of naturals has a least element, which Min returns: the  *)
(* scans of find_first_free and is_free_region_big_enough stop at it.      *)
LEMMA MinOfNaturals ==
    ASSUME NEW S \in SUBSET Nat, S # {}
    PROVE  Min(S) \in S /\ \A x \in S : Min(S) <= x
<1> DEFINE R == {ss \in Nat \X Nat : ss[1] < ss[2]}
<1>1. IsWellFoundedOn(R, Nat)
  BY NatLessThanWellFounded, Zenon DEF OpToRel
<1>2. PICK m \in S : \A y \in S : ~ (<<y, m>> \in R)
  <2> HIDE DEF R
  <2> QED BY <1>1, WFMin, Zenon
<1>3. \A y \in S : m <= y
  <2> SUFFICES ASSUME NEW y \in S, ~ (m <= y) PROVE FALSE
    OBVIOUS
  <2>1. m \in Nat /\ y \in Nat /\ y < m
    OBVIOUS
  <2>2. <<y, m>> \in R
    BY <2>1
  <2> QED
    BY <1>2, <2>2
<1> QED
  BY <1>3 DEF Min

(* What holds of 0, and of a number if it does of the one before, holds of *)
(* all numbers up to N: there would be a least one that it does not hold   *)
(* of.                                                                     *)
LEMMA UpTo ==
    ASSUME NEW N \in Nat, NEW good, 0 \in good, \A k \in 1 .. N : k - 1 \in good => k \in good
    PROVE  \A k \in 0 .. N : k \in good
<1> DEFINE bad == {k \in 0 .. N : k \notin good}
<1> SUFFICES ASSUME bad # {} PROVE FALSE
  OBVIOUS
<1>1. bad \in SUBSET Nat OBVIOUS
<1> DEFINE k == Min(bad)
<1>2. k \in bad /\ \A m \in bad : k <= m
  <2> HIDE DEF bad
  <2> QED BY <1>1, MinOfNaturals
<1> HIDE DEF k
<1>3. k \in 0 .. N /\ k \notin good /\ k # 0 BY <1>2
<1>4. k \in 1 .. N /\ k - 1 \in 0 .. N /\ ~(k <= k - 1) BY <1>3
<1>5. k - 1 \in good BY <1>2, <1>4
<1> QED BY <1>3, <1>4, <1>5

(* Multiples of p are at least p apart, ... *)
LEMMA Multiples ==
    ASSUME NEW p \in Nat, NEW a \in Nat, NEW b \in Nat, a < b
    PROVE  a * p \in Nat /\ b * p \in Nat /\ a * p + p <= b * p
<1>1. PICK d \in Nat : b = a + 1 + d
  <2>1. b - a - 1 \in Nat /\ b = a + 1 + (b - a - 1) OBVIOUS
  <2> QED BY <2>1
<1>2. (a + 1 + d) * p = a * p + p + d * p OBVIOUS
<1>3. d * p \in Nat /\ a * p \in Nat /\ b * p \in Nat OBVIOUS
<1> QED BY <1>1, <1>2, <1>3

(* ... so that a number has one quotient and one rest. *)
LEMMA QuotientRest ==
    ASSUME NEW p \in Nat, NEW a \in Nat, NEW b \in Nat, NEW i \in 0 .. p - 1, NEW j \in 0 .. p - 1,
           a * p + i = b * p + j
    PROVE  a = b /\ i = j
<1>1. a * p \in Nat /\ b * p \in Nat OBVIOUS
<1>2. ~(a < b)
  <2> SUFFICES ASSUME a < b PROVE FALSE OBVIOUS
  <2>1. a * p + p <= b * p BY Multiples
  <2> DEFINE m == a * p  n == b * p
  <2>2. m \in Nat /\ n \in Nat /\ m + p <= n /\ m + i = n + j BY <1>1, <2>1
  <2> HIDE DEF m, n
  <2> QED BY <2>2
<1>3. ~(b < a)
  <2> SUFFICES ASSUME b < a PROVE FALSE OBVIOUS
  <2>1. b * p + p <= a * p BY Multiples
  <2> DEFINE m == a * p  n == b * p
  <2>2. m \in Nat /\ n \in Nat /\ n + p <= m /\ m + i = n + j BY <1>1, <2>1
  <2> HIDE DEF m, n
  <2> QED BY <2>2
<1>4. a = b BY <1>2, <1>3
<1> DEFINE m == a * p
<1>5. m \in Nat /\ m + i = m + j BY <1>1, <1>4
<1> HIDE DEF m
<1>6. i = j BY <1>5
<1> QED BY <1>4, <1>6

(* Division recovers them. *)
LEMMA Recovers ==
    ASSUME NEW p \in Nat \ {0}, NEW a \in Nat, NEW i \in 0 .. p - 1
    PROVE  (a * p + i) \div p = a /\ (a * p + i) % p = i
<1> DEFINE n == a * p + i  q == n \div p  r == n % p
<1>1. n \in Nat OBVIOUS
<1>2. q \in Nat /\ r \in 0 .. p - 1 /\ n = p * q + r BY <1>1
<1> HIDE DEF q, r
<1>3. p * q = q * p BY <1>2
<1>4. q * p + r = a * p + i BY <1>2, <1>3
<1>5. q = a /\ r = i BY <1>2, <1>4, QuotientRest
<1> QED BY <1>5 DEF q, r

(* The block of an index is the word it falls into. *)
LEMMA BlockBounds ==
    ASSUME NEW idx \in Nat
    PROVE  /\ Block(idx) \in Nat
           /\ Block(idx) * BITS_PER_BLOCK <= idx
           /\ idx <= Block(idx) * BITS_PER_BLOCK + BITS_PER_BLOCK - 1
<1>1. BITS_PER_BLOCK \in Nat \ {0}
  BY BitmapAssumption
<1>2. \A d \in Nat \ {0} :
        /\ idx \div d \in Nat
        /\ (idx \div d) * d <= idx
        /\ idx <= (idx \div d) * d + d - 1
  OBVIOUS
<1> QED
  BY <1>1, <1>2 DEF Block

(* A word and an int of the bitmap code are not empty. *)
LEMMA WordSizes == BITS_PER_BLOCK \in Nat \ {0} /\ INT_BITS \in Nat \ {0}
  BY BitmapAssumption

(* The indices below window words are those whose block is such a word. *)
LEMMA BlockInWindow ==
    ASSUME NEW window \in Nat, NEW i \in 0 .. window * BITS_PER_BLOCK - 1
    PROVE  i \in Nat /\ Block(i) \in 0 .. window - 1
<1>1. i \in Nat /\ i < window * BITS_PER_BLOCK
  BY WordSizes
<1>2. Block(i) \in Nat /\ Block(i) * BITS_PER_BLOCK <= i
  BY <1>1, BlockBounds
<1>3. Block(i) * BITS_PER_BLOCK < window * BITS_PER_BLOCK
  BY <1>1, <1>2, WordSizes
<1>4. \A a, b \in Nat, c \in Nat \ {0} : a * c < b * c => a < b
  OBVIOUS
<1>5. Block(i) < window
  BY <1>2, <1>3, <1>4, WordSizes
<1> QED
  BY <1>1, <1>2, <1>5

(* A search that starts below window words, and is bounded by at most as   *)
(* many, stays there.                                                      *)
LEMMA ScanInWindow ==
    ASSUME NEW window \in Nat, NEW start \in 0 .. window * BITS_PER_BLOCK - 1,
           NEW words \in Nat, words <= window
    PROVE  ScanRange(start, words) \subseteq 0 .. window * BITS_PER_BLOCK - 1
<1>1. \A a, b \in Nat, c \in Nat \ {0} : a <= b => a * c <= b * c
  OBVIOUS
<1>2. words * BITS_PER_BLOCK <= window * BITS_PER_BLOCK
  BY <1>1, WordSizes
<1>3. Block(start) \in Nat /\ Block(start) + 1 <= window
  BY BlockInWindow
<1>4. (Block(start) + 1) * BITS_PER_BLOCK <= window * BITS_PER_BLOCK
  BY <1>1, <1>3, WordSizes
<1> DEFINE top1 == words * BITS_PER_BLOCK
           top2 == (Block(start) + 1) * BITS_PER_BLOCK
           top  == window * BITS_PER_BLOCK
<1>5. top1 \in Nat /\ top2 \in Nat /\ top \in Nat
  BY <1>3, WordSizes
<1>6. ScanRange(start, words) \subseteq start .. top1 - 1 \cup start .. top2 - 1
  BY DEF ScanRange
<1>7. top1 <= top /\ top2 <= top /\ start \in 0 .. top - 1
  BY <1>2, <1>4
<1> HIDE DEF top1, top2, top
<1>8. ScanRange(start, words) \subseteq 0 .. top - 1
  BY <1>5, <1>6, <1>7
<1> QED
  BY <1>8 DEF top

(* The mask of an index is a nonempty part of a word. *)
LEMMA MaskType ==
    ASSUME NEW idx \in Nat
    PROVE  Mask(idx) \in SUBSET Bits /\ Mask(idx) # {}
<1>1. idx % INT_BITS \in 0 .. INT_BITS - 1
  BY BitmapAssumption
<1> DEFINE shift == idx % INT_BITS
<1> HIDE DEF shift
<1>2. shift \in 0 .. INT_BITS - 1
  BY <1>1 DEF shift
<1>3. Mask(idx) = IF shift = INT_BITS - 1 THEN shift .. BITS_PER_BLOCK - 1 ELSE {shift}
  BY DEF Mask, shift
<1>4. Mask(idx) \in SUBSET Bits
  BY <1>2, <1>3, BitmapAssumption DEF Bits
<1>5. shift \in Mask(idx)
  BY <1>2, <1>3, BitmapAssumption
<1> QED
  BY <1>4, <1>5

(* Two masks are equal or disjoint. *)
LEMMA MaskOverlap ==
    ASSUME NEW i \in Nat, NEW j \in Nat, Mask(i) \cap Mask(j) # {}
    PROVE  Mask(i) = Mask(j)
<1>1. i % INT_BITS \in 0 .. INT_BITS - 1 /\ j % INT_BITS \in 0 .. INT_BITS - 1
  BY BitmapAssumption
<1> DEFINE si == i % INT_BITS
           sj == j % INT_BITS
<1> HIDE DEF si, sj
<1>2. si \in 0 .. INT_BITS - 1 /\ sj \in 0 .. INT_BITS - 1
  BY <1>1 DEF si, sj
<1>3. /\ Mask(i) = IF si = INT_BITS - 1 THEN si .. BITS_PER_BLOCK - 1 ELSE {si}
      /\ Mask(j) = IF sj = INT_BITS - 1 THEN sj .. BITS_PER_BLOCK - 1 ELSE {sj}
  BY DEF Mask, si, sj
<1>4. PICK b : b \in Mask(i) /\ b \in Mask(j)
  OBVIOUS
<1>5. si = sj
  BY <1>2, <1>3, <1>4, BitmapAssumption
<1> QED
  BY <1>3, <1>5

(* Setting or clearing bits leaves a map of words of the same length. *)
LEMMA SetClearType ==
    ASSUME NEW n, NEW map \in [n -> SUBSET Bits], NEW S \in SUBSET Nat
    PROVE  /\ SetBits(map, S) \in [n -> SUBSET Bits]
           /\ ClearBits(map, S) \in [n -> SUBSET Bits]
<1>1. \A w : MaskIn(w, S) \subseteq Bits
  BY MaskType DEF MaskIn
<1> QED
  BY <1>1 DEF SetBits, ClearBits

(* After bitmap_set_bit on S every index of S has its whole mask set, and  *)
(* no bit is lost.                                                         *)
LEMMA SetBitsMarks ==
    ASSUME NEW map, NEW S, NEW w \in DOMAIN map
    PROVE  /\ map[w] \subseteq SetBits(map, S)[w]
           /\ \A i \in S : Block(i) = w => Mask(i) \subseteq SetBits(map, S)[w]
  BY DEF SetBits, MaskIn

(* A cleared bit belongs to the mask of an index that was cleared. *)
LEMMA ClearBitsKeeps ==
    ASSUME NEW map, NEW S, NEW w \in DOMAIN map, NEW b \in map[w],
           \A i \in S : Block(i) = w => b \notin Mask(i)
    PROVE  b \in ClearBits(map, S)[w]
  BY DEF ClearBits, MaskIn

(* find_first_free returns ENOMEM, when nothing in its range is free, or   *)
(* the least free index of the range.                                      *)
LEMMA FindFirstFree ==
    ASSUME NEW map, NEW start \in Nat, NEW words \in Nat,
           NEW f, f = find_first_free(map, start, words)
    PROVE  /\ \/ /\ f = ENOMEM
                 /\ \A i \in ScanRange(start, words) : bitmap_test_bit(map, i)
              \/ /\ f \in ScanRange(start, words)
                 /\ ~ bitmap_test_bit(map, f)
                 /\ \A i \in ScanRange(start, words) : i < f => bitmap_test_bit(map, i)
<1> DEFINE free == {idx \in ScanRange(start, words) : ~ bitmap_test_bit(map, idx)}
<1>1. ScanRange(start, words) \subseteq Nat
  BY BitmapAssumption DEF ScanRange
<1>2. CASE free = {}
  BY <1>2 DEF find_first_free
<1>3. CASE free # {}
  <2>1. f = Min(free)
    BY <1>3 DEF find_first_free
  <2>2. Min(free) \in free /\ \A x \in free : Min(free) <= x
    BY <1>1, <1>3, MinOfNaturals
  <2>3. f \in free /\ \A x \in free : f <= x
    BY <2>1, <2>2
  <2>4. ASSUME NEW i \in ScanRange(start, words), i < f
        PROVE  bitmap_test_bit(map, i)
    <3>1. i \in Nat /\ f \in Nat
      BY <1>1, <2>3
    <3>2. i \notin free
      BY <2>3, <2>4, <3>1
    <3> QED
      BY <3>2
  <2> QED
    BY <2>3, <2>4
<1> QED
  BY <1>2, <1>3

(* is_free_region_big_enough returns 0, when the region is free, or the    *)
(* first index of it in use.  An index 0 in use would read as success.     *)
LEMMA RegionCheck ==
    ASSUME NEW map, NEW start \in Nat, NEW count \in Nat,
           NEW u, u = is_free_region_big_enough(map, start, count)
    PROVE  \/ /\ u = 0
              /\ \A i \in start .. start + count - 1 : ~ bitmap_test_bit(map, i)
           \/ /\ u \in start .. start + count - 1
              /\ bitmap_test_bit(map, u)
              /\ \A i \in start .. start + count - 1 : bitmap_test_bit(map, i) => u <= i
<1> DEFINE used == {idx \in start .. start + count - 1 : bitmap_test_bit(map, idx)}
<1>1. CASE used = {}
  BY <1>1 DEF is_free_region_big_enough
<1>2. CASE used # {}
  <2>1. u = Min(used)
    BY <1>2 DEF is_free_region_big_enough
  <2>2. used \in SUBSET Nat
    OBVIOUS
  <2>3. Min(used) \in used /\ \A i \in used : Min(used) <= i
    BY <1>2, <2>2, MinOfNaturals
  <2> QED
    BY <2>1, <2>3
<1> QED
  BY <1>1, <1>2

(* Indices whose masks meet in a word that both fall into are aliases. *)
LEMMA MaskAlias ==
    ASSUME NEW i \in Nat, NEW j \in Nat, Block(i) = Block(j), NEW b \in Mask(i), b \in Mask(j)
    PROVE  Alias(i, j)
<1>1. Mask(i) \cap Mask(j) # {}
  OBVIOUS
<1> QED
  BY <1>1, MaskOverlap DEF Alias

(* The remainder of a multiple and a small number, and of a sum in which   *)
(* one part was reduced already: the arithmetic of the 64-bit counters.    *)
LEMMA ModOfMultiple ==
    ASSUME NEW d \in Nat \ {0}, NEW x \in Int, NEW y \in 0 .. d - 1
    PROVE  (x * d + y) % d = y
<1> DEFINE z == x * d + y
           w == z \div d
           wd == w * d
           xd == x * d
<1>1. z \in Int /\ z = wd + (z % d) /\ z % d \in 0 .. d - 1 /\ w \in Int
  OBVIOUS
<1>2. ASSUME NEW u \in Int, NEW v \in Int, u < v PROVE u * d + d <= v * d
  <2>1. v - u \in Nat \ {0}
    BY <1>2
  <2>2. \A a, b \in Nat \ {0} : b <= a * b
    OBVIOUS
  <2>3. d <= (v - u) * d
    BY <2>1, <2>2
  <2>4. (v - u) * d = v * d - u * d
    OBVIOUS
  <2>5. v * d \in Int /\ u * d \in Int
    OBVIOUS
  <2> QED
    BY <2>3, <2>4, <2>5
<1>3. wd \in Int /\ xd \in Int /\ z = xd + y
  BY <1>1
<1>4. (w < x => wd + d <= xd) /\ (x < w => xd + d <= wd)
  BY <1>1, <1>2
<1>5. wd = xd
  <2> HIDE DEF w, wd, xd, z
  <2>1. ~ (w < x) /\ ~ (x < w)
    BY <1>1, <1>3, <1>4
  <2>2. w = x
    BY <1>1, <2>1
  <2> QED
    BY <2>2 DEF wd, xd
<1> HIDE DEF w, wd, xd, z
<1>6. z % d = y
  BY <1>1, <1>3, <1>5
<1> QED
  BY <1>6 DEF z

(* A summand may be reduced before it is added. *)
LEMMA ModOfReduced ==
    ASSUME NEW d \in Nat \ {0}, NEW a \in Int, NEW b \in Int
    PROVE  ((a % d) + b) % d = (a + b) % d
<1> DEFINE r == a % d
           q == a \div d
           c == r + b
           s == c % d
           p == c \div d
<1>1. a = q * d + r /\ r \in 0 .. d - 1 /\ q \in Int
  OBVIOUS
<1>2. c \in Int
  BY <1>1
<1>3. c = p * d + s /\ s \in 0 .. d - 1 /\ p \in Int
  <2> HIDE DEF c
  <2> QED
    BY <1>2
<1>4. a + b = (q + p) * d + s
  <2>1. q * d \in Int /\ p * d \in Int /\ (q + p) * d = q * d + p * d
    BY <1>1, <1>3
  <2>2. a + b = q * d + c
    BY <1>1
  <2> HIDE DEF q, p, s, c
  <2> QED
    BY <1>2, <1>3, <2>1, <2>2
<1>5. (a + b) % d = s
  <2> HIDE DEF q, p, s
  <2>1. q + p \in Int
    BY <1>1, <1>3
  <2> QED
    BY <1>3, <1>4, <2>1, ModOfMultiple
<1> QED
  BY <1>5
=============================================================================
