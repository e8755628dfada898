----------------------------- MODULE VmmProofs -----------------------------
(* Proofs about Vmm, for every size of a table, of RAM and of the ranges   *)
(* that vmm_init maps.                                                     *)
EXTENDS Vmm, FiniteSetTheorems, NaturalsInduction, WellFoundedInduction, TLAPS

Virtuals == 0 .. V_PAGES - 1
Memory == [Frames -> [Indices -> [page : Int, present : BOOLEAN]]]
Physical == {ENOMEM} \cup Targets \cup Frames \cup 0 .. GIGABYTES_4 + physical_base

-----------------------------------------------------------------------------
(* The least of some frames is one of them. *)
LEMMA MinOfFrames ==
    ASSUME NEW S \in SUBSET Frames, S # {}
    PROVE  Min(S) \in S
<1> DEFINE R == {ss \in Nat \X Nat : ss[1] < ss[2]}
<1>1. IsWellFoundedOn(R, Nat)
  BY NatLessThanWellFounded, Zenon DEF OpToRel
<1>2. S \subseteq Nat
  BY VmmAssumption
<1>3. PICK m \in S : \A y \in S : ~ (<<y, m>> \in R)
  <2> HIDE DEF R
  <2> QED BY <1>1, <1>2, WFMin, Zenon
<1>4. ASSUME NEW y \in S, ~ (m <= y) PROVE FALSE
  <2>1. m \in Nat /\ y \in Nat /\ y < m
    BY <1>2, <1>4
  <2>2. <<y, m>> \in R
    BY <2>1
  <2> QED
    BY <1>3, <2>2
<1> QED
  BY <1>4 DEF Min

-----------------------------------------------------------------------------
(* Dividing twice is dividing by the product. *)
LEMMA DivDiv ==
    ASSUME NEW v \in Nat, NEW a \in Nat \ {0}, NEW b \in Nat \ {0}
    PROVE  v \div (a * b) = (v \div a) \div b
<1> DEFINE q == v \div a
           r == q \div b
           s == v % a
           t == q % b
<1>1. q \in Nat /\ s \in 0 .. a - 1 /\ v = q * a + s
  OBVIOUS
<1> HIDE DEF q, s
<1>2. r \in Nat /\ t \in 0 .. b - 1 /\ q = r * b + t
  BY <1>1
<1> HIDE DEF r, t
<1> DEFINE ab == a * b
           ta == t * a
           rest == ta + s
<1>3. ab \in Nat \ {0} /\ ta \in Nat /\ rest \in Nat
  BY <1>1, <1>2
<1>4. v = r * ab + rest
  <2>1. q * a = (r * b) * a + t * a
    BY <1>1, <1>2
  <2>2. (r * b) * a = r * ab
    BY <1>2
  <2> QED
    BY <1>1, <1>2, <2>1, <2>2
<1>5. rest < ab
  <2>1. t + 1 <= b
    BY <1>2
  <2>2. (t + 1) * a <= b * a
    BY <1>2, <2>1
  <2>3. (t + 1) * a = ta + a
    BY <1>2
  <2> QED
    BY <1>1, <1>2, <2>2, <2>3
<1> HIDE DEF ab, rest
<1>6. \A d \in Nat \ {0} : \A x \in Nat, y \in 0 .. d - 1 : (x * d + y) \div d = x
  <2> SUFFICES ASSUME NEW d \in Nat \ {0}, NEW x \in Nat, NEW y \in 0 .. d - 1
               PROVE  (x * d + y) \div d = x
    OBVIOUS
  <2> DEFINE z == x * d + y
             w == z \div d
  <2>1. z \in Nat /\ w \in Nat /\ w * d <= z /\ z < w * d + d
    OBVIOUS
  <2>2. z = x * d + y
    OBVIOUS
  <2> HIDE DEF w, z
  <2>3. w * d < x * d + d /\ x * d < w * d + d
    BY <2>1, <2>2
  <2>4. x * d + d = (x + 1) * d /\ w * d + d = (w + 1) * d
    BY <2>1
  <2>5. \A m, n \in Nat : m * d < n * d => m < n
    OBVIOUS
  <2>6. w < x + 1 /\ x < w + 1
    BY <2>1, <2>3, <2>4, <2>5
  <2>7. w = x
    BY <2>1, <2>6
  <2> QED
    BY <2>7 DEF w, z
<1>7. v \div ab = r
  BY <1>2, <1>3, <1>4, <1>5, <1>6
<1> QED
  BY <1>7 DEF ab, r, q

(* The digits of a virtual page are indices, and tell the pages apart. *)
LEMMA DigitType ==
    ASSUME NEW v \in Nat
    PROVE  /\ Digit(v, 4) \in Indices /\ Digit(v, 3) \in Indices
           /\ Digit(v, 2) \in Indices /\ Digit(v, 1) \in Indices
<1>1. FAN \in Nat \ {0}
  BY VmmAssumption
<1>2. FAN * FAN \in Nat \ {0} /\ FAN * FAN * FAN \in Nat \ {0}
  BY <1>1
<1>3. \A d \in Nat \ {0} : (v \div d) % FAN \in Indices
  <2>1. \A d \in Nat \ {0} : v \div d \in Nat
    OBVIOUS
  <2>2. \A q \in Nat : q % FAN \in 0 .. FAN - 1
    BY <1>1
  <2> QED
    BY <2>1, <2>2 DEF Indices
<1> QED
  BY <1>1, <1>2, <1>3 DEF Digit

(* A page is the number that its digits write. *)
LEMMA DigitsWrite ==
    ASSUME NEW v \in Virtuals
    PROVE  v = ((Digit(v, 4) * FAN + Digit(v, 3)) * FAN + Digit(v, 2)) * FAN + Digit(v, 1)
<1> DEFINE q1 == v \div FAN
           q2 == q1 \div FAN
           q3 == q2 \div FAN
           c == FAN * FAN
<1>1. FAN \in Nat \ {0} /\ v \in Nat
  BY VmmAssumption DEF Virtuals
<1>2. c \in Nat \ {0} /\ c * FAN \in Nat \ {0}
  BY <1>1
<1>3. \A x \in Nat : x \div FAN \in Nat /\ x % FAN \in Nat /\ x = ((x \div FAN) * FAN) + (x % FAN)
  BY <1>1
<1>4. q1 \in Nat /\ q2 \in Nat /\ q3 \in Nat
  BY <1>1, <1>3
<1>5. v \div c = q2
  BY <1>1, DivDiv
<1>6. v \div (c * FAN) = q3
  <2> HIDE DEF c
  <2>1. v \div (c * FAN) = (v \div c) \div FAN
    BY <1>1, <1>2, DivDiv
  <2> QED
    BY <1>5, <2>1
<1>7. v \div 1 = v
  BY <1>1
<1>8. /\ Digit(v, 1) = v % FAN /\ Digit(v, 2) = q1 % FAN
      /\ Digit(v, 3) = q2 % FAN /\ Digit(v, 4) = q3 % FAN
  BY <1>5, <1>6, <1>7 DEF Digit
<1>9. q3 < FAN
  <2> DEFINE d == c * FAN
  <2>1. d \in Nat \ {0} /\ v < FAN * d
    <3>1. V_PAGES = FAN * (c * FAN)
      BY <1>1, <1>2 DEF V_PAGES
    <3> QED
      BY <1>1, <1>2, <3>1 DEF Virtuals
  <2>2. q3 = v \div d
    BY <1>6
  <2> HIDE DEF d, q3
  <2>3. \A x, y \in Nat, z \in Nat \ {0} : x * z < y * z => x < y
    OBVIOUS
  <2>4. \A x \in Nat, z \in Nat \ {0} : (x \div z) * z <= x
    OBVIOUS
  <2>5. q3 * d <= v /\ q3 \in Nat
    BY <1>1, <1>4, <2>1, <2>2, <2>4
  <2>6. q3 * d < FAN * d
    BY <1>1, <2>1, <2>5
  <2> QED
    BY <1>1, <2>1, <2>3, <2>5, <2>6
<1>10. q3 % FAN = q3
  BY <1>1, <1>4, <1>9
<1>11. v = (q1 * FAN) + (v % FAN) /\ q1 = (q2 * FAN) + (q1 % FAN) /\ q2 = (q3 * FAN) + (q2 % FAN)
  BY <1>1, <1>3, <1>4
<1> HIDE DEF q1, q2, q3
<1> QED
  BY <1>8, <1>10, <1>11, Zenon

(* No two pages have the same digits. *)
LEMMA DigitsApart ==
    ASSUME NEW u \in Virtuals, NEW v \in Virtuals,
           Digit(u, 4) = Digit(v, 4), Digit(u, 3) = Digit(v, 3),
           Digit(u, 2) = Digit(v, 2), Digit(u, 1) = Digit(v, 1)
    PROVE  u = v
<1>1. u = ((Digit(u, 4) * FAN + Digit(u, 3)) * FAN + Digit(u, 2)) * FAN + Digit(u, 1)
  BY DigitsWrite
<1>2. v = ((Digit(v, 4) * FAN + Digit(v, 3)) * FAN + Digit(v, 2)) * FAN + Digit(v, 1)
  BY DigitsWrite
<1> QED
  BY <1>1, <1>2, Zenon

-----------------------------------------------------------------------------
(* What entry x of table f says, and the translation of v from table r on. *)
Entries == [page : Int, present : BOOLEAN]
Present(m, f, x) == m[f][x].present
To(m, f, x) == m[f][x].page
Put(m, f, x, e) == [m EXCEPT ![f][x] = e]

Table3(m, r, v) == To(m, r, Digit(v, 4))
Table2(m, r, v) == To(m, Table3(m, r, v), Digit(v, 3))
Table1(m, r, v) == To(m, Table2(m, r, v), Digit(v, 2))
Tr(m, r, v) ==
    IF /\ Present(m, r, Digit(v, 4))
       /\ Present(m, Table3(m, r, v), Digit(v, 3))
       /\ Present(m, Table2(m, r, v), Digit(v, 2))
       /\ Present(m, Table1(m, r, v), Digit(v, 1))
    THEN To(m, Table1(m, r, v), Digit(v, 1)) ELSE None

(* The tables that r reaches are the domain of dep, which gives the level  *)
(* of each; F are the free frames.                                         *)
Levels(F, r, dep) ==
    /\ DOMAIN dep \subseteq Frames
    /\ dep \in [DOMAIN dep -> 1 .. 4]
    /\ r \in DOMAIN dep
    /\ \A f \in DOMAIN dep : dep[f] = 4 <=> f = r
    /\ F \subseteq Frames
    /\ F \cap DOMAIN dep = {}

(* The tables whose entries lead to tables. *)
Inner(dep) == {f \in DOMAIN dep : dep[f] > 1}

LeadsDown(m, dep) ==
    \A f \in Inner(dep), x \in Indices :
        Present(m, f, x) => To(m, f, x) \in DOMAIN dep /\ dep[To(m, f, x)] = dep[f] - 1

Unshared(m, dep) ==
    \A f, g \in Inner(dep), x, y \in Indices :
        Present(m, f, x) /\ Present(m, g, y) /\ To(m, f, x) = To(m, g, y) => f = g /\ x = y

Hung(m, r, dep) ==
    \A p \in DOMAIN dep \ {r} :
        \E f \in Inner(dep), x \in Indices : Present(m, f, x) /\ To(m, f, x) = p

Leaves(m, dep) ==
    \A f \in DOMAIN dep \ Inner(dep), x \in Indices : Present(m, f, x) => To(m, f, x) \in Physical

Tree(m, F, r, dep) ==
    /\ Levels(F, r, dep)
    /\ LeadsDown(m, dep)
    /\ Unshared(m, dep)
    /\ Hung(m, r, dep)
    /\ Leaves(m, dep)

(* What a write to a table leaves to be read. *)
LEMMA PutReads ==
    ASSUME NEW m \in Memory, NEW f \in Frames, NEW x \in Indices, NEW e \in Entries
    PROVE  /\ Put(m, f, x, e) \in Memory
           /\ To(Put(m, f, x, e), f, x) = e.page
           /\ Present(Put(m, f, x, e), f, x) <=> e.present
           /\ \A g \in Frames, y \in Indices : ~ (g = f /\ y = x) =>
                 /\ To(Put(m, f, x, e), g, y) = To(m, g, y)
                 /\ Present(Put(m, f, x, e), g, y) <=> Present(m, g, y)
<1> DEFINE n == Put(m, f, x, e)
<1>1. n \in Memory
  BY DEF Put, Memory, Entries
<1>2. n[f][x] = e
  BY DEF Put, Memory
<1>3. \A g \in Frames, y \in Indices : ~ (g = f /\ y = x) => n[g][y] = m[g][y]
  BY DEF Put, Memory
<1> HIDE DEF n
<1>4. /\ To(n, f, x) = e.page
      /\ Present(n, f, x) <=> e.present
  BY <1>2, Zenon DEF To, Present
<1>5. \A g \in Frames, y \in Indices : ~ (g = f /\ y = x) =>
                 /\ To(n, g, y) = To(m, g, y)
                 /\ Present(n, g, y) <=> Present(m, g, y)
  BY <1>3, Zenon DEF To, Present
<1> QED
  BY <1>1, <1>4, <1>5 DEF n

(* The tables on the way to v. *)
LEMMA PathLevels ==
    ASSUME NEW m, NEW F, NEW r, NEW dep, Tree(m, F, r, dep), NEW v \in Nat,
           Present(m, r, Digit(v, 4))
    PROVE  /\ Table3(m, r, v) \in Inner(dep) /\ dep[Table3(m, r, v)] = 3
           /\ Present(m, Table3(m, r, v), Digit(v, 3)) =>
                 /\ Table2(m, r, v) \in Inner(dep) /\ dep[Table2(m, r, v)] = 2
                 /\ Present(m, Table2(m, r, v), Digit(v, 2)) =>
                       /\ Table1(m, r, v) \in DOMAIN dep \ Inner(dep)
                       /\ dep[Table1(m, r, v)] = 1
<1>1. r \in Inner(dep) /\ dep[r] = 4
  BY DEF Tree, Levels, Inner
<1>2. \A f \in Inner(dep), x \in Indices :
         Present(m, f, x) => To(m, f, x) \in DOMAIN dep /\ dep[To(m, f, x)] = dep[f] - 1
  BY DEF Tree, LeadsDown
<1>3. \A f \in DOMAIN dep : dep[f] > 1 => f \in Inner(dep)
  BY DEF Inner
<1>4. \A f \in DOMAIN dep : dep[f] = 1 => f \notin Inner(dep)
  BY DEF Inner
<1>5. Digit(v, 4) \in Indices /\ Digit(v, 3) \in Indices /\ Digit(v, 2) \in Indices
  BY DigitType
<1>6. Table3(m, r, v) \in Inner(dep) /\ dep[Table3(m, r, v)] = 3
  BY <1>1, <1>2, <1>3, <1>5 DEF Table3
<1>7. ASSUME Present(m, Table3(m, r, v), Digit(v, 3))
      PROVE  Table2(m, r, v) \in Inner(dep) /\ dep[Table2(m, r, v)] = 2
  BY <1>2, <1>3, <1>5, <1>6, <1>7 DEF Table2
<1>8. ASSUME Present(m, Table3(m, r, v), Digit(v, 3)), Present(m, Table2(m, r, v), Digit(v, 2))
      PROVE  Table1(m, r, v) \in DOMAIN dep \ Inner(dep) /\ dep[Table1(m, r, v)] = 1
  BY <1>2, <1>4, <1>5, <1>7, <1>8 DEF Table1
<1> QED
  BY <1>6, <1>7, <1>8

(* m2 keeps the present entries of the tables in m, and an entry that      *)
(* became present in it leads to an empty table.                           *)
Kept(m, m2, dep) ==
    \A f \in DOMAIN dep, x \in Indices :
        Present(m, f, x) => Present(m2, f, x) /\ To(m2, f, x) = To(m, f, x)

NewAreEmpty(m, m2, dep) ==
    \A f \in DOMAIN dep, x \in Indices :
        ~ Present(m, f, x) /\ Present(m2, f, x) =>
            f \in Inner(dep) /\ \A y \in Indices : ~ Present(m2, To(m2, f, x), y)

(* Then no translation differs. *)
LEMMA SameTranslations ==
    ASSUME NEW m, NEW m2, NEW F, NEW r, NEW dep, Tree(m, F, r, dep),
           Kept(m, m2, dep), NewAreEmpty(m, m2, dep)
    PROVE  \A v \in Nat : Tr(m2, r, v) = Tr(m, r, v)
<1> TAKE v \in Nat
<1> DEFINE t3 == Table3(m, r, v)
           t2 == Table2(m, r, v)
           t1 == Table1(m, r, v)
<1>1. /\ Digit(v, 4) \in Indices /\ Digit(v, 3) \in Indices
      /\ Digit(v, 2) \in Indices /\ Digit(v, 1) \in Indices
  BY DigitType
<1>2. r \in DOMAIN dep
  BY DEF Tree, Levels
<1>3. \A f \in Inner(dep) : f \in DOMAIN dep
  BY DEF Inner
<1>4. CASE ~ Present(m, r, Digit(v, 4))
  <2>1. Tr(m, r, v) = None
    BY <1>4 DEF Tr
  <2>2. Present(m2, r, Digit(v, 4)) => ~ Present(m2, Table3(m2, r, v), Digit(v, 3))
    BY <1>1, <1>2, <1>4 DEF NewAreEmpty, Table3
  <2>3. Tr(m2, r, v) = None
    BY <2>2 DEF Tr
  <2> QED
    BY <2>1, <2>3
<1>5. CASE Present(m, r, Digit(v, 4)) /\ ~ Present(m, t3, Digit(v, 3))
  <2>1. Tr(m, r, v) = None
    BY <1>5 DEF Tr
  <2>2. t3 \in DOMAIN dep
    BY <1>3, <1>5, PathLevels
  <2>3. Table3(m2, r, v) = t3
    BY <1>1, <1>2, <1>5 DEF Kept, Table3
  <2>4. Present(m2, t3, Digit(v, 3)) => ~ Present(m2, Table2(m2, r, v), Digit(v, 2))
    BY <1>1, <1>5, <2>2, <2>3 DEF NewAreEmpty, Table2
  <2>5. Tr(m2, r, v) = None
    BY <2>3, <2>4 DEF Tr
  <2> QED
    BY <2>1, <2>5
<1>6. CASE Present(m, r, Digit(v, 4)) /\ Present(m, t3, Digit(v, 3))
  <2>1. t3 \in DOMAIN dep /\ t2 \in DOMAIN dep
    BY <1>3, <1>6, PathLevels
  <2>2. Present(m2, r, Digit(v, 4)) /\ Table3(m2, r, v) = t3
    BY <1>1, <1>2, <1>6 DEF Kept, Table3
  <2>3. Present(m2, t3, Digit(v, 3)) /\ Table2(m2, r, v) = t2
    BY <1>1, <1>6, <2>1, <2>2 DEF Kept, Table2
  <2>4. CASE ~ Present(m, t2, Digit(v, 2))
    <3>1. Tr(m, r, v) = None
      BY <2>4 DEF Tr
    <3>2. Present(m2, t2, Digit(v, 2)) => ~ Present(m2, Table1(m2, r, v), Digit(v, 1))
      BY <1>1, <2>1, <2>3, <2>4 DEF NewAreEmpty, Table1
    <3>3. Tr(m2, r, v) = None
      BY <2>3, <3>2 DEF Tr
    <3> QED
      BY <3>1, <3>3
  <2>5. CASE Present(m, t2, Digit(v, 2))
    <3>1. t1 \in DOMAIN dep /\ t1 \notin Inner(dep)
      BY <1>6, <2>5, PathLevels
    <3>2. Present(m2, t2, Digit(v, 2)) /\ Table1(m2, r, v) = t1
      BY <1>1, <2>1, <2>3, <2>5 DEF Kept, Table1
    <3>3. Present(m2, t1, Digit(v, 1)) <=> Present(m, t1, Digit(v, 1))
      BY <1>1, <3>1 DEF Kept, NewAreEmpty
    <3>4. Present(m, t1, Digit(v, 1)) => To(m2, t1, Digit(v, 1)) = To(m, t1, Digit(v, 1))
      BY <1>1, <3>1 DEF Kept
    <3> QED
      BY <1>6, <2>2, <2>3, <2>5, <3>2, <3>3, <3>4 DEF Tr
  <2> QED
    BY <2>4, <2>5
<1> QED
  BY <1>4, <1>5, <1>6

(* A tree is one still when its present entries are what they were. *)
LEMMA SameTree ==
    ASSUME NEW m, NEW m2, NEW F, NEW r, NEW dep, Tree(m, F, r, dep),
           Kept(m, m2, dep), Kept(m2, m, dep),
           NEW F2, F2 \subseteq F
    PROVE  /\ Tree(m2, F2, r, dep)
           /\ \A v \in Nat : Tr(m2, r, v) = Tr(m, r, v)
<1>1. Levels(F2, r, dep)
  BY DEF Tree, Levels
<1>2. \A f \in DOMAIN dep, x \in Indices :
         /\ Present(m, f, x) <=> Present(m2, f, x)
         /\ Present(m, f, x) => To(m2, f, x) = To(m, f, x)
  BY DEF Kept
<1>3. \A f \in Inner(dep) : f \in DOMAIN dep
  BY DEF Inner
<1>4. LeadsDown(m2, dep)
  BY <1>2, <1>3 DEF Tree, LeadsDown
<1>5. Unshared(m2, dep)
  BY <1>2, <1>3 DEF Tree, Unshared
<1>6. Hung(m2, r, dep)
  BY <1>2, <1>3 DEF Tree, Hung
<1>7. Leaves(m2, dep)
  BY <1>2 DEF Tree, Leaves
<1>8. NewAreEmpty(m, m2, dep)
  BY <1>2 DEF NewAreEmpty
<1>9. \A v \in Nat : Tr(m2, r, v) = Tr(m, r, v)
  BY <1>8, SameTranslations
<1> QED
  BY <1>1, <1>4, <1>5, <1>6, <1>7, <1>9 DEF Tree

(* An empty page from the free ones, linked where a table led nowhere. *)
Deeper(dep, p, dir) ==
    [f \in DOMAIN dep \cup {p} |-> IF f = p THEN dep[dir] - 1 ELSE dep[f]]

(* Linking an empty free page, as vmm_get_next_map_level does with the     *)
(* flags of vmm_map_page, adds one table to the tree and changes no        *)
(* translation.                                                            *)
LEMMA LinkNew ==
    ASSUME NEW m \in Memory, NEW F, NEW r, NEW dep, Tree(m, F, r, dep),
           NEW dir \in Inner(dep), NEW x \in Indices, ~ Present(m, dir, x),
           NEW p \in F, \A y \in Indices : ~ Present(m, p, y),
           NEW e \in Entries, e.page = p, e.present,
           NEW m2, m2 = Put(m, dir, x, e),
           NEW dep2, dep2 = Deeper(dep, p, dir)
    PROVE  /\ m2 \in Memory
           /\ Tree(m2, F \ {p}, r, dep2)
           /\ Present(m2, dir, x) /\ To(m2, dir, x) = p
           /\ Kept(m, m2, dep)
           /\ \A v \in Nat : Tr(m2, r, v) = Tr(m, r, v)
<1>1. p \in Frames /\ p \notin DOMAIN dep
  BY DEF Tree, Levels
<1>2. dir \in DOMAIN dep /\ dir \in Frames /\ dir # p /\ dep[dir] \in 2 .. 4
  BY <1>1 DEF Tree, Levels, Inner
<1>4. /\ m2 \in Memory
      /\ To(m2, dir, x) = p
      /\ Present(m2, dir, x)
      /\ \A g \in Frames, y \in Indices : ~ (g = dir /\ y = x) =>
            To(m2, g, y) = To(m, g, y) /\ (Present(m2, g, y) <=> Present(m, g, y))
  BY <1>2, PutReads
<1>5. /\ DOMAIN dep2 = DOMAIN dep \cup {p}
      /\ dep2[p] = dep[dir] - 1
      /\ \A f \in DOMAIN dep : f # p /\ dep2[f] = dep[f]
  BY <1>1 DEF Deeper
<1>6. \A f \in Inner(dep2) : f = p \/ f \in Inner(dep)
  BY <1>5 DEF Inner
<1>7. \A f \in Inner(dep) : f \in DOMAIN dep /\ f \in Inner(dep2) /\ f \in Frames /\ f # p
  BY <1>5 DEF Inner, Tree, Levels
<1>8. \A y \in Indices : ~ Present(m2, p, y)
  BY <1>1, <1>2, <1>4
<1>9. Levels(F \ {p}, r, dep2)
  <2>1. dep \in [DOMAIN dep -> 1 .. 4] /\ r \in DOMAIN dep /\ DOMAIN dep \subseteq Frames
        /\ F \subseteq Frames /\ F \cap DOMAIN dep = {}
    BY DEF Tree, Levels
  <2>2. dep2 \in [DOMAIN dep2 -> 1 .. 4]
    <3>1. dep2[p] \in 1 .. 4 /\ \A f \in DOMAIN dep : dep2[f] \in 1 .. 4
      BY <1>2, <1>5, <2>1
    <3>2. dep2 = [f \in DOMAIN dep2 |-> dep2[f]]
      BY <1>5 DEF Deeper
    <3> QED
      BY <1>5, <3>1, <3>2
  <2>3. \A f \in DOMAIN dep2 : dep2[f] = 4 <=> f = r
    <3>1. dep2[p] # 4 /\ p # r
      BY <1>2, <1>5, <2>1
    <3>2. \A f \in DOMAIN dep : dep[f] = 4 <=> f = r
      BY DEF Tree, Levels
    <3> QED
      BY <1>5, <3>1, <3>2, ZenonT(60)
  <2> QED
    BY <1>1, <1>5, <2>1, <2>2, <2>3 DEF Levels
<1>10. LeadsDown(m2, dep2)
  <2> SUFFICES ASSUME NEW f \in Inner(dep2), NEW y \in Indices, Present(m2, f, y)
               PROVE  To(m2, f, y) \in DOMAIN dep2 /\ dep2[To(m2, f, y)] = dep2[f] - 1
    BY DEF LeadsDown
  <2>1. f # p /\ f \in Inner(dep) /\ f \in DOMAIN dep /\ f \in Frames
    BY <1>6, <1>7, <1>8
  <2>2. CASE f = dir /\ y = x
    BY <1>2, <1>4, <1>5, <2>2
  <2>3. CASE ~ (f = dir /\ y = x)
    <3>1. Present(m, f, y) /\ To(m2, f, y) = To(m, f, y)
      BY <1>4, <2>1, <2>3
    <3>2. To(m, f, y) \in DOMAIN dep /\ dep[To(m, f, y)] = dep[f] - 1
      BY <2>1, <3>1 DEF Tree, LeadsDown
    <3> QED
      BY <1>5, <2>1, <3>1, <3>2
  <2> QED
    BY <2>2, <2>3
<1>11. Unshared(m2, dep2)
  <2> SUFFICES \A f, g \in Inner(dep2), y, z \in Indices :
                   Present(m2, f, y) /\ Present(m2, g, z) /\ To(m2, f, y) = To(m2, g, z)
                       => f = g /\ y = z
    BY DEF Unshared
  <2> TAKE f, g \in Inner(dep2), y, z \in Indices
  <2> HAVE Present(m2, f, y) /\ Present(m2, g, z) /\ To(m2, f, y) = To(m2, g, z)
  <2>1. f \in Inner(dep) /\ g \in Inner(dep) /\ f \in Frames /\ g \in Frames
    BY <1>6, <1>7, <1>8
  <2>2. ASSUME NEW h \in Inner(dep), h \in Frames, NEW w \in Indices, ~ (h = dir /\ w = x), Present(m2, h, w)
        PROVE  /\ Present(m, h, w) /\ To(m2, h, w) = To(m, h, w)
               /\ To(m2, h, w) # p
    <3>1. Present(m, h, w) /\ To(m2, h, w) = To(m, h, w)
      BY <1>4, <2>2
    <3>2. To(m, h, w) \in DOMAIN dep
      BY <3>1 DEF Tree, LeadsDown
    <3> QED
      BY <1>1, <3>1, <3>2
  <2>3. CASE f = dir /\ y = x
    <3>1. To(m2, g, z) = p
      BY <1>4, <2>3
    <3> QED
      BY <2>1, <2>2, <2>3, <3>1
  <2>4. CASE g = dir /\ z = x /\ ~ (f = dir /\ y = x)
    <3>1. To(m2, f, y) = p
      BY <1>4, <2>4
    <3> QED
      BY <2>1, <2>2, <2>4, <3>1
  <2>5. CASE ~ (f = dir /\ y = x) /\ ~ (g = dir /\ z = x)
    <3>1. Present(m, f, y) /\ Present(m, g, z) /\ To(m, f, y) = To(m, g, z)
      BY <2>1, <2>2, <2>5
    <3> QED
      BY <2>1, <3>1 DEF Tree, Unshared
  <2> QED
    BY <2>3, <2>4, <2>5
<1>12. Hung(m2, r, dep2)
  <2> SUFFICES ASSUME NEW q \in DOMAIN dep2 \ {r}
               PROVE  \E f \in Inner(dep2), y \in Indices : Present(m2, f, y) /\ To(m2, f, y) = q
    BY DEF Hung
  <2>1. CASE q = p
    BY <1>4, <1>7, <2>1
  <2>2. CASE q # p
    <3>1. q \in DOMAIN dep \ {r}
      BY <1>5, <2>2
    <3>2. PICK f \in Inner(dep), y \in Indices : Present(m, f, y) /\ To(m, f, y) = q
      BY <3>1 DEF Tree, Hung
    <3>3. Present(m2, f, y) /\ To(m2, f, y) = q
      BY <1>4, <1>7, <3>2
    <3> QED
      BY <1>7, <3>3
  <2> QED
    BY <2>1, <2>2
<1>13. Leaves(m2, dep2)
  <2> SUFFICES ASSUME NEW f \in DOMAIN dep2 \ Inner(dep2), NEW y \in Indices, Present(m2, f, y)
               PROVE  To(m2, f, y) \in Physical
    BY DEF Leaves
  <2>1. f # p /\ f \in DOMAIN dep \ Inner(dep) /\ f \in Frames
    BY <1>5, <1>7, <1>8 DEF Tree, Levels
  <2>2. f # dir
    BY <2>1
  <2>3. Present(m, f, y) /\ To(m2, f, y) = To(m, f, y)
    BY <1>4, <2>1, <2>2
  <2> QED
    BY <2>1, <2>3 DEF Tree, Leaves
<1>14. \A f \in DOMAIN dep : f \in Frames
  BY DEF Tree, Levels
<1>15. Kept(m, m2, dep)
  <2> SUFFICES ASSUME NEW f \in DOMAIN dep, NEW y \in Indices, Present(m, f, y)
               PROVE  Present(m2, f, y) /\ To(m2, f, y) = To(m, f, y)
    BY DEF Kept
  <2>1. ~ (f = dir /\ y = x)
    OBVIOUS
  <2> QED
    BY <1>4, <1>14, <2>1
<1>16. NewAreEmpty(m, m2, dep)
  <2> SUFFICES ASSUME NEW f \in DOMAIN dep, NEW y \in Indices, ~ Present(m, f, y), Present(m2, f, y)
               PROVE  f \in Inner(dep) /\ \A z \in Indices : ~ Present(m2, To(m2, f, y), z)
    BY DEF NewAreEmpty
  <2>1. f = dir /\ y = x
    BY <1>4, <1>14
  <2> QED
    BY <1>4, <1>8, <2>1
<1>17. \A v \in Nat : Tr(m2, r, v) = Tr(m, r, v)
  BY <1>15, <1>16, SameTranslations
<1> QED
  BY <1>4, <1>9, <1>10, <1>11, <1>12, <1>13, <1>15, <1>17 DEF Tree

(* A write to the last table of v changes the translation of v alone. *)
LEMMA StoreLeaf ==
    ASSUME NEW m \in Memory, NEW F, NEW r, NEW dep, Tree(m, F, r, dep),
           NEW v \in Virtuals,
           Present(m, r, Digit(v, 4)),
           Present(m, Table3(m, r, v), Digit(v, 3)),
           Present(m, Table2(m, r, v), Digit(v, 2)),
           NEW e \in Entries, e.present => e.page \in Physical,
           NEW m2, m2 = Put(m, Table1(m, r, v), Digit(v, 1), e)
    PROVE  /\ m2 \in Memory
           /\ Tree(m2, F, r, dep)
           /\ Tr(m2, r, v) = IF e.present THEN e.page ELSE None
           /\ \A u \in Virtuals \ {v} : Tr(m2, r, u) = Tr(m, r, u)
<1> DEFINE leaf == Table1(m, r, v)
           d1 == Digit(v, 1)
<1>1. \A u \in Virtuals : /\ u \in Nat
                          /\ Digit(u, 4) \in Indices /\ Digit(u, 3) \in Indices
                          /\ Digit(u, 2) \in Indices /\ Digit(u, 1) \in Indices
  BY DigitType DEF Virtuals
<1>2. leaf \in DOMAIN dep \ Inner(dep) /\ dep[leaf] = 1
  BY <1>1, PathLevels
<1>3. \A f \in DOMAIN dep : f \in Frames
  BY DEF Tree, Levels
<1>4. \A f \in Inner(dep) : f # leaf /\ f \in DOMAIN dep /\ f \in Frames
  BY <1>2, <1>3 DEF Inner
<1>5. /\ m2 \in Memory
      /\ To(m2, leaf, d1) = e.page
      /\ Present(m2, leaf, d1) <=> e.present
      /\ \A g \in Frames, y \in Indices : ~ (g = leaf /\ y = d1) =>
            To(m2, g, y) = To(m, g, y) /\ (Present(m2, g, y) <=> Present(m, g, y))
  BY <1>1, <1>2, <1>3, PutReads
<1>6. \A f \in Inner(dep), y \in Indices :
         To(m2, f, y) = To(m, f, y) /\ (Present(m2, f, y) <=> Present(m, f, y))
  BY <1>4, <1>5
<1>7. Tree(m2, F, r, dep)
  <2>1. LeadsDown(m2, dep)
    BY <1>6 DEF Tree, LeadsDown
  <2>2. Unshared(m2, dep)
    BY <1>6 DEF Tree, Unshared
  <2>3. Hung(m2, r, dep)
    BY <1>6 DEF Tree, Hung
  <2>4. Leaves(m2, dep)
    BY <1>3, <1>5 DEF Tree, Leaves
  <2> QED
    BY <2>1, <2>2, <2>3, <2>4 DEF Tree
<1>8. r \in Inner(dep)
  BY DEF Tree, Levels, Inner
<1>9. ASSUME NEW u \in Virtuals, Present(m, r, Digit(u, 4))
      PROVE  /\ Table3(m2, r, u) = Table3(m, r, u) /\ Table3(m, r, u) \in Inner(dep)
             /\ Present(m, Table3(m, r, u), Digit(u, 3)) =>
                   /\ Table2(m2, r, u) = Table2(m, r, u) /\ Table2(m, r, u) \in Inner(dep)
                   /\ Present(m, Table2(m, r, u), Digit(u, 2)) =>
                         Table1(m2, r, u) = Table1(m, r, u) /\ Table1(m, r, u) \in DOMAIN dep
  <2>1. Table3(m2, r, u) = Table3(m, r, u) /\ Table3(m, r, u) \in Inner(dep)
    BY <1>1, <1>6, <1>8, <1>9, PathLevels DEF Table3
  <2>2. ASSUME Present(m, Table3(m, r, u), Digit(u, 3))
        PROVE  Table2(m2, r, u) = Table2(m, r, u) /\ Table2(m, r, u) \in Inner(dep)
    <3>1. Table2(m, r, u) \in Inner(dep)
      BY <1>1, <1>9, <2>2, PathLevels
    <3> QED
      BY <1>1, <1>6, <2>1, <3>1 DEF Table2
  <2>3. ASSUME Present(m, Table3(m, r, u), Digit(u, 3)), Present(m, Table2(m, r, u), Digit(u, 2))
        PROVE  Table1(m2, r, u) = Table1(m, r, u) /\ Table1(m, r, u) \in DOMAIN dep
    <3>1. Table1(m, r, u) \in DOMAIN dep
      BY <1>1, <1>9, <2>3, PathLevels
    <3> QED
      BY <1>1, <1>6, <2>2, <2>3, <3>1 DEF Table1
  <2> QED
    BY <2>1, <2>2, <2>3
<1>10. Tr(m2, r, v) = IF e.present THEN e.page ELSE None
  <2>1. /\ Table3(m2, r, v) = Table3(m, r, v) /\ Table2(m2, r, v) = Table2(m, r, v)
        /\ Table1(m2, r, v) = leaf
        /\ Table3(m, r, v) \in Inner(dep) /\ Table2(m, r, v) \in Inner(dep)
    BY <1>9
  <2>2. /\ Present(m2, r, Digit(v, 4))
        /\ Present(m2, Table3(m2, r, v), Digit(v, 3))
        /\ Present(m2, Table2(m2, r, v), Digit(v, 2))
    BY <1>1, <1>6, <1>8, <2>1
  <2> QED
    BY <1>5, <2>1, <2>2 DEF Tr
<1>11. ASSUME NEW u \in Virtuals \ {v}
       PROVE  Tr(m2, r, u) = Tr(m, r, u)
  <2>1. Present(m2, r, Digit(u, 4)) <=> Present(m, r, Digit(u, 4))
    BY <1>1, <1>6, <1>8
  <2>2. CASE ~ Present(m, r, Digit(u, 4))
    BY <2>1, <2>2 DEF Tr
  <2>3. CASE Present(m, r, Digit(u, 4)) /\ ~ Present(m, Table3(m, r, u), Digit(u, 3))
    <3>1. ~ Present(m2, Table3(m2, r, u), Digit(u, 3))
      BY <1>1, <1>6, <1>9, <2>3
    <3> QED
      BY <2>3, <3>1 DEF Tr
  <2>4. CASE /\ Present(m, r, Digit(u, 4)) /\ Present(m, Table3(m, r, u), Digit(u, 3))
             /\ ~ Present(m, Table2(m, r, u), Digit(u, 2))
    <3>1. ~ Present(m2, Table2(m2, r, u), Digit(u, 2))
      BY <1>1, <1>6, <1>9, <2>4
    <3> QED
      BY <2>4, <3>1 DEF Tr
  <2>5. CASE /\ Present(m, r, Digit(u, 4)) /\ Present(m, Table3(m, r, u), Digit(u, 3))
             /\ Present(m, Table2(m, r, u), Digit(u, 2))
    <3>1. /\ Table3(m2, r, u) = Table3(m, r, u) /\ Table3(m, r, u) \in Inner(dep)
          /\ Table2(m2, r, u) = Table2(m, r, u) /\ Table2(m, r, u) \in Inner(dep)
          /\ Table1(m2, r, u) = Table1(m, r, u) /\ Table1(m, r, u) \in DOMAIN dep
      BY <1>9, <2>5
    <3>2. ~ (Table1(m, r, u) = leaf /\ Digit(u, 1) = d1)
      <4> SUFFICES ASSUME Table1(m, r, u) = leaf, Digit(u, 1) = d1 PROVE FALSE
        OBVIOUS
      <4>1. Table3(m, r, v) \in Inner(dep) /\ Table2(m, r, v) \in Inner(dep)
        BY <1>9
      <4>2. Table2(m, r, u) = Table2(m, r, v) /\ Digit(u, 2) = Digit(v, 2)
        BY <1>1, <2>5, <3>1, <4>1 DEF Tree, Unshared, Table1
      <4>3. Table3(m, r, u) = Table3(m, r, v) /\ Digit(u, 3) = Digit(v, 3)
        BY <1>1, <2>5, <3>1, <4>1, <4>2 DEF Tree, Unshared, Table2
      <4>4. Digit(u, 4) = Digit(v, 4)
        BY <1>1, <1>8, <2>5, <3>1, <4>1, <4>3 DEF Tree, Unshared, Table3
      <4> QED
        BY <4>2, <4>3, <4>4, DigitsApart
    <3>3. /\ To(m2, Table1(m, r, u), Digit(u, 1)) = To(m, Table1(m, r, u), Digit(u, 1))
          /\ Present(m2, Table1(m, r, u), Digit(u, 1)) <=> Present(m, Table1(m, r, u), Digit(u, 1))
      BY <1>1, <1>3, <1>5, <3>1, <3>2
    <3>4. Present(m2, Table3(m, r, u), Digit(u, 3)) /\ Present(m2, Table2(m, r, u), Digit(u, 2))
      BY <1>1, <1>6, <2>5, <3>1
    <3> QED
      BY <2>1, <2>5, <3>1, <3>3, <3>4 DEF Tr
  <2> QED
    BY <2>2, <2>3, <2>4, <2>5
<1> QED
  BY <1>5, <1>7, <1>10, <1>11

-----------------------------------------------------------------------------
Stores ==
    [mem : Memory, free : SUBSET Frames, tables : SUBSET Frames, lost : BOOLEAN, dirty : BOOLEAN]

(* What became of the store s when page p of it was put at x in dir. *)
Linking(s, t, dir, x, p, e) ==
    /\ e \in Entries /\ e.page = p
    /\ t \in Stores
    /\ t.mem = Put(s.mem, dir, x, e)
    /\ t.free = s.free \ {p}
    /\ t.tables = s.tables \cup {p}
    /\ t.lost <=> s.lost
    /\ t.dirty <=> \E y \in Indices : Present(s.mem, p, y)

(* NewTable is such a step. *)
LEMMA NewTableLinks ==
    ASSUME NEW s \in Stores, NEW dir \in Frames, NEW x \in Indices,
           NEW flags \in BOOLEAN, NEW p \in s.free,
           NEW t, t = NewTable(s, dir, x, flags, p)
    PROVE  \E e : Linking(s, t, dir, x, p, e) /\ (e.present <=> flags)
<1> DEFINE e == Entry(p, flags)
<1>1. p \in Frames /\ p \in Int
  BY VmmAssumption DEF Stores
<1>2. e \in Entries /\ e.page = p /\ e.present = flags
  BY <1>1 DEF Entry, Entries
<1>3. s = [mem |-> s.mem, free |-> s.free, tables |-> s.tables, lost |-> s.lost, dirty |-> s.dirty]
      /\ s.mem \in Memory /\ s.free \in SUBSET Frames /\ s.tables \in SUBSET Frames
      /\ s.lost \in BOOLEAN
  BY DEF Stores
<1> DEFINE d == \E y \in Indices : s.mem[p][y].present
<1>4. d \in BOOLEAN
  BY Zenon
<1>5. t = [mem |-> Put(s.mem, dir, x, e), free |-> s.free \ {p}, tables |-> s.tables \cup {p},
           lost |-> s.lost, dirty |-> d]
  <2> HIDE DEF d, e
  <2>1. t = [s EXCEPT !.mem[dir][x] = e, !.free = s.free \ {p}, !.tables = s.tables \cup {p}, !.dirty = d]
    BY Zenon DEF NewTable, e, d
  <2> QED
    BY <1>3, <2>1 DEF Put
<1> HIDE DEF d, e
<1>6. Put(s.mem, dir, x, e) \in Memory
  BY <1>2, <1>3, PutReads
<1>7. t \in Stores
  BY <1>1, <1>3, <1>4, <1>5, <1>6 DEF Stores
<1>8. /\ t.mem = Put(s.mem, dir, x, e) /\ t.free = s.free \ {p}
      /\ t.tables = s.tables \cup {p} /\ t.lost = s.lost /\ t.dirty = d
  BY <1>5
<1>9. d <=> \E y \in Indices : Present(s.mem, p, y)
  BY Zenon DEF d, Present
<1>10. Linking(s, t, dir, x, p, e)
  BY <1>2, <1>7, <1>8, <1>9, Zenon DEF Linking
<1> QED
  BY <1>2, <1>10, Zenon

(* An entry written where no page was left for a table. *)
Lose(s, dir, x, e, yes) == [s EXCEPT !.mem[dir][x] = e, !.lost = yes]

(* What the write of ENOMEM into a table leaves of a store. *)
LEMMA LostStore ==
    ASSUME NEW s \in Stores, NEW dir \in Frames, NEW x \in Indices, NEW e \in Entries, NEW yes \in BOOLEAN
    PROVE  /\ Lose(s, dir, x, e, yes) \in Stores
           /\ Lose(s, dir, x, e, yes).lost = yes
           /\ Lose(s, dir, x, e, yes).free = s.free
           /\ Lose(s, dir, x, e, yes).tables = s.tables
<1>0. PICK t : t = Lose(s, dir, x, e, yes)
  OBVIOUS
<1>1. s.mem \in Memory /\ s.free \in SUBSET Frames /\ s.tables \in SUBSET Frames /\ s.dirty \in BOOLEAN
      /\ s = [mem |-> s.mem, free |-> s.free, tables |-> s.tables, lost |-> s.lost, dirty |-> s.dirty]
  BY DEF Stores
<1>2. t = [mem |-> Put(s.mem, dir, x, e), free |-> s.free, tables |-> s.tables,
           lost |-> yes, dirty |-> s.dirty]
  BY <1>0, <1>1 DEF Put, Lose
<1>3. Put(s.mem, dir, x, e) \in Memory
  BY <1>1, PutReads
<1>4. t \in Stores /\ t.lost = yes /\ t.free = s.free /\ t.tables = s.tables
  BY <1>1, <1>2, <1>3 DEF Stores
<1> QED
  BY <1>0, <1>4, Zenon

LoseAt(s, yes) == [s EXCEPT !.lost = yes]

(* Losing a table changes nothing else in a store. *)
LEMMA LoseStore ==
    ASSUME NEW s \in Stores, NEW yes \in BOOLEAN
    PROVE  /\ LoseAt(s, yes) \in Stores
           /\ LoseAt(s, yes).lost = yes
           /\ LoseAt(s, yes).free = s.free
           /\ LoseAt(s, yes).tables = s.tables
<1>0. PICK t : t = LoseAt(s, yes)
  OBVIOUS
<1>1. s.mem \in Memory /\ s.free \in SUBSET Frames /\ s.tables \in SUBSET Frames
      /\ s.lost \in BOOLEAN /\ s.dirty \in BOOLEAN
      /\ s = [mem |-> s.mem, free |-> s.free, tables |-> s.tables, lost |-> s.lost, dirty |-> s.dirty]
  BY DEF Stores
<1>2. t = [mem |-> s.mem, free |-> s.free, tables |-> s.tables, lost |-> yes, dirty |-> s.dirty]
  BY <1>0, <1>1 DEF LoseAt
<1>4. t \in Stores /\ t.lost = yes /\ t.free = s.free /\ t.tables = s.tables
  BY <1>1, <1>2 DEF Stores
<1> QED
  BY <1>0, <1>4, Zenon

(* There is no page for a table, or one is not in place. *)
NoTable(s) == s.free = {} \/ \E p \in s.tables : ~ InPlace(p)

(* What vmm_get_next_map_level in dir makes of the store s then. *)
Lost(s, n, dir) ==
    /\ n.store \in Stores /\ n.store.lost
    /\ n.store.tables = s.tables
    /\ n.store.free = {} \/ ~ InPlace(dir)
    /\ n.level = dir

(* The ways of vmm_get_next_map_level. *)
LEMMA NextLevel ==
    ASSUME NEW s \in Stores, ~ s.lost, ~ s.dirty, NEW dir \in Frames, NEW x \in Indices,
           NEW flags \in BOOLEAN, NEW n, n = vmm_get_next_map_level(s, dir, x, flags)
    PROVE  \/ Present(s.mem, dir, x) /\ n.store = s /\ n.level = To(s.mem, dir, x)
           \/ Lost(s, n, dir)
           \/ /\ ~ Present(s.mem, dir, x)
              /\ n.level \in s.free
              /\ \E e : Linking(s, n.store, dir, x, n.level, e) /\ (e.present <=> flags)
<1>0. CASE ~ InPlace(dir)
  <2>1. PICK yes \in BOOLEAN : yes
    OBVIOUS
  <2>2. PICK t : t = LoseAt(s, yes)
    OBVIOUS
  <2>3. n = [store |-> t, level |-> dir]
    BY <1>0, <2>1, <2>2, Zenon DEF vmm_get_next_map_level, LoseAt
  <2>4. t \in Stores /\ t.lost = yes /\ t.tables = s.tables
    BY <2>2, LoseStore
  <2>5. n.store = t /\ n.level = dir
    BY <2>3
  <2> QED
    BY <1>0, <2>1, <2>4, <2>5, Zenon DEF Lost
<1>1. CASE InPlace(dir) /\ s.mem[dir][x].present
  <2>1. n = [store |-> s, level |-> s.mem[dir][x].page]
    BY <1>1 DEF vmm_get_next_map_level, Linked
  <2> QED
    BY <1>1, <2>1 DEF Present, To
<1>2. CASE InPlace(dir) /\ ~ s.mem[dir][x].present /\ s.free = {}
  <2> DEFINE e == Entry(ENOMEM, TRUE)
             yes == TRUE
             t == Lose(s, dir, x, e, yes)
  <2>1. n = [store |-> t, level |-> dir]
    BY <1>2 DEF vmm_get_next_map_level, Linked, Lose
  <2>2. e \in Entries
    BY DEF Entry, Entries, ENOMEM
  <2>3. yes \in BOOLEAN
    OBVIOUS
  <2> HIDE DEF e, yes
  <2>4. t \in Stores /\ t.lost = yes /\ t.free = s.free /\ t.tables = s.tables
    BY <2>2, <2>3, LostStore
  <2> HIDE DEF t
  <2>6. t \in Stores /\ t.lost = TRUE /\ t.free = {} /\ t.tables = s.tables
    BY <1>2, <2>4, Zenon DEF yes
  <2>7. n.store = t /\ n.level = dir
    BY <2>1
  <2> QED
    BY <1>2, <2>6, <2>7, Zenon DEF Lost
<1>3. CASE InPlace(dir) /\ ~ s.mem[dir][x].present /\ s.free # {}
  <2> DEFINE p == Min(s.free)
             t == NewTable(s, dir, x, flags, p)
  <2>1. n = [store |-> t, level |-> p]
    BY <1>3 DEF vmm_get_next_map_level, Linked
  <2>2. p \in s.free
    BY <1>3, MinOfFrames DEF Stores
  <2> HIDE DEF p
  <2>3. \E e : Linking(s, t, dir, x, p, e) /\ (e.present <=> flags)
    BY <2>2, NewTableLinks
  <2> HIDE DEF t
  <2>4. n.store = t /\ n.level = p
    BY <2>1
  <2> QED
    BY <1>3, <2>2, <2>3, <2>4, Zenon DEF Present
<1> QED
  BY <1>0, <1>1, <1>2, <1>3, Zenon

(* The tree dep of store s has grown to dep2 in t, with the translations   *)
(* it had, from the pages that were free.                                  *)
Grown(s, t, r, dep, dep2) ==
    /\ Tree(t.mem, t.free, r, dep2)
    /\ DOMAIN dep \subseteq DOMAIN dep2
    /\ \A f \in DOMAIN dep : dep2[f] = dep[f]
    /\ Kept(s.mem, t.mem, dep)
    /\ \A v \in Nat : Tr(t.mem, r, v) = Tr(s.mem, r, v)
    /\ DOMAIN dep2 \cup t.free \subseteq DOMAIN dep \cup s.free
    /\ t.free \subseteq s.free
    /\ DOMAIN dep \subseteq s.tables => DOMAIN dep2 \subseteq t.tables

(* No frame became a table but those of the tree. *)
Exact(s, t, dep, dep2) == s.tables = DOMAIN dep => t.tables = DOMAIN dep2

(* An empty page that the tree does not reach. *)
Loose(s, dep, dir) ==
    /\ dir \in Frames /\ dir \notin DOMAIN dep /\ dir \notin s.free
    /\ \A y \in Indices : ~ Present(s.mem, dir, y)

(* Entry x of dir leads one level down. *)
Leads(s, dep, dir, x, level) ==
    /\ Present(s.mem, dir, x) /\ To(s.mem, dir, x) = level
    /\ level \in DOMAIN dep /\ dep[level] = dep[dir] - 1

(* Two steps of a walk that let the tree grow make one. *)
LEMMA GrownTransitive ==
    ASSUME NEW s, NEW t, NEW u, NEW r, NEW d1, NEW d2, NEW d3,
           Grown(s, t, r, d1, d2), Grown(t, u, r, d2, d3)
    PROVE  Grown(s, u, r, d1, d3)
<1>1. Kept(s.mem, u.mem, d1)
  <2> SUFFICES ASSUME NEW f \in DOMAIN d1, NEW x \in Indices, Present(s.mem, f, x)
               PROVE  Present(u.mem, f, x) /\ To(u.mem, f, x) = To(s.mem, f, x)
    BY DEF Kept
  <2>1. Present(t.mem, f, x) /\ To(t.mem, f, x) = To(s.mem, f, x)
    BY DEF Grown, Kept
  <2>2. f \in DOMAIN d2
    BY DEF Grown
  <2> QED
    BY <2>1, <2>2 DEF Grown, Kept
<1>2. \A v \in Nat : Tr(u.mem, r, v) = Tr(s.mem, r, v)
  BY DEF Grown
<1>3. Tree(u.mem, u.free, r, d3)
  BY DEF Grown
<1>4. \A f \in DOMAIN d1 : d3[f] = d1[f]
  BY DEF Grown
<1>5. /\ DOMAIN d1 \subseteq DOMAIN d3
      /\ DOMAIN d3 \cup u.free \subseteq DOMAIN d1 \cup s.free
      /\ u.free \subseteq s.free
      /\ DOMAIN d1 \subseteq s.tables => DOMAIN d3 \subseteq u.tables
  BY DEF Grown
<1> QED
  BY <1>1, <1>2, <1>3, <1>4, <1>5, Zenon DEF Grown

(* vmm_get_next_map_level in a table of the tree follows its entry, links  *)
(* a new table, or, without flags, ends outside the tree.                  *)
FromTree(s, n, r, dep, dir, x, flags) ==
    /\ n.store \in Stores
    /\ n.level \in n.store.tables
    /\ n.store.lost => NoTable(n.store)
    /\ \/ n.store.lost
       \/ n.store.dirty
       \/ \E dep2 : /\ Grown(s, n.store, r, dep, dep2)
                    /\ flags => Exact(s, n.store, dep, dep2)
                    /\ \/ Leads(n.store, dep2, dir, x, n.level)
                       \/ ~ flags /\ ~ Present(s.mem, dir, x) /\ Loose(n.store, dep2, n.level)

(* vmm_get_next_map_level does no more than that in a table of the tree. *)
LEMMA NextInTree ==
    ASSUME NEW s \in Stores, ~ s.lost, ~ s.dirty,
           NEW r, NEW dep, Tree(s.mem, s.free, r, dep), DOMAIN dep \subseteq s.tables,
           NEW dir \in Inner(dep), NEW x \in Indices,
           NEW flags \in BOOLEAN, NEW n, n = vmm_get_next_map_level(s, dir, x, flags)
    PROVE  FromTree(s, n, r, dep, dir, x, flags)
<1>1. dir \in DOMAIN dep /\ dir \in Frames
  BY DEF Inner, Tree, Levels
<1>2. s.mem \in Memory
  BY DEF Stores
<1>3. CASE Present(s.mem, dir, x) /\ n.store = s /\ n.level = To(s.mem, dir, x)
  <2>1. Leads(s, dep, dir, x, n.level)
    BY <1>3 DEF Leads, Tree, LeadsDown
  <2>2. Grown(s, s, r, dep, dep) /\ Exact(s, s, dep, dep)
    BY DEF Grown, Exact, Kept
  <2>3. n.level \in s.tables
    BY <2>1 DEF Leads
  <2> QED
    BY <1>3, <2>1, <2>2, <2>3, Zenon DEF FromTree
<1>4. CASE Lost(s, n, dir)
  <2>1. dir \in s.tables
    BY <1>1
  <2> QED
    BY <1>4, <2>1, Zenon DEF FromTree, Lost, NoTable
<1>5. CASE /\ ~ Present(s.mem, dir, x)
           /\ n.level \in s.free
           /\ \E e : Linking(s, n.store, dir, x, n.level, e) /\ (e.present <=> flags)
  <2>1. PICK p : p = n.level
    OBVIOUS
  <2>2. PICK t : t = n.store
    OBVIOUS
  <2>3. PICK e : Linking(s, t, dir, x, p, e) /\ (e.present <=> flags)
    BY <1>5, <2>1, <2>2, Zenon
  <2>4. p \in s.free /\ t \in Stores /\ ~ t.lost /\ p \in t.tables
    BY <1>5, <2>1, <2>3, Zenon DEF Linking
  <2>5. CASE t.dirty
    BY <2>1, <2>2, <2>4, <2>5, Zenon DEF FromTree
  <2>6. CASE ~ t.dirty
    <3>1. /\ e \in Entries /\ e.page = p
          /\ t.mem = Put(s.mem, dir, x, e)
          /\ t.free = s.free \ {p}
          /\ t.tables = s.tables \cup {p}
      BY <2>3, Zenon DEF Linking
    <3>2. \A y \in Indices : ~ Present(s.mem, p, y)
      BY <2>3, <2>6, Zenon DEF Linking
    <3>3. p \in Frames /\ p \notin DOMAIN dep /\ p # dir
      BY <1>1, <2>4 DEF Tree, Levels
    <3>4. CASE flags
      <4>1. PICK dep2 : dep2 = Deeper(dep, p, dir)
        OBVIOUS
      <4>2. e.present
        BY <2>3, <3>4
      <4>3. /\ Tree(t.mem, t.free, r, dep2)
            /\ Present(t.mem, dir, x) /\ To(t.mem, dir, x) = p
            /\ Kept(s.mem, t.mem, dep)
            /\ \A v \in Nat : Tr(t.mem, r, v) = Tr(s.mem, r, v)
        <5>1. PICK m, m2, F : m = s.mem /\ m2 = t.mem /\ F = s.free
          OBVIOUS
        <5>2. m \in Memory /\ Tree(m, F, r, dep) /\ ~ Present(m, dir, x) /\ p \in F
              /\ (\A y \in Indices : ~ Present(m, p, y)) /\ m2 = Put(m, dir, x, e)
          BY <1>2, <1>5, <2>4, <3>1, <3>2, <5>1, Zenon
        <5>3. /\ Tree(m2, F \ {p}, r, dep2)
              /\ Present(m2, dir, x) /\ To(m2, dir, x) = p
              /\ Kept(m, m2, dep)
              /\ \A v \in Nat : Tr(m2, r, v) = Tr(m, r, v)
          BY <3>1, <4>1, <4>2, <5>2, LinkNew
        <5> QED
          BY <3>1, <5>1, <5>3, Zenon
      <4>4. /\ DOMAIN dep2 = DOMAIN dep \cup {p}
            /\ \A f \in DOMAIN dep : dep2[f] = dep[f]
            /\ dep2[p] = dep[dir] - 1
        BY <3>3, <4>1 DEF Deeper
      <4>5. Grown(s, t, r, dep, dep2)
        <5>1. /\ DOMAIN dep \subseteq DOMAIN dep2
              /\ DOMAIN dep2 \cup t.free \subseteq DOMAIN dep \cup s.free
              /\ t.free \subseteq s.free
              /\ DOMAIN dep \subseteq s.tables => DOMAIN dep2 \subseteq t.tables
          BY <2>4, <3>1, <4>4
        <5> QED
          BY <4>3, <4>4, <5>1, Zenon DEF Grown
      <4>6. Exact(s, t, dep, dep2)
        BY <3>1, <4>4 DEF Exact
      <4>7. Leads(t, dep2, dir, x, p)
        BY <1>1, <4>3, <4>4 DEF Leads
      <4> QED
        BY <2>1, <2>2, <2>4, <4>5, <4>6, <4>7, Zenon DEF FromTree
    <3>5. CASE ~ flags
      <4>1. ~ e.present
        BY <2>3, <3>5
      <4>2. /\ ~ Present(t.mem, dir, x)
            /\ \A g \in Frames, y \in Indices : ~ (g = dir /\ y = x) =>
                  /\ To(t.mem, g, y) = To(s.mem, g, y)
                  /\ Present(t.mem, g, y) <=> Present(s.mem, g, y)
        BY <1>1, <1>2, <3>1, <4>1, PutReads
      <4>3. \A f \in DOMAIN dep : f \in Frames
        BY DEF Tree, Levels
      <4>4. Kept(s.mem, t.mem, dep) /\ Kept(t.mem, s.mem, dep)
        BY <1>5, <4>2, <4>3 DEF Kept
      <4>5. Tree(t.mem, t.free, r, dep) /\ \A v \in Nat : Tr(t.mem, r, v) = Tr(s.mem, r, v)
        BY <3>1, <4>4, SameTree
      <4>6. Grown(s, t, r, dep, dep)
        <5>1. /\ DOMAIN dep \cup t.free \subseteq DOMAIN dep \cup s.free
              /\ t.free \subseteq s.free
              /\ DOMAIN dep \subseteq s.tables => DOMAIN dep \subseteq t.tables
          BY <3>1
        <5> QED
          BY <4>4, <4>5, <5>1 DEF Grown
      <4>7. Loose(t, dep, p)
        BY <3>1, <3>2, <3>3, <4>2 DEF Loose
      <4> QED
        BY <1>5, <2>1, <2>2, <2>4, <3>5, <4>6, <4>7, Zenon DEF FromTree
    <3> QED
      BY <3>4, <3>5
  <2> QED
    BY <2>5, <2>6
<1> QED
  BY <1>1, <1>3, <1>4, <1>5, NextLevel, Zenon

(* ... and, without flags, in a page outside it. *)
LEMMA NextLoose ==
    ASSUME NEW s \in Stores, ~ s.lost, ~ s.dirty,
           NEW r, NEW dep, Tree(s.mem, s.free, r, dep),
           NEW dir \in s.tables, Loose(s, dep, dir), NEW x \in Indices,
           NEW flags \in BOOLEAN, ~ flags, NEW n, n = vmm_get_next_map_level(s, dir, x, flags)
    PROVE  /\ n.store \in Stores
           /\ n.level \in n.store.tables
           /\ n.store.lost => NoTable(n.store)
           /\ \/ n.store.lost
              \/ n.store.dirty
              \/ Grown(s, n.store, r, dep, dep) /\ Loose(n.store, dep, n.level)
<1>1. dir \in Frames /\ dir \notin DOMAIN dep /\ dir \notin s.free
      /\ \A y \in Indices : ~ Present(s.mem, dir, y)
  BY DEF Loose
<1>2. s.mem \in Memory
  BY DEF Stores
<1>3. \/ Lost(s, n, dir)
      \/ /\ ~ Present(s.mem, dir, x)
         /\ n.level \in s.free
         /\ \E e : Linking(s, n.store, dir, x, n.level, e) /\ (e.present <=> flags)
  BY <1>1, NextLevel
<1>4. CASE Lost(s, n, dir)
  BY <1>4, Zenon DEF Lost, NoTable
<1>5. CASE /\ n.level \in s.free
           /\ \E e : Linking(s, n.store, dir, x, n.level, e) /\ (e.present <=> flags)
  <2>1. PICK p : p = n.level
    OBVIOUS
  <2>2. PICK t : t = n.store
    OBVIOUS
  <2>3. PICK e : Linking(s, t, dir, x, p, e) /\ (e.present <=> flags)
    BY <1>5, <2>1, <2>2, Zenon
  <2>4. p \in s.free /\ t \in Stores /\ ~ t.lost /\ p \in t.tables
    BY <1>5, <2>1, <2>3, Zenon DEF Linking
  <2>5. CASE t.dirty
    BY <2>1, <2>2, <2>4, <2>5, Zenon
  <2>6. CASE ~ t.dirty
    <3>1. /\ e \in Entries /\ e.page = p
          /\ t.mem = Put(s.mem, dir, x, e)
          /\ t.free = s.free \ {p}
          /\ t.tables = s.tables \cup {p}
      BY <2>3, Zenon DEF Linking
    <3>2. \A y \in Indices : ~ Present(s.mem, p, y)
      BY <2>3, <2>6, Zenon DEF Linking
    <3>3. p \in Frames /\ p \notin DOMAIN dep /\ p # dir
      BY <1>1, <2>4 DEF Tree, Levels
    <3>4. \A g \in Frames, y \in Indices : ~ (g = dir /\ y = x) =>
                /\ To(t.mem, g, y) = To(s.mem, g, y)
                /\ Present(t.mem, g, y) <=> Present(s.mem, g, y)
      BY <1>1, <1>2, <3>1, PutReads
    <3>5. \A f \in DOMAIN dep : f \in Frames /\ f # dir
      BY <1>1 DEF Tree, Levels
    <3>6. Kept(s.mem, t.mem, dep) /\ Kept(t.mem, s.mem, dep)
      BY <3>4, <3>5 DEF Kept
    <3>7. Tree(t.mem, t.free, r, dep) /\ \A v \in Nat : Tr(t.mem, r, v) = Tr(s.mem, r, v)
      BY <3>1, <3>6, SameTree
    <3>8. Grown(s, t, r, dep, dep)
      <4>1. /\ DOMAIN dep \cup t.free \subseteq DOMAIN dep \cup s.free
            /\ t.free \subseteq s.free
            /\ DOMAIN dep \subseteq s.tables => DOMAIN dep \subseteq t.tables
        BY <3>1
      <4> QED
        BY <3>6, <3>7, <4>1 DEF Grown
    <3>9. Loose(t, dep, p)
      BY <3>1, <3>2, <3>3, <3>4 DEF Loose
    <3> QED
      BY <2>1, <2>2, <2>4, <3>8, <3>9, Zenon
  <2> QED
    BY <2>5, <2>6
<1> QED
  BY <1>3, <1>4, <1>5, Zenon

(* A walk that went wrong goes no further. *)
LEMMA NextStops ==
    ASSUME NEW s, s.lost \/ s.dirty, NEW dir, NEW x, NEW flags,
           NEW n, n = vmm_get_next_map_level(s, dir, x, flags)
    PROVE  n.store = s /\ n.level = dir
<1>1. n = [store |-> s, level |-> dir]
  BY Zenon DEF vmm_get_next_map_level
<1> QED
  BY <1>1

-----------------------------------------------------------------------------
(* dir is the table of level k on the way to v. *)
OnPath(m, r, v, k, dir) ==
    /\ k = 4 => dir = r
    /\ k < 4 => Present(m, r, Digit(v, 4))
    /\ k = 3 => dir = Table3(m, r, v)
    /\ k < 3 => Present(m, Table3(m, r, v), Digit(v, 3))
    /\ k = 2 => dir = Table2(m, r, v)
    /\ k < 2 => Present(m, Table2(m, r, v), Digit(v, 2))
    /\ k = 1 => dir = Table1(m, r, v)

(* A walk stays on its path while present entries are kept, ... *)
LEMMA PathKept ==
    ASSUME NEW m, NEW F, NEW r, NEW dep, Tree(m, F, r, dep), NEW m2, Kept(m, m2, dep),
           NEW v \in Nat, NEW k \in 1 .. 4, NEW dir, OnPath(m, r, v, k, dir)
    PROVE  OnPath(m2, r, v, k, dir)
<1>1. r \in DOMAIN dep
  BY DEF Tree, Levels
<1>2. Digit(v, 4) \in Indices /\ Digit(v, 3) \in Indices /\ Digit(v, 2) \in Indices
  BY DigitType
<1>3. \A f \in Inner(dep) : f \in DOMAIN dep
  BY DEF Inner
<1>4. ASSUME k < 4 PROVE Present(m2, r, Digit(v, 4)) /\ Table3(m2, r, v) = Table3(m, r, v)
  <2>1. Present(m, r, Digit(v, 4))
    BY <1>4 DEF OnPath
  <2> QED
    BY <1>1, <1>2, <2>1 DEF Kept, Table3
<1>5. ASSUME k < 3
      PROVE  Present(m2, Table3(m2, r, v), Digit(v, 3)) /\ Table2(m2, r, v) = Table2(m, r, v)
  <2>1. Present(m, r, Digit(v, 4)) /\ Present(m, Table3(m, r, v), Digit(v, 3))
    BY <1>5 DEF OnPath
  <2>2. Table3(m, r, v) \in DOMAIN dep /\ Table3(m2, r, v) = Table3(m, r, v)
    BY <1>3, <1>4, <1>5, <2>1, PathLevels
  <2> QED
    BY <1>2, <2>1, <2>2 DEF Kept, Table2
<1>6. ASSUME k < 2
      PROVE  Present(m2, Table2(m2, r, v), Digit(v, 2)) /\ Table1(m2, r, v) = Table1(m, r, v)
  <2>1. Present(m, r, Digit(v, 4)) /\ Present(m, Table3(m, r, v), Digit(v, 3))
        /\ Present(m, Table2(m, r, v), Digit(v, 2))
    BY <1>6 DEF OnPath
  <2>2. Table2(m, r, v) \in DOMAIN dep /\ Table2(m2, r, v) = Table2(m, r, v)
    BY <1>3, <1>5, <1>6, <2>1, PathLevels
  <2> QED
    BY <1>2, <2>1, <2>2 DEF Kept, Table1
<1> QED
  BY <1>4, <1>5, <1>6 DEF OnPath

(* ... a present entry leads it one level down, ... *)
LEMMA PathDown ==
    ASSUME NEW m, NEW r, NEW v, NEW k \in 2 .. 4, NEW dir, OnPath(m, r, v, k, dir),
           Present(m, dir, Digit(v, k))
    PROVE  OnPath(m, r, v, k - 1, To(m, dir, Digit(v, k)))
<1>1. CASE k = 4
  BY <1>1 DEF OnPath, Table3
<1>2. CASE k = 3
  BY <1>2 DEF OnPath, Table2
<1>3. CASE k = 2
  BY <1>3 DEF OnPath, Table1
<1> QED
  BY <1>1, <1>2, <1>3

(* ... and where an entry is missing there is no translation. *)
LEMMA PathEnds ==
    ASSUME NEW m, NEW r, NEW v, NEW k \in 1 .. 4, NEW dir, OnPath(m, r, v, k, dir),
           ~ Present(m, dir, Digit(v, k))
    PROVE  Tr(m, r, v) = None
<1>1. CASE k = 4
  BY <1>1 DEF OnPath, Tr
<1>2. CASE k = 3
  BY <1>2 DEF OnPath, Tr
<1>3. CASE k = 2
  BY <1>3 DEF OnPath, Tr
<1>4. CASE k = 1
  BY <1>4 DEF OnPath, Tr
<1> QED
  BY <1>1, <1>2, <1>3, <1>4

(* The walk to v that began in the store s with the tree dep stands at     *)
(* dir, level k, in the store t: it went wrong, or dir is on the way to v, *)
(* or, for vmm_unmap_page, v had no translation and dir is an empty page.  *)
GoesOn(s, dep, t, k, dir, v, r, flags) ==
    \E dep2 : /\ Grown(s, t, r, dep, dep2)
              /\ flags => Exact(s, t, dep, dep2)
              /\ \/ OnPath(t.mem, r, v, k, dir) /\ dir \in DOMAIN dep2 /\ dep2[dir] = k
                 \/ ~ flags /\ Loose(t, dep2, dir) /\ Tr(s.mem, r, v) = None

Walk(s, dep, t, k, dir, v, r, flags) ==
    /\ t \in Stores
    /\ dir \in t.tables
    /\ t.lost => NoTable(t)
    /\ \/ t.lost
       \/ t.dirty
       \/ GoesOn(s, dep, t, k, dir, v, r, flags)

(* A walk of vmm_map_page or vmm_unmap_page begins at the root, ... *)
LEMMA WalkBegins ==
    ASSUME NEW s \in Stores, ~ s.lost, NEW r, NEW dep, Tree(s.mem, s.free, r, dep),
           DOMAIN dep \subseteq s.tables,
           NEW v \in Nat, NEW flags \in BOOLEAN
    PROVE  Walk(s, dep, s, 4, r, v, r, flags)
<1>1. Grown(s, s, r, dep, dep) /\ Exact(s, s, dep, dep)
  BY DEF Grown, Exact, Kept
<1>2. OnPath(s.mem, r, v, 4, r) /\ r \in DOMAIN dep /\ dep[r] = 4 /\ r \in s.tables
  BY DEF OnPath, Tree, Levels
<1>3. GoesOn(s, dep, s, 4, r, v, r, flags)
  BY <1>1, <1>2, Zenon DEF GoesOn
<1> QED
  BY <1>2, <1>3, Zenon DEF Walk

(* ... and each vmm_get_next_map_level takes it one level down. *)
LEMMA WalkStep ==
    ASSUME NEW s, NEW r, NEW dep, DOMAIN dep \subseteq s.tables,
           NEW v \in Nat, NEW flags \in BOOLEAN,
           NEW t, NEW k \in 2 .. 4, NEW dir, Walk(s, dep, t, k, dir, v, r, flags),
           NEW n, n = vmm_get_next_map_level(t, dir, Digit(v, k), flags)
    PROVE  Walk(s, dep, n.store, k - 1, n.level, v, r, flags)
<1>0. Digit(v, k) \in Indices
  <2>1. k = 4 \/ k = 3 \/ k = 2
    OBVIOUS
  <2> QED
    BY <2>1, DigitType
<1>1. CASE t.lost \/ t.dirty
  <2>1. n.store = t /\ n.level = dir
    BY <1>1, NextStops
  <2> QED
    BY <1>1, <2>1, Zenon DEF Walk
<1>2. CASE ~ t.lost /\ ~ t.dirty
  <2>1. t \in Stores /\ dir \in t.tables
    BY Zenon DEF Walk
  <2>2. PICK d : /\ Grown(s, t, r, dep, d)
                 /\ flags => Exact(s, t, dep, d)
                 /\ \/ OnPath(t.mem, r, v, k, dir) /\ dir \in DOMAIN d /\ d[dir] = k
                    \/ ~ flags /\ Loose(t, d, dir) /\ Tr(s.mem, r, v) = None
    BY <1>2, Zenon DEF Walk, GoesOn
  <2>3. /\ Tree(t.mem, t.free, r, d)
        /\ DOMAIN d \subseteq t.tables
        /\ Tr(t.mem, r, v) = Tr(s.mem, r, v)
    BY <2>2 DEF Grown
  <2>4. CASE OnPath(t.mem, r, v, k, dir) /\ dir \in DOMAIN d /\ d[dir] = k
    <3>1. dir \in Inner(d)
      BY <2>4 DEF Inner
    <3>2. /\ n.store \in Stores
          /\ n.level \in n.store.tables
          /\ n.store.lost => NoTable(n.store)
          /\ \/ n.store.lost
             \/ n.store.dirty
             \/ \E dep2 : /\ Grown(t, n.store, r, d, dep2)
                          /\ flags => Exact(t, n.store, d, dep2)
                          /\ \/ Leads(n.store, dep2, dir, Digit(v, k), n.level)
                             \/ /\ ~ flags /\ ~ Present(t.mem, dir, Digit(v, k))
                                /\ Loose(n.store, dep2, n.level)
      <4>1. PICK x \in Indices : x = Digit(v, k)
        BY <1>0
      <4>2. n = vmm_get_next_map_level(t, dir, x, flags)
        BY <4>1, Zenon
      <4>3. FromTree(t, n, r, d, dir, x, flags)
        BY <1>2, <2>1, <2>3, <3>1, <4>2, NextInTree
      <4> QED
        BY <4>1, <4>3, Zenon DEF FromTree
    <3>4. ASSUME ~ n.store.lost, ~ n.store.dirty
          PROVE  GoesOn(s, dep, n.store, k - 1, n.level, v, r, flags)
      <4>1. PICK dep2 : /\ Grown(t, n.store, r, d, dep2)
                        /\ flags => Exact(t, n.store, d, dep2)
                        /\ \/ Leads(n.store, dep2, dir, Digit(v, k), n.level)
                           \/ /\ ~ flags /\ ~ Present(t.mem, dir, Digit(v, k))
                              /\ Loose(n.store, dep2, n.level)
        BY <3>2, <3>4, Zenon
      <4>2. Grown(s, n.store, r, dep, dep2)
        BY <2>2, <4>1, GrownTransitive
      <4>3. flags => Exact(s, n.store, dep, dep2)
        BY <2>2, <4>1, Zenon DEF Exact
      <4>4. CASE Leads(n.store, dep2, dir, Digit(v, k), n.level)
        <5>1. Kept(t.mem, n.store.mem, d) /\ dep2[dir] = d[dir]
          BY <2>4, <4>1 DEF Grown
        <5>2. OnPath(n.store.mem, r, v, k, dir)
          BY <2>3, <2>4, <5>1, PathKept
        <5>3. /\ Present(n.store.mem, dir, Digit(v, k)) /\ To(n.store.mem, dir, Digit(v, k)) = n.level
              /\ n.level \in DOMAIN dep2 /\ dep2[n.level] = dep2[dir] - 1
          BY <4>4, Zenon DEF Leads
        <5>4. OnPath(n.store.mem, r, v, k - 1, n.level)
          BY <5>2, <5>3, PathDown
        <5>5. dep2[n.level] = k - 1
          BY <2>4, <5>1, <5>3
        <5> QED
          BY <4>2, <4>3, <5>3, <5>4, <5>5, Zenon DEF GoesOn
      <4>5. CASE ~ flags /\ ~ Present(t.mem, dir, Digit(v, k)) /\ Loose(n.store, dep2, n.level)
        <5>1. Tr(s.mem, r, v) = None
          BY <2>3, <2>4, <4>5, PathEnds
        <5> QED
          BY <4>2, <4>3, <4>5, <5>1, Zenon DEF GoesOn
      <4> QED
        BY <4>1, <4>4, <4>5, Zenon
    <3> QED
      BY <3>2, <3>4, Zenon DEF Walk
  <2>5. CASE ~ flags /\ Loose(t, d, dir) /\ Tr(s.mem, r, v) = None
    <3>1. /\ n.store \in Stores
          /\ n.level \in n.store.tables
          /\ n.store.lost => NoTable(n.store)
          /\ \/ n.store.lost
             \/ n.store.dirty
             \/ Grown(t, n.store, r, d, d) /\ Loose(n.store, d, n.level)
      BY <1>0, <1>2, <2>1, <2>3, <2>5, NextLoose
    <3>3. ASSUME ~ n.store.lost, ~ n.store.dirty
          PROVE  GoesOn(s, dep, n.store, k - 1, n.level, v, r, flags)
      <4>1. Grown(s, n.store, r, dep, d)
        BY <2>2, <3>1, <3>3, GrownTransitive, Zenon
      <4> QED
        BY <2>5, <3>1, <3>3, <4>1, Zenon DEF GoesOn
    <3> QED
      BY <3>1, <3>3, Zenon DEF Walk
  <2> QED
    BY <2>2, <2>4, <2>5, Zenon
<1> QED
  BY <1>1, <1>2, Zenon

PutIn(s, dir, x, e) == [s EXCEPT !.mem[dir][x] = e]

(* Writing an entry changes nothing else in a store. *)
LEMMA PutStore ==
    ASSUME NEW s \in Stores, NEW dir \in Frames, NEW x \in Indices, NEW e \in Entries
    PROVE  /\ PutIn(s, dir, x, e) \in Stores
           /\ PutIn(s, dir, x, e).mem = Put(s.mem, dir, x, e)
           /\ PutIn(s, dir, x, e).free = s.free
           /\ PutIn(s, dir, x, e).tables = s.tables
           /\ PutIn(s, dir, x, e).lost = s.lost
           /\ PutIn(s, dir, x, e).dirty = s.dirty
<1>0. PICK t : t = PutIn(s, dir, x, e)
  OBVIOUS
<1>1. s.mem \in Memory /\ s.free \in SUBSET Frames /\ s.tables \in SUBSET Frames
      /\ s.lost \in BOOLEAN /\ s.dirty \in BOOLEAN
      /\ s = [mem |-> s.mem, free |-> s.free, tables |-> s.tables, lost |-> s.lost, dirty |-> s.dirty]
  BY DEF Stores
<1>2. t = [mem |-> Put(s.mem, dir, x, e), free |-> s.free, tables |-> s.tables,
           lost |-> s.lost, dirty |-> s.dirty]
  BY <1>0, <1>1 DEF Put, PutIn
<1>3. Put(s.mem, dir, x, e) \in Memory
  BY <1>1, PutReads
<1>4. t \in Stores /\ t.mem = Put(s.mem, dir, x, e) /\ t.free = s.free
      /\ t.tables = s.tables /\ t.lost = s.lost /\ t.dirty = s.dirty
  BY <1>1, <1>2, <1>3 DEF Stores
<1> QED
  BY <1>0, <1>4, Zenon

(* What StoreEntry makes of the store s: the tree dep2, in which only the  *)
(* translation of v has changed, unless a table was not in place, or there *)
(* was no page for one, or a page for one was not empty.                   *)
Rewritten(s, t, dep, v, e, flags, r) ==
    \E dep2 : /\ Tree(t.mem, t.free, r, dep2)
              /\ t.free \subseteq s.free
              /\ DOMAIN dep \subseteq s.tables => DOMAIN dep2 \subseteq t.tables
              /\ flags => Exact(s, t, dep, dep2)
              /\ \A u \in Virtuals \ {v} : Tr(t.mem, r, u) = Tr(s.mem, r, u)
              /\ Tr(t.mem, r, v) = IF e.present THEN e.page ELSE None

Stored(s, t, dep, v, e, flags, r) ==
    /\ t \in Stores
    /\ t.lost => NoTable(t)
    /\ \/ t.lost
       \/ t.dirty
       \/ Rewritten(s, t, dep, v, e, flags, r)

(* The common part of vmm_map_page and vmm_unmap_page does this. *)
LEMMA StoreEntryStores ==
    ASSUME NEW s \in Stores, ~ s.lost, ~ s.dirty,
           NEW dep, Tree(s.mem, s.free, root, dep), DOMAIN dep \subseteq s.tables,
           NEW v \in Virtuals, NEW e \in Entries, e.present => e.page \in Physical,
           NEW flags \in BOOLEAN, ~ flags => ~ e.present,
           NEW t, t = StoreEntry(s, v, e, flags)
    PROVE  Stored(s, t, dep, v, e, flags, root)
<1>1. v \in Nat
  BY DEF Virtuals
<1>2. PICK n3 : n3 = vmm_get_next_map_level(s, root, Digit(v, 4), flags)
  OBVIOUS
<1>3. PICK n2 : n2 = vmm_get_next_map_level(n3.store, n3.level, Digit(v, 3), flags)
  OBVIOUS
<1>4. PICK n1 : n1 = vmm_get_next_map_level(n2.store, n2.level, Digit(v, 2), flags)
  OBVIOUS
<1>5. t = IF n1.store.lost \/ n1.store.dirty THEN n1.store
          ELSE IF ~ InPlace(n1.level) THEN LoseAt(n1.store, TRUE)
          ELSE PutIn(n1.store, n1.level, Digit(v, 1), e)
  BY <1>2, <1>3, <1>4, Zenon DEF StoreEntry, idx, LoseAt, PutIn
<1>6. Walk(s, dep, s, 4, root, v, root, flags)
  BY <1>1, WalkBegins
<1>7. Walk(s, dep, n3.store, 3, n3.level, v, root, flags)
  <2>1. 4 \in 2 .. 4 /\ 4 - 1 = 3
    OBVIOUS
  <2> QED
    BY <1>1, <1>2, <1>6, <2>1, WalkStep
<1>8. Walk(s, dep, n2.store, 2, n2.level, v, root, flags)
  <2>1. 3 \in 2 .. 4 /\ 3 - 1 = 2
    OBVIOUS
  <2> QED
    BY <1>1, <1>3, <1>7, <2>1, WalkStep
<1>9. Walk(s, dep, n1.store, 1, n1.level, v, root, flags)
  <2>1. 2 \in 2 .. 4 /\ 2 - 1 = 1
    OBVIOUS
  <2> QED
    BY <1>1, <1>4, <1>8, <2>1, WalkStep
<1>10. CASE ~ (n1.store.lost \/ n1.store.dirty) /\ ~ InPlace(n1.level)
  <2>1. PICK w : w = n1.store
    OBVIOUS
  <2>2. w \in Stores /\ n1.level \in w.tables
    BY <1>9, <2>1, Zenon DEF Walk
  <2>3. t = LoseAt(w, TRUE)
    BY <1>5, <1>10, <2>1, Zenon
  <2>4. PICK yes \in BOOLEAN : yes
    OBVIOUS
  <2>5. t = LoseAt(w, yes)
    BY <2>3, <2>4, Zenon
  <2>6. t \in Stores /\ t.lost = yes /\ t.tables = w.tables
    <3>1. /\ LoseAt(w, yes) \in Stores
          /\ LoseAt(w, yes).lost = yes
          /\ LoseAt(w, yes).tables = w.tables
      BY <2>2, LoseStore
    <3> QED
      BY <2>5, <3>1, Zenon
  <2> QED
    BY <1>10, <2>2, <2>4, <2>6, Zenon DEF Stored, NoTable
<1>11. CASE n1.store.lost \/ n1.store.dirty
  <2>1. t = n1.store
    BY <1>5, <1>11, Zenon
  <2> QED
    BY <1>9, <1>11, <2>1, Zenon DEF Stored, Walk
<1>12. CASE ~ (n1.store.lost \/ n1.store.dirty) /\ InPlace(n1.level)
  <2>1. t = PutIn(n1.store, n1.level, Digit(v, 1), e)
    BY <1>5, <1>12, Zenon
  <2>2. PICK w : w = n1.store
    OBVIOUS
  <2>3. PICK l : l = n1.level
    OBVIOUS
  <2>4. w \in Stores /\ ~ w.lost /\ ~ w.dirty /\ GoesOn(s, dep, w, 1, l, v, root, flags)
    BY <1>9, <1>12, <2>2, <2>3, Zenon DEF Walk
  <2>5. PICK d : /\ Grown(s, w, root, dep, d)
                 /\ flags => Exact(s, w, dep, d)
                 /\ \/ OnPath(w.mem, root, v, 1, l) /\ l \in DOMAIN d /\ d[l] = 1
                    \/ ~ flags /\ Loose(w, d, l) /\ Tr(s.mem, root, v) = None
    BY <2>4, Zenon DEF GoesOn
  <2>6. /\ Tree(w.mem, w.free, root, d) /\ w.free \subseteq s.free
        /\ DOMAIN dep \subseteq s.tables => DOMAIN d \subseteq w.tables
        /\ \A u \in Virtuals : Tr(w.mem, root, u) = Tr(s.mem, root, u)
    <3>1. Virtuals \subseteq Nat
      BY DEF Virtuals
    <3> QED
      BY <2>5, <3>1 DEF Grown
  <2>7. l \in Frames /\ Digit(v, 1) \in Indices
    BY <1>1, <2>5, <2>6, DigitType DEF Loose, Tree, Levels
  <2>8. /\ t \in Stores /\ t.mem = Put(w.mem, l, Digit(v, 1), e)
        /\ t.free = w.free /\ t.tables = w.tables /\ t.lost = w.lost /\ t.dirty = w.dirty
    <3>1. PICK x \in Indices : x = Digit(v, 1)
      BY <2>7
    <3>2. /\ PutIn(w, l, x, e) \in Stores
          /\ PutIn(w, l, x, e).mem = Put(w.mem, l, x, e)
          /\ PutIn(w, l, x, e).free = w.free
          /\ PutIn(w, l, x, e).tables = w.tables
          /\ PutIn(w, l, x, e).lost = w.lost
          /\ PutIn(w, l, x, e).dirty = w.dirty
      BY <2>4, <2>7, PutStore
    <3> QED
      BY <2>1, <2>2, <2>3, <3>1, <3>2, Zenon
  <2>9. /\ Tree(t.mem, t.free, root, d)
        /\ \A u \in Virtuals \ {v} : Tr(t.mem, root, u) = Tr(w.mem, root, u)
        /\ Tr(t.mem, root, v) = IF e.present THEN e.page ELSE None
    <3>0. PICK m, m2, F : m = w.mem /\ m2 = t.mem /\ F = w.free
      OBVIOUS
    <3>1. m \in Memory /\ m2 = Put(m, l, Digit(v, 1), e) /\ Tree(m, F, root, d)
      <4>1. w.mem \in Memory
        BY <2>4 DEF Stores
      <4> QED
        BY <2>6, <2>8, <3>0, <4>1, Zenon
    <3>2. CASE OnPath(m, root, v, 1, l)
      <4>1. /\ Present(m, root, Digit(v, 4))
            /\ Present(m, Table3(m, root, v), Digit(v, 3))
            /\ Present(m, Table2(m, root, v), Digit(v, 2))
            /\ l = Table1(m, root, v)
        BY <3>2 DEF OnPath
      <4>2. /\ Tree(m2, F, root, d)
            /\ Tr(m2, root, v) = IF e.present THEN e.page ELSE None
            /\ \A u \in Virtuals \ {v} : Tr(m2, root, u) = Tr(m, root, u)
        BY <3>1, <4>1, StoreLeaf
      <4> QED
        BY <2>8, <3>0, <4>2, Zenon
    <3>3. CASE ~ flags /\ Loose(w, d, l) /\ Tr(s.mem, root, v) = None
      <4>1. l \notin DOMAIN d
        BY <3>3 DEF Loose
      <4>2. \A g \in Frames, y \in Indices : ~ (g = l /\ y = Digit(v, 1)) =>
                  /\ To(m2, g, y) = To(m, g, y)
                  /\ Present(m2, g, y) <=> Present(m, g, y)
        BY <2>7, <3>1, PutReads
      <4>3. \A f \in DOMAIN d : f \in Frames /\ f # l
        BY <3>1, <4>1 DEF Tree, Levels
      <4>4. Kept(m, m2, d) /\ Kept(m2, m, d)
        BY <4>2, <4>3 DEF Kept
      <4>5. Tree(m2, F, root, d) /\ \A u \in Nat : Tr(m2, root, u) = Tr(m, root, u)
        BY <3>1, <4>4, SameTree
      <4>6. \A u \in Virtuals : u \in Nat
        BY DEF Virtuals
      <4>7. Tr(m2, root, v) = None
        BY <1>1, <2>6, <3>0, <3>3, <4>5, Zenon
      <4>8. ~ e.present
        BY <3>3
      <4> QED
        BY <2>8, <3>0, <4>5, <4>6, <4>7, <4>8, Zenon
    <3> QED
      BY <2>5, <3>0, <3>2, <3>3, Zenon
  <2>10. flags => Exact(s, t, dep, d)
    BY <2>5, <2>8, Zenon DEF Exact
  <2>11. t.free \subseteq s.free /\ (DOMAIN dep \subseteq s.tables => DOMAIN d \subseteq t.tables)
    BY <2>6, <2>8, Zenon
  <2>12. \A u \in Virtuals \ {v} : Tr(t.mem, root, u) = Tr(s.mem, root, u)
    BY <2>6, <2>9
  <2>13. Rewritten(s, t, dep, v, e, flags, root)
    BY <2>9, <2>10, <2>11, <2>12, Zenon DEF Rewritten
  <2> QED
    BY <2>4, <2>8, <2>13, Zenon DEF Stored
<1> QED
  BY <1>10, <1>11, <1>12, Zenon

-----------------------------------------------------------------------------
(* The inductive invariant: the types, what pc says of root and active, and *)
(* that the tables are a tree while they can be trusted, of all the frames  *)
(* taken for tables until vmm_init is done.                                 *)
Types ==
    /\ mem \in Memory
    /\ free \in SUBSET Frames /\ tables \in SUBSET Frames
    /\ root \in Frames \cup {None}
    /\ pc \in {"boot", "identity", "direct", "kernel", "activate", "up"}
    /\ i \in 0 .. GIGABYTES_4
    /\ active \in BOOLEAN /\ lost \in BOOLEAN /\ dirty \in BOOLEAN
    /\ DOMAIN tlb \subseteq Virtuals

Phases ==
    /\ pc = "boot" <=> root = None
    /\ active <=> pc = "up"
    /\ pc \in {"boot", "activate"} => i = 0

Grove(m, F, T, r, at) ==
    \E dep : Tree(m, F, r, dep) /\ DOMAIN dep \subseteq T /\ (at # "up" => T = DOMAIN dep)

Grows == Trusted /\ pc # "boot" => Grove(mem, free, tables, root, pc)

IInv == Types /\ Phases /\ Grows

(* A call that changes the translation of v to new. *)
Changes(v, new) ==
    /\ mem' \in Memory /\ free' \in SUBSET Frames /\ tables' \in SUBSET Frames
    /\ lost' \in BOOLEAN /\ dirty' \in BOOLEAN
    /\ lost' => free' = {} \/ \E p \in tables' : ~ InPlace(p)
    /\ Trusted' => /\ free' \subseteq free
                   /\ Grove(mem', free', tables', root, pc)
                   /\ \A u \in Virtuals \ {v} : Tr(mem', root, u) = Tr(mem, root, u)
                   /\ Tr(mem', root, v) = new
    /\ tlb' = [u \in DOMAIN tlb \ {v} |-> tlb[u]]

(* In a state of the invariant, StoreEntry and the invlpg after it are     *)
(* such a call, ...                                                        *)
LEMMA StoreChanges ==
    ASSUME IInv, Trusted, pc # "boot", NEW v \in Virtuals,
           NEW e \in Entries, e.present => e.page \in Physical,
           NEW flags \in BOOLEAN, ~ flags => ~ e.present /\ pc = "up",
           NEW new, new = IF e.present THEN e.page ELSE None,
           NEW F \in SUBSET free,
           NEW s, s = [mem |-> mem, free |-> F, tables |-> tables, lost |-> lost, dirty |-> dirty],
           Becomes(StoreEntry(s, v, e, flags)), vmm_flush_tlb(v)
    PROVE  Changes(v, new)
<1>1. PICK dep : /\ Tree(mem, free, root, dep) /\ DOMAIN dep \subseteq tables
                 /\ pc # "up" => tables = DOMAIN dep
  BY DEF IInv, Grows, Grove
<1>2. s \in Stores
  BY DEF IInv, Types, Stores
<1>3. s.mem = mem /\ s.free = F /\ s.tables = tables /\ s.lost = lost /\ s.dirty = dirty
  OBVIOUS
<1>4. ~ s.lost /\ ~ s.dirty
  BY <1>3, Zenon DEF Trusted
<1>5. Tree(mem, F, root, dep)
  <2>1. Levels(F, root, dep)
    BY <1>1 DEF Tree, Levels
  <2> QED
    BY <1>1, <2>1 DEF Tree
<1>6. PICK t : t = StoreEntry(s, v, e, flags)
  OBVIOUS
<1>7. mem' = t.mem /\ free' = t.free /\ tables' = t.tables /\ lost' = t.lost /\ dirty' = t.dirty
  BY <1>6, Zenon DEF Becomes
<1>8. Stored(s, t, dep, v, e, flags, root)
  <2>1. Tree(s.mem, s.free, root, dep)
    BY <1>3, <1>5, Zenon
  <2>2. ~ flags => ~ e.present
    OBVIOUS
  <2>3. DOMAIN dep \subseteq s.tables
    BY <1>1, <1>3, Zenon
  <2> QED
    BY <1>2, <1>4, <1>6, <2>1, <2>2, <2>3, StoreEntryStores
<1>9. mem' \in Memory /\ tables' \in SUBSET Frames /\ lost' \in BOOLEAN /\ dirty' \in BOOLEAN
      /\ t.free \in SUBSET Frames
  <2>1. t \in Stores
    BY <1>8, Zenon DEF Stored
  <2>2. t.mem \in Memory /\ t.tables \in SUBSET Frames /\ t.lost \in BOOLEAN /\ t.dirty \in BOOLEAN
        /\ t.free \in SUBSET Frames
    BY <2>1 DEF Stores
  <2> QED
    BY <1>7, <2>2, Zenon
<1>10. ASSUME lost' PROVE free' = {} \/ \E p \in tables' : ~ InPlace(p)
  <2>1. t.free = {} \/ \E p \in t.tables : ~ InPlace(p)
    BY <1>7, <1>8, <1>10, Zenon DEF Stored, NoTable
  <2> QED
    BY <1>7, <2>1, Zenon
<1>11. ASSUME Trusted'
       PROVE  /\ free' \subseteq free
              /\ Grove(mem', free', tables', root, pc)
              /\ \A u \in Virtuals \ {v} : Tr(mem', root, u) = Tr(mem, root, u)
              /\ Tr(mem', root, v) = new
  <2>1. ~ t.lost /\ ~ t.dirty
    BY <1>7, <1>11, Zenon DEF Trusted
  <2>2. PICK d : /\ Tree(t.mem, t.free, root, d)
                 /\ t.free \subseteq s.free
                 /\ DOMAIN dep \subseteq s.tables => DOMAIN d \subseteq t.tables
                 /\ flags => Exact(s, t, dep, d)
                 /\ \A u \in Virtuals \ {v} : Tr(t.mem, root, u) = Tr(s.mem, root, u)
                 /\ Tr(t.mem, root, v) = IF e.present THEN e.page ELSE None
    BY <1>8, <2>1, Zenon DEF Stored, Rewritten
  <2>3. Tree(mem', free', root, d)
    BY <1>7, <2>2, Zenon
  <2>4. DOMAIN d \subseteq tables'
    BY <1>1, <1>3, <1>7, <2>2, Zenon
  <2>5. pc # "up" => tables' = DOMAIN d
    BY <1>1, <1>3, <1>7, <2>2, Zenon DEF Exact
  <2>6. Grove(mem', free', tables', root, pc)
    BY <2>3, <2>4, <2>5 DEF Grove
  <2>7. free' \subseteq free
    BY <1>3, <1>7, <2>2
  <2>8. \A u \in Virtuals \ {v} : Tr(mem', root, u) = Tr(mem, root, u)
    BY <1>3, <1>7, <2>2, Zenon
  <2>9. Tr(mem', root, v) = new
    BY <1>7, <2>2, Zenon
  <2> QED
    BY <2>6, <2>7, <2>8, <2>9, Zenon
<1>12. free' \in SUBSET Frames
  BY <1>7, <1>9, Zenon
<1>13. tlb' = [u \in DOMAIN tlb \ {v} |-> tlb[u]]
  BY Zenon DEF vmm_flush_tlb
<1> QED
  BY <1>9, <1>10, <1>11, <1>12, <1>13, Zenon DEF Changes

(* ... for the pages that may be mapped are numbers; ... *)
LEMMA PhysicalInt == Physical \subseteq Int
BY VmmAssumption, MemoryAssumption DEF Physical, ENOMEM

(* ... so is vmm_map_page, ... *)
LEMMA MapChanges ==
    ASSUME IInv, Trusted, pc # "boot", NEW v \in Virtuals, NEW p \in Physical,
           NEW F \in SUBSET free,
           NEW s, s = [mem |-> mem, free |-> F, tables |-> tables, lost |-> lost, dirty |-> dirty],
           vmm_map_page(s, p, v)
    PROVE  Changes(v, p)
<1>1. PICK yes \in BOOLEAN : yes = TRUE
  OBVIOUS
<1>2. PICK e : e = Entry(p, yes)
  OBVIOUS
<1>3. e \in Entries /\ e.page = p /\ e.present = yes
  BY <1>2, PhysicalInt DEF Entry, Entries
<1>4. Becomes(StoreEntry(s, v, e, yes)) /\ vmm_flush_tlb(v)
  BY <1>1, <1>2, Zenon DEF vmm_map_page
<1>5. PICK new : new = IF e.present THEN e.page ELSE None
  OBVIOUS
<1>6. new = p
  BY <1>1, <1>3, <1>5, Zenon
<1>7. e.present => e.page \in Physical
  BY <1>3, Zenon
<1>8. ~ yes => ~ e.present /\ pc = "up"
  BY <1>1, Zenon
<1>9. Changes(v, new)
  BY <1>3, <1>4, <1>5, <1>7, <1>8, StoreChanges
<1> QED
  BY <1>6, <1>9, Zenon

(* ... and vmm_unmap_page. *)
LEMMA UnmapChanges ==
    ASSUME IInv, Trusted, pc = "up", NEW v \in Virtuals, vmm_unmap_page(v)
    PROVE  Changes(v, None)
<1>1. PICK no \in BOOLEAN : no = FALSE
  OBVIOUS
<1>2. PICK e : e = Entry(0, no)
  OBVIOUS
<1>3. e \in Entries /\ e.present = no
  BY <1>2 DEF Entry, Entries
<1>4. PICK s : s = State
  OBVIOUS
<1>5. Becomes(StoreEntry(s, v, e, no)) /\ vmm_flush_tlb(v)
  BY <1>1, <1>2, <1>4, Zenon DEF vmm_unmap_page
<1>6. PICK new : new = IF e.present THEN e.page ELSE None
  OBVIOUS
<1>7. new = None
  BY <1>1, <1>3, <1>6, Zenon
<1>8. e.present => e.page \in Physical
  BY <1>1, <1>3, Zenon
<1>9. ~ no => ~ e.present /\ pc = "up"
  BY <1>1, <1>3, Zenon
<1>10. s = [mem |-> mem, free |-> free, tables |-> tables, lost |-> lost, dirty |-> dirty]
  BY <1>4 DEF State
<1>11. pc # "boot" /\ free \in SUBSET free
  OBVIOUS
<1>12. Changes(v, new)
  BY <1>3, <1>5, <1>6, <1>8, <1>9, <1>10, <1>11, StoreChanges
<1> QED
  BY <1>7, <1>12, Zenon

(* The pages that the loops of vmm_init map. *)
LEMMA VirtualsWrap ==
    ASSUME NEW v \in Nat
    PROVE  /\ v % V_PAGES \in Virtuals
           /\ V_PAGES \in Nat \ {0}
           /\ v < V_PAGES => v % V_PAGES = v
           /\ V_PAGES <= v /\ v < 2 * V_PAGES => v % V_PAGES = v - V_PAGES
<1>1. FAN \in Nat \ {0}
  BY VmmAssumption
<1>2. V_PAGES \in Nat \ {0}
  <2>1. FAN * FAN \in Nat \ {0} /\ FAN * FAN * FAN \in Nat \ {0} /\ FAN * FAN * FAN * FAN \in Nat \ {0}
    BY <1>1
  <2> QED
    BY <2>1 DEF V_PAGES
<1>3. PICK n \in Nat \ {0} : n = V_PAGES
  BY <1>2
<1>4. v % n \in 0 .. n - 1
  OBVIOUS
<1>5. v < n => v % n = v
  OBVIOUS
<1>6. n <= v /\ v < 2 * n => v % n = v - n
  OBVIOUS
<1> QED
  BY <1>3, <1>4, <1>5, <1>6 DEF Virtuals

(* An iteration of a loop of vmm_init is a call for its page, ... *)
LEMMA LoopChanges ==
    ASSUME IInv, NEW at, at # "boot", NEW then, NEW p \in Physical, NEW v \in Nat,
           Loop(at, then, p, v), i < GIGABYTES_4
    PROVE  /\ Trusted /\ pc = at /\ Changes(v % V_PAGES, p)
           /\ i' = i + 1 /\ UNCHANGED <<pc, root, active>>
<1>1. Trusted /\ pc = at /\ vmm_map_page(State, p, v % V_PAGES)
      /\ i' = i + 1 /\ UNCHANGED <<pc, root, active>>
  BY DEF Loop, Running, Trusted
<1>2. PICK s : s = State
  OBVIOUS
<1>3. PICK u \in Virtuals : u = v % V_PAGES
  BY VirtualsWrap
<1>4. s = [mem |-> mem, free |-> free, tables |-> tables, lost |-> lost, dirty |-> dirty]
  BY <1>2 DEF State
<1>5. vmm_map_page(s, p, u)
  BY <1>1, <1>2, <1>3, Zenon
<1>6. pc # "boot" /\ free \in SUBSET free
  BY <1>1
<1>7. Changes(u, p)
  BY <1>1, <1>4, <1>5, <1>6, MapChanges
<1> QED
  BY <1>1, <1>3, <1>7, Zenon

(* ... and so are the calls after vmm_init, of mmap too. *)
LEMMA RequestChanges ==
    ASSUME IInv, NEW v \in Requests
    PROVE  /\ \A p \in Targets : MapRequest(v, p) => Changes(v, p)
           /\ UnmapRequest(v) => Changes(v, None)
           /\ \A n \in 1 .. 2 : mmap(v, n) => \E p \in Physical : Changes(v, p)
<1>1. v \in Virtuals
  BY RangesAssumption DEF Virtuals
<1>2. ASSUME NEW p \in Targets, MapRequest(v, p)
      PROVE  Changes(v, p)
  <2>1. Trusted /\ pc = "up" /\ vmm_map_page(State, p, v)
    BY <1>2, Zenon DEF MapRequest, Running, Trusted
  <2>2. PICK s : s = State
    OBVIOUS
  <2>3. s = [mem |-> mem, free |-> free, tables |-> tables, lost |-> lost, dirty |-> dirty]
    BY <2>2 DEF State
  <2>4. p \in Physical /\ pc # "boot" /\ free \in SUBSET free
    BY <2>1 DEF Physical
  <2>5. vmm_map_page(s, p, v)
    BY <2>1, <2>2, Zenon
  <2> QED
    BY <1>1, <2>1, <2>3, <2>4, <2>5, MapChanges
<1>3. ASSUME UnmapRequest(v)
      PROVE  Changes(v, None)
  <2>1. Trusted /\ pc = "up" /\ vmm_unmap_page(v)
    BY <1>3, Zenon DEF UnmapRequest, Running, Trusted
  <2> QED
    BY <1>1, <2>1, UnmapChanges
<1>4. ASSUME NEW n \in 1 .. 2, mmap(v, n)
      PROVE  \E p \in Physical : Changes(v, p)
  <2> DEFINE runs == {f \in free : f .. f + n - 1 \subseteq free}
             ptr == IF runs = {} THEN ENOMEM ELSE Min(runs)
             rest == IF runs = {} THEN free ELSE free \ (ptr .. ptr + n - 1)
  <2>1. Trusted /\ pc = "up" /\ vmm_map_page([State EXCEPT !.free = rest], ptr, v)
    BY <1>4, Zenon DEF mmap, Running, Trusted
  <2>2. ptr \in Physical
    <3>1. free \in SUBSET Frames
      BY DEF IInv, Types
    <3>2. runs # {} => Min(runs) \in runs
      BY <3>1, MinOfFrames
    <3> QED
      BY <3>1, <3>2 DEF Physical
  <2>3. rest \in SUBSET free
    OBVIOUS
  <2>4. PICK F, p : F = rest /\ p = ptr
    OBVIOUS
  <2> HIDE DEF rest, ptr
  <2>5. PICK s : s = [State EXCEPT !.free = F]
    OBVIOUS
  <2>6. s = [mem |-> mem, free |-> F, tables |-> tables, lost |-> lost, dirty |-> dirty]
    BY <2>5 DEF State
  <2>7. vmm_map_page(s, p, v)
    BY <2>1, <2>4, <2>5, Zenon
  <2>8. pc # "boot" /\ F \in SUBSET free /\ p \in Physical
    BY <2>1, <2>2, <2>3, <2>4
  <2>9. Changes(v, p)
    BY <1>1, <2>1, <2>6, <2>7, <2>8, MapChanges
  <2> QED
    BY <2>8, <2>9
<1> QED
  BY <1>2, <1>3, <1>4, Zenon

(* Loading CR3 leaves nothing cached. *)
LEMMA NoTranslations == DOMAIN <<>> = {}
OBVIOUS

(* The initial states satisfy the invariant. *)
LEMMA InitInv ==
    ASSUME Init PROVE IInv
<1>1. mem \in Memory
  BY MemoryAssumption DEF Init, Memory
<1>2. free \in SUBSET Frames
  BY VmmAssumption DEF Init
<1>3. Types
  <2>1. DOMAIN tlb = {}
    BY NoTranslations DEF Init
  <2>2. i \in 0 .. GIGABYTES_4 /\ pc = "boot" /\ root = None /\ tables = {}
    BY VmmAssumption DEF Init
  <2>3. active \in BOOLEAN /\ lost \in BOOLEAN /\ dirty \in BOOLEAN
    BY DEF Init
  <2> QED
    BY <1>1, <1>2, <2>1, <2>2, <2>3 DEF Types
<1>4. Phases /\ Grows
  BY DEF Init, Phases, Grows
<1> QED
  BY <1>3, <1>4 DEF IInv

(* A change of one translation keeps it. *)
LEMMA ChangesInv ==
    ASSUME IInv, NEW v, NEW new, Changes(v, new), UNCHANGED <<pc, root, active>>,
           i' \in 0 .. GIGABYTES_4, pc \notin {"boot", "activate"}
    PROVE  IInv'
<1>1. DOMAIN tlb' \subseteq Virtuals
  <2>1. DOMAIN tlb' = DOMAIN tlb \ {v}
    BY DEF Changes
  <2> QED
    BY <2>1 DEF IInv, Types
<1>2. Types'
  BY <1>1 DEF IInv, Types, Changes
<1>3. Phases'
  BY DEF IInv, Phases
<1>4. Grows'
  BY DEF Changes, Grows
<1> QED
  BY <1>2, <1>3, <1>4 DEF IInv

(* vmm_new_page_dir makes a tree of one table. *)
LEMMA NewRoot ==
    ASSUME IInv, vmm_new_page_dir, free # {}
    PROVE  /\ root' \in free /\ root' = Min(free) /\ pc' = "identity"
           /\ mem' \in Memory
           /\ Grove(mem', free', tables', root', "identity")
           /\ \A v \in Nat : Tr(mem', root', v) = None
<1>1. PICK r : r = Min(free)
  OBVIOUS
<1>2. r \in free /\ free \in SUBSET Frames /\ r \in Frames /\ mem \in Memory
  BY <1>1, MinOfFrames DEF IInv, Types
<1>3. /\ root' = r /\ free' = free \ {r} /\ tables' = {r} /\ pc' = "identity"
      /\ mem' = [mem EXCEPT ![r] = [x \in Indices |-> Entry(0, FALSE)]]
  BY <1>1 DEF vmm_new_page_dir
<1>4. PICK no \in BOOLEAN : no = FALSE
  OBVIOUS
<1>5. PICK e : e = Entry(0, no)
  OBVIOUS
<1>6. e \in Entries /\ e.present = no
  BY <1>5 DEF Entry, Entries
<1>7. mem' = [mem EXCEPT ![r] = [x \in Indices |-> e]]
  BY <1>3, <1>4, <1>5, Zenon
<1>8. mem' \in Memory /\ \A x \in Indices : mem'[r][x] = e
  BY <1>2, <1>6, <1>7 DEF Memory, Entries
<1>9. \A x \in Indices : ~ Present(mem', r, x)
  BY <1>4, <1>6, <1>8, Zenon DEF Present
<1>10. PICK dep : dep = [f \in {r} |-> 4]
  OBVIOUS
<1>11. DOMAIN dep = {r} /\ dep[r] = 4 /\ dep \in [DOMAIN dep -> 1 .. 4]
  BY <1>10
<1>12. Levels(free \ {r}, r, dep)
  BY <1>2, <1>11 DEF Levels
<1>13. Tree(mem', free \ {r}, r, dep)
  BY <1>9, <1>11, <1>12 DEF Tree, LeadsDown, Unshared, Hung, Leaves, Inner
<1>14. Grove(mem', free', tables', root', "identity")
  BY <1>3, <1>11, <1>13 DEF Grove
<1>15. \A v \in Nat : Tr(mem', r, v) = None
  BY <1>9, DigitType DEF Tr
<1> QED
  BY <1>1, <1>2, <1>3, <1>8, <1>14, <1>15, Zenon

(* The pages of the three loops. *)
LEMMA LoopTargets ==
    ASSUME IInv, i < GIGABYTES_4
    PROVE  /\ i \in Nat /\ i + 1 \in 0 .. GIGABYTES_4
           /\ i \in Physical /\ physical_base + i \in Physical
           /\ HH + i \in Nat /\ TOP + i \in Nat
<1>1. i \in 0 .. GIGABYTES_4
  BY DEF IInv, Types
<1> QED
  BY <1>1, VmmAssumption DEF Physical

(* Every step of the system keeps the invariant. *)
LEMMA NextInv ==
    ASSUME IInv, [Next]_vars PROVE IInv'
<1>1. CASE UNCHANGED vars
  BY <1>1 DEF IInv, Types, Phases, Grows, Trusted, vars, store
<1>2. CASE vmm_new_page_dir
  <2>1. CASE free = {}
    <3>1. lost' = TRUE /\ UNCHANGED <<mem, free, tables, root, pc, i, active, tlb, dirty>>
      BY <1>2, <2>1 DEF vmm_new_page_dir
    <3> QED
      BY <3>1 DEF IInv, Types, Phases, Grows, Trusted
  <2>2. CASE free # {}
    <3>1. /\ root' \in free /\ pc' = "identity" /\ mem' \in Memory
          /\ Grove(mem', free', tables', root', "identity")
      BY <1>2, <2>2, NewRoot
    <3>2. free' = free \ {root'} /\ tables' = {root'} /\ UNCHANGED <<i, active, tlb, dirty, lost>>
          /\ pc = "boot"
      BY <1>2, <2>2 DEF vmm_new_page_dir, Running
    <3>3. root' \in Frames /\ root' # None
      BY <3>1, MemoryAssumption DEF IInv, Types
    <3>4. Types'
      BY <3>1, <3>2, <3>3 DEF IInv, Types
    <3>5. Phases'
      BY <3>1, <3>2, <3>3 DEF IInv, Phases
    <3>6. Grows'
      BY <3>1 DEF Grows
    <3> QED
      BY <3>4, <3>5, <3>6 DEF IInv
  <2> QED
    BY <2>1, <2>2
<1>3. ASSUME NEW at \in {"identity", "direct", "kernel"}, NEW then \in {"direct", "kernel", "activate"},
             NEW p, NEW v, Loop(at, then, p, v),
             i < GIGABYTES_4 => p \in Physical /\ v \in Nat
      PROVE  IInv'
  <2>1. CASE i < GIGABYTES_4
    <3>1. Changes(v % V_PAGES, p) /\ i' = i + 1 /\ UNCHANGED <<pc, root, active>> /\ pc = at
      BY <1>3, <2>1, LoopChanges
    <3>2. i' \in 0 .. GIGABYTES_4
      BY <2>1, <3>1, LoopTargets
    <3> QED
      BY <3>1, <3>2, ChangesInv
  <2>2. CASE ~ (i < GIGABYTES_4)
    <3>1. pc = at /\ pc' = then /\ i' = 0 /\ UNCHANGED <<mem, free, tables, lost, dirty, tlb, root, active>>
      BY <1>3, <2>2 DEF Loop, Running, store
    <3>2. Types'
      BY <3>1, VmmAssumption DEF IInv, Types
    <3>3. Phases'
      BY <3>1 DEF IInv, Phases
    <3>4. Grows'
      BY <3>1 DEF IInv, Grows, Grove, Trusted
    <3> QED
      BY <3>2, <3>3, <3>4 DEF IInv
  <2> QED
    BY <2>1, <2>2
<1>4. CASE IdentityMap
  BY <1>3, <1>4, LoopTargets DEF IdentityMap
<1>5. CASE DirectMap
  BY <1>3, <1>5, LoopTargets DEF DirectMap
<1>6. CASE MapKernel
  BY <1>3, <1>6, LoopTargets DEF MapKernel
<1>7. CASE vmm_activate_page_directory
  <2>1. pc = "activate" /\ pc' = "up" /\ active' = TRUE /\ tlb' = <<>>
        /\ UNCHANGED <<mem, free, tables, lost, dirty, root, i>>
    BY <1>7 DEF vmm_activate_page_directory, Running, store
  <2>2. Types'
    BY <2>1, NoTranslations DEF IInv, Types
  <2>3. Phases'
    BY <2>1 DEF IInv, Phases
  <2>4. Grows'
    BY <2>1 DEF IInv, Grows, Grove, Trusted
  <2> QED
    BY <2>2, <2>3, <2>4 DEF IInv
<1>8. ASSUME NEW v \in Requests, NEW new, Changes(v, new), pc = "up", UNCHANGED <<root, pc, i, active>>
      PROVE  IInv'
  <2>1. i' \in 0 .. GIGABYTES_4 /\ pc \notin {"boot", "activate"}
    BY <1>8 DEF IInv, Types
  <2> QED
    BY <1>8, <2>1, ChangesInv
<1>9. ASSUME NEW v \in Requests, NEW p \in Targets, MapRequest(v, p) PROVE IInv'
  BY <1>8, <1>9, RequestChanges DEF MapRequest, Running
<1>10. ASSUME NEW v \in Requests, UnmapRequest(v) PROVE IInv'
  BY <1>8, <1>10, RequestChanges DEF UnmapRequest, Running
<1>11. ASSUME NEW v \in Requests, NEW n \in 1 .. 2, mmap(v, n) PROVE IInv'
  BY <1>8, <1>11, RequestChanges DEF mmap, Running
<1>12. ASSUME NEW v \in Requests, TlbFill(v) PROVE IInv'
  <2>1. UNCHANGED <<mem, free, tables, lost, dirty, root, pc, i, active>>
        /\ DOMAIN tlb' = DOMAIN tlb \cup {v}
    BY <1>12 DEF TlbFill, store
  <2>2. v \in Virtuals
    BY RangesAssumption DEF Virtuals
  <2>3. Types'
    BY <2>1, <2>2 DEF IInv, Types
  <2>4. Phases' /\ Grows'
    BY <2>1 DEF IInv, Phases, Grows, Grove, Trusted
  <2> QED
    BY <2>3, <2>4 DEF IInv
<1>13. CASE Halted
  BY <1>1, <1>13 DEF Halted
<1> QED
  BY <1>1, <1>2, <1>4, <1>5, <1>6, <1>7, <1>9, <1>10, <1>11, <1>12, <1>13 DEF Next, vmm_init

(* The inductive invariant holds in every reachable state. *)
LEMMA Invariance == Spec => []IInv
BY InitInv, NextInv, PTL DEF Spec

(* Every variable keeps its type: the walk of vmm_map_page never follows   *)
(* an entry out of RAM, and unmapping never makes the tree lead there.     *)
THEOREM TypeCorrect == Spec => []TypeOK
<1>1. IInv => TypeOK
  <2> SUFFICES ASSUME IInv PROVE TypeOK
    OBVIOUS
  <2>1. \A f \in Frames : \A x \in Indices :
          mem[f][x].page \in Int /\ mem[f][x].present \in BOOLEAN
    BY DEF IInv, Types, Memory
  <2> QED
    BY <2>1 DEF IInv, Types, TypeOK, Virtuals
<1> QED
  BY <1>1, Invariance, PTL

-----------------------------------------------------------------------------
(* The processor's translation is the walk from the root. *)
LEMMA TranslateIs == \A v : Translate(v) = IF root # None THEN Tr(mem, root, v) ELSE None
BY Zenon DEF Translate, Tr, Present, To, Table3, Table2, Table1

(* ... and after a step. *)
LEMMA TranslateWillBe == \A v : Translate(v)' = IF root' # None THEN Tr(mem', root', v) ELSE None
BY Zenon DEF Translate, Tr, Present, To, Table3, Table2, Table1

(* A step leaves the tables alone, makes the root, or changes one          *)
(* translation.                                                            *)
Alone ==
    /\ UNCHANGED <<mem, free, tables, lost, dirty, root>>
    /\ \/ UNCHANGED <<tlb, active>>
       \/ tlb' = <<>>
       \/ \E v \in Requests : TlbFill(v)

OneChange(v, new) ==
    /\ Trusted /\ pc # "boot"
    /\ pc = "up" => v \in Requests
    /\ Changes(v, new)
    /\ UNCHANGED <<root, pc, active>>

(* Every step of vmm.c leaves the tables alone, makes the root, or is a    *)
(* call for one page.                                                      *)
LEMMA StepKinds ==
    ASSUME IInv, [Next]_vars
    PROVE  \/ Alone
           \/ vmm_new_page_dir
           \/ \E v \in Virtuals, new \in Physical \cup {None} : OneChange(v, new)
<1>1. CASE UNCHANGED vars
  BY <1>1 DEF Alone, vars, store
<1>2. ASSUME NEW at \in {"identity", "direct", "kernel"}, NEW then, NEW p, NEW v, Loop(at, then, p, v),
             i < GIGABYTES_4 => p \in Physical /\ v \in Nat
      PROVE  \/ Alone
             \/ \E u \in Virtuals, new \in Physical \cup {None} : OneChange(u, new)
  <2>1. CASE i < GIGABYTES_4
    <3>1. Trusted /\ Changes(v % V_PAGES, p) /\ UNCHANGED <<pc, root, active>> /\ pc = at
      BY <1>2, <2>1, LoopChanges
    <3>2. v % V_PAGES \in Virtuals /\ p \in Physical
      BY <1>2, <2>1, VirtualsWrap
    <3>3. OneChange(v % V_PAGES, p)
      BY <3>1 DEF OneChange
    <3> QED
      BY <3>2, <3>3
  <2>2. CASE ~ (i < GIGABYTES_4)
    BY <1>2, <2>2 DEF Loop, store, Alone
  <2> QED
    BY <2>1, <2>2
<1>3. CASE IdentityMap
  BY <1>2, <1>3, LoopTargets DEF IdentityMap
<1>4. CASE DirectMap
  BY <1>2, <1>4, LoopTargets DEF DirectMap
<1>5. CASE MapKernel
  BY <1>2, <1>5, LoopTargets DEF MapKernel
<1>6. CASE vmm_activate_page_directory
  BY <1>6 DEF vmm_activate_page_directory, store, Alone
<1>7. ASSUME NEW v \in Requests, NEW new \in Physical \cup {None}, Changes(v, new), Running("up"),
             UNCHANGED <<root, pc, i, active>>
      PROVE  \E u \in Virtuals, w \in Physical \cup {None} : OneChange(u, w)
  <2>1. v \in Virtuals
    BY RangesAssumption DEF Virtuals
  <2>2. OneChange(v, new)
    BY <1>7 DEF OneChange, Running, Trusted
  <2> QED
    BY <2>1, <2>2
<1>8. ASSUME NEW v \in Requests, NEW p \in Targets, MapRequest(v, p)
      PROVE  \E u \in Virtuals, w \in Physical \cup {None} : OneChange(u, w)
  <2>1. p \in Physical /\ Changes(v, p)
    BY <1>8, RequestChanges DEF Physical
  <2> QED
    BY <1>7, <1>8, <2>1 DEF MapRequest
<1>9. ASSUME NEW v \in Requests, UnmapRequest(v)
      PROVE  \E u \in Virtuals, w \in Physical \cup {None} : OneChange(u, w)
  BY <1>7, <1>9, RequestChanges DEF UnmapRequest
<1>10. ASSUME NEW v \in Requests, NEW n \in 1 .. 2, mmap(v, n)
       PROVE  \E u \in Virtuals, w \in Physical \cup {None} : OneChange(u, w)
  <2>1. PICK p \in Physical : Changes(v, p)
    BY <1>10, RequestChanges
  <2>2. Running("up") /\ UNCHANGED <<root, pc, i, active>>
    BY <1>10 DEF mmap
  <2> QED
    BY <1>7, <2>1, <2>2
<1>11. ASSUME NEW v \in Requests, TlbFill(v) PROVE Alone
  BY <1>11 DEF TlbFill, store, Alone
<1>12. CASE Halted
  BY <1>1, <1>12 DEF Halted
<1> QED
  BY <1>1, <1>3, <1>4, <1>5, <1>6, <1>8, <1>9, <1>10, <1>11, <1>12 DEF Next, vmm_init

(* No cached translation outlives a change of the tables: the invlpg of    *)
(* vmm_map_page and vmm_unmap_page is for the one page that the walk can   *)
(* have changed.                                                           *)
THEOREM TlbIsCoherent == Spec => []TlbCoherent
<1>1. Init => TlbCoherent
  BY DEF Init, TlbCoherent
<1>2. IInv /\ TlbCoherent /\ [Next]_vars => TlbCoherent'
  <2> SUFFICES ASSUME IInv, TlbCoherent, [Next]_vars, active', Trusted', NEW v \in DOMAIN tlb'
               PROVE  tlb'[v] = Translate(v)'
    BY DEF TlbCoherent
  <2>1. CASE Alone
    <3>1. Trusted /\ Translate(v)' = Translate(v)
      BY <2>1, TranslateIs, TranslateWillBe DEF Alone, Trusted
    <3>2. CASE UNCHANGED <<tlb, active>>
      BY <3>1, <3>2 DEF TlbCoherent
    <3>3. CASE tlb' = <<>>
      BY <3>3, NoTranslations
    <3>4. ASSUME NEW u \in Requests, TlbFill(u) PROVE tlb'[v] = Translate(v)'
      <4>1. tlb' = [w \in DOMAIN tlb \cup {u} |-> IF w = u THEN Translate(u) ELSE tlb[w]] /\ active
        BY <3>4 DEF TlbFill
      <4>2. CASE v = u
        BY <3>1, <4>1, <4>2
      <4>3. CASE v # u
        <5>1. v \in DOMAIN tlb /\ tlb'[v] = tlb[v]
          BY <4>1, <4>3
        <5> QED
          BY <3>1, <4>1, <5>1 DEF TlbCoherent
      <4> QED
        BY <4>2, <4>3
    <3> QED
      BY <2>1, <3>2, <3>3, <3>4 DEF Alone
  <2>2. CASE vmm_new_page_dir
    BY <2>2 DEF vmm_new_page_dir, Running, IInv, Phases
  <2>3. ASSUME NEW u \in Virtuals, NEW new, OneChange(u, new)
        PROVE  tlb'[v] = Translate(v)'
    <3>1. Trusted /\ active /\ root' = root /\ root # None
      BY <2>3 DEF OneChange, IInv, Phases
    <3>2. v \in DOMAIN tlb /\ v # u /\ tlb'[v] = tlb[v] /\ v \in Virtuals
      BY <2>3 DEF OneChange, Changes, IInv, Types
    <3>3. Tr(mem', root, v) = Tr(mem, root, v)
      BY <2>3, <3>2 DEF OneChange, Changes
    <3>4. Translate(v)' = Translate(v)
      BY <3>1, <3>3, TranslateIs, TranslateWillBe
    <3> QED
      BY <3>1, <3>2, <3>4 DEF TlbCoherent
  <2> QED
    BY <2>1, <2>2, <2>3, StepKinds
<1> QED
  BY <1>1, <1>2, Invariance, PTL DEF Spec

-----------------------------------------------------------------------------
(* A translation names a page of those that were mapped. *)
LEMMA TreeValues ==
    ASSUME NEW m, NEW F, NEW r, NEW dep, Tree(m, F, r, dep), NEW v \in Nat
    PROVE  Tr(m, r, v) \in Physical \cup {None}
<1>1. CASE /\ Present(m, r, Digit(v, 4))
           /\ Present(m, Table3(m, r, v), Digit(v, 3))
           /\ Present(m, Table2(m, r, v), Digit(v, 2))
           /\ Present(m, Table1(m, r, v), Digit(v, 1))
  <2>1. Table1(m, r, v) \in DOMAIN dep \ Inner(dep)
    BY <1>1, PathLevels
  <2>2. To(m, Table1(m, r, v), Digit(v, 1)) \in Physical
    BY <1>1, <2>1, DigitType DEF Tree, Leaves
  <2> QED
    BY <1>1, <2>2 DEF Tr
<1>2. CASE ~ (/\ Present(m, r, Digit(v, 4))
              /\ Present(m, Table3(m, r, v), Digit(v, 3))
              /\ Present(m, Table2(m, r, v), Digit(v, 2))
              /\ Present(m, Table1(m, r, v), Digit(v, 1)))
  BY <1>2 DEF Tr
<1> QED
  BY <1>1, <1>2

(* mm/vmm.c implements AddressSpace: each call changes the translation of  *)
(* one page at most, whatever tables it allocates on the way, and what it  *)
(* translates to is a page that somebody asked for.                        *)
THEOREM Implementation == Spec => ImplementsAddressSpace
<1>1. Init => Space!Init
  <2> SUFFICES ASSUME Init PROVE Space!Init
    OBVIOUS
  <2>1. Trusted = TRUE
    BY DEF Init, Trusted
  <2>2. \A v \in Watched : Translate(v) = None
    BY TranslateIs DEF Init
  <2>3. [v \in Watched |-> IF Trusted THEN Translate(v) ELSE None] = [v \in Watched |-> None]
    BY <2>2
  <2> QED
    BY <2>1, <2>3 DEF Space!Init, Space!Empty
<1>2. IInv /\ IInv' /\ [Next]_vars =>
          [Space!Next]_<<[v \in Watched |-> IF Trusted THEN Translate(v) ELSE None], Trusted>>
  <2> SUFFICES ASSUME IInv, IInv', [Next]_vars
               PROVE  \/ Space!Next
                      \/ /\ [v \in Watched |-> IF Trusted' THEN Translate(v)' ELSE None]
                              = [v \in Watched |-> IF Trusted THEN Translate(v) ELSE None]
                         /\ Trusted' = Trusted
    OBVIOUS
  <2>0. \A v \in Watched : v \in Virtuals /\ v \in Nat
    BY RangesAssumption DEF Virtuals
  <2>1. CASE Alone
    <3>1. Trusted' = Trusted
      BY <2>1 DEF Alone, Trusted
    <3>2. \A v \in Watched : Translate(v)' = Translate(v)
      BY <2>1, TranslateIs, TranslateWillBe DEF Alone
    <3>3. \A v \in Watched : (IF Trusted' THEN Translate(v)' ELSE None) = (IF Trusted THEN Translate(v) ELSE None)
      BY <3>1, <3>2, Zenon
    <3> QED
      BY <3>1, <3>3
  <2>2. ASSUME Trusted, ~ Trusted' PROVE Space!Next
    <3>1. Trusted' = FALSE
      BY <2>2, Zenon DEF Trusted
    <3>2. [v \in Watched |-> IF Trusted' THEN Translate(v)' ELSE None] = [v \in Watched |-> None]
      BY <2>2
    <3>3. Space!Lose
      BY <2>2, <3>1, <3>2, Zenon DEF Space!Lose, Space!Empty
    <3> QED
      BY <3>3 DEF Space!Next
  <2>3. ASSUME Trusted, Trusted', NEW u, \A v \in Watched \ {u} : Translate(v)' = Translate(v)
        PROVE  Space!Next
    <3>1. PICK dep : Tree(mem', free', root', dep) \/ root' = None
      BY <2>3 DEF IInv, Grows, Grove, Phases
    <3>2. \A v \in Watched : Translate(v)' \in Physical \cup {None}
      BY <2>0, <3>1, TranslateWillBe, TreeValues
    <3> DEFINE sp == [v \in Watched |-> IF Trusted THEN Translate(v) ELSE None]
               ch == {v \in Watched : sp'[v] # sp[v]}
    <3>3. ch \subseteq {u}
      BY <2>3
    <3>4. Cardinality(ch) <= 1
      <4> HIDE DEF ch
      <4>1. IsFiniteSet({u}) /\ Cardinality({u}) = 1
        BY FS_Singleton
      <4> QED
        BY <3>3, <4>1, FS_Subset, FS_CardinalityType
    <3>5. DOMAIN sp' = Watched /\ \A v \in Watched : sp'[v] \in Physical \cup {None}
      BY <2>3, <3>2
    <3>6. Trusted' = Trusted
      BY <2>3, Zenon DEF Trusted
    <3>7. Space!Change
      BY <2>3, <3>4, <3>5, <3>6 DEF Space!Change, Physical, Space!Cardinality, Cardinality
    <3> QED
      BY <3>7 DEF Space!Next
  <2>4. CASE vmm_new_page_dir
    <3>1. Trusted /\ root = None
      BY <2>4 DEF vmm_new_page_dir, Running, Trusted, IInv, Phases
    <3>2. CASE Trusted'
      <4>1. free # {}
        BY <2>4, <3>2 DEF vmm_new_page_dir, Trusted
      <4>2. \A v \in Nat : Tr(mem', root', v) = None
        BY <2>4, <4>1, NewRoot
      <4>3. \A v \in Watched : Translate(v)' = Translate(v)
        BY <2>0, <3>1, <4>2, TranslateIs, TranslateWillBe
      <4> QED
        BY <2>3, <3>1, <3>2, <4>3
    <3> QED
      BY <2>2, <3>1, <3>2
  <2>5. ASSUME NEW u \in Virtuals, NEW new, OneChange(u, new)
        PROVE  Space!Next
    <3>1. Trusted /\ root' = root /\ root # None
      BY <2>5 DEF OneChange, IInv, Phases
    <3>2. CASE Trusted'
      <4>1. \A v \in Watched \ {u} : Tr(mem', root, v) = Tr(mem, root, v)
        BY <2>0, <2>5, <3>2 DEF OneChange, Changes
      <4>2. \A v \in Watched \ {u} : Translate(v)' = Translate(v)
        BY <3>1, <4>1, TranslateIs, TranslateWillBe
      <4> QED
        BY <2>3, <3>1, <3>2, <4>2
    <3> QED
      BY <2>2, <3>1, <3>2
  <2> QED
    BY <2>1, <2>4, <2>5, StepKinds
<1> QED
  BY <1>1, <1>2, Invariance, PTL DEF Spec, ImplementsAddressSpace, Space!Spec

-----------------------------------------------------------------------------
(* The translations when the three loops have run n1, n2 and n3 times. *)
MapOf(v, n1, n2, n3) ==
    LET k == (v - TOP) % V_PAGES
    IN  IF k < n3 THEN physical_base + k
        ELSE IF v < n1 THEN v
        ELSE IF v - HH \in 0 .. n2 - 1 THEN v - HH
        ELSE None

(* How often each has, in vmm_init. *)
N1 == IF pc = "identity" THEN i ELSE GIGABYTES_4
N2 == IF pc = "identity" THEN 0 ELSE IF pc = "direct" THEN i ELSE GIGABYTES_4
N3 == IF pc \in {"identity", "direct"} THEN 0 ELSE IF pc = "kernel" THEN i ELSE GIGABYTES_4

(* Every page is mapped by the last iteration that reached it, until       *)
(* somebody asks for it after vmm_init.                                    *)
Mapped ==
    Trusted /\ pc # "boot" =>
        \A v \in Virtuals : (pc = "up" => v \notin Requests) => Tr(mem, root, v) = MapOf(v, N1, N2, N3)

(* The page that an iteration of the loop over the kernel maps. *)
LEMMA KernelPage ==
    ASSUME NEW v \in Virtuals, NEW n \in 0 .. V_PAGES - 1
    PROVE  /\ (v - TOP) % V_PAGES \in 0 .. V_PAGES - 1
           /\ (v - TOP) % V_PAGES = n <=> v = (TOP + n) % V_PAGES
<1>1. PICK w \in Nat \ {0} : w = V_PAGES
  BY VirtualsWrap
<1>2. TOP \in 0 .. w - 1 /\ v \in 0 .. w - 1 /\ n \in 0 .. w - 1
  BY <1>1, VmmAssumption, RangesAssumption DEF Virtuals
<1>3. ASSUME NEW x \in 0 .. w - 1 PROVE x % w = x
  OBVIOUS
<1>4. ASSUME NEW x \in w .. 2 * w - 1 PROVE x % w = x - w
  OBVIOUS
<1>5. ASSUME NEW x \in (1 - w) .. -1 PROVE x % w = x + w
  OBVIOUS
<1>6. (v - TOP) % w = IF v >= TOP THEN v - TOP ELSE v - TOP + w
  <2>1. CASE v >= TOP
    BY <1>2, <1>3, <2>1
  <2>2. CASE v < TOP
    BY <1>2, <1>5, <2>2
  <2> QED
    BY <1>2, <2>1, <2>2
<1>7. (TOP + n) % w = IF TOP + n < w THEN TOP + n ELSE TOP + n - w
  <2>1. CASE TOP + n < w
    BY <1>2, <1>3, <2>1
  <2>2. CASE TOP + n >= w
    BY <1>2, <1>4, <2>2
  <2> QED
    BY <1>2, <2>1, <2>2
<1> QED
  BY <1>1, <1>2, <1>6, <1>7

(* One more iteration of a loop. *)
LEMMA OneMore ==
    ASSUME NEW u \in Virtuals, NEW n \in 0 .. GIGABYTES_4 - 1
    PROVE  /\ MapOf(u, 0, 0, 0) = None
           /\ n % V_PAGES = n /\ (HH + n) % V_PAGES = HH + n
           /\ MapOf(u, n + 1, 0, 0) = IF u = n THEN n ELSE MapOf(u, n, 0, 0)
           /\ MapOf(u, GIGABYTES_4, n + 1, 0) =
                 IF u = HH + n THEN n ELSE MapOf(u, GIGABYTES_4, n, 0)
           /\ MapOf(u, GIGABYTES_4, GIGABYTES_4, n + 1) =
                 IF u = (TOP + n) % V_PAGES THEN physical_base + n
                 ELSE MapOf(u, GIGABYTES_4, GIGABYTES_4, n)
<1>1. GIGABYTES_4 \in Nat /\ HH \in Nat /\ V_PAGES \in Nat /\ GIGABYTES_4 <= HH /\ HH + GIGABYTES_4 <= V_PAGES
  BY VmmAssumption, RangesAssumption, VirtualsWrap
<1>2. n \in 0 .. V_PAGES - 1 /\ u \in Nat
  BY <1>1 DEF Virtuals
<1>3. PICK k \in Nat : k = (u - TOP) % V_PAGES
  BY <1>2, KernelPage
<1>4. k = n <=> u = (TOP + n) % V_PAGES
  BY <1>2, <1>3, KernelPage
<1>5. \A n1, n2, n3 : MapOf(u, n1, n2, n3) =
         IF k < n3 THEN physical_base + k
         ELSE IF u < n1 THEN u
         ELSE IF u - HH \in 0 .. n2 - 1 THEN u - HH
         ELSE None
  BY <1>3 DEF MapOf
<1>6. MapOf(u, 0, 0, 0) = None
  BY <1>1, <1>2, <1>5
<1>7. n % V_PAGES = n /\ (HH + n) % V_PAGES = HH + n
  BY <1>1, <1>2, VirtualsWrap
<1>8. MapOf(u, n + 1, 0, 0) = IF u = n THEN n ELSE MapOf(u, n, 0, 0)
  BY <1>1, <1>2, <1>5
<1>9. MapOf(u, GIGABYTES_4, n + 1, 0) = IF u = HH + n THEN n ELSE MapOf(u, GIGABYTES_4, n, 0)
  BY <1>1, <1>2, <1>5
<1>10. MapOf(u, GIGABYTES_4, GIGABYTES_4, n + 1) =
          IF u = (TOP + n) % V_PAGES THEN physical_base + n ELSE MapOf(u, GIGABYTES_4, GIGABYTES_4, n)
  <2>1. k < n + 1 <=> k < n \/ k = n
    BY <1>2
  <2> QED
    BY <1>4, <1>5, <2>1
<1> QED
  BY <1>6, <1>7, <1>8, <1>9, <1>10

(* Nothing is mapped at first, ... *)
LEMMA MappedInit == Init => Mapped
BY DEF Init, Mapped

(* ... each iteration maps its page over what the ones before it did, ... *)
LEMMA MappedNext ==
    ASSUME IInv, Mapped, [Next]_vars PROVE Mapped'
<1>0. /\ GIGABYTES_4 \in Nat /\ i \in 0 .. GIGABYTES_4
      /\ \A v \in Virtuals : v \in Nat
  BY VmmAssumption DEF IInv, Types, Virtuals
<1>1. CASE UNCHANGED vars
  BY <1>1 DEF Mapped, N1, N2, N3, vars, store, Trusted
<1>2. CASE vmm_new_page_dir
  <2>1. CASE free = {}
    BY <1>2, <2>1 DEF vmm_new_page_dir, Mapped, Trusted
  <2>2. CASE free # {}
    <3>1. pc' = "identity" /\ i' = 0 /\ \A v \in Nat : Tr(mem', root', v) = None
      <4>1. pc = "boot" /\ i' = i
        BY <1>2 DEF vmm_new_page_dir, Running
      <4> QED
        BY <1>2, <2>2, <4>1, NewRoot DEF IInv, Phases
    <3>2. \A v \in Virtuals : MapOf(v, 0, 0, 0) = None
      <4>1. 0 \in 0 .. GIGABYTES_4 - 1
        BY VmmAssumption
      <4> QED
        BY <4>1, OneMore
    <3>3. N1' = 0 /\ N2' = 0 /\ N3' = 0
      BY <3>1 DEF N1, N2, N3
    <3> QED
      BY <1>0, <3>1, <3>2, <3>3 DEF Mapped
  <2> QED
    BY <2>1, <2>2
<1>3. ASSUME NEW u, NEW p, Changes(u, p), Trusted, pc # "boot", pc # "up", UNCHANGED <<pc, root>>,
             \A v \in Virtuals : MapOf(v, N1', N2', N3') = IF v = u THEN p ELSE MapOf(v, N1, N2, N3)
      PROVE  Mapped'
  <2> SUFFICES ASSUME Trusted', NEW v \in Virtuals
               PROVE  Tr(mem', root', v) = MapOf(v, N1', N2', N3')
    BY <1>3 DEF Mapped
  <2>1. Tr(mem, root, v) = MapOf(v, N1, N2, N3)
    BY <1>3 DEF Mapped
  <2>2. CASE v = u
    <3>1. Tr(mem', root, v) = p
      BY <1>3, <2>2 DEF Changes
    <3> QED
      BY <1>3, <2>2, <3>1
  <2>3. CASE v # u
    <3>1. Tr(mem', root, v) = Tr(mem, root, v)
      BY <1>3, <2>3 DEF Changes
    <3> QED
      BY <1>3, <2>1, <2>3, <3>1
  <2> QED
    BY <2>2, <2>3
<1>4. ASSUME UNCHANGED <<mem, root, lost, dirty>>, pc # "boot", pc # "up", N1' = N1, N2' = N2, N3' = N3
      PROVE  Mapped'
  BY <1>4 DEF Mapped, Trusted
<1>5. CASE IdentityMap
  <2>1. CASE i < GIGABYTES_4
    <3>1. Trusted /\ pc = "identity" /\ Changes(i % V_PAGES, i) /\ i' = i + 1 /\ UNCHANGED <<pc, root>>
      BY <1>5, <2>1, LoopTargets, LoopChanges DEF IdentityMap
    <3>2. N1 = i /\ N1' = i + 1 /\ N2 = 0 /\ N2' = 0 /\ N3 = 0 /\ N3' = 0
      BY <3>1 DEF N1, N2, N3
    <3>3. i \in 0 .. GIGABYTES_4 - 1
      BY <1>0, <2>1
    <3>4. \A v \in Virtuals : /\ i % V_PAGES = i
                              /\ MapOf(v, i + 1, 0, 0) = IF v = i THEN i ELSE MapOf(v, i, 0, 0)
      BY <3>3, OneMore
    <3>5. \A v \in Virtuals : MapOf(v, N1', N2', N3') = IF v = i % V_PAGES THEN i ELSE MapOf(v, N1, N2, N3)
      BY <3>2, <3>4
    <3> QED
      BY <1>3, <3>1, <3>5
  <2>2. CASE ~ (i < GIGABYTES_4)
    <3>1. pc = "identity" /\ pc' = "direct" /\ i' = 0 /\ UNCHANGED <<mem, root, lost, dirty>>
      BY <1>5, <2>2 DEF IdentityMap, Loop, Running, store
    <3>2. N1' = N1 /\ N2' = N2 /\ N3' = N3
      BY <1>0, <2>2, <3>1 DEF N1, N2, N3
    <3> QED
      BY <1>4, <3>1, <3>2
  <2> QED
    BY <2>1, <2>2
<1>6. CASE DirectMap
  <2>1. CASE i < GIGABYTES_4
    <3>1. Trusted /\ pc = "direct" /\ Changes((HH + i) % V_PAGES, i) /\ i' = i + 1 /\ UNCHANGED <<pc, root>>
      BY <1>6, <2>1, LoopTargets, LoopChanges DEF DirectMap
    <3>2. N1 = GIGABYTES_4 /\ N1' = GIGABYTES_4 /\ N2 = i /\ N2' = i + 1 /\ N3 = 0 /\ N3' = 0
      BY <3>1 DEF N1, N2, N3
    <3>3. i \in 0 .. GIGABYTES_4 - 1
      BY <1>0, <2>1
    <3>4. \A v \in Virtuals : /\ (HH + i) % V_PAGES = HH + i
                              /\ MapOf(v, GIGABYTES_4, i + 1, 0) =
                                    IF v = HH + i THEN i ELSE MapOf(v, GIGABYTES_4, i, 0)
      BY <3>3, OneMore
    <3>5. \A v \in Virtuals :
             MapOf(v, N1', N2', N3') = IF v = (HH + i) % V_PAGES THEN i ELSE MapOf(v, N1, N2, N3)
      BY <3>2, <3>4
    <3> QED
      BY <1>3, <3>1, <3>5
  <2>2. CASE ~ (i < GIGABYTES_4)
    <3>1. pc = "direct" /\ pc' = "kernel" /\ i' = 0 /\ UNCHANGED <<mem, root, lost, dirty>>
      BY <1>6, <2>2 DEF DirectMap, Loop, Running, store
    <3>2. N1' = N1 /\ N2' = N2 /\ N3' = N3
      BY <1>0, <2>2, <3>1 DEF N1, N2, N3
    <3> QED
      BY <1>4, <3>1, <3>2
  <2> QED
    BY <2>1, <2>2
<1>7. CASE MapKernel
  <2>1. CASE i < GIGABYTES_4
    <3>1. Trusted /\ pc = "kernel" /\ Changes((TOP + i) % V_PAGES, physical_base + i) /\ i' = i + 1
          /\ UNCHANGED <<pc, root>>
      BY <1>7, <2>1, LoopTargets, LoopChanges DEF MapKernel
    <3>2. /\ N1 = GIGABYTES_4 /\ N1' = GIGABYTES_4 /\ N2 = GIGABYTES_4 /\ N2' = GIGABYTES_4
          /\ N3 = i /\ N3' = i + 1
      BY <3>1 DEF N1, N2, N3
    <3>3. i \in 0 .. GIGABYTES_4 - 1
      BY <1>0, <2>1
    <3>4. \A v \in Virtuals : MapOf(v, GIGABYTES_4, GIGABYTES_4, i + 1) =
             IF v = (TOP + i) % V_PAGES THEN physical_base + i ELSE MapOf(v, GIGABYTES_4, GIGABYTES_4, i)
      BY <3>3, OneMore
    <3>5. \A v \in Virtuals :
             MapOf(v, N1', N2', N3') =
                IF v = (TOP + i) % V_PAGES THEN physical_base + i ELSE MapOf(v, N1, N2, N3)
      BY <3>2, <3>4
    <3> QED
      BY <1>3, <3>1, <3>5
  <2>2. CASE ~ (i < GIGABYTES_4)
    <3>1. pc = "kernel" /\ pc' = "activate" /\ i' = 0 /\ UNCHANGED <<mem, root, lost, dirty>>
      BY <1>7, <2>2 DEF MapKernel, Loop, Running, store
    <3>2. N1' = N1 /\ N2' = N2 /\ N3' = N3
      BY <1>0, <2>2, <3>1 DEF N1, N2, N3
    <3> QED
      BY <1>4, <3>1, <3>2
  <2> QED
    BY <2>1, <2>2
<1>8. CASE vmm_activate_page_directory
  <2>1. pc = "activate" /\ pc' = "up" /\ UNCHANGED <<mem, root, lost, dirty>>
    BY <1>8 DEF vmm_activate_page_directory, Running, store
  <2>2. N1' = N1 /\ N2' = N2 /\ N3' = N3
    BY <2>1 DEF N1, N2, N3
  <2> QED
    BY <1>4, <2>1, <2>2
<1>10. ASSUME pc = "up", UNCHANGED <<pc, root>>, NEW u \in Requests, NEW new, Changes(u, new), Trusted
       PROVE  Mapped'
  <2> SUFFICES ASSUME Trusted', NEW v \in Virtuals, v \notin Requests
               PROVE  Tr(mem', root', v) = MapOf(v, N1', N2', N3')
    BY <1>10 DEF Mapped
  <2>1. N1' = N1 /\ N2' = N2 /\ N3' = N3
    BY <1>10 DEF N1, N2, N3
  <2>2. Tr(mem, root, v) = MapOf(v, N1, N2, N3)
    BY <1>10 DEF Mapped
  <2>3. Tr(mem', root, v) = Tr(mem, root, v)
    BY <1>10 DEF Changes
  <2> QED
    BY <1>10, <2>1, <2>2, <2>3
<1>11. ASSUME pc = "up", UNCHANGED <<pc, root, mem, lost, dirty>> PROVE Mapped'
  BY <1>11 DEF Mapped, N1, N2, N3, Trusted
<1>12. ASSUME NEW v \in Requests, NEW p \in Targets, MapRequest(v, p) PROVE Mapped'
  <2>1. pc = "up" /\ Trusted /\ UNCHANGED <<pc, root>>
    BY <1>12 DEF MapRequest, Running, Trusted
  <2> QED
    BY <1>10, <1>12, <2>1, RequestChanges
<1>13. ASSUME NEW v \in Requests, UnmapRequest(v) PROVE Mapped'
  <2>1. pc = "up" /\ Trusted /\ UNCHANGED <<pc, root>>
    BY <1>13 DEF UnmapRequest, Running, Trusted
  <2> QED
    BY <1>10, <1>13, <2>1, RequestChanges
<1>14. ASSUME NEW v \in Requests, NEW n \in 1 .. 2, mmap(v, n) PROVE Mapped'
  <2>1. pc = "up" /\ Trusted /\ UNCHANGED <<pc, root>>
    BY <1>14 DEF mmap, Running, Trusted
  <2> QED
    BY <1>10, <1>14, <2>1, RequestChanges
<1>15. ASSUME NEW v \in Requests, TlbFill(v) PROVE Mapped'
  BY <1>11, <1>15 DEF TlbFill, Running, store
<1>16. CASE Halted
  BY <1>1, <1>16 DEF Halted
<1> QED
  BY <1>1, <1>2, <1>5, <1>6, <1>7, <1>8, <1>12, <1>13, <1>14, <1>15, <1>16 DEF Next, vmm_init

(* ... and so the maps are always those of the iterations done. *)
LEMMA MappedAlways == Spec => []Mapped
BY MappedInit, MappedNext, Invariance, PTL DEF Spec

(* vmm_init leaves every page mapped by the last of its three loops that   *)
(* reaches it, the loop over the kernel coming round to page 0, and no     *)
(* other page.                                                             *)
THEOREM InitMaps == Spec => []InitMapsExact
<1>1. IInv /\ Mapped => InitMapsExact
  <2> SUFFICES ASSUME IInv, Mapped, pc = "activate", Trusted, NEW v \in Watched
               PROVE  Translate(v) = Expected(v)
    BY DEF InitMapsExact
  <2>1. v \in Virtuals
    BY RangesAssumption DEF Virtuals
  <2>2. Tr(mem, root, v) = MapOf(v, N1, N2, N3)
    BY <2>1 DEF Mapped
  <2>3. N1 = GIGABYTES_4 /\ N2 = GIGABYTES_4 /\ N3 = GIGABYTES_4
    BY DEF N1, N2, N3
  <2>4. MapOf(v, GIGABYTES_4, GIGABYTES_4, GIGABYTES_4) = Expected(v)
    BY DEF MapOf, Expected
  <2>5. root # None
    BY DEF IInv, Phases
  <2> QED
    BY <2>2, <2>3, <2>4, <2>5, TranslateIs
<1> QED
  BY <1>1, Invariance, MappedAlways, PTL

-----------------------------------------------------------------------------
(* The tables of a level are what the entries of the level above lead to,  *)
(* one entry for each.                                                     *)
OfLevel(dep, k) == {f \in DOMAIN dep : dep[f] = k}

(* The tables of one level are as many as the present entries that lead to *)
(* them, and are what these lead to.                                       *)
LEMMA OneEntryEach ==
    ASSUME NEW dep, Tree(mem, free, root, dep), NEW k \in 2 .. 4,
           NEW P, P = Pointers(OfLevel(dep, k))
    PROVE  /\ {mem[e[1]][e[2]].page : e \in P} = OfLevel(dep, k - 1)
           /\ IsFiniteSet(OfLevel(dep, k - 1))
           /\ Cardinality(P) = Cardinality(OfLevel(dep, k - 1))
<1>1. \A f \in OfLevel(dep, k) : f \in Inner(dep) /\ f \in DOMAIN dep /\ dep[f] = k
  BY DEF OfLevel, Inner
<1>2. \A e : e \in P <=> e \in OfLevel(dep, k) \X Indices /\ Present(mem, e[1], e[2])
  BY Zenon DEF Pointers, Present
<1>3. \A e \in P : e[1] \in OfLevel(dep, k) /\ e[2] \in Indices /\ Present(mem, e[1], e[2])
                   /\ e = <<e[1], e[2]>>
  BY <1>2
<1>4. \A e \in P : To(mem, e[1], e[2]) \in OfLevel(dep, k - 1)
  <2> TAKE e \in P
  <2>1. e[1] \in Inner(dep) /\ e[2] \in Indices /\ Present(mem, e[1], e[2]) /\ dep[e[1]] = k
    BY <1>1, <1>3
  <2>2. To(mem, e[1], e[2]) \in DOMAIN dep /\ dep[To(mem, e[1], e[2])] = k - 1
    BY <2>1 DEF Tree, LeadsDown
  <2> QED
    BY <2>2 DEF OfLevel
<1>5. ASSUME NEW p \in OfLevel(dep, k - 1)
      PROVE  \E e \in P : To(mem, e[1], e[2]) = p
  <2>1. p \in DOMAIN dep /\ dep[p] = k - 1
    BY DEF OfLevel
  <2>2. p # root
    BY <2>1 DEF Tree, Levels
  <2>3. PICK f \in Inner(dep), x \in Indices : Present(mem, f, x) /\ To(mem, f, x) = p
    BY <2>1, <2>2 DEF Tree, Hung
  <2>4. f \in DOMAIN dep /\ dep[f] \in 1 .. 4
    BY DEF Inner, Tree, Levels
  <2>5. dep[p] = dep[f] - 1
    BY <2>3 DEF Tree, LeadsDown
  <2>6. f \in OfLevel(dep, k)
    BY <2>1, <2>4, <2>5 DEF OfLevel
  <2>7. PICK e : e = <<f, x>>
    OBVIOUS
  <2>8. e \in OfLevel(dep, k) \X Indices /\ e[1] = f /\ e[2] = x
    BY <2>6, <2>7
  <2>9. e \in P
    BY <1>2, <2>3, <2>8
  <2> QED
    BY <2>3, <2>8, <2>9
<1>6. {mem[e[1]][e[2]].page : e \in P} = OfLevel(dep, k - 1)
  <2>1. \A e : mem[e[1]][e[2]].page = To(mem, e[1], e[2])
    BY DEF To
  <2> QED
    BY <1>4, <1>5, <2>1
<1>7. PICK g : g = [e \in P |-> To(mem, e[1], e[2])]
  OBVIOUS
<1>8. g \in [P -> OfLevel(dep, k - 1)] /\ \A e \in P : g[e] = To(mem, e[1], e[2])
  BY <1>4, <1>7
<1>9. \A a, b \in P : g[a] = g[b] => a = b
  <2> TAKE a, b \in P
  <2> HAVE g[a] = g[b]
  <2>1. To(mem, a[1], a[2]) = To(mem, b[1], b[2])
    BY <1>8
  <2>2. /\ a[1] \in Inner(dep) /\ a[2] \in Indices /\ Present(mem, a[1], a[2])
        /\ b[1] \in Inner(dep) /\ b[2] \in Indices /\ Present(mem, b[1], b[2])
    BY <1>1, <1>3
  <2>3. a[1] = b[1] /\ a[2] = b[2]
    BY <2>1, <2>2 DEF Tree, Unshared
  <2> QED
    BY <1>3, <2>3, Zenon
<1>10. g \in Injection(P, OfLevel(dep, k - 1))
  BY <1>8, <1>9 DEF Injection, IsInjective
<1>11. g \in Surjection(P, OfLevel(dep, k - 1))
  <2>1. \A p \in OfLevel(dep, k - 1) : \E e \in P : g[e] = p
    BY <1>5, <1>8
  <2> QED
    BY <1>8, <2>1 DEF Surjection
<1>12. IsFiniteSet(OfLevel(dep, k - 1))
  <2>1. OfLevel(dep, k - 1) \in SUBSET Frames
    BY DEF OfLevel, Tree, Levels
  <2> QED
    BY <2>1, MemoryAssumption, FS_Subset
<1>13. Cardinality(P) = Cardinality(OfLevel(dep, k - 1))
  BY <1>10, <1>11, <1>12, FS_Injection
<1> QED
  BY <1>6, <1>12, <1>13

(* Sets that have no element in common are counted one after the other. *)
LEMMA CountDisjoint ==
    ASSUME NEW S, NEW T, IsFiniteSet(S), IsFiniteSet(T), S \cap T = {}
    PROVE  /\ IsFiniteSet(S \cup T)
           /\ Cardinality(S) \in Nat /\ Cardinality(T) \in Nat
           /\ Cardinality(S \cup T) = Cardinality(S) + Cardinality(T)
<1>1. Cardinality(S) \in Nat /\ Cardinality(T) \in Nat
  BY FS_CardinalityType
<1>2. Cardinality(S \cap T) = 0
  BY FS_EmptySet
<1>3. /\ IsFiniteSet(S \cup T)
      /\ Cardinality(S \cup T) = Cardinality(S) + Cardinality(T) - Cardinality(S \cap T)
  BY FS_Union
<1> QED
  BY <1>1, <1>2, <1>3

(* The tables are a tree while vmm_init builds them: each hangs in one     *)
(* entry of one other, and no frame that was taken is missing from it.     *)
LEMMA TreeWhileBuilding ==
    ASSUME IInv PROVE TablesFormTree
<1> SUFFICES ASSUME pc \in {"identity", "direct", "kernel", "activate"}, Trusted
             PROVE  LET down(ptrs) == {mem[e[1]][e[2]].page : e \in ptrs}
                        p4 == Pointers({root})
                        p3 == Pointers(down(p4))
                        p2 == Pointers(down(p3))
                    IN  /\ tables = {root} \cup down(p4) \cup down(p3) \cup down(p2)
                        /\ Cardinality(tables) = 1 + Cardinality(p4) + Cardinality(p3) + Cardinality(p2)
  BY DEF TablesFormTree
<1> DEFINE down(ptrs) == {mem[e[1]][e[2]].page : e \in ptrs}
           p4 == Pointers({root})
           p3 == Pointers(down(p4))
           p2 == Pointers(down(p3))
<1>1. PICK dep : Tree(mem, free, root, dep) /\ tables = DOMAIN dep
  BY DEF IInv, Grows, Grove
<1>2. PICK l1, l2, l3 : l1 = OfLevel(dep, 1) /\ l2 = OfLevel(dep, 2) /\ l3 = OfLevel(dep, 3)
  OBVIOUS
<1>3. OfLevel(dep, 4) = {root}
  BY <1>1 DEF OfLevel, Tree, Levels
<1>4. down(p4) = l3 /\ IsFiniteSet(l3) /\ Cardinality(p4) = Cardinality(l3)
  <2>1. 4 \in 2 .. 4 /\ 4 - 1 = 3 /\ p4 = Pointers(OfLevel(dep, 4))
    BY <1>3
  <2> HIDE DEF p4
  <2> QED
    BY <1>1, <1>2, <2>1, OneEntryEach
<1>5. down(p3) = l2 /\ IsFiniteSet(l2) /\ Cardinality(p3) = Cardinality(l2)
  <2>1. p3 = Pointers(OfLevel(dep, 3))
    BY <1>2, <1>4, Zenon
  <2>2. 3 \in 2 .. 4 /\ 3 - 1 = 2
    OBVIOUS
  <2> HIDE DEF p3
  <2> QED
    BY <1>1, <1>2, <2>1, <2>2, OneEntryEach
<1>6. down(p2) = l1 /\ IsFiniteSet(l1) /\ Cardinality(p2) = Cardinality(l1)
  <2>1. p2 = Pointers(OfLevel(dep, 2))
    BY <1>2, <1>5, Zenon
  <2>2. 2 \in 2 .. 4 /\ 2 - 1 = 1
    OBVIOUS
  <2> HIDE DEF p2
  <2> QED
    BY <1>1, <1>2, <2>1, <2>2, OneEntryEach
<1>7. /\ tables = {root} \cup l3 \cup l2 \cup l1
      /\ {root} \cap l3 = {} /\ ({root} \cup l3) \cap l2 = {} /\ ({root} \cup l3 \cup l2) \cap l1 = {}
  <2>1. \A f \in DOMAIN dep : dep[f] \in 1 .. 4 /\ (dep[f] = 4 <=> f = root)
    BY <1>1 DEF Tree, Levels
  <2>2. root \in DOMAIN dep
    BY <1>1 DEF Tree, Levels
  <2> QED
    BY <1>1, <1>2, <2>1, <2>2 DEF OfLevel
<1>8. Cardinality(tables) = 1 + Cardinality(l3) + Cardinality(l2) + Cardinality(l1)
  <2>1. IsFiniteSet({root}) /\ Cardinality({root}) = 1
    BY FS_Singleton
  <2>2. IsFiniteSet(l3) /\ IsFiniteSet(l2) /\ IsFiniteSet(l1)
    BY <1>4, <1>5, <1>6
  <2>3. PICK a, b : a = {root} \cup l3 /\ b = a \cup l2
    OBVIOUS
  <2>4. IsFiniteSet(a) /\ Cardinality(a) = 1 + Cardinality(l3)
    BY <1>7, <2>1, <2>2, <2>3, CountDisjoint
  <2>5. IsFiniteSet(b) /\ Cardinality(b) = 1 + Cardinality(l3) + Cardinality(l2)
    BY <1>7, <2>2, <2>3, <2>4, CountDisjoint
  <2>6. b \cap l1 = {} /\ tables = b \cup l1
    BY <1>7, <2>3
  <2> QED
    BY <2>2, <2>5, <2>6, CountDisjoint
<1> QED
  BY <1>4, <1>5, <1>6, <1>7, <1>8, Zenon

-----------------------------------------------------------------------------
(* The root is the lowest of the frames that were free at first.           *)
RootIsFirst ==
    /\ pc = "boot" => free \in Pools
    /\ pc # "boot" => \E pool \in Pools : pool # {} /\ root = Min(pool)

(* The table that the code looks for at p is there after vmm_init, unless  *)
(* the loop over the kernel has replaced its place in the identity map or  *)
(* it has none.                                                            *)
LEMMA TablesInPlace ==
    ASSUME IInv, Mapped, RootIsFirst, Trusted, NEW p \in Frames,
           (TOP + GIGABYTES_4) - V_PAGES <= p, p < GIGABYTES_4
    PROVE  InPlace(p)
<1> SUFFICES ASSUME active
             PROVE  Translate(IF p = root THEN (HH + p) % V_PAGES ELSE p) = p
  BY DEF InPlace
<1>1. pc = "up" /\ root # None
  BY DEF IInv, Phases
<1>2. /\ p \in Nat /\ HH \in Nat /\ TOP \in Nat /\ GIGABYTES_4 \in Nat \ {0}
      /\ GIGABYTES_4 <= HH /\ HH + GIGABYTES_4 <= V_PAGES /\ TOP < V_PAGES
      /\ HH + GIGABYTES_4 <= TOP
      /\ \A v \in Requests : GIGABYTES_4 <= v
  BY VmmAssumption, RangesAssumption, RequestsAssumption
<1>3. V_PAGES \in Nat
  BY VirtualsWrap DEF Virtuals
<1>4. N1 = GIGABYTES_4 /\ N2 = GIGABYTES_4 /\ N3 = GIGABYTES_4
  BY <1>1 DEF N1, N2, N3
<1>5. \A v \in Virtuals : v \notin Requests =>
         Translate(v) = MapOf(v, GIGABYTES_4, GIGABYTES_4, GIGABYTES_4)
  BY <1>1, <1>4, TranslateIs DEF Mapped
<1>6. \A v \in Virtuals : v < TOP /\ (TOP + GIGABYTES_4) - V_PAGES <= v =>
         ~ ((v - TOP) % V_PAGES < GIGABYTES_4)
  <2> SUFFICES ASSUME NEW v \in Virtuals, v < TOP, (TOP + GIGABYTES_4) - V_PAGES <= v,
                      (v - TOP) % V_PAGES < GIGABYTES_4
               PROVE  FALSE
    OBVIOUS
  <2>0. PICK n \in 0 .. V_PAGES - 1 : (v - TOP) % V_PAGES = n
    <3>1. 0 \in 0 .. V_PAGES - 1
      BY <1>2, <1>3
    <3> QED
      BY <3>1, KernelPage
  <2>5. n < GIGABYTES_4
    BY <2>0
  <2>1. n \in 0 .. V_PAGES - 1 /\ v \in Nat
    BY <1>2, <1>3 DEF Virtuals
  <2>2. v = (TOP + n) % V_PAGES
    BY <2>0, KernelPage
  <2>3. PICK w \in Nat : w = TOP + n
    BY <1>2
  <2>4. /\ w < V_PAGES => v = w
        /\ V_PAGES <= w /\ w < 2 * V_PAGES => v = w - V_PAGES
    BY <2>2, <2>3, VirtualsWrap
  <2> QED
    BY <1>2, <1>3, <2>1, <2>3, <2>4, <2>5
<1>7. CASE p # root
  <2>1. p \in Virtuals /\ p \notin Requests /\ p < TOP
    BY <1>2, <1>3 DEF Virtuals
  <2>2. ~ ((p - TOP) % V_PAGES < GIGABYTES_4)
    BY <1>6, <2>1
  <2>3. MapOf(p, GIGABYTES_4, GIGABYTES_4, GIGABYTES_4) = p
    BY <2>2 DEF MapOf
  <2> QED
    BY <1>5, <1>7, <2>1, <2>3
<1>8. CASE p = root
  <2>1. HH + p \in Virtuals /\ (HH + p) % V_PAGES = HH + p /\ HH + p < TOP
    BY <1>2, <1>3, VirtualsWrap, SMTT(30) DEF Virtuals
  <2>2. HH + p \notin Requests
    BY <1>1, <1>8, RequestsAssumption DEF RootIsFirst
  <2>3. ~ ((HH + p - TOP) % V_PAGES < GIGABYTES_4)
    BY <1>2, <1>3, <1>6, <2>1
  <2>4. MapOf(HH + p, GIGABYTES_4, GIGABYTES_4, GIGABYTES_4) = p
    BY <1>2, <2>3 DEF MapOf
  <2> QED
    BY <1>5, <1>8, <2>1, <2>2, <2>4
<1> QED
  BY <1>7, <1>8

(* The tables are lost only when vmm.c has no frame for one, or when one   *)
(* lies where the loop over the kernel has replaced the identity map.      *)
LEMMA LossInvariant ==
    ASSUME IInv, Mapped, RootIsFirst, LostOnlyIf, [Next]_vars
    PROVE  RootIsFirst' /\ LostOnlyIf'
<1>1. CASE Alone
  <2>1. UNCHANGED <<free, tables, lost, root>>
    BY <1>1 DEF Alone
  <2>2. pc' = "boot" <=> pc = "boot"
    BY <2>1, NextInv DEF IInv, Phases
  <2> QED
    BY <2>1, <2>2 DEF RootIsFirst, LostOnlyIf
<1>2. CASE vmm_new_page_dir
  <2>1. pc = "boot" /\ ~ lost /\ free \in Pools
    BY <1>2 DEF vmm_new_page_dir, Running, RootIsFirst
  <2>2. CASE free = {}
    BY <1>2, <2>1, <2>2 DEF vmm_new_page_dir, RootIsFirst, LostOnlyIf
  <2>3. CASE free # {}
    BY <1>2, <2>1, <2>3 DEF vmm_new_page_dir, RootIsFirst, LostOnlyIf
  <2> QED
    BY <2>2, <2>3
<1>3. ASSUME NEW v \in Virtuals, NEW new, OneChange(v, new)
      PROVE  RootIsFirst' /\ LostOnlyIf'
  <2>1. Trusted /\ pc # "boot" /\ UNCHANGED <<root, pc>>
    BY <1>3 DEF OneChange
  <2>2. lost' => free' = {} \/ \E p \in tables' : ~ InPlace(p)
    BY <1>3 DEF OneChange, Changes
  <2>3. tables' \subseteq Frames
    BY <1>3 DEF OneChange, Changes
  <2>4. RootIsFirst'
    BY <2>1 DEF RootIsFirst
  <2>5. \A p \in tables' : ~ InPlace(p) => p < (TOP + GIGABYTES_4) - V_PAGES \/ p >= GIGABYTES_4
    <3> SUFFICES ASSUME NEW p \in tables', ~ InPlace(p),
                        ~ (p < (TOP + GIGABYTES_4) - V_PAGES), ~ (p >= GIGABYTES_4)
                 PROVE  FALSE
      OBVIOUS
    <3>1. p \in Frames /\ p \in Nat
      BY <2>3, VmmAssumption
    <3>2. V_PAGES \in Nat /\ TOP \in Nat /\ GIGABYTES_4 \in Nat
      BY VmmAssumption, VirtualsWrap
    <3>3. (TOP + GIGABYTES_4) - V_PAGES <= p /\ p < GIGABYTES_4
      BY <3>1, <3>2
    <3> QED
      BY <2>1, <3>1, <3>3, TablesInPlace
  <2> QED
    BY <2>2, <2>4, <2>5 DEF LostOnlyIf
<1> QED
  BY <1>1, <1>2, <1>3, StepKinds

(* vmm.c's tables: of their types, a tree while vmm_init builds them, with *)
(* no page lost or shared, and afterwards lost only for want of memory or  *)
(* to the loop over the kernel.                                            *)
THEOREM TablesAreSound == Spec => []TablesSound
<1>1. Init => RootIsFirst /\ LostOnlyIf
  BY DEF Init, RootIsFirst, LostOnlyIf
<1>2. IInv /\ Mapped /\ RootIsFirst /\ LostOnlyIf /\ [Next]_vars => RootIsFirst' /\ LostOnlyIf'
  BY LossInvariant
<1>3. Spec => [](RootIsFirst /\ LostOnlyIf)
  BY <1>1, <1>2, Invariance, MappedAlways, PTL DEF Spec
<1>4. IInv => TablesFormTree
  BY TreeWhileBuilding
<1>5. TypeOK /\ TablesFormTree /\ LostOnlyIf => TablesSound
  BY DEF TablesSound
<1> QED
  BY <1>3, <1>4, <1>5, Invariance, TypeCorrect, PTL
=============================================================================
