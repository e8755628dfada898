--------------------------- MODULE TerminalProofs ---------------------------
(* The terminal: the binary search for characters that take no column is   *)
(* exact, its memory is accounted for to the byte, what the parser makes   *)
(* of its input is exact, its back end implements the screen that the      *)
(* front end counts on, control sequences change exactly the cells that    *)
(* they name, and the text has the colours that were asked for: whatever   *)
(* the sizes of the screen, of the pool and of the tables, and however     *)
(* long the input.                                                         *)
EXTENDS Width, FbInit, Parser, FbTerm, Sgr, Term, BitmapProofs, FiniteSetTheorems, SequenceTheorems, TLAPS

Holds(i) == ucs \in table[i].first .. table[i].last

(* What the search keeps true: the part of the table that is left holds    *)
(* every interval with the character; and how each value of pc came about. *)
IInv ==
    /\ table \in Tables /\ ucs \in CodePoints /\ min \in Int /\ max \in Int /\ glyph \in BOOLEAN
    /\ 1 <= min /\ max <= Len(table) /\ min <= max + 1
    /\ pc \in {"cp437", "width", "search", "found", "missing", "shown"}
    /\ pc \in {"cp437", "width"} => min = 1 /\ max = Len(table)
    /\ pc # "cp437" /\ pc # "shown" => glyph = FALSE
    /\ pc \in {"search", "found", "missing"} => ucs # 0 /\ ucs \notin Controls
    /\ pc = "search" /\ Sorted => \A i \in 1 .. Len(table) : Holds(i) => min <= i /\ i <= max
    /\ pc = "found" => Inside
    /\ pc = "missing" /\ Sorted => ~Inside
    /\ ColumnsExact

(* The tables are sequences of intervals of numbers. *)
LEMMA TableType ==
    ASSUME NEW t \in Tables
    PROVE  /\ Len(t) \in Nat /\ Len(t) >= 1
           /\ \A i \in 1 .. Len(t) : t[i].first \in Nat /\ t[i].last \in Nat
<1>1. t # <<>> /\ t \in Seq([first : CodePoints, last : CodePoints]) BY WidthNumbers
<1>2. Len(t) \in Nat /\ Len(t) >= 1 BY <1>1
<1>3. ASSUME NEW i \in 1 .. Len(t) PROVE t[i].first \in Nat /\ t[i].last \in Nat
  <2> DEFINE R == [first : CodePoints, last : CodePoints]
  <2>1. t[i] \in R
    <3>1. t \in Seq(R) BY <1>1
    <3> HIDE DEF R
    <3> QED BY <3>1, ElementOfSeq
  <2>2. CodePoints \subseteq Nat BY WidthNumbers
  <2> QED BY <2>1, <2>2
<1> QED BY <1>2, <1>3

(* The search begins in a state of the invariant, ... *)
LEMMA InitIInv == Init => IInv
<1> SUFFICES ASSUME Init PROVE IInv OBVIOUS
<1>1. Len(table) \in Nat /\ Len(table) >= 1 BY TableType DEF Init
<1>2. ColumnsExact BY DEF Init, ColumnsExact
<1>3. glyph \in BOOLEAN BY DEF Init
<1>4. min \in Int /\ max \in Int /\ 1 <= min /\ max <= Len(table) /\ min <= max + 1
  BY <1>1 DEF Init
<1> QED BY <1>2, <1>3, <1>4 DEF Init, IInv

(* The first test of bisearch is right about a character below or above    *)
(* the whole of a sorted table.                                            *)
LEMMA OutsideMissing ==
    ASSUME IInv, Sorted, ucs < table[1].first \/ ucs > table[Len(table)].last
    PROVE  ~Inside
<1> DEFINE n == Len(table)
<1>1. n \in Nat /\ n >= 1 /\ \A i \in 1 .. n : table[i].first \in Nat /\ table[i].last \in Nat
  BY TableType DEF IInv
<1>2. ucs \in Nat BY WidthNumbers DEF IInv
<1>3. SUFFICES ASSUME NEW i \in 1 .. n, ucs \in table[i].first .. table[i].last PROVE FALSE
  BY DEF Inside
<1>4. 1 \in 1 .. n /\ n \in 1 .. n BY <1>1
<1>5. table[1].first <= table[i].first
  <2>1. CASE i = 1 BY <2>1, <1>1, <1>4
  <2>2. CASE i # 1
    <3>1. 1 \in 1 .. i - 1 BY <2>2, <1>1
    <3>2. table[1].last < table[i].first /\ table[1].first <= table[1].last
      BY <3>1, <1>4 DEF Sorted
    <3> QED BY <3>2, <1>1, <1>4
  <2> QED BY <2>1, <2>2
<1>6. table[i].last <= table[n].last
  <2>1. CASE i = n BY <2>1, <1>1, <1>4
  <2>2. CASE i # n
    <3>1. i \in 1 .. n - 1 BY <2>2, <1>1
    <3>2. table[i].last < table[n].first /\ table[n].first <= table[n].last
      BY <3>1, <1>4 DEF Sorted
    <3> QED BY <3>2, <1>1, <1>4
  <2> QED BY <2>1, <2>2
<1> QED BY <1>1, <1>2, <1>3, <1>4, <1>5, <1>6

(* Half of the part that is left can be dropped: an interval that holds    *)
(* the character lies on the side of the middle that is kept.              *)
LEMMA HalfDropped ==
    ASSUME IInv, Sorted, NEW mid \in 1 .. Len(table), NEW i \in 1 .. Len(table), Holds(i)
    PROVE  /\ ucs > table[mid].last => i >= mid + 1
           /\ ucs < table[mid].first => i <= mid - 1
<1>1. /\ Len(table) \in Nat
      /\ \A k \in 1 .. Len(table) : table[k].first \in Nat /\ table[k].last \in Nat
  BY TableType DEF IInv
<1>2. ucs \in Nat /\ table[i].first <= ucs /\ ucs <= table[i].last
  BY <1>1, WidthNumbers DEF IInv, Holds
<1>3. ASSUME ucs > table[mid].last PROVE i >= mid + 1
  <2>1. CASE i = mid BY <2>1, <1>1, <1>2, <1>3
  <2>2. CASE i < mid
    <3>1. i \in 1 .. mid - 1 BY <2>2, <1>1
    <3>2. table[i].last < table[mid].first /\ table[mid].first <= table[mid].last
      BY <3>1 DEF Sorted
    <3> QED BY <3>2, <1>1, <1>2, <1>3
  <2> QED BY <2>1, <2>2, <1>1
<1>4. ASSUME ucs < table[mid].first PROVE i <= mid - 1
  <2>1. CASE i = mid BY <2>1, <1>1, <1>2, <1>4
  <2>2. CASE i > mid
    <3>1. mid \in 1 .. i - 1 BY <2>2, <1>1
    <3>2. table[mid].last < table[i].first /\ table[mid].first <= table[mid].last
      BY <3>1 DEF Sorted
    <3> QED BY <3>2, <1>1, <1>2, <1>4
  <2> QED BY <2>1, <2>2, <1>1
<1> QED BY <1>3, <1>4

(* ... and each step of it keeps to the invariant. *)
LEMMA NextIInv == IInv /\ [Next]_vars => IInv'
<1> SUFFICES ASSUME IInv, [Next]_vars PROVE IInv' OBVIOUS
<1>t. /\ Len(table) \in Nat /\ Len(table) >= 1
      /\ \A k \in 1 .. Len(table) : table[k].first \in Nat /\ table[k].last \in Nat
  BY TableType DEF IInv
<1>1. CASE unicode_to_cp437
  BY <1>1, <1>t DEF unicode_to_cp437, IInv, ColumnsExact, Sorted, Inside
<1>2. CASE mk_wcwidth
  <2>1. CASE ucs = 0 BY <1>2, <2>1 DEF mk_wcwidth, IInv, ColumnsExact, Sorted, Inside
  <2>2. CASE ucs # 0 /\ ucs \in Controls
    BY <1>2, <2>2 DEF mk_wcwidth, IInv, ColumnsExact, Sorted, Inside
  <2>3. CASE ucs # 0 /\ ucs \notin Controls
    <3>1. CASE ucs < table[1].first \/ ucs > table[Len(table)].last
      <4>1. pc' = "missing" /\ UNCHANGED <<table, ucs, min, max, glyph, columns>>
        BY <1>2, <2>3, <3>1 DEF mk_wcwidth
      <4>2. Sorted => ~Inside BY <3>1, OutsideMissing
      <4>3. pc = "width" BY <1>2 DEF mk_wcwidth
      <4> QED BY <4>1, <4>2, <4>3, <2>3 DEF IInv, ColumnsExact, Sorted, Inside
    <3>2. CASE ~(ucs < table[1].first \/ ucs > table[Len(table)].last)
      <4>1. pc' = "search" /\ UNCHANGED <<table, ucs, min, max, glyph, columns>>
        BY <1>2, <2>3, <3>2 DEF mk_wcwidth
      <4>2. pc = "width" BY <1>2 DEF mk_wcwidth
      <4> QED BY <4>1, <4>2, <2>3, <1>t DEF IInv, ColumnsExact, Sorted, Inside, Holds
    <3> QED BY <3>1, <3>2
  <2> QED BY <2>1, <2>2, <2>3
<1>3. CASE bisearch
  <2> DEFINE mid == (min + max - 2) \div 2 + 1
  <2>1. CASE max < min
    <3>1. pc = "search" /\ pc' = "missing" /\ UNCHANGED <<table, ucs, min, max, glyph, columns>>
      BY <1>3, <2>1 DEF bisearch
    <3>2. ASSUME Sorted, NEW i \in 1 .. Len(table), Holds(i) PROVE FALSE
      <4>1. min <= i /\ i <= max BY <3>1, <3>2 DEF IInv
      <4> QED BY <4>1, <2>1, <1>t DEF IInv
    <3>3. Sorted => ~Inside BY <3>2 DEF Inside, Holds
    <3> QED BY <3>1, <3>3 DEF IInv, ColumnsExact, Sorted, Inside
  <2>2. CASE ~(max < min)
    <3>1. mid \in Int /\ min <= mid /\ mid <= max BY <2>2, <1>t DEF IInv
    <3>2. mid \in 1 .. Len(table) BY <3>1, <1>t DEF IInv
    <3>3. CASE ucs > table[mid].last
      <4>1. /\ pc = "search" /\ pc' = "search" /\ min' = mid + 1
            /\ UNCHANGED <<table, ucs, max, glyph, columns>>
        BY <1>3, <2>2, <3>3 DEF bisearch
      <4>2. ASSUME Sorted, NEW i \in 1 .. Len(table), Holds(i) PROVE min' <= i /\ i <= max
        <5>1. i >= mid + 1 BY <4>2, <3>2, <3>3, HalfDropped
        <5>2. i <= max BY <4>1, <4>2 DEF IInv
        <5> QED BY <5>1, <5>2, <4>1
      <4> HIDE DEF mid
      <4> QED BY <4>1, <4>2, <3>1, <1>t DEF IInv, ColumnsExact, Sorted, Inside, Holds
    <3>4. CASE ~(ucs > table[mid].last) /\ ucs < table[mid].first
      <4>1. /\ pc = "search" /\ pc' = "search" /\ max' = mid - 1
            /\ UNCHANGED <<table, ucs, min, glyph, columns>>
        BY <1>3, <2>2, <3>4 DEF bisearch
      <4>2. ASSUME Sorted, NEW i \in 1 .. Len(table), Holds(i) PROVE min <= i /\ i <= max'
        <5>1. i <= mid - 1 BY <4>2, <3>2, <3>4, HalfDropped
        <5>2. min <= i BY <4>1, <4>2 DEF IInv
        <5> QED BY <5>1, <5>2, <4>1
      <4> HIDE DEF mid
      <4> QED BY <4>1, <4>2, <3>1, <1>t DEF IInv, ColumnsExact, Sorted, Inside, Holds
    <3>5. CASE ~(ucs > table[mid].last) /\ ~(ucs < table[mid].first)
      <4>1. pc = "search" /\ pc' = "found" /\ UNCHANGED <<table, ucs, min, max, glyph, columns>>
        BY <1>3, <2>2, <3>5 DEF bisearch
      <4>2. ucs \in Nat BY WidthNumbers DEF IInv
      <4>3. ucs \in table[mid].first .. table[mid].last BY <3>2, <3>5, <1>t, <4>2
      <4>4. Inside BY <3>2, <4>3 DEF Inside
      <4> HIDE DEF mid
      <4>5. Inside' BY <4>1, <4>4 DEF Inside
      <4>6. ColumnsExact' BY <4>1 DEF ColumnsExact
      <4> QED BY <4>1, <4>5, <4>6 DEF IInv
    <3> QED BY <3>3, <3>4, <3>5
  <2> QED BY <2>1, <2>2
<1>4. CASE Replace
  <2>1. /\ pc \in {"found", "missing"} /\ pc' = "shown"
        /\ columns' = (IF pc = "found" THEN 0 ELSE IF ucs \in Wide THEN 2 ELSE 1)
        /\ UNCHANGED <<table, ucs, min, max, glyph>>
    BY <1>4 DEF Replace
  <2>2. glyph = FALSE /\ ucs # 0 /\ ucs \notin Controls BY <2>1 DEF IInv
  <2>3. Sorted => (pc = "found" <=> Inside) BY <2>1 DEF IInv
  <2>4. Sorted' = Sorted /\ Inside' = Inside BY <2>1 DEF Sorted, Inside
  <2>5. ColumnsExact' BY <2>1, <2>2, <2>3, <2>4 DEF ColumnsExact
  <2> QED BY <2>1, <2>5 DEF IInv
<1>5. CASE UNCHANGED vars BY <1>5 DEF vars, IInv, ColumnsExact, Sorted, Inside, Holds
<1> QED BY <1>1, <1>2, <1>3, <1>4, <1>5 DEF Next

(* A turn that does not end the search drops the middle of what is left.   *)
LEMMA StepShrinks == IInv /\ [Next]_vars => [Shrinks]_vars
<1> SUFFICES ASSUME IInv, Next, pc = "search", pc' = "search" PROVE max' - min' < max - min
  BY DEF Shrinks
<1>1. bisearch BY DEF Next, unicode_to_cp437, mk_wcwidth, Replace
<1>2. min \in Int /\ max \in Int BY DEF IInv
<1> DEFINE mid == (min + max - 2) \div 2 + 1
<1>3. ~(max < min) BY <1>1 DEF bisearch
<1>4. mid \in Int /\ min <= mid /\ mid <= max BY <1>2, <1>3
<1>5. (min' = mid + 1 /\ max' = max) \/ (max' = mid - 1 /\ min' = min)
  BY <1>1, <1>3 DEF bisearch
<1> HIDE DEF mid
<1> QED BY <1>2, <1>4, <1>5

(* mk_wcwidth gives every character its columns, in every sorted table of  *)
(* intervals; and bisearch never reads outside a table, sorted or not, and *)
(* leaves less of it with every turn, so that it ends (flanterm.c).        *)
THEOREM SearchCorrect == Spec => SearchExact
<1>1. IInv => ColumnsExact /\ SearchInside BY DEF IInv, SearchInside
<1>2. Spec => []IInv BY InitIInv, NextIInv, PTL DEF Spec
<1> QED BY <1>1, <1>2, StepShrinks, PTL DEF Spec, SearchExact

-----------------------------------------------------------------------------
(* The first n blocks. *)
Prefix(n) == {Blocks[k] : k \in 1 .. n}

(* What the blocks that a call has got take of the pool. *)
Part(k) == IF k \in taken THEN sizes[k] ELSE 0
Parts == Part("ctx") + Part("font_bits") + Part("font_bool") + Part("grid") + Part("queue")
         + Part("map") + Part("canvas")

(* The pool and the client's heap in the middle of a call, ... *)
PoolGrows ==
    IF client = "pool"
    THEN /\ orig_bump_alloc_ptr = made.pool
         /\ lost # "overrun" => bump_alloc_ptr = orig_bump_alloc_ptr + Parts
    ELSE bump_alloc_ptr = made.pool

HeapGrows ==
    \A k \in Kinds :
        live[k] = terminals["malloc_free"]
                  + (IF client = "malloc_free" /\ k \in taken THEN 1 ELSE 0)

(* ... which has got the blocks in their order. *)
FbInitInv ==
    /\ FbInitTypeOK
    /\ made \in [inits : Nat, pool : Nat]
    /\ \E n \in 0 .. 7 : taken = Prefix(n)
    /\ client = "none" => taken = {} /\ lost = "no"
    /\ PoolGrows /\ HeapGrows /\ CellsInside /\ LostOnlyIf

(* The blocks, one by one. *)
LEMMA BlockFacts ==
    /\ Len(Blocks) = 7
    /\ Kinds = {"ctx", "font_bits", "font_bool", "grid", "queue", "map", "canvas"}
    /\ Blocks[1] = "ctx" /\ Blocks[2] = "font_bits" /\ Blocks[3] = "font_bool" /\ Blocks[4] = "grid"
    /\ Blocks[5] = "queue" /\ Blocks[6] = "map" /\ Blocks[7] = "canvas"
<1>1. Len(Blocks) = 7 BY DEF Blocks
<1>2. /\ Blocks[1] = "ctx" /\ Blocks[2] = "font_bits" /\ Blocks[3] = "font_bool" /\ Blocks[4] = "grid"
      /\ Blocks[5] = "queue" /\ Blocks[6] = "map" /\ Blocks[7] = "canvas"
  BY DEF Blocks
<1>3. 1 .. 7 = {1, 2, 3, 4, 5, 6, 7} OBVIOUS
<1>4. Kinds = {"ctx", "font_bits", "font_bool", "grid", "queue", "map", "canvas"}
  BY <1>1, <1>2, <1>3 DEF Kinds
<1> QED BY <1>1, <1>2, <1>4

(* No block comes twice. *)
LEMMA BlocksDistinct == \A k, m \in 1 .. 7 : Blocks[k] = Blocks[m] => k = m
<1>1. \A k \in 1 .. 7 : k \in {1, 2, 3, 4, 5, 6, 7} OBVIOUS
<1> QED BY <1>1, BlockFacts

(* There is none before the first. *)
LEMMA PrefixZero == Prefix(0) = {}
BY DEF Prefix

(* A block is added to the first ones. *)
LEMMA PrefixNext ==
    ASSUME NEW n \in 0 .. 6
    PROVE  Prefix(n + 1) = Prefix(n) \cup {Blocks[n + 1]} /\ Blocks[n + 1] \notin Prefix(n)
<1>1. 1 .. n + 1 = (1 .. n) \cup {n + 1} OBVIOUS
<1>2. \A k \in 1 .. n : k \in 1 .. 7 /\ k # n + 1 OBVIOUS
<1>3. n + 1 \in 1 .. 7 OBVIOUS
<1>4. Blocks[n + 1] \notin Prefix(n) BY <1>2, <1>3, BlocksDistinct DEF Prefix
<1>5. Prefix(n + 1) = Prefix(n) \cup {Blocks[n + 1]} BY <1>1 DEF Prefix
<1> QED BY <1>4, <1>5

(* There are as many as their number says. *)
LEMMA PrefixCard == \A n \in 0 .. 7 : IsFiniteSet(Prefix(n)) /\ Cardinality(Prefix(n)) = n
<1>0. IsFiniteSet(Prefix(0)) /\ Cardinality(Prefix(0)) = 0
  BY PrefixZero, FS_EmptySet
<1>n. ASSUME NEW n \in 0 .. 6, IsFiniteSet(Prefix(n)), Cardinality(Prefix(n)) = n
      PROVE  IsFiniteSet(Prefix(n + 1)) /\ Cardinality(Prefix(n + 1)) = n + 1
  <2>1. Prefix(n + 1) = Prefix(n) \cup {Blocks[n + 1]} /\ Blocks[n + 1] \notin Prefix(n)
    BY PrefixNext
  <2> HIDE DEF Prefix
  <2> QED BY <1>n, <2>1, FS_AddElement
<1>1. IsFiniteSet(Prefix(1)) /\ Cardinality(Prefix(1)) = 1 BY <1>0, <1>n, 0 + 1 = 1
<1>2. IsFiniteSet(Prefix(2)) /\ Cardinality(Prefix(2)) = 2 BY <1>1, <1>n, 1 + 1 = 2
<1>3. IsFiniteSet(Prefix(3)) /\ Cardinality(Prefix(3)) = 3 BY <1>2, <1>n, 2 + 1 = 3
<1>4. IsFiniteSet(Prefix(4)) /\ Cardinality(Prefix(4)) = 4 BY <1>3, <1>n, 3 + 1 = 4
<1>5. IsFiniteSet(Prefix(5)) /\ Cardinality(Prefix(5)) = 5 BY <1>4, <1>n, 4 + 1 = 5
<1>6. IsFiniteSet(Prefix(6)) /\ Cardinality(Prefix(6)) = 6 BY <1>5, <1>n, 5 + 1 = 6
<1>7. IsFiniteSet(Prefix(7)) /\ Cardinality(Prefix(7)) = 7 BY <1>6, <1>n, 6 + 1 = 7
<1>8. \A n \in 0 .. 7 : n \in {0, 1, 2, 3, 4, 5, 6, 7} OBVIOUS
<1> QED BY <1>0, <1>1, <1>2, <1>3, <1>4, <1>5, <1>6, <1>7, <1>8

(* The block that is wanted next is one that the call has not got. *)
LEMMA WantedNew ==
    ASSUME FbInitInv, taken # Kinds
    PROVE  /\ Wanted \in Kinds /\ Wanted \notin taken
           /\ \E n \in 0 .. 7 : taken \cup {Wanted} = Prefix(n)
<1>1. PICK n \in 0 .. 7 : taken = Prefix(n) BY DEF FbInitInv
<1>2. n # 7 BY <1>1, BlockFacts DEF Prefix, Kinds
<1>3. n \in 0 .. 6 /\ n + 1 \in 1 .. 7 /\ n + 1 \in 0 .. 7 BY <1>2
<1>4. Wanted = Blocks[n + 1] BY <1>1, PrefixCard DEF Wanted
<1>5. Prefix(n + 1) = Prefix(n) \cup {Blocks[n + 1]} /\ Blocks[n + 1] \notin Prefix(n)
  BY <1>3, PrefixNext
<1>6. Blocks[n + 1] \in Kinds BY <1>3, BlockFacts DEF Kinds
<1> QED BY <1>1, <1>3, <1>4, <1>5, <1>6

(* The sizes are numbers. *)
LEMMA SizeFacts ==
    ASSUME sizes \in [Kinds -> Nat]
    PROVE  /\ sizes["ctx"] \in Nat /\ sizes["font_bits"] \in Nat /\ sizes["font_bool"] \in Nat
           /\ sizes["grid"] \in Nat /\ sizes["queue"] \in Nat /\ sizes["map"] \in Nat
           /\ sizes["canvas"] \in Nat /\ Need \in Nat
<1>2. \A k \in {"ctx", "font_bits", "font_bool", "grid", "queue", "map", "canvas"} : sizes[k] \in Nat
  BY BlockFacts
<1> QED BY <1>2 DEF Need

(* What the pool has given before the first block. *)
LEMMA PartsEmpty == taken = {} => Parts = 0
BY DEF Parts, Part

(* All blocks together are what fb_init asks of the pool. *)
LEMMA PartsAll == taken = Kinds => Parts = Need
BY BlockFacts DEF Parts, Part, Need

(* One more block adds its size, and they are no more than all of them. *)
LEMMA PartsNext ==
    ASSUME sizes \in [Kinds -> Nat], sizes' = sizes,
           NEW b \in Kinds, b \notin taken, taken' = taken \cup {b}
    PROVE  Parts \in Nat /\ Parts' = Parts + sizes[b] /\ Parts' <= Need
<1>0. b \in {"ctx", "font_bits", "font_bool", "grid", "queue", "map", "canvas"} BY BlockFacts
<1>1. \A k \in {"ctx", "font_bits", "font_bool", "grid", "queue", "map", "canvas"} :
         /\ Part(k) \in Nat
         /\ Part(k)' = (IF k = b THEN Part(k) + sizes[k] ELSE Part(k))
         /\ Part(k)' \in Nat /\ Part(k)' <= sizes[k]
  BY SizeFacts DEF Part
<1>2. /\ Part("ctx") \in Nat /\ Part("font_bits") \in Nat /\ Part("font_bool") \in Nat
      /\ Part("grid") \in Nat /\ Part("queue") \in Nat /\ Part("map") \in Nat /\ Part("canvas") \in Nat
  BY <1>1
<1>3. Parts \in Nat BY <1>2 DEF Parts
<1>s. /\ sizes["ctx"] \in Nat /\ sizes["font_bits"] \in Nat /\ sizes["font_bool"] \in Nat
      /\ sizes["grid"] \in Nat /\ sizes["queue"] \in Nat /\ sizes["map"] \in Nat
      /\ sizes["canvas"] \in Nat
  BY SizeFacts
<1>p. /\ Part("ctx")' = (IF b = "ctx" THEN Part("ctx") + sizes["ctx"] ELSE Part("ctx"))
      /\ Part("font_bits")' = (IF b = "font_bits" THEN Part("font_bits") + sizes["font_bits"] ELSE Part("font_bits"))
      /\ Part("font_bool")' = (IF b = "font_bool" THEN Part("font_bool") + sizes["font_bool"] ELSE Part("font_bool"))
      /\ Part("grid")' = (IF b = "grid" THEN Part("grid") + sizes["grid"] ELSE Part("grid"))
      /\ Part("queue")' = (IF b = "queue" THEN Part("queue") + sizes["queue"] ELSE Part("queue"))
      /\ Part("map")' = (IF b = "map" THEN Part("map") + sizes["map"] ELSE Part("map"))
      /\ Part("canvas")' = (IF b = "canvas" THEN Part("canvas") + sizes["canvas"] ELSE Part("canvas"))
  BY <1>1
<1>4. b = "ctx" => Parts' = Parts + sizes[b] BY <1>2, <1>p, <1>s DEF Parts
<1>5. b = "font_bits" => Parts' = Parts + sizes[b] BY <1>2, <1>p, <1>s DEF Parts
<1>6. b = "font_bool" => Parts' = Parts + sizes[b] BY <1>2, <1>p, <1>s DEF Parts
<1>7. b = "grid" => Parts' = Parts + sizes[b] BY <1>2, <1>p, <1>s DEF Parts
<1>8. b = "queue" => Parts' = Parts + sizes[b] BY <1>2, <1>p, <1>s DEF Parts
<1>9. b = "map" => Parts' = Parts + sizes[b] BY <1>2, <1>p, <1>s DEF Parts
<1>10. b = "canvas" => Parts' = Parts + sizes[b] BY <1>2, <1>p, <1>s DEF Parts
<1>11. Parts' <= Need
  <2>1. /\ Part("ctx")' \in Nat /\ Part("font_bits")' \in Nat /\ Part("font_bool")' \in Nat
        /\ Part("grid")' \in Nat /\ Part("queue")' \in Nat /\ Part("map")' \in Nat
        /\ Part("canvas")' \in Nat
        /\ Part("ctx")' <= sizes["ctx"] /\ Part("font_bits")' <= sizes["font_bits"]
        /\ Part("font_bool")' <= sizes["font_bool"] /\ Part("grid")' <= sizes["grid"]
        /\ Part("queue")' <= sizes["queue"] /\ Part("map")' <= sizes["map"]
        /\ Part("canvas")' <= sizes["canvas"]
    BY <1>1
  <2> QED BY <2>1, SizeFacts DEF Parts, Need
<1> QED BY <1>0, <1>3, <1>4, <1>5, <1>6, <1>7, <1>8, <1>9, <1>10, <1>11

(* The cells of a layout lie inside the margins. *)
LEMMA LayoutInside ==
    ASSUME NEW width \in Widths, NEW margin \in Margins, NEW g \in GlyphSizes,
           layout' = Layout(width, margin, g)
    PROVE  CellsInside'
<1>1. /\ width \in Nat /\ width < SIZE_MAX /\ margin \in Nat /\ g \in Nat \ {0}
      /\ SIZE_MAX \in Nat \ {0}
  BY FbInitNumbers
<1> DEFINE room == (width - 2 * margin) % SIZE_MAX
<1>2. /\ layout'.margin = margin /\ layout'.width = width /\ layout'.glyph = g
      /\ layout'.n = room \div g /\ layout'.offset = margin + (room % g) \div 2
  BY DEF Layout
<1>3. ASSUME 2 * margin <= width
      PROVE  /\ margin + (room % g) \div 2 >= margin
             /\ margin + (room % g) \div 2 + (room \div g) * g <= width - margin
  <2>1. width - 2 * margin \in 0 .. SIZE_MAX - 1 BY <1>1, <1>3
  <2>2. room = width - 2 * margin
    <3> DEFINE w == width - 2 * margin
    <3>1. w \in 0 .. SIZE_MAX - 1 BY <2>1
    <3> HIDE DEF w
    <3>2. (0 * SIZE_MAX + w) % SIZE_MAX = w BY <1>1, <3>1, ModOfMultiple
    <3>3. 0 * SIZE_MAX + w = w BY <1>1, <3>1
    <3>4. w % SIZE_MAX = w BY <3>2, <3>3
    <3> QED BY <3>4 DEF w
  <2>3. room \in Nat BY <2>1, <2>2
  <2> DEFINE r == room % g
             q == (room \div g) * g
             h == r \div 2
  <2>4. r \in Nat /\ q \in Nat /\ room = q + r
    <3> HIDE DEF room
    <3> QED BY <1>1, <2>3
  <2>5. h \in Nat /\ h <= r
    <3>1. r \in Nat BY <2>4
    <3> HIDE DEF r
    <3> QED BY <3>1
  <2> HIDE DEF room, r, q, h
  <2>6. margin + h >= margin /\ margin + h + q <= width - margin BY <1>1, <2>2, <2>4, <2>5
  <2> QED BY <2>6 DEF r, q, h
<1> HIDE DEF room
<1> QED BY <1>2, <1>3 DEF CellsInside

(* fb_init starts with no block taken. *)
LEMMA FbInitInitInv == FbInitInit => FbInitInv
<1> SUFFICES ASSUME FbInitInit PROVE FbInitInv OBVIOUS
<1>1. FbInitTypeOK
  <2>1. live \in [Kinds -> Nat] BY DEF FbInitInit
  <2>2. terminals \in [Clients -> Nat] BY DEF FbInitInit
  <2>3. /\ bump_alloc_ptr \in 0 .. POOL_SIZE /\ orig_bump_alloc_ptr \in 0 .. POOL_SIZE
        /\ orig_bump_alloc_ptr <= bump_alloc_ptr
        /\ client = "none" /\ taken = {} /\ lost = "no"
    BY FbInitNumbers DEF FbInitInit
  <2>4. sizes \in [Kinds -> Nat] BY DEF FbInitInit
  <2> QED BY <2>1, <2>2, <2>3, <2>4 DEF FbInitTypeOK
<1>2. made \in [inits : Nat, pool : Nat] /\ made.pool = 0 /\ client = "none" /\ taken = {}
      /\ bump_alloc_ptr = 0 /\ lost = "no"
  BY DEF FbInitInit
<1>3. taken = Prefix(0) /\ 0 \in 0 .. 7 BY <1>2, PrefixZero
<1>4. PoolGrows BY <1>2 DEF PoolGrows
<1>5. HeapGrows BY <1>2 DEF FbInitInit, HeapGrows, Clients
<1>6. CellsInside BY DEF FbInitInit, CellsInside
<1>7. LostOnlyIf BY <1>2 DEF LostOnlyIf
<1> QED BY <1>1, <1>2, <1>3, <1>4, <1>5, <1>6, <1>7 DEF FbInitInv

(* A call begins. *)
LEMMA CallBegins ==
    ASSUME FbInitInv, NEW c \in Clients, NEW w \in Widths, NEW m \in Margins, NEW g \in GlyphSizes,
           NEW z \in Sizes, flanterm_fb_init(c, w, m, g, z)
    PROVE  FbInitInv'
<1>1. /\ client = "none" /\ client' = c /\ taken' = {} /\ orig_bump_alloc_ptr' = bump_alloc_ptr
      /\ made' = [made EXCEPT !.inits = @ + 1] /\ layout' = Layout(w, m, g)
      /\ lost = "no" /\ sizes' = z /\ UNCHANGED <<bump_alloc_ptr, live, terminals, lost>>
  BY DEF flanterm_fb_init
<1>2. made \in [inits : Nat, pool : Nat] /\ PoolGrows /\ HeapGrows /\ FbInitTypeOK BY DEF FbInitInv
<1>3. made' \in [inits : Nat, pool : Nat] /\ made'.pool = made.pool BY <1>1, <1>2
<1>4. FbInitTypeOK' BY <1>1, <1>2, FbInitNumbers DEF FbInitTypeOK
<1>5. taken' = Prefix(0) /\ 0 \in 0 .. 7 BY <1>1, PrefixZero
<1>6. Parts' = 0 BY <1>1 DEF Parts, Part
<1>7. bump_alloc_ptr = made.pool /\ bump_alloc_ptr \in Nat
  BY <1>1, <1>2, FbInitNumbers DEF PoolGrows, FbInitTypeOK
<1>8. PoolGrows' BY <1>1, <1>3, <1>6, <1>7 DEF PoolGrows
<1>9. HeapGrows' BY <1>1, <1>2 DEF HeapGrows
<1>10. CellsInside' BY <1>1, LayoutInside
<1>11. LostOnlyIf' BY <1>1 DEF LostOnlyIf
<1> QED BY <1>1, <1>3, <1>4, <1>5, <1>8, <1>9, <1>10, <1>11 DEF FbInitInv

(* A block is got. *)
LEMMA AllocateInv == FbInitInv /\ Allocate => FbInitInv'
<1> SUFFICES ASSUME FbInitInv, Allocate PROVE FbInitInv' OBVIOUS
<1>1. /\ client # "none" /\ lost = "no" /\ taken # Kinds /\ taken' = taken \cup {Wanted}
      /\ lost' = (IF Overrun THEN "overrun" ELSE "no")
      /\ UNCHANGED <<orig_bump_alloc_ptr, client, terminals, made, sizes, layout>>
  BY DEF Allocate, Asks
<1>2. /\ made \in [inits : Nat, pool : Nat] /\ PoolGrows /\ HeapGrows /\ FbInitTypeOK /\ CellsInside
  BY DEF FbInitInv
<1>w. /\ Wanted \in Kinds /\ Wanted \notin taken /\ \E n \in 0 .. 7 : taken' = Prefix(n)
  BY <1>1, WantedNew
<1>z. sizes \in [Kinds -> Nat] /\ sizes[Wanted] \in Nat BY <1>2, <1>w DEF FbInitTypeOK
<1>t. /\ bump_alloc_ptr \in 0 .. POOL_SIZE /\ orig_bump_alloc_ptr \in 0 .. POOL_SIZE
      /\ orig_bump_alloc_ptr <= bump_alloc_ptr
      /\ live \in [Kinds -> Nat] /\ terminals \in [Clients -> Nat] /\ terminals["malloc_free"] \in Nat
      /\ SIZE_MAX \in Nat /\ POOL_SIZE \in 0 .. SIZE_MAX - 1 /\ taken' \subseteq Kinds
  BY <1>1, <1>2, <1>w, FbInitNumbers DEF FbInitTypeOK, Clients
<1>c. CellsInside' BY <1>1, <1>2 DEF CellsInside
<1>l. lost' \in {"no", "overrun"} BY <1>1
<1>4. CASE client = "pool"
  <2> DEFINE sum == bump_alloc_ptr + sizes[Wanted]
  <2>0. sum \in Nat /\ sum >= orig_bump_alloc_ptr BY <1>t, <1>z
  <2>1. /\ sum % SIZE_MAX <= POOL_SIZE /\ bump_alloc_ptr' = sum % SIZE_MAX /\ live' = live
        /\ lost' = (IF sum > POOL_SIZE THEN "overrun" ELSE "no")
    BY <1>1, <1>4 DEF Allocate, PoolHolds, next_ptr, Overrun
  <2> HIDE DEF sum
  <2>2. bump_alloc_ptr' \in 0 .. POOL_SIZE BY <1>t, <2>0, <2>1
  <2>3. lost' = "no" => bump_alloc_ptr' = sum
    <3>1. ASSUME sum <= POOL_SIZE PROVE sum % SIZE_MAX = sum
      <4>1. sum \in 0 .. SIZE_MAX - 1 /\ SIZE_MAX \in Nat \ {0} BY <1>t, <2>0, <3>1
      <4>2. (0 * SIZE_MAX + sum) % SIZE_MAX = sum BY <4>1, ModOfMultiple
      <4>3. 0 * SIZE_MAX + sum = sum BY <4>1
      <4> QED BY <4>2, <4>3
    <3>2. lost' = "no" => sum <= POOL_SIZE BY <1>t, <2>0, <2>1
    <3> QED BY <2>1, <3>1, <3>2
  <2>4. FbInitTypeOK' BY <1>1, <1>2, <1>t, <1>l, <2>0, <2>1, <2>2, <2>3 DEF FbInitTypeOK
  <2>5. Parts \in Nat /\ Parts' = Parts + sizes[Wanted] /\ Parts' <= Need BY <1>1, <1>w, <1>z, PartsNext
  <2>6. orig_bump_alloc_ptr = made.pool /\ bump_alloc_ptr = orig_bump_alloc_ptr + Parts
    BY <1>1, <1>2, <1>4 DEF PoolGrows
  <2>7. sum = orig_bump_alloc_ptr + Parts' BY <1>z, <1>t, <2>5, <2>6 DEF sum
  <2>8. PoolGrows' BY <1>1, <1>4, <1>l, <2>3, <2>6, <2>7 DEF PoolGrows
  <2>9. HeapGrows' BY <1>1, <1>2, <1>4, <2>1 DEF HeapGrows
  <2>10. LostOnlyIf'
    <3>1. Need' = Need /\ Need \in Nat BY <1>1, <1>z, SizeFacts DEF Need
    <3>2. lost' = "overrun" => orig_bump_alloc_ptr + Need > POOL_SIZE
      BY <1>t, <2>0, <2>1, <2>5, <2>7, <3>1
    <3> QED BY <1>1, <1>4, <1>l, <3>1, <3>2 DEF LostOnlyIf
  <2> QED BY <1>1, <1>2, <1>c, <1>w, <2>4, <2>8, <2>9, <2>10 DEF FbInitInv
<1>5. CASE client # "pool"
  <2>1. /\ live' = [live EXCEPT ![Wanted] = @ + (IF client = "malloc_free" THEN 1 ELSE 0)]
        /\ bump_alloc_ptr' = bump_alloc_ptr
    BY <1>5 DEF Allocate
  <2>2. live' \in [Kinds -> Nat] BY <1>t, <1>w, <2>1
  <2>3. FbInitTypeOK' BY <1>1, <1>2, <1>t, <1>l, <2>1, <2>2 DEF FbInitTypeOK
  <2>4. PoolGrows' BY <1>1, <1>2, <1>5, <2>1 DEF PoolGrows
  <2>6. LostOnlyIf'
    <3>1. lost' = "overrun" => sizes[Wanted] >= SIZE_MAX BY <1>1, <1>5 DEF Overrun
    <3> QED BY <1>1, <1>5, <1>l, <3>1 DEF LostOnlyIf
  <2>5. HeapGrows'
    <3> SUFFICES ASSUME NEW k \in Kinds
        PROVE  live'[k] = terminals["malloc_free"]
                          + (IF client = "malloc_free" /\ k \in taken' THEN 1 ELSE 0)
      BY <1>1 DEF HeapGrows
    <3>1. live[k] = terminals["malloc_free"] + (IF client = "malloc_free" /\ k \in taken THEN 1 ELSE 0)
      BY <1>2 DEF HeapGrows
    <3>2. CASE k = Wanted
      <4>1. live'[k] = live[k] + (IF client = "malloc_free" THEN 1 ELSE 0) BY <1>t, <1>w, <2>1, <3>2
      <4>2. k \notin taken /\ k \in taken' BY <1>1, <1>w, <3>2
      <4> QED BY <1>t, <3>1, <4>1, <4>2
    <3>3. CASE k # Wanted
      <4>1. live'[k] = live[k] BY <1>t, <2>1, <3>3
      <4>2. k \in taken' <=> k \in taken BY <1>1, <3>3
      <4> QED BY <3>1, <4>1, <4>2
    <3> QED BY <3>2, <3>3
  <2> QED BY <1>1, <1>2, <1>c, <1>w, <2>3, <2>4, <2>5, <2>6 DEF FbInitInv
<1> QED BY <1>4, <1>5

(* An allocation fails: what was got is given back. *)
LEMMA FailInv == FbInitInv /\ Fail => FbInitInv'
<1> SUFFICES ASSUME FbInitInv, Fail PROVE FbInitInv' OBVIOUS
<1>1. /\ client # "none" /\ lost = "no" /\ client' = "none" /\ taken' = {}
      /\ bump_alloc_ptr' = (IF client = "pool" THEN orig_bump_alloc_ptr ELSE bump_alloc_ptr)
      /\ UNCHANGED <<orig_bump_alloc_ptr, terminals, made, sizes, layout, lost>>
  BY DEF Fail, Asks, PoolAfter
<1>2. /\ made \in [inits : Nat, pool : Nat] /\ PoolGrows /\ HeapGrows /\ FbInitTypeOK /\ CellsInside
  BY DEF FbInitInv
<1>t. /\ bump_alloc_ptr \in 0 .. POOL_SIZE /\ orig_bump_alloc_ptr \in 0 .. POOL_SIZE
      /\ orig_bump_alloc_ptr <= bump_alloc_ptr
      /\ live \in [Kinds -> Nat] /\ terminals["malloc_free"] \in Nat /\ POOL_SIZE \in Nat
  BY <1>1, <1>2, FbInitNumbers DEF FbInitTypeOK, Clients
<1>3. \A k \in Kinds : live'[k] = terminals["malloc_free"]
  <2>1. \A k \in Kinds : live[k] = terminals["malloc_free"]
                          + (IF client = "malloc_free" /\ k \in taken THEN 1 ELSE 0)
    BY <1>2 DEF HeapGrows
  <2>2. CASE client = "malloc_free"
    <3>1. live' = [k \in Kinds |-> live[k] - (IF k \in taken THEN 1 ELSE 0)]
      BY <2>2 DEF Fail, Freed
    <3>2. ASSUME NEW k \in Kinds PROVE live'[k] = terminals["malloc_free"]
      <4>1. live[k] = terminals["malloc_free"] + (IF k \in taken THEN 1 ELSE 0) BY <2>1, <2>2
      <4>2. live'[k] = live[k] - (IF k \in taken THEN 1 ELSE 0) BY <3>1
      <4> QED BY <1>t, <4>1, <4>2
    <3> QED BY <3>2
  <2>3. CASE client # "malloc_free"
    <3>1. live' = live BY <2>3 DEF Fail
    <3> QED BY <1>t, <2>1, <2>3, <3>1
  <2> QED BY <2>2, <2>3
<1>4. live' \in [Kinds -> Nat]
  <2>1. live' = live \/ live' = [k \in Kinds |-> live[k] - (IF k \in taken THEN 1 ELSE 0)]
    BY DEF Fail, Freed
  <2>2. CASE live' = live BY <1>t, <2>2
  <2>3. CASE live' = [k \in Kinds |-> live[k] - (IF k \in taken THEN 1 ELSE 0)]
    BY <1>3, <1>t, <2>3
  <2> QED BY <2>1, <2>2, <2>3
<1>5. /\ bump_alloc_ptr' \in 0 .. POOL_SIZE /\ orig_bump_alloc_ptr' \in 0 .. POOL_SIZE
      /\ orig_bump_alloc_ptr' <= bump_alloc_ptr'
  BY <1>1, <1>t
<1>6. FbInitTypeOK' BY <1>1, <1>2, <1>4, <1>5 DEF FbInitTypeOK
<1>7. PoolGrows' BY <1>1, <1>2 DEF PoolGrows
<1>8. HeapGrows' BY <1>1, <1>3, <1>t DEF HeapGrows
<1>9. CellsInside' BY <1>1, <1>2 DEF CellsInside
<1>10. taken' = Prefix(0) /\ 0 \in 0 .. 7 BY <1>1, PrefixZero
<1>11. LostOnlyIf' BY <1>1 DEF LostOnlyIf
<1> QED BY <1>1, <1>2, <1>6, <1>7, <1>8, <1>9, <1>10, <1>11 DEF FbInitInv

(* The first allocation fails, and what is read through NULL is no good. *)
LEMMA FailNullInv == FbInitInv /\ FailNull => FbInitInv'
<1> SUFFICES ASSUME FbInitInv, FailNull PROVE FbInitInv' OBVIOUS
<1>1. /\ client = "malloc_free" /\ taken = {} /\ lost = "no" /\ lost' = "null"
      /\ UNCHANGED <<bump_alloc_ptr, orig_bump_alloc_ptr, client, taken, live, terminals, made, sizes,
                     layout>>
  BY DEF FailNull, Asks
<1>2. FbInitTypeOK' BY <1>1 DEF FbInitInv, FbInitTypeOK
<1>3. PoolGrows' BY <1>1 DEF FbInitInv, PoolGrows
<1>4. HeapGrows' /\ CellsInside' BY <1>1 DEF FbInitInv, HeapGrows, CellsInside
<1>5. LostOnlyIf' BY <1>1 DEF LostOnlyIf
<1> QED BY <1>1, <1>2, <1>3, <1>4, <1>5 DEF FbInitInv

(* The terminal is made. *)
LEMMA ReadyInv == FbInitInv /\ Ready => FbInitInv'
<1> SUFFICES ASSUME FbInitInv, Ready PROVE FbInitInv' OBVIOUS
<1>1. /\ client # "none" /\ lost = "no" /\ taken = Kinds /\ client' = "none" /\ taken' = {}
      /\ terminals' = [terminals EXCEPT ![client] = @ + 1]
      /\ made' = [made EXCEPT !.pool = @ + (IF client = "pool" THEN Need ELSE 0)]
      /\ UNCHANGED <<bump_alloc_ptr, orig_bump_alloc_ptr, live, sizes, layout, lost>>
  BY DEF Ready
<1>2. /\ made \in [inits : Nat, pool : Nat] /\ PoolGrows /\ HeapGrows /\ FbInitTypeOK /\ CellsInside
  BY DEF FbInitInv
<1>t. /\ client \in Clients /\ terminals \in [Clients -> Nat] /\ bump_alloc_ptr \in Nat
      /\ terminals["malloc_free"] \in Nat /\ live \in [Kinds -> Nat] /\ made.pool \in Nat
  BY <1>1, <1>2, FbInitNumbers DEF FbInitTypeOK, Clients
<1>z. Need \in Nat BY <1>2, SizeFacts DEF FbInitTypeOK
<1>3. /\ terminals' \in [Clients -> Nat]
      /\ terminals'["malloc_free"] = terminals["malloc_free"]
                                     + (IF client = "malloc_free" THEN 1 ELSE 0)
  BY <1>1, <1>t DEF Clients
<1>4. /\ made' \in [inits : Nat, pool : Nat]
      /\ made'.pool = made.pool + (IF client = "pool" THEN Need ELSE 0)
  BY <1>1, <1>2, <1>z
<1>5. FbInitTypeOK' BY <1>1, <1>2, <1>3 DEF FbInitTypeOK
<1>6. HeapGrows'
  <2>1. \A k \in Kinds : live[k] = terminals["malloc_free"] + (IF client = "malloc_free" THEN 1 ELSE 0)
    BY <1>1, <1>2 DEF HeapGrows
  <2>2. terminals'["malloc_free"] \in Nat BY <1>3 DEF Clients
  <2>3. \A k \in Kinds : live'[k] = terminals'["malloc_free"] + 0 BY <1>1, <1>3, <2>1, <2>2
  <2> QED BY <1>1, <2>3 DEF HeapGrows
<1>7. PoolGrows'
  <2>1. CASE client = "pool"
    <3>1. Parts = Need BY <1>1, PartsAll
    <3>2. bump_alloc_ptr = made.pool + Need BY <1>1, <1>2, <2>1, <3>1 DEF PoolGrows
    <3> QED BY <1>1, <1>4, <2>1, <3>2 DEF PoolGrows
  <2>2. CASE client # "pool"
    <3>1. made'.pool = made.pool BY <1>4, <1>t, <2>2
    <3> QED BY <1>1, <1>2, <2>2, <3>1 DEF PoolGrows
  <2> QED BY <2>1, <2>2
<1>9. CellsInside' BY <1>1, <1>2 DEF CellsInside
<1>10. taken' = Prefix(0) /\ 0 \in 0 .. 7 BY <1>1, PrefixZero
<1>11. LostOnlyIf' BY <1>1 DEF LostOnlyIf
<1> QED BY <1>1, <1>2, <1>4, <1>5, <1>6, <1>7, <1>9, <1>10, <1>11 DEF FbInitInv

(* A terminal is unmade. *)
LEMMA DeinitInv == ASSUME FbInitInv, NEW c \in Clients, flanterm_fb_deinit(c) PROVE FbInitInv'
<1>1. /\ client = "none" /\ terminals[c] > 0 /\ terminals' = [terminals EXCEPT ![c] = @ - 1]
      /\ live' = (IF c = "malloc_free" THEN [k \in Kinds |-> live[k] - 1] ELSE live)
      /\ UNCHANGED <<bump_alloc_ptr, orig_bump_alloc_ptr, client, taken, made, sizes, layout, lost>>
  BY DEF flanterm_fb_deinit
<1>2. /\ made \in [inits : Nat, pool : Nat] /\ PoolGrows /\ HeapGrows /\ FbInitTypeOK /\ CellsInside
      /\ (client = "none" => taken = {} /\ lost = "no") /\ LostOnlyIf /\ \E n \in 0 .. 7 : taken = Prefix(n)
  BY DEF FbInitInv
<1>t. terminals \in [Clients -> Nat] /\ terminals["malloc_free"] \in Nat /\ live \in [Kinds -> Nat]
  BY <1>2 DEF FbInitTypeOK, Clients
<1>3. /\ terminals' \in [Clients -> Nat]
      /\ terminals'["malloc_free"] = terminals["malloc_free"] - (IF c = "malloc_free" THEN 1 ELSE 0)
  BY <1>1, <1>t DEF Clients
<1>4. \A k \in Kinds : live[k] = terminals["malloc_free"] BY <1>1, <1>2, <1>t DEF HeapGrows
<1>5. live' \in [Kinds -> Nat] /\ \A k \in Kinds : live'[k] = terminals'["malloc_free"]
  <2>1. CASE c = "malloc_free"
    <3>1. terminals["malloc_free"] > 0 BY <1>1, <2>1
    <3>2. live' = [k \in Kinds |-> live[k] - 1] BY <1>1, <2>1
    <3>3. \A k \in Kinds : live[k] - 1 \in Nat /\ live[k] - 1 = terminals'["malloc_free"]
      BY <1>3, <1>4, <1>t, <2>1, <3>1
    <3> QED BY <3>2, <3>3
  <2>2. CASE c # "malloc_free"
    BY <1>1, <1>3, <1>4, <1>t, <2>2
  <2> QED BY <2>1, <2>2
<1>6. HeapGrows'
  <2>1. terminals'["malloc_free"] \in Nat BY <1>3 DEF Clients
  <2> QED BY <1>1, <1>5, <2>1 DEF HeapGrows
<1>7. FbInitTypeOK' BY <1>1, <1>2, <1>3, <1>5 DEF FbInitTypeOK
<1>8. PoolGrows' BY <1>1, <1>2 DEF PoolGrows
<1>9. CellsInside' BY <1>1, <1>2 DEF CellsInside
<1>10. LostOnlyIf' BY <1>1, <1>2 DEF LostOnlyIf
<1> QED BY <1>1, <1>2, <1>6, <1>7, <1>8, <1>9, <1>10 DEF FbInitInv

(* Every step of fb_init keeps the invariant: one lemma each, above. *)
LEMMA FbInitStep == FbInitInv /\ [FbInitNext]_fbinit => FbInitInv'
<1> SUFFICES ASSUME FbInitInv, [FbInitNext]_fbinit PROVE FbInitInv' OBVIOUS
<1>1. CASE UNCHANGED fbinit
  BY <1>1 DEF fbinit, FbInitInv, FbInitTypeOK, PoolGrows, HeapGrows, CellsInside, LostOnlyIf, Need, Parts, Part
<1>2. CASE FbInitNext
  BY <1>2, CallBegins, AllocateInv, FailInv, FailNullInv, ReadyInv, DeinitInv DEF FbInitNext
<1> QED BY <1>1, <1>2

(* fb.c: for all sizes of the blocks and of the pool, whatever allocations *)
(* fail and whatever terminals are made and unmade in between, a client    *)
(* holds exactly the blocks of its terminals, the pool exactly those made  *)
(* from it, and the cells lie inside the margins; a call goes wrong only   *)
(* where the first allocation of a client with _free fails, or where more  *)
(* is wanted than there is and the size, which wraps around, hides it.     *)
THEOREM MemoryIsExact == FbInitSpec => []MemoryExact
<1>1. FbInitInit => FbInitInv BY FbInitInitInv
<1>2. FbInitInv /\ [FbInitNext]_fbinit => FbInitInv' BY FbInitStep
<1>3. FbInitInv => MemoryExact
  <2> SUFFICES ASSUME FbInitInv PROVE MemoryExact OBVIOUS
  <2>1. FbInitTypeOK /\ PoolGrows /\ HeapGrows /\ CellsInside /\ LostOnlyIf BY DEF FbInitInv
  <2>2. NothingLeaked
    <3>1. terminals["malloc_free"] \in Nat BY <2>1 DEF FbInitTypeOK, Clients
    <3> QED BY <2>1, <3>1 DEF NothingLeaked, HeapGrows
  <2>3. PoolExact BY <2>1 DEF PoolExact, PoolGrows
  <2> QED BY <2>1, <2>2, <2>3 DEF MemoryExact
<1> QED BY <1>1, <1>2, <1>3, PTL DEF FbInitSpec

-----------------------------------------------------------------------------
(* The digits and semicolons. *)
Typeable == DOMAIN Digit \cup {"semicolon"}

(* The value of field f after the first n bytes of a text, as a reader     *)
(* works it out byte by byte.                                              *)
Reads(v, text, f) ==
    v = [n \in 0 .. Len(text) |->
            IF n = 0 THEN 0
            ELSE IF text[n] # "semicolon" /\ FieldOf(text, n) = f THEN 10 * v[n - 1] + Digit[text[n]]
            ELSE v[n - 1]]

(* The digits are numbers. *)
LEMMA DigitType ==
    /\ DOMAIN Digit = {"zero", "one", "two"}
    /\ \A c \in DOMAIN Digit : Digit[c] \in Nat /\ c # "semicolon"
<1>1. DOMAIN Digit = {"zero", "one", "two"} BY DEF Digit
<1>2. Digit["zero"] = 0 /\ Digit["one"] = 1 /\ Digit["two"] = 2 BY DEF Digit
<1>3. 0 \in Nat /\ 1 \in Nat /\ 2 \in Nat OBVIOUS
<1>4. "zero" # "semicolon" /\ "one" # "semicolon" /\ "two" # "semicolon" OBVIOUS
<1> QED BY <1>1, <1>2, <1>3, <1>4

(* The constants, one by one. *)
LEMMA ParserConstants ==
    /\ MAX_ESC_VALUES \in Nat /\ WORD \in Nat /\ WORD > 1 /\ BITS \in Nat
    /\ CURSOR \in Nat /\ INSERT \in Nat /\ MAX_BYTES \in Nat
BY ParserNumbers

(* The field of a place does not depend on what is behind it, and there    *)
(* is one more of them after a semicolon.                                  *)
LEMMA FieldType ==
    ASSUME NEW text, NEW p \in Nat PROVE FieldOf(text, p) \in Nat
<1> DEFINE S == {q \in 1 .. p - 1 : text[q] = "semicolon"}
<1>1. IsFiniteSet(1 .. p - 1) BY FS_Interval
<1>2. IsFiniteSet(S) BY <1>1, FS_Subset
<1> QED BY <1>2, FS_CardinalityType DEF FieldOf

(* The field of a byte does not depend on what is read after it, ... *)
LEMMA FieldSame ==
    ASSUME NEW text \in Seq(Typeable), NEW c \in Typeable, NEW p \in 1 .. Len(text) + 1
    PROVE  FieldOf(Append(text, c), p) = FieldOf(text, p)
<1>1. \A q \in 1 .. p - 1 : Append(text, c)[q] = text[q] OBVIOUS
<1>2. {q \in 1 .. p - 1 : Append(text, c)[q] = "semicolon"} = {q \in 1 .. p - 1 : text[q] = "semicolon"} BY <1>1
<1> QED BY <1>2 DEF FieldOf

(* ... and a semicolon, no other byte, begins the next field. *)
LEMMA FieldNext ==
    ASSUME NEW text \in Seq(Typeable), NEW c \in Typeable
    PROVE  FieldOf(Append(text, c), Len(text) + 2)
               = FieldOf(text, Len(text) + 1) + (IF c = "semicolon" THEN 1 ELSE 0)
<1> DEFINE n == Len(text)  t == Append(text, c)
           S == {q \in 1 .. n : text[q] = "semicolon"}
           T == {q \in 1 .. n + 1 : t[q] = "semicolon"}
<1>1. n \in Nat /\ (n + 1) - 1 = n /\ (n + 2) - 1 = n + 1 OBVIOUS
<1>2. \A q \in 1 .. n + 1 : t[q] = IF q = n + 1 THEN c ELSE text[q] OBVIOUS
<1>3. T = IF c = "semicolon" THEN S \cup {n + 1} ELSE S
  <2>1. \A q \in 1 .. n + 1 : q \in 1 .. n \/ q = n + 1 BY <1>1
  <2>2. \A q \in 1 .. n : q \in 1 .. n + 1 /\ q # n + 1 BY <1>1
  <2>3. n + 1 \in 1 .. n + 1 BY <1>1
  <2> HIDE DEF n, t
  <2> QED BY <1>2, <2>1, <2>2, <2>3
<1>4. IsFiniteSet(S) /\ n + 1 \notin S
  <2>1. IsFiniteSet(1 .. n) BY <1>1, FS_Interval
  <2>2. n + 1 \notin 1 .. n BY <1>1
  <2> QED BY <2>1, <2>2, FS_Subset
<1>5. Cardinality(S \cup {n + 1}) = Cardinality(S) + 1 BY <1>4, FS_AddElement
<1>6. Cardinality(S) \in Nat BY <1>4, FS_CardinalityType
<1>7. FieldOf(text, n + 1) = Cardinality(S) /\ FieldOf(t, n + 2) = Cardinality(T)
  BY <1>1 DEF FieldOf
<1> HIDE DEF S, T, n, t
<1>8. FieldOf(t, n + 2) = FieldOf(text, n + 1) + (IF c = "semicolon" THEN 1 ELSE 0)
  <2>1. CASE c = "semicolon"
    <3>1. Cardinality(T) = Cardinality(S) + 1 BY <1>3, <1>5, <2>1
    <3> QED BY <1>7, <2>1, <3>1
  <2>2. CASE c # "semicolon"
    <3>1. Cardinality(T) = Cardinality(S) BY <1>3, <2>2
    <3>2. Cardinality(S) = Cardinality(S) + 0 BY <1>6
    <3> QED BY <1>7, <2>2, <3>1, <3>2
  <2> QED BY <2>1, <2>2
<1> QED BY <1>8 DEF n, t

(* A text can be read to its end. *)
LEMMA ReadingExists ==
    ASSUME NEW text \in Seq(Typeable), NEW f \in Nat
    PROVE  \E v : Reads(v, text, f)
<1> DEFINE L == Len(text)
           step(n, w) == IF text[n] # "semicolon" /\ FieldOf(text, n) = f
                         THEN 10 * w + Digit[text[n]] ELSE w
           body(n, v) == IF n = 0 THEN 0 ELSE step(n, v[n - 1])
           upto(k, v) == v = [n \in 0 .. k |-> body(n, v)]
           good == {k \in 0 .. L : \E v : upto(k, v)}
<1>1. L \in Nat OBVIOUS
<1> HIDE DEF L, step
<1>2. 0 \in good
  <2> DEFINE z == [n \in 0 .. 0 |-> 0]
  <2>1. \A n \in 0 .. 0 : n = 0 OBVIOUS
  <2>2. z = [n \in 0 .. 0 |-> body(n, z)] BY <2>1
  <2>3. 0 \in 0 .. L BY <1>1
  <2> QED BY <2>2, <2>3
<1>3. ASSUME NEW k \in 1 .. L, k - 1 \in good PROVE k \in good
  <2>1. PICK v : upto(k - 1, v) BY <1>3
  <2> DEFINE w == [n \in 0 .. k |-> IF n = k THEN body(k, v) ELSE v[n]]
  <2>2. k \in 0 .. L /\ k \in Nat /\ k # 0 BY <1>1
  <2>3. \A n \in 0 .. k : n # k => n \in 0 .. k - 1 BY <2>2
  <2>4. \A n \in 0 .. k : n # 0 => n - 1 \in 0 .. k - 1 /\ n - 1 \in 0 .. k /\ n - 1 # k BY <2>2
  <2>5. \A n \in 0 .. k - 1 : v[n] = body(n, v) BY <2>1
  <2>6. \A n \in 0 .. k : n # 0 => w[n - 1] = v[n - 1] BY <2>4
  <2>7. \A n \in 0 .. k : w[n] = body(n, v) BY <2>3, <2>5
  <2>8. \A n \in 0 .. k : body(n, w) = body(n, v) BY <2>6
  <2>9. \A n \in 0 .. k : w[n] = body(n, w) BY <2>7, <2>8
  <2>10. upto(k, w)
    <3> DEFINE u == [n \in 0 .. k |-> body(n, w)]
    <3>1. \A n \in 0 .. k : w[n] = u[n] BY <2>9
    <3>2. DOMAIN w = 0 .. k /\ DOMAIN u = 0 .. k OBVIOUS
    <3>3. w = u
      <4> HIDE DEF body
      <4> QED BY <3>1, <3>2
    <3> QED BY <3>3
  <2> HIDE DEF upto, w
  <2> QED BY <2>2, <2>10
<1>4. L \in good
  <2> HIDE DEF good
  <2>1. \A k \in 0 .. L : k \in good BY <1>1, <1>2, <1>3, UpTo
  <2> QED BY <1>1, <2>1
<1>5. PICK v : upto(L, v) BY <1>4
<1> QED BY <1>5 DEF Reads, step, L

(* A reading is one of numbers, and goes on as it was when the text does.  *)
LEMMA ReadingType ==
    ASSUME NEW text \in Seq(Typeable), NEW f \in Nat, NEW v, Reads(v, text, f)
    PROVE  \A n \in 0 .. Len(text) : v[n] \in Nat
<1> DEFINE L == Len(text)
           good == {k \in 0 .. L : v[k] \in Nat}
<1>1. L \in Nat OBVIOUS
<1>2. \A n \in 0 .. L : v[n] = IF n = 0 THEN 0
            ELSE IF text[n] # "semicolon" /\ FieldOf(text, n) = f THEN 10 * v[n - 1] + Digit[text[n]]
            ELSE v[n - 1]
  BY DEF Reads
<1>3. \A n \in 1 .. L : text[n] # "semicolon" => Digit[text[n]] \in Nat
  BY DigitType DEF Typeable
<1> HIDE DEF L
<1>4. 0 \in good BY <1>1, <1>2
<1>5. ASSUME NEW k \in 1 .. L, k - 1 \in good PROVE k \in good
  <2>1. k \in 0 .. L /\ k # 0 /\ v[k - 1] \in Nat BY <1>1, <1>5
  <2>2. \A d, a \in Nat : 10 * a + d \in Nat OBVIOUS
  <2>3. v[k] \in Nat BY <1>2, <1>3, <2>1, <2>2
  <2> QED BY <2>1, <2>3
<1>6. \A k \in 0 .. L : k \in good
  <2> HIDE DEF good
  <2> QED BY <1>1, <1>4, <1>5, UpTo
<1> QED BY <1>6 DEF L

(* A byte more: the values so far stay, and a digit of the field counts. *)
LEMMA ReadingGoesOn ==
    ASSUME NEW text \in Seq(Typeable), NEW c \in Typeable, NEW f \in Nat,
           NEW v, Reads(v, text, f), NEW w, Reads(w, Append(text, c), f)
    PROVE  /\ \A n \in 0 .. Len(text) : w[n] = v[n]
           /\ w[Len(text) + 1] = IF c # "semicolon" /\ FieldOf(text, Len(text) + 1) = f
                                 THEN 10 * v[Len(text)] + Digit[c] ELSE v[Len(text)]
<1> DEFINE L == Len(text)  t == Append(text, c)
           good == {k \in 0 .. L : w[k] = v[k]}
<1>1. L \in Nat /\ Len(t) = L + 1 OBVIOUS
<1>2. \A n \in 0 .. L : v[n] = IF n = 0 THEN 0
            ELSE IF text[n] # "semicolon" /\ FieldOf(text, n) = f THEN 10 * v[n - 1] + Digit[text[n]]
            ELSE v[n - 1]
  BY DEF Reads
<1>3. \A n \in 0 .. L + 1 : w[n] = IF n = 0 THEN 0
            ELSE IF t[n] # "semicolon" /\ FieldOf(t, n) = f THEN 10 * w[n - 1] + Digit[t[n]]
            ELSE w[n - 1]
  BY <1>1 DEF Reads
<1>4. \A n \in 1 .. L : t[n] = text[n] OBVIOUS
<1>5. t[L + 1] = c OBVIOUS
<1>6. \A n \in 1 .. L + 1 : FieldOf(t, n) = FieldOf(text, n) BY FieldSame
<1> HIDE DEF L, t
<1>7. 0 \in good BY <1>1, <1>2, <1>3
<1>8. ASSUME NEW k \in 1 .. L, k - 1 \in good PROVE k \in good
  <2>1. k \in 0 .. L /\ k \in 0 .. L + 1 /\ k \in 1 .. L + 1 /\ k # 0 /\ v[k - 1] = w[k - 1]
    BY <1>1, <1>8
  <2>2. w[k] = v[k] BY <1>2, <1>3, <1>4, <1>6, <2>1
  <2> QED BY <2>1, <2>2
<1>9. \A k \in 0 .. L : k \in good
  <2> HIDE DEF good
  <2> QED BY <1>1, <1>7, <1>8, UpTo
<1>10. w[L + 1] = IF c # "semicolon" /\ FieldOf(text, L + 1) = f THEN 10 * v[L] + Digit[c] ELSE v[L]
  <2>1. L + 1 \in 0 .. L + 1 /\ L + 1 \in 1 .. L + 1 /\ L + 1 # 0 /\ (L + 1) - 1 = L /\ L \in 0 .. L
    BY <1>1
  <2>2. w[L] = v[L] BY <1>9, <2>1
  <2> QED BY <1>3, <1>5, <1>6, <2>1, <2>2
<1> QED BY <1>9, <1>10 DEF L

(* So Number is what a reading comes to: 0 for no text, ... *)
LEMMA NumberReads ==
    ASSUME NEW text \in Seq(Typeable), NEW f \in Nat
    PROVE  \E v : Reads(v, text, f) /\ Number(text, f) = v[Len(text)] % WORD
<1>1. \E v : Reads(v, text, f) BY ReadingExists
<1> QED BY <1>1 DEF Reads, Number

(* Before the first byte every field is 0. *)
LEMMA NumberEmpty == ASSUME NEW f \in Nat PROVE Number(<<>>, f) = 0
<1>1. <<>> \in Seq(Typeable) /\ Len(<<>>) = 0 /\ 0 \in 0 .. 0 OBVIOUS
<1>2. PICK v : Reads(v, <<>>, f) /\ Number(<<>>, f) = v[0] % WORD BY <1>1, NumberReads
<1>3. v[0] = 0 BY <1>1, <1>2 DEF Reads
<1>4. 0 % WORD = 0 BY ParserConstants
<1> QED BY <1>2, <1>3, <1>4

(* A number may be reduced before its next digit is added. *)
LEMMA DigitMod ==
    ASSUME NEW a \in Nat, NEW d \in Nat
    PROVE  (10 * a + d) % WORD = ((a % WORD) * 10 + d) % WORD
<1> DEFINE q == a \div WORD  r == a % WORD  big == 10 * q  rest == r * 10 + d
<1>1. WORD \in Nat \ {0} BY ParserConstants
<1>2. a = q * WORD + r /\ q \in Int /\ r \in 0 .. WORD - 1 BY <1>1
<1>3. big \in Int /\ rest \in Int /\ big * WORD \in Int BY <1>1, <1>2
<1>4. 10 * a + d = big * WORD + rest
  <2> HIDE DEF q, r
  <2>1. q * WORD \in Int /\ (10 * q) * WORD = 10 * (q * WORD) BY <1>1, <1>2
  <2> DEFINE z == q * WORD
  <2>2. z \in Int /\ a = z + r /\ r \in Int BY <1>1, <1>2, <2>1
  <2> HIDE DEF z
  <2>3. 10 * a + d = 10 * z + (r * 10 + d) BY <2>2
  <2> QED BY <2>1, <2>3 DEF z
<1>5. \A b, e \in Int : ((b % WORD) + e) % WORD = (b + e) % WORD BY <1>1, ModOfReduced
<1>6. (big * WORD) % WORD = 0
  <2>1. 0 \in 0 .. WORD - 1 BY <1>1
  <2>2. (big * WORD + 0) % WORD = 0 BY <1>1, <1>3, <2>1, ModOfMultiple
  <2>3. big * WORD + 0 = big * WORD BY <1>3
  <2> QED BY <2>2, <2>3
<1> DEFINE m == big * WORD
<1>7. ((m % WORD) + rest) % WORD = (m + rest) % WORD BY <1>3, <1>5
<1>8. 0 + rest = rest BY <1>3
<1>9. m % WORD = 0 /\ 10 * a + d = m + rest BY <1>4, <1>6
<1> HIDE DEF m, rest
<1>10. (10 * a + d) % WORD = rest % WORD BY <1>7, <1>8, <1>9
<1> QED BY <1>10 DEF rest

(* ... and a digit more for a digit in its field. *)
LEMMA NumberAppend ==
    ASSUME NEW text \in Seq(Typeable), NEW c \in Typeable, NEW f \in Nat
    PROVE  /\ Number(text, f) \in 0 .. WORD - 1
           /\ Number(Append(text, c), f)
                  = IF c # "semicolon" /\ FieldOf(text, Len(text) + 1) = f
                    THEN (Number(text, f) * 10 + Digit[c]) % WORD ELSE Number(text, f)
<1> DEFINE L == Len(text)  t == Append(text, c)
<1>1. L \in Nat /\ Len(t) = L + 1 /\ t \in Seq(Typeable) OBVIOUS
<1>2. PICK v : Reads(v, text, f) /\ Number(text, f) = v[L] % WORD BY NumberReads
<1>3. PICK w : Reads(w, t, f) /\ Number(t, f) = w[L + 1] % WORD BY <1>1, NumberReads
<1>4. w[L + 1] = IF c # "semicolon" /\ FieldOf(text, L + 1) = f THEN 10 * v[L] + Digit[c] ELSE v[L]
  BY <1>2, <1>3, ReadingGoesOn
<1>5. v[L] \in Nat
  <2>1. L \in 0 .. L BY <1>1
  <2> QED BY <1>2, <2>1, ReadingType
<1>6. Number(text, f) \in 0 .. WORD - 1 BY <1>2, <1>5, ParserConstants
<1>7. Number(t, f) = IF c # "semicolon" /\ FieldOf(text, L + 1) = f
                     THEN (Number(text, f) * 10 + Digit[c]) % WORD ELSE Number(text, f)
  <2> HIDE DEF L, t
  <2>1. CASE c # "semicolon" /\ FieldOf(text, L + 1) = f
    <3>1. Digit[c] \in Nat BY <2>1, DigitType DEF Typeable
    <3>2. (10 * v[L] + Digit[c]) % WORD = ((v[L] % WORD) * 10 + Digit[c]) % WORD
      BY <1>5, <3>1, DigitMod
    <3>3. Number(t, f) = (10 * v[L] + Digit[c]) % WORD BY <1>3, <1>4, <2>1
    <3> QED BY <1>2, <2>1, <3>2, <3>3
  <2>2. CASE ~(c # "semicolon" /\ FieldOf(text, L + 1) = f)
    <3>1. Number(t, f) = v[L] % WORD BY <1>3, <1>4, <2>2
    <3> QED BY <1>2, <2>2, <3>1
  <2> QED BY <2>1, <2>2
<1> QED BY <1>6, <1>7

-----------------------------------------------------------------------------
(* The semicolons of the sequence so far, and whether it ends in a digit. *)
Semicolons == FieldOf(typed, Len(typed) + 1)
EndsInDigit(text) == text # <<>> /\ text[Len(text)] # "semicolon"

(* The flags are flags, and inside a sequence they exclude each other. *)
FlagsInv ==
    /\ escape \in BOOLEAN /\ csi \in BOOLEAN /\ control_sequence \in BOOLEAN /\ osc \in BOOLEAN
    /\ osc_escape \in BOOLEAN /\ discard_next \in BOOLEAN
    /\ ~escape => ~csi /\ ~control_sequence /\ ~osc /\ ~osc_escape
    /\ discard_next => ~escape
    /\ ~(osc /\ control_sequence) /\ ~(csi /\ (osc \/ control_sequence))
    /\ ~osc => ~osc_escape

(* A private sequence is under way, or one that was cancelled has left its *)
(* mark; the byte after the bracket is the only one at offset 1.           *)
PrivateInv ==
    /\ dec_private \in BOOLEAN /\ private_begun \in BOOLEAN /\ cancelled \in BOOLEAN
    /\ escape_offset \in 0 .. 3
    /\ control_sequence => escape_offset # 0 /\ (escape_offset = 1 => ~private_begun)
    /\ dec_private <=> cancelled \/ (control_sequence /\ private_begun)

(* The values of a control sequence so far are those of its text so far. *)
ValuesSoFar(text, r, i, v) ==
    LET n == FieldOf(text, Len(text) + 1)
    IN  /\ i = IF n < MAX_ESC_VALUES THEN n ELSE MAX_ESC_VALUES
        /\ r <=> EndsInDigit(text) /\ n < MAX_ESC_VALUES
        /\ \A j \in 0 .. MAX_ESC_VALUES - 1 : v[j] = Number(text, j)
        /\ \A j \in Nat : j > n => Number(text, j) = 0
        /\ ~EndsInDigit(text) => Number(text, n) = 0

ValuesInv ==
    /\ rrr \in BOOLEAN /\ esc_values \in [0 .. MAX_ESC_VALUES - 1 -> 0 .. WORD - 1]
    /\ esc_values_i \in 0 .. MAX_ESC_VALUES
    /\ typed \in Seq(Typeable)
    /\ rrr => esc_values_i < MAX_ESC_VALUES
    /\ control_sequence => ValuesSoFar(typed, rrr, esc_values_i, esc_values)

(* So is the code point of a character of UTF-8. *)
UnicodeInv ==
    /\ unicode_remaining \in 0 .. 3
    /\ unicode_remaining # 0 =>
           /\ utf8 \in Seq({0, 1}) /\ Len(utf8) \in 1 .. 3 /\ Len(utf8) + unicode_remaining <= 4
           /\ code_point = Spelled(utf8, Len(utf8) + unicode_remaining)

SetsInv == g_select \in 0 .. 2 /\ current_charset \in 1 .. 2 /\ saved_charset \in 1 .. 2

ParserInv ==
    /\ FlagsInv /\ PrivateInv /\ ValuesInv /\ UnicodeInv /\ SetsInv
    /\ ValuesExact /\ PrivateOnlyIf /\ UnicodeExact

(* A sequence begins with no text and with the value 0. *)
LEMMA NoValues ==
    ASSUME NEW v, v = [i \in 0 .. MAX_ESC_VALUES - 1 |-> 0], NEW r, r = FALSE
    PROVE  ValuesSoFar(<<>>, r, 0, v)
<1>1. Len(<<>>) = 0 /\ FieldOf(<<>>, 0 + 1) = 0
  <2>1. {q \in 1 .. (0 + 1) - 1 : <<>>[q] = "semicolon"} = {} OBVIOUS
  <2> QED BY <2>1, FS_EmptySet DEF FieldOf
<1>2. ~EndsInDigit(<<>>) BY DEF EndsInDigit
<1>3. \A j \in Nat : Number(<<>>, j) = 0 BY NumberEmpty
<1>4. \A j \in 0 .. MAX_ESC_VALUES - 1 : j \in Nat /\ v[j] = 0 OBVIOUS
<1>5. 0 = IF 0 < MAX_ESC_VALUES THEN 0 ELSE MAX_ESC_VALUES BY ParserConstants
<1>6. 0 \in Nat OBVIOUS
<1> QED BY <1>1, <1>2, <1>3, <1>4, <1>5, <1>6 DEF ValuesSoFar

(* A digit is added to the value of its field, if there is room for it. *)
LEMMA DigitAdds ==
    ASSUME NEW text \in Seq(Typeable), NEW c \in DOMAIN Digit, NEW r, NEW i, NEW v, NEW s, NEW w,
           i \in 0 .. MAX_ESC_VALUES, v \in [0 .. MAX_ESC_VALUES - 1 -> 0 .. WORD - 1],
           ValuesSoFar(text, r, i, v),
           IF i = MAX_ESC_VALUES THEN s = r /\ w = v
           ELSE s = TRUE /\ w = [v EXCEPT ![i] = (v[i] * 10 + Digit[c]) % WORD]
    PROVE  ValuesSoFar(Append(text, c), s, i, w)
<1> DEFINE t == Append(text, c)  n == FieldOf(text, Len(text) + 1)
<1>1. c \in Typeable /\ c # "semicolon" BY DigitType DEF Typeable
<1>2. Len(text) \in Nat /\ Len(t) = Len(text) + 1 /\ Len(t) + 1 = Len(text) + 2 OBVIOUS
<1>3. n \in Nat BY <1>2, FieldType
<1>4. FieldOf(t, Len(t) + 1) = n BY <1>1, <1>2, <1>3, FieldNext
<1>5. EndsInDigit(t)
  <2>1. t # <<>> /\ t[Len(t)] = c OBVIOUS
  <2> QED BY <1>1, <2>1 DEF EndsInDigit
<1>6. /\ i = IF n < MAX_ESC_VALUES THEN n ELSE MAX_ESC_VALUES
      /\ r <=> EndsInDigit(text) /\ n < MAX_ESC_VALUES
      /\ \A j \in 0 .. MAX_ESC_VALUES - 1 : v[j] = Number(text, j)
      /\ \A j \in Nat : j > n => Number(text, j) = 0
  BY DEF ValuesSoFar
<1>7. \A j \in Nat : Number(t, j) = IF n = j THEN (Number(text, j) * 10 + Digit[c]) % WORD
                                    ELSE Number(text, j)
  BY <1>1, NumberAppend
<1> HIDE DEF n, t
<1>8. s <=> n < MAX_ESC_VALUES
  <2>1. CASE i = MAX_ESC_VALUES
    <3>1. ~(n < MAX_ESC_VALUES) BY <1>3, <1>6, <2>1, ParserConstants
    <3> QED BY <1>6, <2>1, <3>1
  <2>2. CASE i # MAX_ESC_VALUES
    <3>1. n < MAX_ESC_VALUES BY <1>6, <2>2
    <3> QED BY <2>2, <3>1
  <2> QED BY <2>1, <2>2
<1>9. ASSUME NEW j \in 0 .. MAX_ESC_VALUES - 1 PROVE w[j] = Number(t, j)
  <2>1. j \in Nat /\ j < MAX_ESC_VALUES BY ParserConstants
  <2>2. CASE i = MAX_ESC_VALUES
    <3>1. j # n BY <1>3, <1>6, <2>1, <2>2, ParserConstants
    <3> QED BY <1>6, <1>7, <2>1, <2>2, <3>1
  <2>3. CASE i # MAX_ESC_VALUES
    <3>1. n = i BY <1>6, <2>3
    <3>2. w = [v EXCEPT ![i] = (v[i] * 10 + Digit[c]) % WORD] BY <2>3
    <3>3. w[j] = IF j = i THEN (v[j] * 10 + Digit[c]) % WORD ELSE v[j] BY <3>2
    <3> QED BY <1>6, <1>7, <2>1, <3>1, <3>3
  <2> QED BY <2>2, <2>3
<1>10. ASSUME NEW j \in Nat, j > n PROVE Number(t, j) = 0
  <2>1. j # n BY <1>3, <1>10
  <2> QED BY <1>6, <1>7, <1>10, <2>1
<1> QED BY <1>4, <1>5, <1>6, <1>8, <1>9, <1>10 DEF ValuesSoFar, t

(* A semicolon closes its field. *)
LEMMA SemicolonCloses ==
    ASSUME NEW text \in Seq(Typeable), NEW r \in BOOLEAN, NEW i, NEW v, NEW k, NEW w,
           i \in 0 .. MAX_ESC_VALUES, v \in [0 .. MAX_ESC_VALUES - 1 -> 0 .. WORD - 1],
           ValuesSoFar(text, r, i, v),
           IF r THEN k = i + 1 /\ w = v
           ELSE IF i = MAX_ESC_VALUES THEN k = i /\ w = v
           ELSE k = i + 1 /\ w = [v EXCEPT ![i] = 0]
    PROVE  ValuesSoFar(Append(text, "semicolon"), FALSE, k, w)
<1> DEFINE c == "semicolon"  t == Append(text, c)  n == FieldOf(text, Len(text) + 1)
<1>1. c \in Typeable BY DEF Typeable
<1>2. Len(text) \in Nat /\ Len(t) = Len(text) + 1 /\ Len(t) + 1 = Len(text) + 2 OBVIOUS
<1>3. n \in Nat BY <1>2, FieldType
<1>4. FieldOf(t, Len(t) + 1) = n + 1 BY <1>1, <1>2, <1>3, FieldNext
<1>5. ~EndsInDigit(t)
  <2>1. t[Len(t)] = c OBVIOUS
  <2> QED BY <2>1 DEF EndsInDigit
<1>6. /\ i = IF n < MAX_ESC_VALUES THEN n ELSE MAX_ESC_VALUES
      /\ r <=> EndsInDigit(text) /\ n < MAX_ESC_VALUES
      /\ \A j \in 0 .. MAX_ESC_VALUES - 1 : v[j] = Number(text, j)
      /\ \A j \in Nat : j > n => Number(text, j) = 0
      /\ ~EndsInDigit(text) => Number(text, n) = 0
  BY DEF ValuesSoFar
<1>7. \A j \in Nat : Number(t, j) = Number(text, j) BY <1>1, NumberAppend
<1> HIDE DEF n, t
<1>8. k = IF n + 1 < MAX_ESC_VALUES THEN n + 1 ELSE MAX_ESC_VALUES
  <2>1. CASE n < MAX_ESC_VALUES
    <3>1. i = n /\ i # MAX_ESC_VALUES BY <1>3, <1>6, <2>1, ParserConstants
    <3>2. k = n + 1 BY <3>1
    <3> QED BY <1>3, <2>1, <3>2, ParserConstants
  <2>2. CASE ~(n < MAX_ESC_VALUES)
    <3>1. i = MAX_ESC_VALUES /\ ~r BY <1>6, <2>2
    <3>2. k = MAX_ESC_VALUES BY <3>1
    <3> QED BY <1>3, <2>2, <3>2, ParserConstants
  <2> QED BY <2>1, <2>2
<1>9. ASSUME NEW j \in 0 .. MAX_ESC_VALUES - 1 PROVE w[j] = Number(t, j)
  <2>1. j \in Nat /\ j < MAX_ESC_VALUES BY ParserConstants
  <2>2. CASE r \/ i = MAX_ESC_VALUES
    <3>1. w = v BY <2>2
    <3> QED BY <1>6, <1>7, <2>1, <3>1
  <2>3. CASE ~(r \/ i = MAX_ESC_VALUES)
    <3>1. n = i /\ n < MAX_ESC_VALUES BY <1>6, <2>3
    <3>2. Number(text, n) = 0 BY <1>6, <2>3, <3>1
    <3>3. w = [v EXCEPT ![i] = 0] BY <2>3
    <3>4. w[j] = IF j = i THEN 0 ELSE v[j] BY <3>3
    <3> QED BY <1>6, <1>7, <2>1, <3>1, <3>2, <3>4
  <2> QED BY <2>2, <2>3
<1>10. ASSUME NEW j \in Nat, j > n + 1 PROVE Number(t, j) = 0
  <2>1. j > n BY <1>3, <1>10
  <2> QED BY <1>6, <1>7, <1>10, <2>1
<1>11. Number(t, n + 1) = 0
  <2>1. n + 1 \in Nat /\ n + 1 > n BY <1>3
  <2> QED BY <1>6, <1>7, <2>1
<1> QED BY <1>4, <1>5, <1>8, <1>9, <1>10, <1>11 DEF ValuesSoFar, t

(* The flags stay in order, whatever byte comes. *)
LEMMA FlagsStep == ASSUME FlagsInv, NEW c, flanterm_putchar(c) PROVE FlagsInv'
<1> USE DEF FlagsInv, sequence
<1>1. CASE Discard(c) BY <1>1 DEF Discard
<1>2. CASE Continue(c) BY <1>2 DEF Continue
<1>3. CASE Start(c) BY <1>3 DEF Start
<1>4. CASE osc_parse(c) BY <1>4 DEF osc_parse, Byte, Proceed
<1>5. CASE SecondBracket(c) BY <1>5 DEF SecondBracket, InSequence, Byte, Proceed, Closed
<1>6. CASE QuestionMark(c) BY <1>6 DEF QuestionMark
<1>7. CASE DigitRead(c) BY <1>7 DEF DigitRead
<1>8. CASE Semicolon(c) BY <1>8 DEF Semicolon
<1>9. CASE Final(c) BY <1>9 DEF Final, InSequence, Byte, Proceed, Closed
<1>10. CASE Introducer(c) BY <1>10 DEF Introducer, InEscape, Byte, Proceed
<1>11. CASE Reinit(c) BY <1>11 DEF Reinit
<1>12. CASE escape_parse(c) BY <1>12 DEF escape_parse, InEscape, Byte, Proceed
<1>13. CASE SelectSet(c) BY <1>13 DEF SelectSet
<1>14. CASE Escape(c) BY <1>14 DEF Escape, Ground, Byte, Proceed
<1>15. CASE Shift(c) BY <1>15 DEF Shift
<1>16. CASE Character(c) BY <1>16 DEF Character
<1> QED
  BY <1>1, <1>2, <1>3, <1>4, <1>5, <1>6, <1>7, <1>8, <1>9, <1>10, <1>11, <1>12, <1>13, <1>14,
     <1>15, <1>16 DEF flanterm_putchar

(* A sequence is private only if it is, or a cancelled one was. *)
LEMMA PrivateStep == ASSUME FlagsInv, PrivateInv, NEW c, flanterm_putchar(c) PROVE PrivateInv'
<1> USE DEF PrivateInv, FlagsInv, sequence, values, ghosts
<1>0. ASSUME Offset PROVE escape_offset' \in 0 .. 3 /\ escape_offset' # 0
                          /\ (escape_offset # 0 => escape_offset' # 1)
  BY <1>0 DEF Offset
<1>1. CASE Discard(c) BY <1>1 DEF Discard
<1>2. CASE Continue(c) BY <1>2 DEF Continue
<1>3. CASE Start(c) BY <1>3 DEF Start
<1>4. CASE osc_parse(c) BY <1>0, <1>4 DEF osc_parse
<1>5. CASE SecondBracket(c) BY <1>0, <1>5 DEF SecondBracket, InSequence, Closed
<1>6. CASE QuestionMark(c) BY <1>0, <1>6 DEF QuestionMark, InSequence
<1>7. CASE DigitRead(c) BY <1>0, <1>7 DEF DigitRead, InSequence
<1>8. CASE Semicolon(c) BY <1>0, <1>8 DEF Semicolon, InSequence
<1>9. CASE Final(c) BY <1>0, <1>9 DEF Final, Closed, PrivateAfter
<1>10. CASE Introducer(c) BY <1>0, <1>10 DEF Introducer, InEscape
<1>11. CASE Reinit(c)
  <2>1. /\ dec_private' = FALSE /\ cancelled' = FALSE /\ control_sequence' = FALSE
        /\ escape_offset' = 0 /\ private_begun' = private_begun
    BY <1>11 DEF Reinit
  <2>2. (escape_offset \in 0 .. 3)' BY <2>1
  <2> QED BY <2>1, <2>2
<1>12. CASE escape_parse(c) BY <1>0, <1>12 DEF escape_parse, InEscape
<1>13. CASE SelectSet(c) BY <1>13 DEF SelectSet
<1>14. CASE Escape(c) BY <1>14 DEF Escape, Ground
<1>15. CASE Shift(c) BY <1>15 DEF Shift
<1>16. CASE Character(c) BY <1>16 DEF Character
<1> QED
  BY <1>1, <1>2, <1>3, <1>4, <1>5, <1>6, <1>7, <1>8, <1>9, <1>10, <1>11, <1>12, <1>13, <1>14,
     <1>15, <1>16 DEF flanterm_putchar

(* The bytes that begin or continue a character of UTF-8. *)
LEMMA UnicodeBytes ==
    /\ \A c \in DOMAIN Lead : Lead[c] \in 1 .. 3
    /\ \A c \in DOMAIN Bit : Bit[c] \in {0, 1}
<1>1. Lead["lead2"] = 1 /\ Lead["lead3"] = 2 /\ Lead["lead4"] = 3 BY DEF Lead
<1>2. DOMAIN Lead = {"lead2", "lead3", "lead4"} BY DEF Lead
<1>3. 1 \in 1 .. 3 /\ 2 \in 1 .. 3 /\ 3 \in 1 .. 3 OBVIOUS
<1>4. \A c \in DOMAIN Bit : Bit[c] \in {0, 1} BY DEF Bit
<1> QED BY <1>1, <1>2, <1>3, <1>4

(* A byte more of a character spells a part more of it. *)
LEMMA SpelledNext ==
    ASSUME NEW bits \in Seq({0, 1}), NEW b \in {0, 1}, NEW n \in 1 .. 4, Len(bits) < n
    PROVE  Spelled(Append(bits, b), n)
               = Spelled(bits, n) + b * 2 ^ (BITS * (n - (Len(bits) + 1)))
<1> DEFINE L == Len(bits)  t == Append(bits, b)
           old(k) == IF k > L THEN 0 ELSE bits[k] * 2 ^ (BITS * (n - k))
           new(k) == IF k > L + 1 THEN 0 ELSE t[k] * 2 ^ (BITS * (n - k))
           e == b * 2 ^ (BITS * (n - (L + 1)))
<1>1. L \in 0 .. 3 /\ Len(t) = L + 1
  <2>1. L \in Nat /\ Len(t) = L + 1 OBVIOUS
  <2>2. L < n OBVIOUS
  <2> HIDE DEF L, t
  <2> QED BY <2>1, <2>2
<1>2. \A k \in 1 .. 4 : k <= n => 2 ^ (BITS * (n - k)) \in Int
  <2> SUFFICES ASSUME NEW k \in 1 .. 4, k <= n PROVE 2 ^ (BITS * (n - k)) \in Int
    OBVIOUS
  <2>1. n - k \in Nat OBVIOUS
  <2>2. BITS * (n - k) \in Nat BY <2>1, ParserConstants
  <2>3. \A m \in Nat : 2 ^ m \in Int OBVIOUS
  <2> QED BY <2>2, <2>3
<1>3. \A k \in 1 .. 4 : k <= L => bits[k] \in Int /\ t[k] = bits[k] OBVIOUS
<1>4. t[L + 1] = b OBVIOUS
<1>5. e \in Int
  <2>1. L + 1 \in 1 .. 4 /\ L + 1 <= n BY <1>1
  <2>2. 2 ^ (BITS * (n - (L + 1))) \in Int BY <1>2, <2>1
  <2>3. \A z \in Int : b * z \in Int OBVIOUS
  <2> QED BY <2>2, <2>3
<1>6. Spelled(bits, n) = old(1) + old(2) + old(3) + old(4) BY DEF Spelled
<1>7. Spelled(t, n) = new(1) + new(2) + new(3) + new(4) BY <1>1 DEF Spelled
<1>8. ASSUME NEW k \in 1 .. 4
      PROVE  old(k) \in Int /\ new(k) = old(k) + (IF k = L + 1 THEN e ELSE 0)
  <2>1. CASE k <= L
    <3>1. 2 ^ (BITS * (n - k)) \in Int BY <1>2, <2>1, <1>1
    <3>2. ~(k > L) /\ ~(k > L + 1) /\ k # L + 1 BY <1>1, <2>1
    <3>3. \A z, u \in Int : z * u \in Int /\ z * u = z * u + 0 OBVIOUS
    <3> HIDE DEF L, t
    <3> QED BY <1>3, <2>1, <3>1, <3>2, <3>3
  <2>2. CASE k = L + 1
    <3>1. k > L /\ ~(k > L + 1) BY <1>1, <2>2
    <3>2. new(k) = e BY <1>4, <2>2, <3>1
    <3>3. old(k) = 0 BY <3>1
    <3>4. e = 0 + e BY <1>5
    <3> HIDE DEF new, old, e
    <3> QED BY <2>2, <3>2, <3>3, <3>4
  <2>3. CASE k > L + 1
    <3>1. k > L /\ k # L + 1 BY <1>1, <2>3
    <3> QED BY <2>3, <3>1
  <2> QED BY <1>1, <2>1, <2>2, <2>3
<1>9. 1 \in 1 .. 4 /\ 2 \in 1 .. 4 /\ 3 \in 1 .. 4 /\ 4 \in 1 .. 4 OBVIOUS
<1>10. L + 1 \in 1 .. 4 BY <1>1
<1> HIDE DEF old, new, e
<1>11. new(1) + new(2) + new(3) + new(4) = old(1) + old(2) + old(3) + old(4) + e
  <2> DEFINE m == L + 1
  <2>1. m \in 1 .. 4 BY <1>10
  <2>2. \A k \in 1 .. 4 : old(k) \in Int /\ new(k) = old(k) + (IF k = m THEN e ELSE 0) BY <1>8
  <2> HIDE DEF m, L
  <2> QED BY <1>5, <1>9, <2>1, <2>2, SMTT(30)
<1> QED BY <1>6, <1>7, <1>11 DEF e, t, L

(* The code point so far is that of the bytes so far. *)
LEMMA UnicodeStep == ASSUME UnicodeInv, NEW c, flanterm_putchar(c) PROVE UnicodeInv'
<1>1. ASSUME unicode_remaining' = 0 PROVE UnicodeInv' BY <1>1 DEF UnicodeInv
<1>2. CASE Discard(c) BY <1>1, <1>2 DEF Discard
<1>3. CASE Byte(c) BY <1>1, <1>3 DEF Byte
<1>4. CASE Start(c)
  <2> DEFINE r == Lead[c]  one == <<1>>
  <2>1. r \in 1 .. 3 BY <1>4, UnicodeBytes DEF Start
  <2>2. unicode_remaining' = r /\ code_point' = 2 ^ (BITS * r) /\ utf8' = one BY <1>4 DEF Start
  <2>3. one \in Seq({0, 1}) /\ Len(one) = 1 /\ one[1] = 1 OBVIOUS
  <2> HIDE DEF r, one
  <2>4. 2 ^ (BITS * r) \in Int
    <3>1. BITS * r \in Nat BY <2>1, ParserConstants
    <3>2. \A m \in Nat : 2 ^ m \in Int OBVIOUS
    <3> QED BY <3>1, <3>2
  <2>5. Spelled(one, 1 + r) = 2 ^ (BITS * r)
    <3>1. (1 + r) - 1 = r BY <2>1
    <3>2. Spelled(one, 1 + r) = 1 * 2 ^ (BITS * r) + 0 + 0 + 0 BY <2>3, <3>1 DEF Spelled
    <3>3. \A z \in Int : 1 * z + 0 + 0 + 0 = z OBVIOUS
    <3> QED BY <2>4, <3>2, <3>3
  <2> QED BY <2>1, <2>2, <2>3, <2>5 DEF UnicodeInv
<1>5. CASE Continue(c) /\ unicode_remaining' # 0
  <2> DEFINE b == Bit[c]  r == unicode_remaining  n == Len(utf8) + r  t == Append(utf8, b)
  <2>1. b \in {0, 1} /\ r # 0 BY <1>5, UnicodeBytes DEF Continue, Continues
  <2>2. /\ r \in 1 .. 3 /\ utf8 \in Seq({0, 1}) /\ Len(utf8) \in 1 .. 3 /\ n <= 4
        /\ code_point = Spelled(utf8, n)
    BY <2>1 DEF UnicodeInv
  <2>3. /\ unicode_remaining' = r - 1 /\ utf8' = t
        /\ code_point' = code_point + b * 2 ^ (BITS * unicode_remaining')
    BY <1>5 DEF Continue
  <2>4. t \in Seq({0, 1}) /\ Len(t) = Len(utf8) + 1 BY <2>1, <2>2
  <2>5. n \in 1 .. 4 /\ Len(utf8) < n /\ n - (Len(utf8) + 1) = r - 1 /\ Len(t) + (r - 1) = n
    BY <2>2, <2>4
  <2>6. Spelled(t, n) = Spelled(utf8, n) + b * 2 ^ (BITS * (n - (Len(utf8) + 1)))
    BY <2>1, <2>2, <2>5, SpelledNext
  <2>7. code_point' = Spelled(t, n) BY <2>2, <2>3, <2>5, <2>6
  <2>8. r - 1 \in 0 .. 3 /\ r - 1 # 0 BY <1>5, <2>2, <2>3
  <2>9. Len(t) \in 1 .. 3 /\ Len(t) + (r - 1) <= 4 BY <2>2, <2>4, <2>5, <2>8
  <2> HIDE DEF n, t, r, b
  <2> QED BY <2>3, <2>4, <2>5, <2>7, <2>8, <2>9 DEF UnicodeInv
<1>6. CASE Continue(c) /\ unicode_remaining' = 0 BY <1>1, <1>6
<1> QED
  BY <1>2, <1>3, <1>4, <1>5, <1>6
  DEF flanterm_putchar, osc_parse, SecondBracket, QuestionMark, DigitRead, Semicolon, Final,
      Introducer, Reinit, escape_parse, SelectSet, Escape, Shift, Character, InSequence, InEscape,
      Ground

(* The character sets. *)
LEMMA SetsStep == ASSUME SetsInv, NEW c, flanterm_putchar(c) PROVE SetsInv'
<1> USE DEF SetsInv, sets
<1>1. CASE Discard(c) BY <1>1 DEF Discard
<1>2. CASE Continue(c) BY <1>2 DEF Continue
<1>3. CASE Start(c) BY <1>3 DEF Start
<1>4. CASE osc_parse(c) BY <1>4 DEF osc_parse
<1>5. CASE SecondBracket(c) BY <1>5 DEF SecondBracket
<1>6. CASE QuestionMark(c) BY <1>6 DEF QuestionMark
<1>7. CASE DigitRead(c) BY <1>7 DEF DigitRead
<1>8. CASE Semicolon(c) BY <1>8 DEF Semicolon
<1>9. CASE Final(c) BY <1>9 DEF Final
<1>10. CASE Introducer(c) BY <1>10 DEF Introducer
<1>11. CASE Reinit(c) BY <1>11 DEF Reinit
<1>12. CASE escape_parse(c) BY <1>12 DEF escape_parse
<1>13. CASE SelectSet(c) BY <1>13 DEF SelectSet
<1>14. CASE Escape(c) BY <1>14 DEF Escape
<1>15. CASE Shift(c) BY <1>15 DEF Shift
<1>16. CASE Character(c) BY <1>16 DEF Character
<1> QED
  BY <1>1, <1>2, <1>3, <1>4, <1>5, <1>6, <1>7, <1>8, <1>9, <1>10, <1>11, <1>12, <1>13, <1>14,
     <1>15, <1>16 DEF flanterm_putchar

(* The values keep up with the text. *)
LEMMA ValuesStep == ASSUME FlagsInv, ValuesInv, NEW c, flanterm_putchar(c) PROVE ValuesInv'
<1>1. ASSUME UNCHANGED <<rrr, esc_values, esc_values_i, typed>>,
             control_sequence' => control_sequence, control_sequence' \in BOOLEAN
      PROVE  ValuesInv'
  <2>1. CASE control_sequence' BY <1>1, <2>1 DEF ValuesInv
  <2>2. CASE ~control_sequence' BY <1>1, <2>2 DEF ValuesInv
  <2> QED BY <2>1, <2>2
<1>flags. FlagsInv' BY FlagsStep
<1>2. CASE Discard(c) BY <1>1, <1>2 DEF Discard, values
<1>3. CASE Continue(c) BY <1>1, <1>3, <1>flags DEF Continue, values, ghosts, sequence, FlagsInv
<1>4. CASE Start(c) BY <1>1, <1>4, <1>flags DEF Start, values, ghosts, sequence, FlagsInv
<1>5. CASE osc_parse(c) BY <1>1, <1>5, <1>flags DEF osc_parse, ghosts, FlagsInv
<1>6. CASE SecondBracket(c) BY <1>1, <1>6, <1>flags DEF SecondBracket, Closed, ghosts, FlagsInv
<1>7. CASE QuestionMark(c) BY <1>1, <1>7, <1>flags DEF QuestionMark, sequence, FlagsInv
<1>8. CASE DigitRead(c)
  <2>1. control_sequence /\ c \in DOMAIN Digit /\ typed' = Append(typed, c)
        /\ esc_values_i' = esc_values_i
    BY <1>8 DEF DigitRead, InSequence
  <2>2. ValuesSoFar(typed, rrr, esc_values_i, esc_values) BY <2>1 DEF ValuesInv
  <2>3. IF esc_values_i = MAX_ESC_VALUES THEN rrr' = rrr /\ esc_values' = esc_values
        ELSE /\ rrr' = TRUE
             /\ esc_values' = [esc_values EXCEPT ![esc_values_i] =
                                   (esc_values[esc_values_i] * 10 + Digit[c]) % WORD]
    BY <1>8 DEF DigitRead, Full
  <2>4. ValuesSoFar(Append(typed, c), rrr', esc_values_i, esc_values')
    BY <2>1, <2>2, <2>3, DigitAdds DEF ValuesInv
  <2>5. c \in Typeable BY <2>1 DEF Typeable
  <2>6. typed' \in Seq(Typeable) BY <2>1, <2>5 DEF ValuesInv
  <2>7. esc_values' \in [0 .. MAX_ESC_VALUES - 1 -> 0 .. WORD - 1]
    <3>1. CASE esc_values_i = MAX_ESC_VALUES BY <2>3, <3>1 DEF ValuesInv
    <3>2. CASE esc_values_i # MAX_ESC_VALUES
      <4> DEFINE i == esc_values_i  sum == (esc_values[i] * 10 + Digit[c]) % WORD
      <4>1. i \in 0 .. MAX_ESC_VALUES - 1 BY <3>2, ParserConstants DEF ValuesInv
      <4>2. esc_values[i] \in Nat
        <5>1. \A w \in 0 .. WORD - 1 : w \in Nat BY ParserConstants
        <5> QED BY <4>1, <5>1 DEF ValuesInv
      <4>3. Digit[c] \in Nat BY <2>1, DigitType
      <4>4. sum \in 0 .. WORD - 1
        <5>1. \A a, d \in Nat : (a * 10 + d) % WORD \in 0 .. WORD - 1 BY ParserConstants
        <5> QED BY <4>2, <4>3, <5>1
      <4>5. esc_values' = [esc_values EXCEPT ![i] = sum] BY <2>3, <3>2
      <4> HIDE DEF sum
      <4> QED BY <4>1, <4>4, <4>5 DEF ValuesInv
    <3> QED BY <3>1, <3>2
  <2>8. rrr' \in BOOLEAN /\ (rrr' => esc_values_i < MAX_ESC_VALUES)
    <3>1. esc_values_i \in 0 .. MAX_ESC_VALUES BY DEF ValuesInv
    <3>2. CASE esc_values_i = MAX_ESC_VALUES BY <2>3, <3>2 DEF ValuesInv
    <3>3. CASE esc_values_i # MAX_ESC_VALUES BY <2>3, <3>1, <3>3, ParserConstants
    <3> QED BY <3>2, <3>3
  <2> QED BY <2>1, <2>4, <2>6, <2>7, <2>8 DEF ValuesInv
<1>9. CASE Semicolon(c)
  <2>1. control_sequence /\ c = "semicolon" /\ typed' = Append(typed, c) /\ rrr' = FALSE
    BY <1>9 DEF Semicolon, InSequence
  <2>2. ValuesSoFar(typed, rrr, esc_values_i, esc_values) BY <2>1 DEF ValuesInv
  <2>3. IF rrr THEN esc_values_i' = esc_values_i + 1 /\ esc_values' = esc_values
        ELSE IF esc_values_i = MAX_ESC_VALUES
        THEN esc_values_i' = esc_values_i /\ esc_values' = esc_values
        ELSE /\ esc_values_i' = esc_values_i + 1
             /\ esc_values' = [esc_values EXCEPT ![esc_values_i] = 0]
    BY <1>9 DEF Semicolon, Full
  <2>4. ValuesSoFar(Append(typed, c), FALSE, esc_values_i', esc_values')
    BY <2>1, <2>2, <2>3, SemicolonCloses DEF ValuesInv
  <2>5. c \in Typeable BY <2>1 DEF Typeable
  <2>6. typed' \in Seq(Typeable) BY <2>1, <2>5 DEF ValuesInv
  <2>7. esc_values' \in [0 .. MAX_ESC_VALUES - 1 -> 0 .. WORD - 1]
    <3>1. 0 \in 0 .. WORD - 1 BY ParserConstants
    <3> QED BY <2>3, <3>1 DEF ValuesInv
  <2>8. esc_values_i' \in 0 .. MAX_ESC_VALUES
    <3>1. esc_values_i \in 0 .. MAX_ESC_VALUES /\ (rrr => esc_values_i < MAX_ESC_VALUES)
      BY DEF ValuesInv
    <3>2. CASE rrr \/ esc_values_i # MAX_ESC_VALUES
      <4>1. esc_values_i' = esc_values_i + 1 BY <2>3, <3>2
      <4> QED BY <3>1, <3>2, <4>1, ParserConstants
    <3>3. CASE ~(rrr \/ esc_values_i # MAX_ESC_VALUES) BY <2>3, <3>1, <3>3
    <3> QED BY <3>2, <3>3
  <2> QED BY <2>1, <2>4, <2>6, <2>7, <2>8 DEF ValuesInv
<1>10. CASE Final(c)
  <2>1. /\ rrr' = FALSE /\ esc_values_i' = Count /\ esc_values' = Given /\ typed' = <<>>
        /\ control_sequence' = FALSE
    BY <1>10 DEF Final, Closed
  <2>2. Count \in 0 .. MAX_ESC_VALUES BY ParserConstants DEF Count, ValuesInv
  <2>3. Given \in [0 .. MAX_ESC_VALUES - 1 -> 0 .. WORD - 1]
    <3>1. 1 \in 0 .. WORD - 1 BY ParserConstants
    <3> QED BY <3>1 DEF Given, ValuesInv
  <2>4. <<>> \in Seq(Typeable) OBVIOUS
  <2> QED BY <2>1, <2>2, <2>3, <2>4 DEF ValuesInv
<1>11. CASE Introducer(c)
  <2>1. /\ rrr' = FALSE /\ esc_values_i' = 0 /\ typed' = <<>>
        /\ esc_values' = [i \in 0 .. MAX_ESC_VALUES - 1 |-> 0]
    BY <1>11 DEF Introducer
  <2>2. ValuesSoFar(<<>>, rrr', 0, esc_values') BY <2>1, NoValues
  <2>3. esc_values' \in [0 .. MAX_ESC_VALUES - 1 -> 0 .. WORD - 1]
    <3>1. 0 \in 0 .. WORD - 1 BY ParserConstants
    <3> QED BY <2>1, <3>1
  <2>4. <<>> \in Seq(Typeable) /\ 0 \in 0 .. MAX_ESC_VALUES BY ParserConstants
  <2> QED BY <2>1, <2>2, <2>3, <2>4 DEF ValuesInv
<1>12. CASE Reinit(c)
  <2>1. 0 \in 0 .. MAX_ESC_VALUES BY ParserConstants
  <2> QED BY <1>12, <2>1 DEF Reinit, ValuesInv
<1>13. CASE escape_parse(c) BY <1>1, <1>13, <1>flags DEF escape_parse, ghosts, FlagsInv
<1>14. CASE SelectSet(c) BY <1>1, <1>14, <1>flags DEF SelectSet, values, ghosts, sequence, FlagsInv
<1>15. CASE Escape(c) BY <1>1, <1>15, <1>flags DEF Escape, ghosts, FlagsInv
<1>16. CASE Shift(c) BY <1>1, <1>16, <1>flags DEF Shift, values, ghosts, sequence, FlagsInv
<1>17. CASE Character(c) BY <1>1, <1>17, <1>flags DEF Character, values, ghosts, sequence, FlagsInv
<1> QED
  BY <1>2, <1>3, <1>4, <1>5, <1>6, <1>7, <1>8, <1>9, <1>10, <1>11, <1>12, <1>13, <1>14,
     <1>15, <1>16, <1>17 DEF flanterm_putchar

(* What a byte other than the last one of a sequence or of a character of  *)
(* UTF-8 tells.                                                            *)
Quiet == done[1] \in {"nothing", "escape", "print"}

(* Such a byte claims nothing of a value or a character. *)
LEMMA QuietExact == Quiet => ValuesExact /\ PrivateOnlyIf /\ UnicodeExact
BY DEF Quiet, ValuesExact, PrivateOnlyIf, UnicodeExact

(* Every byte but a last one is quiet. *)
LEMMA OthersQuiet ==
    ASSUME NEW c, flanterm_putchar(c), ~Continue(c), ~Final(c) PROVE Quiet'
<1>1. done' = Nothing \/ done' = <<"escape", c>> \/ done' = <<"print", charsets[current_charset], c>>
  <2>1. CASE Discard(c) BY <2>1 DEF Discard
  <2>2. CASE Start(c) BY <2>2 DEF Start
  <2>3. CASE osc_parse(c) BY <2>3 DEF osc_parse
  <2>4. CASE SecondBracket(c) BY <2>4 DEF SecondBracket
  <2>5. CASE QuestionMark(c) BY <2>5 DEF QuestionMark
  <2>6. CASE DigitRead(c) BY <2>6 DEF DigitRead
  <2>7. CASE Semicolon(c) BY <2>7 DEF Semicolon
  <2>8. CASE Introducer(c) BY <2>8 DEF Introducer
  <2>9. CASE Reinit(c) BY <2>9 DEF Reinit
  <2>10. CASE escape_parse(c) BY <2>10 DEF escape_parse
  <2>11. CASE SelectSet(c) BY <2>11 DEF SelectSet
  <2>12. CASE Escape(c) BY <2>12 DEF Escape
  <2>13. CASE Shift(c) BY <2>13 DEF Shift
  <2>14. CASE Character(c) BY <2>14 DEF Character
  <2> QED
    BY <2>1, <2>2, <2>3, <2>4, <2>5, <2>6, <2>7, <2>8, <2>9, <2>10, <2>11, <2>12, <2>13, <2>14
    DEF flanterm_putchar
<1> QED BY <1>1 DEF Quiet, Nothing

(* The last byte of a character of UTF-8 tells the code point it spells. *)
LEMMA ContinueExact ==
    ASSUME UnicodeInv, NEW c, Continue(c) PROVE ValuesExact' /\ PrivateOnlyIf' /\ UnicodeExact'
<1>1. CASE unicode_remaining' # 0
  <2>1. Quiet' BY <1>1 DEF Continue, Quiet, Nothing
  <2> QED BY <2>1, QuietExact DEF Quiet, ValuesExact, PrivateOnlyIf, UnicodeExact
<1>2. CASE unicode_remaining' = 0
  <2> DEFINE b == Bit[c]  t == Append(utf8, b)
  <2>1. b \in {0, 1} /\ unicode_remaining = 1
    BY <1>2, UnicodeBytes DEF Continue, Continues, UnicodeInv
  <2>2. /\ utf8 \in Seq({0, 1}) /\ Len(utf8) \in 1 .. 3
        /\ code_point = Spelled(utf8, Len(utf8) + 1)
    BY <2>1 DEF UnicodeInv
  <2>3. code_point' = code_point + b * 2 ^ (BITS * 0) /\ done' = <<"unicode", code_point', t>>
    BY <1>2 DEF Continue
  <2>4. Len(t) = Len(utf8) + 1 BY <2>1, <2>2
  <2> DEFINE n == Len(utf8) + 1
  <2>5. n \in 2 .. 4 /\ n \in 1 .. 4 /\ Len(utf8) < n /\ n - (Len(utf8) + 1) = 0
    <3> DEFINE l == Len(utf8)
    <3>1. l \in 1 .. 3 /\ n = l + 1 BY <2>2
    <3> HIDE DEF l, n
    <3>2. n \in 2 .. 4 /\ n \in 1 .. 4 /\ l < n /\ n - (l + 1) = 0 BY <3>1
    <3> QED BY <3>2 DEF l
  <2>6. Spelled(t, n) = Spelled(utf8, n) + b * 2 ^ (BITS * (n - (Len(utf8) + 1)))
    BY <2>1, <2>2, <2>5, SpelledNext
  <2>7. code_point' = Spelled(t, Len(t)) /\ Len(t) \in 2 .. 4 BY <2>2, <2>3, <2>4, <2>5, <2>6
  <2> HIDE DEF t, n, b
  <2>8. done'[1] = "unicode" /\ done'[2] = code_point' /\ done'[3] = t BY <2>3
  <2> QED BY <2>7, <2>8 DEF ValuesExact, PrivateOnlyIf, UnicodeExact
<1> QED BY <1>1, <1>2

(* The last byte of a control sequence finds the values of its text. *)
LEMMA FinalExact ==
    ASSUME PrivateInv, ValuesInv, NEW c, Final(c)
    PROVE  ValuesExact' /\ PrivateOnlyIf' /\ UnicodeExact'
<1> DEFINE kind == IF dec_private THEN "private" ELSE "control"
           n == FieldOf(typed, Len(typed) + 1)
<1>1. control_sequence BY DEF Final, InSequence
<1>2. done' = <<kind, c, Count, Given, typed, private_begun, cancelled>> BY DEF Final
<1>3. /\ done'[1] = kind /\ done'[3] = Count /\ done'[4] = Given /\ done'[5] = typed
      /\ done'[6] = private_begun /\ done'[7] = cancelled
  BY <1>2
<1>4. kind \in {"private", "control"} /\ kind # "unicode" OBVIOUS
<1>5. /\ esc_values_i = IF n < MAX_ESC_VALUES THEN n ELSE MAX_ESC_VALUES
      /\ rrr <=> EndsInDigit(typed) /\ n < MAX_ESC_VALUES
      /\ \A j \in 0 .. MAX_ESC_VALUES - 1 : esc_values[j] = Number(typed, j)
  BY <1>1 DEF ValuesInv, ValuesSoFar
<1>6. n \in Nat
  <2>1. Len(typed) + 1 \in Nat BY DEF ValuesInv
  <2> QED BY <2>1, FieldType
<1>7. Count = Fields(typed)
  <2> DEFINE m == n + (IF EndsInDigit(typed) THEN 1 ELSE 0)
  <2>1. Fields(typed) = IF m > MAX_ESC_VALUES THEN MAX_ESC_VALUES ELSE m
    BY DEF Fields, EndsInDigit
  <2> HIDE DEF n
  <2>2. CASE EndsInDigit(typed)
    <3>1. m = n + 1 BY <2>2
    <3>2. CASE n < MAX_ESC_VALUES
      <4>1. Count = n + 1 BY <1>5, <2>2, <3>2 DEF Count
      <4>2. ~(m > MAX_ESC_VALUES) BY <1>6, <3>1, <3>2, ParserConstants
      <4> QED BY <2>1, <3>1, <4>1, <4>2
    <3>3. CASE ~(n < MAX_ESC_VALUES)
      <4>1. Count = MAX_ESC_VALUES BY <1>5, <3>3 DEF Count
      <4>2. m > MAX_ESC_VALUES BY <1>6, <3>1, <3>3, ParserConstants
      <4> QED BY <2>1, <4>1, <4>2
    <3> QED BY <3>2, <3>3
  <2>3. CASE ~EndsInDigit(typed)
    <3>1. m = n BY <1>6, <2>3
    <3>2. Count = IF n < MAX_ESC_VALUES THEN n ELSE MAX_ESC_VALUES BY <1>5, <2>3 DEF Count
    <3> HIDE DEF m
    <3> QED BY <1>6, <2>1, <3>1, <3>2, ParserConstants
  <2> QED BY <2>2, <2>3
<1>8. ASSUME NEW i \in 0 .. MAX_ESC_VALUES - 1
      PROVE  Given[i] = IF i < Count THEN Number(typed, i) ELSE 1
  BY <1>5 DEF Given, ValuesInv
<1>9. dec_private <=> private_begun \/ cancelled BY <1>1 DEF PrivateInv
<1>10. ValuesExact' BY <1>3, <1>7, <1>8 DEF ValuesExact
<1>11. kind = "private" <=> dec_private OBVIOUS
<1>12. PrivateOnlyIf' BY <1>3, <1>9, <1>11 DEF PrivateOnlyIf
<1>13. UnicodeExact' BY <1>3, <1>4 DEF UnicodeExact
<1> QED BY <1>10, <1>12, <1>13

(* The terminal begins in a state of the invariant, ... *)
LEMMA ParserInitInv == ParserInit => ParserInv
<1> SUFFICES ASSUME ParserInit PROVE ParserInv
  OBVIOUS
<1>1. FlagsInv BY DEF ParserInit, FlagsInv
<1>2. PrivateInv
  <2>1. /\ dec_private = FALSE /\ private_begun = FALSE /\ cancelled = FALSE
        /\ control_sequence = FALSE /\ escape_offset = 0
    BY DEF ParserInit
  <2>2. escape_offset \in 0 .. 3 BY <2>1
  <2> QED BY <2>1, <2>2 DEF PrivateInv
<1>3. ValuesInv
  <2>1. 0 \in 0 .. WORD - 1 /\ 0 \in 0 .. MAX_ESC_VALUES /\ <<>> \in Seq(Typeable)
    BY ParserConstants
  <2> QED BY <2>1 DEF ParserInit, ValuesInv
<1>4. UnicodeInv BY DEF ParserInit, UnicodeInv
<1>5. SetsInv BY DEF ParserInit, SetsInv
<1>6. Quiet BY DEF ParserInit, Quiet, Nothing
<1> QED BY <1>1, <1>2, <1>3, <1>4, <1>5, <1>6, QuietExact DEF ParserInv

(* ... and every byte keeps to it. *)
LEMMA ParserStep == ParserInv /\ [ParserNext]_parser => ParserInv'
<1> SUFFICES ASSUME ParserInv, [ParserNext]_parser PROVE ParserInv'
  OBVIOUS
<1>1. ASSUME NEW c, flanterm_putchar(c) PROVE ParserInv'
  <2>1. FlagsInv' /\ PrivateInv' /\ ValuesInv' /\ UnicodeInv' /\ SetsInv'
    BY <1>1, FlagsStep, PrivateStep, ValuesStep, UnicodeStep, SetsStep DEF ParserInv
  <2>2. ValuesExact' /\ PrivateOnlyIf' /\ UnicodeExact'
    <3>1. CASE Continue(c) BY <3>1, ContinueExact DEF ParserInv
    <3>2. CASE Final(c) BY <3>2, FinalExact DEF ParserInv
    <3>3. CASE ~Continue(c) /\ ~Final(c)
      <4>1. Quiet' BY <1>1, <3>3, OthersQuiet
      <4> QED BY <4>1 DEF Quiet, ValuesExact, PrivateOnlyIf, UnicodeExact
    <3> QED BY <3>1, <3>2, <3>3
  <2> QED BY <2>1, <2>2 DEF ParserInv
<1>2. CASE UNCHANGED parser
  <2>1. UNCHANGED <<sequence, values, dec_private, unicode, sets, ghosts, done>>
    BY <1>2 DEF parser
  <2>2. FlagsInv' BY <2>1 DEF ParserInv, FlagsInv, sequence
  <2>3. PrivateInv' BY <2>1 DEF ParserInv, PrivateInv, sequence, values, ghosts
  <2>4. ValuesInv' BY <2>1 DEF ParserInv, ValuesInv, sequence, values, ghosts
  <2>5. UnicodeInv' BY <2>1 DEF ParserInv, UnicodeInv, unicode
  <2>6. SetsInv' BY <2>1 DEF ParserInv, SetsInv, sets
  <2>7. ValuesExact' /\ PrivateOnlyIf' /\ UnicodeExact'
    BY <2>1 DEF ParserInv, ValuesExact, PrivateOnlyIf, UnicodeExact
  <2> QED BY <2>2, <2>3, <2>4, <2>5, <2>6, <2>7 DEF ParserInv
<1> QED BY <1>1, <1>2 DEF ParserNext

(* flanterm.c reads its input exactly: for texts of any length, any number *)
(* of values and any width of a word.                                      *)
THEOREM InputIsExact == ParserSpec => []InputExact
<1>1. ParserInv => InputExact
  <2> SUFFICES ASSUME ParserInv PROVE InputExact
    OBVIOUS
  <2>1. ParserTypeOK
    BY DEF ParserInv, FlagsInv, PrivateInv, ValuesInv, UnicodeInv, SetsInv, ParserTypeOK
  <2>2. GroundClean BY DEF ParserInv, FlagsInv, PrivateInv, GroundClean
  <2> QED BY <2>1, <2>2 DEF ParserInv, InputExact
<1> QED BY <1>1, ParserInitInv, ParserStep, PTL DEF ParserSpec

-----------------------------------------------------------------------------
(* Characters with their colours, the items of the queue, and the buffers: *)
(* the map points from each cell to its own item, and no cell has two.     *)
Styles == [c : Chars, fg : Pens, bg : Pens]
Items == [x : 0 .. cols - 1, y : 0 .. rows - 1, c : Styles]
Raw == [queue : Seq(Items), map : [Cells -> Nat]]
ItemCell(q) == At(q.x, q.y)

InOrder(b) ==
    /\ b \in Raw
    /\ \A i \in Cells : b.map[i] # 0 =>
           b.map[i] \in 1 .. Len(b.queue) /\ ItemCell(b.queue[b.map[i]]) = i
    /\ \A k \in 1 .. Len(b.queue) : b.map[ItemCell(b.queue[k])] = k

GridType == grid \in [Cells -> Styles]

(* A cell has one row and one column. *)
LEMMA CellAt ==
    ASSUME ScreenNumbers, NEW a \in 0 .. cols - 1, NEW d \in 0 .. rows - 1
    PROVE  At(a, d) \in Cells /\ At(a, d) \div cols = d /\ At(a, d) % cols = a
<1>1. cols \in Nat \ {0} /\ rows \in Nat \ {0} /\ a \in Nat /\ d \in Nat /\ d < rows
  BY DEF ScreenNumbers
<1>2. At(a, d) \div cols = d /\ At(a, d) % cols = a BY <1>1, Recovers DEF At
<1> DEFINE m == d * cols  n == rows * cols
<1>3. m \in Nat /\ n \in Nat /\ m + cols <= n BY <1>1, Multiples
<1> HIDE DEF m, n
<1>4. m + a \in 0 .. n - 1 BY <1>1, <1>3
<1> QED BY <1>2, <1>4 DEF m, n, At, Cells

(* Every cell is one of a row and a column. *)
LEMMA CellPlace ==
    ASSUME ScreenNumbers, NEW i \in Cells
    PROVE  /\ i \in Nat /\ i % cols \in 0 .. cols - 1 /\ i \div cols \in 0 .. rows - 1
           /\ At(i % cols, i \div cols) = i
<1>1. cols \in Nat \ {0} /\ rows \in Nat \ {0} BY DEF ScreenNumbers
<1>2. rows * cols \in Nat BY <1>1
<1>3. i \in Nat /\ i < rows * cols BY <1>2 DEF Cells
<1> DEFINE q == i \div cols  r == i % cols
<1>4. q \in Nat /\ r \in 0 .. cols - 1 /\ i = cols * q + r BY <1>1, <1>3
<1> HIDE DEF q, r
<1>5. cols * q = q * cols BY <1>1, <1>4
<1>6. q < rows
  <2> SUFFICES ASSUME ~(q < rows) PROVE FALSE OBVIOUS
  <2> DEFINE m == q * cols  n == rows * cols
  <2>1. n <= m
    <3>1. CASE q = rows BY <1>2, <3>1
    <3>2. CASE q # rows
      <4>1. rows < q BY <1>1, <1>4, <3>2
      <4>2. n + cols <= m /\ m \in Nat /\ n \in Nat BY <1>1, <1>4, <4>1, Multiples
      <4> HIDE DEF m, n
      <4> QED BY <1>1, <4>2
    <3> QED BY <3>1, <3>2
  <2>2. i = m + r /\ m \in Nat /\ n \in Nat /\ i < n BY <1>1, <1>2, <1>3, <1>4, <1>5
  <2> HIDE DEF m, n
  <2> QED BY <1>4, <2>1, <2>2
<1>7. At(r, q) = i BY <1>4, <1>5 DEF At
<1> QED BY <1>1, <1>3, <1>4, <1>6, <1>7 DEF q, r

(* The same screen is the back end's and the front end's.                   *)
LEMMA ScreenSized == ASSUME FbTermNumbers PROVE ScreenNumbers
BY DEF FbTermNumbers

(* A push makes the cell look as it says, and changes no other: it keeps   *)
(* the queue and the map in order, whether it changes an item, finds the   *)
(* cell as it should be, or adds an item.                                  *)
LEMMA PushChanges ==
    ASSUME FbTermNumbers, GridType, NEW b, InOrder(b), NEW ch \in Styles,
           NEW a \in 0 .. cols - 1, NEW d \in 0 .. rows - 1
    PROVE  LET q == push_to_queue(b, ch, a, d)
           IN  /\ InOrder(q)
               /\ \A i \in Cells : Current(q, i) = IF i = At(a, d) THEN ch ELSE Current(b, i)
<1> DEFINE q == push_to_queue(b, ch, a, d)  j == At(a, d)  L == Len(b.queue)
<1>1. j \in Cells BY CellAt, ScreenSized
<1>2. ~(a >= cols \/ d >= rows)
  BY DEF FbTermNumbers, ScreenNumbers
<1>3. b \in Raw /\ b.queue \in Seq(Items) /\ b.map \in [Cells -> Nat] /\ b = [queue |-> b.queue, map |-> b.map]
  BY DEF InOrder, Raw
<1>4. L \in Nat /\ \A k \in 1 .. L : b.queue[k] \in Items
  BY <1>3, LenProperties, ElementOfSeq
<1>5. \A e \in Items : ItemCell(e) \in Cells /\ e.c \in Styles
  <2> SUFFICES ASSUME NEW e \in Items PROVE ItemCell(e) \in Cells /\ e.c \in Styles OBVIOUS
  <2>1. e.x \in 0 .. cols - 1 /\ e.y \in 0 .. rows - 1 /\ e.c \in Styles BY DEF Items
  <2> QED BY <2>1, CellAt, ScreenSized DEF ItemCell
<1>6. CASE b.map[j] # 0
  <2> DEFINE m == b.map[j]  e == [b.queue[m] EXCEPT !.c = ch]  new == [b.queue EXCEPT ![m] = e]
  <2>1. m \in 1 .. L /\ ItemCell(b.queue[m]) = j BY <1>1, <1>6 DEF InOrder
  <2>2. e \in Items /\ e.c = ch /\ ItemCell(e) = j BY <1>4, <2>1 DEF Items, ItemCell
  <2>3. q = [queue |-> new, map |-> b.map]
    <3>1. q = [b EXCEPT !.queue[m].c = ch] BY <1>2, <1>6 DEF push_to_queue
    <3>2. q = [b EXCEPT !.queue = new] BY <3>1
    <3> HIDE DEF q, new
    <3> QED BY <1>3, <3>2
  <2> HIDE DEF e
  <2>4. new \in Seq(Items) /\ Len(new) = L /\ \A k \in 1 .. L : new[k] = IF k = m THEN e ELSE b.queue[k]
    BY <1>3, <2>1, <2>2, ExceptSeq
  <2> HIDE DEF new, q
  <2>5. q.queue = new /\ q.map = b.map BY <2>3
  <2>6. q \in Raw BY <1>3, <2>3, <2>4 DEF Raw
  <2>7. \A k \in 1 .. L : ItemCell(new[k]) = ItemCell(b.queue[k]) BY <2>1, <2>2, <2>4
  <2>8. InOrder(q)
    <3>1. ASSUME NEW i \in Cells, q.map[i] # 0
          PROVE  q.map[i] \in 1 .. Len(q.queue) /\ ItemCell(q.queue[q.map[i]]) = i
      BY <2>4, <2>5, <2>7, <3>1 DEF InOrder
    <3>2. ASSUME NEW k \in 1 .. Len(q.queue) PROVE q.map[ItemCell(q.queue[k])] = k
      BY <2>4, <2>5, <2>7 DEF InOrder
    <3> QED BY <2>6, <3>1, <3>2 DEF InOrder
  <2>9. ASSUME NEW i \in Cells PROVE Current(q, i) = IF i = j THEN ch ELSE Current(b, i)
    <3>1. CASE i = j BY <1>6, <2>1, <2>2, <2>4, <2>5, <3>1 DEF Current
    <3>2. CASE i # j /\ b.map[i] # 0
      <4>1. b.map[i] \in 1 .. L /\ ItemCell(b.queue[b.map[i]]) = i BY <3>2 DEF InOrder
      <4>2. b.map[i] # m BY <2>1, <3>2, <4>1
      <4> QED BY <2>4, <2>5, <3>2, <4>1, <4>2 DEF Current
    <3>3. CASE i # j /\ b.map[i] = 0 BY <2>5, <3>3 DEF Current
    <3> QED BY <3>1, <3>2, <3>3
  <2> QED BY <2>8, <2>9 DEF q
<1>7. CASE b.map[j] = 0 /\ grid[j] = ch
  <2>1. q = b BY <1>2, <1>7 DEF push_to_queue
  <2>2. Current(b, j) = ch BY <1>7 DEF Current
  <2> QED BY <2>1, <2>2
<1>8. CASE b.map[j] = 0 /\ grid[j] # ch
  <2> DEFINE e == [x |-> a, y |-> d, c |-> ch]  new == Append(b.queue, e)  to == [b.map EXCEPT ![j] = L + 1]
  <2>1. q = [queue |-> new, map |-> to] BY <1>2, <1>8 DEF push_to_queue
  <2>2. e \in Items /\ ItemCell(e) = j /\ e.c = ch BY DEF Items, ItemCell
  <2> HIDE DEF e, q
  <2>3. /\ new \in Seq(Items) /\ Len(new) = L + 1 /\ new[L + 1] = e
        /\ \A k \in 1 .. L : new[k] = b.queue[k]
    BY <1>3, <2>2, AppendProperties
  <2>4. to \in [Cells -> Nat] /\ \A i \in Cells : to[i] = IF i = j THEN L + 1 ELSE b.map[i]
    BY <1>1, <1>3, <1>4
  <2> HIDE DEF new, to
  <2>5. q.queue = new /\ q.map = to BY <2>1
  <2>6. q \in Raw BY <2>1, <2>3, <2>4 DEF Raw
  <2>7. InOrder(q)
    <3>1. ASSUME NEW i \in Cells, q.map[i] # 0
          PROVE  q.map[i] \in 1 .. Len(q.queue) /\ ItemCell(q.queue[q.map[i]]) = i
      <4>1. CASE i = j BY <1>4, <2>2, <2>3, <2>4, <2>5, <4>1
      <4>2. CASE i # j
        <5>1. b.map[i] \in 1 .. L /\ ItemCell(b.queue[b.map[i]]) = i BY <2>4, <2>5, <3>1, <4>2 DEF InOrder
        <5>2. b.map[i] \in 1 .. L + 1 BY <1>4, <5>1
        <5> QED BY <2>3, <2>4, <2>5, <4>2, <5>1, <5>2
      <4> QED BY <4>1, <4>2
    <3>2. ASSUME NEW k \in 1 .. Len(q.queue) PROVE q.map[ItemCell(q.queue[k])] = k
      <4>1. CASE k = L + 1 BY <1>1, <2>2, <2>3, <2>4, <2>5, <4>1
      <4>2. CASE k # L + 1
        <5>1. k \in 1 .. L BY <1>4, <2>3, <2>5, <4>2
        <5>2. b.map[ItemCell(b.queue[k])] = k /\ ItemCell(b.queue[k]) \in Cells
          BY <1>4, <1>5, <5>1 DEF InOrder
        <5>3. ItemCell(b.queue[k]) # j BY <1>8, <5>1, <5>2
        <5> QED BY <2>3, <2>4, <2>5, <5>1, <5>2, <5>3
      <4> QED BY <4>1, <4>2
    <3> QED BY <2>6, <3>1, <3>2 DEF InOrder
  <2>8. ASSUME NEW i \in Cells PROVE Current(q, i) = IF i = j THEN ch ELSE Current(b, i)
    <3>1. CASE i = j
      <4>1. L + 1 # 0 BY <1>4
      <4> QED BY <2>2, <2>3, <2>4, <2>5, <3>1, <4>1 DEF Current
    <3>2. CASE i # j /\ b.map[i] # 0
      <4>1. b.map[i] \in 1 .. L BY <3>2 DEF InOrder
      <4> QED BY <2>3, <2>4, <2>5, <3>2, <4>1 DEF Current
    <3>3. CASE i # j /\ b.map[i] = 0 BY <2>4, <2>5, <3>3 DEF Current
    <3> QED BY <3>1, <3>2, <3>3
  <2> QED BY <2>7, <2>8 DEF q
<1> QED BY <1>6, <1>7, <1>8

(* The history of a loop of N steps, from b0 on. *)
History(v, B, N, b0, step) ==
    v \in [0 .. N -> B] /\ v[0] = b0 /\ \A k \in 1 .. N : v[k] = step[<<k, v[k - 1]>>]

(* A loop of N steps has a history: there is one as far as any step. *)
LEMMA Loop ==
    ASSUME NEW B, NEW N \in Nat, NEW b0 \in B, NEW step \in [(1 .. N) \X B -> B]
    PROVE  \E v : History(v, B, N, b0, step)
<1> DEFINE upto(k, v) == History(v, B, k, b0, step)
           good == {k \in 0 .. N : \E v : upto(k, v)}
<1>1. 0 \in good
  <2> DEFINE z == [n \in 0 .. 0 |-> b0]
  <2>1. upto(0, z) BY DEF History
  <2>2. 0 \in 0 .. N OBVIOUS
  <2> HIDE DEF upto, z
  <2> QED BY <2>1, <2>2
<1>2. ASSUME NEW k \in 1 .. N, k - 1 \in good PROVE k \in good
  <2>1. PICK v : upto(k - 1, v) BY <1>2
  <2> DEFINE e == step[<<k, v[k - 1]>>]
             w == [n \in 0 .. k |-> IF n = k THEN e ELSE v[n]]
  <2>2. k \in 0 .. N /\ k \in Nat /\ k # 0 /\ k - 1 \in 0 .. k - 1 OBVIOUS
  <2>3. \A n \in 0 .. k : n # k => n \in 0 .. k - 1 BY <2>2
  <2>4. <<k, v[k - 1]>> \in (1 .. N) \X B BY <2>1, <2>2 DEF History
  <2>5. e \in B BY <2>4
  <2> HIDE DEF e
  <2>6. w \in [0 .. k -> B] BY <2>1, <2>3, <2>5 DEF History
  <2>7. w[k] = e /\ \A n \in 0 .. k - 1 : w[n] = v[n] BY <2>2
  <2> HIDE DEF w
  <2>8. w[0] = b0 BY <2>1, <2>2, <2>7 DEF History
  <2>9. ASSUME NEW n \in 1 .. k PROVE w[n] = step[<<n, w[n - 1]>>]
    <3>1. n - 1 \in 0 .. k - 1 /\ n \in 0 .. k BY <2>2
    <3>2. w[n - 1] = v[n - 1] BY <2>7, <3>1
    <3>3. CASE n = k BY <2>7, <3>2, <3>3 DEF e
    <3>4. CASE n # k
      <4>1. n \in 1 .. k - 1 /\ n \in 0 .. k - 1 BY <2>3, <3>1, <3>4
      <4> QED BY <2>1, <2>7, <3>2, <4>1 DEF History
    <3> QED BY <3>3, <3>4
  <2>10. upto(k, w) BY <2>6, <2>8, <2>9 DEF History
  <2> HIDE DEF upto
  <2> QED BY <2>2, <2>10
<1>3. N \in good
  <2> HIDE DEF good
  <2>1. \A k \in 0 .. N : k \in good BY <1>1, <1>2, UpTo
  <2> QED BY <2>1
<1> QED BY <1>3

Ordered == {b \in Raw : InOrder(b)}

(* n pushes of the empty character empty n cells and change no other. *)
LEMMA PushEmptyRuns ==
    ASSUME FbTermNumbers, GridType, Empty \in Styles, NEW b, InOrder(b),
           NEW first \in Nat, NEW n \in Nat, first + n <= rows * cols
    PROVE  LET q == PushEmpty(b, first, n)
           IN  /\ InOrder(q)
               /\ \A i \in Cells : Current(q, i) =
                      IF i \in first .. first + n - 1 THEN Empty ELSE Current(b, i)
<1> DEFINE B == Ordered
           to(k) == first + k - 1
           push(k, q) == push_to_queue(q, Empty, to(k) % cols, to(k) \div cols)
           step == [p \in (1 .. n) \X B |-> push(p[1], p[2])]
<1>1. rows * cols \in Nat BY DEF FbTermNumbers, ScreenNumbers
<1>2. \A k \in 1 .. n : to(k) \in Cells BY <1>1 DEF Cells
<1>3. ASSUME NEW k \in 1 .. n, NEW q, InOrder(q)
      PROVE  /\ InOrder(push(k, q))
             /\ \A i \in Cells : Current(push(k, q), i) = IF i = to(k) THEN Empty ELSE Current(q, i)
  <2> DEFINE j == to(k)
  <2>1. j \in Cells BY <1>2
  <2> HIDE DEF j
  <2>2. j % cols \in 0 .. cols - 1 /\ j \div cols \in 0 .. rows - 1 /\ At(j % cols, j \div cols) = j
    BY <2>1, CellPlace, ScreenSized
  <2> DEFINE r == push_to_queue(q, Empty, j % cols, j \div cols)
  <2>3. InOrder(r) /\ \A i \in Cells : Current(r, i) = IF i = j THEN Empty ELSE Current(q, i)
    BY <1>3, <2>2, PushChanges
  <2> QED BY <2>3 DEF j
<1>4. b \in B BY DEF Ordered, InOrder
<1>5. step \in [(1 .. n) \X B -> B]
  <2> SUFFICES ASSUME NEW p \in (1 .. n) \X B PROVE push(p[1], p[2]) \in B OBVIOUS
  <2>1. p[1] \in 1 .. n /\ InOrder(p[2]) BY DEF Ordered
  <2> HIDE DEF push
  <2>2. InOrder(push(p[1], p[2])) BY <1>3, <2>1
  <2> QED BY <2>2 DEF Ordered, InOrder
<1>6. PICK after : /\ after = [k \in 0 .. n |-> IF k = 0 THEN b ELSE push(k, after[k - 1])]
                   /\ PushEmpty(b, first, n) = after[n]
  <2>1. PICK v : History(v, B, n, b, step)
    <3> HIDE DEF step, B
    <3> QED BY <1>4, <1>5, Loop
  <2>2. \A k \in 1 .. n : v[k] = push(k, v[k - 1])
    <3> SUFFICES ASSUME NEW k \in 1 .. n PROVE v[k] = push(k, v[k - 1]) OBVIOUS
    <3>1. <<k, v[k - 1]>> \in (1 .. n) \X B BY <2>1 DEF History
    <3> HIDE DEF push, B
    <3> QED BY <2>1, <3>1 DEF History
  <2>3. v = [k \in 0 .. n |-> IF k = 0 THEN b ELSE push(k, v[k - 1])]
    <3>1. \A k \in 0 .. n : k # 0 => k \in 1 .. n OBVIOUS
    <3>2. v = [k \in 0 .. n |-> v[k]] BY <2>1 DEF History
    <3> HIDE DEF push
    <3>3. \A k \in 0 .. n : v[k] = IF k = 0 THEN b ELSE push(k, v[k - 1]) BY <2>1, <2>2, <3>1 DEF History
    <3> QED BY <3>2, <3>3
  <2>4. \E w : w = [k \in 0 .. n |-> IF k = 0 THEN b ELSE push(k, w[k - 1])] BY <2>3
  <2> QED BY <2>4 DEF PushEmpty
<1>7. after[0] = b /\ \A k \in 1 .. n : after[k] = push(k, after[k - 1])
  <2> HIDE DEF push
  <2>1. 0 \in 0 .. n /\ \A k \in 1 .. n : k \in 0 .. n /\ k # 0 OBVIOUS
  <2> QED BY <1>6, <2>1
<1> DEFINE good == {k \in 0 .. n : /\ InOrder(after[k])
                                   /\ \A i \in Cells : Current(after[k], i) =
                                         IF i \in first .. first + k - 1 THEN Empty ELSE Current(b, i)}
<1> HIDE DEF push
<1>8. 0 \in good
  <2>1. \A i \in Cells : i \notin first .. first + 0 - 1 BY <1>1 DEF Cells
  <2> QED BY <1>7, <2>1
<1>9. ASSUME NEW k \in 1 .. n, k - 1 \in good PROVE k \in good
  <2> DEFINE q == after[k - 1]  r == after[k]
  <2>1. InOrder(q) /\ \A i \in Cells : Current(q, i) =
            IF i \in first .. first + (k - 1) - 1 THEN Empty ELSE Current(b, i)
    BY <1>9
  <2>2. r = push(k, q) BY <1>7
  <2> HIDE DEF q
  <2>3. InOrder(r) /\ \A i \in Cells : Current(r, i) = IF i = to(k) THEN Empty ELSE Current(q, i)
    BY <1>3, <2>1, <2>2
  <2> HIDE DEF r
  <2>4. \A i \in Cells : i \in first .. first + k - 1 <=> i = to(k) \/ i \in first .. first + (k - 1) - 1
    BY <1>1 DEF Cells
  <2>5. \A i \in Cells : Current(r, i) = IF i \in first .. first + k - 1 THEN Empty ELSE Current(b, i)
    <3> HIDE DEF to
    <3> QED BY <2>1, <2>3, <2>4
  <2> QED BY <2>3, <2>5 DEF r
<1>10. n \in good
  <2> HIDE DEF good
  <2>1. \A k \in 0 .. n : k \in good BY <1>8, <1>9, UpTo
  <2> QED BY <2>1
<1> QED BY <1>6, <1>10

(* A cell of buffers in order has a style. *)
LEMMA CurrentStyle ==
    ASSUME FbTermNumbers, GridType, NEW b, InOrder(b), NEW i \in Cells
    PROVE  Current(b, i) \in Styles
<1>1. CASE b.map[i] # 0
  <2>1. b.map[i] \in 1 .. Len(b.queue) /\ b.queue \in Seq(Items) BY <1>1 DEF InOrder, Raw
  <2>2. b.queue[b.map[i]] \in Items BY <2>1, ElementOfSeq
  <2> QED BY <1>1, <2>2 DEF Current, Items
<1>2. CASE b.map[i] = 0 BY <1>2 DEF Current, GridType
<1> QED BY <1>1, <1>2

(* n pushes of cells move them by a row, to each cell what the one a row   *)
(* further held before the loop: no push overwrites what a later one reads. *)
LEMMA PushShiftedRuns ==
    ASSUME FbTermNumbers, GridType, NEW b, InOrder(b),
           NEW first \in Int, NEW n \in Nat, NEW dir \in {1, -1},
           \A k \in 1 .. n : /\ first + dir * (k - 1) \in Cells
                             /\ (first + dir * (k - 1)) - dir * cols \in Cells
    PROVE  LET q == PushShifted(b, first, n, dir)
           IN  /\ InOrder(q)
               /\ \A i \in Cells : Current(q, i) =
                      IF \E k \in 1 .. n : i = (first + dir * (k - 1)) - dir * cols
                      THEN Current(b, i + dir * cols) ELSE Current(b, i)
<1> DEFINE B == Ordered
           from(k) == first + dir * (k - 1)
           to(k) == from(k) - dir * cols
           push(k, q) == push_to_queue(q, Current(q, from(k)), to(k) % cols, to(k) \div cols)
           step == [p \in (1 .. n) \X B |-> push(p[1], p[2])]
<1>1. cols \in Nat \ {0} BY DEF FbTermNumbers, ScreenNumbers
<1>2. \A k \in 1 .. n : from(k) \in Cells /\ to(k) \in Cells OBVIOUS
<1>3. ASSUME NEW k \in 1 .. n, NEW q, InOrder(q)
      PROVE  /\ InOrder(push(k, q))
             /\ \A i \in Cells : Current(push(k, q), i) =
                    IF i = to(k) THEN Current(q, from(k)) ELSE Current(q, i)
  <2> DEFINE j == to(k)  s == from(k)
  <2>1. j \in Cells /\ s \in Cells BY <1>2
  <2> HIDE DEF j, s
  <2>2. j % cols \in 0 .. cols - 1 /\ j \div cols \in 0 .. rows - 1 /\ At(j % cols, j \div cols) = j
    BY <2>1, CellPlace, ScreenSized
  <2>3. Current(q, s) \in Styles BY <1>3, <2>1, CurrentStyle
  <2> DEFINE ch == Current(q, s)  r == push_to_queue(q, ch, j % cols, j \div cols)
  <2>4. InOrder(r) /\ \A i \in Cells : Current(r, i) = IF i = j THEN ch ELSE Current(q, i)
    <3> HIDE DEF ch
    <3> QED BY <1>3, <2>2, <2>3, PushChanges DEF ch
  <2> QED BY <2>4 DEF j, s
<1>4. b \in B BY DEF Ordered, InOrder
<1>5. step \in [(1 .. n) \X B -> B]
  <2> SUFFICES ASSUME NEW p \in (1 .. n) \X B PROVE push(p[1], p[2]) \in B OBVIOUS
  <2>1. p[1] \in 1 .. n /\ InOrder(p[2]) BY DEF Ordered
  <2> HIDE DEF push
  <2>2. InOrder(push(p[1], p[2])) BY <1>3, <2>1
  <2> QED BY <2>2 DEF Ordered, InOrder
<1>6. PICK after : /\ after = [k \in 0 .. n |-> IF k = 0 THEN b ELSE push(k, after[k - 1])]
                   /\ PushShifted(b, first, n, dir) = after[n]
  <2>1. PICK v : History(v, B, n, b, step)
    <3> HIDE DEF step, B
    <3> QED BY <1>4, <1>5, Loop
  <2>2. \A k \in 1 .. n : v[k] = push(k, v[k - 1])
    <3> SUFFICES ASSUME NEW k \in 1 .. n PROVE v[k] = push(k, v[k - 1]) OBVIOUS
    <3>1. <<k, v[k - 1]>> \in (1 .. n) \X B BY <2>1 DEF History
    <3> HIDE DEF push, B
    <3> QED BY <2>1, <3>1 DEF History
  <2>3. v = [k \in 0 .. n |-> IF k = 0 THEN b ELSE push(k, v[k - 1])]
    <3>1. \A k \in 0 .. n : k # 0 => k \in 1 .. n OBVIOUS
    <3>2. v = [k \in 0 .. n |-> v[k]] BY <2>1 DEF History
    <3> HIDE DEF push
    <3>3. \A k \in 0 .. n : v[k] = IF k = 0 THEN b ELSE push(k, v[k - 1]) BY <2>1, <2>2, <3>1 DEF History
    <3> QED BY <3>2, <3>3
  <2>4. \E w : w = [k \in 0 .. n |-> IF k = 0 THEN b ELSE push(k, w[k - 1])] BY <2>3
  <2> QED BY <2>4 DEF PushShifted
<1>7. after[0] = b /\ \A k \in 1 .. n : after[k] = push(k, after[k - 1])
  <2> HIDE DEF push
  <2>1. 0 \in 0 .. n /\ \A k \in 1 .. n : k \in 0 .. n /\ k # 0 OBVIOUS
  <2> QED BY <1>6, <2>1
<1> HIDE DEF push
<1> DEFINE good == {k \in 0 .. n : /\ InOrder(after[k])
                                   /\ \A i \in Cells : Current(after[k], i) =
                                         IF \E m \in 1 .. k : i = to(m)
                                         THEN Current(b, i + dir * cols) ELSE Current(b, i)}
<1>8. 0 \in good BY <1>7
<1>9. ASSUME NEW k \in 1 .. n, k - 1 \in good PROVE k \in good
  <2> DEFINE q == after[k - 1]  r == after[k]
  <2>1. InOrder(q) /\ \A i \in Cells : Current(q, i) =
            IF \E m \in 1 .. k - 1 : i = to(m) THEN Current(b, i + dir * cols) ELSE Current(b, i)
    BY <1>9
  <2>2. r = push(k, q) BY <1>7
  <2> HIDE DEF q
  <2>3. InOrder(r) /\ \A i \in Cells : Current(r, i) =
            IF i = to(k) THEN Current(q, from(k)) ELSE Current(q, i)
    BY <1>3, <2>1, <2>2
  <2> HIDE DEF r
  <2>4. \A m \in 1 .. k - 1 : from(k) # to(m)
    <3>1. CASE dir = 1 BY <1>1, <3>1
    <3>2. CASE dir = -1 BY <1>1, <3>2
    <3> QED BY <3>1, <3>2
  <2>5. to(k) + dir * cols = from(k)
    <3>1. CASE dir = 1 BY <1>1, <3>1
    <3>2. CASE dir = -1 BY <1>1, <3>2
    <3> QED BY <3>1, <3>2
  <2>6. k \in 1 .. k /\ \A m \in 1 .. k : m = k \/ m \in 1 .. k - 1 OBVIOUS
  <2>7. 1 .. k - 1 \subseteq 1 .. k OBVIOUS
  <2>8. from(k) \in Cells BY <1>2
  <2> HIDE DEF from, to
  <2>9. Current(q, from(k)) = Current(b, from(k)) BY <2>1, <2>4, <2>8
  <2>10. ASSUME NEW i \in Cells
        PROVE  Current(r, i) = IF \E m \in 1 .. k : i = to(m) THEN Current(b, i + dir * cols) ELSE Current(b, i)
    <3>1. CASE i = to(k) BY <2>3, <2>5, <2>6, <2>9, <3>1
    <3>2. CASE i # to(k)
      <4>1. (\E m \in 1 .. k : i = to(m)) <=> (\E m \in 1 .. k - 1 : i = to(m)) BY <2>6, <2>7, <3>2
      <4> QED BY <2>1, <2>3, <3>2, <4>1
    <3> QED BY <3>1, <3>2
  <2>11. k \in 0 .. n OBVIOUS
  <2> QED BY <2>3, <2>10, <2>11 DEF r
<1>10. n \in good
  <2> HIDE DEF good
  <2>1. \A k \in 0 .. n : k \in good BY <1>8, <1>9, UpTo
  <2> QED BY <2>1
<1> QED BY <1>6, <1>10

(* The rows from a on are the cells from a * cols on. *)
LEMMA RowFrom ==
    ASSUME FbTermNumbers, NEW i \in Cells, NEW a \in Nat
    PROVE  a * cols \in Nat /\ (a <= i \div cols <=> a * cols <= i)
<1>1. cols \in Nat \ {0} /\ rows \in Nat \ {0} /\ rows * cols \in Nat
  BY DEF FbTermNumbers, ScreenNumbers
<1>2. i \in Nat BY <1>1 DEF Cells
<1> DEFINE q == i \div cols  r == i % cols  m == q * cols  l == a * cols
<1>3. q \in Nat /\ r \in 0 .. cols - 1 /\ i = cols * q + r BY <1>1, <1>2
<1> HIDE DEF q, r
<1>4. m \in Nat /\ l \in Nat /\ i = m + r BY <1>1, <1>3
<1>5. a < q => l + cols <= m BY <1>1, <1>3, Multiples
<1>6. q < a => m + cols <= l BY <1>1, <1>3, Multiples
<1>7. a = q => l = m OBVIOUS
<1> HIDE DEF m, l
<1>8. a <= q <=> l <= i BY <1>1, <1>3, <1>4, <1>5, <1>6, <1>7
<1> QED BY <1>4, <1>8 DEF q, l

MarginsType == margins \in [top : 0 .. rows - 1, bottom : 1 .. rows, scroll_enabled : BOOLEAN]

(* The first cells of the region, and of its last row, and how many move. *)
LEMMA RegionCells ==
    ASSUME FbTermNumbers, MarginsType
    PROVE  /\ margins.top * cols \in Nat /\ (margins.bottom - 1) * cols \in Nat
           /\ margins.top * cols + cols <= rows * cols
           /\ (margins.bottom - 1) * cols + cols <= rows * cols
           /\ (margins.top + 1) * cols = margins.top * cols + cols
           /\ margins.bottom * cols = (margins.bottom - 1) * cols + cols
           /\ Moved = IF margins.bottom > margins.top
                      THEN (margins.bottom - 1) * cols - margins.top * cols ELSE 0
           /\ Moved \in Nat
<1> DEFINE t == margins.top  e == margins.bottom
<1>1. cols \in Nat \ {0} /\ rows \in Nat \ {0} BY DEF FbTermNumbers, ScreenNumbers
<1>2. t \in Nat /\ t < rows /\ e \in Nat /\ e - 1 \in Nat /\ e - 1 < rows
  BY <1>1 DEF MarginsType
<1>3. t * cols \in Nat /\ t * cols + cols <= rows * cols BY <1>1, <1>2, Multiples
<1>4. (e - 1) * cols \in Nat /\ (e - 1) * cols + cols <= rows * cols BY <1>1, <1>2, Multiples
<1>5. e * cols = (e - 1) * cols + cols /\ (t + 1) * cols = t * cols + cols
  <2> HIDE DEF e, t
  <2> QED BY <1>1, <1>2
<1>6. (e - t - 1) * cols = (e - 1) * cols - t * cols
  <2> HIDE DEF e, t
  <2> QED BY <1>1, <1>2
<1>7. Moved = IF e > t THEN (e - 1) * cols - t * cols ELSE 0 BY <1>6 DEF Moved
<1>8. Moved \in Nat
  <2> DEFINE d == e - t - 1
  <2>1. CASE e > t
    <3>1. d \in Nat BY <1>2, <2>1
    <3> HIDE DEF d
    <3>2. d * cols \in Nat BY <1>1, <3>1
    <3> QED BY <2>1, <3>2 DEF Moved, d
  <2>2. CASE ~(e > t) BY <2>2 DEF Moved
  <2> QED BY <2>1, <2>2
<1> HIDE DEF e, t
<1> QED BY <1>3, <1>4, <1>5, <1>7, <1>8 DEF e, t

(* What a scroll makes of each cell. *)
LEMMA ScrolledCells ==
    ASSUME FbTermNumbers, GridType, Empty \in Styles, MarginsType, NEW b, InOrder(b)
    PROVE  /\ InOrder(scrolled(b))
           /\ \A i \in Cells : Current(scrolled(b), i) =
                  IF i \div cols = margins.bottom - 1 THEN Empty
                  ELSE IF i \div cols \in margins.top .. margins.bottom - 2 THEN Current(b, i + cols)
                  ELSE Current(b, i)
<1> DEFINE t == margins.top  e == margins.bottom
           T == t * cols  E == (e - 1) * cols  N == rows * cols
           q == PushShifted(b, (t + 1) * cols, Moved, 1)
           r == PushEmpty(q, E, cols)
<1>1. cols \in Nat \ {0} /\ rows \in Nat \ {0} BY DEF FbTermNumbers, ScreenNumbers
<1>2. t \in Nat /\ e \in Nat /\ e - 1 \in Nat BY <1>1 DEF MarginsType
<1>3. /\ T \in Nat /\ E \in Nat /\ T + cols <= N /\ E + cols <= N /\ (t + 1) * cols = T + cols
      /\ e * cols = E + cols /\ Moved = IF e > t THEN E - T ELSE 0
      /\ Moved \in Nat
  BY RegionCells
<1>4. scrolled(b) = r BY DEF scrolled
<1>5. N \in Nat /\ Cells = 0 .. N - 1 BY <1>1 DEF Cells
<1>6. ASSUME NEW i \in Cells
      PROVE  (t <= i \div cols <=> T <= i) /\ (e - 1 <= i \div cols <=> E <= i)
             /\ (e <= i \div cols <=> E + cols <= i) /\ i \div cols \in Nat /\ i \in Nat
  <2>1. i \in Nat BY <1>5
  <2> QED BY <1>1, <1>2, <1>3, <2>1, RowFrom
<1> HIDE DEF T, E, N, t, e
<1>7. \A k \in 1 .. Moved : /\ ((t + 1) * cols) + 1 * (k - 1) \in Cells
                            /\ (((t + 1) * cols) + 1 * (k - 1)) - 1 * cols \in Cells
  BY <1>1, <1>3, <1>5
<1>8. /\ InOrder(q)
      /\ \A i \in Cells : Current(q, i) =
             IF \E k \in 1 .. Moved : i = (((t + 1) * cols) + 1 * (k - 1)) - 1 * cols
             THEN Current(b, i + 1 * cols) ELSE Current(b, i)
  <2>1. (t + 1) * cols \in Int /\ 1 \in {1, -1} BY <1>1, <1>3
  <2> QED BY <1>3, <1>7, <2>1, PushShiftedRuns, ZenonT(60)
<1> HIDE DEF q
<1>9. /\ InOrder(r)
      /\ \A i \in Cells : Current(r, i) = IF i \in E .. E + cols - 1 THEN Empty ELSE Current(q, i)
  BY <1>1, <1>3, <1>8, PushEmptyRuns DEF N
<1> HIDE DEF r
<1>10. ASSUME NEW i \in Cells
       PROVE  /\ i \div cols = e - 1 <=> i \in E .. E + cols - 1
              /\ i \div cols \in t .. e - 2 <=>
                     \E k \in 1 .. Moved : i = (((t + 1) * cols) + 1 * (k - 1)) - 1 * cols
              /\ i + 1 * cols = i + cols
  <2> DEFINE w == i \div cols
  <2>1. (t <= w <=> T <= i) /\ (e - 1 <= w <=> E <= i) /\ (e <= w <=> E + cols <= i) /\ w \in Nat /\ i \in Nat
    BY <1>6
  <2> HIDE DEF w
  <2>2. w = e - 1 <=> i \in E .. E + cols - 1 BY <1>1, <1>2, <1>3, <2>1
  <2>3. w \in t .. e - 2 <=> T <= i /\ i < E BY <1>1, <1>2, <1>3, <2>1
  <2>4. (\E k \in 1 .. Moved : i = (((t + 1) * cols) + 1 * (k - 1)) - 1 * cols) <=> T <= i /\ i < E /\ Moved # 0
    <3>1. ASSUME NEW k \in 1 .. Moved, i = (((t + 1) * cols) + 1 * (k - 1)) - 1 * cols
          PROVE  T <= i /\ i < E /\ Moved # 0
      BY <1>1, <1>2, <1>3, <2>1, <3>1
    <3>2. ASSUME T <= i, i < E, Moved # 0
          PROVE  i - T + 1 \in 1 .. Moved /\ i = (((t + 1) * cols) + 1 * ((i - T + 1) - 1)) - 1 * cols
      BY <1>1, <1>2, <1>3, <2>1, <3>2
    <3> QED BY <3>1, <3>2
  <2>5. Moved = 0 => ~(w \in t .. e - 2)
    BY <1>1, <1>2, <1>3, <2>1
  <2>6. i + 1 * cols = i + cols BY <1>1
  <2> QED BY <2>2, <2>3, <2>4, <2>5, <2>6 DEF w
<1>11. \A i \in Cells : Current(r, i) =
           IF i \div cols = e - 1 THEN Empty
           ELSE IF i \div cols \in t .. e - 2 THEN Current(b, i + cols) ELSE Current(b, i)
  BY <1>8, <1>9, <1>10
<1> QED BY <1>4, <1>9, <1>11 DEF t, e

(* What a reverse scroll makes of each cell. *)
LEMMA RevscrolledCells ==
    ASSUME FbTermNumbers, GridType, Empty \in Styles, MarginsType, NEW b, InOrder(b)
    PROVE  /\ InOrder(revscrolled(b))
           /\ \A i \in Cells : Current(revscrolled(b), i) =
                  IF i \div cols = margins.top THEN Empty
                  ELSE IF i \div cols \in margins.top + 1 .. margins.bottom - 1 THEN Current(b, i - cols)
                  ELSE Current(b, i)
<1> DEFINE t == margins.top  e == margins.bottom
           T == t * cols  E == (e - 1) * cols  N == rows * cols  first == E - 1
           q == PushShifted(b, first, Moved, -1)
           r == PushEmpty(q, T, cols)
<1>1. cols \in Nat \ {0} /\ rows \in Nat \ {0} BY DEF FbTermNumbers, ScreenNumbers
<1>2. t \in Nat /\ e \in Nat /\ e - 1 \in Nat BY <1>1 DEF MarginsType
<1>3. /\ T \in Nat /\ E \in Nat /\ T + cols <= N /\ E + cols <= N /\ (t + 1) * cols = T + cols
      /\ e * cols = E + cols /\ Moved = IF e > t THEN E - T ELSE 0
      /\ Moved \in Nat
  BY RegionCells
<1>4. revscrolled(b) = r BY DEF revscrolled
<1>5. N \in Nat /\ Cells = 0 .. N - 1 BY <1>1 DEF Cells
<1>6. ASSUME NEW i \in Cells
      PROVE  /\ t <= i \div cols <=> T <= i
             /\ t + 1 <= i \div cols <=> T + cols <= i
             /\ e <= i \div cols <=> E + cols <= i
             /\ i \div cols \in Nat /\ i \in Nat
  <2>1. i \in Nat /\ t + 1 \in Nat BY <1>2, <1>5
  <2> QED BY <1>1, <1>2, <1>3, <2>1, RowFrom
<1> HIDE DEF T, E, N, t, e
<1>7. first \in Int BY <1>3
<1>8. \A k \in 1 .. Moved : /\ first + (-1) * (k - 1) \in Cells
                            /\ (first + (-1) * (k - 1)) - (-1) * cols \in Cells
  BY <1>1, <1>3, <1>5
<1> HIDE DEF first
<1>9. /\ InOrder(q)
      /\ \A i \in Cells : Current(q, i) =
             IF \E k \in 1 .. Moved : i = (first + (-1) * (k - 1)) - (-1) * cols
             THEN Current(b, i + (-1) * cols) ELSE Current(b, i)
  <2>1. -1 \in {1, -1} OBVIOUS
  <2> QED BY <1>3, <1>7, <1>8, <2>1, PushShiftedRuns
<1> HIDE DEF q
<1>10. /\ InOrder(r)
       /\ \A i \in Cells : Current(r, i) = IF i \in T .. T + cols - 1 THEN Empty ELSE Current(q, i)
  BY <1>1, <1>3, <1>9, PushEmptyRuns DEF N
<1> HIDE DEF r
<1>11. ASSUME NEW i \in Cells
       PROVE  /\ i \div cols = t <=> i \in T .. T + cols - 1
              /\ i \div cols \in t + 1 .. e - 1 <=>
                     \E k \in 1 .. Moved : i = (first + (-1) * (k - 1)) - (-1) * cols
              /\ i + (-1) * cols = i - cols
  <2> DEFINE w == i \div cols
  <2>1. /\ t <= w <=> T <= i
        /\ t + 1 <= w <=> T + cols <= i
        /\ e <= w <=> E + cols <= i
        /\ w \in Nat /\ i \in Nat
    BY <1>6
  <2> HIDE DEF w
  <2>2. w = t <=> i \in T .. T + cols - 1 BY <1>1, <1>2, <1>3, <2>1
  <2>3. w \in t + 1 .. e - 1 <=> T + cols <= i /\ i < E + cols BY <1>1, <1>2, <1>3, <2>1
  <2>4. (\E k \in 1 .. Moved : i = (first + (-1) * (k - 1)) - (-1) * cols) <=>
            T + cols <= i /\ i < E + cols /\ Moved # 0
    <3>1. ASSUME NEW k \in 1 .. Moved, i = (first + (-1) * (k - 1)) - (-1) * cols
          PROVE  T + cols <= i /\ i < E + cols /\ Moved # 0
      BY <1>1, <1>2, <1>3, <2>1, <3>1 DEF first
    <3>2. ASSUME T + cols <= i, i < E + cols, Moved # 0
          PROVE  /\ E + cols - i \in 1 .. Moved
                 /\ i = (first + (-1) * ((E + cols - i) - 1)) - (-1) * cols
      BY <1>1, <1>2, <1>3, <2>1, <3>2 DEF first
    <3> QED BY <3>1, <3>2
  <2>5. Moved = 0 => ~(w \in t + 1 .. e - 1)
    BY <1>1, <1>2, <1>3, <2>1
  <2>6. i + (-1) * cols = i - cols BY <1>1, <2>1
  <2> QED BY <2>2, <2>3, <2>4, <2>5, <2>6 DEF w
<1>12. \A i \in Cells : Current(r, i) =
           IF i \div cols = t THEN Empty
           ELSE IF i \div cols \in t + 1 .. e - 1 THEN Current(b, i - cols) ELSE Current(b, i)
  BY <1>9, <1>10, <1>11
<1> QED BY <1>4, <1>10, <1>12 DEF t, e

(* A push off the screen is dropped. *)
LEMMA PushPuts ==
    ASSUME FbTermNumbers, GridType, NEW b, InOrder(b), NEW ch \in Styles, NEW a \in Nat, NEW d \in Nat
    PROVE  LET q == push_to_queue(b, ch, a, d)
           IN  /\ InOrder(q)
               /\ \A i \in Cells : Current(q, i) =
                      IF a < cols /\ d < rows /\ i = At(a, d) THEN ch ELSE Current(b, i)
<1>1. cols \in Nat \ {0} /\ rows \in Nat \ {0} BY DEF FbTermNumbers, ScreenNumbers
<1>2. CASE a < cols /\ d < rows
  <2>1. a \in 0 .. cols - 1 /\ d \in 0 .. rows - 1 BY <1>1, <1>2
  <2> QED BY <1>2, <2>1, PushChanges
<1>3. CASE ~(a < cols /\ d < rows)
  <2>1. a >= cols \/ d >= rows BY <1>1, <1>3
  <2>2. push_to_queue(b, ch, a, d) = b BY <2>1 DEF push_to_queue
  <2> QED BY <1>3, <2>2
<1> QED BY <1>2, <1>3

(* The queue has room: no cell has two items. *)
LEMMA BuffersFit ==
    ASSUME FbTermNumbers, NEW b, InOrder(b)
    PROVE  Len(b.queue) <= rows * cols
<1> DEFINE L == Len(b.queue)  N == rows * cols  place == [k \in 1 .. L |-> ItemCell(b.queue[k])]
<1>1. N \in Nat /\ Cells = 0 .. N - 1 BY DEF FbTermNumbers, ScreenNumbers, Cells
<1>2. b.queue \in Seq(Items) /\ L \in Nat BY LenProperties DEF InOrder, Raw
<1>3. \A k \in 1 .. L : ItemCell(b.queue[k]) \in Cells
  <2> SUFFICES ASSUME NEW k \in 1 .. L PROVE ItemCell(b.queue[k]) \in Cells OBVIOUS
  <2>1. b.queue[k] \in Items BY <1>2, ElementOfSeq
  <2>2. b.queue[k].x \in 0 .. cols - 1 /\ b.queue[k].y \in 0 .. rows - 1 BY <2>1 DEF Items
  <2> QED BY <2>2, CellAt, ScreenSized DEF ItemCell
<1>4. place \in Injection(1 .. L, Cells)
  <2>1. place \in [1 .. L -> Cells] BY <1>3
  <2>2. \A k, m \in 1 .. L : place[k] = place[m] => k = m BY DEF InOrder
  <2> QED BY <2>1, <2>2 DEF Injection, IsInjective
<1>5. IsFiniteSet(1 .. L) /\ Cardinality(1 .. L) = L BY <1>2, FS_Interval, SMTT(30)
<1>6. IsFiniteSet(Cells) /\ Cardinality(Cells) = N
  <2> HIDE DEF N
  <2>1. 0 \in Int /\ N - 1 \in Int BY <1>1
  <2>2. IsFiniteSet(0 .. N - 1) /\ Cardinality(0 .. N - 1) = IF 0 > N - 1 THEN 0 ELSE (N - 1) - 0 + 1
    BY <2>1, FS_Interval
  <2> QED BY <1>1, <2>2
<1> HIDE DEF place, L, N
<1>7. L <= N BY <1>4, <1>5, <1>6, FS_Injection
<1> QED BY <1>7 DEF L, N

(* Screens by their fields. *)
ScreenOf(cells, x, y, fg, bg, kept, m) ==
    [cells |-> cells, x |-> x, y |-> y, fg |-> fg, bg |-> bg, saved |-> kept,
     top |-> m.top, bottom |-> m.bottom, scroll_enabled |-> m.scroll_enabled]

(* The cells that buffers stand for. *)
Shown(b) == [i \in Cells |-> Current(b, i)]

(* The screen that the back end shows,                                     *)
LEMMA ScreenNow ==
    scr = ScreenOf(Shown(Buffers), cursor_x, cursor_y, text_fg, text_bg, saved_state, margins)
  BY DEF scr, ScreenOf, Shown

(* The screen that a call leaves. *)
LEMMA ScreenAfter ==
    ASSUME NEW b, Buffer(b), grid' = grid
    PROVE  scr' = ScreenOf(Shown(b), cursor_x', cursor_y', text_fg', text_bg', saved_state', margins')
<1>1. ASSUME NEW i \in Cells PROVE Current(Buffers, i)' = Current(b, i) BY DEF Current, Buffers, Buffer
<1>2. Shown(Buffers)' = Shown(b) BY <1>1 DEF Shown
<1>3. scr' = ScreenOf(Shown(Buffers)', cursor_x', cursor_y', text_fg', text_bg', saved_state', margins')
  BY DEF scr, ScreenOf, Shown
<1> QED BY <1>2, <1>3

(* Writing and reading one field. *)
LEMMA ScreenSets ==
    ASSUME NEW cells, NEW x, NEW y, NEW fg, NEW bg, NEW kept, NEW m, NEW v
    PROVE  LET s == ScreenOf(cells, x, y, fg, bg, kept, m)
           IN  /\ [s EXCEPT !.cells = v] = ScreenOf(v, x, y, fg, bg, kept, m)
               /\ [s EXCEPT !.x = v] = ScreenOf(cells, v, y, fg, bg, kept, m)
               /\ [s EXCEPT !.y = v] = ScreenOf(cells, x, v, fg, bg, kept, m)
               /\ [s EXCEPT !.fg = v] = ScreenOf(cells, x, y, v, bg, kept, m)
               /\ [s EXCEPT !.bg = v] = ScreenOf(cells, x, y, fg, v, kept, m)
               /\ [s EXCEPT !.saved = v] = ScreenOf(cells, x, y, fg, bg, v, m)
               /\ s.cells = cells /\ s.x = x /\ s.y = y /\ s.fg = fg /\ s.bg = bg /\ s.saved = kept
               /\ s.top = m.top /\ s.bottom = m.bottom /\ s.scroll_enabled = m.scroll_enabled
  BY DEF ScreenOf

(* What the operators of Screen make of a screen, field by field. *)
MovedUp(f, fg, bg, m) == [i \in Cells |->
    IF i \div cols = m.bottom - 1 THEN [c |-> Space, fg |-> fg, bg |-> bg]
    ELSE IF i \div cols \in m.top .. m.bottom - 2 THEN f[i + cols] ELSE f[i]]
MovedDown(f, fg, bg, m) == [i \in Cells |->
    IF i \div cols = m.top THEN [c |-> Space, fg |-> fg, bg |-> bg]
    ELSE IF i \div cols \in m.top + 1 .. m.bottom - 1 THEN f[i - cols] ELSE f[i]]
Written(f, e, a, d) == IF a < cols /\ d < rows THEN [f EXCEPT ![At(a, d)] = e] ELSE f
AllBlank(fg, bg) == [i \in Cells |-> [c |-> Space, fg |-> fg, bg |-> bg]]
Kept(x, y, fg, bg) == [x |-> x, y |-> y, fg |-> fg, bg |-> bg]

(* What the operators of Screen do to each field: scrolling,               *)
LEMMA ScreenScrolls ==
    ASSUME NEW f, NEW x, NEW y, NEW fg, NEW bg, NEW kept, NEW m
    PROVE  LET s == ScreenOf(f, x, y, fg, bg, kept, m)
           IN  /\ scroll(s) = ScreenOf(MovedUp(f, fg, bg, m), x, y, fg, bg, kept, m)
               /\ revscroll(s) = ScreenOf(MovedDown(f, fg, bg, m), x, y, fg, bg, kept, m)
<1> DEFINE s == ScreenOf(f, x, y, fg, bg, kept, m)
<1>1. /\ s.cells = f /\ s.fg = fg /\ s.bg = bg /\ s.top = m.top /\ s.bottom = m.bottom
      /\ \A v : [s EXCEPT !.cells = v] = ScreenOf(v, x, y, fg, bg, kept, m)
  BY ScreenSets
<1> HIDE DEF s
<1>2. Styled(s, Space) = [c |-> Space, fg |-> fg, bg |-> bg] BY <1>1 DEF Styled
<1>3. scroll(s) = [s EXCEPT !.cells = MovedUp(f, fg, bg, m)] BY <1>1, <1>2 DEF scroll, MovedUp
<1>4. revscroll(s) = [s EXCEPT !.cells = MovedDown(f, fg, bg, m)] BY <1>1, <1>2 DEF revscroll, MovedDown
<1> QED BY <1>1, <1>3, <1>4 DEF s

(* a character,                                                            *)
LEMMA ScreenPuts ==
    ASSUME NEW f, NEW x, NEW y, NEW fg, NEW bg, NEW kept, NEW m, NEW e, NEW a, NEW d
    PROVE  Put(ScreenOf(f, x, y, fg, bg, kept, m), e, a, d) =
               ScreenOf(Written(f, e, a, d), x, y, fg, bg, kept, m)
<1> DEFINE s == ScreenOf(f, x, y, fg, bg, kept, m)
<1>1. s.cells = f /\ \A v : [s EXCEPT !.cells = v] = ScreenOf(v, x, y, fg, bg, kept, m)
  BY ScreenSets
<1> HIDE DEF s
<1>2. Put(s, e, a, d) = IF a < cols /\ d < rows THEN [s EXCEPT !.cells = Written(f, e, a, d)] ELSE s
  BY <1>1 DEF Put, Written
<1> QED BY <1>1, <1>2 DEF s, Written

(* a clear screen,                                                         *)
LEMMA ScreenClears ==
    ASSUME NEW f, NEW x, NEW y, NEW fg, NEW bg, NEW kept, NEW m, NEW move \in BOOLEAN
    PROVE  clear(ScreenOf(f, x, y, fg, bg, kept, m), move) =
               ScreenOf(AllBlank(fg, bg), IF move THEN 0 ELSE x, IF move THEN 0 ELSE y, fg, bg, kept, m)
<1> DEFINE s == ScreenOf(f, x, y, fg, bg, kept, m)
           new == AllBlank(fg, bg)
           x1 == IF move THEN 0 ELSE x
           y1 == IF move THEN 0 ELSE y
           s1 == ScreenOf(new, x, y, fg, bg, kept, m)
           s2 == ScreenOf(new, x1, y, fg, bg, kept, m)
<1>1. s.x = x /\ s.y = y /\ s.fg = fg /\ s.bg = bg /\ [s EXCEPT !.cells = new] = s1 BY ScreenSets
<1>2. s1.x = x /\ s1.y = y /\ [s1 EXCEPT !.x = x1] = s2 BY ScreenSets
<1>3. s2.y = y /\ [s2 EXCEPT !.y = y1] = ScreenOf(new, x1, y1, fg, bg, kept, m) BY ScreenSets
<1> HIDE DEF s, s1, s2, new
<1>4. [i \in Cells |-> Styled(s, Space)] = new BY <1>1 DEF Styled, AllBlank, new
<1>5. clear(s, move) = [[[s EXCEPT !.cells = new] EXCEPT !.x = x1] EXCEPT !.y = y1]
  BY <1>1, <1>2, <1>3, <1>4 DEF clear
<1> QED BY <1>1, <1>2, <1>3, <1>5 DEF s, new

(* saving and restoring the state.                                         *)
LEMMA ScreenKeeps ==
    ASSUME NEW f, NEW x, NEW y, NEW fg, NEW bg, NEW kept, NEW m
    PROVE  LET s == ScreenOf(f, x, y, fg, bg, kept, m)
           IN  /\ save_state(s) = ScreenOf(f, x, y, fg, bg, Kept(x, y, fg, bg), m)
               /\ restore_state(s) = ScreenOf(f, kept.x, kept.y, kept.fg, kept.bg, kept, m)
<1> DEFINE s == ScreenOf(f, x, y, fg, bg, kept, m)
           s1 == ScreenOf(f, kept.x, y, fg, bg, kept, m)
           s2 == ScreenOf(f, kept.x, kept.y, fg, bg, kept, m)
           s3 == ScreenOf(f, kept.x, kept.y, kept.fg, bg, kept, m)
           s4 == ScreenOf(f, kept.x, kept.y, kept.fg, kept.bg, kept, m)
<1>1. s.x = x /\ s.y = y /\ s.fg = fg /\ s.bg = bg /\ s.saved = kept BY ScreenSets
<1>2. \A v : [s EXCEPT !.saved = v] = ScreenOf(f, x, y, fg, bg, v, m) BY ScreenSets
<1>3. [s EXCEPT !.x = kept.x] = s1 BY ScreenSets
<1>4. [s1 EXCEPT !.y = kept.y] = s2 BY ScreenSets
<1>5. [s2 EXCEPT !.fg = kept.fg] = s3 BY ScreenSets
<1>6. [s3 EXCEPT !.bg = kept.bg] = s4 BY ScreenSets
<1> HIDE DEF s, s1, s2, s3, s4
<1>7. save_state(s) = [s EXCEPT !.saved = Kept(x, y, fg, bg)] BY <1>1 DEF save_state, Kept
<1>8. restore_state(s) = s4 BY <1>1, <1>3, <1>4, <1>5, <1>6 DEF restore_state
<1> QED BY <1>2, <1>7, <1>8 DEF s, s4

(* A cell of the region that a scroll moves has its source on the screen. *)
LEMMA SourceStays ==
    ASSUME FbTermNumbers, MarginsType, NEW i \in Cells
    PROVE  /\ i \div cols \in margins.top .. margins.bottom - 2 => i + cols \in Cells
           /\ i \div cols \in margins.top + 1 .. margins.bottom - 1 => i - cols \in Cells
<1> DEFINE t == margins.top  e == margins.bottom
           T == t * cols  E == (e - 1) * cols  N == rows * cols  w == i \div cols
<1>1. cols \in Nat \ {0} /\ rows \in Nat \ {0} BY DEF FbTermNumbers, ScreenNumbers
<1>2. t \in Nat /\ e \in Nat /\ e - 1 \in Nat /\ t + 1 \in Nat BY <1>1 DEF MarginsType
<1>3. /\ T \in Nat /\ E \in Nat /\ E + cols <= N /\ (t + 1) * cols = T + cols BY RegionCells
<1>4. N \in Nat /\ Cells = 0 .. N - 1 BY <1>1 DEF Cells
<1>5. e - 1 <= w <=> E <= i BY <1>2, RowFrom
<1>6. t + 1 <= w <=> T + cols <= i BY <1>2, <1>3, RowFrom
<1>7. i \in Nat /\ w \in Nat
  <2>1. i \in Nat BY <1>4
  <2> QED BY <1>1, <2>1
<1> HIDE DEF T, E, N, t, e, w
<1>8. w \in t .. e - 2 => i + cols \in Cells BY <1>1, <1>2, <1>3, <1>4, <1>5, <1>7
<1>9. w \in t + 1 .. e - 1 => i - cols \in Cells BY <1>1, <1>2, <1>3, <1>4, <1>6, <1>7
<1> QED BY <1>8, <1>9 DEF t, e, w

(* The scrolls of the buffers are those of the screen. *)
LEMMA ScrollShows ==
    ASSUME FbTermNumbers, GridType, Empty \in Styles, MarginsType, NEW b, InOrder(b), NEW x, NEW y
    PROVE  LET s == ScreenOf(Shown(b), x, y, text_fg, text_bg, saved_state, margins)
           IN  /\ scroll(s) = ScreenOf(Shown(scrolled(b)), x, y, text_fg, text_bg, saved_state, margins)
               /\ revscroll(s) =
                      ScreenOf(Shown(revscrolled(b)), x, y, text_fg, text_bg, saved_state, margins)
<1> DEFINE f == Shown(b)  up == MovedUp(f, text_fg, text_bg, margins)  down == MovedDown(f, text_fg, text_bg, margins)
<1>1. \A i \in Cells : f[i] = Current(b, i) BY DEF Shown
<1> HIDE DEF f
<1>2. up = Shown(scrolled(b))
  <2>1. ASSUME NEW i \in Cells PROVE up[i] = Current(scrolled(b), i)
    BY <1>1, SourceStays, ScrolledCells DEF Empty, MovedUp
  <2> QED BY <2>1 DEF Shown, MovedUp
<1>3. down = Shown(revscrolled(b))
  <2>1. ASSUME NEW i \in Cells PROVE down[i] = Current(revscrolled(b), i)
    BY <1>1, SourceStays, RevscrolledCells DEF Empty, MovedDown
  <2> QED BY <2>1 DEF Shown, MovedDown
<1> QED BY <1>2, <1>3, ScreenScrolls DEF f

-----------------------------------------------------------------------------
(* The types of the back end; the cursor stays within the larger of the    *)
(* screen's dimensions, and so do the cursors that it keeps.               *)
Columns == 0 .. MAX_X
Lines == 0 .. (IF rows > cols THEN rows ELSE cols) - 1
FbTypes ==
    /\ GridType /\ InOrder(Buffers) /\ MarginsType
    /\ fb \in [Cells -> [Pixels -> Colours]]
    /\ cursor_x \in Columns /\ cursor_y \in Lines
    /\ old_cursor_x \in Columns /\ old_cursor_y \in Lines
    /\ text_fg \in Pens /\ text_bg \in Pens
    /\ saved_state \in [x : Columns, y : Lines, fg : Pens, bg : Pens]
    /\ shows_cursor \in BOOLEAN /\ open \in BOOLEAN

(* A call leaves the screen that Screen says, and buffers in order. *)
LEMMA PutcharShows ==
    ASSUME FbTermNumbers, FbTypes, NEW c \in Chars, flanterm_fb_raw_putchar(c)
    PROVE  /\ scr' = raw_putchar(scr, c)
           /\ InOrder([queue |-> queue', map |-> map'])
           /\ cursor_x' \in Columns /\ cursor_y' \in Lines
<1> DEFINE ch == [c |-> c, fg |-> text_fg, bg |-> text_bg]
           wraps == cursor_x >= cols /\ (cursor_y < margins.bottom - 1 \/ margins.scroll_enabled)
           scrolls == wraps /\ cursor_y + 1 = margins.bottom
           nx == IF wraps THEN 0 ELSE cursor_x
           low == IF wraps /\ ~scrolls THEN cursor_y + 1 ELSE cursor_y
           ny == IF wraps THEN Capped(low) ELSE low
           b == IF scrolls THEN scrolled(Buffers) ELSE Buffers
           q == push_to_queue(b, ch, nx, ny)
           On(cells, px, py) == ScreenOf(cells, px, py, text_fg, text_bg, saved_state, margins)
           s == On(Shown(Buffers), cursor_x, cursor_y)
           n == On(Shown(b), nx, ny)
<1>1. cols \in Nat \ {0} /\ rows \in Nat \ {0} /\ MAX_X \in Nat /\ Space \in Chars
  BY DEF FbTermNumbers, ScreenNumbers
<1>2. cursor_x \in Nat /\ cursor_y \in Nat
  BY <1>1 DEF FbTypes, Columns, Lines
<1>3. Empty \in Styles /\ ch \in Styles BY <1>1 DEF FbTypes, Empty, Styles
<1>4. InOrder(b)
  <2>1. InOrder(scrolled(Buffers)) BY <1>3, ScrolledCells DEF FbTypes
  <2> QED BY <2>1 DEF FbTypes
<1>5. nx \in Nat /\ ny \in Nat /\ ny \in Lines
  <2>1. margins.bottom \in 1 .. rows BY DEF FbTypes, MarginsType
  <2>2. CASE wraps
    <3>1. Capped(low) \in 0 .. cols - 1 BY <1>1, <1>2 DEF Capped
    <3> QED BY <1>1, <2>2, <3>1 DEF Lines
  <2>3. CASE ~wraps BY <1>2, <2>3 DEF FbTypes
  <2> QED BY <2>2, <2>3
<1>6. InOrder(q) /\ \A i \in Cells : Current(q, i) =
          IF nx < cols /\ ny < rows /\ i = At(nx, ny) THEN ch ELSE Current(b, i)
  <2> HIDE DEF ch, nx, ny, b
  <2> QED BY <1>3, <1>4, <1>5, PushPuts DEF FbTypes
<1>7. Buffer(q) /\ grid' = grid /\ SameText /\ nx < MAX_X /\ cursor_x' = nx + 1 /\ cursor_y' = ny
  BY DEF flanterm_fb_raw_putchar, Call
<1>8. scr = s BY ScreenNow
<1>9. scr' = On(Shown(q), nx + 1, ny)
  <2>1. scr' = ScreenOf(Shown(q), cursor_x', cursor_y', text_fg', text_bg', saved_state', margins')
    BY <1>7, ScreenAfter
  <2> QED BY <1>7, <2>1 DEF SameText
<1> HIDE DEF q
<1>10. n = IF NextRow(s) # s THEN LastRow(NextRow(s)) ELSE s
  <2> DEFINE v == On(Shown(Buffers), 0, cursor_y + 1)
  <2>1. s.x = cursor_x /\ s.y = cursor_y /\ s.bottom = margins.bottom /\ s.scroll_enabled = margins.scroll_enabled
    BY ScreenSets
  <2>2. CASE ~wraps
    <3>1. NextRow(s) = s
      <4> HIDE DEF s
      <4> QED BY <2>1, <2>2 DEF NextRow
    <3>2. n = s BY <2>2
    <3> QED BY <3>1, <3>2
  <2>3. CASE wraps
    <3>1. [s EXCEPT !.x = 0] = On(Shown(Buffers), 0, cursor_y) BY ScreenSets
    <3>2. [On(Shown(Buffers), 0, cursor_y) EXCEPT !.y = cursor_y + 1] = v BY ScreenSets
    <3>3. [s EXCEPT !.x = 0, !.y = @ + 1] = v
      <4> HIDE DEF s, v
      <4>1. [s EXCEPT !.x = 0, !.y = @ + 1] = [[s EXCEPT !.x = 0] EXCEPT !.y = s.y + 1] OBVIOUS
      <4> QED BY <2>1, <3>1, <3>2, <4>1
    <3>4. v.y = cursor_y + 1 /\ v.x = 0 BY ScreenSets
    <3>5. CASE ~scrolls
      <4>1. NextRow(s) = v
        <5> HIDE DEF s, v
        <5> QED BY <2>1, <2>3, <3>3, <3>4, <3>5 DEF NextRow
      <4>2. v # s
        <5> HIDE DEF s, v
        <5> QED BY <1>1, <1>2, <2>1, <2>3, <3>4
      <4>3. [v EXCEPT !.y = cols - 1] = On(Shown(Buffers), 0, cols - 1) BY ScreenSets
      <4>4. n = On(Shown(Buffers), 0, Capped(cursor_y + 1)) BY <2>3, <3>5
      <4>5. LastRow(v) = n
        <5>1. CASE cursor_y + 1 >= cols
          <6>1. LastRow(v) = [v EXCEPT !.y = cols - 1]
            <7> HIDE DEF v
            <7> QED BY <3>4, <5>1 DEF LastRow
          <6>2. Capped(cursor_y + 1) = cols - 1 BY <5>1 DEF Capped
          <6> HIDE DEF n, v
          <6> QED BY <4>3, <4>4, <6>1, <6>2
        <5>2. CASE ~(cursor_y + 1 >= cols)
          <6>1. LastRow(v) = v
            <7> HIDE DEF v
            <7> QED BY <3>4, <5>2 DEF LastRow
          <6>2. Capped(cursor_y + 1) = cursor_y + 1 BY <5>2 DEF Capped
          <6> HIDE DEF n
          <6> QED BY <4>4, <6>1, <6>2
        <5> QED BY <5>1, <5>2
      <4> HIDE DEF n, v, s
      <4> QED BY <4>1, <4>2, <4>5
    <3>6. CASE scrolls
      <4> DEFINE r == On(Shown(scrolled(Buffers)), 0, cursor_y)
      <4>1. (cursor_y + 1) - 1 = cursor_y BY <1>2
      <4>2. [v EXCEPT !.y = cursor_y] = On(Shown(Buffers), 0, cursor_y) BY ScreenSets
      <4>3. [v EXCEPT !.y = @ - 1] = [v EXCEPT !.y = cursor_y]
        <5> HIDE DEF v
        <5>1. v.y - 1 = cursor_y BY <3>4, <4>1
        <5> QED BY <5>1
      <4>4. scroll(On(Shown(Buffers), 0, cursor_y)) = r
        BY <1>3, ScrollShows DEF FbTypes
      <4>5. NextRow(s) = r
        <5> HIDE DEF s, v, r
        <5>1. NextRow(s) = scroll([v EXCEPT !.y = @ - 1]) BY <2>1, <2>3, <3>3, <3>4, <3>6 DEF NextRow
        <5> QED BY <4>2, <4>3, <4>4, <5>1
      <4>6. r.x = 0 /\ r.y = cursor_y /\ [r EXCEPT !.y = cols - 1] = On(Shown(scrolled(Buffers)), 0, cols - 1)
        BY ScreenSets
      <4>7. r # s
        <5> HIDE DEF s, r
        <5> QED BY <1>1, <1>2, <2>1, <2>3, <4>6
      <4>8. n = On(Shown(scrolled(Buffers)), 0, Capped(cursor_y)) BY <2>3, <3>6
      <4>9. LastRow(r) = n
        <5>1. CASE cursor_y >= cols
          <6>1. LastRow(r) = [r EXCEPT !.y = cols - 1]
            <7> HIDE DEF r
            <7> QED BY <4>6, <5>1 DEF LastRow
          <6>2. Capped(cursor_y) = cols - 1 BY <5>1 DEF Capped
          <6> HIDE DEF n, r
          <6> QED BY <4>6, <4>8, <6>1, <6>2
        <5>2. CASE ~(cursor_y >= cols)
          <6>1. LastRow(r) = r
            <7> HIDE DEF r
            <7> QED BY <4>6, <5>2 DEF LastRow
          <6>2. Capped(cursor_y) = cursor_y BY <5>2 DEF Capped
          <6> HIDE DEF n
          <6> QED BY <4>8, <6>1, <6>2
        <5> QED BY <5>1, <5>2
      <4> HIDE DEF n, r, s
      <4> QED BY <4>5, <4>7, <4>9
    <3> QED BY <3>5, <3>6
  <2> QED BY <2>2, <2>3
<1>11. raw_putchar(s, c) = On(Shown(q), nx + 1, ny)
  <2> DEFINE f == Shown(b)
  <2>1. f = [i \in Cells |-> f[i]] /\ \A i \in Cells : f[i] = Current(b, i) BY DEF Shown
  <2> HIDE DEF f
  <2>2. Written(f, ch, nx, ny) = Shown(q)
    <3> HIDE DEF nx, ny, ch
    <3>1. CASE nx < cols /\ ny < rows
      <4>1. [f EXCEPT ![At(nx, ny)] = ch] = [i \in Cells |-> IF i = At(nx, ny) THEN ch ELSE f[i]] BY <2>1
      <4>2. \A i \in Cells : Current(q, i) = IF i = At(nx, ny) THEN ch ELSE f[i] BY <1>6, <2>1, <3>1
      <4> QED BY <3>1, <4>1, <4>2 DEF Written, Shown
    <3>2. CASE ~(nx < cols /\ ny < rows)
      <4>1. \A i \in Cells : Current(q, i) = f[i] BY <1>6, <2>1, <3>2
      <4> QED BY <2>1, <3>2, <4>1 DEF Written, Shown
    <3> QED BY <3>1, <3>2
  <2>3. n.x = nx /\ n.y = ny /\ n.fg = text_fg /\ n.bg = text_bg
    BY ScreenSets
  <2>4. n = On(f, nx, ny) BY DEF f
  <2>5. Put(n, ch, nx, ny) = On(Shown(q), nx, ny)
    <3> HIDE DEF nx, ny, n, ch
    <3> QED BY <2>2, <2>4, ScreenPuts
  <2>6. Styled(n, c) = ch BY <2>3 DEF Styled
  <2>7. [On(Shown(q), nx, ny) EXCEPT !.x = nx + 1] = On(Shown(q), nx + 1, ny) BY ScreenSets
  <2> HIDE DEF n, s, nx, ny, ch
  <2>8. raw_putchar(s, c) = [Put(n, Styled(n, c), n.x, n.y) EXCEPT !.x = n.x + 1] BY <1>10 DEF raw_putchar
  <2> QED BY <2>3, <2>5, <2>6, <2>7, <2>8
<1>12. InOrder([queue |-> queue', map |-> map'])
  <2>1. q = [queue |-> q.queue, map |-> q.map] BY <1>6 DEF InOrder, Raw
  <2> QED BY <1>6, <1>7, <2>1 DEF Buffer
<1>13. cursor_x' \in Columns /\ cursor_y' \in Lines BY <1>1, <1>5, <1>7 DEF Columns
<1> QED BY <1>8, <1>9, <1>11, <1>12, <1>13

-----------------------------------------------------------------------------
(* What a flush draws. *)
Pictures == [Pixels -> Colours]
Displays == [grid : [Cells -> Styles], map : [Cells -> Nat], fb : [Cells -> Pictures]]
OldCursorAt(i) == old_cursor_x < cols /\ old_cursor_y < rows /\ i = At(old_cursor_x, old_cursor_y)
CursorAt(i) == shows_cursor /\ cursor_x < cols /\ cursor_y < rows /\ i = At(cursor_x, cursor_y)

(* The frame buffer shows the grid, but for the cursor as of the last      *)
(* flush; outside of a write nothing waits and the cursor is in its place. *)
FbPicture ==
    /\ \A i \in Cells : ~OldCursorAt(i) => fb[i] = plot_char(grid[i])
    /\ ~open => /\ queue = <<>> /\ \A i \in Cells : map[i] = 0
                /\ old_cursor_x = cursor_x /\ old_cursor_y = cursor_y
    /\ FlushShowsGrid

FbInv == FbTypes /\ FbPicture

(* A cell is drawn as pixels, inverted or not.                             *)
LEMMA PlotType ==
    ASSUME FbTermNumbers, NEW ch \in Styles
    PROVE  plot_char(ch) \in Pictures /\ Inverted(ch) \in Styles
<1>1. ch.fg \in Pens /\ ch.bg \in Pens /\ CANVAS \in Colours BY DEF Styles, FbTermNumbers
<1>2. Show(ch.fg) \in Colours /\ Show(ch.bg) \in Colours BY <1>1 DEF Show, Pens
<1>3. plot_char(ch) \in Pictures BY <1>2 DEF plot_char, Pictures
<1>4. Inverted(ch) \in Styles BY DEF Inverted, Styles
<1> QED BY <1>3, <1>4

(* With equal colours, the pixels in which the characters do not differ    *)
(* need not be drawn.                                                      *)
LEMMA FastIsRight ==
    ASSUME FbTermNumbers, NEW old \in Styles, NEW ch \in Styles, NEW picture \in Pictures
    PROVE  /\ plot_char_fast(picture, old, ch) \in Pictures
           /\ picture = plot_char(old) /\ ch.bg = old.bg /\ ch.fg = old.fg =>
                  plot_char_fast(picture, old, ch) = plot_char(ch)
<1>1. plot_char(ch) \in Pictures BY PlotType
<1>2. plot_char_fast(picture, old, ch) \in Pictures BY <1>1 DEF plot_char_fast, Pictures
<1>3. ASSUME picture = plot_char(old), ch.bg = old.bg, ch.fg = old.fg
      PROVE  plot_char_fast(picture, old, ch) = plot_char(ch)
  <2> DEFINE fast == plot_char_fast(picture, old, ch)
  <2>1. ASSUME NEW p \in Pixels PROVE fast[p] = plot_char(ch)[p]
    <3>1. CASE (p \in Font[old.c]) = (p \in Font[ch.c])
      <4>1. fast[p] = picture[p] BY <3>1 DEF plot_char_fast
      <4>2. picture[p] = IF p \in Font[old.c] THEN Show(old.fg) ELSE Show(old.bg) BY <1>3 DEF plot_char
      <4>3. plot_char(ch)[p] = IF p \in Font[ch.c] THEN Show(ch.fg) ELSE Show(ch.bg) BY DEF plot_char
      <4> QED BY <1>3, <3>1, <4>1, <4>2, <4>3
    <3>2. CASE (p \in Font[old.c]) # (p \in Font[ch.c]) BY <3>2 DEF plot_char_fast
    <3> QED BY <3>1, <3>2
  <2> HIDE DEF fast
  <2>2. fast \in [Pixels -> Colours] /\ plot_char(ch) \in [Pixels -> Colours]
    BY <1>1, <1>2 DEF Pictures, fast
  <2>3. fast = plot_char(ch) BY <2>1, <2>2
  <2> QED BY <2>3 DEF fast
<1> QED BY <1>2, <1>3

(* The display when the items up to k have been drawn. *)
DrawnTo(k, d) ==
    /\ d \in Displays
    /\ \A m \in 1 .. k : d.map[ItemCell(queue[m])] = 0
    /\ \A i \in Cells :
           /\ \/ d.map[i] = map[i] /\ d.grid[i] = grid[i]
              \/ d.map[i] = 0 /\ d.grid[i] = Current(Buffers, i)
           /\ CursorAt(i) => d.map[i] = 0 /\ d.fb[i] = plot_char(Inverted(d.grid[i]))
           /\ ~CursorAt(i) /\ ~OldCursorAt(i) => d.fb[i] = plot_char(d.grid[i])

(* An item of the queue draws its own cell.                                *)
LEMMA ItemDraws ==
    ASSUME FbTermNumbers, NEW d \in Displays, NEW q \in Items
    PROVE  LET e == FlushItem(d, q)
               i == ItemCell(q)
           IN  /\ e \in Displays /\ i \in Cells
               /\ d.map[i] = 0 => e = d
               /\ d.map[i] # 0 => /\ e.map[i] = 0 /\ e.grid[i] = q.c
                                  /\ d.fb[i] = plot_char(d.grid[i]) => e.fb[i] = plot_char(q.c)
               /\ \A j \in Cells : j # i => e.map[j] = d.map[j] /\ e.grid[j] = d.grid[j] /\ e.fb[j] = d.fb[j]
<1> DEFINE i == ItemCell(q)  e == FlushItem(d, q)  old == d.grid[i]
           new == IF q.c.bg = old.bg /\ q.c.fg = old.fg THEN plot_char_fast(d.fb[i], old, q.c) ELSE plot_char(q.c)
           f1 == [d.fb EXCEPT ![i] = new]  g1 == [d.grid EXCEPT ![i] = q.c]  m1 == [d.map EXCEPT ![i] = 0]
<1>1. i \in Cells /\ q.c \in Styles
  <2>1. q.x \in 0 .. cols - 1 /\ q.y \in 0 .. rows - 1 /\ q.c \in Styles BY DEF Items
  <2> QED BY <2>1, CellAt, ScreenSized DEF ItemCell
<1>2. d = [grid |-> d.grid, map |-> d.map, fb |-> d.fb] /\ d.grid \in [Cells -> Styles]
      /\ d.map \in [Cells -> Nat] /\ d.fb \in [Cells -> Pictures]
  BY DEF Displays
<1>3. old \in Styles /\ d.fb[i] \in Pictures BY <1>1, <1>2
<1>4. new \in Pictures /\ (d.fb[i] = plot_char(old) => new = plot_char(q.c))
  <2> HIDE DEF old, i
  <2> QED BY <1>1, <1>3, FastIsRight, PlotType
<1>5. CASE d.map[i] = 0
  <2>1. e = d BY <1>5 DEF FlushItem, ItemCell
  <2> QED BY <1>1, <1>5, <2>1
<1>6. CASE d.map[i] # 0
  <2>1. e = [[[d EXCEPT !.fb = f1] EXCEPT !.grid = g1] EXCEPT !.map = m1]
    <3>1. e = [d EXCEPT !.fb[i] = new, !.grid[i] = q.c, !.map[i] = 0] BY <1>6 DEF FlushItem, ItemCell
    <3> HIDE DEF e, new, i
    <3> QED BY <1>2, <3>1
  <2> HIDE DEF f1, g1, m1
  <2>2. e = [grid |-> g1, map |-> m1, fb |-> f1]
    <3> HIDE DEF e
    <3> QED BY <1>2, <2>1
  <2>3. /\ g1 \in [Cells -> Styles] /\ m1 \in [Cells -> Nat] /\ f1 \in [Cells -> Pictures]
        /\ g1[i] = q.c /\ m1[i] = 0 /\ f1[i] = new
        /\ \A j \in Cells : j # i => g1[j] = d.grid[j] /\ m1[j] = d.map[j] /\ f1[j] = d.fb[j]
    <3> HIDE DEF new, i
    <3> QED BY <1>1, <1>2, <1>4 DEF f1, g1, m1
  <2> HIDE DEF e, new
  <2>4. e.grid = g1 /\ e.map = m1 /\ e.fb = f1 /\ e \in Displays BY <2>2, <2>3 DEF Displays
  <2> HIDE DEF i
  <2>5. e.map[i] = 0 /\ e.grid[i] = q.c /\ (d.fb[i] = plot_char(d.grid[i]) => e.fb[i] = plot_char(q.c))
    BY <1>4, <2>3, <2>4
  <2>6. \A j \in Cells : j # i => e.map[j] = d.map[j] /\ e.grid[j] = d.grid[j] /\ e.fb[j] = d.fb[j]
    BY <2>3, <2>4
  <2> QED BY <1>1, <1>6, <2>4, <2>5, <2>6 DEF e, i
<1> QED BY <1>5, <1>6

(* One more item of the queue.                                             *)
LEMMA DrawnNext ==
    ASSUME FbTermNumbers, InOrder(Buffers), NEW k \in 1 .. Len(queue), NEW d, DrawnTo(k - 1, d)
    PROVE  DrawnTo(k, FlushItem(d, queue[k]))
<1> DEFINE q == queue[k]  i == ItemCell(q)  e == FlushItem(d, q)
<1>1. Buffers.queue = queue /\ Buffers.map = map BY DEF Buffers
<1>2. queue \in Seq(Items) BY <1>1 DEF InOrder, Raw
<1>3. q \in Items BY <1>2, ElementOfSeq
<1>4. map[i] = k /\ k # 0 BY <1>1 DEF InOrder
<1>5. Current(Buffers, i) = q.c BY <1>1, <1>4 DEF Current
<1>6. d \in Displays BY DEF DrawnTo
<1> HIDE DEF q, e
<1>7. /\ e \in Displays /\ i \in Cells
      /\ d.map[i] = 0 => e = d
      /\ d.map[i] # 0 => /\ e.map[i] = 0 /\ e.grid[i] = q.c
                         /\ d.fb[i] = plot_char(d.grid[i]) => e.fb[i] = plot_char(q.c)
      /\ \A j \in Cells : j # i => e.map[j] = d.map[j] /\ e.grid[j] = d.grid[j] /\ e.fb[j] = d.fb[j]
  BY <1>3, <1>6, ItemDraws DEF e
<1>8. e.map[i] = 0 BY <1>7
<1>9. \A m \in 1 .. k : m # k => m \in 1 .. k - 1 OBVIOUS
<1>10. \A m \in 1 .. Len(queue) : ItemCell(queue[m]) \in Cells
  <2> SUFFICES ASSUME NEW m \in 1 .. Len(queue) PROVE ItemCell(queue[m]) \in Cells OBVIOUS
  <2>1. queue[m] \in Items BY <1>2, ElementOfSeq
  <2>2. queue[m].x \in 0 .. cols - 1 /\ queue[m].y \in 0 .. rows - 1 BY <2>1 DEF Items
  <2> QED BY <2>2, CellAt, ScreenSized DEF ItemCell
<1>11. ASSUME NEW m \in 1 .. k PROVE e.map[ItemCell(queue[m])] = 0
  <2>1. m \in 1 .. Len(queue) BY <1>2, LenProperties
  <2> DEFINE j == ItemCell(queue[m])
  <2>2. j \in Cells BY <1>10, <2>1
  <2>3. m # k => d.map[j] = 0 BY <1>9 DEF DrawnTo
  <2>4. m = k => j = i BY DEF q
  <2> HIDE DEF j, i
  <2>5. e.map[j] = 0 BY <1>7, <1>8, <2>2, <2>3, <2>4
  <2> QED BY <2>5 DEF j
<1>12. ASSUME NEW j \in Cells
       PROVE  /\ \/ e.map[j] = map[j] /\ e.grid[j] = grid[j]
                 \/ e.map[j] = 0 /\ e.grid[j] = Current(Buffers, j)
              /\ CursorAt(j) => e.map[j] = 0 /\ e.fb[j] = plot_char(Inverted(e.grid[j]))
              /\ ~CursorAt(j) /\ ~OldCursorAt(j) => e.fb[j] = plot_char(e.grid[j])
  <2>1. /\ \/ d.map[j] = map[j] /\ d.grid[j] = grid[j]
           \/ d.map[j] = 0 /\ d.grid[j] = Current(Buffers, j)
        /\ CursorAt(j) => d.map[j] = 0 /\ d.fb[j] = plot_char(Inverted(d.grid[j]))
        /\ ~CursorAt(j) /\ ~OldCursorAt(j) => d.fb[j] = plot_char(d.grid[j])
    BY DEF DrawnTo
  <2> HIDE DEF i
  <2>2. CASE j # i \/ d.map[i] = 0 BY <1>7, <2>1, <2>2
  <2>3. CASE j = i /\ d.map[i] # 0 BY <1>5, <1>7, <2>1, <2>3
  <2> QED BY <2>2, <2>3
<1> QED BY <1>7, <1>11, <1>12 DEF DrawnTo, e, q

(* The whole queue.                                                        *)
LEMMA QueueDraws ==
    ASSUME FbTermNumbers, InOrder(Buffers), NEW d, DrawnTo(0, d)
    PROVE  DrawnTo(Len(queue), DrawQueue(d))
<1> DEFINE B == Displays  n == Len(queue)
           item(k, e) == FlushItem(e, queue[k])
           step == [p \in (1 .. n) \X B |-> item(p[1], p[2])]
<1>1. queue \in Seq(Items) BY DEF Buffers, InOrder, Raw
<1>2. n \in Nat BY <1>1, LenProperties
<1>3. d \in B BY DEF DrawnTo
<1> HIDE DEF n
<1>4. step \in [(1 .. n) \X B -> B]
  <2> SUFFICES ASSUME NEW p \in (1 .. n) \X B PROVE item(p[1], p[2]) \in B OBVIOUS
  <2>1. p[1] \in 1 .. n /\ p[2] \in Displays OBVIOUS
  <2>2. queue[p[1]] \in Items BY <1>1, <2>1, ElementOfSeq DEF n
  <2> QED BY <2>1, <2>2, ItemDraws
<1>5. PICK after : /\ after = [k \in 0 .. n |-> IF k = 0 THEN d ELSE item(k, after[k - 1])]
                   /\ DrawQueue(d) = after[n]
  <2>1. PICK v : History(v, B, n, d, step)
    <3> HIDE DEF step, B
    <3> QED BY <1>2, <1>3, <1>4, Loop
  <2>2. \A k \in 1 .. n : v[k] = item(k, v[k - 1])
    <3> SUFFICES ASSUME NEW k \in 1 .. n PROVE v[k] = item(k, v[k - 1]) OBVIOUS
    <3>1. k - 1 \in 0 .. n BY <1>2
    <3>2. <<k, v[k - 1]>> \in (1 .. n) \X B BY <2>1, <3>1 DEF History
    <3> HIDE DEF item, B
    <3> QED BY <2>1, <3>2 DEF History
  <2>3. v = [k \in 0 .. n |-> IF k = 0 THEN d ELSE item(k, v[k - 1])]
    <3>1. \A k \in 0 .. n : k # 0 => k \in 1 .. n BY <1>2
    <3>2. v = [k \in 0 .. n |-> v[k]] BY <2>1 DEF History
    <3> HIDE DEF item
    <3>3. \A k \in 0 .. n : v[k] = IF k = 0 THEN d ELSE item(k, v[k - 1]) BY <2>1, <2>2, <3>1 DEF History
    <3> QED BY <3>2, <3>3
  <2>4. \E w : w = [k \in 0 .. n |-> IF k = 0 THEN d ELSE item(k, w[k - 1])] BY <2>3
  <2> QED BY <2>4 DEF DrawQueue, n
<1>6. after[0] = d /\ \A k \in 1 .. n : after[k] = item(k, after[k - 1])
  <2> HIDE DEF item
  <2>1. 0 \in 0 .. n /\ \A k \in 1 .. n : k \in 0 .. n /\ k # 0 BY <1>2
  <2> QED BY <1>5, <2>1
<1> DEFINE good == {k \in 0 .. n : DrawnTo(k, after[k])}
<1>7. 0 \in good BY <1>2, <1>6
<1>8. ASSUME NEW k \in 1 .. n, k - 1 \in good PROVE k \in good
  <2>1. DrawnTo(k - 1, after[k - 1]) BY <1>8
  <2>2. DrawnTo(k, item(k, after[k - 1])) BY <2>1, DrawnNext DEF n
  <2>3. k \in 0 .. n /\ after[k] = item(k, after[k - 1]) BY <1>2, <1>6
  <2> HIDE DEF item
  <2> QED BY <2>2, <2>3
<1>9. n \in good
  <2> HIDE DEF good
  <2>1. \A k \in 0 .. n : k \in good BY <1>2, <1>7, <1>8, UpTo
  <2>2. n \in 0 .. n BY <1>2
  <2> QED BY <2>1, <2>2
<1> QED BY <1>5, <1>9 DEF n

(* Two places on the screen are one cell only if they are the same. *)
LEMMA OnePlace ==
    ASSUME FbTermNumbers, FbTypes, old_cursor_x < cols, old_cursor_y < rows, cursor_x < cols, cursor_y < rows,
           At(old_cursor_x, old_cursor_y) = At(cursor_x, cursor_y)
    PROVE  old_cursor_x = cursor_x /\ old_cursor_y = cursor_y
<1>1. cols \in Nat \ {0} /\ rows \in Nat \ {0} /\ MAX_X \in Nat BY DEF FbTermNumbers, ScreenNumbers
<1>2. /\ old_cursor_x \in 0 .. cols - 1 /\ old_cursor_y \in 0 .. rows - 1
      /\ cursor_x \in 0 .. cols - 1 /\ cursor_y \in 0 .. rows - 1
  BY <1>1 DEF FbTypes, Columns, Lines
<1> QED BY <1>2, CellAt, ScreenSized

(* The cursor is drawn in a cell of the screen, with its colours exchanged. *)
LEMMA CursorDraws ==
    ASSUME FbTermNumbers, FbTypes, NEW d \in Displays, d.map = map, d.grid = grid
    PROVE  LET e == IF shows_cursor THEN draw_cursor(d) ELSE d
           IN  /\ e \in Displays
               /\ \A i \in Cells :
                      /\ CursorAt(i) => /\ e.map[i] = 0 /\ e.grid[i] = Current(Buffers, i)
                                        /\ e.fb[i] = plot_char(Inverted(e.grid[i]))
                      /\ ~CursorAt(i) => e.map[i] = map[i] /\ e.grid[i] = grid[i] /\ e.fb[i] = d.fb[i]
<1> DEFINE e == IF shows_cursor THEN draw_cursor(d) ELSE d
           i == At(cursor_x, cursor_y)
           ch == Current(Buffers, i)
<1>1. cols \in Nat \ {0} /\ rows \in Nat \ {0} /\ MAX_X \in Nat BY DEF FbTermNumbers, ScreenNumbers
<1>2. cursor_x \in Nat /\ cursor_y \in Nat BY <1>1 DEF FbTypes, Columns, Lines
<1>3. CASE ~shows_cursor \/ cursor_x >= cols \/ cursor_y >= rows
  <2>1. e = d BY <1>3 DEF draw_cursor
  <2>2. \A j \in Cells : ~CursorAt(j) BY <1>1, <1>2, <1>3 DEF CursorAt
  <2> QED BY <2>1, <2>2
<1>4. CASE shows_cursor /\ cursor_x < cols /\ cursor_y < rows
  <2> DEFINE new == plot_char(Inverted(ch))
             f1 == [d.fb EXCEPT ![i] = new]  g1 == [d.grid EXCEPT ![i] = ch]  m1 == [d.map EXCEPT ![i] = 0]
  <2>1. i \in Cells
    <3>1. cursor_x \in 0 .. cols - 1 /\ cursor_y \in 0 .. rows - 1 BY <1>1, <1>2, <1>4
    <3> QED BY <3>1, CellAt, ScreenSized
  <2>2. ch \in Styles BY <2>1, CurrentStyle DEF FbTypes
  <2>3. new \in Pictures BY <2>2, PlotType
  <2>4. d = [grid |-> d.grid, map |-> d.map, fb |-> d.fb] /\ d.grid \in [Cells -> Styles]
        /\ d.map \in [Cells -> Nat] /\ d.fb \in [Cells -> Pictures]
    BY DEF Displays
  <2>5. ch = IF d.map[i] # 0 THEN queue[d.map[i]].c ELSE d.grid[i] BY DEF Current, Buffers
  <2>6. e = [d EXCEPT !.fb[i] = new, !.grid[i] = ch, !.map[i] = 0]
    <3>1. ~(cursor_x >= cols \/ cursor_y >= rows) BY <1>1, <1>2, <1>4
    <3> QED BY <1>4, <2>5, <3>1 DEF draw_cursor
  <2> HIDE DEF e, ch, i
  <2>7. e = [[[d EXCEPT !.fb = f1] EXCEPT !.grid = g1] EXCEPT !.map = m1]
    <3> HIDE DEF new
    <3> QED BY <2>4, <2>6
  <2>8. /\ g1 \in [Cells -> Styles] /\ m1 \in [Cells -> Nat] /\ f1 \in [Cells -> Pictures]
        /\ g1[i] = ch /\ m1[i] = 0 /\ f1[i] = new
        /\ \A j \in Cells : j # i => g1[j] = d.grid[j] /\ m1[j] = d.map[j] /\ f1[j] = d.fb[j]
    <3> HIDE DEF new
    <3> QED BY <2>1, <2>2, <2>3, <2>4
  <2> HIDE DEF f1, g1, m1
  <2>9. e = [grid |-> g1, map |-> m1, fb |-> f1] BY <2>4, <2>7
  <2>10. e.grid = g1 /\ e.map = m1 /\ e.fb = f1 /\ e \in Displays BY <2>8, <2>9 DEF Displays
  <2>11. \A j \in Cells : CursorAt(j) <=> j = i BY <1>4 DEF CursorAt, i
  <2>12. ASSUME NEW j \in Cells
         PROVE  /\ CursorAt(j) => /\ e.map[j] = 0 /\ e.grid[j] = Current(Buffers, j)
                                  /\ e.fb[j] = plot_char(Inverted(e.grid[j]))
                /\ ~CursorAt(j) => e.map[j] = map[j] /\ e.grid[j] = grid[j] /\ e.fb[j] = d.fb[j]
    BY <2>8, <2>10, <2>11 DEF ch
  <2> QED BY <2>10, <2>12 DEF e
<1> QED BY <1>1, <1>2, <1>3, <1>4

(* Where the cursor was, and is not now, its cell is drawn again. *)
LEMMA CursorWiped ==
    ASSUME FbTermNumbers, FbTypes, NEW d \in Displays,
           \A i \in Cells : /\ CursorAt(i) => d.fb[i] = plot_char(Inverted(d.grid[i]))
                            /\ ~CursorAt(i) /\ ~OldCursorAt(i) => d.fb[i] = plot_char(d.grid[i])
    PROVE  LET e == WipeCursor(d)
           IN  /\ e.grid = d.grid /\ e.map = d.map /\ e.fb \in [Cells -> Pictures]
               /\ \A i \in Cells :
                      e.fb[i] = plot_char(IF CursorAt(i) THEN Inverted(d.grid[i]) ELSE d.grid[i])
<1> DEFINE e == WipeCursor(d)  i == At(old_cursor_x, old_cursor_y)
<1>1. cols \in Nat \ {0} /\ rows \in Nat \ {0} /\ MAX_X \in Nat BY DEF FbTermNumbers, ScreenNumbers
<1>2. old_cursor_x \in Nat /\ old_cursor_y \in Nat BY <1>1 DEF FbTypes, Columns, Lines
<1>3. d = [grid |-> d.grid, map |-> d.map, fb |-> d.fb] /\ d.grid \in [Cells -> Styles]
      /\ d.fb \in [Cells -> Pictures]
  BY DEF Displays
<1>4. CASE /\ old_cursor_x # cursor_x \/ old_cursor_y # cursor_y \/ ~shows_cursor
           /\ old_cursor_x < cols /\ old_cursor_y < rows
  <2> DEFINE f1 == [d.fb EXCEPT ![i] = plot_char(d.grid[i])]
  <2>1. i \in Cells
    <3>1. old_cursor_x \in 0 .. cols - 1 /\ old_cursor_y \in 0 .. rows - 1 BY <1>1, <1>2, <1>4
    <3> QED BY <3>1, CellAt, ScreenSized
  <2>2. plot_char(d.grid[i]) \in Pictures BY <1>3, <2>1, PlotType
  <2>3. e = [d EXCEPT !.fb = f1] BY <1>4 DEF WipeCursor
  <2>4. f1 \in [Cells -> Pictures] /\ \A j \in Cells : f1[j] = IF j = i THEN plot_char(d.grid[i]) ELSE d.fb[j]
    <3> HIDE DEF i
    <3> QED BY <1>3, <2>1, <2>2
  <2> HIDE DEF f1, e
  <2>5. e.grid = d.grid /\ e.map = d.map /\ e.fb = f1 BY <1>3, <2>3
  <2>6. \A j \in Cells : OldCursorAt(j) <=> j = i BY <1>4 DEF OldCursorAt
  <2>7. ~CursorAt(i)
    <3> SUFFICES ASSUME CursorAt(i) PROVE FALSE OBVIOUS
    <3>1. old_cursor_x = cursor_x /\ old_cursor_y = cursor_y BY <1>4, OnePlace DEF CursorAt
    <3> QED BY <1>4, <3>1 DEF CursorAt
  <2> HIDE DEF i
  <2>8. ASSUME NEW j \in Cells
        PROVE  e.fb[j] = plot_char(IF CursorAt(j) THEN Inverted(d.grid[j]) ELSE d.grid[j])
    BY <2>4, <2>5, <2>6, <2>7
  <2> QED BY <2>4, <2>5, <2>8 DEF e
<1>5. CASE ~(/\ old_cursor_x # cursor_x \/ old_cursor_y # cursor_y \/ ~shows_cursor
             /\ old_cursor_x < cols /\ old_cursor_y < rows)
  <2>1. e = d BY <1>5 DEF WipeCursor
  <2>2. \A j \in Cells : OldCursorAt(j) => CursorAt(j) BY <1>5 DEF OldCursorAt, CursorAt, FbTypes
  <2>3. ASSUME NEW j \in Cells
        PROVE  d.fb[j] = plot_char(IF CursorAt(j) THEN Inverted(d.grid[j]) ELSE d.grid[j])
    BY <2>2
  <2> QED BY <1>3, <2>1, <2>3
<1> QED BY <1>4, <1>5

(* After a flush the queue is empty, the grid is what the buffers stood    *)
(* for, and the frame buffer shows it.                                     *)
LEMMA FlushDraws ==
    ASSUME FbTermNumbers, FbInv, flanterm_fb_double_buffer_flush
    PROVE  /\ grid' = Shown(Buffers) /\ queue' = <<>> /\ map' = [i \in Cells |-> 0]
           /\ fb' \in [Cells -> Pictures]
           /\ \A i \in Cells :
                  fb'[i] = plot_char(IF CursorAt(i) THEN Inverted(grid'[i]) ELSE grid'[i])
<1> DEFINE d == IF shows_cursor THEN draw_cursor(Display) ELSE Display
           e == DrawQueue(d)  w == WipeCursor(e)
<1>1. InOrder(Buffers) /\ Buffers.queue = queue /\ Buffers.map = map BY DEF FbInv, FbTypes, Buffers
<1>2. map \in [Cells -> Nat] /\ queue \in Seq(Items) BY <1>1 DEF InOrder, Raw
<1>3. Display \in Displays /\ Display.map = map /\ Display.grid = grid /\ Display.fb = fb
  BY <1>2 DEF Display, Displays, FbInv, FbTypes, GridType, Pictures
<1>4. /\ d \in Displays
      /\ \A i \in Cells :
             /\ CursorAt(i) => /\ d.map[i] = 0 /\ d.grid[i] = Current(Buffers, i)
                               /\ d.fb[i] = plot_char(Inverted(d.grid[i]))
             /\ ~CursorAt(i) => d.map[i] = map[i] /\ d.grid[i] = grid[i] /\ d.fb[i] = fb[i]
  <2>1. FbTypes BY DEF FbInv
  <2> QED BY <1>3, <2>1, CursorDraws
<1> HIDE DEF d
<1>5. DrawnTo(0, d)
  <2>1. \A i \in Cells : ~OldCursorAt(i) => fb[i] = plot_char(grid[i]) BY DEF FbInv, FbPicture
  <2> QED BY <1>4, <2>1 DEF DrawnTo
<1>6. DrawnTo(Len(queue), e) BY <1>1, <1>5, QueueDraws
<1> HIDE DEF e
<1>7. e \in Displays /\ e.map \in [Cells -> Nat] /\ e.grid \in [Cells -> Styles]
  BY <1>6 DEF DrawnTo, Displays
<1>8. ASSUME NEW i \in Cells
      PROVE  /\ e.map[i] = 0 /\ e.grid[i] = Current(Buffers, i)
             /\ CursorAt(i) => e.fb[i] = plot_char(Inverted(e.grid[i]))
             /\ ~CursorAt(i) /\ ~OldCursorAt(i) => e.fb[i] = plot_char(e.grid[i])
  <2>1. e.map[i] = 0
    <3>1. CASE map[i] = 0 BY <1>6, <3>1 DEF DrawnTo
    <3>2. CASE map[i] # 0
      <4>1. map[i] \in 1 .. Len(queue) /\ ItemCell(queue[map[i]]) = i BY <1>1, <3>2 DEF InOrder
      <4> QED BY <1>6, <4>1 DEF DrawnTo
    <3> QED BY <3>1, <3>2
  <2>2. e.grid[i] = Current(Buffers, i) BY <1>1, <1>6, <2>1 DEF DrawnTo, Current
  <2> QED BY <1>6, <2>1, <2>2 DEF DrawnTo
<1>9. e.grid = Shown(Buffers) /\ e.map = [i \in Cells |-> 0]
  <2>1. e.grid = [i \in Cells |-> e.grid[i]] /\ e.map = [i \in Cells |-> e.map[i]] BY <1>7
  <2> QED BY <1>8, <2>1 DEF Shown
<1>10. /\ w.grid = e.grid /\ w.map = e.map /\ w.fb \in [Cells -> Pictures]
       /\ \A i \in Cells : w.fb[i] = plot_char(IF CursorAt(i) THEN Inverted(e.grid[i]) ELSE e.grid[i])
  <2>1. FbTypes BY DEF FbInv
  <2> QED BY <1>7, <1>8, <2>1, CursorWiped
<1>11. grid' = w.grid /\ map' = w.map /\ fb' = w.fb /\ queue' = <<>>
  BY DEF flanterm_fb_double_buffer_flush, d, e
<1> HIDE DEF w
<1> QED BY <1>9, <1>10, <1>11

(* After a refresh, too; nothing waited in the queue. *)
LEMMA RefreshDraws ==
    ASSUME FbTermNumbers, FbInv, flanterm_fb_full_refresh
    PROVE  /\ grid' = grid /\ queue' = <<>> /\ map' = map /\ ~open
           /\ fb' \in [Cells -> Pictures]
           /\ \A i \in Cells :
                  fb'[i] = plot_char(IF CursorAt(i) THEN Inverted(grid[i]) ELSE grid[i])
<1> DEFINE p == [Display EXCEPT !.fb = [i \in Cells |-> plot_char(grid[i])]]
           d == IF shows_cursor THEN draw_cursor(p) ELSE p
<1>1. /\ InOrder(Buffers) /\ Buffers.queue = queue /\ Buffers.map = map /\ FbTypes
      /\ grid \in [Cells -> Styles]
  BY DEF FbInv, FbTypes, Buffers, GridType
<1>2. map \in [Cells -> Nat] BY <1>1 DEF InOrder, Raw
<1>3. ~open /\ queue = <<>> /\ \A i \in Cells : map[i] = 0
  BY DEF FbInv, FbPicture, flanterm_fb_full_refresh
<1>4. \A i \in Cells : plot_char(grid[i]) \in Pictures BY <1>1, PlotType
<1>5. p = [grid |-> grid, map |-> map, fb |-> [i \in Cells |-> plot_char(grid[i])]] BY DEF Display
<1> HIDE DEF p
<1>6. p \in Displays /\ p.map = map /\ p.grid = grid /\ \A i \in Cells : p.fb[i] = plot_char(grid[i])
  BY <1>1, <1>2, <1>4, <1>5 DEF Displays
<1>7. /\ d \in Displays
      /\ \A i \in Cells :
             /\ CursorAt(i) => /\ d.map[i] = 0 /\ d.grid[i] = Current(Buffers, i)
                               /\ d.fb[i] = plot_char(Inverted(d.grid[i]))
             /\ ~CursorAt(i) => d.map[i] = map[i] /\ d.grid[i] = grid[i] /\ d.fb[i] = p.fb[i]
  BY <1>1, <1>6, CursorDraws
<1> HIDE DEF d
<1>8. \A i \in Cells : Current(Buffers, i) = grid[i] BY <1>1, <1>3 DEF Current
<1>9. d.grid = grid /\ d.map = map
  <2>1. d.grid \in [Cells -> Styles] /\ d.map \in [Cells -> Nat] BY <1>7 DEF Displays
  <2>2. \A i \in Cells : d.grid[i] = grid[i] /\ d.map[i] = map[i] BY <1>3, <1>7, <1>8
  <2>3. d.grid = grid BY <1>1, <2>1, <2>2
  <2>4. d.map = map BY <1>2, <2>1, <2>2
  <2> QED BY <2>3, <2>4
<1>10. d.fb \in [Cells -> Pictures]
       /\ \A i \in Cells : d.fb[i] = plot_char(IF CursorAt(i) THEN Inverted(grid[i]) ELSE grid[i])
  BY <1>6, <1>7, <1>9 DEF Displays
<1>11. grid' = d.grid /\ map' = d.map /\ fb' = d.fb /\ queue' = queue
  BY DEF flanterm_fb_full_refresh, d, p
<1> QED BY <1>3, <1>9, <1>10, <1>11

-----------------------------------------------------------------------------
(* What the calls of flanterm.c do to the buffers, and to the screen.      *)
LEMMA BuffersAfter ==
    ASSUME NEW b, InOrder(b), Buffer(b)
    PROVE  InOrder([queue |-> queue', map |-> map'])
<1>1. b = [queue |-> b.queue, map |-> b.map] BY DEF InOrder, Raw
<1> QED BY <1>1 DEF Buffer

(* What each call does to the buffers: scrolling,                          *)
LEMMA ScrollCalls ==
    ASSUME FbTermNumbers, FbTypes
    PROVE  /\ flanterm_fb_scroll => scr' = scroll(scr) /\ InOrder([queue |-> queue', map |-> map'])
           /\ flanterm_fb_revscroll => scr' = revscroll(scr) /\ InOrder([queue |-> queue', map |-> map'])
<1> DEFINE On(cells) == ScreenOf(cells, cursor_x, cursor_y, text_fg, text_bg, saved_state, margins)
<1>1. Empty \in Styles /\ GridType /\ MarginsType /\ InOrder(Buffers)
  BY DEF FbTypes, Empty, Styles, FbTermNumbers, ScreenNumbers
<1>2. scr = On(Shown(Buffers)) BY ScreenNow
<1>3. ASSUME NEW b, Buffer(b), grid' = grid, SameText, SameCursor PROVE scr' = On(Shown(b))
  <2>1. scr' = ScreenOf(Shown(b), cursor_x', cursor_y', text_fg', text_bg', saved_state', margins')
    BY <1>3, ScreenAfter
  <2> QED BY <1>3, <2>1 DEF SameText, SameCursor
<1>4. /\ scroll(On(Shown(Buffers))) = On(Shown(scrolled(Buffers)))
      /\ revscroll(On(Shown(Buffers))) = On(Shown(revscrolled(Buffers)))
  BY <1>1, ScrollShows
<1> HIDE DEF On
<1>5. ASSUME flanterm_fb_scroll
      PROVE  scr' = scroll(scr) /\ InOrder([queue |-> queue', map |-> map'])
  <2>1. Buffer(scrolled(Buffers)) /\ grid' = grid /\ SameText /\ SameCursor
    BY <1>5 DEF flanterm_fb_scroll, Call
  <2>2. InOrder(scrolled(Buffers)) BY <1>1, ScrolledCells
  <2>3. InOrder([queue |-> queue', map |-> map']) BY <2>1, <2>2, BuffersAfter
  <2> QED BY <1>2, <1>3, <1>4, <2>1, <2>3
<1>6. ASSUME flanterm_fb_revscroll
      PROVE  scr' = revscroll(scr) /\ InOrder([queue |-> queue', map |-> map'])
  <2>1. Buffer(revscrolled(Buffers)) /\ grid' = grid /\ SameText /\ SameCursor
    BY <1>6 DEF flanterm_fb_revscroll, Call
  <2>2. InOrder(revscrolled(Buffers)) BY <1>1, RevscrolledCells
  <2>3. InOrder([queue |-> queue', map |-> map']) BY <2>1, <2>2, BuffersAfter
  <2> QED BY <1>2, <1>3, <1>4, <2>1, <2>3
<1> QED BY <1>5, <1>6

(* clearing,                                                               *)
LEMMA ClearCall ==
    ASSUME FbTermNumbers, FbTypes, NEW move \in BOOLEAN, flanterm_fb_clear(move)
    PROVE  scr' = clear(scr, move) /\ InOrder([queue |-> queue', map |-> map'])
<1> DEFINE b == PushEmpty(Buffers, 0, rows * cols)
<1>1. Empty \in Styles /\ GridType /\ InOrder(Buffers)
  BY DEF FbTypes, Empty, Styles, FbTermNumbers, ScreenNumbers
<1>2. rows * cols \in Nat BY DEF FbTermNumbers, ScreenNumbers
<1>3. /\ InOrder(b)
      /\ \A i \in Cells : Current(b, i) = IF i \in 0 .. 0 + rows * cols - 1 THEN Empty ELSE Current(Buffers, i)
  <2> DEFINE n == rows * cols
  <2> HIDE DEF n
  <2>1. n \in Nat /\ 0 \in Nat /\ 0 + n <= n BY <1>2 DEF n
  <2> QED BY <1>1, <2>1, PushEmptyRuns DEF n
<1> HIDE DEF b
<1>4. \A i \in Cells : Current(b, i) = Empty BY <1>2, <1>3 DEF Cells
<1>5. Shown(b) = AllBlank(text_fg, text_bg) BY <1>4 DEF Shown, AllBlank, Empty
<1>6. /\ Buffer(b) /\ grid' = grid /\ SameText
      /\ cursor_x' = (IF move THEN 0 ELSE cursor_x) /\ cursor_y' = (IF move THEN 0 ELSE cursor_y)
  BY DEF flanterm_fb_clear, Call, b
<1>7. scr' = ScreenOf(Shown(b), cursor_x', cursor_y', text_fg', text_bg', saved_state', margins')
  BY <1>6, ScreenAfter
<1>8. scr' = ScreenOf(AllBlank(text_fg, text_bg), IF move THEN 0 ELSE cursor_x, IF move THEN 0 ELSE cursor_y,
                      text_fg, text_bg, saved_state, margins)
  BY <1>5, <1>6, <1>7 DEF SameText
<1>9. InOrder([queue |-> queue', map |-> map']) BY <1>3, <1>6, BuffersAfter
<1> QED BY <1>8, <1>9, ScreenNow, ScreenClears

(* moving a character,                                                     *)
LEMMA MoveCall ==
    ASSUME FbTermNumbers, FbTypes, NEW a \in 0 .. cols, NEW o \in 0 .. cols,
           flanterm_fb_move_character(a, get_y(scr), o, get_y(scr))
    PROVE  /\ scr' = move_character(scr, a, get_y(scr), o, get_y(scr))
           /\ InOrder([queue |-> queue', map |-> map'])
<1> DEFINE g == get_y(scr)
           from == At(o, g)
           ch == Current(Buffers, from)
           q == push_to_queue(Buffers, ch, a, g)
           On(cells) == ScreenOf(cells, cursor_x, cursor_y, text_fg, text_bg, saved_state, margins)
<1>1. cols \in Nat \ {0} /\ rows \in Nat \ {0} /\ a \in Nat /\ o \in Nat /\ cursor_y \in Nat
  BY DEF FbTermNumbers, ScreenNumbers, FbTypes, Lines
<1>2. scr = On(Shown(Buffers)) /\ scr.y = cursor_y /\ scr.cells = Shown(Buffers)
  BY ScreenNow, ScreenSets
<1>3. g \in 0 .. rows - 1
  <2>1. g = IF cursor_y >= rows THEN rows - 1 ELSE cursor_y BY <1>2 DEF get_y
  <2> HIDE DEF g
  <2> QED BY <1>1, <2>1
<1> HIDE DEF g
<1>4. flanterm_fb_move_character(a, g, o, g) BY DEF g
<1>5. ASSUME NEW b, Buffer(b) PROVE scr' = On(Shown(b))
  <2>1. grid' = grid /\ SameText /\ SameCursor BY <1>4 DEF flanterm_fb_move_character, Call
  <2>2. scr' = ScreenOf(Shown(b), cursor_x', cursor_y', text_fg', text_bg', saved_state', margins')
    BY <1>5, <2>1, ScreenAfter
  <2> QED BY <2>1, <2>2 DEF SameText, SameCursor
<1>6. CASE o < cols /\ a < cols
  <2>1. ~(o >= cols \/ g >= rows \/ a >= cols \/ g >= rows) /\ o \in 0 .. cols - 1 /\ g < rows /\ g \in Nat
    BY <1>1, <1>3, <1>6
  <2>2. Buffer(q) BY <1>4, <2>1 DEF flanterm_fb_move_character
  <2>3. from \in Cells BY <1>3, <2>1, CellAt, ScreenSized
  <2> HIDE DEF from
  <2>4. ch \in Styles BY <2>3, CurrentStyle DEF FbTypes
  <2> HIDE DEF ch
  <2>5. InOrder(q) /\ \A i \in Cells : Current(q, i) =
            IF a < cols /\ g < rows /\ i = At(a, g) THEN ch ELSE Current(Buffers, i)
    BY <1>1, <2>1, <2>4, PushPuts DEF FbTypes
  <2> HIDE DEF q
  <2>6. Shown(q) = Written(Shown(Buffers), ch, a, g)
    <3>1. [Shown(Buffers) EXCEPT ![At(a, g)] = ch] =
              [i \in Cells |-> IF i = At(a, g) THEN ch ELSE Current(Buffers, i)]
      BY DEF Shown
    <3>2. \A i \in Cells : Current(q, i) = IF i = At(a, g) THEN ch ELSE Current(Buffers, i)
      BY <1>6, <2>1, <2>5
    <3> QED BY <1>6, <2>1, <3>1, <3>2 DEF Shown, Written
  <2>7. scr.cells[from] = ch BY <1>2, <2>3 DEF Shown, ch
  <2>8. move_character(scr, a, g, o, g) = Put(scr, ch, a, g)
    BY <1>6, <2>1, <2>7 DEF move_character, from
  <2>9. Put(scr, ch, a, g) = On(Shown(q)) BY <1>2, <2>6, ScreenPuts
  <2>10. InOrder([queue |-> queue', map |-> map']) BY <2>2, <2>5, BuffersAfter
  <2> QED BY <1>5, <2>2, <2>8, <2>9, <2>10 DEF g
<1>7. CASE ~(o < cols /\ a < cols)
  <2>1. o >= cols \/ a >= cols BY <1>1, <1>7
  <2>2. Buffer(Buffers) BY <1>4, <2>1 DEF flanterm_fb_move_character
  <2>3. scr' = scr BY <1>2, <1>5, <2>2
  <2>4. move_character(scr, a, g, o, g) = scr BY <1>7 DEF move_character
  <2>5. InOrder([queue |-> queue', map |-> map']) BY <2>2, BuffersAfter DEF FbTypes
  <2> QED BY <2>3, <2>4, <2>5 DEF g
<1> QED BY <1>6, <1>7

(* saving and restoring the state.                                         *)
LEMMA KeepCalls ==
    /\ flanterm_fb_save_state => scr' = save_state(scr)
    /\ flanterm_fb_restore_state => scr' = restore_state(scr)
<1> DEFINE On(cells, px, py, fg, bg, kept) == ScreenOf(cells, px, py, fg, bg, kept, margins)
<1>1. scr = On(Shown(Buffers), cursor_x, cursor_y, text_fg, text_bg, saved_state) BY ScreenNow
<1>2. ASSUME grid' = grid, UNCHANGED <<queue, map>>
      PROVE  scr' = ScreenOf(Shown(Buffers), cursor_x', cursor_y', text_fg', text_bg', saved_state', margins')
  <2>1. Buffer(Buffers) BY <1>2 DEF Buffer, Buffers
  <2> QED BY <1>2, <2>1, ScreenAfter
<1>3. ASSUME flanterm_fb_save_state PROVE scr' = save_state(scr)
  <2>1. scr' = On(Shown(Buffers), cursor_x, cursor_y, text_fg, text_bg,
                  Kept(cursor_x, cursor_y, text_fg, text_bg))
    BY <1>2, <1>3 DEF flanterm_fb_save_state, Call, SameCursor, Kept
  <2> QED BY <1>1, <2>1, ScreenKeeps
<1>4. ASSUME flanterm_fb_restore_state PROVE scr' = restore_state(scr)
  <2>1. scr' = On(Shown(Buffers), saved_state.x, saved_state.y, saved_state.fg, saved_state.bg, saved_state)
    BY <1>2, <1>4 DEF flanterm_fb_restore_state, Call
  <2> QED BY <1>1, <2>1, ScreenKeeps
<1> QED BY <1>3, <1>4

(* A flush and a refresh draw the screen and do not change it. *)
LEMMA DrawingKeeps ==
    ASSUME FbTermNumbers, FbInv, flanterm_fb_double_buffer_flush \/ flanterm_fb_full_refresh
    PROVE  scr' = scr
<1>1. GridType /\ Buffers.map = map BY DEF FbInv, FbTypes, Buffers
<1>2. Shown(Buffers)' = Shown(Buffers)
  <2>1. CASE flanterm_fb_double_buffer_flush
    <3>1. grid' = Shown(Buffers) /\ map' = [i \in Cells |-> 0] BY <2>1, FlushDraws
    <3>2. \A i \in Cells : Current(Buffers, i)' = Current(Buffers, i)
      BY <3>1 DEF Current, Buffers, Shown
    <3> QED BY <3>2 DEF Shown
  <2>2. CASE flanterm_fb_full_refresh
    <3>1. grid' = grid /\ map' = map /\ ~open BY <2>2, RefreshDraws
    <3>2. \A i \in Cells : map[i] = 0 BY <3>1 DEF FbInv, FbPicture
    <3>3. \A i \in Cells : Current(Buffers, i)' = Current(Buffers, i)
      BY <3>1, <3>2 DEF Current, Buffers
    <3> QED BY <3>3 DEF Shown
  <2> QED BY <2>1, <2>2
<1>3. scr' = ScreenOf(Shown(Buffers)', cursor_x', cursor_y', text_fg', text_bg', saved_state', margins')
  BY DEF scr, ScreenOf, Shown
<1>4. SameText /\ SameCursor BY DEF flanterm_fb_double_buffer_flush, flanterm_fb_full_refresh
<1> QED BY <1>2, <1>3, <1>4, ScreenNow DEF SameText, SameCursor

(* Every call is the one of Screen.                                        *)
LEMMA ScreenImplemented == ASSUME FbTermNumbers, FbInv PROVE ImplementsScreen
<1>1. FbTypes BY DEF FbInv
<1>2. flanterm_fb_double_buffer_flush \/ flanterm_fb_full_refresh => scr' = scr BY DrawingKeeps
<1>3. \A c \in Chars : flanterm_fb_raw_putchar(c) => scr' = raw_putchar(scr, c) BY <1>1, PutcharShows
<1>4. (flanterm_fb_scroll => scr' = scroll(scr)) /\ (flanterm_fb_revscroll => scr' = revscroll(scr))
  BY <1>1, ScrollCalls
<1>5. \A move \in BOOLEAN : flanterm_fb_clear(move) => scr' = clear(scr, move) BY <1>1, ClearCall
<1>6. \A new_x, old_x \in 0 .. cols :
          flanterm_fb_move_character(new_x, get_y(scr), old_x, get_y(scr)) =>
              scr' = move_character(scr, new_x, get_y(scr), old_x, get_y(scr))
  BY <1>1, MoveCall
<1> QED BY <1>2, <1>3, <1>4, <1>5, <1>6, KeepCalls DEF ImplementsScreen

-----------------------------------------------------------------------------
(* The invariant holds at first, and every call, flush and refresh keeps it. *)
LEMMA FbTermInitInv == ASSUME FbTermNumbers PROVE FbTermInit => FbInv
<1> SUFFICES ASSUME FbTermInit PROVE FbInv OBVIOUS
<1>1. cols \in Nat \ {0} /\ rows \in Nat \ {0} /\ MAX_X \in Nat /\ Space \in Chars
      /\ Default \in Colours /\ Black \in Colours
  BY DEF FbTermNumbers, ScreenNumbers
<1> DEFINE blank == [c |-> Space, fg |-> Default, bg |-> Trans]
<1>2. blank \in Styles /\ Inverted(blank) \in Styles
  <2>1. blank \in Styles BY <1>1 DEF Styles, Pens
  <2> QED BY <2>1, PlotType
<1>3. grid \in [Cells -> Styles] /\ \A i \in Cells : grid[i] = blank
  BY <1>2 DEF FbTermInit
<1>4. 0 \in Cells /\ At(0, 0) = 0
  <2>1. 0 \in 0 .. cols - 1 /\ 0 \in 0 .. rows - 1 BY <1>1
  <2>2. At(0, 0) = 0 BY <1>1 DEF At
  <2> QED BY <2>1, <2>2, CellAt, ScreenSized
<1> HIDE DEF blank
<1>5. plot_char(blank) \in Pictures /\ plot_char(Inverted(blank)) \in Pictures BY <1>2, PlotType
<1>6. /\ fb \in [Cells -> Pictures]
      /\ \A i \in Cells : fb[i] = plot_char(IF i = 0 THEN Inverted(grid[i]) ELSE grid[i])
  <2>1. fb = [i \in Cells |-> plot_char(IF i = 0 THEN Inverted(grid[0]) ELSE grid[i])] BY DEF FbTermInit
  <2>2. \A i \in Cells : plot_char(IF i = 0 THEN Inverted(grid[0]) ELSE grid[i]) \in Pictures
    BY <1>3, <1>4, <1>5
  <2> QED BY <2>1, <2>2
<1>7. InOrder(Buffers)
  <2>1. Buffers = [queue |-> <<>>, map |-> [i \in Cells |-> 0]] BY DEF FbTermInit, Buffers
  <2>2. <<>> \in Seq(Items) /\ Len(<<>>) = 0 BY EmptySeq
  <2>3. Buffers \in Raw BY <2>1, <2>2 DEF Raw
  <2>4. \A k \in 1 .. Len(Buffers.queue) : FALSE BY <2>1, <2>2
  <2> QED BY <2>1, <2>3, <2>4 DEF InOrder
<1>8. FbTypes
  <2>1. MarginsType BY <1>1 DEF FbTermInit, MarginsType
  <2>2. 0 \in Columns /\ 0 \in Lines /\ Default \in Pens /\ Black \in Pens /\ Trans \in Pens
    BY <1>1 DEF Columns, Lines, Pens
  <2>3. /\ cursor_x \in Columns /\ cursor_y \in Lines /\ old_cursor_x \in Columns /\ old_cursor_y \in Lines
        /\ text_fg \in Pens /\ text_bg \in Pens
        /\ saved_state \in [x : Columns, y : Lines, fg : Pens, bg : Pens]
        /\ shows_cursor \in BOOLEAN /\ open \in BOOLEAN
    BY <2>2 DEF FbTermInit
  <2> QED BY <1>3, <1>6, <1>7, <2>1, <2>3 DEF FbTypes, GridType, Pictures
<1>9. FbPicture
  <2>1. \A i \in Cells : OldCursorAt(i) <=> i = 0 BY <1>1, <1>4 DEF FbTermInit, OldCursorAt
  <2>2. \A i \in Cells : ~OldCursorAt(i) => fb[i] = plot_char(grid[i]) BY <1>6, <2>1
  <2>3. FlushShowsGrid BY <1>1, <1>4, <1>6 DEF FlushShowsGrid, FbTermInit
  <2>4. queue = <<>> /\ (\A i \in Cells : map[i] = 0) /\ old_cursor_x = cursor_x /\ old_cursor_y = cursor_y
    BY DEF FbTermInit
  <2> QED BY <2>2, <2>3, <2>4 DEF FbPicture
<1> QED BY <1>8, <1>9 DEF FbInv

(* What a call has to leave in order. *)
TextTypes ==
    /\ cursor_x \in Columns /\ cursor_y \in Lines /\ text_fg \in Pens /\ text_bg \in Pens
    /\ saved_state \in [x : Columns, y : Lines, fg : Pens, bg : Pens]
    /\ shows_cursor \in BOOLEAN /\ MarginsType

(* A call that keeps the picture keeps the invariant.                      *)
LEMMA CallKeeps ==
    ASSUME FbTermNumbers, FbInv, Call, TextTypes', InOrder([queue |-> queue', map |-> map'])
    PROVE  FbInv'
<1>1. /\ grid' = grid /\ fb' = fb /\ old_cursor_x' = old_cursor_x /\ old_cursor_y' = old_cursor_y
      /\ open' = TRUE
  BY DEF Call
<1>2. InOrder(Buffers)'
  <2>1. Buffers' = [queue |-> queue', map |-> map'] BY DEF Buffers
  <2>2. InOrder(Buffers') BY <2>1
  <2> QED BY <2>2 DEF InOrder
<1>3. FbTypes' BY <1>1, <1>2 DEF FbInv, FbTypes, TextTypes, GridType
<1>4. FbPicture'
  <2>1. \A i \in Cells : OldCursorAt(i)' <=> OldCursorAt(i) BY <1>1 DEF OldCursorAt
  <2>2. \A i \in Cells : ~OldCursorAt(i) => fb[i] = plot_char(grid[i]) BY DEF FbInv, FbPicture
  <2>3. \A i \in Cells : ~OldCursorAt(i)' => fb'[i] = plot_char(grid'[i]) BY <1>1, <2>1, <2>2
  <2> QED BY <1>1, <2>3 DEF FbPicture, FlushShowsGrid
<1> QED BY <1>3, <1>4 DEF FbInv

(* Every call does.                                                        *)
LEMMA FbTermStep == ASSUME FbTermNumbers PROVE FbInv /\ [FbTermNext]_fbvars => FbInv'
<1> SUFFICES ASSUME FbInv, [FbTermNext]_fbvars PROVE FbInv' OBVIOUS
<1>1. FbTypes /\ InOrder(Buffers) /\ TextTypes BY DEF FbInv, FbTypes, TextTypes
<1>2. cols \in Nat \ {0} /\ rows \in Nat \ {0} /\ MAX_X \in Nat /\ MAX_X >= cols
  BY DEF FbTermNumbers, ScreenNumbers
<1>3. ASSUME UNCHANGED <<queue, map>> PROVE InOrder([queue |-> queue', map |-> map'])
  BY <1>1, <1>3 DEF Buffers
<1>4. ASSUME NEW c \in Chars, flanterm_fb_raw_putchar(c) PROVE FbInv'
  <2>1. InOrder([queue |-> queue', map |-> map']) /\ cursor_x' \in Columns /\ cursor_y' \in Lines
    BY <1>1, <1>4, PutcharShows
  <2>2. Call /\ SameText BY <1>4 DEF flanterm_fb_raw_putchar
  <2>3. TextTypes' BY <1>1, <2>1, <2>2 DEF TextTypes, SameText, MarginsType
  <2> QED BY <2>1, <2>2, <2>3, CallKeeps
<1>5. ASSUME flanterm_fb_scroll \/ flanterm_fb_revscroll PROVE FbInv'
  <2>1. InOrder([queue |-> queue', map |-> map']) BY <1>1, <1>5, ScrollCalls
  <2>2. Call /\ SameText /\ SameCursor BY <1>5 DEF flanterm_fb_scroll, flanterm_fb_revscroll
  <2>3. TextTypes' BY <1>1, <2>2 DEF TextTypes, SameText, SameCursor, MarginsType
  <2> QED BY <2>1, <2>2, <2>3, CallKeeps
<1>6. ASSUME NEW move \in BOOLEAN, flanterm_fb_clear(move) PROVE FbInv'
  <2>1. InOrder([queue |-> queue', map |-> map']) BY <1>1, <1>6, ClearCall
  <2>2. Call /\ SameText BY <1>6 DEF flanterm_fb_clear
  <2>3. cursor_x' \in Columns /\ cursor_y' \in Lines
    BY <1>1, <1>2, <1>6 DEF flanterm_fb_clear, TextTypes, Columns, Lines
  <2>4. TextTypes' BY <1>1, <2>2, <2>3 DEF TextTypes, SameText, MarginsType
  <2> QED BY <2>1, <2>2, <2>4, CallKeeps
<1>7. ASSUME NEW x \in -1 .. cols, NEW y \in -1 .. rows, flanterm_fb_set_cursor_pos(x, y) PROVE FbInv'
  <2>1. Call /\ SameText /\ UNCHANGED <<queue, map>> BY <1>7 DEF flanterm_fb_set_cursor_pos
  <2>2. cursor_x' \in 0 .. cols - 1 /\ cursor_y' \in 0 .. rows - 1
    <3>1. /\ cursor_x' = (IF x < 0 THEN 0 ELSE IF x >= cols THEN cols - 1 ELSE x)
          /\ cursor_y' = (IF y < 0 THEN 0 ELSE IF y >= rows THEN rows - 1 ELSE y)
      BY <1>7 DEF flanterm_fb_set_cursor_pos
    <3> QED BY <1>2, <3>1
  <2>3. cursor_x' \in Columns /\ cursor_y' \in Lines BY <1>2, <2>2 DEF Columns, Lines
  <2>4. TextTypes' BY <1>1, <2>1, <2>3 DEF TextTypes, SameText, MarginsType
  <2> QED BY <1>3, <2>1, <2>4, CallKeeps
<1>8. ASSUME NEW new_x \in 0 .. cols, NEW old_x \in 0 .. cols,
             flanterm_fb_move_character(new_x, get_y(scr), old_x, get_y(scr))
      PROVE  FbInv'
  <2>1. InOrder([queue |-> queue', map |-> map']) BY <1>1, <1>8, MoveCall
  <2>2. Call /\ SameText /\ SameCursor BY <1>8 DEF flanterm_fb_move_character
  <2>3. TextTypes' BY <1>1, <2>2 DEF TextTypes, SameText, SameCursor, MarginsType
  <2> QED BY <2>1, <2>2, <2>3, CallKeeps
<1>9. ASSUME NEW fg \in Pens, NEW bg \in Pens, SetText(fg, bg) PROVE FbInv'
  <2>1. Call /\ UNCHANGED <<queue, map>> BY <1>9 DEF SetText
  <2>2. TextTypes' BY <1>1, <1>9 DEF SetText, TextTypes, SameCursor, MarginsType
  <2> QED BY <1>3, <2>1, <2>2, CallKeeps
<1>10. ASSUME NEW enabled \in BOOLEAN, NEW region, SetContext(enabled, region),
              region = margins \/ region \in Regions
       PROVE  FbInv'
  <2>1. Call /\ UNCHANGED <<queue, map>> BY <1>10 DEF SetContext
  <2>2. 2 .. rows \subseteq 1 .. rows BY <1>2
  <2>3. MarginsType'
    BY <1>1, <1>10, <2>2 DEF SetContext, TextTypes, MarginsType, Regions
  <2>4. TextTypes' BY <1>1, <1>10, <2>3 DEF SetContext, TextTypes, SameCursor
  <2> QED BY <1>3, <2>1, <2>4, CallKeeps
<1>11. ASSUME flanterm_fb_save_state PROVE FbInv'
  <2>1. Call /\ UNCHANGED <<queue, map>> BY <1>11 DEF flanterm_fb_save_state
  <2>2. TextTypes' BY <1>1, <1>11 DEF flanterm_fb_save_state, TextTypes, SameCursor, MarginsType
  <2> QED BY <1>3, <2>1, <2>2, CallKeeps
<1>12. ASSUME flanterm_fb_restore_state PROVE FbInv'
  <2>1. Call /\ UNCHANGED <<queue, map>> BY <1>12 DEF flanterm_fb_restore_state
  <2>2. TextTypes' BY <1>1, <1>12 DEF flanterm_fb_restore_state, TextTypes, MarginsType
  <2> QED BY <1>3, <2>1, <2>2, CallKeeps
<1>13. ASSUME queue' = <<>>, \A i \in Cells : map'[i] = 0, map' \in [Cells -> Nat]
       PROVE  InOrder(Buffers)'
  <2>1. Buffers' = [queue |-> <<>>, map |-> map'] BY <1>13 DEF Buffers
  <2>2. <<>> \in Seq(Items) /\ Len(<<>>) = 0 BY EmptySeq
  <2>3. Buffers' \in Raw BY <1>13, <2>1, <2>2 DEF Raw
  <2>4. \A k \in 1 .. Len(Buffers'.queue) : FALSE BY <2>1, <2>2
  <2>5. InOrder(Buffers') BY <1>13, <2>1, <2>3, <2>4 DEF InOrder
  <2> QED BY <2>5 DEF InOrder
<1>14. ASSUME SameText, SameCursor,
              \A i \in Cells : fb'[i] = plot_char(IF CursorAt(i) THEN Inverted(grid'[i]) ELSE grid'[i])
       PROVE  /\ FlushShowsGrid'
              /\ old_cursor_x' = cursor_x /\ old_cursor_y' = cursor_y =>
                     \A i \in Cells : ~OldCursorAt(i)' => fb'[i] = plot_char(grid'[i])
  <2>1. FlushShowsGrid' BY <1>14 DEF FlushShowsGrid, CursorAt, SameText, SameCursor
  <2>2. ASSUME old_cursor_x' = cursor_x, old_cursor_y' = cursor_y, NEW i \in Cells, ~OldCursorAt(i)'
        PROVE  fb'[i] = plot_char(grid'[i])
    BY <1>14, <2>2 DEF OldCursorAt, CursorAt
  <2> QED BY <2>1, <2>2
<1>15. ASSUME flanterm_fb_double_buffer_flush PROVE FbInv'
  <2>1. /\ grid' = Shown(Buffers) /\ queue' = <<>> /\ map' = [i \in Cells |-> 0] /\ fb' \in [Cells -> Pictures]
        /\ \A i \in Cells : fb'[i] = plot_char(IF CursorAt(i) THEN Inverted(grid'[i]) ELSE grid'[i])
    BY <1>15, FlushDraws
  <2>2. /\ SameText /\ SameCursor /\ open' = FALSE
        /\ old_cursor_x' = cursor_x /\ old_cursor_y' = cursor_y
    BY <1>15 DEF flanterm_fb_double_buffer_flush
  <2>3. grid' \in [Cells -> Styles] BY <1>1, <2>1, CurrentStyle DEF Shown, FbTypes
  <2>4. InOrder(Buffers)' BY <1>13, <2>1
  <2>5. FbTypes'
    BY <1>1, <2>1, <2>2, <2>3, <2>4 DEF FbTypes, GridType, Pictures, SameText, SameCursor, MarginsType
  <2>6. FbPicture' BY <1>14, <2>1, <2>2 DEF FbPicture, SameCursor
  <2> QED BY <2>5, <2>6 DEF FbInv
<1>16. ASSUME flanterm_fb_full_refresh PROVE FbInv'
  <2>1. /\ grid' = grid /\ queue' = <<>> /\ map' = map /\ ~open /\ fb' \in [Cells -> Pictures]
        /\ \A i \in Cells : fb'[i] = plot_char(IF CursorAt(i) THEN Inverted(grid[i]) ELSE grid[i])
    BY <1>16, RefreshDraws
  <2>2. /\ SameText /\ SameCursor /\ open' = open
        /\ old_cursor_x' = old_cursor_x /\ old_cursor_y' = old_cursor_y
    BY <1>16 DEF flanterm_fb_full_refresh
  <2>3. (\A i \in Cells : map[i] = 0) /\ old_cursor_x = cursor_x /\ old_cursor_y = cursor_y
    BY <2>1 DEF FbInv, FbPicture
  <2>4. map \in [Cells -> Nat] BY <1>1 DEF InOrder, Raw, Buffers
  <2>5. InOrder(Buffers)' BY <1>13, <2>1, <2>3, <2>4
  <2>6. FbTypes'
    BY <1>1, <2>1, <2>2, <2>5 DEF FbTypes, GridType, Pictures, SameText, SameCursor, MarginsType
  <2>7. FbPicture' BY <1>14, <2>1, <2>2, <2>3 DEF FbPicture, SameCursor
  <2> QED BY <2>6, <2>7 DEF FbInv
<1>17. CASE UNCHANGED fbvars
  <2>1. FbTypes' BY <1>1, <1>17 DEF fbvars, FbTypes, GridType, InOrder, Raw, Buffers, MarginsType
  <2>2. FbPicture' BY <1>17 DEF fbvars, FbInv, FbPicture, FlushShowsGrid, OldCursorAt
  <2> QED BY <2>1, <2>2 DEF FbInv
<1>18. CASE FbTermNext
  <2>1. text_fg \in Pens /\ text_bg \in Pens /\ shows_cursor \in BOOLEAN /\ (~shows_cursor) \in BOOLEAN
    BY <1>1 DEF TextTypes
  <2>2. CASE \E pen \in Pens : SetText(pen, text_bg) \/ SetText(text_fg, pen) BY <1>9, <2>1, <2>2
  <2>3. CASE flanterm_fb_swap_palette BY <1>9, <2>1, <2>3 DEF flanterm_fb_swap_palette
  <2>4. CASE SetContext(~shows_cursor, margins) BY <1>10, <2>1, <2>4
  <2>5. CASE \E region \in Regions : SetContext(shows_cursor, region) BY <1>10, <2>1, <2>5
  <2> QED BY <1>4, <1>5, <1>6, <1>7, <1>8, <1>11, <1>12, <1>15, <1>16, <1>18, <2>2, <2>3, <2>4, <2>5
          DEF FbTermNext
<1> QED BY <1>17, <1>18

(* Whatever flanterm.c calls, and however often, on a screen of any size   *)
(* and with any font: the queue has one item for a changed cell and never  *)
(* outgrows its room; every call does to the screen what Screen says; and  *)
(* after each flush and each refresh every pixel of the frame buffer is    *)
(* that of its cell, with the cursor in its place and nowhere else.        *)
THEOREM FlushIsExact ==
    ASSUME FbTermNumbers
    PROVE  FbTermSpec => FlushExact
<1>1. FbInv => TypeOK /\ QueueFits /\ FlushShowsGrid
  <2> SUFFICES ASSUME FbInv PROVE TypeOK /\ QueueFits /\ FlushShowsGrid OBVIOUS
  <2>1. /\ FbTypes /\ InOrder(Buffers) /\ Buffers.queue = queue /\ Buffers.map = map
        /\ grid \in [Cells -> Styles]
    BY DEF FbInv, FbTypes, Buffers, GridType
  <2>2. queue \in Seq(Items) /\ map \in [Cells -> Nat] /\ Len(queue) \in Nat
    BY <2>1, LenProperties DEF InOrder, Raw
  <2>3. Len(queue) <= rows * cols BY <2>1, BuffersFit
  <2>4. \A i \in Cells : map[i] # 0 => map[i] \in 1 .. Len(queue) /\ ItemCell(queue[map[i]]) = i
    BY <2>1 DEF InOrder
  <2>5. \A k \in 1 .. Len(queue) : map[ItemCell(queue[k])] = k BY <2>1 DEF InOrder
  <2>6. QueueFits BY <2>3, <2>4, <2>5 DEF QueueFits, ItemCell
  <2>7. \A i \in Cells : map[i] \in 0 .. Len(queue) BY <2>2, <2>4
  <2>8. map \in [Cells -> 0 .. Len(queue)] BY <2>2, <2>7
  <2>9. TypeOK BY <2>1, <2>2, <2>8 DEF TypeOK, Items, Styles, FbTypes, Columns, Lines
  <2>10. FlushShowsGrid BY DEF FbInv, FbPicture
  <2> QED BY <2>6, <2>9, <2>10
<1>2. FbInv => (fbvars' # fbvars => ImplementsScreen) BY ScreenImplemented
<1>3. FbTermInit => FbInv BY FbTermInitInv
<1>4. FbInv /\ [FbTermNext]_fbvars => FbInv' BY FbTermStep
<1> QED BY <1>1, <1>2, <1>3, <1>4, PTL DEF FbTermSpec, FlushExact

-----------------------------------------------------------------------------
(* The colours of the text (Sgr).                                          *)

(* What save_state has kept are attributes too, and colours with them: a   *)
(* state may be restored before any was saved.                             *)
SavedType ==
    /\ {saved.attributes[1], saved.attributes[2], saved.attributes[3]} \subseteq BOOLEAN
    /\ {saved.attributes[4], saved.attributes[5]} \subseteq Numbers \cup {None}
    /\ {saved.fg, saved.bg} \subseteq TextColours

SgrInv == SgrTypeOK /\ SavedType

(* The colours that the attributes can ask for are colours.                *)
LEMMA ShadesAreColours ==
    /\ {default_fg, default_fg_bright, default_bg, default_bg_bright, Rgb} \subseteq TextColours
    /\ \A number \in Numbers :
           /\ Normal(number) \in TextColours /\ Bright(number) \in TextColours
           /\ \A on \in BOOLEAN : Shade(number, on) \in TextColours
    /\ None \notin Numbers
BY SgrNumbers DEF TextColours, Palettes, Shade, None

(* A value that sgr reads leaves fewer of them.                            *)
LEMMA ReadLeaves ==
    ASSUME SgrInv, ReadValue PROVE left' \in 0 .. MAX_VALUES \cup {1} /\ SavedType'
BY SgrNumbers DEF SgrInv, SgrTypeOK, ReadValue, SavedType

(* Every call and every value that is read keeps the types.                *)
LEMMA SgrStep == ASSUME SgrInv, SgrNext PROVE SgrInv'
<1> USE SgrInv
<1> USE DEF SgrInv, SgrTypeOK
<1>1. ASSUME NEW n \in 0 .. MAX_VALUES, sgr(n) PROVE SgrInv'
  BY <1>1, SgrNumbers DEF sgr, SavedType, attributes
<1>2. ASSUME NEW on \in BOOLEAN, SetBold(on) PROVE SgrInv'
  BY <1>2, ReadLeaves, ShadesAreColours DEF SetBold, Paint
<1>3. ASSUME NEW on \in BOOLEAN, SetBgBold(on) PROVE SgrInv'
  BY <1>3, ReadLeaves, ShadesAreColours DEF SetBgBold, Paint
<1>4. ASSUME SetDefault PROVE SgrInv'
  BY <1>4, ReadLeaves, ShadesAreColours DEF SetDefault, Paint
<1>5. ASSUME SetPrimaryDefault PROVE SgrInv'
  BY <1>5, ReadLeaves, ShadesAreColours DEF SetPrimaryDefault, Paint
<1>6. ASSUME SetBgDefault PROVE SgrInv'
  BY <1>6, ReadLeaves, ShadesAreColours DEF SetBgDefault, Paint
<1>7. ASSUME NEW number \in Numbers, SetPrimary(number) PROVE SgrInv'
  BY <1>7, ReadLeaves, ShadesAreColours DEF SetPrimary, Paint
<1>8. ASSUME NEW number \in Numbers, SetBg(number) PROVE SgrInv'
  BY <1>8, ReadLeaves, ShadesAreColours DEF SetBg, Paint
<1>9. ASSUME NEW on \in BOOLEAN, SetReverse(on) PROVE SgrInv'
  BY <1>9, ReadLeaves, ShadesAreColours DEF SetReverse, Paint
<1>10. ASSUME NEW number \in Numbers, SetPrimaryBright(number) PROVE SgrInv'
  BY <1>10, ReadLeaves, ShadesAreColours DEF SetPrimaryBright, Paint
<1>11. ASSUME NEW number \in Numbers, SetBgBright(number) PROVE SgrInv'
  BY <1>11, ReadLeaves, ShadesAreColours DEF SetBgBright, Paint
<1>12. ASSUME NEW fg \in BOOLEAN, NEW count \in {3, 5}, NEW colour \in Palettes \cup {Rgb},
              SetAny(fg, count, colour)
       PROVE  SgrInv'
  BY <1>12, ShadesAreColours, SgrNumbers DEF SetAny, Paint, SavedType, TextColours, attributes
<1>13. ASSUME NEW count \in {1, 2, left}, left > 0, Skip(count) PROVE SgrInv'
  BY <1>13, SgrNumbers DEF Skip, SavedType, attributes
<1>14. ASSUME SaveState PROVE SgrInv'
  BY <1>14 DEF SaveState, SavedType, attributes
<1>15. ASSUME RestoreState PROVE SgrInv'
  BY <1>15 DEF RestoreState, SavedType, Paint
<1>16. ASSUME flanterm_context_reinit PROVE SgrInv'
  BY <1>16 DEF flanterm_context_reinit, SavedType
<1> QED BY <1>1, <1>2, <1>3, <1>4, <1>5, <1>6, <1>7, <1>8, <1>9, <1>10, <1>11, <1>12, <1>13,
           <1>14, <1>15, <1>16, SgrNext DEF SgrNext, Intensity, Plain, Other

(* No order of the sequences leads colours that match the attributes away  *)
(* from them, but for the intensity of a default under reverse video.      *)
LEMMA ColoursStay == ASSUME SgrInv PROVE ColoursMatch
<1> USE DEF Matches, Asked, attributes, Paint, Shade
<1>1. {bold, bg_bold, reverse_video} \subseteq BOOLEAN /\ None \notin Numbers
  BY ShadesAreColours DEF SgrInv, SgrTypeOK
<1>2. SetDefault => Matches' BY <1>1 DEF SetDefault
<1>3. ASSUME Matches PROVE SetPrimaryDefault \/ SetBgDefault => Matches'
  <2>1. SetPrimaryDefault => Matches' BY <1>1, <1>3 DEF SetPrimaryDefault
  <2>2. SetBgDefault => Matches' BY <1>1, <1>3 DEF SetBgDefault
  <2> QED BY <2>1, <2>2
<1>4. ASSUME Matches, NEW number \in Numbers PROVE SetPrimary(number) \/ SetBg(number) => Matches'
  <2>1. SetPrimary(number) => Matches' BY <1>1, <1>4 DEF SetPrimary
  <2>2. SetBg(number) => Matches' BY <1>1, <1>4 DEF SetBg
  <2> QED BY <2>1, <2>2
<1>5. ASSUME Matches, NEW on \in BOOLEAN PROVE SetReverse(on) => Matches'
  BY <1>1, <1>5 DEF SetReverse
<1>6. ASSUME Matches, NEW on \in BOOLEAN, SetBold(on), ~reverse_video \/ current_primary # None
      PROVE  Matches'
  BY <1>1, <1>6 DEF SetBold
<1>7. ASSUME Matches, NEW on \in BOOLEAN, SetBgBold(on), ~reverse_video \/ current_bg # None
      PROVE  Matches'
  BY <1>1, <1>7 DEF SetBgBold
<1>8. SaveState /\ Matches => <<pen_fg, pen_bg>>' = Asked(saved'.attributes)
  BY DEF SaveState
<1>9. RestoreState /\ <<saved.fg, saved.bg>> = Asked(saved.attributes) => Matches'
  BY DEF RestoreState
<1> HIDE DEF Matches, Asked, attributes, Paint, Shade
<1> QED BY <1>2, <1>3, <1>4, <1>5, <1>6, <1>7, <1>8, <1>9 DEF ColoursMatch, Plain, Intensity

(* sgr, save_state, restore_state: the colours in use stay those that the  *)
(* attributes ask for, for any colour numbers and however many sequences,  *)
(* except after a change of intensity under reverse video while its colour *)
(* is a default.                                                           *)
THEOREM ColoursAreKept == SgrSpec => ColoursKept
<1>1. SgrInit => SgrInv
  <2> SUFFICES ASSUME SgrInit PROVE SgrInv OBVIOUS
  <2>1. 0 \in Numbers /\ MAX_VALUES \in Nat BY SgrNumbers
  <2>2. SgrTypeOK
    <3>1. {bold, bg_bold, reverse_video} \subseteq BOOLEAN BY DEF SgrInit
    <3>2. {current_primary, current_bg} \subseteq Numbers \cup {None} BY DEF SgrInit
    <3>3. {pen_fg, pen_bg} \subseteq TextColours BY ShadesAreColours DEF SgrInit
    <3>4. left \in 0 .. MAX_VALUES \cup {1} BY <2>1 DEF SgrInit
    <3> QED BY <3>1, <3>2, <3>3, <3>4 DEF SgrTypeOK
  <2>3. SavedType
    <3>1. saved.attributes = <<FALSE, FALSE, FALSE, 0, 0>> /\ saved.fg = Normal(0) /\ saved.bg = Normal(0)
      BY DEF SgrInit
    <3>2. /\ saved.attributes[1] = FALSE /\ saved.attributes[2] = FALSE /\ saved.attributes[3] = FALSE
          /\ saved.attributes[4] = 0 /\ saved.attributes[5] = 0
      BY <3>1
    <3> QED BY <2>1, <3>1, <3>2, ShadesAreColours DEF SavedType
  <2> QED BY <2>2, <2>3 DEF SgrInv
<1>2. SgrInv /\ [SgrNext]_sgrvars => SgrInv'
  <2>1. SgrInv /\ UNCHANGED sgrvars => SgrInv'
    BY DEF sgrvars, SgrInv, SgrTypeOK, SavedType
  <2> QED BY <2>1, SgrStep
<1>3. SgrInv => SgrTypeOK BY DEF SgrInv
<1>4. SgrInv => [sgrvars' # sgrvars => ColoursMatch]_sgrvars BY ColoursStay
<1> QED BY <1>1, <1>2, <1>3, <1>4, PTL DEF SgrSpec, ColoursKept

-----------------------------------------------------------------------------
(* What control sequences do (Term).                                       *)

Inks == [c : Chars, fg : {Colour}, bg : {Colour}]
Spots == [x : Nat, y : Nat, fg : {Colour}, bg : {Colour}]

(* The screens that the back end can have; two that differ only in their   *)
(* cells and their cursors.                                                *)
Screens == [cells : [Cells -> Inks], x : Nat, y : Nat, fg : {Colour}, bg : {Colour},
            saved : Spots, top : 0 .. rows, bottom : 0 .. rows, scroll_enabled : BOOLEAN]
Like(t, s) ==
    /\ t \in Screens /\ t.saved = s.saved
    /\ t.top = s.top /\ t.bottom = s.bottom /\ t.scroll_enabled = s.scroll_enabled

(* The cursor's row, and the saved cursor, as the type of the screen has   *)
(* them.                                                                   *)
OnRow(s) == s.y < rows \/ s.y < cols
SavedOK(s) == s.saved.x <= cols /\ OnRow(s.saved)
RegionOf(s) ==
    \/ s.top = 0 /\ s.bottom = rows
    \/ s.top >= 0 /\ s.top + 2 <= s.bottom /\ s.bottom <= rows

ScreenOK(s) == s \in Screens /\ s.x <= cols /\ OnRow(s) /\ SavedOK(s) /\ RegionOf(s)

(* A cursor that does not leave the screen.                                *)
Stays(s, t) == s.y < rows /\ s.bottom = rows => t.y < rows

TermInv ==
    /\ ScreenOK(screen) /\ screen.scroll_enabled = TRUE
    /\ saved_cursor \in [x : 0 .. cols - 1, y : 0 .. rows - 1] /\ inserts \in BOOLEAN

(* The screen has rows, columns and a blank.                               *)
LEMMA Sized == rows \in Nat \ {0} /\ cols \in Nat \ {0} /\ ScreenNumbers /\ Space \in Chars
BY TermNumbers DEF ScreenNumbers

(* A store into a field of a screen changes this field and no other. *)
LEMMA StoreCells ==
    ASSUME NEW s \in Screens, NEW v \in [Cells -> Inks]
    PROVE  LET t == [s EXCEPT !.cells = v] IN Like(t, s) /\ t.cells = v /\ t.x = s.x /\ t.y = s.y
BY DEF Screens, Like

(* A new column, or a new row.                                             *)
LEMMA StorePlace ==
    ASSUME NEW s \in Screens, NEW v \in Nat, NEW w \in Nat
    PROVE  /\ LET t == [s EXCEPT !.x = v]
              IN  Like(t, s) /\ t.x = v /\ t.y = s.y /\ t.cells = s.cells
           /\ LET t == [s EXCEPT !.y = w]
              IN  Like(t, s) /\ t.x = s.x /\ t.y = w /\ t.cells = s.cells
BY DEF Screens, Like

(* Whether the text may scroll.                                            *)
LEMMA StoreScroll ==
    ASSUME NEW s \in Screens, NEW b \in BOOLEAN
    PROVE  LET t == [s EXCEPT !.scroll_enabled = b]
           IN  /\ t \in Screens /\ t.x = s.x /\ t.y = s.y /\ t.cells = s.cells /\ t.saved = s.saved
               /\ t.top = s.top /\ t.bottom = s.bottom /\ t.scroll_enabled = b
BY DEF Screens

(* Another upper margin.                                                   *)
LEMMA StoreTop ==
    ASSUME NEW s \in Screens, NEW v \in 0 .. rows
    PROVE  LET t == [s EXCEPT !.top = v]
           IN  /\ t \in Screens /\ t.x = s.x /\ t.y = s.y /\ t.cells = s.cells /\ t.saved = s.saved
               /\ t.top = v /\ t.bottom = s.bottom /\ t.scroll_enabled = s.scroll_enabled
BY DEF Screens

(* What is written is a character in the colour of the text.               *)
LEMMA StyledInk ==
    ASSUME NEW s \in Screens, NEW c \in Chars
    PROVE  Styled(s, c) \in Inks /\ \A t \in Screens : Styled(t, c) = Styled(s, c)
BY DEF Screens, Inks, Styled

(* A write on the screen changes one cell. *)
LEMMA Puts ==
    ASSUME NEW s \in Screens, NEW ch \in Inks, NEW a \in Nat, NEW d \in Nat
    PROVE  LET t == Put(s, ch, a, d)
           IN  /\ Like(t, s) /\ t.x = s.x /\ t.y = s.y
               /\ \A i \in Cells :
                      t.cells[i] = IF a < cols /\ d < rows /\ i = At(a, d) THEN ch ELSE s.cells[i]
<1> DEFINE f == [s.cells EXCEPT ![At(a, d)] = ch]
<1>1. s.cells \in [Cells -> Inks] BY DEF Screens
<1>2. CASE a < cols /\ d < rows
  <2>1. At(a, d) \in Cells BY <1>2, Sized, CellAt
  <2>2. f \in [Cells -> Inks] /\ \A i \in Cells : f[i] = IF i = At(a, d) THEN ch ELSE s.cells[i]
    BY <1>1, <2>1
  <2>3. Put(s, ch, a, d) = [s EXCEPT !.cells = f] BY <1>2 DEF Put
  <2> DEFINE t == [s EXCEPT !.cells = f]
  <2>4. Like(t, s) /\ t.cells = f /\ t.x = s.x /\ t.y = s.y BY <2>2, StoreCells
  <2> HIDE DEF f, t
  <2> QED BY <1>2, <2>2, <2>3, <2>4 DEF t
<1>3. CASE ~(a < cols /\ d < rows) BY <1>3 DEF Put, Like
<1> QED BY <1>2, <1>3

(* set_cursor_pos cuts both numbers to the screen. *)
LEMMA Sets ==
    ASSUME NEW s \in Screens, NEW a \in Int, NEW d \in Int
    PROVE  LET t == set_cursor_pos(s, a, d)
           IN  /\ Like(t, s) /\ t.cells = s.cells
               /\ t.x = (IF a < 0 THEN 0 ELSE IF a >= cols THEN cols - 1 ELSE a)
               /\ t.y = (IF d < 0 THEN 0 ELSE IF d >= rows THEN rows - 1 ELSE d)
               /\ t.x \in 0 .. cols - 1 /\ t.y \in 0 .. rows - 1
<1> DEFINE v == IF a < 0 THEN 0 ELSE IF a >= cols THEN cols - 1 ELSE a
           w == IF d < 0 THEN 0 ELSE IF d >= rows THEN rows - 1 ELSE d
<1>1. v \in 0 .. cols - 1 /\ w \in 0 .. rows - 1 /\ v \in Nat /\ w \in Nat BY Sized
<1>2. set_cursor_pos(s, a, d) = [s EXCEPT !.x = v, !.y = w] BY DEF set_cursor_pos
<1> DEFINE t == [s EXCEPT !.x = v, !.y = w]
<1> HIDE DEF v, w
<1>3. Like(t, s) /\ t.x = v /\ t.y = w /\ t.cells = s.cells BY <1>1 DEF Screens, Like
<1> HIDE DEF t
<1> QED BY <1>1, <1>2, <1>3 DEF t, v, w

(* The cells a row further down or up are on the screen inside a region. *)
LEMMA Neighbours ==
    ASSUME NEW i \in Cells
    PROVE  /\ i \div cols \in 0 .. rows - 1
           /\ i \div cols <= rows - 2 => i + cols \in Cells
           /\ i \div cols >= 1 => i - cols \in Cells
<1> DEFINE r == i \div cols  c == i % cols
<1>1. i \in Nat /\ c \in 0 .. cols - 1 /\ r \in 0 .. rows - 1 /\ i = At(c, r)
  BY Sized, CellPlace
<1>2. ASSUME r <= rows - 2 PROVE i + cols \in Cells
  <2>1. r + 1 \in 0 .. rows - 1 BY <1>1, <1>2, Sized
  <2> HIDE DEF r, c
  <2>2. At(c, r + 1) \in Cells BY <1>1, <2>1, Sized, CellAt
  <2>3. At(c, r + 1) = r * cols + cols + c BY <1>1, Sized DEF At
  <2>4. r * cols \in Nat BY <1>1, Sized
  <2> QED BY <1>1, <2>2, <2>3, <2>4, Sized DEF At
<1>3. ASSUME r >= 1 PROVE i - cols \in Cells
  <2>1. r - 1 \in 0 .. rows - 1 BY <1>1, <1>3, Sized
  <2> HIDE DEF r, c
  <2>2. At(c, r - 1) \in Cells BY <1>1, <2>1, Sized, CellAt
  <2>3. At(c, r - 1) = r * cols - cols + c BY <1>1, Sized DEF At
  <2>4. r * cols \in Nat BY <1>1, Sized
  <2> QED BY <1>1, <2>2, <2>3, <2>4, Sized DEF At
<1> QED BY <1>1, <1>2, <1>3

(* Scrolling either way moves the rows of the region, and no other. *)
LEMMA Scrolling ==
    ASSUME NEW s \in Screens
    PROVE  /\ LET t == scroll(s)
              IN  /\ Like(t, s) /\ t.x = s.x /\ t.y = s.y
                  /\ RegionOf(s) => \A i \in Cells :
                         i \div cols \notin s.top .. s.bottom - 1 => t.cells[i] = s.cells[i]
           /\ LET t == revscroll(s)
              IN  /\ Like(t, s) /\ t.x = s.x /\ t.y = s.y
                  /\ RegionOf(s) => \A i \in Cells :
                         i \div cols \notin s.top .. s.bottom - 1 => t.cells[i] = s.cells[i]
<1> DEFINE g == s.cells  sp == Styled(s, Space)  T == s.top  E == s.bottom
           up == [i \in Cells |-> IF i \div cols = E - 1 THEN sp
                                  ELSE IF i \div cols \in T .. E - 2 THEN g[i + cols] ELSE g[i]]
           down == [i \in Cells |-> IF i \div cols = T THEN sp
                                    ELSE IF i \div cols \in T + 1 .. E - 1 THEN g[i - cols] ELSE g[i]]
<1>1. g \in [Cells -> Inks] /\ T \in 0 .. rows /\ E \in 0 .. rows BY DEF Screens
<1>2. sp \in Inks BY StyledInk, Sized
<1>3. scroll(s) = [s EXCEPT !.cells = up] /\ revscroll(s) = [s EXCEPT !.cells = down]
  BY DEF scroll, revscroll
<1>4. RegionOf(s) => E - 1 >= T BY <1>1, Sized DEF RegionOf
<1> HIDE DEF sp, g, T, E
<1>5. ASSUME NEW i \in Cells
      PROVE  /\ i \div cols \in T .. E - 2 => i + cols \in Cells
             /\ i \div cols \in T + 1 .. E - 1 => i - cols \in Cells
             /\ i \div cols \in Nat
  BY <1>1, Sized, Neighbours
<1>6. up \in [Cells -> Inks] BY <1>1, <1>2, <1>5
<1>7. down \in [Cells -> Inks] BY <1>1, <1>2, <1>5
<1>8. RegionOf(s) => \A i \in Cells : i \div cols \notin T .. E - 1 => up[i] = g[i]
  BY <1>1, <1>4, <1>5
<1>9. RegionOf(s) => \A i \in Cells : i \div cols \notin T .. E - 1 => down[i] = g[i]
  BY <1>1, <1>4, <1>5
<1> DEFINE u == [s EXCEPT !.cells = up]  d == [s EXCEPT !.cells = down]
<1> HIDE DEF up, down
<1>10. Like(u, s) /\ u.cells = up /\ u.x = s.x /\ u.y = s.y BY <1>6, StoreCells
<1>11. Like(d, s) /\ d.cells = down /\ d.x = s.x /\ d.y = s.y BY <1>7, StoreCells
<1> HIDE DEF u, d
<1>12. scroll(s) = u /\ revscroll(s) = d BY <1>3 DEF u, d
<1> QED BY <1>8, <1>9, <1>10, <1>11, <1>12 DEF g, T, E
(* Where raw_putchar writes: at the cursor, or in the next row, which is   *)
(* the same row if the region scrolls, and at most the row that LastRow    *)
(* takes for the last one.                                                 *)
Wraps(s) == s.x >= cols /\ (s.y < s.bottom - 1 \/ s.scroll_enabled)
Below(s) == IF s.y + 1 = s.bottom THEN s.y ELSE s.y + 1
PutX(s) == IF Wraps(s) THEN 0 ELSE s.x
PutY(s) == IF Wraps(s) THEN IF Below(s) >= cols THEN cols - 1 ELSE Below(s) ELSE s.y

(* A cursor right of the last column is brought to the next row first.     *)
LEMMA NextPlace ==
    ASSUME NEW s \in Screens
    PROVE  LET n == IF NextRow(s) # s THEN LastRow(NextRow(s)) ELSE s
           IN  /\ Like(n, s) /\ n.x = PutX(s) /\ n.y = PutY(s)
               /\ ~Wraps(s) \/ s.y + 1 # s.bottom => n.cells = s.cells
<1> DEFINE m == NextRow(s)
<1>1. s.x \in Nat /\ s.y \in Nat /\ s.bottom \in 0 .. rows BY DEF Screens
<1>2. CASE ~Wraps(s)
  <2>1. m = s BY <1>2 DEF NextRow, Wraps
  <2> QED BY <1>2, <2>1 DEF Like, PutX, PutY
<1>3. CASE Wraps(s)
  <2> DEFINE y1 == s.y + 1  down == [s EXCEPT !.x = 0, !.y = y1]
             up == [down EXCEPT !.y = s.y]
  <2>1. y1 \in Nat /\ 0 \in Nat BY <1>1
  <2>2. Like(down, s) /\ down.x = 0 /\ down.y = y1 /\ down.cells = s.cells
    <3> HIDE DEF y1
    <3> QED BY <2>1 DEF Screens, Like
  <2>3. m = IF y1 = s.bottom THEN scroll([down EXCEPT !.y = y1 - 1]) ELSE down
    <3>1. down = [s EXCEPT !.x = 0, !.y = @ + 1] BY <1>1
    <3>2. [down EXCEPT !.y = @ - 1] = [down EXCEPT !.y = y1 - 1]
      <4> HIDE DEF down
      <4> QED BY <2>2
    <3> HIDE DEF down
    <3> QED BY <1>3, <2>2, <3>1, <3>2 DEF NextRow, Wraps
  <2>4. y1 - 1 = s.y BY <1>1
  <2> HIDE DEF down, y1
  <2>5. Like(up, down) /\ up.x = down.x /\ up.y = s.y /\ up.cells = down.cells
    <3>1. down \in Screens BY <2>2 DEF Like
    <3> QED BY <1>1, <3>1, StorePlace, ZenonT(60)
  <2> HIDE DEF up
  <2>6. Like(m, s) /\ m.x = 0 /\ m.y = Below(s) /\ (y1 # s.bottom => m.cells = s.cells)
    <3>1. CASE y1 = s.bottom
      <4>1. m = scroll(up) BY <2>3, <2>4, <3>1 DEF up
      <4>2. up \in Screens BY <2>5 DEF Like
      <4> HIDE DEF m
      <4>3. Like(m, up) /\ m.x = up.x /\ m.y = up.y BY <4>1, <4>2, Scrolling
      <4> QED BY <2>2, <2>5, <3>1, <4>3 DEF Like, Below, y1
    <3>2. CASE y1 # s.bottom BY <2>2, <2>3, <3>2 DEF Like, Below, y1
    <3> QED BY <3>1, <3>2
  <2> HIDE DEF m
  <2>7. m # s
    <3>1. s.x # 0 BY <1>1, <1>3, Sized DEF Wraps
    <3> QED BY <2>6, <3>1
  <2> DEFINE w == cols - 1  l == [m EXCEPT !.y = w]
  <2>8. w \in Nat BY Sized
  <2> HIDE DEF w
  <2>9. m \in Screens BY <2>6 DEF Like
  <2>10. Like(l, m) /\ l.x = m.x /\ l.y = w /\ l.cells = m.cells BY <2>8, <2>9, StorePlace
  <2> HIDE DEF l
  <2>11. LastRow(m) = IF m.y >= cols THEN l ELSE m BY <2>6 DEF LastRow, l, w
  <2>12. Like(LastRow(m), s) /\ LastRow(m).x = 0 /\ LastRow(m).y = PutY(s)
         /\ (y1 # s.bottom => LastRow(m).cells = s.cells)
    BY <1>3, <2>6, <2>10, <2>11 DEF Like, PutY, w
  <2> QED BY <1>3, <2>7, <2>12 DEF PutX, y1, m
<1> QED BY <1>2, <1>3

(* raw_putchar writes there, and moves on by a column. *)
LEMMA Putchar ==
    ASSUME NEW s \in Screens, NEW c \in Chars
    PROVE  LET t == raw_putchar(s, c)
           IN  /\ Like(t, s) /\ t.x = PutX(s) + 1 /\ t.y = PutY(s)
               /\ ~Wraps(s) \/ s.y + 1 # s.bottom =>
                      \A i \in Cells : t.cells[i] =
                          IF PutX(s) < cols /\ PutY(s) < rows /\ i = At(PutX(s), PutY(s))
                          THEN Styled(s, c) ELSE s.cells[i]
<1> DEFINE n == IF NextRow(s) # s THEN LastRow(NextRow(s)) ELSE s
           e == Styled(n, c)  p == Put(n, e, n.x, n.y)  v == n.x + 1  t == [p EXCEPT !.x = v]
<1>1. /\ Like(n, s) /\ n.x = PutX(s) /\ n.y = PutY(s)
      /\ ~Wraps(s) \/ s.y + 1 # s.bottom => n.cells = s.cells
  BY NextPlace
<1>2. raw_putchar(s, c) = t BY DEF raw_putchar
<1> HIDE DEF n
<1>3. n \in Screens /\ n.x \in Nat /\ n.y \in Nat BY <1>1 DEF Like, Screens
<1>4. e \in Inks /\ e = Styled(s, c) BY <1>3, StyledInk
<1> HIDE DEF e
<1>5. /\ Like(p, n) /\ p.x = n.x /\ p.y = n.y
      /\ \A i \in Cells :
            p.cells[i] = IF n.x < cols /\ n.y < rows /\ i = At(n.x, n.y) THEN e ELSE n.cells[i]
  BY <1>3, <1>4, Puts
<1> HIDE DEF p
<1>6. v \in Nat /\ p \in Screens BY <1>3, <1>5 DEF Like
<1>7. v = PutX(s) + 1 BY <1>1
<1> HIDE DEF v
<1>8. Like(t, p) /\ t.x = v /\ t.y = p.y /\ t.cells = p.cells BY <1>6, StorePlace
<1> HIDE DEF t
<1> QED BY <1>1, <1>2, <1>4, <1>5, <1>7, <1>8 DEF Like

(* A cursor in a row stays in one; one in the region of a screen that is   *)
(* no higher than wide stays in it.                                        *)
LEMMA PutcharRow ==
    ASSUME NEW s \in Screens, OnRow(s), RegionOf(s)
    PROVE  /\ PutX(s) \in Nat /\ PutY(s) \in Nat
           /\ PutY(s) < rows \/ PutY(s) < cols
           /\ s.y < rows /\ s.bottom = rows => PutY(s) < rows
           /\ s.scroll_enabled /\ s.x <= cols => PutX(s) + 1 <= cols
           /\ s.y \in s.top .. s.bottom - 1 /\ cols >= rows => PutY(s) \in s.top .. s.bottom - 1
<1>1. s.x \in Nat /\ s.y \in Nat /\ s.top \in 0 .. rows /\ s.bottom \in 0 .. rows
      /\ s.scroll_enabled \in BOOLEAN
  BY DEF Screens
<1>2. s.bottom >= 1 /\ s.bottom <= rows BY <1>1, Sized DEF RegionOf
<1>3. Below(s) \in Nat /\ (s.y + 1 = s.bottom => Below(s) = s.y) /\ (s.y + 1 # s.bottom => Below(s) = s.y + 1)
  BY <1>1 DEF Below
<1>4. CASE ~Wraps(s)
  BY <1>1, <1>4, Sized DEF PutX, PutY, OnRow, Wraps
<1>5. CASE Wraps(s)
  <2>1. PutX(s) = 0 /\ PutY(s) = IF Below(s) >= cols THEN cols - 1 ELSE Below(s)
    BY <1>5 DEF PutX, PutY
  <2> QED BY <1>1, <1>2, <1>3, <2>1, Sized DEF OnRow
<1> QED BY <1>4, <1>5

-----------------------------------------------------------------------------
(* A loop over screens passes through screens, from the first one on. *)
LEMMA ScreenLoop ==
    ASSUME NEW n \in Nat, NEW s \in Screens, NEW step \in [(1 .. n) \X Screens -> Screens]
    PROVE  \E v \in [0 .. n -> Screens] :
               v[0] = s /\ \A k \in 1 .. n : v[k] = step[<<k, v[k - 1]>>]
<1>1. PICK v : History(v, Screens, n, s, step) BY Loop
<1> QED BY <1>1 DEF History

(* The loop over raw_putchar goes through these screens.                   *)
LEMMA BlanksRun ==
    ASSUME NEW n \in Nat, NEW s \in Screens
    PROVE  \E v : /\ v[0] = s /\ \A k \in 1 .. n : v[k] = raw_putchar(v[k - 1], Space)
                  /\ Blanks(n, s) = v[n]
<1> DEFINE step == [p \in (1 .. n) \X Screens |-> raw_putchar(p[2], Space)]
<1>1. \A u \in Screens : raw_putchar(u, Space) \in Screens BY Putchar, Sized DEF Like
<1>2. step \in [(1 .. n) \X Screens -> Screens] BY <1>1
<1>3. PICK v \in [0 .. n -> Screens] : v[0] = s /\ \A k \in 1 .. n : v[k] = step[<<k, v[k - 1]>>]
  <2> HIDE DEF step
  <2> QED BY <1>2, ScreenLoop
<1>4. \A k \in 1 .. n : v[k] = raw_putchar(v[k - 1], Space)
  <2>1. \A k \in 1 .. n : v[k - 1] \in Screens OBVIOUS
  <2>2. \A k \in 1 .. n : step[<<k, v[k - 1]>>] = raw_putchar(v[k - 1], Space) BY <2>1
  <2> QED BY <1>3, <2>2
<1> HIDE DEF step
<1>6. v = [k \in 0 .. n |-> IF k = 0 THEN s ELSE raw_putchar(v[k - 1], Space)]
  <2>1. \A k \in 0 .. n : v[k] = IF k = 0 THEN s ELSE raw_putchar(v[k - 1], Space)
    BY <1>3, <1>4
  <2> QED BY <2>1
<1>7. PICK after : /\ after = [k \in 0 .. n |-> IF k = 0 THEN s ELSE raw_putchar(after[k - 1], Space)]
                   /\ Blanks(n, s) = after[n]
  <2>1. \E w : w = [k \in 0 .. n |-> IF k = 0 THEN s ELSE raw_putchar(w[k - 1], Space)] BY <1>6
  <2> QED BY <2>1 DEF Blanks
<1>8. 0 \in 0 .. n /\ \A k \in 1 .. n : k \in 0 .. n /\ k # 0 OBVIOUS
<1>9. after[0] = s /\ \A k \in 1 .. n : after[k] = raw_putchar(after[k - 1], Space) BY <1>7, <1>8
<1> QED BY <1>7, <1>9

(* Any number of blanks keeps the cursor in a row. *)
LEMMA BlanksKeep ==
    ASSUME NEW n \in Nat, NEW s \in Screens, OnRow(s), RegionOf(s)
    PROVE  LET t == Blanks(n, s)
           IN  /\ Like(t, s) /\ OnRow(t) /\ Stays(s, t)
               /\ s.scroll_enabled /\ s.x <= cols => t.x <= cols
               /\ s.y \in s.top .. s.bottom - 1 /\ cols >= rows => t.y \in s.top .. s.bottom - 1
<1>1. PICK v : /\ v[0] = s /\ \A k \in 1 .. n : v[k] = raw_putchar(v[k - 1], Space)
               /\ Blanks(n, s) = v[n]
  BY BlanksRun
<1> DEFINE near(t) == /\ Like(t, s) /\ OnRow(t) /\ Stays(s, t)
                      /\ s.scroll_enabled /\ s.x <= cols => t.x <= cols
                      /\ s.y \in s.top .. s.bottom - 1 /\ cols >= rows =>
                             t.y \in s.top .. s.bottom - 1
           good == {k \in 0 .. n : near(v[k])}
<1>2. 0 \in good BY <1>1 DEF Like, Stays
<1>3. ASSUME NEW k \in 1 .. n, k - 1 \in good PROVE k \in good
  <2> DEFINE u == v[k - 1]  t == v[k]
  <2>1. near(u) BY <1>3
  <2>2. t = raw_putchar(u, Space) BY <1>1
  <2> HIDE DEF u, t
  <2>3. u \in Screens /\ RegionOf(u) BY <2>1 DEF Like, RegionOf
  <2>4. Like(t, u) /\ t.x = PutX(u) + 1 /\ t.y = PutY(u) BY <2>2, <2>3, Putchar, Sized
  <2>5. /\ PutY(u) < rows \/ PutY(u) < cols
        /\ u.y < rows /\ u.bottom = rows => PutY(u) < rows
        /\ u.scroll_enabled /\ u.x <= cols => PutX(u) + 1 <= cols
        /\ u.y \in u.top .. u.bottom - 1 /\ cols >= rows => PutY(u) \in u.top .. u.bottom - 1
    BY <2>1, <2>3, PutcharRow
  <2>6. near(t) BY <2>1, <2>4, <2>5 DEF Like, OnRow, Stays
  <2> HIDE DEF near
  <2> QED BY <2>6 DEF t
<1>4. n \in good
  <2> HIDE DEF good
  <2> QED BY <1>2, <1>3, UpTo
<1> QED BY <1>1, <1>4

(* Blanks fill the cells from the cursor on: in its row, and, if the text  *)
(* does not scroll, to the end of a screen no higher than wide.            *)
LEMMA BlanksFill ==
    ASSUME NEW n \in Nat, NEW s \in Screens, s.scroll_enabled = FALSE, s.x < cols, s.y < rows,
           \/ s.x + n <= cols
           \/ s.bottom = rows /\ cols >= rows /\ At(s.x, s.y) + n <= rows * cols
    PROVE  LET t == Blanks(n, s)  p == At(s.x, s.y)
           IN  /\ \A i \in Cells :
                      t.cells[i] = IF i \in p .. p + n - 1 THEN Styled(s, Space) ELSE s.cells[i]
               /\ s.x + n <= cols => t.x = s.x + n /\ t.y = s.y
<1>1. PICK v : /\ v[0] = s /\ \A k \in 1 .. n : v[k] = raw_putchar(v[k - 1], Space)
               /\ Blanks(n, s) = v[n]
  BY BlanksRun
<1> DEFINE p == At(s.x, s.y)  N == rows * cols
           fills(t, k) == \A i \in Cells :
               t.cells[i] = IF i \in p .. p + k - 1 THEN Styled(s, Space) ELSE s.cells[i]
           good == {k \in 0 .. n : /\ Like(v[k], s) /\ v[k].x <= cols /\ v[k].y < rows
                                   /\ At(v[k].x, v[k].y) = p + k /\ fills(v[k], k)
                                   /\ s.x + n <= cols => v[k].x = s.x + k /\ v[k].y = s.y}
<1>2. s.x \in Nat /\ s.y \in Nat /\ N \in Nat /\ p \in Nat BY Sized DEF Screens, At
<1> HIDE DEF p, N
<1>3. 0 \in good
  <2>1. \A i \in Cells : i \notin p .. p + 0 - 1 BY <1>2
  <2>2. fills(s, 0) BY <2>1
  <2>3. At(s.x, s.y) = p + 0 /\ s.x = s.x + 0 BY <1>2 DEF p
  <2> HIDE DEF fills
  <2> QED BY <1>1, <1>2, <2>2, <2>3, Sized DEF Like
<1>4. ASSUME NEW k \in 1 .. n, k - 1 \in good PROVE k \in good
  <2> DEFINE u == v[k - 1]  t == v[k]  m == k - 1
  <2>1. /\ Like(u, s) /\ u.x <= cols /\ u.y < rows /\ At(u.x, u.y) = p + m /\ fills(u, m)
        /\ s.x + n <= cols => u.x = s.x + m /\ u.y = s.y
    BY <1>4
  <2>2. t = raw_putchar(u, Space) BY <1>1
  <2> HIDE DEF u, t
  <2>3. u \in Screens /\ u.x \in Nat /\ u.y \in Nat /\ u.scroll_enabled = FALSE /\ u.bottom = s.bottom
    BY <2>1 DEF Like, Screens
  <2>4. m \in Nat /\ m < n /\ m + 1 = k OBVIOUS
  <2> HIDE DEF m
  <2>5. /\ PutX(u) \in 0 .. cols - 1 /\ PutY(u) \in 0 .. rows - 1 /\ At(PutX(u), PutY(u)) = p + m
        /\ ~Wraps(u) \/ u.y + 1 # u.bottom
        /\ s.x + n <= cols => PutX(u) = u.x /\ PutY(u) = u.y
    <3>1. CASE u.x < cols
      <4>1. ~Wraps(u) BY <2>3, <3>1, Sized DEF Wraps
      <4> QED BY <2>1, <2>3, <3>1, <4>1, Sized DEF PutX, PutY
    <3>2. CASE ~(u.x < cols)
      <4>1. u.x = cols BY <2>1, <2>3, <3>2, Sized
      <4>2. ~(s.x + n <= cols) BY <1>2, <2>1, <2>4, <4>1, Sized
      <4>3. s.bottom = rows /\ cols >= rows /\ p + n <= N BY <4>2 DEF p, N
      <4> DEFINE w == u.y + 1  a == w * cols
      <4>4. a = p + m /\ a \in Nat /\ w \in Nat
        <5>1. u.y * cols + cols = (u.y + 1) * cols BY <2>3, Sized
        <5> QED BY <1>2, <2>1, <2>3, <2>4, <4>1, <5>1, Sized DEF At
      <4>5. a < N BY <1>2, <2>4, <4>3, <4>4
      <4>6. w < rows
        <5> SUFFICES ASSUME ~(w < rows) PROVE FALSE OBVIOUS
        <5>1. w = rows BY <2>1, <2>3, <4>4, Sized
        <5>2. a = N BY <5>1 DEF N
        <5> HIDE DEF a
        <5> QED BY <1>2, <4>5, <5>2
      <4>7. Wraps(u) BY <2>3, <4>1, <4>3, <4>6, Sized DEF Wraps
      <4>8. PutX(u) = 0 /\ PutY(u) = w /\ u.y + 1 # u.bottom
        BY <2>3, <4>3, <4>6, <4>7, Sized DEF PutX, PutY, Below
      <4>9. At(0, w) = a BY <4>4 DEF At
      <4> QED BY <2>3, <4>2, <4>4, <4>6, <4>8, <4>9, Sized
    <3> QED BY <3>1, <3>2
  <2>6. /\ Like(t, u) /\ t.x = PutX(u) + 1 /\ t.y = PutY(u)
        /\ \A i \in Cells : t.cells[i] = IF i = p + m THEN Styled(u, Space) ELSE u.cells[i]
    BY <2>2, <2>3, <2>5, Putchar, Sized
  <2>7. Styled(u, Space) = Styled(s, Space) BY <2>3, StyledInk, Sized
  <2>8. fills(t, k)
    <3>1. \A i \in Cells : i \in p .. p + k - 1 <=> i = p + m \/ i \in p .. p + m - 1
      BY <1>2, <2>4 DEF Cells
    <3> QED BY <2>1, <2>6, <2>7, <3>1
  <2> HIDE DEF fills
  <2>9. t.x <= cols /\ t.y < rows /\ (s.x + n <= cols => t.x = s.x + k /\ t.y = s.y)
    BY <1>2, <2>1, <2>3, <2>4, <2>5, <2>6, Sized
  <2>10. At(t.x, t.y) = p + k
    <3>1. PutX(u) \in Nat /\ PutY(u) \in Nat /\ PutY(u) * cols \in Nat BY <2>5, Sized
    <3>2. At(PutX(u) + 1, PutY(u)) = At(PutX(u), PutY(u)) + 1 BY <3>1 DEF At
    <3> QED BY <1>2, <2>4, <2>5, <2>6, <3>2
  <2>11. Like(t, s) BY <2>1, <2>6 DEF Like
  <2> QED BY <2>8, <2>9, <2>10, <2>11 DEF t
<1>5. n \in good
  <2> HIDE DEF good
  <2> QED BY <1>3, <1>4, UpTo
<1> QED BY <1>1, <1>5 DEF p

(* The loops over scroll and revscroll. *)
LEMMA ScrollsRun ==
    ASSUME NEW n \in Nat, NEW s \in Screens
    PROVE  \E v : /\ v[0] = s /\ \A k \in 1 .. n : v[k] = scroll(v[k - 1])
                  /\ Scrolls(n, s) = v[n]
<1> DEFINE step == [p \in (1 .. n) \X Screens |-> scroll(p[2])]
<1>1. \A u \in Screens : scroll(u) \in Screens BY Scrolling DEF Like
<1>2. step \in [(1 .. n) \X Screens -> Screens] BY <1>1
<1>3. PICK v \in [0 .. n -> Screens] : v[0] = s /\ \A k \in 1 .. n : v[k] = step[<<k, v[k - 1]>>]
  <2> HIDE DEF step
  <2> QED BY <1>2, ScreenLoop
<1>4. \A k \in 1 .. n : v[k] = scroll(v[k - 1])
  <2>1. \A k \in 1 .. n : v[k - 1] \in Screens OBVIOUS
  <2>2. \A k \in 1 .. n : step[<<k, v[k - 1]>>] = scroll(v[k - 1]) BY <2>1
  <2> QED BY <1>3, <2>2
<1> HIDE DEF step
<1>5. v = [k \in 0 .. n |-> IF k = 0 THEN s ELSE scroll(v[k - 1])]
  <2>1. \A k \in 0 .. n : v[k] = IF k = 0 THEN s ELSE scroll(v[k - 1])
    BY <1>3, <1>4
  <2> QED BY <2>1
<1>6. PICK after : /\ after = [k \in 0 .. n |-> IF k = 0 THEN s ELSE scroll(after[k - 1])]
                   /\ Scrolls(n, s) = after[n]
  <2>1. \E w : w = [k \in 0 .. n |-> IF k = 0 THEN s ELSE scroll(w[k - 1])] BY <1>5
  <2> QED BY <2>1 DEF Scrolls
<1>7. 0 \in 0 .. n /\ \A k \in 1 .. n : k \in 0 .. n /\ k # 0 OBVIOUS
<1>8. after[0] = s /\ \A k \in 1 .. n : after[k] = scroll(after[k - 1]) BY <1>6, <1>7
<1> QED BY <1>6, <1>8

(* The same for revscroll.                                                 *)
LEMMA RevscrollsRun ==
    ASSUME NEW n \in Nat, NEW s \in Screens
    PROVE  \E v : /\ v[0] = s /\ \A k \in 1 .. n : v[k] = revscroll(v[k - 1])
                  /\ Revscrolls(n, s) = v[n]
<1> DEFINE step == [p \in (1 .. n) \X Screens |-> revscroll(p[2])]
<1>1. \A u \in Screens : revscroll(u) \in Screens BY Scrolling DEF Like
<1>2. step \in [(1 .. n) \X Screens -> Screens] BY <1>1
<1>3. PICK v \in [0 .. n -> Screens] : v[0] = s /\ \A k \in 1 .. n : v[k] = step[<<k, v[k - 1]>>]
  <2> HIDE DEF step
  <2> QED BY <1>2, ScreenLoop
<1>4. \A k \in 1 .. n : v[k] = revscroll(v[k - 1])
  <2>1. \A k \in 1 .. n : v[k - 1] \in Screens OBVIOUS
  <2>2. \A k \in 1 .. n : step[<<k, v[k - 1]>>] = revscroll(v[k - 1]) BY <2>1
  <2> QED BY <1>3, <2>2
<1> HIDE DEF step
<1>5. v = [k \in 0 .. n |-> IF k = 0 THEN s ELSE revscroll(v[k - 1])]
  <2>1. \A k \in 0 .. n : v[k] = IF k = 0 THEN s ELSE revscroll(v[k - 1])
    BY <1>3, <1>4
  <2> QED BY <2>1
<1>6. PICK after : /\ after = [k \in 0 .. n |-> IF k = 0 THEN s ELSE revscroll(after[k - 1])]
                   /\ Revscrolls(n, s) = after[n]
  <2>1. \E w : w = [k \in 0 .. n |-> IF k = 0 THEN s ELSE revscroll(w[k - 1])] BY <1>5
  <2> QED BY <2>1 DEF Revscrolls
<1>7. 0 \in 0 .. n /\ \A k \in 1 .. n : k \in 0 .. n /\ k # 0 OBVIOUS
<1>8. after[0] = s /\ \A k \in 1 .. n : after[k] = revscroll(after[k - 1]) BY <1>6, <1>7
<1> QED BY <1>6, <1>8

(* Scrolling any number of times changes only the region. *)
LEMMA ScrollsKeep ==
    ASSUME NEW n \in Nat, NEW s \in Screens
    PROVE  LET t == Scrolls(n, s)
           IN  /\ Like(t, s) /\ t.x = s.x /\ t.y = s.y
               /\ RegionOf(s) => \A i \in Cells :
                      i \div cols \notin s.top .. s.bottom - 1 => t.cells[i] = s.cells[i]
<1>1. PICK v : /\ v[0] = s /\ \A k \in 1 .. n : v[k] = scroll(v[k - 1])
               /\ Scrolls(n, s) = v[n]
  BY ScrollsRun
<1> DEFINE kept(t) == /\ Like(t, s) /\ t.x = s.x /\ t.y = s.y
                      /\ RegionOf(s) => \A i \in Cells :
                             i \div cols \notin s.top .. s.bottom - 1 => t.cells[i] = s.cells[i]
           good == {k \in 0 .. n : kept(v[k])}
<1>2. 0 \in good BY <1>1 DEF Like
<1>3. ASSUME NEW k \in 1 .. n, k - 1 \in good PROVE k \in good
  <2> DEFINE u == v[k - 1]  t == v[k]
  <2>1. kept(u) BY <1>3
  <2>2. t = scroll(u) BY <1>1
  <2> HIDE DEF u, t
  <2>3. u \in Screens /\ u.top = s.top /\ u.bottom = s.bottom /\ (RegionOf(s) => RegionOf(u))
    BY <2>1 DEF Like, RegionOf
  <2>4. /\ Like(t, u) /\ t.x = u.x /\ t.y = u.y
        /\ RegionOf(u) => \A i \in Cells :
               i \div cols \notin u.top .. u.bottom - 1 => t.cells[i] = u.cells[i]
    BY <2>2, <2>3, Scrolling
  <2>5. kept(t) BY <2>1, <2>3, <2>4 DEF Like
  <2> QED BY <2>5 DEF t
<1>4. n \in good
  <2> HIDE DEF good
  <2> QED BY <1>2, <1>3, UpTo
<1> QED BY <1>1, <1>4

(* Neither does the other direction move the cursor.                       *)
LEMMA RevscrollsKeep ==
    ASSUME NEW n \in Nat, NEW s \in Screens
    PROVE  LET t == Revscrolls(n, s) IN Like(t, s) /\ t.x = s.x /\ t.y = s.y
<1>1. PICK v : /\ v[0] = s /\ \A k \in 1 .. n : v[k] = revscroll(v[k - 1])
               /\ Revscrolls(n, s) = v[n]
  BY RevscrollsRun
<1> DEFINE good == {k \in 0 .. n : Like(v[k], s) /\ v[k].x = s.x /\ v[k].y = s.y}
<1>2. 0 \in good BY <1>1 DEF Like
<1>3. ASSUME NEW k \in 1 .. n, k - 1 \in good PROVE k \in good
  <2> DEFINE u == v[k - 1]  t == v[k]
  <2>1. Like(u, s) /\ u.x = s.x /\ u.y = s.y BY <1>3
  <2>2. t = revscroll(u) BY <1>1
  <2> HIDE DEF u, t
  <2>3. u \in Screens BY <2>1 DEF Like
  <2>4. Like(t, u) /\ t.x = u.x /\ t.y = u.y BY <2>2, <2>3, Scrolling
  <2>5. Like(t, s) /\ t.x = s.x /\ t.y = s.y BY <2>1, <2>4 DEF Like
  <2> QED BY <2>5 DEF t
<1>4. n \in good
  <2> HIDE DEF good
  <2> QED BY <1>2, <1>3, UpTo
<1> QED BY <1>1, <1>4

(* A move on a row changes the cell that it moves to. *)
LEMMA MovesCell ==
    ASSUME NEW s \in Screens, NEW a \in Nat, NEW b \in Nat, NEW d \in Nat
    PROVE  LET t == move_character(s, a, d, b, d)
           IN  /\ Like(t, s) /\ t.x = s.x /\ t.y = s.y
               /\ \A i \in Cells :
                      t.cells[i] = IF a < cols /\ b < cols /\ d < rows /\ i = At(a, d)
                                   THEN s.cells[At(b, d)] ELSE s.cells[i]
<1> DEFINE ch == s.cells[At(b, d)]  inside == a < cols /\ b < cols /\ d < rows
           moves == LET t == move_character(s, a, d, b, d)
                    IN  /\ Like(t, s) /\ t.x = s.x /\ t.y = s.y
                        /\ \A i \in Cells :
                               t.cells[i] = IF inside /\ i = At(a, d) THEN ch ELSE s.cells[i]
<1>1. ASSUME inside PROVE moves
  <2>1. At(b, d) \in Cells BY <1>1, Sized, CellAt
  <2>2. ch \in Inks BY <2>1 DEF Screens
  <2>3. move_character(s, a, d, b, d) = Put(s, ch, a, d) BY <1>1 DEF move_character
  <2> HIDE DEF ch, inside
  <2>4. LET t == Put(s, ch, a, d)
        IN  /\ Like(t, s) /\ t.x = s.x /\ t.y = s.y
            /\ \A i \in Cells :
                   t.cells[i] = IF a < cols /\ d < rows /\ i = At(a, d) THEN ch ELSE s.cells[i]
    BY <2>2, Puts
  <2> QED BY <1>1, <2>3, <2>4 DEF inside
<1>2. ASSUME ~inside PROVE moves BY <1>2 DEF move_character, Like
<1>3. moves
  <2> HIDE DEF moves, inside
  <2> QED BY <1>1, <1>2
<1> QED BY <1>3

(* The column of a turn of the loop over move_character. *)
Turn(first, dir, k) == first + dir * (k - 1)

(* The loop over move_character, if it stays right of the first column;    *)
(* cells move, the cursor stays.                                           *)
LEMMA ShiftsRun ==
    ASSUME NEW n \in Nat, NEW s \in Screens, NEW first \in Int, NEW dir \in Int, NEW by \in Int,
           Y \in Nat,
           \A k \in 1 .. n : Turn(first, dir, k) \in Nat /\ Turn(first, dir, k) + by \in Nat
    PROVE  \E v : /\ v[0] = s
                  /\ \A k \in 1 .. n :
                        LET i == Turn(first, dir, k)
                        IN  v[k] = move_character(v[k - 1], i + by, Y, i, Y)
                  /\ Shifts(n, s, first, dir, by) = v[n]
                  /\ Like(v[n], s) /\ v[n].x = s.x /\ v[n].y = s.y
<1> DEFINE move(k, u) == LET i == Turn(first, dir, k) IN move_character(u, i + by, Y, i, Y)
           step == [p \in (1 .. n) \X Screens |-> move(p[1], p[2])]
<1>1. \A k \in 1 .. n, u \in Screens :
         Like(move(k, u), u) /\ move(k, u).x = u.x /\ move(k, u).y = u.y
  <2> SUFFICES ASSUME NEW k \in 1 .. n, NEW u \in Screens
               PROVE  Like(move(k, u), u) /\ move(k, u).x = u.x /\ move(k, u).y = u.y
    OBVIOUS
  <2> DEFINE i == Turn(first, dir, k)
  <2>1. i \in Nat /\ i + by \in Nat OBVIOUS
  <2> HIDE DEF i
  <2>2. LET t == move_character(u, i + by, Y, i, Y) IN Like(t, u) /\ t.x = u.x /\ t.y = u.y
    BY <2>1, MovesCell
  <2> QED BY <2>2 DEF i
<1> HIDE DEF move
<1>2. step \in [(1 .. n) \X Screens -> Screens] BY <1>1 DEF Like
<1>3. PICK v \in [0 .. n -> Screens] : v[0] = s /\ \A k \in 1 .. n : v[k] = step[<<k, v[k - 1]>>]
  <2> HIDE DEF step
  <2> QED BY <1>2, ScreenLoop
<1>4. \A k \in 1 .. n : v[k] = move(k, v[k - 1])
  <2>1. \A k \in 1 .. n : v[k - 1] \in Screens OBVIOUS
  <2>2. \A k \in 1 .. n : step[<<k, v[k - 1]>>] = move(k, v[k - 1]) BY <2>1
  <2> QED BY <1>3, <2>2
<1> HIDE DEF step
<1>5. v = [k \in 0 .. n |-> IF k = 0 THEN s ELSE move(k, v[k - 1])]
  <2>1. \A k \in 0 .. n : v[k] = IF k = 0 THEN s ELSE move(k, v[k - 1]) BY <1>3, <1>4
  <2> QED BY <2>1
<1>6. PICK after : /\ after = [k \in 0 .. n |-> IF k = 0 THEN s ELSE move(k, after[k - 1])]
                   /\ Shifts(n, s, first, dir, by) = after[n]
  <2>1. \E w : w = [k \in 0 .. n |-> IF k = 0 THEN s ELSE move(k, w[k - 1])] BY <1>5
  <2> QED BY <2>1 DEF Shifts, move, Turn
<1>7. 0 \in 0 .. n /\ \A k \in 1 .. n : k \in 0 .. n /\ k # 0 OBVIOUS
<1>8. after[0] = s /\ \A k \in 1 .. n : after[k] = move(k, after[k - 1]) BY <1>6, <1>7
<1> DEFINE good == {k \in 0 .. n : Like(after[k], s) /\ after[k].x = s.x /\ after[k].y = s.y}
<1>9. n \in good
  <2>1. 0 \in good BY <1>8 DEF Like
  <2>2. ASSUME NEW k \in 1 .. n, k - 1 \in good PROVE k \in good
    <3> DEFINE u == after[k - 1]  t == after[k]
    <3>1. Like(u, s) /\ u.x = s.x /\ u.y = s.y BY <2>2
    <3>2. t = move(k, u) BY <1>8
    <3> HIDE DEF u, t
    <3>3. Like(t, u) /\ t.x = u.x /\ t.y = u.y BY <1>1, <3>1, <3>2 DEF Like
    <3>4. Like(t, s) /\ t.x = s.x /\ t.y = s.y BY <3>1, <3>3 DEF Like
    <3> QED BY <3>4 DEF t
  <2>3. n \in 0 .. n OBVIOUS
  <2> HIDE DEF good
  <2>4. \A k \in 0 .. n : k \in good BY <2>1, <2>2, UpTo
  <2> QED BY <2>3, <2>4
<1> QED BY <1>6, <1>8, <1>9 DEF move

(* To the left, from column X + n on: m characters of a row are then those *)
(* n columns further right, and the others stay.                           *)
LEMMA ShiftsLeft ==
    ASSUME Still \in Screens, X \in Nat, Y \in Nat, Y < rows, NEW n \in Nat, NEW m \in Nat,
           m = 0 \/ X + n + m <= cols
    PROVE  LET t == Shifts(m, Still, X + n, 1, -n)  p == At(X, Y)
           IN  /\ Like(t, Still)
               /\ \A i \in Cells : t.cells[i] = IF i \in p .. p + m - 1 THEN Still.cells[i + n] ELSE Still.cells[i]
<1> DEFINE p == At(X, Y)
           moved(t, k) == \A i \in Cells :
               t.cells[i] = IF i \in p .. p + k - 1 THEN Still.cells[i + n] ELSE Still.cells[i]
<1>1. \A k \in 1 .. m : X + n + 1 * (k - 1) \in Nat /\ X + n + 1 * (k - 1) + -n \in Nat OBVIOUS
<1>2. PICK v : /\ v[0] = Still
               /\ \A k \in 1 .. m : LET i == X + n + 1 * (k - 1)
                                    IN  v[k] = move_character(v[k - 1], i + -n, Y, i, Y)
               /\ Shifts(m, Still, X + n, 1, -n) = v[m]
               /\ Like(v[m], Still) /\ v[m].x = Still.x /\ v[m].y = Still.y
  <2> DEFINE f == X + n  b == -n
  <2>1. f \in Int /\ 1 \in Int /\ b \in Int OBVIOUS
  <2>2. \A k \in 1 .. m : Turn(f, 1, k) \in Nat /\ Turn(f, 1, k) + b \in Nat BY <1>1 DEF Turn
  <2> HIDE DEF f, b
  <2>3. \E v : /\ v[0] = Still
               /\ \A k \in 1 .. m : LET i == Turn(f, 1, k)
                                    IN  v[k] = move_character(v[k - 1], i + b, Y, i, Y)
               /\ Shifts(m, Still, f, 1, b) = v[m]
               /\ Like(v[m], Still) /\ v[m].x = Still.x /\ v[m].y = Still.y
    BY <2>1, <2>2, ShiftsRun, SMTT(30)
  <2> QED BY <2>3 DEF f, b, Turn
<1> DEFINE good == {k \in 0 .. m : v[k] \in Screens /\ moved(v[k], k)}
<1>3. 0 \in good
  <2>1. p \in Nat BY Sized DEF At
  <2> HIDE DEF p
  <2>2. \A i \in Cells : i \notin p .. p + 0 - 1 BY <2>1
  <2>3. moved(Still, 0) BY <2>2
  <2> HIDE DEF moved
  <2> QED BY <1>2, <2>3
<1>4. ASSUME NEW k \in 1 .. m, k - 1 \in good PROVE k \in good
  <2> DEFINE u == v[k - 1]  t == v[k]  a == X + (k - 1)  b == X + n + (k - 1)
  <2>1. u \in Screens /\ moved(u, k - 1) BY <1>4
  <2>2. a \in Nat /\ b \in Nat /\ a < cols /\ b < cols /\ b = a + n BY Sized
  <2>3. t = move_character(u, a, Y, b, Y)
    <3>1. X + n + 1 * (k - 1) = b /\ b + -n = a OBVIOUS
    <3> QED BY <1>2, <3>1
  <2>4. At(a, Y) \in Cells /\ At(b, Y) \in Cells BY <2>2, Sized, CellAt
  <2>5. p \in Nat /\ At(a, Y) = p + (k - 1) /\ At(b, Y) = p + (k - 1) + n
    <3>1. Y * cols \in Nat BY Sized
    <3> QED BY <3>1 DEF At
  <2> HIDE DEF u, t, a, b, p
  <2>6. /\ Like(t, u)
        /\ \A i \in Cells : t.cells[i] = IF i = At(a, Y) THEN u.cells[At(b, Y)] ELSE u.cells[i]
    <3>1. Y \in Nat /\ Y < rows OBVIOUS
    <3> HIDE DEF moved
    <3>2. LET s == move_character(u, a, Y, b, Y)
          IN  /\ Like(s, u)
              /\ \A i \in Cells :
                     s.cells[i] = IF a < cols /\ b < cols /\ Y < rows /\ i = At(a, Y)
                                  THEN u.cells[At(b, Y)] ELSE u.cells[i]
      BY <2>1, <2>2, <3>1, MovesCell
    <3> QED BY <2>2, <2>3, <3>1, <3>2
  <2>7. u.cells[At(b, Y)] = Still.cells[At(b, Y)]
    <3>1. CASE n = 0 \/ n > 0
      <4>1. At(b, Y) \notin p .. p + (k - 1) - 1 BY <2>5
      <4> QED BY <2>1, <2>4, <4>1
    <3> QED BY <3>1
  <2>8. moved(t, k)
    <3> SUFFICES ASSUME NEW i \in Cells
                 PROVE  t.cells[i] = IF i \in p .. p + k - 1 THEN Still.cells[i + n] ELSE Still.cells[i]
      OBVIOUS
    <3>1. i \in p .. p + k - 1 <=> i = At(a, Y) \/ i \in p .. p + (k - 1) - 1
      BY <2>5 DEF Cells
    <3>2. At(b, Y) = At(a, Y) + n BY <2>5
    <3> QED BY <2>1, <2>6, <2>7, <3>1, <3>2
  <2> HIDE DEF moved
  <2> QED BY <2>6, <2>8 DEF t, Like
<1>5. m \in good
  <2> HIDE DEF good
  <2> QED BY <1>3, <1>4, UpTo
<1> QED BY <1>2, <1>5

(* To the right, from the last column back to column X: each cell of the   *)
(* rest of a row is then the one left of it, but for the first.            *)
LEMMA ShiftsRight ==
    ASSUME NEW s \in Screens, X \in 0 .. cols - 1, Y \in 0 .. rows - 1
    PROVE  LET t == Shifts(cols - X, s, cols - 1, -1, 1)  p == At(X, Y)  e == At(cols, Y)
           IN  /\ Like(t, s) /\ t.x = s.x /\ t.y = s.y
               /\ \A i \in Cells : t.cells[i] = IF i \in p + 1 .. e - 1 THEN s.cells[i - 1] ELSE s.cells[i]
<1> DEFINE m == cols - X  f == cols - 1  d == -1  e == At(cols, Y)
           moved(t, k) == \A i \in Cells :
               t.cells[i] = IF i \in e - k + 1 .. e - 1 THEN s.cells[i - 1] ELSE s.cells[i]
<1>1. X \in Nat /\ Y \in Nat /\ Y < rows /\ X < cols /\ cols \in Nat /\ m \in Nat /\ m >= 1
      /\ f \in Int /\ d \in Int /\ 1 \in Int
  BY Sized
<1>2. \A k \in 1 .. m : Turn(f, d, k) = cols - k /\ cols - k \in Nat /\ cols - k + 1 \in Nat
  BY <1>1 DEF Turn
<1>3. e \in Nat /\ At(X, Y) = e - m /\ \A k \in 1 .. m : At(cols - k, Y) = e - k /\ e - k \in Nat
  <2>1. Y * cols \in Nat BY <1>1, Sized
  <2> QED BY <1>1, <2>1 DEF At
<1> HIDE DEF f, d, e
<1>4. PICK v : /\ v[0] = s
               /\ \A k \in 1 .. m : LET i == Turn(f, d, k)
                                    IN  v[k] = move_character(v[k - 1], i + 1, Y, i, Y)
               /\ Shifts(m, s, f, d, 1) = v[m]
               /\ Like(v[m], s) /\ v[m].x = s.x /\ v[m].y = s.y
  <2>1. \A k \in 1 .. m : Turn(f, d, k) \in Nat /\ Turn(f, d, k) + 1 \in Nat BY <1>2
  <2> HIDE DEF m
  <2> QED BY <1>1, <2>1, ShiftsRun, SMTT(30)
<1> DEFINE good == {k \in 0 .. m : v[k] \in Screens /\ moved(v[k], k)}
<1>5. 0 \in good
  <2>1. \A i \in Cells : i \notin e - 0 + 1 .. e - 1 BY <1>3
  <2>2. moved(s, 0) BY <2>1
  <2> HIDE DEF moved
  <2> QED BY <1>1, <1>4, <2>2
<1>6. ASSUME NEW k \in 1 .. m, k - 1 \in good PROVE k \in good
  <2> DEFINE u == v[k - 1]  t == v[k]  a == cols - k + 1  b == cols - k
  <2>1. u \in Screens /\ moved(u, k - 1) BY <1>6
  <2>2. a \in Nat /\ b \in Nat /\ b < cols BY <1>1, <1>2
  <2>3. t = move_character(u, a, Y, b, Y) BY <1>2, <1>4
  <2>4. At(b, Y) \in Cells /\ At(b, Y) = e - k BY <1>1, <1>3, <2>2, Sized, CellAt
  <2>5. a < cols => At(a, Y) = e - (k - 1) /\ k >= 2
    <3>1. Y * cols \in Nat BY <1>1, Sized
    <3> QED BY <1>1, <3>1 DEF At, e
  <2>6. ~(a < cols) => k = 1 BY <1>1
  <2> HIDE DEF u, t, a, b, m
  <2>7. /\ Like(t, u)
        /\ \A i \in Cells : t.cells[i] = IF a < cols /\ i = At(a, Y) THEN u.cells[At(b, Y)] ELSE u.cells[i]
    <3> HIDE DEF moved
    <3>2. LET r == move_character(u, a, Y, b, Y)
          IN  /\ Like(r, u)
              /\ \A i \in Cells :
                     r.cells[i] = IF a < cols /\ b < cols /\ Y < rows /\ i = At(a, Y)
                                  THEN u.cells[At(b, Y)] ELSE u.cells[i]
      BY <1>1, <2>1, <2>2, MovesCell
    <3> QED BY <1>1, <2>2, <2>3, <3>2
  <2>8. u.cells[At(b, Y)] = s.cells[e - k]
    <3>1. e - k \notin e - (k - 1) + 1 .. e - 1 BY <1>3
    <3> QED BY <2>1, <2>4, <3>1
  <2>9. moved(t, k)
    <3> SUFFICES ASSUME NEW i \in Cells
                 PROVE  t.cells[i] = IF i \in e - k + 1 .. e - 1 THEN s.cells[i - 1] ELSE s.cells[i]
      OBVIOUS
    <3>1. u.cells[i] = IF i \in e - (k - 1) + 1 .. e - 1 THEN s.cells[i - 1] ELSE s.cells[i]
      BY <2>1
    <3>2. i \in Nat BY Sized, CellPlace
    <3>3. CASE a < cols
      <4>1. i \in e - k + 1 .. e - 1 <=> i = e - (k - 1) \/ i \in e - (k - 1) + 1 .. e - 1
        BY <1>3, <2>5, <3>2, <3>3
      <4>2. i = e - (k - 1) => i - 1 = e - k BY <1>3
      <4> QED BY <2>5, <2>7, <2>8, <3>1, <3>3, <4>1, <4>2
    <3>4. CASE ~(a < cols)
      <4>1. i \notin e - k + 1 .. e - 1 /\ i \notin e - (k - 1) + 1 .. e - 1 BY <1>3, <2>6, <3>2, <3>4
      <4> QED BY <2>7, <3>1, <3>4, <4>1
    <3> QED BY <3>3, <3>4
  <2> HIDE DEF moved
  <2> QED BY <2>7, <2>9 DEF t, Like
<1>7. m \in good
  <2> HIDE DEF good
  <2>1. m \in 0 .. m BY <1>1
  <2> HIDE DEF m
  <2> QED BY <1>1, <1>5, <1>6, <2>1, UpTo
<1>8. moved(v[m], m) BY <1>7
<1>9. e - m + 1 = At(X, Y) + 1 BY <1>1, <1>3
<1> QED BY <1>4, <1>8, <1>9 DEF f, d, e

(* A step of '@' moves a character to the right and blanks its cell. *)
LEMMA OpenStep ==
    ASSUME NEW u \in Screens, NEW i \in 0 .. cols - 1, NEW n \in Nat, Y \in 0 .. rows - 1
    PROVE  LET t == raw_putchar(set_cursor_pos(move_character(u, i + n, Y, i, Y), i, Y), Space)
           IN  /\ Like(t, u)
               /\ \A j \in Cells :
                      t.cells[j] = IF j = At(i, Y) THEN Styled(u, Space)
                                   ELSE IF i + n < cols /\ j = At(i + n, Y) THEN u.cells[At(i, Y)]
                                   ELSE u.cells[j]
<1> DEFINE m == move_character(u, i + n, Y, i, Y)  s == set_cursor_pos(m, i, Y)
           t == raw_putchar(s, Space)
<1>1. i \in Nat /\ i + n \in Nat /\ Y \in Nat /\ i < cols /\ Y < rows BY Sized
<1>2. /\ Like(m, u)
      /\ \A j \in Cells :
            m.cells[j] = IF i + n < cols /\ j = At(i + n, Y) THEN u.cells[At(i, Y)] ELSE u.cells[j]
  BY <1>1, MovesCell
<1>3. m \in Screens BY <1>2 DEF Like
<1> HIDE DEF m
<1>4. Like(s, m) /\ s.cells = m.cells /\ s.x = i /\ s.y = Y
  <2>1. i \in Int /\ Y \in Int BY <1>1
  <2>2. /\ Like(s, m) /\ s.cells = m.cells
        /\ s.x = (IF i < 0 THEN 0 ELSE IF i >= cols THEN cols - 1 ELSE i)
        /\ s.y = (IF Y < 0 THEN 0 ELSE IF Y >= rows THEN rows - 1 ELSE Y)
    BY <1>3, <2>1, Sets
  <2> HIDE DEF s
  <2> QED BY <1>1, <2>2, Sized
<1> HIDE DEF s
<1>5. s \in Screens /\ ~Wraps(s) /\ PutX(s) = i /\ PutY(s) = Y
  BY <1>1, <1>4, Sized DEF Like, Wraps, PutX, PutY
<1>6. /\ Like(t, s)
      /\ \A j \in Cells : t.cells[j] = IF j = At(i, Y) THEN Styled(s, Space) ELSE s.cells[j]
  BY <1>1, <1>5, Putchar, Sized
<1>7. Styled(s, Space) = Styled(u, Space) BY <1>5, StyledInk, Sized
<1> HIDE DEF t
<1>8. Like(t, u) BY <1>2, <1>4, <1>6 DEF Like
<1> QED BY <1>2, <1>4, <1>6, <1>7, <1>8 DEF t, s, m

(* The loop of '@' goes through these screens.                             *)
LEMMA OpenedRun ==
    ASSUME NEW n \in Nat, X \in 0 .. cols - 1, Y \in 0 .. rows - 1, Still \in Screens
    PROVE  \E v : /\ v[0] = Still
                  /\ \A k \in 1 .. cols - X : LET i == cols - k
                        IN  v[k] = raw_putchar(set_cursor_pos(
                                       move_character(v[k - 1], i + n, Y, i, Y), i, Y), Space)
                  /\ Opened(n) = v[cols - X]
<1> DEFINE m == cols - X
           open1(k, u) == LET i == cols - k
                         IN  raw_putchar(set_cursor_pos(
                                 move_character(u, i + n, Y, i, Y), i, Y), Space)
           step == [p \in (1 .. m) \X Screens |-> open1(p[1], p[2])]
<1>1. m \in Nat BY Sized
<1>2. \A k \in 1 .. m, u \in Screens : open1(k, u) \in Screens
  <2> SUFFICES ASSUME NEW k \in 1 .. m, NEW u \in Screens PROVE open1(k, u) \in Screens OBVIOUS
  <2> DEFINE i == cols - k  t == open1(k, u)
  <2>1. i \in 0 .. cols - 1 BY Sized
  <2>2. t = raw_putchar(set_cursor_pos(move_character(u, i + n, Y, i, Y), i, Y), Space) OBVIOUS
  <2> HIDE DEF i, t
  <2>3. Like(t, u) BY <2>1, <2>2, OpenStep
  <2> QED BY <2>3 DEF t, Like
<1> HIDE DEF open1, m
<1>3. step \in [(1 .. m) \X Screens -> Screens] BY <1>2
<1>4. PICK v \in [0 .. m -> Screens] : v[0] = Still /\ \A k \in 1 .. m : v[k] = step[<<k, v[k - 1]>>]
  <2> HIDE DEF step
  <2> QED BY <1>1, <1>3, ScreenLoop
<1>5. \A k \in 1 .. m : v[k] = open1(k, v[k - 1])
  <2>1. \A k \in 1 .. m : v[k - 1] \in Screens BY <1>1
  <2>2. \A k \in 1 .. m : step[<<k, v[k - 1]>>] = open1(k, v[k - 1]) BY <2>1
  <2> QED BY <1>4, <2>2
<1> HIDE DEF step
<1>6. v = [k \in 0 .. m |-> IF k = 0 THEN Still ELSE open1(k, v[k - 1])]
  <2>1. \A k \in 0 .. m : v[k] = IF k = 0 THEN Still ELSE open1(k, v[k - 1]) BY <1>1, <1>4, <1>5
  <2> QED BY <2>1
<1>7. PICK after : /\ after = [k \in 0 .. m |-> IF k = 0 THEN Still ELSE open1(k, after[k - 1])]
                   /\ Opened(n) = after[m]
  <2>1. \E w : w = [k \in 0 .. m |-> IF k = 0 THEN Still ELSE open1(k, w[k - 1])] BY <1>6
  <2> QED BY <2>1 DEF Opened, open1, m
<1>8. 0 \in 0 .. m /\ \A k \in 1 .. m : k \in 0 .. m /\ k # 0 BY <1>1
<1>9. after[0] = Still /\ \A k \in 1 .. m : after[k] = open1(k, after[k - 1]) BY <1>7, <1>8
<1> QED BY <1>7, <1>9 DEF open1, m

(* '@': n cells from the cursor on become free, the others of the row move *)
(* n columns to the right.                                                 *)
LEMMA OpenedShows ==
    ASSUME NEW n \in Nat, X \in 0 .. cols - 1, Y \in 0 .. rows - 1, Still \in Screens
    PROVE  LET t == Opened(n)  here == At(X, Y)  end == At(cols, Y)
           IN  /\ Like(t, Still)
               /\ n > 0 => \A j \in Cells :
                      t.cells[j] = IF j \in here .. end - 1
                                   THEN IF j < here + n THEN Styled(Still, Space)
                                        ELSE Still.cells[j - n]
                                   ELSE Still.cells[j]
<1> DEFINE end == At(cols, Y)  sp == Styled(Still, Space)  g == Still.cells  m == cols - X
           opened(t, k) == \A j \in Cells :
               t.cells[j] = IF j \in end - k .. end - 1
                            THEN IF j < end - k + n THEN sp ELSE g[j - n] ELSE g[j]
<1>1. PICK v : /\ v[0] = Still
               /\ \A k \in 1 .. m : LET i == cols - k
                     IN  v[k] = raw_putchar(set_cursor_pos(
                                    move_character(v[k - 1], i + n, Y, i, Y), i, Y), Space)
               /\ Opened(n) = v[m]
  BY OpenedRun
<1>2. m \in Nat /\ end \in Nat /\ At(X, Y) = end - m BY Sized DEF At
<1> DEFINE good == {k \in 0 .. m : Like(v[k], Still) /\ (n > 0 => opened(v[k], k))}
<1>3. 0 \in good
  <2> HIDE DEF end, sp, g
  <2>1. \A j \in Cells : j \notin end - 0 .. end - 1 BY <1>2
  <2>2. opened(Still, 0) BY <2>1 DEF g
  <2> HIDE DEF opened
  <2> QED BY <1>1, <1>2, <2>2 DEF Like
<1>4. ASSUME NEW k \in 1 .. m, k - 1 \in good PROVE k \in good
  <2> DEFINE u == v[k - 1]  t == v[k]  i == cols - k
  <2>1. Like(u, Still) /\ (n > 0 => opened(u, k - 1)) BY <1>4
  <2>2. u \in Screens BY <2>1 DEF Like
  <2>3. i \in 0 .. cols - 1 /\ i \in Nat BY Sized
  <2>4. t = raw_putchar(set_cursor_pos(move_character(u, i + n, Y, i, Y), i, Y), Space) BY <1>1
  <2>5. At(i, Y) \in Cells /\ At(i, Y) = end - k /\ At(i + n, Y) = end - k + n
    <3>1. Y * cols \in Nat BY Sized
    <3>2. At(i, Y) = end - k /\ At(i + n, Y) = end - k + n BY <3>1, Sized DEF At
    <3> HIDE DEF i, end
    <3> QED BY <2>3, <3>2, Sized, CellAt
  <2>6. i + n < cols <=> n < k BY Sized
  <2> HIDE DEF u, t, i, end, sp, g
  <2>7. /\ Like(t, u)
        /\ \A j \in Cells :
               t.cells[j] = IF j = At(i, Y) THEN Styled(u, Space)
                            ELSE IF i + n < cols /\ j = At(i + n, Y) THEN u.cells[At(i, Y)]
                            ELSE u.cells[j]
    BY <2>2, <2>3, <2>4, OpenStep
  <2>8. Like(t, Still) BY <2>1, <2>7 DEF Like
  <2>9. Styled(u, Space) = sp BY <2>2, StyledInk, Sized DEF sp
  <2>10. ASSUME n > 0 PROVE opened(t, k)
    <3> SUFFICES ASSUME NEW j \in Cells
                 PROVE  t.cells[j] = IF j \in end - k .. end - 1
                                     THEN IF j < end - k + n THEN sp ELSE g[j - n] ELSE g[j]
      OBVIOUS
    <3>1. j \in Int BY DEF Cells
    <3>2. u.cells[j] = IF j \in end - (k - 1) .. end - 1
                       THEN IF j < end - (k - 1) + n THEN sp ELSE g[j - n] ELSE g[j]
      BY <2>1, <2>10
    <3>3. u.cells[end - k] = g[end - k]
      <4>1. end - k \in Cells /\ ~(end - k \in end - (k - 1) .. end - 1) BY <1>2, <2>5
      <4> QED BY <2>1, <2>10, <4>1
    <3>4. t.cells[j] = IF j = end - k THEN sp
                       ELSE IF n < k /\ j = end - k + n THEN g[end - k] ELSE u.cells[j]
      BY <2>5, <2>6, <2>7, <2>9, <3>3
    <3>5. CASE j = end - k BY <1>2, <2>10, <3>4, <3>5
    <3>6. CASE j # end - k /\ j = end - k + n
      <4>1. j - n = end - k BY <1>2, <3>6
      <4>2. n < k <=> j \in end - k .. end - 1 BY <1>2, <2>10, <3>6
      <4>3. n >= k => ~(j \in end - (k - 1) .. end - 1) BY <1>2, <3>6
      <4> QED BY <1>2, <2>10, <3>2, <3>4, <3>6, <4>1, <4>2, <4>3
    <3>7. CASE j # end - k /\ j # end - k + n
      <4>1. j \in end - k .. end - 1 <=> j \in end - (k - 1) .. end - 1 BY <1>2, <3>1, <3>7
      <4>2. j < end - k + n <=> j < end - (k - 1) + n BY <1>2, <3>1, <3>7
      <4> QED BY <3>2, <3>4, <3>7, <4>1, <4>2
    <3> QED BY <3>5, <3>6, <3>7
  <2> HIDE DEF opened
  <2> QED BY <1>2, <2>8, <2>10 DEF t
<1>5. m \in good
  <2> HIDE DEF good, m
  <2> QED BY <1>2, <1>3, <1>4, UpTo
<1>6. Like(v[m], Still) /\ (n > 0 => opened(v[m], m)) BY <1>5
<1> HIDE DEF m, end
<1> QED BY <1>1, <1>2, <1>6 DEF end

-----------------------------------------------------------------------------
(* What a control sequence reads before it starts. *)
LEMMA SequenceReads ==
    ASSUME TermInv
    PROVE  /\ X \in 0 .. cols - 1 /\ Y \in 0 .. rows - 1 /\ X \in Nat /\ Y \in Nat
           /\ screen \in Screens /\ screen.x \in Nat /\ screen.y \in Nat
           /\ (screen.x < cols => X = screen.x) /\ (screen.y < rows => Y = screen.y)
           /\ Still \in Screens /\ Still.x = screen.x /\ Still.y = screen.y
           /\ Still.cells = screen.cells /\ Still.saved = screen.saved
           /\ Still.top = screen.top /\ Still.bottom = screen.bottom
           /\ Still.scroll_enabled = FALSE /\ Styled(Still, Space) = Styled(screen, Space)
           /\ ScreenOK(Still)
<1>1. screen \in Screens BY DEF TermInv, ScreenOK
<1>2. screen.x \in Nat /\ screen.y \in Nat BY <1>1 DEF Screens
<1>3. /\ X \in 0 .. cols - 1 /\ Y \in 0 .. rows - 1 /\ X \in Nat /\ Y \in Nat
      /\ (screen.x < cols => X = screen.x) /\ (screen.y < rows => Y = screen.y)
  BY <1>2, Sized DEF X, Y, get_x, get_y
<1>4. /\ Still \in Screens /\ Still.x = screen.x /\ Still.y = screen.y
      /\ Still.cells = screen.cells /\ Still.saved = screen.saved
      /\ Still.top = screen.top /\ Still.bottom = screen.bottom
      /\ Still.scroll_enabled = FALSE
  <2>1. Still = [screen EXCEPT !.scroll_enabled = FALSE] BY DEF Still
  <2> HIDE DEF TermInv
  <2> QED BY <1>1, <2>1, StoreScroll
<1>5. Styled(Still, Space) = Styled(screen, Space) BY <1>1, <1>4, StyledInk, Sized
<1>6. ScreenOK(Still) BY <1>4 DEF TermInv, ScreenOK, SavedOK, OnRow, RegionOf
<1> QED BY <1>1, <1>2, <1>3, <1>4, <1>5, <1>6

(* A sequence that leaves a screen in order. *)
LEMMA Doing ==
    ASSUME TermInv, NEW s, ScreenOK(s), Do(s)
    PROVE  /\ ScreenOK(screen)' /\ screen'.scroll_enabled = TRUE /\ screen'.cells = s.cells
           /\ screen'.x = s.x /\ screen'.y = s.y
           /\ screen'.top = s.top /\ screen'.bottom = s.bottom
<1>1. screen' = [s EXCEPT !.scroll_enabled = TRUE] BY DEF Do, TermInv
<1>2. s \in Screens BY DEF ScreenOK
<1>4. /\ screen' \in Screens /\ screen'.x = s.x /\ screen'.y = s.y /\ screen'.cells = s.cells
      /\ screen'.top = s.top /\ screen'.bottom = s.bottom /\ screen'.scroll_enabled = TRUE
      /\ screen'.saved = s.saved
  BY <1>1, <1>2, StoreScroll
<1>5. s.x <= cols /\ OnRow(s) /\ SavedOK(s) /\ RegionOf(s) BY DEF ScreenOK
<1>6. screen'.x <= cols /\ OnRow(screen') /\ SavedOK(screen') /\ RegionOf(screen')
  BY <1>4, <1>5 DEF OnRow, SavedOK, RegionOf
<1> QED BY <1>4, <1>6 DEF ScreenOK

(* set_cursor_pos brings a cursor on the screen. *)
LEMMA Placed ==
    ASSUME NEW s \in Screens, RegionOf(s), SavedOK(s), NEW a \in Int, NEW d \in Int
    PROVE  LET t == set_cursor_pos(s, a, d) IN ScreenOK(t) /\ t.y < rows
<1> DEFINE t == set_cursor_pos(s, a, d)
<1>1. Like(t, s) /\ t.x \in 0 .. cols - 1 /\ t.y \in 0 .. rows - 1 BY Sets
<1> HIDE DEF t
<1>2. t.x <= cols /\ t.y < rows BY <1>1, Sized
<1>3. ScreenOK(t) BY <1>1, <1>2 DEF Like, OnRow, SavedOK, RegionOf, ScreenOK
<1> QED BY <1>2, <1>3 DEF t

(* The screens that the sequences leave are in order. *)
LEMMA BlanksPlaced ==
    ASSUME NEW n \in Nat, NEW s, ScreenOK(s), NEW a \in Int, NEW d \in Int
    PROVE  LET t == set_cursor_pos(Blanks(n, s), a, d) IN ScreenOK(t) /\ t.y < rows
<1> DEFINE t == Blanks(n, s)
<1>1. s \in Screens /\ OnRow(s) /\ SavedOK(s) /\ RegionOf(s) BY DEF ScreenOK
<1>2. Like(t, s) BY <1>1, BlanksKeep
<1> HIDE DEF t
<1>3. t \in Screens /\ RegionOf(t) /\ SavedOK(t) BY <1>1, <1>2 DEF Like, RegionOf, SavedOK
<1>4. LET u == set_cursor_pos(t, a, d) IN ScreenOK(u) /\ u.y < rows BY <1>3, Placed
<1> QED BY <1>4 DEF t

(* A clear screen is in order.                                             *)
LEMMA ClearOK ==
    ASSUME NEW s, ScreenOK(s), NEW move \in BOOLEAN
    PROVE  ScreenOK(clear(s, move)) /\ Stays(s, clear(s, move))
<1> DEFINE g == [i \in Cells |-> Styled(s, Space)]
           x == IF move THEN 0 ELSE s.x  y == IF move THEN 0 ELSE s.y
           t == [s EXCEPT !.cells = g, !.x = x, !.y = y]
<1>1. s \in Screens /\ s.x \in Nat /\ s.y \in Nat BY DEF ScreenOK, Screens
<1>2. g \in [Cells -> Inks] BY <1>1, StyledInk, Sized
<1>3. clear(s, move) = t BY DEF clear
<1>4. x \in Nat /\ y \in Nat /\ (x = 0 \/ x = s.x) /\ (y = 0 \/ y = s.y) BY <1>1
<1> HIDE DEF g, x, y
<1>5. Like(t, s) /\ t.x = x /\ t.y = y BY <1>1, <1>2, <1>4 DEF Screens, Like
<1> HIDE DEF t
<1>6. ScreenOK(t) /\ Stays(s, t)
  BY <1>4, <1>5, Sized DEF ScreenOK, Like, OnRow, SavedOK, RegionOf, Stays
<1> QED BY <1>3, <1>6

(* A sequence that leaves a screen in order keeps the invariant,           *)
LEMMA SequenceKeeps ==
    ASSUME TermInv, NEW s, ScreenOK(s), Stays(screen, s), Sequence(s)
    PROVE  TermInv' /\ Stays(screen, screen')
<1>1. Do(s) /\ saved_cursor' = saved_cursor /\ inserts' = inserts BY DEF Sequence
<1>2. ScreenOK(screen)' /\ screen'.scroll_enabled = TRUE /\ screen'.y = s.y BY <1>1, Doing
<1> QED BY <1>1, <1>2 DEF TermInv, Stays

(* and so does one that ends with the cursor being placed.                 *)
LEMMA SetKeeps ==
    ASSUME TermInv, NEW s \in Screens, RegionOf(s), SavedOK(s), NEW a \in Int, NEW d \in Int,
           Sequence(set_cursor_pos(s, a, d))
    PROVE  TermInv' /\ Stays(screen, screen')
<1> DEFINE t == set_cursor_pos(s, a, d)
<1>1. ScreenOK(t) /\ t.y < rows BY Placed
<1> HIDE DEF t
<1>2. Stays(screen, t) BY <1>1 DEF Stays
<1>3. Sequence(t) BY DEF t
<1> QED BY <1>1, <1>2, <1>3, SequenceKeeps

(* The cursor's movements cut the cursor to the screen. *)
LEMMA MovesKeep ==
    ASSUME TermInv,
           \/ \E n \in Values, x \in {0, X} : CursorUp(n, x) \/ CursorDown(n, x)
           \/ \E n \in Values :
                  CursorForward(n) \/ CursorBack(n) \/ CursorRow(n) \/ CursorColumn(n)
           \/ \E n, m \in Values : CursorPosition(n, m)
           \/ RestoreCursor \/ Tab \/ Backspace \/ CarriageReturn
    PROVE  TermInv' /\ Stays(screen, screen')
<1>1. \A n \in Values : n \in Nat BY TermNumbers DEF Values
<1>2. X \in Nat /\ Y \in Nat /\ screen \in Screens /\ rows \in Int /\ cols \in Int
  BY SequenceReads, Sized
<1>3. RegionOf(screen) /\ SavedOK(screen) /\ saved_cursor.x \in Int /\ saved_cursor.y \in Int
      /\ screen.top \in Int /\ screen.bottom \in Int
  BY <1>2 DEF TermInv, ScreenOK, Screens
<1>4. \E a, d \in Int : Sequence(set_cursor_pos(screen, a, d))
  <2>1. ASSUME NEW n \in Values, NEW x \in {0, X}, CursorUp(n, x) \/ CursorDown(n, x)
        PROVE  \E a, d \in Int : Sequence(set_cursor_pos(screen, a, d))
    <3>1. x \in Int /\ Up(Y, n) \in Int /\ Down(Y, n) \in Int BY <1>1, <1>2, <1>3 DEF Up, Down
    <3> QED BY <2>1, <3>1 DEF CursorUp, CursorDown
  <2>2. ASSUME NEW n \in Values,
               CursorForward(n) \/ CursorBack(n) \/ CursorRow(n) \/ CursorColumn(n)
        PROVE  \E a, d \in Int : Sequence(set_cursor_pos(screen, a, d))
    <3> DEFINE r == IF n = 0 THEN rows - 1 ELSE n - 1  c == IF n = 0 THEN cols - 1 ELSE n - 1
               f == X + n  b == X - n
    <3>1. r \in Int /\ c \in Int /\ f \in Int /\ b \in Int /\ X \in Int /\ Y \in Int BY <1>1, <1>2
    <3>2. \/ Sequence(set_cursor_pos(screen, f, Y)) \/ Sequence(set_cursor_pos(screen, b, Y))
          \/ Sequence(set_cursor_pos(screen, X, r)) \/ Sequence(set_cursor_pos(screen, c, Y))
      BY <2>2 DEF CursorForward, CursorBack, CursorRow, CursorColumn
    <3> HIDE DEF r, c, f, b
    <3> QED BY <3>1, <3>2
  <2>3. ASSUME NEW n \in Values, NEW m \in Values, CursorPosition(n, m)
        PROVE  \E a, d \in Int : Sequence(set_cursor_pos(screen, a, d))
    <3> DEFINE a1 == IF m = 0 THEN 0 ELSE m - 1  d1 == IF n = 0 THEN 0 ELSE n - 1
    <3>1. a1 \in Int /\ d1 \in Int BY <1>1
    <3>2. Sequence(set_cursor_pos(screen, a1, d1)) BY <2>3 DEF CursorPosition
    <3> HIDE DEF a1, d1
    <3> QED BY <3>1, <3>2
  <2>4. CASE RestoreCursor BY <1>3, <2>4 DEF RestoreCursor
  <2>5. CASE Tab
    <3> DEFINE q == X \div tab_size
               a1 == IF q + 1 >= cols THEN cols - 1 ELSE (q + 1) * tab_size
    <3>1. q \in Int /\ tab_size \in Int BY <1>2, TermNumbers
    <3>2. Sequence(set_cursor_pos(screen, a1, Y)) BY <2>5 DEF Tab
    <3>3. a1 \in Int /\ Y \in Int
      <4> HIDE DEF q
      <4> QED BY <1>2, <3>1
    <3> HIDE DEF a1
    <3> QED BY <3>2, <3>3
  <2>6. CASE Backspace \/ CarriageReturn
    <3>1. X - 1 \in Int /\ 0 \in Int /\ Y \in Int BY <1>2
    <3> QED BY <2>6, <3>1 DEF Backspace, CarriageReturn
  <2> QED BY <2>1, <2>2, <2>3, <2>4, <2>5, <2>6
<1> QED BY <1>2, <1>3, <1>4, SetKeeps

(* Scrolling sequences and margins. *)
LEMMA LinesKeep ==
    ASSUME TermInv,
           \/ \E n \in Values : DeleteLines(n) \/ InsertLines(n)
           \/ \E n, m \in Values : ScrollRegion(n, m)
           \/ LineFeed(0) \/ LineFeed(X) \/ ReverseIndex
    PROVE  TermInv' /\ Stays(screen, screen')
<1>1. \A n \in Values : n \in Nat BY TermNumbers DEF Values
<1>2. /\ X \in Nat /\ Y \in 0 .. rows - 1 /\ Y \in Int /\ screen \in Screens /\ Still \in Screens
      /\ Still.bottom = screen.bottom /\ Still.saved = screen.saved /\ Still.y = screen.y
      /\ ScreenOK(Still) /\ ScreenOK(screen) /\ SavedOK(screen)
  <2>1. ScreenOK(screen) /\ SavedOK(screen) BY DEF TermInv, ScreenOK
  <2> QED BY <2>1, SequenceReads
<1>3. ASSUME NEW n \in Values, DeleteLines(n) PROVE TermInv' /\ Stays(screen, screen')
  <2> DEFINE t == Scrolls(n, Still)
  <2>1. Like(t, Still) /\ t.x = Still.x /\ t.y = Still.y BY <1>1, <1>2, ScrollsKeep
  <2>2. Sequence(t) BY <1>3 DEF DeleteLines
  <2> HIDE DEF t
  <2>3. ScreenOK(t) /\ Stays(screen, t) BY <1>2, <2>1 DEF ScreenOK, SavedOK, Like, OnRow, RegionOf, Stays
  <2> QED BY <2>2, <2>3, SequenceKeeps
<1>4. ASSUME NEW n \in Values, InsertLines(n) PROVE TermInv' /\ Stays(screen, screen')
  <2> DEFINE s == [Still EXCEPT !.top = Y]  t == Revscrolls(n, s)  u == [t EXCEPT !.top = screen.top]
  <2>1. Y \in 0 .. rows /\ screen.top \in 0 .. rows BY <1>2, Sized DEF Screens
  <2>2. s \in Screens /\ s.x = Still.x /\ s.y = Still.y /\ s.bottom = Still.bottom /\ s.saved = Still.saved
    BY <1>2, <2>1, StoreTop
  <2>3. Sequence(u) BY <1>4 DEF InsertLines
  <2> HIDE DEF s
  <2>4. Like(t, s) /\ t.x = s.x /\ t.y = s.y BY <1>1, <2>2, RevscrollsKeep
  <2> HIDE DEF t
  <2>5. t \in Screens BY <2>4 DEF Like
  <2>6. /\ u \in Screens /\ u.x = t.x /\ u.y = t.y /\ u.bottom = t.bottom /\ u.top = screen.top
        /\ u.saved = t.saved
    BY <2>1, <2>5, StoreTop
  <2> HIDE DEF u
  <2>7. ScreenOK(u) /\ Stays(screen, u)
    <3>1. u.x = Still.x /\ u.y = Still.y /\ u.bottom = screen.bottom /\ u.saved = Still.saved
      BY <1>2, <2>2, <2>4, <2>6 DEF Like
    <3> QED BY <1>2, <2>6, <3>1 DEF ScreenOK, SavedOK, OnRow, RegionOf, Stays
  <2> QED BY <2>3, <2>7, SequenceKeeps
<1>5. ASSUME NEW n \in Values, NEW m \in Values, ScrollRegion(n, m)
      PROVE  TermInv' /\ Stays(screen, screen')
  <2> DEFINE n1 == IF n = 0 THEN 1 ELSE n  m1 == IF m = 0 THEN 1 ELSE m  r == Region(n1, m1)
             v == r.top  w == r.bottom  s == [screen EXCEPT !.top = v, !.bottom = w]
  <2>1. n1 \in Nat \ {0} /\ m1 \in Nat \ {0} BY <1>1
  <2>2. Sequence(set_cursor_pos(s, 0, 0)) BY <1>5 DEF ScrollRegion
  <2> HIDE DEF n1, m1
  <2>3. v \in 0 .. rows /\ w \in 0 .. rows /\ ((v = 0 /\ w = rows) \/ v + 2 <= w)
    BY <2>1, Sized DEF Region
  <2> HIDE DEF v, w
  <2>4. s \in Screens /\ s.top = v /\ s.bottom = w /\ s.saved = screen.saved BY <1>2, <2>3 DEF Screens
  <2> HIDE DEF s
  <2>5. RegionOf(s) /\ SavedOK(s) BY <1>2, <2>3, <2>4, Sized DEF RegionOf, SavedOK
  <2> QED BY <2>2, <2>4, <2>5, SetKeeps
<1>6. ASSUME NEW x \in {0, X}, LineFeed(x) PROVE TermInv' /\ Stays(screen, screen')
  <2> DEFINE t == scroll(screen)  y1 == Y + 1
  <2>1. Like(t, screen) BY <1>2, Scrolling
  <2>2. Sequence(set_cursor_pos(t, x, Y)) \/ Sequence(set_cursor_pos(screen, x, y1)) BY <1>6 DEF LineFeed
  <2>3. x \in Int /\ y1 \in Int BY <1>2
  <2> HIDE DEF t, y1
  <2>4. t \in Screens /\ RegionOf(t) /\ SavedOK(t) /\ RegionOf(screen)
    BY <1>2, <2>1 DEF ScreenOK, SavedOK, Like, RegionOf
  <2> QED BY <1>2, <2>2, <2>3, <2>4, SetKeeps
<1>7. CASE ReverseIndex
  <2> DEFINE t == revscroll(screen)  y1 == Y - 1
  <2>1. Like(t, screen) BY <1>2, Scrolling
  <2>2. Sequence(set_cursor_pos(t, 0, Y)) \/ Sequence(set_cursor_pos(screen, 0, y1)) BY <1>7 DEF ReverseIndex
  <2>3. 0 \in Int /\ y1 \in Int BY <1>2
  <2> HIDE DEF t, y1
  <2>4. t \in Screens /\ RegionOf(t) /\ SavedOK(t) /\ RegionOf(screen)
    BY <1>2, <2>1 DEF ScreenOK, SavedOK, Like, RegionOf
  <2> QED BY <1>2, <2>2, <2>3, <2>4, SetKeeps
<1> QED BY <1>3, <1>4, <1>5, <1>6, <1>7

(* Erasing. *)
LEMMA ErasesKeep ==
    ASSUME TermInv, NEW n \in Values, EraseDisplay(n) \/ EraseLine(n) \/ EraseChars(n)
    PROVE  TermInv' /\ Stays(screen, screen')
<1>1. n \in Nat BY TermNumbers DEF Values
<1>2. /\ X \in 0 .. cols - 1 /\ Y \in 0 .. rows - 1 /\ X \in Nat /\ Y \in Nat
      /\ Still \in Screens /\ ScreenOK(Still) /\ ScreenOK(screen) /\ Still.scroll_enabled = FALSE
      /\ RegionOf(Still) /\ SavedOK(Still) /\ Still.y = screen.y /\ Still.bottom = screen.bottom
      /\ 0 \in Int /\ X \in Int /\ Y \in Int
  <2>1. ScreenOK(screen) BY DEF TermInv
  <2>2. ScreenOK(Still) BY SequenceReads
  <2>3. RegionOf(Still) /\ SavedOK(Still) BY <2>2 DEF ScreenOK
  <2>4. X \in Nat /\ Y \in Nat BY SequenceReads
  <2>5. 0 \in Int /\ X \in Int /\ Y \in Int BY <2>4
  <2> QED BY <2>1, <2>2, <2>3, <2>5, SequenceReads
<1> DEFINE k0 == (rows - Y - 1) * cols + cols - X  k1 == Y * cols + X + 1  k2 == cols - X
           top == set_cursor_pos(Still, 0, 0)  start == set_cursor_pos(Still, 0, Y)
<1>3. k0 \in Nat /\ k1 \in Nat /\ k2 \in Nat /\ cols \in Nat
  <2>1. rows - Y - 1 \in Nat BY <1>2, Sized
  <2>2. (rows - Y - 1) * cols \in Nat /\ Y * cols \in Nat BY <1>2, <2>1, Sized
  <2> QED BY <1>2, <2>2, Sized
<1>4. ScreenOK(top) /\ ScreenOK(start) BY <1>2, Placed
<1>5. ScreenOK(clear(Still, FALSE)) /\ Stays(screen, clear(Still, FALSE))
  <2>1. Stays(Still, clear(Still, FALSE)) BY <1>2, ClearOK
  <2> QED BY <1>2, <2>1, ClearOK DEF Stays
<1>6. ScreenOK(Blanks(X, start)) /\ Stays(screen, Blanks(X, start))
  <2>1. start \in Screens /\ start.scroll_enabled = FALSE /\ start.x = 0 /\ start.y < rows
        /\ OnRow(start) /\ RegionOf(start) /\ SavedOK(start) /\ start.bottom = Still.bottom
    <3>1. Like(start, Still) /\ start.x = (IF 0 < 0 THEN 0 ELSE IF 0 >= cols THEN cols - 1 ELSE 0)
          /\ start.y \in 0 .. rows - 1
      BY <1>2, Sets
    <3> HIDE DEF start
    <3> QED BY <1>2, <1>4, <3>1, Sized DEF Like, ScreenOK
  <2> HIDE DEF start
  <2> DEFINE t == Blanks(X, start)
  <2>2. Like(t, start) /\ OnRow(t) /\ Stays(start, t) BY <1>2, <2>1, BlanksKeep
  <2>3. start.x + X <= cols /\ start.x < cols BY <1>2, <2>1, Sized
  <2>4. t.x = start.x + X BY <1>2, <2>1, <2>3, BlanksFill
  <2> HIDE DEF t
  <2>5. ScreenOK(t) BY <2>1, <2>2, <2>3, <2>4 DEF ScreenOK, SavedOK, Like, RegionOf
  <2>6. Stays(screen, t) BY <1>2, <2>1, <2>2 DEF Stays
  <2> QED BY <2>5, <2>6 DEF t
<1>7. \/ Sequence(set_cursor_pos(Blanks(k0, Still), X, Y))
      \/ Sequence(set_cursor_pos(Blanks(k1, top), X, Y))
      \/ Sequence(clear(Still, FALSE)) \/ Sequence(screen)
      \/ Sequence(set_cursor_pos(Blanks(k2, Still), X, Y))
      \/ Sequence(Blanks(X, start))
      \/ Sequence(set_cursor_pos(Blanks(cols, start), X, Y))
      \/ Sequence(set_cursor_pos(Blanks(n, Still), X, Y))
  BY <1>1 DEF EraseDisplay, EraseLine, EraseChars
<1> HIDE DEF k0, k1, k2, top, start
<1>8. \A k \in Nat, s \in {Still, top, start} :
         LET t == set_cursor_pos(Blanks(k, s), X, Y) IN ScreenOK(t) /\ Stays(screen, t)
  <2>1. \A k \in Nat, s \in {Still, top, start} :
           LET t == set_cursor_pos(Blanks(k, s), X, Y) IN ScreenOK(t) /\ t.y < rows
    BY <1>2, <1>4, BlanksPlaced
  <2> QED BY <2>1 DEF Stays
<1>10. Stays(screen, screen) BY DEF Stays
<1>9. \E s : ScreenOK(s) /\ Stays(screen, s) /\ Sequence(s)
  BY <1>1, <1>2, <1>3, <1>5, <1>6, <1>7, <1>8, <1>10
<1> QED BY <1>9, SequenceKeeps

(* The shift of '@' and 'P' ends on a screen in order. *)
LEMMA ShiftsOK ==
    ASSUME TermInv, NEW n \in Values, InsertBlanks(n) \/ DeleteChars(n)
    PROVE  TermInv' /\ Stays(screen, screen')
<1>1. n \in Nat BY TermNumbers DEF Values
<1>2. /\ X \in 0 .. cols - 1 /\ Y \in 0 .. rows - 1 /\ Still \in Screens /\ ScreenOK(Still)
      /\ X \in Nat /\ Y \in Nat
  BY SequenceReads
<1>3. OnRow(Still) /\ RegionOf(Still) /\ SavedOK(Still) /\ X \in Int /\ Y \in Int BY <1>2 DEF ScreenOK
<1>4. CASE InsertBlanks(n)
  <2> DEFINE t == Opened(n)
  <2>1. Like(t, Still) BY <1>1, <1>2, OpenedShows
  <2>2. Sequence(set_cursor_pos(t, X, Y)) BY <1>4 DEF InsertBlanks
  <2> HIDE DEF t
  <2>3. t \in Screens /\ RegionOf(t) /\ SavedOK(t) BY <1>3, <2>1 DEF Like, RegionOf, SavedOK
  <2> QED BY <1>3, <2>2, <2>3, SetKeeps
<1>5. CASE DeleteChars(n)
  <2> DEFINE m == IF X + n < cols THEN cols - X - n ELSE 0  f == X + n
             t == Shifts(m, Still, f, 1, -n)  w == cols - n  u == set_cursor_pos(t, w, Y)
  <2>1. m \in Nat /\ f \in Int /\ 1 \in Int /\ -n \in Int /\ w \in Int BY <1>1, <1>2, Sized
  <2>3. Sequence(set_cursor_pos(Blanks(n, u), X, Y)) BY <1>5 DEF DeleteChars
  <2> HIDE DEF m, w
  <2>4. Like(t, Still)
    <3>1. m = 0 \/ X + n + m <= cols BY <1>1, <1>2, Sized DEF m
    <3>2. Y \in Nat /\ Y < rows BY <1>2, Sized
    <3>3. Like(Shifts(m, Still, X + n, 1, -n), Still)
      <4>1. X \in Nat /\ n \in Nat /\ m \in Nat /\ Still \in Screens BY <1>1, <1>2, <2>1
      <4>2. m = 0 \/ X + n + m <= cols BY <3>1
      <4> QED BY <3>2, <4>1, <4>2, ShiftsLeft
    <3> QED BY <3>3 DEF f
  <2> HIDE DEF t
  <2>5. t \in Screens /\ RegionOf(t) /\ SavedOK(t) BY <1>3, <2>4 DEF Like, RegionOf, SavedOK
  <2>6. ScreenOK(u) BY <1>3, <2>1, <2>5, Placed
  <2> HIDE DEF u
  <2> DEFINE v == set_cursor_pos(Blanks(n, u), X, Y)
  <2>7. ScreenOK(v) /\ v.y < rows BY <1>1, <1>3, <2>6, BlanksPlaced
  <2> HIDE DEF v
  <2>8. Stays(screen, v) BY <2>7 DEF Stays
  <2>9. Sequence(v) BY <2>3 DEF v
  <2> QED BY <2>7, <2>8, <2>9, SequenceKeeps
<1> QED BY <1>4, <1>5

(* A row opened for a character, or not: the cursor stays.                 *)
LEMMA RoomMade ==
    ASSUME TermInv
    PROVE  /\ Like(Room, screen) /\ Room.x = screen.x /\ Room.y = screen.y
           /\ ScreenOK(Room) /\ Stays(screen, Room)
<1> DEFINE m == cols - X  f == cols - 1  d == -1
<1>1. X \in 0 .. cols - 1 /\ Y \in Nat /\ screen \in Screens BY SequenceReads
<1>2. ScreenOK(screen) BY DEF TermInv
<1>3. m \in Nat /\ f \in Int /\ d \in Int /\ 1 \in Int BY <1>1, Sized
<1>4. \A k \in 1 .. m : Turn(f, d, k) \in Nat /\ Turn(f, d, k) + 1 \in Nat
  BY <1>1, Sized DEF Turn
<1>5. Room = IF inserts THEN Shifts(m, screen, f, d, 1) ELSE screen BY DEF Room
<1> HIDE DEF m, f, d
<1>6. Like(Shifts(m, screen, f, d, 1), screen) /\ Shifts(m, screen, f, d, 1).x = screen.x
      /\ Shifts(m, screen, f, d, 1).y = screen.y
  BY <1>1, <1>3, <1>4, ShiftsRun
<1>7. Like(Room, screen) /\ Room.x = screen.x /\ Room.y = screen.y BY <1>1, <1>5, <1>6 DEF Like
<1> QED BY <1>2, <1>7 DEF ScreenOK, SavedOK, Like, OnRow, RegionOf, Stays

(* A printed character, and the blanks after it, leave the cursor on the   *)
(* screen or right of its last column, and in the region if it was there.  *)
LEMMA Typing ==
    ASSUME TermInv, NEW s, ScreenOK(s), s.scroll_enabled = TRUE, NEW c \in Chars, NEW n \in Nat
    PROVE  LET t == Blanks(n, raw_putchar(s, c))
           IN  /\ ScreenOK(t) /\ Stays(s, t) /\ ScreenOK(raw_putchar(s, c)) /\ Stays(s, raw_putchar(s, c))
               /\ s.y \in s.top .. s.bottom - 1 /\ cols >= rows =>
                      /\ t.y \in s.top .. s.bottom - 1
                      /\ raw_putchar(s, c).y \in s.top .. s.bottom - 1
<1> DEFINE p == raw_putchar(s, c)  t == Blanks(n, p)
<1>1. s \in Screens /\ s.x <= cols /\ OnRow(s) /\ SavedOK(s) /\ RegionOf(s) BY DEF ScreenOK
<1>2. Like(p, s) /\ p.x = PutX(s) + 1 /\ p.y = PutY(s) BY <1>1, Putchar
<1>3. /\ PutY(s) < rows \/ PutY(s) < cols
      /\ s.y < rows /\ s.bottom = rows => PutY(s) < rows
      /\ PutX(s) + 1 <= cols
      /\ s.y \in s.top .. s.bottom - 1 /\ cols >= rows => PutY(s) \in s.top .. s.bottom - 1
  BY <1>1, PutcharRow
<1> HIDE DEF p
<1>4. /\ p \in Screens /\ OnRow(p) /\ RegionOf(p) /\ SavedOK(p) /\ p.x <= cols
      /\ Stays(s, p) /\ p.scroll_enabled /\ p.top = s.top /\ p.bottom = s.bottom
      /\ s.y \in s.top .. s.bottom - 1 /\ cols >= rows => p.y \in s.top .. s.bottom - 1
  BY <1>1, <1>2, <1>3 DEF Like, OnRow, RegionOf, SavedOK, Stays
<1>5. /\ Like(t, p) /\ OnRow(t) /\ Stays(p, t) /\ t.x <= cols
      /\ p.y \in p.top .. p.bottom - 1 /\ cols >= rows => t.y \in p.top .. p.bottom - 1
  BY <1>4, BlanksKeep
<1> HIDE DEF t
<1>6. ScreenOK(p) BY <1>4 DEF ScreenOK
<1>7. ScreenOK(t) BY <1>4, <1>5 DEF ScreenOK, Like, RegionOf, SavedOK
<1>8. Stays(s, t) BY <1>4, <1>5 DEF Stays
<1> QED BY <1>4, <1>5, <1>6, <1>7, <1>8 DEF p, t

(* What is typed keeps the invariant, and the cursor in its region.        *)
LEMMA TypingKeeps ==
    ASSUME TermInv, NEW c \in Chars, NEW width \in 0 .. 2,
           PrintChar(c) \/ Unprintable \/ PrintUnicode(c, width)
    PROVE  /\ TermInv' /\ Stays(screen, screen')
           /\ screen.y \in screen.top .. screen.bottom - 1 /\ cols >= rows =>
                  screen'.y \in screen.top .. screen.bottom - 1
<1> DEFINE held(t) == screen.y \in screen.top .. screen.bottom - 1 /\ cols >= rows =>
                          t.y \in screen.top .. screen.bottom - 1
<1>1. ScreenOK(screen) /\ screen.scroll_enabled = TRUE BY DEF TermInv
<1>2. /\ ScreenOK(Room) /\ Stays(screen, Room) /\ Room.scroll_enabled = TRUE /\ held(Room)
      /\ Room.y = screen.y /\ Room.top = screen.top /\ Room.bottom = screen.bottom
  BY <1>1, RoomMade DEF Like
<1>3. \E t : ScreenOK(t) /\ Stays(screen, t) /\ held(t) /\ Sequence(t)
  <2>1. CASE PrintChar(c)
    <3> DEFINE t == raw_putchar(Room, c)
    <3>1. /\ ScreenOK(t) /\ Stays(Room, t)
          /\ Room.y \in Room.top .. Room.bottom - 1 /\ cols >= rows =>
                 t.y \in Room.top .. Room.bottom - 1
      BY <1>2, Typing
    <3>2. Sequence(t) BY <2>1 DEF PrintChar
    <3> HIDE DEF t
    <3>3. Stays(screen, t) /\ held(t) BY <1>2, <3>1 DEF Stays
    <3> QED BY <3>1, <3>2, <3>3
  <2>2. CASE Unprintable BY <1>2, <2>2 DEF Unprintable
  <2>3. CASE PrintUnicode(c, width)
    <3>1. CASE width = 0 BY <1>1, <2>3, <3>1 DEF PrintUnicode, Stays
    <3>2. CASE width # 0
      <4> DEFINE n == width - 1  t == Blanks(n, raw_putchar(screen, c))
      <4>1. n \in Nat BY <3>2
      <4>2. Sequence(t) BY <2>3, <3>2 DEF PrintUnicode
      <4> HIDE DEF n
      <4>3. ScreenOK(t) /\ Stays(screen, t) /\ held(t) BY <1>1, <4>1, Typing
      <4> HIDE DEF t
      <4> QED BY <4>2, <4>3
    <3> QED BY <3>1, <3>2
  <2> QED BY <2>1, <2>2, <2>3
<1>4. PICK t : ScreenOK(t) /\ Stays(screen, t) /\ held(t) /\ Sequence(t) BY <1>3
<1>5. TermInv' /\ Stays(screen, screen') BY <1>4, SequenceKeeps
<1>6. screen'.y = t.y BY <1>4, Doing DEF Sequence
<1> QED BY <1>4, <1>5, <1>6

(* Saving and restoring the state, which can bring the cursor back to a    *)
(* row below the screen.                                                   *)
LEMMA StatesKeep ==
    ASSUME TermInv, SaveScreen \/ RestoreScreen
    PROVE  TermInv' /\ (SaveScreen => Stays(screen, screen'))
<1>1. ScreenOK(screen) /\ screen \in Screens BY DEF TermInv, ScreenOK
<1> DEFINE v == [x |-> screen.x, y |-> screen.y, fg |-> screen.fg, bg |-> screen.bg]
           a == save_state(screen)  b == restore_state(screen)
<1>2. v \in Spots BY <1>1 DEF Screens, Spots
<1>3. a = [screen EXCEPT !.saved = v] BY DEF save_state
<1>4. v.x = screen.x /\ v.y = screen.y OBVIOUS
<1> HIDE DEF v, a
<1>5. /\ a \in Screens /\ a.x = screen.x /\ a.y = screen.y /\ a.saved = v
      /\ a.top = screen.top /\ a.bottom = screen.bottom
  BY <1>1, <1>2, <1>3 DEF Screens
<1>6. ScreenOK(a) /\ Stays(screen, a)
  BY <1>1, <1>4, <1>5 DEF ScreenOK, SavedOK, OnRow, RegionOf, Stays
<1> DEFINE x == screen.saved.x  y == screen.saved.y  fg == screen.saved.fg  bg == screen.saved.bg
<1>7. x \in Nat /\ y \in Nat /\ fg \in {Colour} /\ bg \in {Colour} BY <1>1 DEF Screens, Spots
<1>8. b = [screen EXCEPT !.x = x, !.y = y, !.fg = fg, !.bg = bg] BY DEF restore_state
<1>9. x <= cols /\ (y < rows \/ y < cols) BY <1>1 DEF ScreenOK, SavedOK, OnRow
<1> HIDE DEF x, y, fg, bg, b
<1>10. /\ b \in Screens /\ b.x = x /\ b.y = y /\ b.saved = screen.saved
       /\ b.top = screen.top /\ b.bottom = screen.bottom
  BY <1>1, <1>7, <1>8 DEF Screens
<1>11. ScreenOK(b) BY <1>1, <1>9, <1>10 DEF ScreenOK, SavedOK, OnRow, RegionOf
<1>12. ASSUME SaveScreen PROVE TermInv' /\ Stays(screen, screen')
  <2>1. Sequence(a) BY <1>12 DEF SaveScreen, a
  <2> QED BY <1>6, <2>1, SequenceKeeps
<1>13. ASSUME RestoreScreen PROVE TermInv'
  <2>1. Do(b) /\ saved_cursor' = saved_cursor /\ inserts' = inserts
    BY <1>13 DEF RestoreScreen, Sequence, b
  <2>2. ScreenOK(screen)' /\ screen'.scroll_enabled = TRUE BY <1>11, <2>1, Doing
  <2> QED BY <2>1, <2>2 DEF TermInv
<1> QED BY <1>12, <1>13

(* The invariant of control sequences. *)
LEMMA TermInvInit == TermInit => TermInv
<1> SUFFICES ASSUME TermInit PROVE TermInv OBVIOUS
<1> DEFINE g == [i \in Cells |-> [c |-> Text[i], fg |-> Colour, bg |-> Colour]]
<1>1. g \in [Cells -> Inks] BY TermNumbers DEF Inks
<1>2. PICK at \in Places, top \in 0 .. rows - 1, bottom \in 1 .. rows :
         /\ <<top, bottom>> = <<0, rows>> \/ top + 2 <= bottom
         /\ \E was \in {at, [x |-> 0, y |-> 0]} :
               screen = [cells |-> g, x |-> at.x, y |-> at.y, fg |-> Colour, bg |-> Colour,
                         saved |-> [x |-> was.x, y |-> was.y, fg |-> Colour, bg |-> Colour],
                         top |-> top, bottom |-> bottom, scroll_enabled |-> TRUE]
  BY DEF TermInit
<1> HIDE DEF g
<1>3. PICK was \in {at, [x |-> 0, y |-> 0]} :
         screen = [cells |-> g, x |-> at.x, y |-> at.y, fg |-> Colour, bg |-> Colour,
                   saved |-> [x |-> was.x, y |-> was.y, fg |-> Colour, bg |-> Colour],
                   top |-> top, bottom |-> bottom, scroll_enabled |-> TRUE]
  BY <1>2
<1>8. /\ at.x \in Nat /\ at.y \in Nat /\ at.x <= cols /\ OnRow(at)
      /\ was.x \in Nat /\ was.y \in Nat /\ was.x <= cols /\ OnRow(was)
      /\ top \in 0 .. rows /\ bottom \in 0 .. rows
      /\ (top = 0 /\ bottom = rows) \/ (top >= 0 /\ top + 2 <= bottom /\ bottom <= rows)
  <2>1. \A p \in Places : p.x \in Nat /\ p.y \in Nat /\ p.x <= cols /\ OnRow(p)
    BY Sized DEF Places, OnRow
  <2>2. [x |-> 0, y |-> 0] \in Places BY Sized DEF Places
  <2> QED BY <1>2, <1>3, <2>1, <2>2, Sized
<1> DEFINE v == [x |-> was.x, y |-> was.y, fg |-> Colour, bg |-> Colour]  x == at.x  y == at.y
<1>9. v \in Spots /\ v.x = was.x /\ v.y = was.y BY <1>8 DEF Spots
<1>4. screen = [cells |-> g, x |-> x, y |-> y, fg |-> Colour, bg |-> Colour, saved |-> v,
                top |-> top, bottom |-> bottom, scroll_enabled |-> TRUE]
  BY <1>3
<1> HIDE DEF v, x, y
<1>10. x \in Nat /\ y \in Nat /\ x <= cols /\ (y < rows \/ y < cols) BY <1>8 DEF x, y, OnRow
<1>5. screen \in Screens BY <1>1, <1>4, <1>8, <1>9, <1>10 DEF Screens
<1>6. ScreenOK(screen) /\ screen.scroll_enabled = TRUE
  <2>1. /\ screen.x = x /\ screen.y = y /\ screen.saved = v /\ screen.top = top
        /\ screen.bottom = bottom /\ screen.scroll_enabled = TRUE
    BY <1>4
  <2> QED BY <1>5, <1>8, <1>9, <1>10, <2>1 DEF ScreenOK, SavedOK, OnRow, RegionOf
<1>7. saved_cursor \in [x : 0 .. cols - 1, y : 0 .. rows - 1] /\ inserts \in BOOLEAN
  <2>1. 0 \in 0 .. cols - 1 /\ 0 \in 0 .. rows - 1 BY Sized
  <2>2. saved_cursor = [x |-> 0, y |-> 0] /\ inserts = FALSE BY DEF TermInit
  <2> HIDE DEF TermInit
  <2> QED BY <2>1, <2>2
<1> QED BY <1>6, <1>7 DEF TermInv

(* Every action keeps it.                                                  *)
LEMMA TermInvNext ==
    TermInv /\ [TermNext]_termvars => TermInv' /\ (RestoreScreen \/ Stays(screen, screen'))
<1> DEFINE Goal == TermInv' /\ (RestoreScreen \/ Stays(screen, screen'))
<1> SUFFICES ASSUME TermInv, [TermNext]_termvars PROVE Goal OBVIOUS
<1>1. ScreenOK(screen) /\ screen \in Screens BY DEF TermInv, ScreenOK
<1>2. CASE UNCHANGED termvars BY <1>2 DEF TermInv, termvars, Stays
<1>3. CASE SaveCursor
  <2>1. Do(screen) /\ saved_cursor' = [x |-> X, y |-> Y] /\ inserts' = inserts
    BY <1>3 DEF SaveCursor
  <2>2. ScreenOK(screen)' /\ screen'.scroll_enabled = TRUE /\ screen'.y = screen.y
    BY <1>1, <2>1, Doing
  <2>3. X \in 0 .. cols - 1 /\ Y \in 0 .. rows - 1 BY SequenceReads
  <2>4. inserts \in BOOLEAN BY DEF TermInv
  <2> HIDE DEF TermInv
  <2> QED BY <2>1, <2>2, <2>3, <2>4 DEF TermInv, Stays
<1>4. ASSUME NEW set \in BOOLEAN, SetInsertMode(set) PROVE Goal
  <2>1. Do(screen) /\ saved_cursor' = saved_cursor /\ inserts' = set
    BY <1>4 DEF SetInsertMode
  <2>2. ScreenOK(screen)' /\ screen'.scroll_enabled = TRUE /\ screen'.y = screen.y
    BY <1>1, <2>1, Doing
  <2> QED BY <2>1, <2>2 DEF TermInv, Stays
<1>5. CASE Reset
  <2> DEFINE b == TRUE  z == 0
             s == [screen EXCEPT !.top = z, !.bottom = rows, !.scroll_enabled = b]
             t == clear(s, TRUE)
  <2>1. Do(t) /\ saved_cursor' = [x |-> 0, y |-> 0] /\ inserts' = FALSE BY <1>5 DEF Reset
  <2>2. z \in 0 .. rows /\ rows \in 0 .. rows /\ b \in BOOLEAN /\ rows \in Nat BY Sized
  <2>3. s \in Screens /\ s.x = screen.x /\ s.y = screen.y /\ s.top = z /\ s.bottom = rows
        /\ s.saved = screen.saved
    <3> HIDE DEF z, b
    <3> QED BY <1>1, <2>2 DEF Screens
  <2> HIDE DEF s
  <2>4. RegionOf(s) /\ SavedOK(s) BY <1>1, <2>3 DEF ScreenOK, SavedOK, RegionOf
  <2>5. ScreenOK(t) /\ t.y = 0
    <3> DEFINE g == [i \in Cells |-> Styled(s, Space)]
    <3>1. g \in [Cells -> Inks] BY <2>3, StyledInk, Sized
    <3>2. t = [s EXCEPT !.cells = g, !.x = z, !.y = z] BY DEF clear
    <3> HIDE DEF g, t
    <3>3. t \in Screens /\ t.x = 0 /\ t.y = 0 /\ t.top = s.top /\ t.bottom = s.bottom
          /\ t.saved = s.saved
      BY <2>3, <3>1, <3>2 DEF Screens
    <3> QED BY <2>4, <3>3, Sized DEF ScreenOK, SavedOK, OnRow, RegionOf
  <2> HIDE DEF t
  <2>6. ScreenOK(screen)' /\ screen'.scroll_enabled = TRUE /\ screen'.y = 0 BY <2>1, <2>5, Doing
  <2>7. [x |-> 0, y |-> 0] \in [x : 0 .. cols - 1, y : 0 .. rows - 1] BY Sized
  <2>8. TermInv' BY <2>1, <2>6, <2>7 DEF TermInv
  <2>9. Stays(screen, screen') BY <2>6, Sized DEF Stays
  <2> QED BY <2>8, <2>9
<1>6. CASE \/ \E c \in Typed : PrintChar(c)
           \/ Unprintable
           \/ \E c \in Typed, width \in 0 .. 2 : PrintUnicode(c, width)
  <2>1. Typed \subseteq Chars /\ Space \in Chars /\ 0 \in 0 .. 2 BY TermNumbers, Sized
  <2> QED BY <1>6, <2>1, TypingKeeps
<1>11. CASE SaveScreen \/ RestoreScreen BY <1>11, StatesKeep
<1>7. CASE \/ \E n \in Values : DeleteLines(n) \/ InsertLines(n)
           \/ \E n, m \in Values : ScrollRegion(n, m)
           \/ LineFeed(0) \/ LineFeed(X) \/ ReverseIndex
  BY <1>7, LinesKeep
<1>8. CASE \/ \E n \in Values, x \in {0, X} : CursorUp(n, x) \/ CursorDown(n, x)
           \/ \E n \in Values :
                  CursorForward(n) \/ CursorBack(n) \/ CursorRow(n) \/ CursorColumn(n)
           \/ \E n, m \in Values : CursorPosition(n, m)
           \/ RestoreCursor \/ Tab \/ Backspace \/ CarriageReturn
  BY <1>8, MovesKeep
<1>9. CASE \E n \in Values : EraseDisplay(n) \/ EraseLine(n) \/ EraseChars(n)
  BY <1>9, ErasesKeep
<1>10. CASE \E n \in Values : InsertBlanks(n) \/ DeleteChars(n) BY <1>10, ShiftsOK
<1> QED BY <1>2, <1>3, <1>4, <1>5, <1>6, <1>7, <1>8, <1>9, <1>10, <1>11 DEF TermNext

-----------------------------------------------------------------------------
(* The cells of a row. *)
LEMMA RowCells ==
    ASSUME NEW i \in Cells, NEW y \in Nat
    PROVE  i \div cols = y <=> i \in At(0, y) .. At(cols, y) - 1
<1> DEFINE q == i \div cols  r == i % cols  m == q * cols  l == y * cols
<1>1. /\ cols \in Nat \ {0} /\ i \in Nat /\ q \in Nat /\ r \in 0 .. cols - 1 /\ At(r, q) = i
  BY Sized, CellPlace
<1> HIDE DEF q, r
<1>2. m \in Nat /\ l \in Nat /\ i = m + r BY <1>1 DEF At
<1>3. y < q => l + cols <= m BY <1>1, Multiples
<1>4. q < y => m + cols <= l BY <1>1, Multiples
<1>5. y = q => l = m OBVIOUS
<1>6. At(0, y) = l /\ At(cols, y) = l + cols BY <1>1 DEF At
<1> HIDE DEF m, l
<1>7. q = y <=> i \in l .. l + cols - 1 BY <1>1, <1>2, <1>3, <1>4, <1>5
<1> QED BY <1>1, <1>2, <1>6, <1>7 DEF q

(* What makes cells blank. *)
LEMMA BlankIs ==
    ASSUME TermInv, NEW s, ScreenOK(s), Do(s), s.x = screen.x, s.y = screen.y, NEW set,
           \A i \in Cells : s.cells[i] = IF i \in set THEN Styled(screen, Space) ELSE screen.cells[i]
    PROVE  Blank(set)
<1>1. screen'.cells = s.cells /\ screen'.x = s.x /\ screen'.y = s.y BY Doing
<1>2. s.cells \in [Cells -> Inks] BY DEF ScreenOK, Screens
<1>3. s.cells = [i \in Cells |-> IF i \in set THEN Styled(screen, Space) ELSE screen.cells[i]]
  <2> HIDE DEF TermInv
  <2> QED BY <1>2
<1> QED BY <1>1, <1>3 DEF Blank

(* Blanks that start at a cell, with the cursor brought back after them.   *)
LEMMA FillsFrom ==
    ASSUME TermInv, screen.x < cols, screen.y < rows,
           NEW s, ScreenOK(s), Like(s, Still), s.cells = screen.cells, s.x < cols, s.y < rows,
           NEW n \in Nat,
           \/ s.x + n <= cols
           \/ screen.bottom = rows /\ cols >= rows /\ At(s.x, s.y) + n <= rows * cols,
           Do(set_cursor_pos(Blanks(n, s), X, Y)),
           NEW set, \A i \in Cells : i \in set <=> i \in At(s.x, s.y) .. At(s.x, s.y) + n - 1
    PROVE  Blank(set)
<1> DEFINE t == Blanks(n, s)  u == set_cursor_pos(t, X, Y)
<1>1. /\ X = screen.x /\ Y = screen.y /\ X \in Int /\ Y \in Int /\ X \in 0 .. cols - 1
      /\ Y \in 0 .. rows - 1 /\ Still.scroll_enabled = FALSE /\ Still.bottom = screen.bottom
      /\ Styled(Still, Space) = Styled(screen, Space) /\ Still \in Screens
  <2>1. X \in Nat /\ Y \in Nat BY SequenceReads
  <2>2. X \in Int /\ Y \in Int BY <2>1
  <2> QED BY <2>2, SequenceReads
<1>2. s \in Screens /\ OnRow(s) /\ RegionOf(s) BY DEF ScreenOK
<1>3. s.scroll_enabled = FALSE /\ s.bottom = screen.bottom /\ Styled(s, Space) = Styled(screen, Space)
  <2>1. Styled(s, Space) = Styled(Still, Space) BY <1>1, <1>2, StyledInk, Sized
  <2> QED BY <1>1, <2>1 DEF Like
<1>4. \A i \in Cells : t.cells[i] = IF i \in At(s.x, s.y) .. At(s.x, s.y) + n - 1
                                    THEN Styled(screen, Space) ELSE screen.cells[i]
  BY <1>2, <1>3, BlanksFill, ZenonT(60)
<1>5. Like(t, s) BY <1>2, BlanksKeep
<1> HIDE DEF t
<1>6. t \in Screens BY <1>5 DEF Like
<1>7. u.cells = t.cells /\ u.x = X /\ u.y = Y
  <2>1. /\ u.cells = t.cells
        /\ u.x = (IF X < 0 THEN 0 ELSE IF X >= cols THEN cols - 1 ELSE X)
        /\ u.y = (IF Y < 0 THEN 0 ELSE IF Y >= rows THEN rows - 1 ELSE Y)
    BY <1>1, <1>6, Sets
  <2> HIDE DEF u
  <2> QED BY <1>1, <2>1, Sized
<1>8. ScreenOK(u) /\ Do(u) BY <1>1, BlanksPlaced DEF t
<1> HIDE DEF u
<1>9. \A i \in Cells : u.cells[i] = IF i \in set THEN Styled(screen, Space) ELSE screen.cells[i]
  BY <1>4, <1>7
<1> QED BY <1>1, <1>7, <1>8, <1>9, BlankIs

(* The cursor at the start of the screen or of its row. *)
LEMMA StartAt ==
    ASSUME TermInv, NEW d \in 0 .. rows - 1
    PROVE  LET s == set_cursor_pos(Still, 0, d)
           IN  ScreenOK(s) /\ Like(s, Still) /\ s.cells = screen.cells /\ s.x = 0 /\ s.y = d
<1> DEFINE s == set_cursor_pos(Still, 0, d)
<1>1. Still \in Screens /\ ScreenOK(Still) /\ Still.cells = screen.cells BY SequenceReads
<1>2. RegionOf(Still) /\ SavedOK(Still) /\ 0 \in Int /\ d \in Int /\ d >= 0 /\ d < rows BY <1>1, Sized DEF ScreenOK
<1>3. /\ Like(s, Still) /\ s.cells = Still.cells
      /\ s.x = (IF 0 < 0 THEN 0 ELSE IF 0 >= cols THEN cols - 1 ELSE 0)
      /\ s.y = (IF d < 0 THEN 0 ELSE IF d >= rows THEN rows - 1 ELSE d)
  BY <1>1, <1>2, Sets
<1>4. ScreenOK(s) BY <1>1, <1>2, Placed
<1> HIDE DEF s
<1> QED BY <1>1, <1>2, <1>3, <1>4, Sized DEF s

(* Erasing, case by case.                                                  *)
LEMMA EraseIsExact == TermInv => EraseExact
<1> SUFFICES ASSUME TermInv PROVE EraseExact OBVIOUS
<1> DEFINE here == At(screen.x, screen.y)  row == {i \in Cells : i \div cols = screen.y}
           b == At(0, Y)  e == At(cols, Y)
<1> DEFINE before == Blank({i \in row : i < here}) \/ Blank({i \in row : i <= here})
<1> SUFFICES ASSUME screen.x < cols, screen.y < rows
             PROVE  /\ EraseLine(0) => Blank({i \in row : i >= here})
                    /\ EraseLine(1) => before
                    /\ EraseLine(2) => Blank(row)
                    /\ screen.bottom = rows /\ cols >= rows =>
                           /\ EraseDisplay(0) => Blank({i \in Cells : i >= here})
                           /\ EraseDisplay(1) => Blank({i \in Cells : i <= here})
                    /\ \A n \in 0 .. cols - screen.x :
                           EraseChars(n) => Blank(here .. here + n - 1)
  BY DEF EraseExact
<1>1. /\ X = screen.x /\ Y = screen.y /\ X \in Nat /\ Y \in Nat /\ X < cols /\ Y < rows
      /\ 0 \in 0 .. rows - 1 /\ Y \in 0 .. rows - 1 /\ 0 \in Nat /\ cols \in Nat /\ rows \in Nat
  BY SequenceReads, Sized
<1>2. /\ ScreenOK(Still) /\ Like(Still, Still) /\ Still.cells = screen.cells
      /\ Still.x = screen.x /\ Still.y = screen.y /\ Styled(Still, Space) = Styled(screen, Space)
  BY SequenceReads DEF Like
<1>3. /\ here = b + X /\ e = b + cols /\ b \in Nat /\ e \in Nat /\ here \in Nat
  <2>1. Y * cols \in Nat BY <1>1, Sized
  <2> QED BY <1>1, <2>1, Sized DEF At
<1>4. \A i \in Cells : (i \in row <=> i \in b .. e - 1) /\ i \in Nat
  <2>1. \A i \in Cells : i \in Nat BY Sized, CellPlace
  <2> QED BY <1>1, <2>1, RowCells
<1> DEFINE top == set_cursor_pos(Still, 0, 0)  start == set_cursor_pos(Still, 0, Y)
<1>5. ScreenOK(top) /\ Like(top, Still) /\ top.cells = screen.cells /\ top.x = 0 /\ top.y = 0
  BY <1>1, StartAt
<1>6. ScreenOK(start) /\ Like(start, Still) /\ start.cells = screen.cells /\ start.x = 0 /\ start.y = Y
  BY <1>1, StartAt
<1>7. At(0, 0) = 0 /\ 0 < cols /\ 0 < rows BY Sized DEF At
<1>8. here + 1 <= rows * cols /\ here + ((rows - Y - 1) * cols + cols - X) = rows * cols
      /\ rows * cols \in Nat /\ (rows - Y - 1) * cols + cols - X \in Nat
      /\ Cells = 0 .. rows * cols - 1
  <2> DEFINE m == Y * cols  n == rows * cols  k == (rows - Y - 1) * cols
  <2>1. m \in Nat /\ n \in Nat /\ m + cols <= n BY <1>1, Sized, Multiples
  <2>2. k = n - m - cols
    <3>1. rows \in Nat /\ Y \in Nat /\ cols \in Nat BY <1>1
    <3> QED BY <3>1
  <2> HIDE DEF m, n, k
  <2>3. here = m + X BY <1>1 DEF At, m
  <2> HIDE DEF here
  <2>4. here + 1 <= n /\ here + (k + cols - X) = n /\ k + cols - X \in Nat
    BY <1>1, <2>1, <2>2, <2>3
  <2> QED BY <2>1, <2>4 DEF n, k, Cells
<1> HIDE DEF here, row, b, e, top, start
<1>9. ASSUME EraseLine(0) PROVE Blank({i \in row : i >= here})
  <2> DEFINE set == {i \in row : i >= here}  n == cols - X
  <2>1. Do(set_cursor_pos(Blanks(n, Still), X, Y)) BY <1>9 DEF EraseLine, Sequence
  <2>2. n \in Nat /\ Still.x + n <= cols BY <1>1, <1>2
  <2>3. \A i \in Cells : i \in set <=> i \in here .. here + n - 1 BY <1>1, <1>3, <1>4
  <2>4. here = At(Still.x, Still.y) BY <1>2 DEF here
  <2> HIDE DEF n, set
  <2> QED BY <1>2, <2>1, <2>2, <2>3, <2>4, FillsFrom DEF set
<1>10. ASSUME EraseLine(1) PROVE Blank({i \in row : i < here})
  <2> DEFINE set == {i \in row : i < here}  t == Blanks(X, start)
  <2>1. Do(t) BY <1>10 DEF EraseLine, Sequence, start
  <2>2. start \in Screens /\ start.scroll_enabled = FALSE /\ OnRow(start) /\ RegionOf(start)
        /\ Styled(start, Space) = Styled(screen, Space)
    <3>1. start \in Screens /\ OnRow(start) /\ RegionOf(start) BY <1>6 DEF ScreenOK
    <3>2. start.scroll_enabled = FALSE
      <4>1. Still.scroll_enabled = FALSE BY SequenceReads
      <4> QED BY <1>6, <4>1 DEF Like
    <3>3. Still \in Screens BY SequenceReads
    <3>4. Styled(start, Space) = Styled(Still, Space) BY <3>1, <3>3, StyledInk, Sized
    <3> QED BY <1>2, <3>1, <3>2, <3>4
  <2>3. start.x + X <= cols /\ start.x + X = X BY <1>1, <1>6
  <2>4. /\ \A i \in Cells : t.cells[i] = IF i \in b .. b + X - 1 THEN Styled(screen, Space)
                                          ELSE screen.cells[i]
        /\ t.x = X /\ t.y = Y
    <3>1. At(start.x, start.y) = b BY <1>6 DEF b
    <3>2. start.x < cols /\ start.y < rows BY <1>1, <1>6, <1>7
    <3>3. /\ \A i \in Cells :
                 t.cells[i] = IF i \in At(start.x, start.y) .. At(start.x, start.y) + X - 1
                              THEN Styled(start, Space) ELSE start.cells[i]
          /\ t.x = start.x + X /\ t.y = start.y
      BY <1>1, <2>2, <2>3, <3>2, BlanksFill
    <3> HIDE DEF t
    <3> QED BY <1>6, <2>2, <2>3, <3>1, <3>3
  <2>5. Like(t, start) /\ OnRow(t) BY <1>1, <2>2, BlanksKeep
  <2> HIDE DEF t
  <2>6. ScreenOK(t) BY <1>1, <1>6, <2>2, <2>4, <2>5 DEF ScreenOK, SavedOK, Like, RegionOf
  <2>7. \A i \in Cells : i \in set <=> i \in b .. b + X - 1 BY <1>1, <1>3, <1>4
  <2>8. \A i \in Cells : t.cells[i] = IF i \in set THEN Styled(screen, Space) ELSE screen.cells[i]
    <3> HIDE DEF set
    <3> QED BY <2>4, <2>7
  <2> HIDE DEF set
  <2> QED BY <1>1, <2>1, <2>4, <2>6, <2>8, BlankIs DEF set
<1>11. ASSUME EraseLine(2) PROVE Blank(row)
  <2>1. Do(set_cursor_pos(Blanks(cols, start), X, Y)) BY <1>11 DEF EraseLine, Sequence, start
  <2>2. start.x + cols <= cols /\ start.x < cols /\ start.y < rows BY <1>1, <1>6, <1>7
  <2>3. b = At(start.x, start.y) BY <1>6 DEF b
  <2>4. \A i \in Cells : i \in row <=> i \in b .. b + cols - 1
    <3>1. e - 1 = b + cols - 1 BY <1>1, <1>3
    <3> QED BY <1>4, <3>1
  <2> QED BY <1>1, <1>6, <2>1, <2>2, <2>3, <2>4, FillsFrom
<1>12. ASSUME screen.bottom = rows, cols >= rows, EraseDisplay(0)
       PROVE  Blank({i \in Cells : i >= here})
  <2> DEFINE set == {i \in Cells : i >= here}  n == (rows - Y - 1) * cols + cols - X
  <2>1. Do(set_cursor_pos(Blanks(n, Still), X, Y)) BY <1>12 DEF EraseDisplay, Sequence
  <2>2. n \in Nat /\ here + n = rows * cols BY <1>8
  <2> HIDE DEF n
  <2>3. \A i \in Cells : i \in set <=> i \in here .. here + n - 1 BY <1>3, <1>8, <2>2, SMTT(30)
  <2>4. here = At(Still.x, Still.y) BY <1>2 DEF here
  <2> HIDE DEF set
  <2>5. At(Still.x, Still.y) + n <= rows * cols BY <1>8, <2>2, <2>4
  <2> QED BY <1>2, <1>12, <2>1, <2>2, <2>3, <2>4, <2>5, FillsFrom DEF set
<1>13. ASSUME screen.bottom = rows, cols >= rows, EraseDisplay(1)
       PROVE  Blank({i \in Cells : i <= here})
  <2> DEFINE set == {i \in Cells : i <= here}  n == Y * cols + X + 1
  <2>1. Do(set_cursor_pos(Blanks(n, top), X, Y)) BY <1>13 DEF EraseDisplay, Sequence, top
  <2>2. n = here + 1
    <3>1. Y * cols \in Nat BY <1>1, Sized
    <3> QED BY <1>1, <3>1 DEF here, At
  <2> HIDE DEF n
  <2>3. n \in Nat /\ At(top.x, top.y) = 0 /\ At(top.x, top.y) + n <= rows * cols
        /\ top.x < cols /\ top.y < rows
    BY <1>3, <1>5, <1>7, <1>8, <2>2
  <2>4. \A i \in Cells : i \in set <=> i \in 0 .. 0 + n - 1 BY <1>3, <1>8, <2>2, SMTT(30)
  <2> HIDE DEF set
  <2> QED BY <1>5, <1>13, <2>1, <2>3, <2>4, FillsFrom DEF set
<1>14. ASSUME NEW n \in 0 .. cols - screen.x, EraseChars(n) PROVE Blank(here .. here + n - 1)
  <2>1. Do(set_cursor_pos(Blanks(n, Still), X, Y)) BY <1>14 DEF EraseChars, Sequence
  <2>2. n \in Nat /\ Still.x + n <= cols BY <1>1, <1>2
  <2>3. here = At(Still.x, Still.y) BY <1>2 DEF here
  <2> DEFINE set == here .. here + n - 1
  <2>4. \A i \in Cells : i \in set <=> i \in here .. here + n - 1 OBVIOUS
  <2> HIDE DEF set
  <2> QED BY <1>2, <2>1, <2>2, <2>3, <2>4, FillsFrom DEF set
<1> QED BY <1>9, <1>10, <1>11, <1>12, <1>13, <1>14 DEF here, row

(* '@' and 'P', and text in insert mode.                                   *)
LEMMA ShiftIsExact == TermInv => ShiftExact
<1> SUFFICES ASSUME TermInv PROVE ShiftExact OBVIOUS
<1> DEFINE here == At(X, screen.y)  end == At(cols, screen.y)  sp == Styled(screen, Space)
           g == screen.cells
           inserted(n) == [i \in Cells |-> IF i \in here .. end - 1
                                          THEN IF i < here + n THEN sp ELSE g[i - n] ELSE g[i]]
           deleted(n) == [i \in Cells |-> IF i \in here .. end - 1
                                         THEN IF i + n < end THEN g[i + n] ELSE sp ELSE g[i]]
           shown(c) == [i \in Cells |-> IF i \in here .. end - 1
                                       THEN IF i = here THEN Styled(screen, c) ELSE g[i - 1] ELSE g[i]]
           opened == [i \in Cells |-> IF i \in here .. end - 1
                                      THEN g[IF i = here THEN i ELSE i - 1] ELSE g[i]]
<1> SUFFICES ASSUME screen.y < rows
             PROVE  /\ \A n \in Values \ {0} : InsertBlanks(n) => screen'.cells = inserted(n)
                    /\ \A n \in 0 .. end - here : DeleteChars(n) => screen'.cells = deleted(n)
                    /\ inserts /\ screen.x < cols =>
                           /\ \A c \in Chars : PrintChar(c) => screen'.cells = shown(c)
                           /\ Unprintable => screen'.cells = opened
  BY DEF ShiftExact
<1>1. /\ Y = screen.y /\ X \in 0 .. cols - 1 /\ Y \in 0 .. rows - 1 /\ X \in Nat /\ Y \in Nat
      /\ X < cols /\ Y < rows /\ cols \in Nat /\ X \in Int /\ Y \in Int
  <2>1. X \in 0 .. cols - 1 /\ Y \in 0 .. rows - 1 /\ X \in Nat /\ Y \in Nat /\ Y = screen.y
    BY SequenceReads
  <2> QED BY <2>1, Sized
<1>2. /\ Still \in Screens /\ Still.cells = g /\ Still.scroll_enabled = FALSE
      /\ Styled(Still, Space) = sp /\ ScreenOK(Still)
  BY SequenceReads
<1>3. /\ here = At(X, Y) /\ end = At(cols, Y) /\ here \in Nat /\ end \in Nat
      /\ end = here + (cols - X)
  <2>1. Y * cols \in Nat BY <1>1, Sized
  <2>2. here = At(X, Y) /\ end = At(cols, Y) BY <1>1
  <2> HIDE DEF here, end
  <2> QED BY <1>1, <2>1, <2>2 DEF At
<1>4. RegionOf(Still) /\ SavedOK(Still) BY <1>2 DEF ScreenOK
<1> HIDE DEF here, end, sp, g
<1>5. ASSUME NEW n \in Values \ {0}, InsertBlanks(n) PROVE screen'.cells = inserted(n)
  <2> DEFINE t == Opened(n)  u == set_cursor_pos(t, X, Y)
  <2>1. n \in Nat /\ n > 0 BY TermNumbers DEF Values
  <2>2. /\ Like(t, Still)
        /\ \A j \in Cells : t.cells[j] = IF j \in here .. end - 1
                                         THEN IF j < here + n THEN sp ELSE g[j - n] ELSE g[j]
    BY <1>1, <1>2, <1>3, <2>1, OpenedShows
  <2> HIDE DEF t
  <2>3. t \in Screens /\ RegionOf(t) /\ SavedOK(t) BY <1>4, <2>2 DEF Like, RegionOf, SavedOK
  <2>4. u.cells = t.cells BY <1>1, <2>3, Sets
  <2>5. ScreenOK(u) BY <1>1, <2>3, Placed
  <2>6. Do(u) BY <1>5 DEF InsertBlanks, Sequence, t
  <2> HIDE DEF u
  <2>7. screen'.cells = t.cells BY <2>4, <2>5, <2>6, Doing
  <2>8. t.cells \in [Cells -> Inks] BY <2>3 DEF Screens
  <2>9. t.cells = inserted(n) BY <2>2, <2>8
  <2> QED BY <2>7, <2>9
<1>6. ASSUME NEW n \in 0 .. end - here, DeleteChars(n) PROVE screen'.cells = deleted(n)
  <2> DEFINE m == IF X + n < cols THEN cols - X - n ELSE 0  w == cols - n
             t == Shifts(m, Still, X + n, 1, -n)  u == set_cursor_pos(t, w, Y)
             r == Blanks(n, u)  z == set_cursor_pos(r, X, Y)
  <2>1. n \in Nat /\ X + n <= cols BY <1>1, <1>3
  <2>2. m \in Nat /\ X + n + m = cols /\ w \in Int /\ w >= 0 /\ w <= cols BY <1>1, <2>1
  <2>3. Do(z) BY <1>6 DEF DeleteChars, Sequence
  <2> HIDE DEF m
  <2>4. /\ Like(t, Still)
        /\ \A i \in Cells : t.cells[i] = IF i \in here .. here + m - 1 THEN g[i + n] ELSE g[i]
    <3>1. m = 0 \/ X + n + m <= cols BY <1>1, <2>2
    <3>2. /\ Like(t, Still)
          /\ \A i \in Cells : t.cells[i] = IF i \in At(X, Y) .. At(X, Y) + m - 1
                                           THEN Still.cells[i + n] ELSE Still.cells[i]
      <4>1. X \in Nat /\ n \in Nat /\ m \in Nat /\ Still \in Screens /\ Y \in Nat /\ Y < rows
        BY <1>1, <1>2, <2>1, <2>2
      <4> QED BY <3>1, <4>1, ShiftsLeft
    <3> HIDE DEF t
    <3> QED BY <1>2, <1>3, <3>2
  <2> HIDE DEF t
  <2>5. t \in Screens /\ RegionOf(t) /\ SavedOK(t) /\ t.scroll_enabled = FALSE
    BY <1>2, <1>4, <2>4 DEF Like, RegionOf, SavedOK
  <2>6. /\ Like(u, t) /\ u.cells = t.cells /\ u.y = Y
        /\ u.x = IF w >= cols THEN cols - 1 ELSE w
    <3>1. /\ Like(u, t) /\ u.cells = t.cells
          /\ u.x = (IF w < 0 THEN 0 ELSE IF w >= cols THEN cols - 1 ELSE w)
          /\ u.y = (IF Y < 0 THEN 0 ELSE IF Y >= rows THEN rows - 1 ELSE Y)
      <4> HIDE DEF w
      <4> QED BY <1>1, <2>2, <2>5, Sets
    <3> HIDE DEF u, w
    <3> QED BY <1>1, <2>2, <3>1, Sized
  <2>7. ScreenOK(u) BY <1>1, <2>2, <2>5, Placed
  <2> HIDE DEF u
  <2>8. u \in Screens /\ OnRow(u) /\ RegionOf(u) /\ u.scroll_enabled = FALSE
    BY <2>5, <2>6, <2>7 DEF ScreenOK, Like
  <2>9. Styled(u, Space) = sp BY <1>2, <2>8, StyledInk, Sized
  <2>10. u.x < cols /\ u.y < rows /\ u.x + n <= cols BY <1>1, <2>1, <2>2, <2>6
  <2> DEFINE p == At(u.x, u.y)
  <2>11. \A i \in Cells : r.cells[i] = IF i \in p .. p + n - 1 THEN sp ELSE t.cells[i]
    <3>1. \A i \in Cells : r.cells[i] = IF i \in p .. p + n - 1 THEN Styled(u, Space) ELSE u.cells[i]
      BY <2>1, <2>8, <2>10, BlanksFill
    <3> QED BY <2>6, <2>9, <3>1
  <2>12. p \in Nat /\ (n > 0 => p = end - n)
    <3>1. u.x \in Nat /\ u.y \in Nat /\ Y * cols \in Nat BY <1>1, <2>8, Sized DEF Screens
    <3>2. p \in Nat BY <1>1, <2>6, <3>1 DEF At
    <3>3. n > 0 => u.x = cols - n BY <1>1, <2>1, <2>6
    <3>4. end = Y * cols + cols BY <1>3 DEF At
    <3> QED BY <1>1, <2>1, <2>6, <3>1, <3>2, <3>3, <3>4 DEF At
  <2>13. Like(r, u) BY <2>1, <2>8, BlanksKeep
  <2> HIDE DEF p, r
  <2>14. r \in Screens BY <2>13 DEF Like
  <2>15. z.cells = r.cells BY <1>1, <2>14, Sets
  <2>16. ScreenOK(z) BY <1>1, <2>1, <2>7, BlanksPlaced DEF r
  <2> HIDE DEF z
  <2>17. screen'.cells = r.cells BY <2>3, <2>15, <2>16, Doing
  <2>18. r.cells \in [Cells -> Inks] BY <2>14 DEF Screens
  <2>19. ASSUME NEW i \in Cells
         PROVE  r.cells[i] = IF i \in here .. end - 1
                             THEN IF i + n < end THEN g[i + n] ELSE sp ELSE g[i]
    <3>1. i \in Nat BY Sized, CellPlace
    <3>2. end = here + m + n BY <1>1, <1>3, <2>1, <2>2
    <3>3. i \in p .. p + n - 1 <=> i \in here .. end - 1 /\ ~(i + n < end)
      <4>1. CASE n = 0 BY <1>3, <2>12, <3>1, <4>1
      <4>2. CASE n > 0 BY <1>3, <2>1, <2>2, <2>12, <3>1, <3>2, <4>2
      <4> QED BY <2>1, <4>1, <4>2
    <3>4. i \in here .. here + m - 1 <=> i \in here .. end - 1 /\ i + n < end
      BY <1>3, <2>1, <2>2, <3>1, <3>2
    <3> QED BY <2>4, <2>11, <3>3, <3>4
  <2>20. r.cells = deleted(n) BY <2>18, <2>19
  <2> QED BY <2>17, <2>20
<1>7. ASSUME inserts, screen.x < cols
      PROVE  /\ Like(Room, screen) /\ Room.x = X /\ Room.y = Y /\ ScreenOK(Room)
             /\ screen \in Screens /\ Room.cells \in [Cells -> Inks]
             /\ \A i \in Cells : Room.cells[i] = IF i \in here + 1 .. end - 1 THEN g[i - 1] ELSE g[i]
  <2>1. screen \in Screens /\ X = screen.x BY <1>7, SequenceReads
  <2>2. Room = Shifts(cols - X, screen, cols - 1, -1, 1) BY <1>7 DEF Room
  <2>3. LET t == Shifts(cols - X, screen, cols - 1, -1, 1)
        IN  \A i \in Cells : t.cells[i] = IF i \in At(X, Y) + 1 .. At(cols, Y) - 1
                                          THEN screen.cells[i - 1] ELSE screen.cells[i]
    BY <1>1, <2>1, ShiftsRight
  <2>4. Like(Room, screen) /\ Room.x = screen.x /\ Room.y = screen.y /\ ScreenOK(Room) BY RoomMade
  <2>5. Room.cells \in [Cells -> Inks] BY <2>4 DEF Like, Screens
  <2> QED BY <1>1, <1>3, <2>1, <2>2, <2>3, <2>4, <2>5 DEF g
<1>8. \A i \in Cells : i \in Nat /\ (i \in here .. end - 1 <=> i = here \/ i \in here + 1 .. end - 1)
  <2>1. \A i \in Cells : i \in Nat BY Sized, CellPlace
  <2> QED BY <1>1, <1>3, <2>1
<1>9. ASSUME inserts, screen.x < cols, Unprintable PROVE screen'.cells = opened
  <2>1. Do(Room) BY <1>9 DEF Unprintable, Sequence
  <2>2. screen'.cells = Room.cells BY <1>7, <1>9, <2>1, Doing
  <2>3. \A i \in Cells : Room.cells[i] = IF i \in here .. end - 1
                                          THEN g[IF i = here THEN i ELSE i - 1] ELSE g[i]
    <3>1. here \notin here + 1 .. end - 1 BY <1>3
    <3> QED BY <1>7, <1>8, <1>9, <3>1
  <2> QED BY <1>7, <1>9, <2>2, <2>3
<1>10. ASSUME inserts, screen.x < cols, NEW c \in Chars, PrintChar(c) PROVE screen'.cells = shown(c)
  <2> DEFINE t == raw_putchar(Room, c)
  <2>1. Do(t) BY <1>10 DEF PrintChar, Sequence
  <2>2. Room \in Screens /\ Room.x < cols /\ Room.y < rows BY <1>1, <1>7, <1>10 DEF Like
  <2>3. ~Wraps(Room) /\ PutX(Room) = X /\ PutY(Room) = Y
    BY <1>1, <1>7, <1>10, <2>2 DEF Wraps, PutX, PutY
  <2>4. \A i \in Cells : t.cells[i] = IF i = At(X, Y) THEN Styled(Room, c) ELSE Room.cells[i]
    BY <1>1, <2>2, <2>3, Putchar
  <2>5. Styled(Room, c) = Styled(screen, c) BY <1>7, <1>10, <2>2, StyledInk
  <2>6. ScreenOK(t)
    <3>1. Room.scroll_enabled = TRUE BY <1>7, <1>10 DEF Like, TermInv
    <3>2. 0 \in Nat OBVIOUS
    <3> QED BY <1>7, <1>10, <3>1, <3>2, Typing
  <2> HIDE DEF t
  <2>7. screen'.cells = t.cells BY <2>1, <2>6, Doing
  <2>8. t.cells \in [Cells -> Inks] BY <2>6 DEF ScreenOK, Screens
  <2>9. \A i \in Cells : t.cells[i] = IF i \in here .. end - 1
                                       THEN IF i = here THEN Styled(screen, c) ELSE g[i - 1] ELSE g[i]
    <3>1. here \in here .. end - 1 BY <1>1, <1>3
    <3> QED BY <1>3, <1>7, <1>8, <1>10, <2>4, <2>5, <3>1
  <2> QED BY <2>7, <2>8, <2>9
<1> QED BY <1>5, <1>6, <1>9, <1>10

(* Line feeds, movements, text and scrolling, case by case.                *)
LEMMA RegionIsHeld == TermInv => RegionHolds
<1> SUFFICES ASSUME TermInv PROVE RegionHolds OBVIOUS
<1> DEFINE T == screen.top  B == screen.bottom
           kept == \A i \in Cells : i \div cols \notin T .. B - 1 => screen'.cells[i] = screen.cells[i]
           held == screen.y \in T .. B - 1 /\ cols >= rows => screen'.y \in T .. B - 1
<1>1. /\ X \in Nat /\ Y \in Nat /\ Y \in Int /\ X \in Int /\ screen \in Screens
      /\ (screen.y < rows => Y = screen.y) /\ screen.y \in Nat
      /\ Still.cells = screen.cells /\ ScreenOK(Still) /\ Still \in Screens
      /\ Still.top = T /\ Still.bottom = B /\ rows \in Nat
  <2>1. X \in Nat /\ Y \in Nat BY SequenceReads
  <2>2. X \in Int /\ Y \in Int BY <2>1
  <2> QED BY <2>2, SequenceReads, Sized
<1>2. RegionOf(screen) /\ SavedOK(screen) BY DEF TermInv, ScreenOK
<1>3. T \in Nat /\ B \in Nat /\ B <= rows
  <2>1. T \in 0 .. rows /\ B \in 0 .. rows BY <1>1 DEF Screens
  <2> QED BY <2>1, Sized
<1>4. ASSUME NEW s \in Screens, NEW a \in Int, NEW d \in Int, RegionOf(s), SavedOK(s),
             Do(set_cursor_pos(s, a, d))
      PROVE  screen'.cells = s.cells /\ (d \in 0 .. rows - 1 => screen'.y = d)
  <2> DEFINE u == set_cursor_pos(s, a, d)
  <2>1. /\ u.cells = s.cells
        /\ u.y = (IF d < 0 THEN 0 ELSE IF d >= rows THEN rows - 1 ELSE d)
    BY <1>4, Sets
  <2>2. ScreenOK(u) BY <1>4, Placed
  <2> HIDE DEF u
  <2>3. screen'.cells = u.cells /\ screen'.y = u.y BY <1>4, <2>2, Doing DEF u
  <2> QED BY <1>1, <2>1, <2>3
<1>5. ASSUME NEW x \in {0, X}, LineFeed(x) PROVE kept /\ held
  <2> DEFINE t == scroll(screen)  y1 == Y + 1
  <2>1. /\ Like(t, screen)
        /\ \A i \in Cells : i \div cols \notin T .. B - 1 => t.cells[i] = screen.cells[i]
    BY <1>1, <1>2, Scrolling
  <2>2. IF Y = B - 1 THEN Do(set_cursor_pos(t, x, Y)) ELSE Do(set_cursor_pos(screen, x, y1))
    BY <1>5 DEF LineFeed, Sequence
  <2>3. x \in Int /\ y1 \in Int BY <1>1
  <2> HIDE DEF t, y1
  <2>4. t \in Screens /\ RegionOf(t) /\ SavedOK(t) BY <1>2, <2>1 DEF Like, RegionOf, SavedOK
  <2>5. CASE Y = B - 1
    <3>1. screen'.cells = t.cells /\ (Y \in 0 .. rows - 1 => screen'.y = Y)
      BY <1>1, <1>4, <2>2, <2>3, <2>4, <2>5
    <3> HIDE DEF T, B
    <3> QED BY <1>1, <1>3, <2>1, <2>5, <3>1
  <2>6. CASE Y # B - 1
    <3>1. screen'.cells = screen.cells /\ (y1 \in 0 .. rows - 1 => screen'.y = y1)
      BY <1>1, <1>2, <1>4, <2>2, <2>3, <2>6
    <3> HIDE DEF T, B
    <3> QED BY <1>1, <1>3, <2>6, <3>1 DEF y1
  <2> QED BY <2>5, <2>6
<1>6. ASSUME ReverseIndex PROVE kept /\ held
  <2> DEFINE t == revscroll(screen)  y1 == Y - 1
  <2>1. /\ Like(t, screen)
        /\ \A i \in Cells : i \div cols \notin T .. B - 1 => t.cells[i] = screen.cells[i]
    BY <1>1, <1>2, Scrolling
  <2>2. IF Y = T THEN Do(set_cursor_pos(t, 0, Y)) ELSE Do(set_cursor_pos(screen, 0, y1))
    BY <1>6 DEF ReverseIndex, Sequence
  <2>3. 0 \in Int /\ y1 \in Int BY <1>1
  <2> HIDE DEF t, y1
  <2>4. t \in Screens /\ RegionOf(t) /\ SavedOK(t) BY <1>2, <2>1 DEF Like, RegionOf, SavedOK
  <2>5. CASE Y = T
    <3>1. screen'.cells = t.cells /\ (Y \in 0 .. rows - 1 => screen'.y = Y)
      BY <1>1, <1>4, <2>2, <2>3, <2>4, <2>5
    <3> HIDE DEF T, B
    <3> QED BY <1>1, <1>3, <2>1, <2>5, <3>1
  <2>6. CASE Y # T
    <3>1. screen'.cells = screen.cells /\ (y1 \in 0 .. rows - 1 => screen'.y = y1)
      BY <1>1, <1>2, <1>4, <2>2, <2>3, <2>6
    <3> HIDE DEF T, B
    <3> QED BY <1>1, <1>3, <2>6, <3>1 DEF y1
  <2> QED BY <2>5, <2>6
<1>7. ASSUME NEW n \in Values, NEW x \in {0, X}, CursorUp(n, x) \/ CursorDown(n, x) PROVE held
  <2>1. n \in Nat /\ x \in Int BY <1>1, TermNumbers DEF Values
  <2>2. Up(Y, n) \in Int /\ Down(Y, n) \in Int BY <1>1, <1>3, <2>1, Sized DEF Up, Down
  <2>3. Do(set_cursor_pos(screen, x, Up(Y, n))) \/ Do(set_cursor_pos(screen, x, Down(Y, n)))
    BY <1>7 DEF CursorUp, CursorDown, Sequence
  <2>4. Y \in T .. B - 1 => Up(Y, n) \in T .. B - 1 /\ Down(Y, n) \in T .. B - 1
    BY <1>1, <1>3, <2>1, Sized DEF Up, Down
  <2>5. \E d \in Int : /\ d \in 0 .. rows - 1 => screen'.y = d
                       /\ Y \in T .. B - 1 => d \in T .. B - 1
    BY <1>1, <1>2, <1>4, <2>1, <2>2, <2>3, <2>4
  <2> HIDE DEF T, B
  <2> QED BY <1>1, <1>3, <2>5
<1>8. ASSUME NEW c \in Chars, NEW width \in 0 .. 2, PrintChar(c) \/ PrintUnicode(c, width)
      PROVE  held
  BY <1>8, TypingKeeps
<1>9. ASSUME NEW n \in Values, DeleteLines(n) PROVE kept
  <2> DEFINE t == Scrolls(n, Still)
  <2>1. n \in Nat BY TermNumbers DEF Values
  <2>2. RegionOf(Still) /\ OnRow(Still) /\ SavedOK(Still) /\ Still.x <= cols BY <1>1 DEF ScreenOK
  <2>3. /\ Like(t, Still) /\ t.x = Still.x /\ t.y = Still.y
        /\ \A i \in Cells : i \div cols \notin T .. B - 1 => t.cells[i] = screen.cells[i]
    BY <1>1, <2>1, <2>2, ScrollsKeep
  <2>4. Do(t) BY <1>9 DEF DeleteLines, Sequence
  <2> HIDE DEF t
  <2>5. ScreenOK(t) BY <2>2, <2>3 DEF ScreenOK, SavedOK, Like, OnRow, RegionOf
  <2>6. screen'.cells = t.cells BY <2>4, <2>5, Doing
  <2> QED BY <2>3, <2>6
<1> QED BY <1>5, <1>6, <1>7, <1>8, <1>9 DEF RegionHolds, Feeds, Moves, Types

(* Control sequences erase and shift exactly the cells that they name, and *)
(* keep the cursor and what scrolls inside the region, on any screen.      *)
THEOREM SequencesAreExact == TermSpec => SequencesExact
<1>1. TermInv => TermTypeOK /\ MarginsValid
  <2> SUFFICES ASSUME TermInv PROVE TermTypeOK /\ MarginsValid OBVIOUS
  <2>1. screen \in Screens /\ screen.x <= cols /\ OnRow(screen) /\ SavedOK(screen) /\ RegionOf(screen)
    BY DEF TermInv, ScreenOK
  <2>2. /\ screen.x \in 0 .. cols /\ screen.y \in Nat
        /\ screen.saved.x \in 0 .. cols /\ screen.saved.y \in Nat
    BY <2>1, Sized DEF Screens, Spots, SavedOK
  <2>3. \A i \in Cells : screen.cells[i].c \in Chars BY <2>1 DEF Screens, Inks
  <2> QED BY <2>1, <2>2, <2>3 DEF SavedOK, TermTypeOK, MarginsValid, OnRow, RegionOf, TermInv
<1>2. TermInv => [EraseExact /\ ShiftExact /\ RegionHolds]_termvars
  BY EraseIsExact, ShiftIsExact, RegionIsHeld
<1>3. TermInv /\ [TermNext]_termvars => [LeavesScreen]_termvars
  <2> SUFFICES ASSUME TermInv, [TermNext]_termvars PROVE LeavesScreen BY DEF LeavesScreen
  <2>1. screen.bottom \in 0 .. rows /\ screen.y \in Nat BY DEF TermInv, ScreenOK, Screens
  <2>2. TermInv' /\ (RestoreScreen \/ Stays(screen, screen')) BY TermInvNext
  <2>3. screen'.y \in Nat BY <2>2 DEF TermInv, ScreenOK, Screens
  <2> QED BY <2>1, <2>2, <2>3, Sized DEF LeavesScreen, Stays
<1>4. TermInv /\ [TermNext]_termvars => TermInv' BY TermInvNext
<1> QED BY <1>1, <1>2, <1>3, <1>4, TermInvInit, PTL DEF TermSpec, SequencesExact
=============================================================================
