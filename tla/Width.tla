-------------------------------- MODULE Width -------------------------------
(***************************************************************************)
(* How many columns a character of UTF-8 takes: unicode_to_cp437, bisearch *)
(* and mk_wcwidth of kernel/src/flanterm.c, and what flanterm_putchar does *)
(* with their results.                                                     *)
(*                                                                         *)
(* A character with a glyph is shown by it.  Any other one is shown by a   *)
(* square and blanks, as many as it is wide; a binary search in a table of *)
(* intervals finds those that take no column.                              *)
(***************************************************************************)
EXTENDS Integers, Sequences

CONSTANTS
    CodePoints,     \* 0 .. the greatest one
    Tables,         \* the tables to search: sequences of intervals
    Cp437,          \* the code points with a glyph
    Controls, Wide  \* those below 32 and from 0x7f to 0x9f, and those of two columns

ASSUME WidthNumbers ==
    /\ CodePoints \subseteq Nat /\ 0 \in CodePoints
    /\ \A t \in Tables : t # <<>> /\ t \in Seq([first : CodePoints, last : CodePoints])

VARIABLES
    table, ucs,
    min, max,       \* the part of the table that is left, counted from 1
    pc,             \* "cp437", "width", "search", "found", "missing", "shown"
    glyph,          \* whether the character has one
    columns         \* characters printed

vars == <<table, ucs, min, max, pc, glyph, columns>>

-----------------------------------------------------------------------------
Init ==
    /\ table \in Tables /\ ucs \in CodePoints /\ min = 1 /\ max = Len(table)
    /\ pc = "cp437" /\ glyph = FALSE /\ columns = 0

unicode_to_cp437 ==
    /\ pc = "cp437" /\ glyph' = (ucs \in Cp437)
    /\ IF glyph' THEN pc' = "shown" /\ columns' = 1 ELSE pc' = "width" /\ UNCHANGED columns
    /\ UNCHANGED <<table, ucs, min, max>>

(* The start of mk_wcwidth, and the first test of bisearch. *)
mk_wcwidth ==
    /\ pc = "width"
    /\ IF ucs = 0 THEN pc' = "shown" /\ columns' = 0
       ELSE IF ucs \in Controls THEN pc' = "shown" /\ columns' = 1
       ELSE /\ UNCHANGED columns
            /\ pc' = IF ucs < table[1].first \/ ucs > table[Len(table)].last THEN "missing"
                     ELSE "search"
    /\ UNCHANGED <<table, ucs, min, max, glyph>>

(* A search that drops the middle's neighbour as well. *)
bisearch_far ==
    LET mid == (min + max) \div 2
    IN  /\ pc = "search"
        /\ IF max < min THEN pc' = "missing" /\ UNCHANGED <<min, max>>
           ELSE IF ucs > table[mid].last THEN min' = mid + 2 /\ UNCHANGED <<max, pc>>
           ELSE IF ucs < table[mid].first THEN max' = mid - 1 /\ UNCHANGED <<min, pc>>
           ELSE pc' = "found" /\ UNCHANGED <<min, max>>
        /\ UNCHANGED <<table, ucs, glyph, columns>>

(* One turn of the loop.  The code counts the table from 0. *)
bisearch ==
    LET mid == (min + max - 2) \div 2 + 1
    IN  /\ pc = "search"
        /\ IF max < min THEN pc' = "missing" /\ UNCHANGED <<min, max>>
           ELSE IF ucs > table[mid].last THEN min' = mid + 1 /\ UNCHANGED <<max, pc>>
           ELSE IF ucs < table[mid].first THEN max' = mid - 1 /\ UNCHANGED <<min, pc>>
           ELSE pc' = "found" /\ UNCHANGED <<min, max>>
        /\ UNCHANGED <<table, ucs, glyph, columns>>

(* The square, and the blanks after it. *)
Replace ==
    /\ pc \in {"found", "missing"} /\ pc' = "shown"
    /\ columns' = (IF pc = "found" THEN 0 ELSE IF ucs \in Wide THEN 2 ELSE 1)
    /\ UNCHANGED <<table, ucs, min, max, glyph>>

Next == unicode_to_cp437 \/ mk_wcwidth \/ bisearch \/ Replace

Spec == Init /\ [][Next]_vars

-----------------------------------------------------------------------------
Inside == \E i \in 1 .. Len(table) : ucs \in table[i].first .. table[i].last
Sorted ==
    \A i \in 1 .. Len(table) : table[i].first <= table[i].last
                               /\ \A j \in 1 .. i - 1 : table[j].last < table[i].first

(* In a table whose intervals are in order and do not overlap, a character *)
(* without a glyph takes no column exactly if it is NUL or if an interval  *)
(* holds it and it is no control character, and two exactly if it is wide. *)
ColumnsExact ==
    pc = "shown" /\ Sorted =>
        columns = IF glyph \/ ucs \in Controls \ {0} THEN 1
                  ELSE IF ucs = 0 \/ Inside THEN 0
                  ELSE IF ucs \in Wide THEN 2 ELSE 1

(* The part of the table that is left lies in the table, and is empty at   *)
(* most once.                                                              *)
SearchInside == pc = "search" => 1 <= min /\ max <= Len(table) /\ min <= max + 1

(* A turn of the loop that does not end it leaves less of the table. *)
Shrinks == pc = "search" /\ pc' = "search" => max' - min' < max - min

(* bisearch and mk_wcwidth: a character takes the columns that a reader of *)
(* a sorted table would give it; and in any table, sorted or not, the      *)
(* search reads only intervals that there are and comes to an end, as each *)
(* turn leaves less of it.                                                 *)
SearchExact == [](ColumnsExact /\ SearchInside) /\ [][Shrinks]_vars
=============================================================================
