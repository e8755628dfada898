------------------------------- MODULE Bitmap -------------------------------
(***************************************************************************)
(* The bit operations of klibc/bitmap.c, and their static twins in         *)
(* mm/pmm.c, on an array of machine words.  A word is the set of the       *)
(* positions of its 1 bits.                                                *)
(*                                                                         *)
(* The C code builds a mask as `1 << (idx % 64)`.  The literal 1 is a      *)
(* 32-bit int, so the shift count is taken modulo the width of an int, and *)
(* the result is sign-extended before it meets the 64-bit word.  Hence     *)
(* indices INT_BITS apart in one word share a mask, and the mask of the    *)
(* int's sign bit covers the whole upper part of the word.                 *)
(***************************************************************************)
EXTENDS Integers, FiniteSets, FiniteSetsExt

CONSTANTS
    BITS_PER_BLOCK,     \* bits in a word of a bitmap (64)
    INT_BITS            \* bits in the int that is shifted (32)

ASSUME BitmapAssumption ==
    /\ INT_BITS \in Nat \ {0}
    /\ BITS_PER_BLOCK = 2 * INT_BITS

ENOMEM == -1            \* status.h

Bits == 0 .. BITS_PER_BLOCK - 1

Block(idx) == idx \div BITS_PER_BLOCK

(* The value of `1 << (idx % BITS_PER_BLOCK)` once sign-extended. *)
Mask(idx) ==
    LET shift == idx % INT_BITS
    IN  IF shift = INT_BITS - 1 THEN shift .. BITS_PER_BLOCK - 1 ELSE {shift}

bitmap_test_bit(map, idx) == map[Block(idx)] \cap Mask(idx) # {}

(* The masks that a loop over the indices S ors into, or clears from, a word. *)
MaskIn(word, S) == UNION {Mask(idx) : idx \in {i \in S : Block(i) = word}}

SetBits(map, S) == [w \in DOMAIN map |-> map[w] \cup MaskIn(w, S)]

ClearBits(map, S) == [w \in DOMAIN map |-> map[w] \ MaskIn(w, S)]

(* find_first_free: the rest of the start word is scanned whatever the     *)
(* bound, then whole words below the bound.                                *)
ScanRange(start, words) ==
    IF start % BITS_PER_BLOCK # 0 /\ Block(start) >= words
    THEN start .. (Block(start) + 1) * BITS_PER_BLOCK - 1
    ELSE start .. words * BITS_PER_BLOCK - 1

find_first_free(map, start, words) ==
    LET free == {idx \in ScanRange(start, words) : ~ bitmap_test_bit(map, idx)}
    IN  IF free = {} THEN ENOMEM ELSE Min(free)

(* The region check one index short, ... *)
region_check_short(map, start, count) ==
    LET used == {idx \in start .. start + count - 2 : bitmap_test_bit(map, idx)}
    IN  IF used = {} THEN 0 ELSE Min(used)

(* ... and the one that has its caller search again from the same place, ... *)
region_check_stays(map, start, count) ==
    IF \E idx \in start .. start + count - 1 : bitmap_test_bit(map, idx) THEN start ELSE 0

(* ... or from the end of the region. *)
region_check_skips(map, start, count) ==
    IF \E idx \in start .. start + count - 1 : bitmap_test_bit(map, idx) THEN start + count ELSE 0

(* is_free_region_big_enough / check_region_size: the first index in use   *)
(* of the region, or 0 when all of it is free.                             *)
is_free_region_big_enough(map, start, count) ==
    LET used == {idx \in start .. start + count - 1 : bitmap_test_bit(map, idx)}
    IN  IF used = {} THEN 0 ELSE Min(used)

(* Two indices that the masks cannot tell apart. *)
Alias(i, j) == Block(i) = Block(j) /\ Mask(i) = Mask(j)
=============================================================================
