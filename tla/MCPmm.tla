------------------------------- MODULE MCPmm -------------------------------
(* Pmm on words of 8 bits, ints of 4 and pages of 4 bytes. *)
EXTENDS Pmm

Entry(first, last, type) ==
    [base |-> first * PAGE_SIZE, length |-> (last - first + 1) * PAGE_SIZE, type |-> type]

(* Usable memory in whole words, then a reserved word: nothing goes wrong. *)
Aligned == <<Entry(0, 15, "usable"), Entry(16, 23, "reserved")>>

(* The same on a bitmap with words of RAM behind it. *)
Small == <<Entry(0, 10, "usable"), Entry(11, 15, "reserved")>>

(* Usable and reserved pages share masks. *)
Unaligned ==
    <<Entry(0, 8, "usable"), Entry(9, 13, "reserved"), Entry(14, 15, "usable"), Entry(16, 23, "reserved")>>

(* A hole in the address space: usable pages that the bitmap does not cover. *)
Hole == <<Entry(0, 8, "usable"), Entry(9, 13, "reserved"), Entry(16, 17, "usable")>>

(* The first word is reserved, so *bitmap.map is not 0; the last page is usable. *)
HighOnly == <<Entry(0, 7, "reserved"), Entry(8, 15, "usable")>>

(* No entry can hold the bitmap. *)
NoRoom == <<Entry(0, 23, "reserved")>>

MCMemMaps == {Aligned, Small, Unaligned, Hole, HighOnly, NoRoom}

MCRamWords == {{}, 0 .. BITS_PER_BLOCK - 1}

MCSizes == {0, PAGE_SIZE, 2 * PAGE_SIZE + 1, 5 * PAGE_SIZE}
=============================================================================
