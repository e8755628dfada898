---------------------------- MODULE AddressSpace ----------------------------
(***************************************************************************)
(* What mm/vmm.c promises to its callers: an address space in which one    *)
(* call changes the translation of one page, as long as the page tables    *)
(* can be trusted.                                                         *)
(***************************************************************************)
EXTENDS Integers, FiniteSets

CONSTANTS
    Virtual,        \* the virtual pages that are watched
    Physical,       \* the physical pages a translation may name
    None            \* no translation

VARIABLES space, trusted

Empty == [v \in Virtual |-> None]

Init == space = Empty /\ trusted = TRUE

(* One page is mapped, mapped elsewhere, or unmapped. *)
Change ==
    /\ trusted
    /\ DOMAIN space' = Virtual
    /\ \A v \in Virtual : space'[v] \in Physical \cup {None}
    /\ Cardinality({v \in Virtual : space'[v] # space[v]}) <= 1
    /\ UNCHANGED trusted

(* Memory ran out, or a table turned out not to be one. *)
Lose ==
    /\ trusted
    /\ trusted' = FALSE
    /\ space' = Empty

Next == Change \/ Lose

Spec == Init /\ [][Next]_<<space, trusted>>
=============================================================================
