------------------------------- MODULE MCTerm -------------------------------
(***************************************************************************)
(* Control sequences on a screen full of different characters, so that     *)
(* every move of a cell shows.  0 is the space, and the greatest character *)
(* is typed.                                                               *)
(***************************************************************************)
EXTENDS Term

MCText == [i \in Cells |-> i + 1]
=============================================================================
