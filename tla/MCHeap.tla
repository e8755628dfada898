------------------------------- MODULE MCHeap -------------------------------
(* Heap on words of 4 bits, ints of 2 and blocks of 2 bytes. *)
EXTENDS Heap

MCRamWords == {{}, Bits}
=============================================================================
