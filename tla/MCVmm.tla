------------------------------- MODULE MCVmm -------------------------------
(***************************************************************************)
(* Vmm with tables of 8 entries: 4 GB are 64 pages, the higher half starts *)
(* in the middle of the 4096 virtual pages, and the kernel's range starts  *)
(* 2 GB, 32 pages, below their end.                                        *)
(***************************************************************************)
EXTENDS Vmm

MCFrames == 0 .. 63

(* Not present, but not 0 either. *)
Stale == [f \in Frames |-> [x \in Indices |-> Entry(x, FALSE)]]

(* Two frames hold entries that look present. *)
Used == [Stale EXCEPT ![3][0] = Entry(5, TRUE), ![40][1] = Entry(5, TRUE)]

MCRams == {Stale, Used}

(* Frames in the first 2 GB, in the second, and fewer than vmm_init needs. *)
MCPools == {1 .. 31, 32 .. 63, 32 .. 48, {}}

(* A page of the direct map, and one that vmm_init leaves alone. *)
MCRequests == {HH + 3, 200}

MCTargets == {3, 70}

MCWatched ==
    {0, 1, 31, 32, 63, 64, 200, 201, HH, HH + 3, HH + 63, HH + 64, TOP - 1, TOP, TOP + 1, V_PAGES - 1}
=============================================================================
