------------------------------ MODULE MCMemory ------------------------------
(* Instances of Memory for TLC: page tables of two pages, programs of one  *)
(* and two pages, device memory mapped below the program.                  *)
EXTENDS Memory

MCImages == {<<1>>, <<1, 2>>}

(* A page of the VGA buffer and one of a framebuffer above 1 MiB. *)
ScreenMaps == {<<0, 100, 1>>, <<0, 200, 1>>}

(* Less than three processes of the largest size take: frames run out in   *)
(* the middle of exec and sbrk, at every point, and exits make them enough *)
(* again.                                                                  *)
TightRam == 11 .. 30
=============================================================================
