--------------------------- MODULE MCSectorCache ----------------------------
(* Instances of SectorCache for TLC: one FAT sector (1, mirrored to 4) and *)
(* two others, so that two slots must be shared by three sectors.          *)
EXTENDS SectorCache

MCMirror == [l \in {1} |-> 4]
=============================================================================
