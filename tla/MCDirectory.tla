---------------------------- MODULE MCDirectory -----------------------------
(* Instances of Directory for TLC. *)
EXTENDS Directory

(* An 8.3 name (F), two names with one LFN entry (A, B) and a directory    *)
(* with an 8.3 name (D).                                                   *)
ShortNames == [n \in {"F", "A", "B", "D"} |-> IF n \in {"A", "B"} THEN 1 ELSE 0]
(* A name with two LFN entries besides one with a single entry. *)
LongNames == [n \in {"F", "L"} |-> IF n = "L" THEN 2 ELSE 0]
=============================================================================
