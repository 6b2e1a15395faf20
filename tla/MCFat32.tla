------------------------------ MODULE MCFat32 -------------------------------
(* Instances of Fat32 for TLC. *)
EXTENDS Fat32

MCInputs == {<<"a">>, <<"d">>, <<"..", "a">>}
=============================================================================
