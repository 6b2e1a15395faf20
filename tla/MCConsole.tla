----------------------------- MODULE MCConsole ------------------------------
(* Instances of Console for TLC. *)
EXTENDS Console

MCOthers == {"Enter", "Backspace"}
MCExtended == {"Left", "Right", "Delete"}
MCShifted == [k \in {"x"} \cup MCOthers |-> IF k = "x" THEN "X" ELSE k]
MCPrintable == {"x", "X"}
MCOutputs == {<<"o", LF>>, <<"o", "o", "o", "o", "o", "o", "o", LF>>}

(* A user who edits lines and waits for the echo, and one who types ahead. *)
MCSessions == {
    [keys |-> {"x", "Shift"} \cup MCOthers \cup MCExtended, releases |-> {"Shift"}, burst |-> 0],
    [keys |-> {"x", "Right", "Shift"}, releases |-> {"Right", "Shift"}, burst |-> 2]}
=============================================================================
