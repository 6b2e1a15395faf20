------------------------------ MODULE NameSet -------------------------------
(***************************************************************************)
(* What a directory promises: it is a set of names.  Creating a name adds  *)
(* it and nothing else, removing it takes it away and nothing else, either *)
(* may fail without effect, and a lookup finds exactly the names present.  *)
(***************************************************************************)
CONSTANT Texts      \* names that programs ask for
VARIABLES names, out

Result(op, ok) == [op |-> op, ok |-> ok]

Init == names = {} /\ out = Result("none", TRUE)

Create(t) ==
    /\ \/ t \notin names /\ names' = names \cup {t} /\ out' = Result("create", TRUE)
       \/ names' = names /\ out' = Result("create", FALSE)

Remove(t) ==
    /\ \/ t \in names /\ names' = names \ {t} /\ out' = Result("remove", TRUE)
       \/ names' = names /\ out' = Result("remove", FALSE)

Lookup(t) == names' = names /\ out' = Result("lookup", t \in names)

Next == \E t \in Texts : Create(t) \/ Remove(t) \/ Lookup(t)

Spec == Init /\ [][Next]_<<names, out>>
=============================================================================
