------------------------------ MODULE FileTree ------------------------------
(***************************************************************************)
(* What the file commands promise: a tree in which a path is absent, a     *)
(* directory or a file with its contents.  A command changes one path.     *)
(***************************************************************************)
EXTENDS Naturals, Sequences

CONSTANTS
    Paths,      \* sequences of names; <<>> is the root
    Texts       \* what may be written

VARIABLES
    tree,       \* tree[p]: Absent, Dir or the contents of a file
    shown       \* what the last command printed of a file

Absent == <<"absent">>
Dir == <<"dir">>
File(text) == <<"file", text>>

IsFile(p) == tree[p][1] = "file"
Parent(p) == SubSeq(p, 1, Len(p) - 1)
Children(p) == {q \in Paths : q # <<>> /\ Parent(q) = p /\ tree[q] # Absent}

Init ==
    /\ tree = [p \in Paths |-> IF p = <<>> THEN Dir ELSE Absent]
    /\ shown = <<>>

OthersKept(p) == \A q \in Paths \ {p} : tree'[q] = tree[q]
Put(p, node) == tree'[p] = node

(* A new file is empty, a new directory has no entries. *)
Create(p) ==
    /\ p # <<>> /\ tree[Parent(p)] = Dir /\ tree[p] = Absent
    /\ Put(p, Dir) \/ Put(p, File(<<>>))

Remove(p) ==
    /\ p # <<>> /\ tree[p] # Absent /\ Children(p) = {}
    /\ Put(p, Absent)

Write(p, text) == IsFile(p) /\ Put(p, File(text))

(* A write that finds the volume full has replaced some leading bytes. *)
WriteFails(p, text) ==
    /\ IsFile(p)
    /\ \E n \in 0 .. Len(text) :
          Put(p, File([i \in 1 .. Len(tree[p][2]) |->
                         IF i <= n THEN text[i] ELSE tree[p][2][i]]))

Cat(p) == IsFile(p) /\ shown' = tree[p][2] /\ tree' = tree

(* A command that prints no file. *)
Silent == tree' = tree /\ shown' = <<>>

Next ==
    \/ Silent
    \/ \E p \in Paths :
          \/ Cat(p)
          \/ /\ shown' = <<>> /\ OthersKept(p)
             /\ \/ Create(p) \/ Remove(p)
                \/ \E text \in Texts : Write(p, text) \/ WriteFails(p, text)

Spec == Init /\ [][Next]_<<tree, shown>>
=============================================================================
