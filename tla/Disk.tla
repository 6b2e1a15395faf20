-------------------------------- MODULE Disk --------------------------------
(***************************************************************************)
(* What the sector I/O of the filesystem promises to its callers when the  *)
(* drive may fail.  "stored" is what the platters hold, "seen" what a      *)
(* read returns.  The two differ only for a sector whose last write did    *)
(* not reach the platters; such a sector settles, once, on one of its two  *)
(* values, and no sector ever shows a third one.                           *)
(***************************************************************************)
CONSTANTS
    Sectors,    \* sectors the filesystem reads and writes
    Data,       \* contents of a sector
    Silent      \* TRUE: the drive may lose a write that it does not refuse

VARIABLES stored, seen, out

vars == <<stored, seen, out>>

NoResult == [op |-> "none"]
FlushDone == [op |-> "flush"]
ReadOk(l, d) == [op |-> "read", lba |-> l, ok |-> TRUE, data |-> d]
ReadFailed(l) == [op |-> "read", lba |-> l, ok |-> FALSE]
WriteDone(l, ok) == [op |-> "write", lba |-> l, ok |-> ok]

(* Sector l keeps its two values, or settles on one of them. *)
Kept(l) ==
    \/ stored'[l] = stored[l] /\ seen'[l] = seen[l]
    \/ stored'[l] = seen'[l] /\ seen'[l] \in {stored[l], seen[l]}

Contents == [Sectors -> Data]

Typed == stored' \in Contents /\ seen' \in Contents

Init == stored \in Contents /\ seen = stored /\ out = NoResult

Read(l) ==
    /\ Typed
    /\ \A k \in Sectors : Kept(k)
    /\ out' \in {ReadOk(l, seen'[l]), ReadFailed(l)}

(* A write that is refused is not stored, but it is still seen. *)
Write(l, d) ==
    /\ Typed
    /\ \A k \in Sectors \ {l} : Kept(k)
    /\ seen'[l] = d
    /\ \/ stored'[l] = d /\ out' = WriteDone(l, TRUE)
       \/ stored'[l] = stored[l] /\ out' = WriteDone(l, FALSE)
       \/ Silent /\ stored'[l] = stored[l] /\ out' = WriteDone(l, TRUE)

(* Writing the second FAT, which nothing reads, may settle sectors too. *)
Flush ==
    /\ Typed
    /\ \A k \in Sectors : Kept(k)
    /\ out' = FlushDone

Next ==
    \/ \E l \in Sectors : Read(l)
    \/ \E l \in Sectors, d \in Data : Write(l, d)
    \/ Flush

Spec == Init /\ [][Next]_vars

=============================================================================
