----------------------------- MODULE Directory ------------------------------
(***************************************************************************)
(* A FAT32 directory: a chain of clusters of 32-byte entries in which a    *)
(* name occupies a short entry, preceded by the long-name (LFN) entries    *)
(* that spell it.  A run of entries may cross from one cluster to the      *)
(* next.  vfs serves one request at a time, so every operation is a step.  *)
(***************************************************************************)
EXTENDS Integers, Sequences, FiniteSets, FiniteSetsExt

CONSTANTS
    Names,              \* names that programs use in this directory
    LfnEntries,         \* LfnEntries[n]: long-name entries that n needs
    Dotted,             \* names that fit 8.3 and have an extension
    Dirs,               \* names that are created with mkdir
    EntriesPerCluster,
    HiddenEntries,      \* "." and ".." of a subdirectory, a volume label
    FreeClusters        \* clusters left on the volume

ASSUME DirectoryAssumption ==
    /\ LfnEntries \in [Names -> Nat]
    /\ Dirs \subseteq Names
    /\ Dotted \subseteq {n \in Names : LfnEntries[n] = 0}
    /\ EntriesPerCluster \in Nat \ {0}
    /\ HiddenEntries \in 0 .. EntriesPerCluster
    /\ FreeClusters \in Nat

VARIABLES
    dir,    \* the entries of the chain, one cluster after another
    free,   \* clusters that allocateCluster can still find
    out     \* result of the last operation

vars == <<dir, free, out>>

Result(op, ok) == [op |-> op, ok |-> ok]

-----------------------------------------------------------------------------
(* Entries.  The first byte says whether an entry is live, deleted or the  *)
(* end of the directory; a deleted entry keeps its attribute byte.  "text" *)
(* is what a live one spells: part k of name n, or, for k = 0, its short   *)
(* name.                                                                   *)

Entry(kind, text) == [state |-> "live", kind |-> kind, text |-> text]
End == [state |-> "end", kind |-> "none", text |-> <<>>]
Hidden == Entry("hidden", <<>>)
Deleted(e) == [state |-> "deleted", kind |-> e.kind, text |-> <<>>]

(* isLfnEntry looks at the attribute only. *)
IsLfn(e) == e.kind = "lfn"
IsFree(e) == e.state # "live"

(* nameToShort gives every name with a dot a "~N" tail, also one that fits *)
(* 8.3 and is therefore stored without long-name entries.                  *)
ShortText(n) == IF n \in Dotted THEN <<n, -1>> ELSE <<n, 0>>

(* The name as programs spell it, in pieces of LFN_CHARS_PER_ENTRY. *)
Text(n) ==
    IF LfnEntries[n] = 0 THEN <<<<n, 0>>>>
    ELSE [k \in 1 .. LfnEntries[n] |-> <<n, k>>]

(* The last piece of a name holds the terminator (names of a multiple of   *)
(* LFN_CHARS_PER_ENTRY characters, which have none, are left out).         *)
Terminates(text) == text[2] = LfnEntries[text[1]]

-----------------------------------------------------------------------------
(* Reading.                                                                *)

(* readDirEntry: short entries before the end, hidden ones skipped. *)
Visible(i) ==
    /\ dir[i].state = "live" /\ dir[i].kind = "short"
    /\ \A j \in 1 .. i : dir[j].state # "end"

(* The live LFN entries that readDirEntry has collected when it reaches i. *)
LfnRun(i) ==
    Max({k \in 0 .. i - 1 :
            \A j \in i - k .. i - 1 : dir[j].state = "live" /\ IsLfn(dir[j])})

(* extractLfn reads them backwards and stops at the terminator; without    *)
(* any, shortNameToString gives the short name.                            *)
EntryName(i) ==
    LET n == LfnRun(i)
        last == {k \in 1 .. n : Terminates(dir[i - k].text)}
    IN IF n = 0 THEN <<dir[i].text>>
       ELSE [k \in 1 .. IF last = {} THEN n ELSE Min(last) |-> dir[i - k].text]

Listed == {i \in 1 .. Len(dir) : Visible(i)}

(* findEntry: the first entry with the name. *)
Found(n) == {i \in Listed : EntryName(i) = Text(n)}
(* Mutation: the search for an existing name looks at no entry. *)
FoundNone(n) == {}
Existing(n) == Found(n)

Lookup(n) ==
    /\ out' = Result("lookup", Found(n) # {})
    /\ UNCHANGED <<dir, free>>

-----------------------------------------------------------------------------
(* createEntry.                                                            *)

Grown(k) == dir \o [i \in 1 .. k * EntriesPerCluster |-> End]

(* Where a run of n's entries fits in d. *)
Runs(d, n) ==
    {s \in 1 .. Len(d) - LfnEntries[n] :
        \A j \in s .. s + LfnEntries[n] : IsFree(d[j])}

(* Mutation: the last run is taken. *)
LastRun(d, n) == Max(Runs(d, n))
FirstRun(d, n) == Min(Runs(d, n))

ClusterOf(i) == (i - 1) \div EntriesPerCluster

(* d with the LFN entries of n in the slots "at", which start at s. *)
WithLfn(d, n, s, at) ==
    [i \in 1 .. Len(d) |->
        IF i \in at THEN Entry("lfn", <<n, LfnEntries[n] - (i - s)>>) ELSE d[i]]

(* d with the whole run of n. *)
Created(d, n, s) ==
    [WithLfn(d, n, s, s .. s + LfnEntries[n] - 1) EXCEPT
        ![s + LfnEntries[n]] = Entry("short", ShortText(n))]

(* The LFN entries of the run in clusters before that of the short entry. *)
Before(n, s) ==
    {i \in s .. s + LfnEntries[n] - 1 : ClusterOf(i) < ClusterOf(s + LfnEntries[n])}

(* New clusters with which the directory has room for n. *)
ClustersFor(d, n) == {k \in 0 .. free : Runs(Grown(k), n) # {}}

(* The chain is extended, a zeroed cluster at a time, until the run fits;  *)
(* the clusters stay when the volume is full before it does.               *)
CreateNoRoom(n) ==
    /\ Existing(n) = {}
    /\ ClustersFor(dir, n) = {}
    /\ dir' = Grown(free)
    /\ free' = 0
    /\ out' = Result("create", FALSE)

(* A directory needs a cluster for its own "." and ".." entries.           *)
Create(n) ==
    /\ Existing(n) = {}
    /\ ClustersFor(dir, n) # {}
    /\ LET k == Min(ClustersFor(dir, n))
           d == Grown(k)
           s == FirstRun(d, n)
       IN /\ n \in Dirs => free - k > 0
          /\ dir' = Created(d, n, s)
          /\ free' = free - k - (IF n \in Dirs THEN 1 ELSE 0)
          /\ out' = Result("create", TRUE)

(* mkdir without that cluster: the clusters that the LFN entries had       *)
(* filled are already written, the one of the short entry is not.          *)
CreateNoContent(n) ==
    /\ Existing(n) = {}
    /\ n \in Dirs
    /\ ClustersFor(dir, n) # {}
    /\ LET k == Min(ClustersFor(dir, n))
           d == Grown(k)
           s == FirstRun(d, n)
       IN /\ free = k
          /\ dir' = WithLfn(d, n, s, Before(n, s))
          /\ free' = 0
          /\ out' = Result("create", FALSE)

(* createDirectory refuses a name that exists, open does not create it. *)
CreateExisting(n) ==
    /\ Existing(n) # {}
    /\ out' = Result("create", FALSE)
    /\ UNCHANGED <<dir, free>>

-----------------------------------------------------------------------------
(* removeEntry.                                                            *)

First(i) == ClusterOf(i) * EntriesPerCluster + 1

(* The entries with the LFN attribute just below slot i, down to slot b. *)
LfnBelow(d, i, b) ==
    {j \in b .. i - 1 : \A m \in j .. i - 1 : IsLfn(d[m])}

(* Mutation: only the short entry is deleted. *)
ShortOnly(i) == {i}
(* The short entry and its LFN entries in the same cluster. *)
OwnEntries(i) == {i} \cup LfnBelow(dir, i, First(i))

(* Mutation: the previous cluster is not looked at. *)
NoPrevious(i) == {}
(* LFN entries in the previous cluster.  They are looked for when the      *)
(* short entry is the first of its cluster, or when the first entry of the *)
(* cluster is an LFN entry that is still live by now.                      *)
PreviousEntries(i) ==
    IF /\ First(i) > 1
       /\ \/ i = First(i)
          \/ /\ IsLfn(dir[First(i)])
             /\ dir[First(i)].state # "deleted"
             /\ First(i) \notin OwnEntries(i)
    THEN LfnBelow(dir, First(i), First(i) - EntriesPerCluster)
    ELSE {}

(* A directory is taken to have one cluster: freeChain gives back all      *)
(* clusters of one that has grown.                                         *)
Remove(n, empty) ==
    /\ Found(n) # {}
    /\ n \notin Dirs => empty
    /\ \/ /\ empty
          /\ LET i == Min(Found(n))
             IN dir' = [j \in 1 .. Len(dir) |->
                          IF j \in OwnEntries(i) \cup PreviousEntries(i)
                          THEN Deleted(dir[j]) ELSE dir[j]]
          /\ free' = free + (IF n \in Dirs THEN 1 ELSE 0)
          /\ out' = Result("remove", TRUE)
       \/ /\ ~empty      \* a directory that is not empty
          /\ out' = Result("remove", FALSE)
          /\ UNCHANGED <<dir, free>>

RemoveMissing(n) ==
    /\ Found(n) = {}
    /\ out' = Result("remove", FALSE)
    /\ UNCHANGED <<dir, free>>

-----------------------------------------------------------------------------
Init ==
    /\ dir = [i \in 1 .. EntriesPerCluster |->
                 IF i <= HiddenEntries THEN Hidden ELSE End]
    /\ free = FreeClusters
    /\ out = Result("none", TRUE)

Next ==
    \E n \in Names :
        \/ Lookup(n)
        \/ Create(n) \/ CreateNoRoom(n) \/ CreateNoContent(n) \/ CreateExisting(n)
        \/ \E empty \in BOOLEAN : Remove(n, empty)
        \/ RemoveMissing(n)

Spec == Init /\ [][Next]_vars

-----------------------------------------------------------------------------
(* Properties.                                                             *)

(* readDirEntry stops at the first END entry: nothing live lies behind it. *)
NothingBehindEnd ==
    \A i \in 1 .. Len(dir), j \in 1 .. Len(dir) :
        i < j /\ dir[i].state = "end" => dir[j].state # "live"

(* Every live LFN entry is part of the complete run of one name that ends  *)
(* in its short entry: creating and removing leave no stray pieces for a   *)
(* later entry to pick up.                                                 *)
LfnRunsComplete ==
    \A i \in 1 .. Len(dir) :
        dir[i].state = "live" /\ IsLfn(dir[i]) =>
            LET n == dir[i].text[1]
                short == i + dir[i].text[2]
            IN /\ short \in Listed
               /\ dir[short].text = ShortText(n)
               /\ LfnRun(short) = LfnEntries[n]

(* No two entries show the same name. *)
NamesDiffer ==
    \A i, j \in Listed : EntryName(i) = EntryName(j) => i = j

NamesSpec == INSTANCE NameSet WITH
    Texts <- {Text(n) : n \in Names},
    names <- {EntryName(i) : i \in Listed}

(* The entries implement a set of names: "remove" takes away the name it   *)
(* was given and no other, and what was created can be found again.        *)
ImplementsNameSet == NamesSpec!Spec
=============================================================================
