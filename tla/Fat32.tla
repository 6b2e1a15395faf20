------------------------------- MODULE Fat32 --------------------------------
(***************************************************************************)
(* The FAT32 filesystem of the vfs server above its sector I/O, and the    *)
(* programs that use it the way the shell does: a handle is used by the    *)
(* command that opened it and is never closed.  Files and directories are  *)
(* cluster chains; a directory entry is one slot (module Directory models  *)
(* names that take several).  Transfers and heap allocations succeed here  *)
(* (module SectorCache models the failing ones).                           *)
(***************************************************************************)
EXTENDS Integers, Sequences, FiniteSets, FiniteSetsExt, SequencesExt

CONSTANTS
    Names,              \* names of files and directories
    Inputs,             \* paths that commands are given, as sequences
    MaxCluster,         \* clusters are 2 .. MaxCluster, 2 is the root
    BytesPerCluster,
    EntriesPerCluster,
    MAX_HANDLES,
    MaxLen,             \* bound: longest text that is written
    ChunkLen,           \* bytes that cat asks for at a time
    MaxDepth            \* bound: components of the working directory

ASSUME Fat32Assumption ==
    /\ MaxCluster \in Nat /\ MaxCluster >= 2
    /\ BytesPerCluster \in Nat \ {0} /\ ChunkLen \in Nat \ {0}
    /\ EntriesPerCluster \in Nat /\ EntriesPerCluster > 2
    /\ MAX_HANDLES \in Nat /\ MaxLen \in Nat /\ MaxDepth \in Nat
    /\ Names \cap {"", ".", ".."} = {}
    /\ Inputs \subseteq Seq(Names \cup {".."}) \ {<<>>}
    /\ \A input \in Inputs : Last(input) # ".."

VARIABLES
    fs,         \* the volume: fat[c] and the contents of every cluster
    used,       \* number of handles in use: the slots 1 .. used
    cmd,        \* the command in progress, with its handle
    cwd,        \* Shell::cwd
    shown       \* what the last command printed of a file

vars == <<fs, used, cmd, cwd, shown>>

Clusters == 2 .. MaxCluster
Root == 2
FREE == 0
EOC == MaxCluster + 1

-----------------------------------------------------------------------------
(* The FAT.                                                                *)

(* fatGet: entries outside the table read as end of chain. *)
FatGet(s, c) == IF c \in Clusters THEN s.fat[c] ELSE EOC
FatSet(s, c, v) == [s EXCEPT !.fat[c] = v]

(* The clusters that following fatGet from a start visits. *)
Chain(s, start) ==
    LET walk[n \in 0 .. MaxCluster] ==
            [c \in 0 .. EOC |->
                IF c \notin Clusters \/ n = 0 THEN <<>>
                ELSE <<c>> \o walk[n - 1][FatGet(s, c)]]
    IN walk[MaxCluster][start]

FreeClusters(s) == {c \in Clusters : s.fat[c] = FREE}

(* allocateCluster: the first free cluster becomes a chain of its own. *)
NewCluster(s) == Min(FreeClusters(s))
(* Mutation: the entry of the new cluster is not written. *)
AllocatedUnmarked(s) == s
Allocated(s) == FatSet(s, NewCluster(s), EOC)

(* The clusters that up to n calls of it return. *)
NewClusters(s, n) ==
    LET left[i \in 0 .. n] ==
            IF i = 0 THEN FreeClusters(s) ELSE {c \in left[i - 1] : \E b \in left[i - 1] : b < c}
    IN [i \in {j \in 1 .. n : left[j - 1] # {}} |-> Min(left[i - 1])]

(* What a free cluster holds is abstracted to bytes that nobody writes, so *)
(* that a file in which they show is noticed.                              *)
Stale == [k \in 1 .. BytesPerCluster |-> 0]
Freed(s, clusters) ==
    [fat |-> [c \in Clusters |-> IF c \in clusters THEN FREE ELSE s.fat[c]],
     data |-> [c \in Clusters |-> IF c \in clusters THEN Stale ELSE s.data[c]]]

(* freeChain. *)
FreeChain(s, c) == Freed(s, Range(Chain(s, c)))

(* clusterAtOffset: 0 when the chain ends before the offset. *)
ClusterAtOffset(s, start, offset) ==
    LET chain == Chain(s, start)
        n == offset \div BytesPerCluster + 1
    IN IF n <= Len(chain) THEN chain[n] ELSE 0

-----------------------------------------------------------------------------
(* Directories.                                                            *)

NoEntry == [name |-> "", dir |-> FALSE, start |-> 0, size |-> 0]
DirEntry(n, isDir, start) == [name |-> n, dir |-> isDir, start |-> start, size |-> 0]

EmptySlots == [i \in 1 .. EntriesPerCluster |-> NoEntry]
(* The first cluster of a new directory; the root is stored as 0 in "..".  *)
NewDirectory(c, parent) ==
    [EmptySlots EXCEPT
        ![1] = DirEntry(".", TRUE, c),
        ![2] = DirEntry("..", TRUE, IF parent = Root THEN 0 ELSE parent)]

(* The slots of directory d, each a cluster and an index. *)
Slots(s, d) == Range(Chain(s, d)) \X (1 .. EntriesPerCluster)
At(s, slot) == s.data[slot[1]][slot[2]]

(* findEntry: the slots of d with a name, and the first of them. *)
Named(s, d, n) == {slot \in Slots(s, d) : At(s, slot).name = n}
Before(s, x, y) ==
    IF x[1] = y[1] THEN x[2] <= y[2] ELSE y[1] \in Range(Chain(s, x[1]))
First(s, slots) == CHOOSE x \in slots : \A y \in slots : Before(s, x, y)
PutEntry(s, place, e) == [s EXCEPT !.data[place[1]][place[2]] = e]

(* What a path may name: an entry and its place, or a directory that has   *)
(* no entry of its own (the root and "..").                                *)
Entries == [name : Names \cup {"", ".", ".."}, dir : BOOLEAN, start : 0 .. MaxCluster, size : Nat]
Nothing == [entry |-> NoEntry, place |-> <<0, 0>>]
Directory(c) == [entry |-> DirEntry("..", TRUE, c), place |-> <<0, 0>>]
Found(node) == node.entry # NoEntry

ParentOf(s, d) ==
    LET up == s.data[d][2].start
    IN IF d = Root \/ up = 0 THEN Root ELSE up

(* A component below a file is taken as not found, for any file.  The code *)
(* does not look at the attribute: it reads the data of the file as        *)
(* entries, which finds nothing only as long as no text reads as one, and  *)
(* takes the second of them for "..".                                      *)
Lookup(s, node, n) ==
    LET d == node.entry.start
        slots == Named(s, d, n)
        NodeAt(slot) == [entry |-> At(s, slot), place |-> slot]
    IN IF ~node.entry.dir THEN Nothing
       ELSE IF n = ".." THEN Directory(ParentOf(s, d))
       ELSE IF slots = {} THEN Nothing
       ELSE NodeAt(First(s, slots))

(* resolvePath. *)
ResolvePath(s, path) ==
    LET at[i \in 0 .. Len(path)] ==
            IF i = 0 THEN {Directory(Root)}
            ELSE {Lookup(s, node, path[i]) : node \in at[i - 1]}
    IN CHOOSE node \in at[Len(path)] : TRUE

(* resolveParentPath. *)
ResolveParent(s, path) == ResolvePath(s, Front(path)).entry
HasParent(s, path) == ResolveParent(s, path).dir

(* createEntry: the first free slot, after extending the chain if there is *)
(* none.  [ok, s, place]: whether it succeeded, the volume and the slot.   *)
Extended(s, d) ==
    LET c == NewCluster(s)
        last == Last(Chain(s, d))
    IN [FatSet(Allocated(s), last, c) EXCEPT !.data[c] = EmptySlots]

RoomIn(s, d) == IF Named(s, d, "") = {} /\ FreeClusters(s) # {} THEN Extended(s, d) ELSE s

CreateEntry(s, d, n, isDir) ==
    LET s1 == RoomIn(s, d)
        free == Named(s1, d, "")
        full == free = {} \/ (isDir /\ FreeClusters(s1) = {})
        place == First(s1, free)
        c == NewCluster(s1)
    IN IF full THEN [ok |-> FALSE, s |-> s1, place |-> <<0, 0>>]
       ELSE IF isDir
       THEN [ok |-> TRUE, place |-> place,
             s |-> PutEntry([Allocated(s1) EXCEPT !.data[c] = NewDirectory(c, d)],
                            place, DirEntry(n, TRUE, c))]
       ELSE [ok |-> TRUE, place |-> place,
             s |-> PutEntry(s1, place, DirEntry(n, FALSE, 0))]

(* removeEntry: a directory must show no entries; the chain is freed. *)
IsEmptyDir(s, d) ==
    \A slot \in Slots(s, d) : At(s, slot).name \in {"", ".", ".."}
Removable(s, e) == e.dir => IsEmptyDir(s, e.start)
RemoveEntry(s, place) == PutEntry(FreeChain(s, At(s, place).start), place, NoEntry)

-----------------------------------------------------------------------------
(* Requests to the server.  A request that fails without an effect is a    *)
(* stuttering step.                                                        *)

(* The shell's resolvePath: a path is taken from the working directory.    *)
(* An input that starts with "/" is the request that the same input makes  *)
(* in the root, where "cd .." leads; a path too long for the shell's       *)
(* buffer, which resolvePath cuts off, is left out.                        *)
Absolute(input) == cwd \o input

(* How far a path goes down (for the bound on paths). *)
Depth(path) == Cardinality({i \in DOMAIN path : path[i] # ".."})

Idle == [op |-> "idle"]

(* VfsMkdir. *)
Mkdir(input) ==
    /\ cmd = Idle
    /\ LET path == Absolute(input)
           r == CreateEntry(fs, ResolveParent(fs, path).start, Last(path), TRUE)
       IN /\ HasParent(fs, path)
          /\ Named(fs, ResolveParent(fs, path).start, Last(path)) = {}
          /\ fs' = r.s
    /\ UNCHANGED <<used, cmd, cwd>>
    /\ shown' = <<>>

(* VfsRemove, for rm and rmdir alike. *)
RemovePath(input) ==
    /\ cmd = Idle
    /\ LET path == Absolute(input)
           node == ResolvePath(fs, path)
       IN /\ HasParent(fs, path)
          /\ Found(node) /\ Removable(fs, node.entry)
          /\ fs' = RemoveEntry(fs, node.place)
    /\ UNCHANGED <<used, cmd, cwd>>
    /\ shown' = <<>>

(* A free slot of the handle table takes what the entry says; the command  *)
(* goes on with it (touch is done), and no slot is ever given back.        *)
Command(op, e, place) ==
    IF op = "touch" THEN Idle
    ELSE [op |-> op, start |-> e.start, size |-> e.size, place |-> place, read |-> <<>>]

HandleFree == used < MAX_HANDLES

(* VfsOpen of a path that exists, for touch, cat and write. *)
OpenExisting(input, op) ==
    /\ cmd = Idle
    /\ LET node == ResolvePath(fs, Absolute(input))
       IN /\ Found(node) /\ ~node.entry.dir
          /\ HandleFree
          /\ used' = used + 1
          /\ cmd' = Command(op, node.entry, node.place)
    /\ UNCHANGED <<fs, cwd>>
    /\ shown' = <<>>

(* VfsOpen that creates the file; without a handle it is removed again. *)
OpenCreate(input, op) ==
    /\ cmd = Idle /\ op # "cat"
    /\ LET path == Absolute(input)
           r == CreateEntry(fs, ResolveParent(fs, path).start, Last(path), FALSE)
       IN /\ ~Found(ResolvePath(fs, path))
          /\ HasParent(fs, path)
          /\ \/ /\ r.ok /\ HandleFree
                /\ fs' = r.s
                /\ used' = used + 1
                /\ cmd' = Command(op, At(r.s, r.place), r.place)
             \/ /\ r.ok /\ ~HandleFree
                /\ fs' = RemoveEntry(r.s, r.place)
                /\ UNCHANGED <<used, cmd>>
             \/ /\ ~r.ok
                /\ fs' = r.s
                /\ UNCHANGED <<used, cmd>>
    /\ UNCHANGED cwd
    /\ shown' = <<>>

(* Mutation: the length of the request alone bounds a read. *)
ReadWholeChunk(h, offset) == ChunkLen
(* read: bytes that are left in the file and asked for. *)
ReadLen(h, offset) == IF offset >= h.size THEN 0 ELSE Min({ChunkLen, h.size - offset})
ReadBytes(s, h, offset) ==
    LET cluster(i) == ClusterAtOffset(s, h.start, offset + i - 1)
        n == Cardinality({i \in 1 .. ReadLen(h, offset) :
                             \A j \in 1 .. i : cluster(j) \in Clusters})
    IN [i \in 1 .. n |->
          s.data[cluster(i)][((offset + i - 1) % BytesPerCluster) + 1]]

(* VfsRead in the loop of cat, which ends with the first empty answer. *)
CatRead ==
    /\ cmd.op = "cat"
    /\ LET bytes == ReadBytes(fs, cmd, Len(cmd.read))
       IN \/ /\ bytes # <<>>
             /\ cmd' = [cmd EXCEPT !.read = @ \o bytes]
             /\ shown' = shown
          \/ /\ bytes = <<>>
             /\ shown' = cmd.read
             /\ cmd' = Idle
    /\ UNCHANGED <<fs, used, cwd>>

-----------------------------------------------------------------------------
(* write.                                                                  *)

(* Mutation: a cluster that the text fills in part is not counted. *)
WholeClusters(len) == len \div BytesPerCluster
ClustersNeeded(len) == (len + BytesPerCluster - 1) \div BytesPerCluster

(* The chain that the loop of write fills: the clusters that the file has, *)
(* then the first free ones, as many as are needed or left.                *)
WriteChain(s, h, len) ==
    LET old == Chain(s, h.start)
        need == ClustersNeeded(len)
    IN IF need <= Len(old) THEN SubSeq(old, 1, need)
       ELSE old \o NewClusters(s, need - Len(old))

(* Mutation: the clusters behind the new end of the file are kept. *)
TailKept(s, h, chain) == s
(* "Free any leftover clusters if the new data is shorter." *)
TailFreed(s, h, chain) ==
    LET old == Chain(s, h.start)
    IN IF Len(chain) < Len(old) THEN FreeChain(s, old[Len(chain) + 1]) ELSE s

(* The chain is linked and the text is in its clusters; a cluster that the *)
(* text fills in part keeps its other bytes.                               *)
Filled(s, chain, text) ==
    LET index(c) == CHOOSE i \in 1 .. Len(chain) : chain[i] = c
        byte(c, k) == (index(c) - 1) * BytesPerCluster + k
    IN [fat |-> [c \in Clusters |->
            IF c \notin Range(chain) THEN s.fat[c]
            ELSE IF index(c) < Len(chain) THEN chain[index(c) + 1] ELSE EOC],
        data |-> [c \in Clusters |->
            IF c \notin Range(chain) THEN s.data[c]
            ELSE [k \in 1 .. BytesPerCluster |->
                    IF byte(c, k) <= Len(text) THEN text[byte(c, k)] ELSE s.data[c][k]]]]

(* The directory entry takes the new start and size. *)
Update(s, start, size) ==
    fs' = PutEntry(s, cmd.place, [At(s, cmd.place) EXCEPT !.start = start, !.size = size])

Write(text) ==
    /\ cmd.op = "write"
    /\ LET chain == WriteChain(fs, cmd, Len(text))
           first == IF chain = <<>> THEN cmd.start ELSE chain[1]
       IN \/ /\ text = <<>> /\ cmd.start >= 2           \* truncate to zero
             /\ Update(FreeChain(fs, cmd.start), 0, 0)
          \/ /\ text # <<>> \/ cmd.start < 2
             /\ Len(chain) = ClustersNeeded(Len(text))
             /\ Update(Filled(TailFreed(fs, cmd, chain), chain, text), first, Len(text))
          \/ /\ Len(chain) < ClustersNeeded(Len(text))   \* the volume is full
             /\ fs' = Filled(fs, chain, text)
    /\ cmd' = Idle
    /\ UNCHANGED <<used, cwd, shown>>

-----------------------------------------------------------------------------
(* cd, with a directory, with ".." (parentDir drops the last component)    *)
(* and without an argument.                                                *)
Cd(input) ==
    /\ cmd = Idle /\ Len(Absolute(input)) < MaxDepth
    /\ ResolvePath(fs, Absolute(input)).entry.dir
    /\ cwd' = Absolute(input)
    /\ UNCHANGED <<fs, used, cmd>>
    /\ shown' = <<>>
CdUp ==
    /\ cmd = Idle /\ cwd # <<>>
    /\ cwd' = Front(cwd)
    /\ UNCHANGED <<fs, used, cmd>>
    /\ shown' = <<>>
CdRoot ==
    /\ cmd = Idle
    /\ cwd' = <<>>
    /\ UNCHANGED <<fs, used, cmd>>
    /\ shown' = <<>>

-----------------------------------------------------------------------------
(* A fresh volume: the root directory has one cluster. *)
Init ==
    /\ fs = [fat |-> [c \in Clusters |-> IF c = Root THEN EOC ELSE FREE],
             data |-> [c \in Clusters |->
                         IF c = Root THEN EmptySlots
                         ELSE Stale]]
    /\ used = 0
    /\ cmd = Idle
    /\ cwd = <<>>
    /\ shown = <<>>

(* Texts in which every byte tells its place. *)
Texts == {[i \in 1 .. n |-> i] : n \in 0 .. MaxLen}

Next ==
    \/ \E input \in Inputs :
          /\ Depth(Absolute(input)) <= MaxDepth
          /\ \/ Mkdir(input) \/ RemovePath(input) \/ Cd(input)
             \/ \E op \in {"touch", "cat", "write"} :
                   OpenExisting(input, op) \/ OpenCreate(input, op)
    \/ CdUp \/ CdRoot \/ CatRead
    \/ \E text \in Texts : Write(text)

Spec == Init /\ [][Next]_vars

-----------------------------------------------------------------------------
(* Properties.                                                             *)

Paths == UNION {[1 .. n -> Names] : n \in 0 .. MaxDepth}
EntryOf(p) == ResolvePath(fs, p).entry

(* The clusters of a path, none if there is nothing there. *)
ChainOf(p) == Chain(fs, EntryOf(p).start)

(* No cluster belongs to two files or directories, none in use is free,    *)
(* and every chain ends: no sequence of commands cross-links the FAT.      *)
ChainsSeparate ==
    LET chains == {<<p, ChainOf(p)>> : p \in Paths}
    IN \A x \in chains :
          /\ x[2] # <<>> => fs.fat[Last(x[2])] = EOC
          /\ IsInjective(x[2])
          /\ \A y \in chains \ {x} : Range(x[2]) \cap Range(y[2]) = {}

(* The chain of a file holds as many bytes as its entry says. *)
SizeIsBacked ==
    \A p \in Paths :
        LET e == EntryOf(p)
        IN ~e.dir => e.size <= BytesPerCluster * Len(Chain(fs, e.start))

(* Clusters that are taken and belong to nothing. *)
Lost == {c \in Clusters : fs.fat[c] # FREE} \ UNION {Range(ChainOf(p)) : p \in Paths}

(* A step loses clusters only when it takes the last ones of the volume    *)
(* (write returns without freeing what it had allocated).                  *)
LeaksOnlyWhenFull ==
    [][FreeClusters(fs)' # {} => Lost' \subseteq Lost]_fs

Contents(e) ==
    LET chain == Chain(fs, e.start)
    IN [i \in 1 .. e.size |->
          fs.data[chain[((i - 1) \div BytesPerCluster) + 1]][((i - 1) % BytesPerCluster) + 1]]

Shown[e \in Entries] ==
    CASE e = NoEntry -> <<"absent">>
      [] e.dir -> <<"dir">>
      [] OTHER -> <<"file", Contents(e)>>

ShownTree == [p \in Paths |-> Shown[EntryOf(p)]]
Tree == INSTANCE FileTree WITH tree <- ShownTree

(* The volume implements a tree of files: a command changes the path it is *)
(* given and no other, what was written is what is read, and a write that  *)
(* fails damages no more than the leading bytes of its own file.           *)
ImplementsFileTree == Tree!Spec
=============================================================================
