-------------------------------- MODULE Heap --------------------------------
(***************************************************************************)
(* The heap of a userspace process: heap::alloc and heap::free over        *)
(* alloc::HeapAllocator, which grows through sbrk.  Block headers are      *)
(* linked through addresses in the memory that they manage.  The kernel    *)
(* heap is the same allocator over a fixed region: sbrk always fails.      *)
(***************************************************************************)
EXTENDS Integers, FiniteSets, FiniteSetsExt

CONSTANTS
    HEADER,         \* sizeof(BlockHeader)
    PAGE,           \* the heap starts with a page and grows by pages
    WIDTH,          \* integers are computed modulo WIDTH
    Base,           \* address of the first byte that sbrk returns
    MaxBreak,       \* bound: sbrk fails beyond this address
    Requests        \* sizes that the program asks for

ASSUME HeapAssumption ==
    /\ HEADER \in Nat \ {0} /\ HEADER % 4 = 0
    /\ PAGE \in Nat /\ PAGE % 4 = 0 /\ PAGE > HEADER
    /\ Base \in Nat \ {0} /\ Base % 4 = 0
    /\ WIDTH \in Nat /\ MaxBreak \in Nat /\ MaxBreak < WIDTH
    /\ \A n \in Requests : n \in Nat /\ n + HEADER + 2 * PAGE < WIDTH

VARIABLES
    blocks,         \* header at every address where the list has one
    regionEnd,
    brk,            \* the break of the process
    live            \* the program's allocations: pointer and size asked for

vars == <<blocks, regionEnd, brk, live>>

NULL == 0
MIN_BLOCK_SIZE == HEADER + 4
Header(size, isFree, next) == [size |-> size, free |-> isFree, next |-> next]

(* Mutation: sizes are rounded down. *)
AlignedDown(size) == (size \div 4) * 4
(* "Align size to 4 bytes." *)
Aligned(size) == (((size + 3) % WIDTH) \div 4) * 4

-----------------------------------------------------------------------------
(* HeapAllocator.                                                          *)

Constructed == [a \in {Base} |-> Header(PAGE - HEADER, TRUE, NULL)]

(* allocate: the first free block that is large enough (the list is in the *)
(* order of addresses, see BlocksTile), split if another block fits.       *)
Fitting(b, size) == {a \in DOMAIN b : b[a].free /\ b[a].size >= size}

Splits(rest) == rest >= MIN_BLOCK_SIZE

Taken(b, a, size) ==
    LET rest == b[a].size - size
        new == a + HEADER + size
    IN IF Splits(rest)
       THEN [x \in DOMAIN b \cup {new} |->
               CASE x = new -> Header(rest - HEADER, TRUE, b[a].next)
                 [] x = a   -> Header(size, FALSE, new)
                 [] OTHER   -> b[x]]
       ELSE [b EXCEPT ![a].free = FALSE]

(* free: "Coalesce adjacent free blocks."  The block after a becomes part  *)
(* of a; the mutation loses the space of its header.                       *)
AbsorbSize(b, a) ==
    LET n == b[a].next
    IN [x \in DOMAIN b \ {n} |->
          IF x = a THEN Header(b[a].size + b[n].size, TRUE, b[n].next) ELSE b[x]]
Absorb(b, a) ==
    LET n == b[a].next
    IN [x \in DOMAIN b \ {n} |->
          IF x = a THEN Header(b[a].size + HEADER + b[n].size, TRUE, b[n].next) ELSE b[x]]

(* A round of the loop, which looks at one block. *)
Round(s) ==
    CASE s.at = NULL -> s
      [] s.at # NULL /\ s.list[s.at].free /\ s.list[s.at].next # NULL
           /\ s.list[s.list[s.at].next].free -> [s EXCEPT !.list = Absorb(s.list, s.at)]
      [] OTHER -> [s EXCEPT !.at = s.list[s.at].next]

(* The loop starts at the head.  Every round removes a block or moves past *)
(* one: it ends after as many rounds as there are blocks.                  *)
Rounds(b) ==
    LET done[i \in 0 .. Cardinality(DOMAIN b)] ==
            IF i = 0 THEN [list |-> b, at |-> Base] ELSE Round(done[i - 1])
    IN  done[Cardinality(DOMAIN b)]

(* Mutation: blocks are not merged. *)
MarkedFree(b, p) == [b EXCEPT ![p - HEADER].free = TRUE]
Freed(b, p) == Rounds([b EXCEPT ![p - HEADER].free = TRUE]).list

(* extend: the last block grows if it is free, otherwise a block is added. *)
LastBlock(b) == CHOOSE a \in DOMAIN b : b[a].next = NULL
(* Mutation: the last block grows even when it is in use. *)
ExtendedLast(b, n) == [b EXCEPT ![LastBlock(b)].size = @ + n]
Extended(b, n) ==
    LET last == LastBlock(b)
        new == last + HEADER + b[last].size
    IN IF b[last].free THEN [b EXCEPT ![last].size = @ + n]
       ELSE [x \in DOMAIN b \cup {new} |->
               CASE x = new  -> Header(n - HEADER, TRUE, NULL)
                 [] x = last -> [b[last] EXCEPT !.next = new]
                 [] OTHER    -> b[x]]

-----------------------------------------------------------------------------
(* heap::alloc and heap::free.                                             *)

Init == blocks = <<>> /\ regionEnd = NULL /\ brk = Base /\ live = {}

(* The pages that a failed allocation asks sbrk for. *)
Needed(size) == (((size + HEADER + PAGE + PAGE - 1) % WIDTH) \div PAGE) * PAGE

(* What allocating from b leaves: the block taken and the new pointer. *)
Give(b, size) ==
    LET a == Min(Fitting(b, Aligned(size)))
    IN /\ blocks' = Taken(b, a, Aligned(size))
       /\ live' = live \cup {[ptr |-> a + HEADER, size |-> size]}

(* The first allocation creates the heap. *)
Started == IF blocks = <<>> THEN Constructed ELSE blocks
StartEnd == IF blocks = <<>> THEN Base + PAGE ELSE regionEnd
StartBreak == IF blocks = <<>> THEN brk + PAGE ELSE brk
HasRoom(size) == size # 0 /\ Fitting(Started, Aligned(size)) # {}

Alloc(size) ==
    /\ HasRoom(size) /\ StartBreak <= MaxBreak
    /\ Give(Started, size)
    /\ regionEnd' = StartEnd /\ brk' = StartBreak

(* "Allocation failed -- grow the heap and retry."  A request of no bytes  *)
(* takes this path too, and returns null after the heap has grown.         *)
AllocGrow(size) ==
    /\ ~HasRoom(size) /\ StartBreak + Needed(size) <= MaxBreak
    /\ LET b == Extended(Started, Needed(size))
       IN IF size = 0 THEN blocks' = b /\ live' = live ELSE Give(b, size)
    /\ regionEnd' = StartEnd + Needed(size)
    /\ brk' = StartBreak + Needed(size)

(* sbrk fails: null is returned, at the first call with a heap in place. *)
AllocNull(size) ==
    /\ ~HasRoom(size) /\ StartBreak <= MaxBreak
    /\ blocks' = Started
    /\ regionEnd' = StartEnd /\ brk' = StartBreak
    /\ live' = live

(* free of a pointer the program holds.  The code ignores null, a pointer  *)
(* outside the region and one whose block is free already; a pointer to    *)
(* the inside of a block, which it cannot tell, is left out with them.     *)
Free(r) ==
    /\ blocks' = Freed(blocks, r.ptr)
    /\ live' = live \ {r}
    /\ UNCHANGED <<regionEnd, brk>>

Next ==
    \/ \E size \in Requests : Alloc(size) \/ AllocGrow(size) \/ AllocNull(size)
    \/ \E r \in live : Free(r)

Spec == Init /\ [][Next]_vars

-----------------------------------------------------------------------------
(* Properties.                                                             *)

EndOf(a) == a + HEADER + blocks[a].size

(* The list covers the region without a gap or an overlap: every block     *)
(* ends where the next one starts and the last one at the end.             *)
BlocksTile ==
    \A a \in DOMAIN blocks :
        /\ EndOf(a) = IF blocks[a].next = NULL THEN regionEnd ELSE blocks[a].next
        /\ \A c \in DOMAIN blocks : a < c => EndOf(a) <= c

(* Every allocation has a block of its own, aligned to words and not free, *)
(* that holds what was asked for, and no other block is in use: no         *)
(* overlap and no leak.                                                    *)
LiveHaveBlocks ==
    /\ {a \in DOMAIN blocks : ~blocks[a].free} = {r.ptr - HEADER : r \in live}
    /\ \A r \in live : r.ptr % 4 = 0 /\ r.size <= blocks[r.ptr - HEADER].size
    /\ \A r, q \in live : r # q => r.ptr # q.ptr

(* Free memory never stays divided: two free blocks are not neighbours,    *)
(* and once everything is freed the heap is one block.                     *)
FreeIsCoalesced ==
    /\ \A a, c \in DOMAIN blocks : blocks[a].next = c => ~(blocks[a].free /\ blocks[c].free)
    /\ live = {} => Cardinality(DOMAIN blocks) <= 1

(* An allocation moves or resizes no other: a step leaves the block of     *)
(* every allocation that survives it as it was, but for its place in the   *)
(* list.                                                                   *)
OthersStay ==
    [][\A r \in live \cap live' :
          blocks'[r.ptr - HEADER].size = blocks[r.ptr - HEADER].size]_vars
=============================================================================
