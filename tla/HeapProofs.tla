----------------------------- MODULE HeapProofs -----------------------------
(***************************************************************************)
(* The block list of the heap allocator, for every sequence of requests    *)
(* and frees, every page size and every end of memory.                     *)
(***************************************************************************)
EXTENDS Heap, LoopTheorems, FiniteSetTheorems, TLAPS

Headers == [size : Nat, free : BOOLEAN, next : Nat]

BlockEnd(b, a) == a + HEADER + b[a].size

(* A list of blocks that covers the memory up to e without a gap or an     *)
(* overlap, from the head on and in the order of addresses.                *)
Tiles(b, e) ==
    /\ b \in [DOMAIN b -> Headers]
    /\ DOMAIN b \subseteq Nat \ {0} /\ IsFiniteSet(DOMAIN b) /\ Base \in DOMAIN b
    /\ \A a \in DOMAIN b : a % 4 = 0 /\ b[a].size % 4 = 0
    /\ \A a \in DOMAIN b : b[a].next = NULL \/ b[a].next \in DOMAIN b
    /\ \A a \in DOMAIN b : BlockEnd(b, a) = IF b[a].next = NULL THEN e ELSE b[a].next
    /\ \A a \in DOMAIN b : BlockEnd(b, a) <= e /\ Base <= a
    /\ \A a, c \in DOMAIN b : a < c => BlockEnd(b, a) <= c
    /\ \E a \in DOMAIN b : b[a].next = NULL

Used(b) == {a \in DOMAIN b : ~b[a].free}

(* The blocks in use are the same, of the same size. *)
SameUse(b, r) == Used(r) = Used(b) /\ \A a \in Used(b) : r[a].size = b[a].size

(* No two free blocks are neighbours. *)
Apart(b) == \A a, c \in DOMAIN b : b[a].next = c => ~(b[a].free /\ b[c].free)

(* The program's allocations and the blocks in use are the same. *)
Holds(b, l) ==
    /\ l \subseteq [ptr : Nat, size : Nat]
    /\ \A r \in l : r.ptr - HEADER \in Used(b) /\ r.size <= b[r.ptr - HEADER].size
    /\ \A a \in Used(b) : \E r \in l : r.ptr = a + HEADER
    /\ \A r, q \in l : r # q => r.ptr # q.ptr

(* What split, merge and extend write is a block header. *)
LEMMA HeaderType ==
    ASSUME NEW z \in Nat, NEW f \in BOOLEAN, NEW n \in Nat
    PROVE  Header(z, f, n) \in Headers
BY DEF Header, Headers

(* What a tiled list says of one of its headers. *)
LEMMA TilesType ==
    ASSUME NEW b, NEW e, Tiles(b, e), NEW a \in DOMAIN b
    PROVE  /\ a \in Nat /\ a # 0 /\ b[a] \in Headers /\ b[a].size \in Nat
           /\ b[a].free \in BOOLEAN /\ b[a].next \in Nat
           /\ BlockEnd(b, a) \in Nat /\ HEADER \in Nat /\ HEADER > 0
           /\ a < BlockEnd(b, a)
<1>1. a \in Nat /\ a # 0 /\ b[a] \in Headers
  BY DEF Tiles
<1>2. b[a].size \in Nat /\ b[a].free \in BOOLEAN /\ b[a].next \in Nat
  BY <1>1 DEF Headers
<1>3. HEADER \in Nat /\ HEADER > 0
  BY HeapAssumption
<1>4. QED
  BY <1>1, <1>2, <1>3 DEF BlockEnd

(* Multiples of the word size. *)
LEMMA Words ==
    ASSUME NEW x \in Nat, NEW y \in Nat, x % 4 = 0, y % 4 = 0
    PROVE  (x + y) % 4 = 0 /\ (x >= y => (x - y) % 4 = 0)
OBVIOUS

(* Sums of word sizes are word sizes. *)
LEMMA ThreeWords ==
    ASSUME NEW x \in Nat, NEW y \in Nat, NEW z \in Nat, x % 4 = 0, y % 4 = 0, z % 4 = 0
    PROVE  (x + y + z) % 4 = 0
OBVIOUS

(* The header is a whole number of words. *)
LEMMA WordSizes == HEADER % 4 = 0 /\ HEADER \in Nat /\ HEADER >= 4
BY HeapAssumption

(* allocate cuts a block in two. *)
LEMMA SplitTiles ==
    ASSUME NEW b, NEW e \in Nat, Tiles(b, e), NEW a \in DOMAIN b, b[a].free,
           NEW size \in Nat, size % 4 = 0, b[a].size >= size, Splits(b[a].size - size)
    PROVE  LET r == Taken(b, a, size)
           IN  /\ Tiles(r, e) /\ Used(r) = Used(b) \cup {a} /\ r[a].size = size
               /\ \A c \in Used(b) : r[c].size = b[c].size
               /\ Apart(b) => Apart(r)
<1> DEFINE rest == b[a].size - size
           new == a + HEADER + size
           r == [x \in DOMAIN b \cup {new} |->
                   CASE x = new -> Header(rest - HEADER, TRUE, b[a].next)
                     [] x = a   -> Header(size, FALSE, new)
                     [] OTHER   -> b[x]]
<1>1. Taken(b, a, size) = r
  BY DEF Taken
<1>2. /\ a \in Nat /\ a # 0 /\ b[a].size \in Nat /\ b[a].next \in Nat
      /\ HEADER \in Nat /\ HEADER >= 4 /\ HEADER % 4 = 0
      /\ rest >= HEADER + 4 /\ a % 4 = 0 /\ b[a].size % 4 = 0
  BY TilesType, WordSizes DEF Splits, MIN_BLOCK_SIZE, Tiles
<1>3. /\ new \in Nat /\ a < new /\ new < BlockEnd(b, a) /\ rest - HEADER \in Nat
      /\ new + HEADER + (rest - HEADER) = BlockEnd(b, a)
  BY <1>2 DEF BlockEnd
<1>4. new % 4 = 0 /\ (rest - HEADER) % 4 = 0
  <2>1. (a + HEADER) % 4 = 0
    BY <1>2, Words
  <2>2. (a + HEADER + size) % 4 = 0
    BY <1>2, <2>1, Words
  <2>3. rest % 4 = 0 /\ rest \in Nat
    BY <1>2, Words
  <2>4. (rest - HEADER) % 4 = 0
    <3> HIDE DEF rest
    <3>1. QED
      BY <1>2, <2>3, Words
  <2>5. QED
    BY <2>2, <2>4
<1>5. new \notin DOMAIN b
  <2> SUFFICES ASSUME new \in DOMAIN b PROVE FALSE
    OBVIOUS
  <2>1. BlockEnd(b, a) <= new
    BY <1>3 DEF Tiles
  <2>2. BlockEnd(b, a) \in Nat
    BY TilesType
  <2>3. QED
    BY <1>3, <2>1, <2>2
<1>6. /\ DOMAIN r = DOMAIN b \cup {new}
      /\ r[new].size = rest - HEADER /\ r[new].free = TRUE /\ r[new].next = b[a].next
      /\ r[a].size = size /\ r[a].free = FALSE /\ r[a].next = new
      /\ \A x \in DOMAIN b \ {a} : r[x] = b[x]
  <2>1. a # new /\ a \in DOMAIN b
    BY <1>5
  <2> HIDE DEF new
  <2>2. r[new].size = rest - HEADER /\ r[new].free = TRUE /\ r[new].next = b[a].next
    BY <2>1 DEF Header
  <2>3. r[a].size = size /\ r[a].free = FALSE /\ r[a].next = new
    BY <2>1 DEF Header
  <2>4. \A x \in DOMAIN b \ {a} : r[x] = b[x]
    BY <1>5
  <2>5. DOMAIN r = DOMAIN b \cup {new}
    OBVIOUS
  <2> HIDE DEF r
  <2>6. QED
    BY <2>2, <2>3, <2>4, <2>5
<1>7. r \in [DOMAIN r -> Headers]
  <2>1. Header(rest - HEADER, TRUE, b[a].next) \in Headers
    BY <1>2, <1>3, HeaderType
  <2>2. Header(size, FALSE, new) \in Headers
    BY <1>3, HeaderType
  <2>3. \A x \in DOMAIN b : b[x] \in Headers
    BY DEF Tiles
  <2> HIDE DEF new, rest
  <2>4. QED
    BY <1>6, <2>1, <2>2, <2>3
<1> HIDE DEF r, new, rest
<1>8. /\ BlockEnd(r, new) = BlockEnd(b, a)
      /\ BlockEnd(r, a) = new
      /\ \A x \in DOMAIN b \ {a} : BlockEnd(r, x) = BlockEnd(b, x)
  BY <1>3, <1>6 DEF BlockEnd, new
<1>9. Tiles(r, e)
  <2>1. /\ DOMAIN r \subseteq Nat \ {0} /\ Base \in DOMAIN r
        /\ \A x \in DOMAIN r : x % 4 = 0 /\ r[x].size % 4 = 0
    BY <1>2, <1>3, <1>4, <1>6 DEF Tiles
  <2>2. IsFiniteSet(DOMAIN r)
    BY <1>6, FS_AddElement DEF Tiles
  <2>3. \A x \in DOMAIN r : r[x].next = NULL \/ r[x].next \in DOMAIN r
    BY <1>6 DEF Tiles
  <2>4. ASSUME NEW x \in DOMAIN r
        PROVE  /\ BlockEnd(r, x) = IF r[x].next = NULL THEN e ELSE r[x].next
               /\ BlockEnd(r, x) <= e /\ Base <= x
    <3>1. CASE x = a
      <4>1. BlockEnd(b, a) <= e /\ Base <= a /\ BlockEnd(b, a) \in Nat /\ Base \in Nat
        BY TilesType, HeapAssumption DEF Tiles
      <4>2. new # NULL /\ new <= e
        BY <4>1, <1>2, <1>3 DEF NULL
      <4>3. QED
        BY <3>1, <4>1, <4>2, <1>6, <1>8
    <3>2. CASE x = new
      <4>1. /\ BlockEnd(b, a) = IF b[a].next = NULL THEN e ELSE b[a].next
            /\ BlockEnd(b, a) <= e /\ Base <= a /\ Base \in Nat
        BY HeapAssumption DEF Tiles
      <4>2. Base <= new
        BY <4>1, <1>2, <1>3
      <4>3. QED
        BY <3>2, <4>1, <4>2, <1>6, <1>8
    <3>3. CASE x \in DOMAIN b \ {a}
      BY <3>3, <1>6, <1>8 DEF Tiles
    <3>4. QED
      BY <3>1, <3>2, <3>3, <1>6
  <2>5. ASSUME NEW x \in DOMAIN r, NEW c \in DOMAIN r, x < c
        PROVE  BlockEnd(r, x) <= c
    <3>1. CASE x = new
      <4>1. c # a /\ c # new
        BY <2>5, <3>1, <1>2, <1>3
      <4>2. c \in DOMAIN b /\ c \in Nat /\ a < c
        BY <2>5, <3>1, <4>1, <1>2, <1>3, <1>6 DEF Tiles
      <4>3. BlockEnd(b, a) <= c
        BY <4>2 DEF Tiles
      <4>4. QED
        BY <3>1, <4>3, <1>8
    <3>2. CASE x = a
      <4>1. CASE c = new
        BY <3>2, <4>1, <1>3, <1>8
      <4>2. CASE c # new
        <5>1. c \in DOMAIN b /\ BlockEnd(b, a) <= c /\ c \in Nat
          BY <2>5, <3>2, <4>2, <1>6 DEF Tiles
        <5>2. QED
          BY <3>2, <5>1, <1>3, <1>8, TilesType
      <4>3. QED
        BY <4>1, <4>2
    <3>3. CASE x \in DOMAIN b \ {a}
      <4>1. CASE c = new
        <5>1. x \in Nat /\ (x < a \/ x > a)
          BY <3>3, <1>2 DEF Tiles
        <5>2. x < a
          <6> SUFFICES ASSUME x > a PROVE FALSE
            BY <5>1
          <6>1. BlockEnd(b, a) <= x /\ BlockEnd(b, a) \in Nat
            BY <3>3, <1>2, <5>1, TilesType DEF Tiles
          <6>2. QED
            BY <6>1, <5>1, <2>5, <4>1, <1>3
        <5>3. BlockEnd(b, x) <= a /\ BlockEnd(b, x) \in Nat
          BY <3>3, <5>2, TilesType DEF Tiles
        <5>4. BlockEnd(b, x) <= new
          BY <5>3, <1>2, <1>3
        <5>5. QED
          BY <3>3, <4>1, <5>4, <1>8
      <4>2. CASE c \in DOMAIN b
        BY <2>5, <3>3, <4>2, <1>8 DEF Tiles
      <4>3. QED
        BY <4>1, <4>2, <1>6
    <3>4. QED
      BY <3>1, <3>2, <3>3, <1>6
  <2>6. \E x \in DOMAIN r : r[x].next = NULL
    <3>1. PICK x \in DOMAIN b : b[x].next = NULL
      BY DEF Tiles
    <3>2. CASE x = a
      BY <3>1, <3>2, <1>6
    <3>3. CASE x # a
      BY <3>1, <3>3, <1>6
    <3>4. QED
      BY <3>2, <3>3
  <2>7. QED
    BY <1>7, <2>1, <2>2, <2>3, <2>4, <2>5, <2>6 DEF Tiles
<1>10. Used(r) = Used(b) \cup {a} /\ \A c \in Used(b) : r[c].size = b[c].size
  BY <1>5, <1>6 DEF Used
<1>11. ASSUME Apart(b) PROVE Apart(r)
  <2> SUFFICES ASSUME NEW x \in DOMAIN r, NEW c \in DOMAIN r, r[x].next = c,
                      r[x].free, r[c].free
               PROVE  FALSE
    BY DEF Apart
  <2>1. x # a /\ c # a
    BY <1>6
  <2>2. CASE x = new
    <3>1. c = b[a].next
      BY <2>2, <1>6
    <3>2. c # new
      <4>1. c # 0 /\ BlockEnd(b, a) = IF b[a].next = NULL THEN e ELSE b[a].next
        BY <1>9 DEF Tiles
      <4>2. c = BlockEnd(b, a)
        BY <3>1, <4>1 DEF NULL
      <4>3. QED
        BY <4>2, <1>3, TilesType
    <3>3. c \in DOMAIN b /\ b[c].free
      BY <2>1, <3>2, <1>6
    <3>4. QED
      BY <1>11, <3>1, <3>3 DEF Apart
  <2>3. CASE x # new
    <3>1. x \in DOMAIN b /\ b[x].next = c /\ b[x].free
      BY <2>1, <2>3, <1>6
    <3>2. c # new
      <4>1. b[x].next = NULL \/ b[x].next \in DOMAIN b
        BY <3>1 DEF Tiles
      <4>2. new # NULL
        BY <1>2, <1>3 DEF NULL
      <4>3. QED
        BY <3>1, <4>1, <4>2, <1>5
    <3>3. c \in DOMAIN b /\ b[c].free
      BY <2>1, <3>2, <1>6
    <3>4. QED
      BY <1>11, <3>1, <3>3 DEF Apart
  <2>4. QED
    BY <2>2, <2>3
<1>12. QED
  BY <1>1, <1>6, <1>9, <1>10, <1>11

(* A list with the same sizes and links covers the same memory. *)
LEMMA SameShape ==
    ASSUME NEW b, NEW e, Tiles(b, e), NEW r \in [DOMAIN b -> Headers],
           \A x \in DOMAIN b : r[x].size = b[x].size /\ r[x].next = b[x].next
    PROVE  Tiles(r, e)
<1>1. DOMAIN r = DOMAIN b
  OBVIOUS
<1>2. \A x \in DOMAIN b : BlockEnd(r, x) = BlockEnd(b, x)
  BY DEF BlockEnd
<1>3. \E x \in DOMAIN r : r[x].next = NULL
  BY <1>1 DEF Tiles
<1>4. QED
  BY <1>1, <1>2, <1>3 DEF Tiles

(* allocate and free mark a block. *)
LEMMA MarkTiles ==
    ASSUME NEW b, NEW e, Tiles(b, e), NEW a \in DOMAIN b, NEW v \in BOOLEAN
    PROVE  LET r == [b EXCEPT ![a].free = v]
           IN  /\ Tiles(r, e) /\ DOMAIN r = DOMAIN b /\ r[a].free = v
               /\ \A x \in DOMAIN b : r[x].size = b[x].size /\ r[x].next = b[x].next
               /\ \A x \in DOMAIN b \ {a} : r[x] = b[x]
<1> DEFINE r == [b EXCEPT ![a].free = v]
<1>1. b \in [DOMAIN b -> Headers]
  BY DEF Tiles
<1>2. r \in [DOMAIN b -> Headers] /\ DOMAIN r = DOMAIN b
  BY <1>1 DEF Headers
<1>3. r[a].size = b[a].size /\ r[a].next = b[a].next /\ r[a].free = v
  BY <1>1 DEF Headers
<1>4. \A x \in DOMAIN b \ {a} : r[x] = b[x]
  BY <1>1
<1> HIDE DEF r
<1>5. \A x \in DOMAIN b : r[x].size = b[x].size /\ r[x].next = b[x].next
  BY <1>3, <1>4
<1>6. Tiles(r, e)
  BY <1>2, <1>5, SameShape
<1>7. QED
  BY <1>2, <1>3, <1>4, <1>5, <1>6 DEF r

(* allocate takes a block, whole or in part. *)
LEMMA TakenTiles ==
    ASSUME NEW b, NEW e \in Nat, Tiles(b, e), NEW a \in DOMAIN b, b[a].free,
           NEW size \in Nat, size % 4 = 0, b[a].size >= size
    PROVE  LET r == Taken(b, a, size)
           IN  /\ Tiles(r, e) /\ Used(r) = Used(b) \cup {a} /\ r[a].size >= size
               /\ \A c \in Used(b) : r[c].size = b[c].size
               /\ Apart(b) => Apart(r)
<1>1. CASE Splits(b[a].size - size)
  <2> DEFINE r == Taken(b, a, size)
  <2>1. /\ Tiles(r, e) /\ Used(r) = Used(b) \cup {a} /\ r[a].size = size
        /\ \A c \in Used(b) : r[c].size = b[c].size
        /\ Apart(b) => Apart(r)
    BY <1>1, SplitTiles
  <2> HIDE DEF r
  <2>2. QED
    BY <2>1 DEF r
<1>2. CASE ~Splits(b[a].size - size)
  <2> DEFINE r == [b EXCEPT ![a].free = FALSE]
  <2>1. Taken(b, a, size) = r
    BY <1>2 DEF Taken
  <2>2. /\ Tiles(r, e) /\ DOMAIN r = DOMAIN b /\ r[a].free = FALSE
        /\ \A x \in DOMAIN b : r[x].size = b[x].size /\ r[x].next = b[x].next
        /\ \A x \in DOMAIN b \ {a} : r[x] = b[x]
    BY MarkTiles
  <2> HIDE DEF r
  <2>3. Used(r) = Used(b) \cup {a} /\ \A c \in Used(b) : r[c].size = b[c].size
    BY <2>2 DEF Used
  <2>4. Apart(b) => Apart(r)
    BY <2>2 DEF Apart
  <2>5. QED
    BY <2>1, <2>2, <2>3, <2>4
<1>3. QED
  BY <1>1, <1>2

(* Only one block points to a block, and only one is the last. *)
LEMMA EndsDiffer ==
    ASSUME NEW b, NEW e, Tiles(b, e), NEW x \in DOMAIN b, NEW y \in DOMAIN b,
           BlockEnd(b, x) = BlockEnd(b, y)
    PROVE  x = y
<1>1. /\ x \in Nat /\ y \in Nat /\ x < BlockEnd(b, x) /\ y < BlockEnd(b, y)
      /\ BlockEnd(b, x) \in Nat /\ BlockEnd(b, y) \in Nat
  BY TilesType
<1>2. ~(x < y)
  <2> SUFFICES ASSUME x < y PROVE FALSE
    OBVIOUS
  <2>1. BlockEnd(b, x) <= y
    BY DEF Tiles
  <2>2. QED
    BY <1>1, <2>1
<1>3. ~(y < x)
  <2> SUFFICES ASSUME y < x PROVE FALSE
    OBVIOUS
  <2>1. BlockEnd(b, y) <= x
    BY DEF Tiles
  <2>2. QED
    BY <1>1, <2>1
<1>4. QED
  BY <1>1, <1>2, <1>3

(* The loop of free merges a block with the one after it. *)
LEMMA AbsorbTiles ==
    ASSUME NEW b, NEW e \in Nat, Tiles(b, e), NEW a \in DOMAIN b, b[a].free,
           b[a].next # NULL, b[b[a].next].free
    PROVE  LET r == Absorb(b, a)
               n == b[a].next
           IN  /\ Tiles(r, e) /\ SameUse(b, r)
               /\ n \in DOMAIN b /\ a < n /\ DOMAIN r = DOMAIN b \ {n}
               /\ \A x \in DOMAIN r \ {a} : r[x] = b[x]
<1> DEFINE n == b[a].next
           r == [x \in DOMAIN b \ {n} |->
                   IF x = a THEN Header(b[a].size + HEADER + b[n].size, TRUE, b[n].next)
                   ELSE b[x]]
<1>1. Absorb(b, a) = r
  BY DEF Absorb
<1>2. n \in DOMAIN b /\ BlockEnd(b, a) = n
  BY DEF Tiles
<1>3. /\ a \in Nat /\ n \in Nat /\ a < n /\ b[a].size \in Nat /\ b[n].size \in Nat
      /\ b[n].next \in Nat /\ HEADER \in Nat /\ BlockEnd(b, n) \in Nat /\ n < BlockEnd(b, n)
  <2> HIDE DEF n
  <2>1. QED
    BY <1>2, TilesType
<1>4. b[n].free
  OBVIOUS
<1> HIDE DEF n
<1>5. /\ DOMAIN r = DOMAIN b \ {n} /\ a \in DOMAIN r
      /\ r[a].size = b[a].size + HEADER + b[n].size /\ r[a].free = TRUE
      /\ r[a].next = b[n].next
      /\ \A x \in DOMAIN r \ {a} : r[x] = b[x]
  <2>1. a # n
    BY <1>3
  <2>2. DOMAIN r = DOMAIN b \ {n} /\ a \in DOMAIN r
    BY <2>1
  <2>3. r[a].size = b[a].size + HEADER + b[n].size /\ r[a].free = TRUE
        /\ r[a].next = b[n].next
    BY <2>1 DEF Header
  <2>4. \A x \in DOMAIN r \ {a} : r[x] = b[x]
    OBVIOUS
  <2>5. QED
    BY <2>2, <2>3, <2>4
<1>6. r \in [DOMAIN r -> Headers]
  <2>0. b[a].size + HEADER + b[n].size \in Nat
    BY <1>3
  <2>1. Header(b[a].size + HEADER + b[n].size, TRUE, b[n].next) \in Headers
    BY <1>3, <2>0 DEF Header, Headers
  <2>2. \A x \in DOMAIN b : b[x] \in Headers
    BY DEF Tiles
  <2>3. QED
    BY <2>1, <2>2
<1> HIDE DEF r
<1>7. /\ BlockEnd(r, a) = BlockEnd(b, n)
      /\ \A x \in DOMAIN r \ {a} : BlockEnd(r, x) = BlockEnd(b, x)
  <2>1. BlockEnd(r, a) = BlockEnd(b, n)
    BY <1>2, <1>3, <1>5 DEF BlockEnd
  <2>2. QED
    BY <2>1, <1>5 DEF BlockEnd
<1>8. \A x \in DOMAIN r \ {a} : b[x].next # n
  <2> SUFFICES ASSUME NEW x \in DOMAIN r \ {a}, b[x].next = n PROVE FALSE
    OBVIOUS
  <2>1. x \in DOMAIN b /\ n # NULL
    BY <1>3, <1>5 DEF NULL
  <2>2. BlockEnd(b, x) = n
    BY <2>1 DEF Tiles
  <2>3. QED
    BY <2>1, <2>2, <1>2, EndsDiffer
<1>9. Tiles(r, e)
  <2>1. DOMAIN r \subseteq Nat \ {0} /\ IsFiniteSet(DOMAIN r)
    BY <1>5, FS_Subset DEF Tiles
  <2>2. Base \in DOMAIN r
    <3>1. Base <= a /\ Base \in Nat /\ Base \in DOMAIN b
      BY HeapAssumption DEF Tiles
    <3>2. QED
      BY <3>1, <1>3, <1>5
  <2>3. \A x \in DOMAIN r : x % 4 = 0 /\ r[x].size % 4 = 0
    <3>1. b[a].size % 4 = 0 /\ b[n].size % 4 = 0 /\ HEADER % 4 = 0
      BY <1>2, WordSizes DEF Tiles
    <3>2. (b[a].size + HEADER) % 4 = 0
      BY <1>3, <3>1, Words
    <3>3. (b[a].size + HEADER + b[n].size) % 4 = 0
      BY <1>3, <3>1, <3>2, Words
    <3>4. QED
      BY <3>3, <1>5 DEF Tiles
  <2>4. ASSUME NEW x \in DOMAIN r
        PROVE  /\ r[x].next = NULL \/ r[x].next \in DOMAIN r
               /\ BlockEnd(r, x) = IF r[x].next = NULL THEN e ELSE r[x].next
               /\ BlockEnd(r, x) <= e /\ Base <= x
    <3>1. CASE x = a
      <4>1. /\ b[n].next = NULL \/ b[n].next \in DOMAIN b
            /\ BlockEnd(b, n) = IF b[n].next = NULL THEN e ELSE b[n].next
            /\ BlockEnd(b, n) <= e /\ Base <= a
        BY <1>2 DEF Tiles
      <4>2. b[n].next # n
        BY <4>1, <1>3 DEF NULL
      <4>3. QED
        BY <3>1, <4>1, <4>2, <1>5, <1>7
    <3>2. CASE x # a
      <4>1. /\ b[x].next = NULL \/ b[x].next \in DOMAIN b
            /\ BlockEnd(b, x) = IF b[x].next = NULL THEN e ELSE b[x].next
            /\ BlockEnd(b, x) <= e /\ Base <= x
        BY <1>5 DEF Tiles
      <4>2. r[x] = b[x] /\ BlockEnd(r, x) = BlockEnd(b, x) /\ b[x].next # n
        BY <3>2, <1>5, <1>7, <1>8
      <4>3. QED
        BY <4>1, <4>2, <1>5
    <3>3. QED
      BY <3>1, <3>2
  <2>5. ASSUME NEW x \in DOMAIN r, NEW c \in DOMAIN r, x < c
        PROVE  BlockEnd(r, x) <= c
    <3>1. x \in DOMAIN b /\ c \in DOMAIN b /\ c # n /\ c \in Nat
      BY <1>5 DEF Tiles
    <3>2. BlockEnd(b, x) <= c
      BY <2>5, <3>1 DEF Tiles
    <3>3. CASE x = a
      <4>1. n < c
        BY <3>1, <3>2, <3>3, <1>2, <1>3
      <4>2. BlockEnd(b, n) <= c
        BY <4>1, <3>1, <1>2 DEF Tiles
      <4>3. QED
        BY <3>3, <4>2, <1>7
    <3>4. CASE x # a
      BY <3>2, <3>4, <1>7
    <3>5. QED
      BY <3>3, <3>4
  <2>6. \E x \in DOMAIN r : r[x].next = NULL
    <3>1. PICK z \in DOMAIN b : b[z].next = NULL
      BY DEF Tiles
    <3>2. CASE z = n
      BY <3>1, <3>2, <1>5
    <3>3. CASE z # n
      <4>1. z # a
        BY <3>1 DEF n
      <4>2. QED
        BY <3>1, <3>3, <4>1, <1>5
    <3>4. QED
      BY <3>2, <3>3
  <2>7. QED
    BY <1>6, <2>1, <2>2, <2>3, <2>4, <2>5, <2>6 DEF Tiles
<1>10. SameUse(b, r)
  BY <1>4, <1>5 DEF SameUse, Used
<1>11. QED
  BY <1>1, <1>2, <1>3, <1>5, <1>9, <1>10 DEF n

(* extend finds the last block, which ends where the memory does. *)
LEMMA LastIsLast ==
    ASSUME NEW b, NEW e \in Nat, Tiles(b, e)
    PROVE  LET last == LastBlock(b)
           IN  /\ last \in DOMAIN b /\ b[last].next = NULL /\ BlockEnd(b, last) = e
               /\ \A x \in DOMAIN b \ {last} : b[x].next # NULL /\ x < last /\ BlockEnd(b, x) <= last
<1> DEFINE last == LastBlock(b)
<1>1. last \in DOMAIN b /\ b[last].next = NULL
  BY DEF LastBlock, Tiles
<1> HIDE DEF last
<1>2. BlockEnd(b, last) = e
  BY <1>1 DEF Tiles
<1>3. ASSUME NEW x \in DOMAIN b \ {last}
      PROVE  b[x].next # NULL /\ x < last /\ BlockEnd(b, x) <= last
  <2>1. x \in DOMAIN b /\ x # last
    OBVIOUS
  <2>2. b[x].next # NULL
    <3> SUFFICES ASSUME b[x].next = NULL PROVE FALSE
      OBVIOUS
    <3>1. BlockEnd(b, x) = e
      BY <2>1 DEF Tiles
    <3>2. QED
      BY <1>1, <1>2, <2>1, <3>1, EndsDiffer
  <2>3. /\ x \in Nat /\ last \in Nat /\ BlockEnd(b, x) \in Nat /\ x < BlockEnd(b, x)
        /\ BlockEnd(b, x) <= e
    BY <1>1, <2>1, TilesType DEF Tiles
  <2>4. ~(last < x)
    <3> SUFFICES ASSUME last < x PROVE FALSE
      OBVIOUS
    <3>1. BlockEnd(b, last) <= x
      BY <1>1, <2>1 DEF Tiles
    <3>2. QED
      BY <3>1, <1>2, <2>3
  <2>5. x < last
    BY <2>1, <2>3, <2>4
  <2>6. QED
    BY <1>1, <2>1, <2>2, <2>5 DEF Tiles
<1>4. QED
  BY <1>1, <1>2, <1>3 DEF last

(* What a larger list must have: enough room for the request that made it  *)
(* grow, and the same blocks in use.                                       *)
Grown(b, r, e, n) ==
    /\ Tiles(r, e + n) /\ SameUse(b, r)
    /\ Apart(b) => Apart(r)
    /\ \E a \in DOMAIN r : r[a].free /\ r[a].size >= n - HEADER

(* extend with a free block at the end of the region enlarges that block. *)
LEMMA ExtendFree ==
    ASSUME NEW b, NEW e \in Nat, Tiles(b, e), NEW n \in Nat, n % 4 = 0,
           b[LastBlock(b)].free
    PROVE  Grown(b, Extended(b, n), e, n)
<1> DEFINE last == LastBlock(b)
           r == [b EXCEPT ![last].size = @ + n]
<1>1. Extended(b, n) = r
  BY DEF Extended
<1>2. /\ last \in DOMAIN b /\ b[last].next = NULL /\ BlockEnd(b, last) = e
      /\ \A x \in DOMAIN b \ {last} : b[x].next # NULL /\ x < last /\ BlockEnd(b, x) <= last
  BY LastIsLast
<1>3. b[last].free
  OBVIOUS
<1> HIDE DEF last
<1>4. /\ last \in Nat /\ b[last].size \in Nat /\ HEADER \in Nat
      /\ b \in [DOMAIN b -> Headers] /\ e % 4 = 0
  <2>1. last \in Nat /\ b[last].size \in Nat /\ HEADER \in Nat /\ b \in [DOMAIN b -> Headers]
    BY <1>2, TilesType DEF Tiles
  <2>2. last % 4 = 0 /\ b[last].size % 4 = 0 /\ HEADER % 4 = 0
    BY <1>2, WordSizes DEF Tiles
  <2>4. (last + HEADER + b[last].size) % 4 = 0
    BY <2>1, <2>2, ThreeWords
  <2>5. QED
    BY <1>2, <2>1, <2>4 DEF BlockEnd
<1>5. /\ DOMAIN r = DOMAIN b /\ r \in [DOMAIN r -> Headers]
      /\ r[last].size = b[last].size + n /\ r[last].next = b[last].next
      /\ r[last].free = b[last].free
      /\ \A x \in DOMAIN b \ {last} : r[x] = b[x]
  BY <1>2, <1>4 DEF Headers
<1> HIDE DEF r
<1>6. /\ BlockEnd(r, last) = e + n
      /\ \A x \in DOMAIN b \ {last} : BlockEnd(r, x) = BlockEnd(b, x)
  <2>1. BlockEnd(r, last) = e + n
    BY <1>2, <1>4, <1>5 DEF BlockEnd
  <2>2. QED
    BY <2>1, <1>5 DEF BlockEnd
<1>7. Tiles(r, e + n)
  <2>1. \A x \in DOMAIN r : x % 4 = 0 /\ r[x].size % 4 = 0
    <3>1. b[last].size % 4 = 0
      BY <1>2 DEF Tiles
    <3>2. (b[last].size + n) % 4 = 0
      BY <3>1, <1>4, Words
    <3>3. QED
      BY <3>2, <1>5 DEF Tiles
  <2>2. ASSUME NEW x \in DOMAIN r
        PROVE  /\ r[x].next = NULL \/ r[x].next \in DOMAIN r
               /\ BlockEnd(r, x) = IF r[x].next = NULL THEN e + n ELSE r[x].next
               /\ BlockEnd(r, x) <= e + n /\ Base <= x
    <3>1. CASE x = last
      BY <3>1, <1>2, <1>5, <1>6 DEF Tiles
    <3>2. CASE x # last
      <4>1. x \in DOMAIN b /\ r[x] = b[x] /\ b[x].next # NULL /\ BlockEnd(r, x) = BlockEnd(b, x)
        BY <3>2, <1>2, <1>5, <1>6
      <4>2. BlockEnd(b, x) <= e /\ BlockEnd(b, x) \in Nat
        BY <4>1, TilesType DEF Tiles
      <4>3. BlockEnd(b, x) <= e + n
        BY <4>2
      <4>4. QED
        BY <4>1, <4>3, <1>5 DEF Tiles
    <3>3. QED
      BY <3>1, <3>2
  <2>3. ASSUME NEW x \in DOMAIN r, NEW c \in DOMAIN r, x < c
        PROVE  BlockEnd(r, x) <= c
    <3>1. x # last
      <4> SUFFICES ASSUME x = last PROVE FALSE
        OBVIOUS
      <4>1. c \in Nat /\ c # last /\ c < last
        BY <2>3, <1>2, <1>4, <1>5 DEF Tiles
      <4>2. QED
        BY <2>3, <4>1, <1>4
    <3>2. QED
      BY <2>3, <3>1, <1>5, <1>6 DEF Tiles
  <2>4. \E x \in DOMAIN r : r[x].next = NULL
    BY <1>2, <1>5
  <2>5. QED
    BY <1>5, <2>1, <2>2, <2>3, <2>4 DEF Tiles
<1>8. SameUse(b, r)
  BY <1>3, <1>5 DEF SameUse, Used
<1>9. Apart(b) => Apart(r)
  <2>1. \A x \in DOMAIN b : r[x].next = b[x].next /\ r[x].free = b[x].free
    BY <1>5
  <2>2. QED
    BY <2>1, <1>5 DEF Apart
<1>10. r[last].free /\ r[last].size >= n - HEADER
  BY <1>3, <1>4, <1>5
<1>11. QED
  BY <1>1, <1>2, <1>5, <1>7, <1>8, <1>9, <1>10 DEF Grown

(* extend with a used block at the end of the region appends a free one. *)
LEMMA ExtendUsed ==
    ASSUME NEW b, NEW e \in Nat, Tiles(b, e), NEW n \in Nat, n % 4 = 0, n >= HEADER,
           ~b[LastBlock(b)].free
    PROVE  Grown(b, Extended(b, n), e, n)
<1> DEFINE last == LastBlock(b)
           new == last + HEADER + b[last].size
           r == [x \in DOMAIN b \cup {new} |->
                   CASE x = new  -> Header(n - HEADER, TRUE, NULL)
                     [] x = last -> [b[last] EXCEPT !.next = new]
                     [] OTHER    -> b[x]]
<1>1. Extended(b, n) = r
  BY DEF Extended
<1>2. /\ last \in DOMAIN b /\ b[last].next = NULL /\ BlockEnd(b, last) = e
      /\ \A x \in DOMAIN b \ {last} : b[x].next # NULL /\ x < last /\ BlockEnd(b, x) <= last
  BY LastIsLast
<1>3. ~b[last].free
  OBVIOUS
<1> HIDE DEF last
<1>4. new = e
  BY <1>2 DEF BlockEnd
<1>5. /\ last \in Nat /\ b[last] \in Headers /\ b[last].size \in Nat /\ HEADER \in Nat
      /\ HEADER % 4 = 0 /\ last < e
      /\ b \in [DOMAIN b -> Headers] /\ e % 4 = 0
  <2>1. last \in Nat /\ b[last].size \in Nat /\ HEADER \in Nat /\ b \in [DOMAIN b -> Headers]
        /\ b[last] \in Headers /\ last < BlockEnd(b, last)
    BY <1>2, TilesType DEF Tiles
  <2>2. last % 4 = 0 /\ b[last].size % 4 = 0 /\ HEADER % 4 = 0
    BY <1>2, WordSizes DEF Tiles
  <2>4. (last + HEADER + b[last].size) % 4 = 0
    BY <2>1, <2>2, ThreeWords
  <2>5. QED
    BY <1>2, <2>1, <2>2, <2>4 DEF BlockEnd
<1>6. e \notin DOMAIN b
  <2> SUFFICES ASSUME e \in DOMAIN b PROVE FALSE
    OBVIOUS
  <2>1. BlockEnd(b, e) <= e /\ e < BlockEnd(b, e) /\ BlockEnd(b, e) \in Nat
    BY TilesType DEF Tiles
  <2>2. QED
    BY <2>1
<1> HIDE DEF new
<1>7. /\ DOMAIN r = DOMAIN b \cup {e}
      /\ r[e].size = n - HEADER /\ r[e].free = TRUE /\ r[e].next = NULL
      /\ r[last].size = b[last].size /\ r[last].free = b[last].free /\ r[last].next = e
      /\ \A x \in DOMAIN b \ {last} : r[x] = b[x]
  <2>1. last # e
    BY <1>5
  <2>2. r[e].size = n - HEADER /\ r[e].free = TRUE /\ r[e].next = NULL
    BY <1>4, <2>1 DEF Header
  <2>3. r[last].size = b[last].size /\ r[last].free = b[last].free /\ r[last].next = e
    BY <1>2, <1>4, <1>5, <2>1 DEF Headers
  <2>4. \A x \in DOMAIN b \ {last} : r[x] = b[x]
    BY <1>4, <1>6
  <2>5. DOMAIN r = DOMAIN b \cup {e}
    BY <1>4
  <2> HIDE DEF r
  <2>6. QED
    BY <2>2, <2>3, <2>4, <2>5
<1>8. r \in [DOMAIN r -> Headers]
  <2>1. Header(n - HEADER, TRUE, NULL) \in Headers
    <3>1. n - HEADER \in Nat
      BY <1>5
    <3>2. QED
      BY <3>1 DEF Header, Headers, NULL
  <2>2. [b[last] EXCEPT !.next = new] \in Headers
    BY <1>4, <1>5 DEF Headers
  <2>3. \A x \in DOMAIN b : b[x] \in Headers
    BY <1>5
  <2>4. QED
    BY <2>1, <2>2, <2>3
<1> HIDE DEF r
<1>9. /\ BlockEnd(r, e) = e + n /\ BlockEnd(r, last) = e
      /\ \A x \in DOMAIN b \ {last} : BlockEnd(r, x) = BlockEnd(b, x)
  <2>1. BlockEnd(r, e) = e + n
    BY <1>5, <1>7 DEF BlockEnd
  <2>2. BlockEnd(r, last) = e
    BY <1>2, <1>7 DEF BlockEnd
  <2>3. QED
    BY <2>1, <2>2, <1>7 DEF BlockEnd
<1>10. Tiles(r, e + n)
  <2>1. /\ DOMAIN r \subseteq Nat \ {0} /\ Base \in DOMAIN r
        /\ \A x \in DOMAIN r : x % 4 = 0 /\ r[x].size % 4 = 0
    <3>1. (n - HEADER) % 4 = 0
      BY <1>5, Words
    <3>2. e # 0
      BY <1>5
    <3>3. \A x \in DOMAIN b : x % 4 = 0 /\ b[x].size % 4 = 0
      BY DEF Tiles
    <3>4. \A x \in DOMAIN r : x % 4 = 0 /\ r[x].size % 4 = 0
      BY <3>1, <3>3, <1>5, <1>7
    <3>5. QED
      BY <3>2, <3>4, <1>7 DEF Tiles
  <2>2. IsFiniteSet(DOMAIN r)
    BY <1>7, FS_AddElement DEF Tiles
  <2>3. ASSUME NEW x \in DOMAIN r
        PROVE  /\ r[x].next = NULL \/ r[x].next \in DOMAIN r
               /\ BlockEnd(r, x) = IF r[x].next = NULL THEN e + n ELSE r[x].next
               /\ BlockEnd(r, x) <= e + n /\ Base <= x
    <3>0. Base \in Nat /\ Base <= last
      BY <1>2, HeapAssumption DEF Tiles
    <3>1. CASE x = last
      <4>1. e # NULL /\ e <= e + n
        BY <1>5 DEF NULL
      <4>2. QED
        BY <3>0, <3>1, <4>1, <1>7, <1>9
    <3>2. CASE x = e
      <4>1. Base <= e
        BY <3>0, <1>5
      <4>2. QED
        BY <3>2, <4>1, <1>7, <1>9
    <3>3. CASE x \in DOMAIN b \ {last}
      <4>1. r[x] = b[x] /\ b[x].next # NULL /\ BlockEnd(r, x) = BlockEnd(b, x)
        BY <3>3, <1>2, <1>7, <1>9
      <4>2. BlockEnd(b, x) <= e /\ BlockEnd(b, x) \in Nat
        BY <3>3, TilesType DEF Tiles
      <4>3. BlockEnd(b, x) <= e + n
        BY <4>2
      <4>4. QED
        BY <3>3, <4>1, <4>3, <1>7 DEF Tiles
    <3>4. QED
      BY <3>1, <3>2, <3>3, <1>7
  <2>4. ASSUME NEW x \in DOMAIN r, NEW c \in DOMAIN r, x < c
        PROVE  BlockEnd(r, x) <= c
    <3>1. \A y \in DOMAIN b : y \in Nat /\ y < e /\ BlockEnd(b, y) <= e
      <4> SUFFICES ASSUME NEW y \in DOMAIN b PROVE y \in Nat /\ y < e /\ BlockEnd(b, y) <= e
        OBVIOUS
      <4>1. y \in Nat /\ y < BlockEnd(b, y) /\ BlockEnd(b, y) <= e /\ BlockEnd(b, y) \in Nat
        BY TilesType DEF Tiles
      <4>2. QED
        BY <4>1
    <3>2. x # e /\ x \in DOMAIN b
      <4>1. c \in Nat /\ c <= e
        BY <3>1, <1>7
      <4>2. x # e
        BY <2>4, <4>1
      <4>3. QED
        BY <4>2, <1>7
    <3>3. BlockEnd(r, x) = BlockEnd(b, x)
      BY <3>2, <1>2, <1>9
    <3>4. CASE c = e
      BY <3>1, <3>2, <3>3, <3>4
    <3>5. CASE c \in DOMAIN b
      BY <2>4, <3>2, <3>3, <3>5 DEF Tiles
    <3>6. QED
      BY <3>4, <3>5, <1>7
  <2>5. \E x \in DOMAIN r : r[x].next = NULL
    BY <1>7
  <2>6. QED
    BY <1>8, <2>1, <2>2, <2>3, <2>4, <2>5 DEF Tiles
<1>11. SameUse(b, r)
  BY <1>2, <1>3, <1>6, <1>7 DEF SameUse, Used
<1>12. Apart(b) => Apart(r)
  <2> SUFFICES ASSUME Apart(b), NEW x \in DOMAIN r, NEW c \in DOMAIN r, r[x].next = c,
                      r[x].free, r[c].free
               PROVE  FALSE
    BY DEF Apart
  <2>1. x # last /\ c # last
    BY <1>3, <1>7
  <2>2. x # e
    <3> SUFFICES ASSUME x = e PROVE FALSE
      OBVIOUS
    <3>1. c = NULL
      BY <1>7
    <3>2. QED
      BY <3>1, <1>10 DEF Tiles, NULL
  <2>3. x \in DOMAIN b /\ b[x].next = c /\ b[x].free
    BY <2>1, <2>2, <1>7
  <2>4. c # e
    <3>1. b[x].next = NULL \/ b[x].next \in DOMAIN b
      BY <2>3 DEF Tiles
    <3>2. QED
      BY <2>3, <3>1, <1>5, <1>6 DEF NULL
  <2>5. c \in DOMAIN b /\ b[c].free
    BY <2>1, <2>4, <1>7
  <2>6. QED
    BY <2>3, <2>5 DEF Apart
<1>13. e \in DOMAIN r /\ r[e].free /\ r[e].size >= n - HEADER
  BY <1>5, <1>7
<1>14. QED
  BY <1>1, <1>10, <1>11, <1>12, <1>13 DEF Grown

-----------------------------------------------------------------------------
(* The loop of free.                                                       *)

(* The states of the loop over the list b, and the blocks still ahead. *)
Passes(b) == [list : UNION {[D -> Headers] : D \in SUBSET DOMAIN b}, at : Nat]
Ahead(s) == IF s.at = NULL THEN {} ELSE {c \in DOMAIN s.list : c >= s.at}

(* Behind the block that the loop looks at no two free blocks are          *)
(* neighbours.                                                             *)
PassInv(b, e, s) ==
    /\ s \in Passes(b)
    /\ Tiles(s.list, e) /\ SameUse(b, s.list)
    /\ s.at = NULL \/ s.at \in DOMAIN s.list
    /\ \A a, c \in DOMAIN s.list :
          s.list[a].next = c /\ (s.at = NULL \/ a < s.at) => ~(s.list[a].free /\ s.list[c].free)

(* Rounds of the loop of free that each leave the used blocks alone do so together. *)
LEMMA SameUseTransitive ==
    ASSUME NEW b, NEW r, NEW q, SameUse(b, r), SameUse(r, q)
    PROVE  SameUse(b, q)
BY DEF SameUse

(* A round removes the block after the one it looks at, or moves past it. *)
LEMMA RoundPass ==
    ASSUME NEW b, NEW e \in Nat, NEW s, PassInv(b, e, s)
    PROVE  LET q == Round(s)
           IN  /\ PassInv(b, e, q)
               /\ s.at # NULL => \E z \in Ahead(s) : Ahead(q) = Ahead(s) \ {z}
<1> DEFINE l == s.list
           a == s.at
           n == l[a].next
           Merge == l[a].free /\ l[a].next # NULL /\ l[l[a].next].free
<1>1. /\ s = [list |-> l, at |-> a] /\ a \in Nat /\ DOMAIN l \subseteq DOMAIN b
      /\ Tiles(l, e) /\ SameUse(b, l)
      /\ a = NULL \/ a \in DOMAIN l
      /\ \A x, c \in DOMAIN l : l[x].next = c /\ (a = NULL \/ x < a) => ~(l[x].free /\ l[c].free)
  <2>1. s \in Passes(b)
    BY DEF PassInv
  <2>2. s = [list |-> l, at |-> a] /\ a \in Nat
    BY <2>1 DEF Passes
  <2>3. l \in UNION {[D -> Headers] : D \in SUBSET DOMAIN b}
    BY <2>1 DEF Passes
  <2>4. PICK D \in SUBSET DOMAIN b : l \in [D -> Headers]
    BY <2>3
  <2>5. DOMAIN l \subseteq DOMAIN b
    BY <2>4
  <2>6. QED
    BY <2>2, <2>5 DEF PassInv
<1>2. ASSUME NEW r, NEW t \in Nat, r \in [DOMAIN r -> Headers], DOMAIN r \subseteq DOMAIN b
      PROVE  [list |-> r, at |-> t] \in Passes(b)
  <2>1. r \in UNION {[D -> Headers] : D \in SUBSET DOMAIN b}
    BY <1>2
  <2>2. QED
    BY <2>1 DEF Passes
<1>3. CASE a = NULL
  BY <1>3 DEF Round
<1>4. CASE a # NULL /\ Merge
  <2> DEFINE r == Absorb(l, a)
             q == [list |-> r, at |-> a]
  <2>1. Round(s) = q
    BY <1>1, <1>4 DEF Round
  <2>2. /\ Tiles(r, e) /\ SameUse(l, r) /\ n \in DOMAIN l /\ a < n
        /\ DOMAIN r = DOMAIN l \ {n} /\ \A x \in DOMAIN r \ {a} : r[x] = l[x]
    <3> HIDE DEF l, a
    <3>1. QED
      BY <1>1, <1>4, AbsorbTiles
  <2> HIDE DEF r, l, a, n
  <2>3. q \in Passes(b)
    <3>1. r \in [DOMAIN r -> Headers] /\ DOMAIN r \subseteq DOMAIN b
      BY <1>1, <2>2 DEF Tiles
    <3>2. QED
      BY <1>1, <1>2, <3>1
  <2>4. SameUse(b, r)
    BY <1>1, <2>2, SameUseTransitive
  <2>5. a \in DOMAIN r
    <3>1. a # n
      BY <1>1, <2>2 DEF Tiles
    <3>2. QED
      BY <1>1, <1>4, <2>2, <3>1
  <2>6. ASSUME NEW x \in DOMAIN r, NEW c \in DOMAIN r, r[x].next = c, a = NULL \/ x < a
        PROVE  ~(r[x].free /\ r[c].free)
    <3>1. x # a /\ x < a /\ x \in DOMAIN l /\ c \in DOMAIN l
      BY <1>1, <1>4, <2>2, <2>6
    <3>2. r[x] = l[x]
      BY <2>2, <3>1
    <3>3. ~(l[x].free /\ l[c].free)
      BY <1>1, <2>6, <3>1, <3>2
    <3>4. CASE c = a
      BY <1>4, <3>2, <3>3, <3>4 DEF Merge, l, a
    <3>5. CASE c # a
      BY <2>2, <3>2, <3>3, <3>5
    <3>6. QED
      BY <3>4, <3>5
  <2>7. q.list = r /\ q.at = a
    OBVIOUS
  <2> HIDE DEF q
  <2>8. PassInv(b, e, q)
    BY <2>2, <2>3, <2>4, <2>5, <2>6, <2>7 DEF PassInv
  <2>9. n \in Ahead(s) /\ Ahead(q) = Ahead(s) \ {n}
    <3>1. Ahead(s) = {c \in DOMAIN l : c >= a}
      BY <1>4 DEF Ahead, l, a
    <3>2. Ahead(q) = {c \in DOMAIN r : c >= a}
      BY <1>4, <2>7 DEF Ahead
    <3>3. n \in Nat
      BY <1>1, <2>2 DEF Tiles
    <3>4. QED
      BY <1>1, <2>2, <3>1, <3>2, <3>3
  <2>10. QED
    BY <2>1, <2>8, <2>9
<1>5. CASE a # NULL /\ ~Merge
  <2> DEFINE q == [list |-> l, at |-> n]
  <2>1. Round(s) = q
    BY <1>1, <1>5 DEF Round
  <2>2. a \in DOMAIN l
    BY <1>1, <1>5
  <2>3. /\ n = NULL \/ n \in DOMAIN l
        /\ BlockEnd(l, a) = IF n = NULL THEN e ELSE n
        /\ n \in Nat /\ a < BlockEnd(l, a) /\ BlockEnd(l, a) \in Nat
    <3> HIDE DEF l, a
    <3>1. QED
      BY <1>1, <2>2, TilesType DEF Tiles
  <2>4. n # NULL => ~(l[a].free /\ l[n].free)
    BY <1>5
  <2> HIDE DEF l, a, n
  <2>5. q \in Passes(b)
    BY <1>1, <1>2, <2>3 DEF Tiles
  <2>6. ASSUME NEW x \in DOMAIN l, x > a PROVE x >= BlockEnd(l, a) /\ n # NULL /\ x >= n
    <3>1. x >= BlockEnd(l, a) /\ x \in Nat /\ x < BlockEnd(l, x) /\ BlockEnd(l, x) <= e
          /\ BlockEnd(l, x) \in Nat
      <4>1. x \in Nat /\ x < BlockEnd(l, x) /\ BlockEnd(l, x) <= e /\ BlockEnd(l, x) \in Nat
        BY <1>1, TilesType DEF Tiles
      <4>2. BlockEnd(l, a) <= x
        BY <1>1, <2>2, <2>6, <4>1 DEF Tiles
      <4>3. QED
        BY <2>3, <4>1, <4>2
    <3>2. QED
      BY <2>3, <3>1
  <2>7. ASSUME NEW x \in DOMAIN l, NEW c \in DOMAIN l, l[x].next = c, n = NULL \/ x < n
        PROVE  ~(l[x].free /\ l[c].free)
    <3>0. x \in Nat
      BY <1>1 DEF Tiles
    <3>1. CASE x < a
      BY <1>1, <2>7, <3>1
    <3>2. CASE x = a
      <4>1. c = n
        BY <2>7, <3>2 DEF n, l, a
      <4>2. n # NULL
        BY <4>1, <1>1 DEF Tiles, NULL
      <4>3. QED
        BY <2>4, <3>2, <4>1, <4>2
    <3>3. CASE x > a
      <4>1. n # NULL /\ x >= n
        BY <2>6, <3>3
      <4>2. QED
        BY <2>3, <2>7, <3>0, <4>1
    <3>4. QED
      BY <1>1, <3>0, <3>1, <3>2, <3>3
  <2>8. q.list = l /\ q.at = n
    OBVIOUS
  <2> HIDE DEF q
  <2>9. PassInv(b, e, q)
    BY <1>1, <2>3, <2>5, <2>7, <2>8 DEF PassInv
  <2>10. a \in Ahead(s) /\ Ahead(q) = Ahead(s) \ {a}
    <3>0. Ahead(s) = {c \in DOMAIN l : c >= a}
      BY <1>5 DEF Ahead, l, a
    <3>1. \A c \in DOMAIN l : c \in Nat
      BY <1>1 DEF Tiles
    <3>2. CASE n = NULL
      <4>1. Ahead(q) = {}
        BY <2>8, <3>2 DEF Ahead
      <4>2. \A c \in DOMAIN l : c >= a => c = a
        BY <1>1, <2>6, <3>1, <3>2
      <4>3. QED
        BY <1>1, <2>2, <3>0, <4>1, <4>2
    <3>3. CASE n # NULL
      <4>1. Ahead(q) = {c \in DOMAIN l : c >= n}
        BY <2>8, <3>3 DEF Ahead
      <4>2. a < n
        BY <2>3, <3>3
      <4>3. \A c \in DOMAIN l : c >= n <=> c >= a /\ c # a
        BY <1>1, <2>3, <2>6, <3>1, <4>2
      <4>4. QED
        BY <1>1, <2>2, <3>0, <4>1, <4>3
    <3>4. QED
      BY <3>2, <3>3
  <2>11. QED
    BY <2>1, <2>9, <2>10
<1>6. QED
  BY <1>3, <1>4, <1>5

(* The whole loop: it reaches the end of the list, and leaves no two free  *)
(* blocks side by side and every block in use as it was.                   *)
LEMMA RoundsPass ==
    ASSUME NEW b, NEW e \in Nat, Tiles(b, e)
    PROVE  /\ Rounds(b).at = NULL
           /\ Tiles(Rounds(b).list, e) /\ SameUse(b, Rounds(b).list) /\ Apart(Rounds(b).list)
<1> DEFINE n == Cardinality(DOMAIN b)
           s0 == [list |-> b, at |-> Base]
           X == {s \in Passes(b) : PassInv(b, e, s)}
           step == [x \in X \X (1 .. n) |-> Round(x[1])]
           d == CHOOSE g : g = [i \in 0 .. n |-> IF i = 0 THEN s0 ELSE Round(g[i - 1])]
<1>1. Rounds(b) = d[n]
  BY DEF Rounds
<1>2. n \in Nat /\ IsFiniteSet(DOMAIN b)
  BY FS_CardinalityType DEF Tiles
<1>3. PassInv(b, e, s0) /\ Ahead(s0) = DOMAIN b
  <2>1. b \in [DOMAIN b -> Headers] /\ Base \in DOMAIN b /\ Base \in Nat /\ Base # NULL
    BY HeapAssumption DEF Tiles, NULL
  <2>2. b \in UNION {[D -> Headers] : D \in SUBSET DOMAIN b}
    BY <2>1
  <2>3. s0 \in Passes(b)
    BY <2>1, <2>2 DEF Passes
  <2>4. \A a \in DOMAIN b : a \in Nat /\ Base <= a
    BY DEF Tiles
  <2>5. s0.list = b /\ s0.at = Base
    OBVIOUS
  <2> HIDE DEF s0
  <2>6. SameUse(b, b)
    BY DEF SameUse
  <2>7. \A a \in DOMAIN b : ~(a < Base) /\ a >= Base
    BY <2>1, <2>4
  <2>8. PassInv(b, e, s0)
    BY <2>1, <2>3, <2>5, <2>6, <2>7 DEF PassInv
  <2>9. Ahead(s0) = DOMAIN b
    BY <2>1, <2>5, <2>7 DEF Ahead
  <2>10. QED
    BY <2>8, <2>9
<1>4. s0 \in X
  BY <1>3 DEF PassInv
<1>5. step \in [X \X (1 .. n) -> X]
  <2> SUFFICES ASSUME NEW x \in X \X (1 .. n) PROVE Round(x[1]) \in X
    OBVIOUS
  <2>1. PassInv(b, e, x[1])
    OBVIOUS
  <2>2. PassInv(b, e, Round(x[1]))
    BY <2>1, RoundPass
  <2>3. QED
    BY <2>2 DEF PassInv
<1>6. PICK g : IsTrace(g, n, X, s0, step)
  <2> HIDE DEF n, X, step, s0
  <2>1. QED
    BY <1>2, <1>4, <1>5, LoopTrace
<1>7. g = [i \in 0 .. n |-> IF i = 0 THEN s0 ELSE Round(g[i - 1])]
  <2>1. g \in [0 .. n -> X] /\ g[0] = s0
    BY <1>6 DEF IsTrace
  <2>2. ASSUME NEW i \in 1 .. n PROVE g[i] = Round(g[i - 1])
    <3>1. g[i] = step[<<g[i - 1], i>>]
      BY <1>6 DEF IsTrace
    <3>2. i - 1 \in 0 .. n
      BY <1>2
    <3>3. <<g[i - 1], i>> \in X \X (1 .. n)
      BY <3>2, <2>1
    <3>4. QED
      BY <3>1, <3>3
  <2>3. ASSUME NEW i \in 0 .. n PROVE i = 0 \/ i \in 1 .. n
    BY <1>2
  <2> HIDE DEF n, X, step, s0
  <2>4. QED
    BY <2>1, <2>2, <2>3
<1>8. d = [i \in 0 .. n |-> IF i = 0 THEN s0 ELSE Round(d[i - 1])]
  BY <1>7
<1> HIDE DEF d
<1> DEFINE S == {i \in 0 .. n : /\ PassInv(b, e, d[i]) /\ IsFiniteSet(Ahead(d[i]))
                                /\ Cardinality(Ahead(d[i])) = n - i}
<1>9. 0 \in S
  <2>1. d[0] = s0 /\ 0 \in 0 .. n
    BY <1>2, <1>8
  <2> HIDE DEF s0
  <2>2. Cardinality(Ahead(d[0])) = n - 0
    BY <1>2, <1>3, <2>1
  <2>3. QED
    BY <1>2, <1>3, <2>1, <2>2
<1>10. ASSUME NEW i \in 1 .. n, i - 1 \in S PROVE i \in S
  <2> DEFINE s == d[i - 1]
             q == Round(s)
  <2>1. PassInv(b, e, s) /\ IsFiniteSet(Ahead(s)) /\ Cardinality(Ahead(s)) = n - (i - 1)
    BY <1>10
  <2>2. d[i] = q /\ i \in 0 .. n
    BY <1>2, <1>8
  <2> HIDE DEF n, s
  <2>3. s.at # NULL
    <3> SUFFICES ASSUME s.at = NULL PROVE FALSE
      OBVIOUS
    <3>1. Cardinality(Ahead(s)) = 0
      BY FS_EmptySet DEF Ahead
    <3>2. QED
      BY <1>2, <2>1, <3>1
  <2>4. PassInv(b, e, q) /\ \E z \in Ahead(s) : Ahead(q) = Ahead(s) \ {z}
    BY <2>1, <2>3, RoundPass
  <2> HIDE DEF q
  <2>5. PICK z \in Ahead(s) : Ahead(q) = Ahead(s) \ {z}
    BY <2>4
  <2>6. IsFiniteSet(Ahead(q)) /\ Cardinality(Ahead(q)) = Cardinality(Ahead(s)) - 1
    BY <2>1, <2>5, FS_RemoveElement
  <2>7. Cardinality(Ahead(q)) = n - i
    BY <1>2, <2>1, <2>6
  <2>8. QED
    BY <2>2, <2>4, <2>6, <2>7
<1>11. n \in S
  <2> HIDE DEF n, S
  <2>1. 0 .. n \subseteq S
    BY <1>2, <1>9, <1>10, RoundInduction
  <2>2. QED
    BY <1>2, <2>1
<1> DEFINE f == d[n]
<1>12. PassInv(b, e, f) /\ IsFiniteSet(Ahead(f)) /\ Cardinality(Ahead(f)) = 0
  <2>1. n - n = 0
    BY <1>2
  <2> HIDE DEF n
  <2>2. QED
    BY <1>11, <2>1
<1> HIDE DEF f
<1>13. f.at = NULL
  <2> SUFFICES ASSUME f.at # NULL PROVE FALSE
    OBVIOUS
  <2>1. f.at \in DOMAIN f.list /\ Tiles(f.list, e)
    BY <1>12 DEF PassInv
  <2>2. f.at \in Nat
    BY <2>1 DEF Tiles
  <2>3. f.at \in Ahead(f)
    BY <2>1, <2>2 DEF Ahead
  <2>4. Ahead(f) = {}
    BY <1>12, FS_EmptySet
  <2>5. QED
    BY <2>3, <2>4
<1>14. Tiles(f.list, e) /\ SameUse(b, f.list) /\ Apart(f.list)
  BY <1>12, <1>13 DEF PassInv, Apart
<1>15. QED
  BY <1>1, <1>13, <1>14 DEF f

-----------------------------------------------------------------------------
(* Sizes.                                                                  *)

(* A number below the word size does not wrap. *)
LEMMA SmallMod ==
    ASSUME NEW x \in Nat, NEW w \in Nat \ {0}, x < w
    PROVE  x % w = x
<1>1. /\ x \div w \in Nat /\ x % w \in 0 .. w - 1
      /\ x = w * (x \div w) + (x % w)
  BY DivMod
<1> DEFINE q == x \div w
           m == x % w
<1>2. q \in Nat /\ m \in Nat /\ x = w * q + m
  BY <1>1
<1> HIDE DEF q, m
<1>3. q = 0
  <2> SUFFICES ASSUME q >= 1 PROVE FALSE
    BY <1>2
  <2>1. w * q >= w * 1
    BY <1>2
  <2>2. w * q \in Nat /\ w * 1 = w
    BY <1>2
  <2>3. QED
    BY <1>2, <2>1, <2>2
<1>4. QED
  BY <1>2, <1>3 DEF m

(* "Align size to 4 bytes." *)
LEMMA AlignedFits ==
    ASSUME NEW size \in Requests
    PROVE  /\ size \in Nat /\ Aligned(size) \in Nat /\ Aligned(size) % 4 = 0
           /\ size <= Aligned(size) /\ Aligned(size) <= size + 3
<1>1. size \in Nat /\ HEADER >= 4 /\ size + 3 < WIDTH /\ WIDTH \in Nat \ {0}
  BY HeapAssumption
<1>2. (size + 3) % WIDTH = size + 3
  BY <1>1, SmallMod
<1>3. Aligned(size) = ((size + 3) \div 4) * 4
  BY <1>2 DEF Aligned
<1>4. QED
  BY <1>1, <1>3

(* heap::alloc asks sbrk for whole pages, enough for the request. *)
LEMMA NeededFits ==
    ASSUME NEW size \in Requests
    PROVE  /\ Needed(size) \in Nat /\ Needed(size) % 4 = 0
           /\ Needed(size) - HEADER >= Aligned(size) /\ Needed(size) >= HEADER
<1> DEFINE x == size + HEADER + PAGE + PAGE - 1
<1>1. /\ size \in Nat /\ HEADER \in Nat /\ HEADER >= 4 /\ PAGE \in Nat \ {0} /\ PAGE > HEADER
      /\ WIDTH \in Nat /\ size + HEADER + 2 * PAGE < WIDTH /\ PAGE % 4 = 0
  BY HeapAssumption
<1>2. x \in Nat /\ x < WIDTH /\ WIDTH \in Nat \ {0}
  BY <1>1
<1> DEFINE q == x \div PAGE
           m == x % PAGE
           k == PAGE \div 4
<1>3. x % WIDTH = x
  <2> HIDE DEF x
  <2>1. QED
    BY <1>2, SmallMod
<1>4. Needed(size) = q * PAGE
  BY <1>3 DEF Needed
<1>5. q \in Nat /\ m \in 0 .. PAGE - 1 /\ x = PAGE * q + m
  <2> HIDE DEF x
  <2>1. QED
    BY <1>1, <1>2, DivMod
<1>6. k \in Nat /\ PAGE = 4 * k
  BY <1>1
<1> HIDE DEF q, m, k
<1>7. q * PAGE \in Nat /\ q * PAGE = PAGE * q
  BY <1>1, <1>5
<1>8. (q * PAGE) % 4 = 0
  <2>1. q * PAGE = 4 * (q * k) /\ q * k \in Nat
    BY <1>5, <1>6
  <2> DEFINE j == q * k
  <2> HIDE DEF j
  <2>2. ASSUME NEW y \in Nat PROVE (4 * y) % 4 = 0
    OBVIOUS
  <2>3. QED
    BY <2>1, <2>2
<1>9. q * PAGE >= size + HEADER + PAGE
  BY <1>1, <1>5, <1>7
<1>10. Aligned(size) \in Nat /\ Aligned(size) <= size + 3
  BY AlignedFits
<1>11. QED
  BY <1>1, <1>4, <1>7, <1>8, <1>9, <1>10

(* HeapAllocator's constructor. *)
LEMMA ConstructedTiles ==
    Tiles(Constructed, Base + PAGE) /\ Used(Constructed) = {} /\ Apart(Constructed)
<1> DEFINE b == Constructed
<1>1. /\ Base \in Nat /\ Base # 0 /\ Base % 4 = 0 /\ PAGE \in Nat /\ PAGE % 4 = 0
      /\ HEADER \in Nat /\ HEADER % 4 = 0 /\ PAGE > HEADER
  BY HeapAssumption
<1>2. /\ DOMAIN b = {Base} /\ b[Base].size = PAGE - HEADER /\ b[Base].free = TRUE
      /\ b[Base].next = NULL
  BY DEF Constructed, Header
<1>3. b \in [{Base} -> Headers]
  <2>1. PAGE - HEADER \in Nat
    BY <1>1
  <2>2. QED
    BY <2>1 DEF Constructed, Header, Headers, NULL
<1> HIDE DEF b
<1>4. (PAGE - HEADER) % 4 = 0
  <2>1. PAGE >= HEADER => (PAGE - HEADER) % 4 = 0
    BY <1>1, Words
  <2>2. PAGE >= HEADER
    BY <1>1
  <2>3. QED
    BY <2>1, <2>2
<1>5. BlockEnd(b, Base) = Base + PAGE
  BY <1>1, <1>2 DEF BlockEnd
<1>6. IsFiniteSet({Base})
  BY FS_Singleton
<1>7. Tiles(b, Base + PAGE)
  BY <1>1, <1>2, <1>3, <1>4, <1>5, <1>6 DEF Tiles
<1>8. Used(b) = {} /\ Apart(b)
  BY <1>1, <1>2 DEF Used, Apart, NULL
<1>9. QED
  BY <1>7, <1>8 DEF b

-----------------------------------------------------------------------------
(* The steps of the program.                                               *)

HeapInv ==
    \/ blocks = <<>> /\ live = {}
    \/ /\ regionEnd \in Nat /\ Tiles(blocks, regionEnd)
       /\ Holds(blocks, live) /\ Apart(blocks)

(* The other allocations keep their blocks. *)
OthersKept ==
    \A r \in live \cap live' : blocks'[r.ptr - HEADER].size = blocks[r.ptr - HEADER].size

(* The list that an allocation works on. *)
LEMMA StartedTiles ==
    ASSUME HeapInv
    PROVE  /\ StartEnd \in Nat /\ Tiles(Started, StartEnd) /\ Holds(Started, live)
           /\ Apart(Started) /\ (live # {} => Started = blocks)
<1>1. CASE blocks = <<>>
  <2>1. live = {}
    <3>1. DOMAIN blocks = {}
      BY <1>1
    <3>2. ~Tiles(blocks, regionEnd)
      BY <3>1 DEF Tiles
    <3>3. QED
      BY <3>2 DEF HeapInv
  <2>2. Started = Constructed /\ StartEnd = Base + PAGE
    BY <1>1 DEF Started, StartEnd
  <2>3. Base + PAGE \in Nat
    BY HeapAssumption
  <2>4. Holds(Constructed, live)
    BY <2>1, ConstructedTiles DEF Holds
  <2>5. QED
    BY <2>1, <2>2, <2>3, <2>4, ConstructedTiles
<1>2. CASE blocks # <<>>
  BY <1>2 DEF HeapInv, Started, StartEnd
<1>3. QED
  BY <1>1, <1>2

(* Allocations keep their blocks in a list with the same used blocks. *)
LEMMA SameUseHolds ==
    ASSUME NEW b, NEW r, NEW l, Holds(b, l), SameUse(b, r)
    PROVE  Holds(r, l)
BY DEF Holds, SameUse

(* allocate succeeds on the list b. *)
LEMMA GiveKeeps ==
    ASSUME NEW b, NEW e \in Nat, Tiles(b, e), Holds(b, live), Apart(b), NEW size \in Requests,
           Fitting(b, Aligned(size)) # {}, Give(b, size), regionEnd' = e
    PROVE  /\ HeapInv'
           /\ \A r \in live : blocks'[r.ptr - HEADER].size = b[r.ptr - HEADER].size
<1> DEFINE z == Aligned(size)
           F == Fitting(b, z)
           a == Min(F)
           new == [ptr |-> a + HEADER, size |-> size]
<1>1. blocks' = Taken(b, a, z) /\ live' = live \cup {new}
  BY DEF Give
<1>2. size \in Nat /\ z \in Nat /\ z % 4 = 0 /\ size <= z
  BY AlignedFits
<1>3. F \in SUBSET Nat /\ F # {}
  BY DEF Fitting, Tiles
<1>4. a \in F
  <2> HIDE DEF F
  <2>1. QED
    BY <1>3, MinInSet
<1>5. a \in DOMAIN b /\ b[a].free /\ b[a].size >= z
  <2> HIDE DEF a, z
  <2>1. QED
    BY <1>4 DEF Fitting
<1> HIDE DEF a, F, z
<1>6. /\ Tiles(blocks', e) /\ Used(blocks') = Used(b) \cup {a} /\ blocks'[a].size >= z
      /\ \A c \in Used(b) : blocks'[c].size = b[c].size
      /\ Apart(blocks')
  BY <1>1, <1>2, <1>5, TakenTiles
<1>7. a \notin Used(b) /\ a \in Nat /\ HEADER \in Nat /\ blocks'[a].size \in Nat
  <2>1. a \notin Used(b)
    BY <1>5 DEF Used
  <2>2. a \in DOMAIN blocks'
    BY <1>6 DEF Used
  <2>3. blocks'[a].size \in Nat
    BY <1>6, <2>2, TilesType
  <2>4. QED
    BY <1>5, <2>1, <2>3, TilesType
<1>8. new.ptr = a + HEADER /\ new.size = size /\ new \in [ptr : Nat, size : Nat]
      /\ new.ptr - HEADER = a
  BY <1>2, <1>7
<1> HIDE DEF new
<1>9. \A r \in live : /\ r.ptr - HEADER \in Used(b) /\ r.ptr \in Nat
                      /\ r.size <= b[r.ptr - HEADER].size
  BY DEF Holds
<1>10. \A r \in live : blocks'[r.ptr - HEADER].size = b[r.ptr - HEADER].size
  BY <1>6, <1>9
<1>11. Holds(blocks', live')
  <2>1. live' \subseteq [ptr : Nat, size : Nat]
    BY <1>1, <1>8 DEF Holds
  <2>2. ASSUME NEW r \in live'
        PROVE  r.ptr - HEADER \in Used(blocks') /\ r.size <= blocks'[r.ptr - HEADER].size
    <3>1. CASE r \in live
      BY <3>1, <1>6, <1>9, <1>10
    <3>2. CASE r = new
      <4>1. size <= blocks'[a].size
        BY <1>2, <1>6, <1>7
      <4>2. QED
        BY <3>2, <4>1, <1>6, <1>8
    <3>3. QED
      BY <3>1, <3>2, <1>1
  <2>3. ASSUME NEW c \in Used(blocks') PROVE \E r \in live' : r.ptr = c + HEADER
    <3>1. CASE c = a
      BY <3>1, <1>1, <1>8
    <3>2. CASE c \in Used(b)
      BY <3>2, <1>1 DEF Holds
    <3>3. QED
      BY <3>1, <3>2, <1>6
  <2>4. ASSUME NEW r \in live', NEW q \in live', r # q PROVE r.ptr # q.ptr
    <3>1. \A o \in live : o.ptr # new.ptr
      BY <1>7, <1>8, <1>9
    <3>2. QED
      BY <2>4, <3>1, <1>1 DEF Holds
  <2>5. QED
    BY <2>1, <2>2, <2>3, <2>4 DEF Holds
<1>12. QED
  BY <1>6, <1>10, <1>11 DEF HeapInv

(* malloc, when a block is found in the list as it is. *)
LEMMA AllocKeeps ==
    ASSUME HeapInv, NEW size \in Requests, Alloc(size)
    PROVE  HeapInv' /\ OthersKept
<1>1. /\ StartEnd \in Nat /\ Tiles(Started, StartEnd) /\ Holds(Started, live)
      /\ Apart(Started) /\ (live # {} => Started = blocks)
  BY StartedTiles
<1>2. /\ HeapInv'
      /\ \A r \in live : blocks'[r.ptr - HEADER].size = Started[r.ptr - HEADER].size
  BY <1>1, GiveKeeps DEF Alloc, HasRoom
<1>3. QED
  BY <1>1, <1>2 DEF OthersKept

(* The heap grows: the block that extend makes is large enough, so the     *)
(* second call of allocate succeeds.                                       *)
LEMMA AllocGrowKeeps ==
    ASSUME HeapInv, NEW size \in Requests, AllocGrow(size)
    PROVE  HeapInv' /\ OthersKept
<1> DEFINE n == Needed(size)
           s == Started
           e == StartEnd
           b == Extended(s, n)
<1>1. /\ e \in Nat /\ Tiles(s, e) /\ Holds(s, live) /\ Apart(s)
      /\ (live # {} => s = blocks)
  BY StartedTiles
<1>2. n \in Nat /\ n % 4 = 0 /\ n - HEADER >= Aligned(size) /\ n >= HEADER
  BY NeededFits
<1>3. /\ IF size = 0 THEN blocks' = b /\ live' = live ELSE Give(b, size)
      /\ regionEnd' = e + n
  BY DEF AllocGrow
<1> HIDE DEF n, s, e
<1>4. Grown(s, b, e, n)
  BY <1>1, <1>2, ExtendFree, ExtendUsed
<1> HIDE DEF b
<1>5. /\ Tiles(b, e + n) /\ SameUse(s, b) /\ Apart(b) /\ e + n \in Nat
      /\ \E a \in DOMAIN b : b[a].free /\ b[a].size >= n - HEADER
  BY <1>1, <1>2, <1>4 DEF Grown
<1>6. Holds(b, live)
  BY <1>1, <1>5, SameUseHolds
<1>7. \A r \in live : b[r.ptr - HEADER].size = blocks[r.ptr - HEADER].size
  BY <1>1, <1>5 DEF SameUse, Holds
<1>8. CASE size = 0
  <2>1. blocks' = b /\ live' = live
    BY <1>3, <1>8
  <2>2. HeapInv'
    BY <1>3, <1>5, <1>6, <2>1 DEF HeapInv
  <2>3. QED
    BY <1>7, <2>1, <2>2 DEF OthersKept
<1>9. CASE size # 0
  <2>1. Give(b, size)
    BY <1>3, <1>9
  <2>2. Fitting(b, Aligned(size)) # {}
    <3>1. PICK a \in DOMAIN b : b[a].free /\ b[a].size >= n - HEADER
      BY <1>5
    <3>2. b[a].size \in Nat /\ HEADER \in Nat /\ Aligned(size) \in Nat
      BY <1>5, TilesType, AlignedFits
    <3>3. b[a].size >= Aligned(size)
      BY <1>2, <3>1, <3>2
    <3>4. QED
      BY <3>1, <3>3 DEF Fitting
  <2>3. /\ HeapInv'
        /\ \A r \in live : blocks'[r.ptr - HEADER].size = b[r.ptr - HEADER].size
    BY <1>3, <1>5, <1>6, <2>1, <2>2, GiveKeeps
  <2>4. QED
    BY <1>7, <2>3 DEF OthersKept
<1>10. QED
  BY <1>8, <1>9

(* malloc, when sbrk fails. *)
LEMMA AllocNullKeeps ==
    ASSUME HeapInv, NEW size \in Requests, AllocNull(size)
    PROVE  HeapInv' /\ OthersKept
<1>1. /\ StartEnd \in Nat /\ Tiles(Started, StartEnd) /\ Holds(Started, live)
      /\ Apart(Started) /\ (live # {} => Started = blocks)
  BY StartedTiles
<1>2. HeapInv'
  BY <1>1 DEF AllocNull, HeapInv
<1>3. QED
  BY <1>1, <1>2 DEF AllocNull, OthersKept

(* free gives back the block of the pointer and no other. *)
LEMMA FreeKeeps ==
    ASSUME HeapInv, NEW r \in live, Free(r)
    PROVE  HeapInv' /\ OthersKept
<1> DEFINE p == r.ptr - HEADER
           e == regionEnd
           b == [blocks EXCEPT ![p].free = TRUE]
           f == Rounds(b).list
<1>1. e \in Nat /\ Tiles(blocks, e) /\ Holds(blocks, live) /\ Apart(blocks)
  BY DEF HeapInv
<1>2. blocks' = f /\ live' = live \ {r} /\ regionEnd' = regionEnd
  BY DEF Free, Freed
<1>3. p \in Used(blocks) /\ p \in DOMAIN blocks
  BY <1>1 DEF Holds, Used
<1> HIDE DEF p, e
<1>4. /\ Tiles(b, e) /\ DOMAIN b = DOMAIN blocks /\ b[p].free = TRUE
      /\ \A x \in DOMAIN blocks : b[x].size = blocks[x].size
      /\ \A x \in DOMAIN blocks \ {p} : b[x] = blocks[x]
  BY <1>1, <1>3, MarkTiles
<1> HIDE DEF b
<1>5. Tiles(f, e) /\ SameUse(b, f) /\ Apart(f)
  BY <1>1, <1>4, RoundsPass
<1> HIDE DEF f
<1>6. Used(f) = Used(blocks) \ {p} /\ \A a \in Used(f) : f[a].size = blocks[a].size
  <2>1. Used(b) = Used(blocks) \ {p}
    BY <1>3, <1>4 DEF Used
  <2>2. \A a \in Used(b) : a \in DOMAIN blocks
    BY <1>4 DEF Used
  <2>3. QED
    BY <1>4, <1>5, <2>1, <2>2 DEF SameUse
<1>7. ASSUME NEW q \in live'
      PROVE  /\ q \in live /\ q.ptr - HEADER \in Used(f)
             /\ q.ptr \in Nat
  <2>1. q \in live /\ q # r
    BY <1>2
  <2>2. q.ptr # r.ptr /\ q.ptr \in Nat /\ r.ptr \in Nat /\ HEADER \in Nat
    BY <1>1, <2>1, WordSizes DEF Holds
  <2>3. q.ptr - HEADER # p
    BY <2>2 DEF p
  <2>4. QED
    BY <1>1, <1>6, <2>1, <2>2, <2>3 DEF Holds
<1>8. Holds(f, live')
  <2>1. live' \subseteq [ptr : Nat, size : Nat]
    BY <1>1, <1>2 DEF Holds
  <2>2. ASSUME NEW q \in live'
        PROVE  q.ptr - HEADER \in Used(f) /\ q.size <= f[q.ptr - HEADER].size
    BY <1>1, <1>6, <1>7 DEF Holds
  <2>3. ASSUME NEW a \in Used(f) PROVE \E q \in live' : q.ptr = a + HEADER
    <3>1. a \in Used(blocks) /\ a # p /\ a \in Nat
      BY <1>1, <1>6 DEF Used, Tiles
    <3>2. PICK q \in live : q.ptr = a + HEADER
      BY <1>1, <3>1 DEF Holds
    <3>3. q # r
      BY <3>1, <3>2, WordSizes DEF p
    <3>4. QED
      BY <1>2, <3>2, <3>3
  <2>4. ASSUME NEW x \in live', NEW q \in live', x # q PROVE x.ptr # q.ptr
    BY <1>1, <1>2, <2>4 DEF Holds
  <2>5. QED
    BY <2>1, <2>2, <2>3, <2>4 DEF Holds
<1>9. HeapInv'
  BY <1>1, <1>2, <1>5, <1>8 DEF HeapInv, e
<1>10. OthersKept
  BY <1>2, <1>6, <1>7 DEF OthersKept
<1>11. QED
  BY <1>9, <1>10

(* Every call of malloc and free keeps the invariant and the other blocks. *)
LEMMA HeapStep == HeapInv /\ [Next]_vars => HeapInv' /\ (OthersKept \/ UNCHANGED vars)
<1> SUFFICES ASSUME HeapInv, [Next]_vars
             PROVE  HeapInv' /\ (OthersKept \/ UNCHANGED vars)
  OBVIOUS
<1>1. ASSUME NEW size \in Requests, Alloc(size) \/ AllocGrow(size) \/ AllocNull(size)
      PROVE  HeapInv' /\ OthersKept
  BY <1>1, AllocKeeps, AllocGrowKeeps, AllocNullKeeps
<1>2. ASSUME NEW r \in live, Free(r) PROVE HeapInv' /\ OthersKept
  BY <1>2, FreeKeeps
<1>3. CASE UNCHANGED vars
  BY <1>3 DEF vars, HeapInv
<1>4. QED
  BY <1>1, <1>2, <1>3 DEF Next

(* The list of blocks covers the heap in the order of addresses, holds the *)
(* program's allocations and has no two free neighbours.                   *)
THEOREM HeapInvariance == Spec => []HeapInv
<1>1. Init => HeapInv
  BY DEF Init, HeapInv
<1>2. QED
  BY <1>1, HeapStep, PTL DEF Spec

(* Before the first call there is no block. *)
LEMMA EmptyHeap ==
    ASSUME blocks = <<>>
    PROVE  DOMAIN blocks = {}
OBVIOUS

(* allocate, free and extend leave no gap and no overlap in the region. *)
THEOREM HeapIsTiled == Spec => []BlocksTile
<1>1. HeapInv => BlocksTile
  <2>1. CASE blocks = <<>>
    BY <2>1, EmptyHeap DEF BlocksTile
  <2>2. CASE Tiles(blocks, regionEnd)
    BY <2>2 DEF Tiles, BlocksTile, EndOf, BlockEnd
  <2>3. QED
    BY <2>1, <2>2 DEF HeapInv
<1>2. QED
  BY <1>1, HeapInvariance, PTL

(* Every pointer that heap::alloc has returned and the program has not     *)
(* freed has an aligned block of its own, and no other block is in use.    *)
THEOREM AllocationsHaveBlocks == Spec => []LiveHaveBlocks
<1>1. HeapInv => LiveHaveBlocks
  <2>1. CASE blocks = <<>> /\ live = {}
    BY <2>1, EmptyHeap DEF LiveHaveBlocks
  <2>2. CASE Tiles(blocks, regionEnd) /\ Holds(blocks, live)
    <3>1. {a \in DOMAIN blocks : ~blocks[a].free} = Used(blocks)
      BY DEF Used
    <3>2. ASSUME NEW r \in live
          PROVE  /\ r.ptr \in Nat /\ r.ptr - HEADER \in Used(blocks) /\ r.ptr % 4 = 0
                 /\ r.size <= blocks[r.ptr - HEADER].size
      <4> DEFINE a == r.ptr - HEADER
      <4>1. r.ptr \in Nat /\ a \in Used(blocks) /\ r.size <= blocks[a].size
        BY <2>2 DEF Holds
      <4>2. a \in Nat /\ a % 4 = 0
        BY <2>2, <4>1 DEF Used, Tiles
      <4>3. r.ptr = a + HEADER
        BY <4>1, WordSizes
      <4> HIDE DEF a
      <4>4. r.ptr % 4 = 0
        BY <4>2, <4>3, WordSizes, Words
      <4>5. QED
        BY <4>1, <4>4 DEF a
    <3>3. Used(blocks) = {r.ptr - HEADER : r \in live}
      <4>1. ASSUME NEW a \in Used(blocks) PROVE a \in {r.ptr - HEADER : r \in live}
        <5>1. PICK r \in live : r.ptr = a + HEADER
          BY <2>2 DEF Holds
        <5>2. a \in Nat
          BY <2>2 DEF Used, Tiles
        <5>3. a = r.ptr - HEADER
          BY <5>1, <5>2, WordSizes
        <5>4. QED
          BY <5>3
      <4>2. QED
        BY <3>2, <4>1
    <3>4. \A r, q \in live : r # q => r.ptr # q.ptr
      BY <2>2 DEF Holds
    <3>5. QED
      BY <3>1, <3>2, <3>3, <3>4 DEF LiveHaveBlocks
  <2>3. QED
    BY <2>1, <2>2 DEF HeapInv
<1>2. QED
  BY <1>1, HeapInvariance, PTL

(* The loop of free merges everything that can be merged: no two free      *)
(* neighbours, and one block once all is freed.                            *)
THEOREM FreeMemoryIsWhole == Spec => []FreeIsCoalesced
<1>1. HeapInv => FreeIsCoalesced
  <2> SUFFICES ASSUME HeapInv PROVE FreeIsCoalesced
    OBVIOUS
  <2>1. CASE blocks = <<>>
    <3>1. DOMAIN blocks = {}
      BY <2>1, EmptyHeap
    <3>2. Cardinality(DOMAIN blocks) = 0
      BY <3>1, FS_EmptySet
    <3>3. QED
      BY <3>1, <3>2 DEF FreeIsCoalesced
  <2>2. CASE blocks # <<>>
    <3> DEFINE b == blocks
               e == regionEnd
    <3>1. e \in Nat /\ Tiles(b, e) /\ Holds(b, live) /\ Apart(b)
      BY <2>2 DEF HeapInv
    <3>2. \A a, c \in DOMAIN blocks : blocks[a].next = c => ~(blocks[a].free /\ blocks[c].free)
      BY <3>1 DEF Apart
    <3>3. ASSUME live = {} PROVE Cardinality(DOMAIN blocks) <= 1
      <4>1. \A a \in DOMAIN b : b[a].free
        BY <3>1, <3>3 DEF Holds, Used
      <4>2. \A a \in DOMAIN b : b[a].next = NULL
        BY <3>1, <4>1 DEF Apart, Tiles
      <4>3. ASSUME NEW x \in DOMAIN b, NEW y \in DOMAIN b PROVE x = y
        <5>1. BlockEnd(b, x) = e /\ BlockEnd(b, y) = e
          BY <3>1, <4>2 DEF Tiles
        <5> HIDE DEF b, e
        <5>2. QED
          BY <3>1, <5>1, EndsDiffer
      <4>4. Base \in DOMAIN b
        BY <3>1 DEF Tiles
      <4>5. DOMAIN b = {Base}
        BY <4>3, <4>4
      <4>6. Cardinality(DOMAIN b) = 1
        BY <4>5, FS_Singleton
      <4>7. QED
        BY <4>6
    <3>4. QED
      BY <3>2, <3>3 DEF FreeIsCoalesced
  <2>3. QED
    BY <2>1, <2>2
<1>2. QED
  BY <1>1, HeapInvariance, PTL

(* No call of alloc or free moves or resizes the block of another          *)
(* allocation.                                                             *)
THEOREM AllocationsStay == Spec => OthersStay
BY HeapInvariance, HeapStep, PTL DEF Spec, OthersStay, OthersKept

=============================================================================
