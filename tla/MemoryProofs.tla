---------------------------- MODULE MemoryProofs ----------------------------
(***************************************************************************)
(* Who owns which frame, for every amount of memory, every executable and  *)
(* every number of processes.                                              *)
(***************************************************************************)
EXTENDS Memory, LoopTheorems, FiniteSetTheorems, TLAPS

-----------------------------------------------------------------------------
(* Address spaces.                                                         *)

(* The frames that the allocator may ever hand out and those that a page   *)
(* may hold: destroyAddressSpace gives every frame above 1 MiB to the      *)
(* allocator, also the ones that mapDevice has put there.                  *)
Managed == Ram \cup (DeviceFrames \ LowDevice)
Mappable == Ram \cup DeviceFrames

Spaces ==
    [free : SUBSET Managed, ok : BOOLEAN, dir : Managed \cup {NoFrame},
     kstack : Managed \cup {NoFrame}, tables : [Table -> Managed \cup {NoFrame}],
     pages : [Page -> Mappable \cup {NoFrame}]]

(* The places of an address space that hold a frame. *)
Slot == {<<"directory", 0>>, <<"kstack", 0>>} \cup ({"table"} \X Table)
          \cup ({"page"} \X Page)
Content(s, x) ==
    CASE x[1] = "directory" -> s.dir
      [] x[1] = "kstack" -> s.kstack
      [] x[1] = "table" -> s.tables[x[2]]
      [] OTHER -> s.pages[x[2]]

(* A frame of RAM is in one place, and not clear in the bitmap. *)
Good(s) ==
    /\ s \in Spaces
    /\ \A x, y \in Slot : Content(s, x) = Content(s, y) /\ Content(s, x) \in Ram => x = y
    /\ \A x \in Slot : Content(s, x) \in Ram => Content(s, x) \notin s.free

(* r comes from s by allocating: a place keeps its frame or has got one    *)
(* from G.                                                                 *)
From(s, r, G) ==
    /\ r.free \subseteq s.free
    /\ \A x \in Slot : Content(r, x) \in Ram =>
          Content(r, x) = Content(s, x) \/ Content(r, x) \in G

(* How the sets of frames lie to one another. *)
LEMMA FrameFacts ==
    /\ Managed \subseteq Mappable /\ Mappable \subseteq Frame
    /\ Ram \subseteq Managed /\ NoFrame \notin Frame
    /\ Frame \subseteq Nat
    /\ DeviceFrames \cap Ram = {} /\ Mappable \ LowDevice \subseteq Managed
BY MemoryAssumption DEF Managed, Mappable, Frame, NoFrame

(* The places of an address space that hold a frame. *)
LEMMA SlotFacts ==
    /\ <<"directory", 0>> \in Slot /\ <<"kstack", 0>> \in Slot
    /\ \A i \in Table : <<"table", i>> \in Slot
    /\ \A v \in Page : <<"page", v>> \in Slot
    /\ \A x \in Slot : \/ x = <<"directory", 0>>
                       \/ x = <<"kstack", 0>>
                       \/ \E i \in Table : x = <<"table", i>>
                       \/ \E v \in Page : x = <<"page", v>>
<1>1. /\ <<"directory", 0>> \in Slot /\ <<"kstack", 0>> \in Slot
      /\ \A i \in Table : <<"table", i>> \in Slot
      /\ \A v \in Page : <<"page", v>> \in Slot
  BY DEF Slot
<1>3. ASSUME NEW x \in {"table"} \X Table PROVE \E i \in Table : x = <<"table", i>>
  OBVIOUS
<1>4. ASSUME NEW x \in {"page"} \X Page PROVE \E v \in Page : x = <<"page", v>>
  OBVIOUS
<1>5. QED
  BY <1>1, <1>3, <1>4, Zenon DEF Slot

(* What lies in each of these places. *)
LEMMA ContentFacts ==
    ASSUME NEW s
    PROVE  /\ Content(s, <<"directory", 0>>) = s.dir
           /\ Content(s, <<"kstack", 0>>) = s.kstack
           /\ \A i : Content(s, <<"table", i>>) = s.tables[i]
           /\ \A v : Content(s, <<"page", v>>) = s.pages[v]
BY DEF Content

(* The first clear bit. *)
LEMMA Alloc ==
    ASSUME NEW clear \in SUBSET Managed
    PROVE  /\ clear # {} => AllocFrame(clear) \in clear
           /\ clear = {} => AllocFrame(clear) = NoFrame
           /\ AllocFrame(clear) = NoFrame \/ AllocFrame(clear) \in clear
<1>1. clear \in SUBSET Nat
  BY FrameFacts
<1>2. QED
  BY <1>1, MinInSet DEF AllocFrame

(* The page table of a page. *)
LEMMA TableOfPage ==
    ASSUME NEW v \in Page
    PROVE  v \div PagesPerTable \in Table
<1>1. /\ v \in Nat /\ StackPage \in Nat /\ v <= StackPage
      /\ PagesPerTable \in Nat \ {0}
  BY MemoryAssumption DEF Page
<1>2. QED
  BY <1>1, QuotientOrder DEF Table

(* A frame that is nowhere else is put in a place. *)
LEMMA PutFrame ==
    ASSUME NEW s, Good(s), NEW r \in Spaces, r.free \subseteq s.free,
           NEW x \in Slot, NEW f,
           \A y \in Slot : Content(r, y) = IF y = x THEN f ELSE Content(s, y),
           f \in Ram => f \notin r.free /\ \A y \in Slot \ {x} : Content(s, y) # f
    PROVE  Good(r) /\ From(s, r, {f})
<1>1. \A y, z \in Slot : Content(r, y) = Content(r, z) /\ Content(r, y) \in Ram => y = z
  <2> SUFFICES ASSUME NEW y \in Slot, NEW z \in Slot, Content(r, y) = Content(r, z),
                      Content(r, y) \in Ram
               PROVE  y = z
    OBVIOUS
  <2>1. CASE y = x /\ z = x
    BY <2>1
  <2>2. CASE y = x /\ z # x
    BY <2>2
  <2>3. CASE y # x /\ z = x
    BY <2>3
  <2>4. CASE y # x /\ z # x
    BY <2>4 DEF Good
  <2>5. QED
    BY <2>1, <2>2, <2>3, <2>4
<1>2. \A y \in Slot : Content(r, y) \in Ram => Content(r, y) \notin r.free
  BY DEF Good
<1>3. From(s, r, {f})
  BY DEF From
<1>4. QED
  BY <1>1, <1>2, <1>3 DEF Good

(* Allocations one after the other take their frames from the first free set. *)
LEMMA FromTransitive ==
    ASSUME NEW s, NEW r, NEW q, NEW G, From(s, r, G), From(r, q, G)
    PROVE  From(s, q, G)
BY DEF From

(* A function that allocates nothing takes nothing. *)
LEMMA FromItself ==
    ASSUME NEW s, NEW G
    PROVE  From(s, s, G)
BY DEF From

(* What was taken from a set was taken from a larger one. *)
LEMMA FromMore ==
    ASSUME NEW s, NEW r, NEW G, NEW H, From(s, r, G), G \subseteq H
    PROVE  From(s, r, H)
BY DEF From

(* What the functions that build an address space leave alone. *)
SameHead(s, r) == r.dir = s.dir /\ r.kstack = s.kstack

(* mapUserPage with a frame that is in no other place. *)
LEMMA MapUserPageGood ==
    ASSUME NEW s, Good(s), NEW v \in Page, NEW f \in Mappable,
           f \in Ram => f \notin s.free /\ \A y \in Slot : Content(s, y) # f
    PROVE  LET r == MapUserPage(s, v, f)
           IN  Good(r) /\ From(s, r, s.free \cup {f}) /\ SameHead(s, r) /\ r.ok = s.ok
<1> DEFINE i == v \div PagesPerTable
           t == AllocFrame(s.free)
           e == [s EXCEPT !.pages[v] = f]
           u == [s EXCEPT !.free = @ \ {t}, !.tables[i] = t]
           r == [s EXCEPT !.free = @ \ {t}, !.tables[i] = t, !.pages[v] = f]
<1>1. MapUserPage(s, v, f) =
         IF s.tables[i] # NoFrame THEN e ELSE IF t = NoFrame THEN s ELSE r
  BY DEF MapUserPage
<1>2. i \in Table
  BY TableOfPage
<1>3. /\ s \in Spaces /\ s.free \subseteq Managed
      /\ s.tables \in [Table -> Managed \cup {NoFrame}]
      /\ s.pages \in [Page -> Mappable \cup {NoFrame}]
      /\ s.dir \in Managed \cup {NoFrame} /\ s.kstack \in Managed \cup {NoFrame}
      /\ s.ok \in BOOLEAN
      /\ s = [free |-> s.free, ok |-> s.ok, dir |-> s.dir, kstack |-> s.kstack,
              tables |-> s.tables, pages |-> s.pages]
  BY DEF Good, Spaces
<1>0. CASE s.tables[i] # NoFrame
  <2> DEFINE z == <<"page", v>>
  <2>1. z \in Slot
    BY SlotFacts
  <2>2. /\ e.free = s.free /\ e.tables = s.tables /\ e.pages = [s.pages EXCEPT ![v] = f]
        /\ e.dir = s.dir /\ e.kstack = s.kstack /\ e.ok = s.ok
    BY <1>3
  <2>3. e \in Spaces
    BY <1>3 DEF Spaces
  <2> HIDE DEF e
  <2>4. \A y \in Slot : Content(e, y) = IF y = z THEN f ELSE Content(s, y)
    <3> SUFFICES ASSUME NEW y \in Slot
                 PROVE  Content(e, y) = IF y = z THEN f ELSE Content(s, y)
      OBVIOUS
    <3>1. CASE y = <<"directory", 0>> \/ y = <<"kstack", 0>>
      BY <3>1, <2>2, ContentFacts
    <3>2. CASE \E j \in Table : y = <<"table", j>>
      BY <3>2, <2>2, ContentFacts
    <3>3. CASE \E w \in Page : y = <<"page", w>>
      BY <3>3, <1>3, <2>2, ContentFacts
    <3>4. QED
      BY <3>1, <3>2, <3>3, SlotFacts
  <2> HIDE DEF z
  <2>5. Good(e) /\ From(s, e, {f})
    BY <2>1, <2>2, <2>3, <2>4, PutFrame
  <2>6. From(s, e, s.free \cup {f})
    BY <2>5, FromMore
  <2>7. QED
    BY <1>0, <1>1, <2>2, <2>5, <2>6 DEF SameHead
<1>4. CASE s.tables[i] = NoFrame /\ t = NoFrame
  BY <1>1, <1>4, FromItself DEF SameHead
<1>5. CASE s.tables[i] = NoFrame /\ t # NoFrame
  <2> DEFINE x == <<"table", i>>
             z == <<"page", v>>
  <2>1. t \in s.free
    BY <1>3, <1>5, Alloc
  <2>2. t \in Managed
    BY <2>1, <1>2, <1>3, <1>5
  <2>3. x \in Slot /\ z \in Slot /\ x # z
    BY <1>2, SlotFacts
  <2>4. Content(s, x) = s.tables[i]
    BY ContentFacts
  <2>5. t \in Ram => \A y \in Slot \ {x} : Content(s, y) # t
    BY <2>1, <2>3, <2>4 DEF Good
  <2>6. /\ u.free = s.free \ {t} /\ u.tables = [s.tables EXCEPT ![i] = t]
        /\ u.pages = s.pages /\ u.dir = s.dir /\ u.kstack = s.kstack /\ u.ok = s.ok
    BY <1>3
  <2>7. u \in Spaces
    BY <1>2, <1>3, <2>2 DEF Spaces
  <2>8. /\ r.free = s.free \ {t} /\ r.tables = [s.tables EXCEPT ![i] = t]
        /\ r.pages = [s.pages EXCEPT ![v] = f]
        /\ r.dir = s.dir /\ r.kstack = s.kstack /\ r.ok = s.ok
    BY <1>3
  <2>9. r \in Spaces
    BY <1>2, <1>3, <2>2 DEF Spaces
  <2> HIDE DEF t, u, r, i
  <2>10. \A y \in Slot : Content(u, y) = IF y = x THEN t ELSE Content(s, y)
    <3> SUFFICES ASSUME NEW y \in Slot
                 PROVE  Content(u, y) = IF y = x THEN t ELSE Content(s, y)
      OBVIOUS
    <3>1. CASE y = <<"directory", 0>> \/ y = <<"kstack", 0>>
      BY <3>1, <2>6, ContentFacts
    <3>2. CASE \E j \in Table : y = <<"table", j>>
      BY <3>2, <1>2, <1>3, <2>6, ContentFacts
    <3>3. CASE \E w \in Page : y = <<"page", w>>
      BY <3>3, <1>3, <2>6, ContentFacts
    <3>4. QED
      BY <3>1, <3>2, <3>3, SlotFacts
  <2>11. Good(u) /\ From(s, u, {t})
    BY <2>3, <2>5, <2>6, <2>7, <2>10, PutFrame
  <2>12. \A y \in Slot : Content(r, y) = IF y = z THEN f ELSE Content(u, y)
    <3> SUFFICES ASSUME NEW y \in Slot
                 PROVE  Content(r, y) = IF y = z THEN f ELSE Content(u, y)
      OBVIOUS
    <3>1. CASE y = <<"directory", 0>> \/ y = <<"kstack", 0>>
      BY <3>1, <2>6, <2>8, ContentFacts
    <3>2. CASE \E j \in Table : y = <<"table", j>>
      BY <3>2, <1>2, <1>3, <2>6, <2>8, ContentFacts
    <3>3. CASE \E w \in Page : y = <<"page", w>>
      BY <3>3, <1>3, <2>6, <2>8, ContentFacts
    <3>4. QED
      BY <3>1, <3>2, <3>3, SlotFacts
  <2>13. f \in Ram => f \notin r.free /\ \A y \in Slot \ {z} : Content(u, y) # f
    <3> SUFFICES ASSUME f \in Ram, NEW y \in Slot \ {z} 
                 PROVE  f \notin r.free /\ Content(u, y) # f
      BY <2>8
    <3>1. t # f
      BY <2>1, <2>3, <2>4
    <3>2. QED
      BY <3>1, <2>8, <2>10
  <2>14. Good(r) /\ From(u, r, {f})
    BY <2>3, <2>6, <2>8, <2>9, <2>11, <2>12, <2>13, PutFrame
  <2>15. From(s, r, s.free \cup {f})
    <3> SUFFICES ASSUME NEW y \in Slot, Content(r, y) \in Ram
                 PROVE  Content(r, y) = Content(s, y) \/ Content(r, y) \in s.free \cup {f}
      BY <2>8 DEF From
    <3>1. QED
      BY <2>1, <2>4, <2>10, <2>12
  <2>16. QED
    BY <1>1, <1>5, <2>8, <2>14, <2>15 DEF SameHead
<1>6. QED
  BY <1>0, <1>4, <1>5

(* A page of fresh memory: the loops of the ELF loader and of sbrk. *)
LEMMA AddPageGood ==
    ASSUME NEW s, Good(s), NEW v \in Page
    PROVE  LET r == AddPage(s, v)
           IN  Good(r) /\ From(s, r, s.free) /\ SameHead(s, r)
<1> DEFINE f == AllocFrame(s.free)
           u == [s EXCEPT !.free = @ \ {f}]
           e == [s EXCEPT !.ok = FALSE]
<1>1. AddPage(s, v) = IF ~s.ok \/ f = NoFrame THEN e ELSE MapUserPage(u, v, f)
  BY DEF AddPage
<1>2. /\ s \in Spaces /\ s.free \subseteq Managed
      /\ s = [free |-> s.free, ok |-> s.ok, dir |-> s.dir, kstack |-> s.kstack,
              tables |-> s.tables, pages |-> s.pages]
  BY DEF Good, Spaces
<1>3. CASE ~s.ok \/ f = NoFrame
  <2>1. /\ e \in Spaces /\ e.free = s.free /\ e.dir = s.dir /\ e.kstack = s.kstack
        /\ e.tables = s.tables /\ e.pages = s.pages
    BY <1>2 DEF Spaces
  <2> HIDE DEF e
  <2>2. \A y \in Slot : Content(e, y) = Content(s, y)
    BY <2>1 DEF Content
  <2>3. Good(e) /\ From(s, e, s.free) /\ SameHead(s, e)
    BY <2>1, <2>2 DEF Good, From, SameHead
  <2>4. QED
    BY <1>1, <1>3, <2>3
<1>4. CASE ~(~s.ok \/ f = NoFrame)
  <2>1. f \in s.free
    BY <1>2, <1>4, Alloc
  <2>2. /\ u \in Spaces /\ u.free = s.free \ {f} /\ u.dir = s.dir /\ u.kstack = s.kstack
        /\ u.tables = s.tables /\ u.pages = s.pages
    BY <1>2 DEF Spaces
  <2> HIDE DEF u, f
  <2>3. \A y \in Slot : Content(u, y) = Content(s, y)
    BY <2>2 DEF Content
  <2>4. Good(u)
    BY <2>2, <2>3 DEF Good
  <2>5. f \in Mappable
    BY <2>1, <1>2, FrameFacts
  <2>6. f \in Ram => f \notin u.free /\ \A y \in Slot : Content(u, y) # f
    BY <2>1, <2>2, <2>3 DEF Good
  <2> DEFINE r == MapUserPage(u, v, f)
  <2>7. Good(r) /\ From(u, r, u.free \cup {f}) /\ SameHead(u, r)
    BY <2>4, <2>5, <2>6, MapUserPageGood
  <2> HIDE DEF r
  <2>8. From(s, r, s.free) /\ SameHead(s, r)
    BY <2>1, <2>2, <2>3, <2>7 DEF From, SameHead
  <2>9. QED
    BY <1>1, <1>4, <2>7, <2>8 DEF r
<1>5. QED
  BY <1>3, <1>4

(* The loops of the ELF loader and of sbrk, round by round, and that there *)
(* are such rounds.                                                        *)
PagesTrace(g, s, vs) ==
    /\ \A i \in 0 .. Len(vs) : Good(g[i])
    /\ g[0] = s
    /\ \A i \in 1 .. Len(vs) : g[i] = AddPage(g[i - 1], vs[i])

LEMMA AddPagesTrace ==
    ASSUME NEW s, Good(s), NEW vs \in Seq(Page)
    PROVE  \E g : PagesTrace(g, s, vs) /\ AddPages(s, vs) = g[Len(vs)]
<1> DEFINE n == Len(vs)
           X == {r \in Spaces : Good(r)}
           Round == [x \in X \X (1 .. n) |-> AddPage(x[1], vs[x[2]])]
           d == CHOOSE g : g = [i \in 0 .. n |-> IF i = 0 THEN s ELSE AddPage(g[i - 1], vs[i])]
<1>1. AddPages(s, vs) = d[n]
  BY DEF AddPages
<1>2. n \in Nat
  OBVIOUS
<1>3. s \in X
  BY DEF Good
<1>4. ASSUME NEW r, Good(r), NEW i \in 1 .. n PROVE Good(AddPage(r, vs[i]))
  <2>1. vs[i] \in Page
    OBVIOUS
  <2>2. QED
    BY <1>4, <2>1, AddPageGood
<1>5. Round \in [X \X (1 .. n) -> X]
  <2> SUFFICES ASSUME NEW x \in X \X (1 .. n)
               PROVE  AddPage(x[1], vs[x[2]]) \in X
    OBVIOUS
  <2>1. Good(x[1]) /\ x[2] \in 1 .. n
    OBVIOUS
  <2> DEFINE q == AddPage(x[1], vs[x[2]])
  <2>2. Good(q)
    <3> HIDE DEF n
    <3>1. QED
      BY <1>4, <2>1
  <2> HIDE DEF q
  <2>3. q \in X
    BY <2>2 DEF Good
  <2>4. QED
    BY <2>3 DEF q
<1>6. \E g : IsTrace(g, n, X, s, Round)
  <2> HIDE DEF n, X, Round
  <2>1. QED
    BY <1>2, <1>3, <1>5, LoopTrace
<1>7. PICK g : IsTrace(g, n, X, s, Round)
  BY <1>6
<1>8. g \in [0 .. n -> X] /\ g[0] = s
  BY <1>7 DEF IsTrace
<1>9. ASSUME NEW i \in 1 .. n PROVE g[i] = AddPage(g[i - 1], vs[i])
  <2>1. g[i] = Round[<<g[i - 1], i>>]
    BY <1>7 DEF IsTrace
  <2>2. i - 1 \in 0 .. n
    BY <1>2
  <2>3. <<g[i - 1], i>> \in X \X (1 .. n)
    BY <2>2, <1>8
  <2>4. QED
    BY <2>1, <2>3
<1>10. g = [i \in 0 .. n |-> IF i = 0 THEN s ELSE AddPage(g[i - 1], vs[i])]
  <2>1. ASSUME NEW i \in 0 .. n PROVE i = 0 \/ i \in 1 .. n
    BY <1>2
  <2> HIDE DEF n, X, Round
  <2>2. QED
    BY <1>8, <1>9, <2>1
<1>11. d = [i \in 0 .. n |-> IF i = 0 THEN s ELSE AddPage(d[i - 1], vs[i])]
  BY <1>10
<1> HIDE DEF d
<1>12. d[0] = s /\ \A i \in 1 .. n : d[i] = AddPage(d[i - 1], vs[i])
  BY <1>2, <1>11
<1> DEFINE S == {i \in 0 .. n : Good(d[i])}
<1>13. 0 \in S
  BY <1>2, <1>12
<1>14. ASSUME NEW i \in 1 .. n, i - 1 \in S PROVE i \in S
  <2>1. Good(AddPage(d[i - 1], vs[i]))
    <3> HIDE DEF n
    <3>1. QED
      BY <1>4, <1>14
  <2>2. QED
    BY <2>1, <1>2, <1>12
<1>15. 0 .. n \subseteq S
  <2> HIDE DEF n, S
  <2>1. QED
    BY <1>2, <1>13, <1>14, RoundInduction
<1>16. QED
  BY <1>1, <1>12, <1>15 DEF PagesTrace

(* What the loops do to the address space.                                 *)
LEMMA AddPagesGood ==
    ASSUME NEW s, Good(s), NEW vs \in Seq(Page)
    PROVE  LET r == AddPages(s, vs)
           IN  Good(r) /\ From(s, r, s.free) /\ SameHead(s, r)
<1> DEFINE n == Len(vs)
<1>1. n \in Nat
  OBVIOUS
<1>2. PICK d : PagesTrace(d, s, vs) /\ AddPages(s, vs) = d[n]
  BY AddPagesTrace
<1>3. /\ \A i \in 0 .. n : Good(d[i])
      /\ d[0] = s
      /\ \A i \in 1 .. n : d[i] = AddPage(d[i - 1], vs[i])
  BY <1>2 DEF PagesTrace
<1>4. \A i \in 1 .. n : vs[i] \in Page
  OBVIOUS
<1> HIDE DEF n
<1> DEFINE S == {i \in 0 .. n : From(s, d[i], s.free) /\ SameHead(s, d[i])}
<1>5. 0 \in S
  BY <1>1, <1>3, FromItself DEF SameHead
<1>6. ASSUME NEW i \in 1 .. n, i - 1 \in S PROVE i \in S
  <2> DEFINE r == d[i - 1]
             q == d[i]
  <2>1. From(s, r, s.free) /\ SameHead(s, r)
    BY <1>6
  <2>2. i \in 0 .. n /\ i - 1 \in 0 .. n
    BY <1>1
  <2>3. Good(r) /\ q = AddPage(r, vs[i])
    BY <1>3, <2>2
  <2> HIDE DEF r, q
  <2>4. From(r, q, r.free) /\ SameHead(r, q)
    BY <1>4, <2>3, AddPageGood
  <2>5. From(s, q, s.free)
    BY <2>1, <2>4 DEF From
  <2>6. SameHead(s, q)
    BY <2>1, <2>4 DEF SameHead
  <2>7. QED
    BY <2>2, <2>5, <2>6 DEF q
<1>7. n \in S
  <2> HIDE DEF S
  <2>1. 0 .. n \subseteq S
    BY <1>1, <1>5, <1>6, RoundInduction
  <2>2. QED
    BY <1>1, <2>1
<1>8. n \in 0 .. n
  BY <1>1
<1>9. QED
  BY <1>2, <1>3, <1>7, <1>8

(* The loop of mapDevice, round by round.  It maps device memory, and takes *)
(* frames for page tables only.                                            *)
FramesTrace(g, s, v, f, k) ==
    /\ \A i \in 0 .. k : Good(g[i])
    /\ g[0] = s
    /\ \A i \in 1 .. k : g[i] = MapUserPage(g[i - 1], v + i - 1, f + i - 1)
                             /\ v + i - 1 \in Page /\ f + i - 1 \in Mappable \ Ram

LEMMA MapFramesTrace ==
    ASSUME NEW s, Good(s), NEW v \in Nat, NEW f \in Nat, NEW k \in Nat,
           v + k <= StackPage + 1, f .. f + k - 1 \subseteq DeviceFrames
    PROVE  \E g : FramesTrace(g, s, v, f, k) /\ MapFrames(s, v, f, k) = g[k]
<1> DEFINE n == k
           X == {r \in Spaces : Good(r)}
           Round == [x \in X \X (1 .. n) |-> MapUserPage(x[1], v + x[2] - 1, f + x[2] - 1)]
           d == CHOOSE g : g = [i \in 0 .. n |-> IF i = 0 THEN s ELSE MapUserPage(g[i - 1], v + i - 1, f + i - 1)]
<1>1. MapFrames(s, v, f, k) = d[n]
  BY DEF MapFrames
<1>2. n \in Nat
  OBVIOUS
<1>3. s \in X
  BY DEF Good
<1>4. ASSUME NEW i \in 1 .. n
      PROVE  v + i - 1 \in Page /\ f + i - 1 \in Mappable \ Ram
  <2>1. v + i - 1 \in Page
    BY MemoryAssumption DEF Page
  <2>2. f + i - 1 \in DeviceFrames
    OBVIOUS
  <2>3. QED
    BY <2>1, <2>2, FrameFacts DEF Mappable
<1>5. ASSUME NEW r, Good(r), NEW i \in 1 .. n
       PROVE  Good(MapUserPage(r, v + i - 1, f + i - 1))
  <2> DEFINE w == v + i - 1
             g == f + i - 1
  <2>1. w \in Page /\ g \in Mappable /\ g \notin Ram
    BY <1>4
  <2> HIDE DEF w, g
  <2>2. Good(MapUserPage(r, w, g))
    BY <1>5, <2>1, MapUserPageGood
  <2>3. QED
    BY <2>2 DEF w, g
<1>6. Round \in [X \X (1 .. n) -> X]
  <2> SUFFICES ASSUME NEW x \in X \X (1 .. n)
               PROVE  MapUserPage(x[1], v + x[2] - 1, f + x[2] - 1) \in X
    OBVIOUS
  <2>1. Good(x[1]) /\ x[2] \in 1 .. n
    OBVIOUS
  <2> DEFINE q == MapUserPage(x[1], v + x[2] - 1, f + x[2] - 1)
  <2>2. Good(q)
    <3> HIDE DEF n
    <3>1. QED
      BY <1>5, <2>1
  <2> HIDE DEF q
  <2>3. q \in X
    BY <2>2 DEF Good
  <2>4. QED
    BY <2>3 DEF q
<1>7. \E g : IsTrace(g, n, X, s, Round)
  <2> HIDE DEF n, X, Round
  <2>1. QED
    BY <1>2, <1>3, <1>6, LoopTrace
<1>8. PICK g : IsTrace(g, n, X, s, Round)
  BY <1>7
<1>9. g = [i \in 0 .. n |-> IF i = 0 THEN s ELSE MapUserPage(g[i - 1], v + i - 1, f + i - 1)]
  <2>1. g \in [0 .. n -> X] /\ g[0] = s
    BY <1>8 DEF IsTrace
  <2>2. ASSUME NEW i \in 1 .. n PROVE g[i] = MapUserPage(g[i - 1], v + i - 1, f + i - 1)
    <3>1. g[i] = Round[<<g[i - 1], i>>]
      BY <1>8 DEF IsTrace
    <3>2. i - 1 \in 0 .. n
      BY <1>2
    <3>3. <<g[i - 1], i>> \in X \X (1 .. n)
      BY <3>2, <2>1
    <3>4. QED
      BY <3>1, <3>3
  <2>3. ASSUME NEW i \in 0 .. n PROVE i = 0 \/ i \in 1 .. n
    BY <1>2
  <2> HIDE DEF n, X, Round
  <2>4. QED
    BY <2>1, <2>2, <2>3
<1>10. d = [i \in 0 .. n |-> IF i = 0 THEN s ELSE MapUserPage(d[i - 1], v + i - 1, f + i - 1)]
  BY <1>9
<1> HIDE DEF d
<1>11. d[0] = s /\ \A i \in 1 .. n : d[i] = MapUserPage(d[i - 1], v + i - 1, f + i - 1)
  BY <1>2, <1>10
<1> DEFINE S == {i \in 0 .. n : Good(d[i])}
<1>12. 0 \in S
  BY <1>2, <1>11
<1>13. ASSUME NEW i \in 1 .. n, i - 1 \in S PROVE i \in S
  <2>1. Good(MapUserPage(d[i - 1], v + i - 1, f + i - 1))
    BY <1>5, <1>13
  <2>2. QED
    BY <2>1, <1>2, <1>11
<1>14. 0 .. n \subseteq S
  <2> HIDE DEF n, S
  <2>1. QED
    BY <1>2, <1>12, <1>13, RoundInduction
<1>15. QED
  BY <1>1, <1>4, <1>11, <1>14 DEF FramesTrace

(* What the loop of mapDevice does to the address space.                   *)
LEMMA MapFramesGood ==
    ASSUME NEW s, Good(s), NEW v \in Nat, NEW f \in Nat, NEW k \in Nat,
           v + k <= StackPage + 1, f .. f + k - 1 \subseteq DeviceFrames
    PROVE  LET r == MapFrames(s, v, f, k)
           IN  Good(r) /\ From(s, r, s.free) /\ SameHead(s, r)
<1>1. PICK d : FramesTrace(d, s, v, f, k) /\ MapFrames(s, v, f, k) = d[k]
  BY MapFramesTrace
<1> DEFINE S == {i \in 0 .. k : From(s, d[i], s.free) /\ SameHead(s, d[i])}
<1>2. 0 \in S
  BY <1>1, FromItself DEF SameHead, FramesTrace
<1>3. ASSUME NEW i \in 1 .. k, i - 1 \in S PROVE i \in S
  <2> DEFINE r == d[i - 1]
             w == v + i - 1
             g == f + i - 1
             q == MapUserPage(r, w, g)
  <2>1. From(s, r, s.free) /\ SameHead(s, r)
    BY <1>3
  <2>2. d[i] = q /\ i \in 0 .. k /\ Good(r) /\ w \in Page /\ g \in Mappable \ Ram
    BY <1>1 DEF FramesTrace
  <2> HIDE DEF r, w, g
  <2>3. From(r, q, r.free \cup {g}) /\ SameHead(r, q)
    BY <2>2, MapUserPageGood
  <2> HIDE DEF q
  <2>4. From(s, q, s.free)
    BY <2>1, <2>2, <2>3 DEF From
  <2>5. SameHead(s, q)
    BY <2>1, <2>3 DEF SameHead
  <2>6. QED
    BY <2>2, <2>4, <2>5
<1>4. k \in S
  <2> HIDE DEF S
  <2>1. 0 .. k \subseteq S
    BY <1>2, <1>3, RoundInduction
  <2>2. QED
    BY <2>1
<1>5. QED
  BY <1>1, <1>4 DEF FramesTrace

-----------------------------------------------------------------------------
(* New processes.                                                          *)

(* An address space under construction: its frames were clear when its     *)
(* construction began.                                                     *)
Fresh(r) == Good(r) /\ r.free \subseteq free
              /\ \A x \in Slot : Content(r, x) \in Ram => Content(r, x) \in free

(* A new address space that takes free frames only stays apart from the others. *)
LEMMA FreshGrows ==
    ASSUME NEW s, Fresh(s), NEW r, Good(r), From(s, r, s.free)
    PROVE  Fresh(r)
BY DEF Fresh, From

(* createAddressSpace: nothing but the directory. *)
LEMMA CreateFresh ==
    ASSUME free \subseteq Managed
    PROVE  Fresh(CreateAddressSpace)
<1> DEFINE d == AllocFrame(free)
           s == CreateAddressSpace
<1>1. d = NoFrame \/ d \in free
  BY Alloc
<1>2. /\ s.free = free \ {d} /\ s.dir = d /\ s.kstack = NoFrame
      /\ s.tables = [i \in Table |-> NoFrame] /\ s.pages = [v \in Page |-> NoFrame]
  BY DEF CreateAddressSpace
<1>3. s \in Spaces
  BY <1>1 DEF CreateAddressSpace, Spaces
<1> HIDE DEF s, d
<1>4. \A x \in Slot : Content(s, x) = IF x = <<"directory", 0>> THEN d ELSE NoFrame
  <2> SUFFICES ASSUME NEW x \in Slot
               PROVE  Content(s, x) = IF x = <<"directory", 0>> THEN d ELSE NoFrame
    OBVIOUS
  <2>1. CASE x = <<"directory", 0>>
    BY <2>1, <1>2, ContentFacts
  <2>2. CASE x = <<"kstack", 0>>
    BY <2>2, <1>2, ContentFacts
  <2>3. CASE \E i \in Table : x = <<"table", i>>
    BY <2>3, <1>2, ContentFacts
  <2>4. CASE \E v \in Page : x = <<"page", v>>
    BY <2>4, <1>2, ContentFacts
  <2>5. QED
    BY <2>1, <2>2, <2>3, <2>4, SlotFacts
<1>5. NoFrame \notin Ram
  BY FrameFacts
<1>6. Good(s)
  BY <1>1, <1>2, <1>3, <1>4, <1>5 DEF Good
<1>7. QED
  BY <1>1, <1>2, <1>4, <1>5, <1>6 DEF Fresh, s

(* A process up to its user stack: the ELF loader may stop at any page. *)
LEMMA UserStackFresh ==
    ASSUME free \subseteq Managed, NEW image \in Images \cup {NotElf}
    PROVE  Fresh(WithUserStack(image))
<1> DEFINE b == CreateAddressSpace
           s == Load(b, image)
<1>1. Fresh(b)
  BY CreateFresh
<1>2. Fresh(s)
  <2> HIDE DEF b
  <2>1. Good(b)
    BY <1>1 DEF Fresh
  <2>2. CASE image \in Images
    <3>1. image \in Seq(Page)
      <4>1. image \in Seq(0 .. StackPage - 1)
        BY <2>2, MemoryAssumption
      <4>2. 0 .. StackPage - 1 \subseteq Page
        BY MemoryAssumption DEF Page
      <4>3. ASSUME NEW A, NEW B, A \subseteq B, NEW q \in Seq(A) PROVE q \in Seq(B)
        BY <4>3
      <4>4. QED
        BY <4>1, <4>2, <4>3, Zenon
    <3> DEFINE r == AddPages(b, image)
    <3>2. Good(r) /\ From(b, r, b.free)
      BY <2>1, <3>1, AddPagesGood
    <3> HIDE DEF r
    <3>3. Fresh(r)
      BY <1>1, <3>2, FreshGrows
    <3>4. QED
      BY <2>2, <3>3 DEF Load, r
  <2>3. CASE image \notin Images
    <3> DEFINE r == [b EXCEPT !.ok = FALSE]
    <3>1. b \in Spaces
      BY <2>1 DEF Good
    <3>2. /\ r \in Spaces /\ r.free = b.free /\ r.dir = b.dir /\ r.kstack = b.kstack
          /\ r.tables = b.tables /\ r.pages = b.pages
      BY <3>1 DEF Spaces
    <3> HIDE DEF r
    <3>3. \A x \in Slot : Content(r, x) = Content(b, x)
      BY <3>2 DEF Content
    <3>4. Fresh(r)
      BY <1>1, <3>2, <3>3 DEF Fresh, Good
    <3>5. QED
      BY <2>3, <3>4 DEF Load, r
  <2>4. QED
    BY <2>2, <2>3
<1>3. Fresh(AddPage(s, StackPage))
  <2> HIDE DEF s
  <2> DEFINE r == AddPage(s, StackPage)
  <2>1. StackPage \in Page
    BY MemoryAssumption DEF Page
  <2>2. Good(r) /\ From(s, r, s.free)
    BY <1>2, <2>1, AddPageGood DEF Fresh
  <2> HIDE DEF r
  <2>3. Fresh(r)
    BY <1>2, <2>2, FreshGrows
  <2>4. QED
    BY <2>3 DEF r
<1>4. QED
  BY <1>3 DEF WithUserStack

(* spawn: the kernel stack has a frame of its own when it succeeds. *)
LEMMA KernelStackFresh ==
    ASSUME NEW s, Fresh(s)
    PROVE  LET r == WithKernelStack(s)
           IN  Fresh(r) /\ (r.ok => r.kstack # NoFrame)
<1> DEFINE k == AllocFrame(s.free)
           e == [s EXCEPT !.ok = FALSE]
           r == [s EXCEPT !.free = @ \ {k}, !.kstack = k]
<1>1. WithKernelStack(s) = IF ~s.ok \/ k = NoFrame THEN e ELSE r
  BY DEF WithKernelStack
<1>2. /\ s \in Spaces /\ s.free \subseteq Managed /\ Good(s)
      /\ s = [free |-> s.free, ok |-> s.ok, dir |-> s.dir, kstack |-> s.kstack,
              tables |-> s.tables, pages |-> s.pages]
  BY DEF Fresh, Good, Spaces
<1>3. CASE ~s.ok \/ k = NoFrame
  <2>1. /\ e \in Spaces /\ e.free = s.free /\ e.dir = s.dir /\ e.kstack = s.kstack
        /\ e.tables = s.tables /\ e.pages = s.pages /\ e.ok = FALSE
    BY <1>2 DEF Spaces
  <2> HIDE DEF e
  <2>2. \A y \in Slot : Content(e, y) = Content(s, y)
    BY <2>1 DEF Content
  <2>3. Fresh(e)
    BY <2>1, <2>2 DEF Fresh, Good
  <2>4. QED
    BY <1>1, <1>3, <2>1, <2>3
<1>4. CASE ~(~s.ok \/ k = NoFrame)
  <2> DEFINE x == <<"kstack", 0>>
  <2>1. k \in s.free /\ k \in Managed
    BY <1>2, <1>4, Alloc
  <2>2. /\ r \in Spaces /\ r.free = s.free \ {k} /\ r.dir = s.dir /\ r.kstack = k
        /\ r.tables = s.tables /\ r.pages = s.pages
    BY <1>2, <2>1 DEF Spaces
  <2> HIDE DEF r, k
  <2>3. ASSUME NEW y \in Slot PROVE Content(r, y) = IF y = x THEN k ELSE Content(s, y)
    <3>1. CASE y = <<"directory", 0>>
      BY <3>1, <2>2, ContentFacts
    <3>2. CASE y = x
      BY <3>2, <2>2, ContentFacts
    <3>3. CASE \E i \in Table : y = <<"table", i>>
      BY <3>3, <2>2, ContentFacts
    <3>4. CASE \E v \in Page : y = <<"page", v>>
      BY <3>4, <2>2, ContentFacts
    <3>5. QED
      BY <3>1, <3>2, <3>3, <3>4, SlotFacts
  <2>4. x \in Slot
    BY SlotFacts
  <2>5. k \in Ram => k \notin r.free /\ \A y \in Slot \ {x} : Content(s, y) # k
    BY <2>1, <2>2, <1>2 DEF Good
  <2> HIDE DEF x
  <2>6. Good(r) /\ From(s, r, {k})
    BY <1>2, <2>2, <2>3, <2>4, <2>5, PutFrame
  <2>7. From(s, r, s.free)
    BY <2>1, <2>6, FromMore
  <2>8. Fresh(r)
    BY <2>6, <2>7, FreshGrows
  <2>9. QED
    BY <1>1, <1>4, <2>2, <2>8
<1>5. QED
  BY <1>3, <1>4

(* The heap begins at a page of the user part of the address space. *)
LEMMA HeapStartIsPage ==
    ASSUME NEW image \in Images
    PROVE  HeapStart(image) \in Page
<1> DEFINE T == {-1} \cup {image[i] : i \in DOMAIN image}
           U == {StackPage - y : y \in T}
<1>1. StackPage \in Nat /\ image \in Seq(0 .. StackPage - 1)
  BY MemoryAssumption
<1>2. T \subseteq -1 .. StackPage - 1
  <2>1. \A i \in DOMAIN image : image[i] \in 0 .. StackPage - 1
    BY <1>1
  <2>2. QED
    BY <1>1, <2>1
<1>3. -1 \in T
  OBVIOUS
<1> HIDE DEF T
<1>4. U \subseteq Nat /\ U # {}
  BY <1>1, <1>2, <1>3
<1>5. PICK m \in U : \A y \in U : m <= y
  <2> HIDE DEF U
  <2>1. QED
    BY <1>4, MinInSet
<1>6. PICK x \in T : m = StackPage - x
  OBVIOUS
<1>7. \A y \in T : x >= y
  <2> SUFFICES ASSUME NEW y \in T PROVE x >= y
    OBVIOUS
  <2>1. StackPage - y \in U
    OBVIOUS
  <2>2. StackPage - x <= StackPage - y
    BY <2>1, <1>5, <1>6
  <2>3. x \in Int /\ y \in Int
    BY <1>2
  <2>4. QED
    BY <1>1, <2>2, <2>3
<1>8. Max(T) \in T
  BY <1>7 DEF Max
<1>9. Max(T) \in -1 .. StackPage - 1
  BY <1>2, <1>8
<1>10. HeapStart(image) = 1 + Max(T)
  BY DEF HeapStart, T
<1>11. QED
  BY <1>1, <1>9, <1>10 DEF Page

-----------------------------------------------------------------------------
(* All processes.                                                          *)

(* The frame in every place of every process. *)
Contents == [p \in Pid |-> [x \in Slot |-> Content(Space(p), x)]]

(* A frame of RAM is in one place of one process, and not clear. *)
OneUse(c, clear) ==
    /\ \A p, q \in Pid : \A x, y \in Slot :
          c[p][x] = c[q][y] /\ c[p][x] \in Ram => p = q /\ x = y
    /\ \A p \in Pid : \A x \in Slot : c[p][x] \in Ram => c[p][x] \notin clear

Typed ==
    /\ free \subseteq Managed
    /\ pd \in [Pid -> Managed \cup {NoFrame}]
    /\ tables \in [Pid -> [Table -> Managed \cup {NoFrame}]]
    /\ pages \in [Pid -> [Page -> Mappable \cup {NoFrame}]]
    /\ kstack \in [Pid -> Managed \cup {NoFrame}]
    /\ heapBase \in [Pid -> Page] /\ heapBreak \in [Pid -> Page]
    /\ nextPid \in 1 .. MaxPid + 1
    /\ current \in {KernelTask} \cup Pid
    /\ cr3 \in Managed \cup {NoFrame}
    /\ modules \in 0 .. BootModules

(* The processes in the list have a directory and a kernel stack, the      *)
(* running one is in the list, pids above nextPid are unused, and start()  *)
(* runs before all of them.                                                *)
Living ==
    /\ \A p \in Pid : pd[p] # NoFrame => kstack[p] # NoFrame
    /\ current # KernelTask => pd[current] # NoFrame
    /\ \A p \in Pid : p >= nextPid => pd[p] = NoFrame
    /\ Booting => current = KernelTask /\ cr3 = NoFrame

(* CR3 holds the directory of the running process, or of one that has      *)
(* exited and whose directory has not been taken since.                    *)
Cr3Held ==
    /\ current # KernelTask => cr3 = pd[current]
    /\ cr3 # NoFrame => cr3 \in free \/ \E p \in Pid : pd[p] = cr3

MemInv == Typed /\ OneUse(Contents, free) /\ Living /\ Cr3Held

(* One process changes its address space, by allocating. *)
LEMMA ReplaceSpace ==
    ASSUME NEW c, NEW d, NEW clear, OneUse(c, clear), NEW a \in Pid,
           NEW r, Good(r), r.free \subseteq clear,
           \A p \in Pid : \A x \in Slot : d[p][x] = IF p = a THEN Content(r, x) ELSE c[p][x],
           \A x \in Slot : Content(r, x) \in Ram =>
                 Content(r, x) \in clear \/ Content(r, x) = c[a][x]
    PROVE  OneUse(d, r.free)
<1>1. ASSUME NEW p \in Pid, NEW q \in Pid, NEW x \in Slot, NEW y \in Slot,
             d[p][x] = d[q][y], d[p][x] \in Ram
      PROVE  p = q /\ x = y
  <2>1. CASE p = a /\ q = a
    BY <1>1, <2>1 DEF Good
  <2>2. CASE p = a /\ q # a
    BY <1>1, <2>2 DEF OneUse
  <2>3. CASE p # a /\ q = a
    BY <1>1, <2>3 DEF OneUse
  <2>4. CASE p # a /\ q # a
    BY <1>1, <2>4 DEF OneUse
  <2>5. QED
    BY <2>1, <2>2, <2>3, <2>4
<1>2. ASSUME NEW p \in Pid, NEW x \in Slot, d[p][x] \in Ram
      PROVE  d[p][x] \notin r.free
  BY <1>2 DEF Good, OneUse
<1>3. QED
  BY <1>1, <1>2 DEF OneUse

(* Bits are set, or cleared for frames that are in no place. *)
LEMMA OtherBits ==
    ASSUME NEW c, NEW clear, NEW less, OneUse(c, clear), less \cap Ram \subseteq clear
    PROVE  OneUse(c, less)
BY DEF OneUse

(* One process gives back its frames. *)
LEMMA ReleaseSpace ==
    ASSUME NEW c, NEW d, NEW clear, NEW more, OneUse(c, clear), NEW a \in Pid,
           \A p \in Pid : \A x \in Slot : d[p][x] = IF p = a THEN NoFrame ELSE c[p][x],
           \A f \in more \cap Ram : f \in clear \/ \E x \in Slot : f = c[a][x]
    PROVE  OneUse(d, more)
<1>1. NoFrame \notin Ram
  BY FrameFacts
<1>2. ASSUME NEW p \in Pid, NEW q \in Pid, NEW x \in Slot, NEW y \in Slot,
             d[p][x] = d[q][y], d[p][x] \in Ram
      PROVE  p = q /\ x = y
  BY <1>1, <1>2 DEF OneUse
<1>3. ASSUME NEW p \in Pid, NEW x \in Slot, d[p][x] \in Ram
      PROVE  d[p][x] \notin more
  <2>1. p # a /\ d[p][x] = c[p][x]
    BY <1>1, <1>3
  <2>2. QED
    BY <1>3, <2>1 DEF OneUse
<1>4. QED
  BY <1>2, <1>3 DEF OneUse

(* The places of a process are those of its address space. *)
LEMMA ContentsNow ==
    ASSUME NEW p \in Pid, NEW x \in Slot
    PROVE  Contents[p][x] = Content(Space(p), x)
BY DEF Contents

(* The same for the state after a step. *)
LEMMA ContentsNext ==
    ASSUME NEW p \in Pid, NEW x \in Slot, NEW r, r.dir = pd'[p], r.kstack = kstack'[p],
           r.tables = tables'[p], r.pages = pages'[p]
    PROVE  Contents'[p][x] = Content(r, x)
<1>1. Contents'[p][x] = Content(Space(p)', x)
  BY DEF Contents
<1>2. /\ Space(p)'.dir = r.dir /\ Space(p)'.kstack = r.kstack
      /\ Space(p)'.tables = r.tables /\ Space(p)'.pages = r.pages
  BY DEF Space
<1>3. QED
  BY <1>1, <1>2 DEF Content

(* The record on which the functions of exec, sbrk and mapDevice work. *)
LEMMA SpaceParts ==
    ASSUME NEW p
    PROVE  /\ Space(p).dir = pd[p] /\ Space(p).kstack = kstack[p]
           /\ Space(p).tables = tables[p] /\ Space(p).pages = pages[p]
           /\ Space(p).free = free
BY DEF Space

(* The address space of one process. *)
LEMMA OwnSpaceGood ==
    ASSUME MemInv, NEW p \in Pid
    PROVE  Good(Space(p))
<1>1. Space(p) \in Spaces
  BY DEF MemInv, Typed, Space, Spaces
<1>2. \A x, y \in Slot : Content(Space(p), x) = Content(Space(p), y)
                              /\ Content(Space(p), x) \in Ram => x = y
  BY ContentsNow DEF MemInv, OneUse
<1>3. \A x \in Slot : Content(Space(p), x) \in Ram => Content(Space(p), x) \notin free
  BY ContentsNow DEF MemInv, OneUse
<1>4. QED
  BY <1>1, <1>2, <1>3, SpaceParts DEF Good

(* The address space of a process that is not in the list. *)
LEMMA BlankSpace ==
    ASSUME NEW s, s.dir = NoFrame, s.kstack = NoFrame, NEW x \in Slot,
           \A i \in Table : s.tables[i] = NoFrame, \A v \in Page : s.pages[v] = NoFrame
    PROVE  Content(s, x) = NoFrame
<1>1. CASE x = <<"directory", 0>>
  BY <1>1, ContentFacts
<1>2. CASE x = <<"kstack", 0>>
  BY <1>2, ContentFacts
<1>3. CASE \E i \in Table : x = <<"table", i>>
  BY <1>3, ContentFacts
<1>4. CASE \E v \in Page : x = <<"page", v>>
  BY <1>4, ContentFacts
<1>5. QED
  BY <1>1, <1>2, <1>3, <1>4, SlotFacts

(* The processes whose variables a step leaves alone. *)
LEMMA ContentsSame ==
    ASSUME NEW p \in Pid, NEW x \in Slot, pd'[p] = pd[p], kstack'[p] = kstack[p],
           tables'[p] = tables[p], pages'[p] = pages[p]
    PROVE  Contents'[p][x] = Contents[p][x]
<1> DEFINE r == Space(p)
<1>1. /\ r.dir = pd'[p] /\ r.kstack = kstack'[p] /\ r.tables = tables'[p]
      /\ r.pages = pages'[p]
  BY SpaceParts
<1>2. Contents[p][x] = Content(r, x)
  BY ContentsNow
<1> HIDE DEF r
<1>3. QED
  BY <1>1, <1>2, ContentsNext

(* At boot no process has an address space. *)
LEMMA InitMem == Init => MemInv
<1> SUFFICES ASSUME Init PROVE MemInv
  OBVIOUS
<1>1. Typed
  BY MemoryAssumption DEF Init, Typed, Managed, Mappable, Page
<1>2. ASSUME NEW p \in Pid, NEW x \in Slot PROVE Contents[p][x] = NoFrame
  <2>1. Contents[p][x] = Content(Space(p), x)
    BY ContentsNow
  <2>2. /\ Space(p).dir = NoFrame /\ Space(p).kstack = NoFrame
        /\ \A i \in Table : Space(p).tables[i] = NoFrame
        /\ \A v \in Page : Space(p).pages[v] = NoFrame
    BY SpaceParts DEF Init
  <2>3. QED
    BY <2>1, <2>2, BlankSpace
<1>3. OneUse(Contents, free)
  BY <1>2, FrameFacts DEF OneUse
<1>4. Living /\ Cr3Held
  BY DEF Init, Living, Cr3Held, KernelTask
<1>5. QED
  BY <1>1, <1>3, <1>4 DEF MemInv

(* spawn, from start() or from exec: the new process has frames that were  *)
(* clear, whatever the others hold.                                        *)
LEMMA SpawnMem ==
    ASSUME MemInv, NEW image \in Images, Spawn(image), UNCHANGED <<current, cr3>>,
           \/ Booting /\ modules' = modules - 1
           \/ UserRunning /\ modules' = modules
    PROVE  MemInv'
<1> DEFINE u == WithUserStack(image)
           s == WithKernelStack(u)
           n == nextPid
<1>1. Fresh(u)
  BY UserStackFresh DEF MemInv, Typed
<1>2. Fresh(s) /\ (s.ok => s.kstack # NoFrame)
  <2> HIDE DEF u
  <2>1. QED
    BY <1>1, KernelStackFresh
<1>3. /\ n \in Pid /\ s.ok /\ nextPid' = n + 1 /\ free' = s.free
      /\ pd' = [pd EXCEPT ![n] = s.dir] /\ tables' = [tables EXCEPT ![n] = s.tables]
      /\ pages' = [pages EXCEPT ![n] = s.pages] /\ kstack' = [kstack EXCEPT ![n] = s.kstack]
      /\ heapBase' = [heapBase EXCEPT ![n] = HeapStart(image)]
      /\ heapBreak' = [heapBreak EXCEPT ![n] = HeapStart(image)]
  <2>1. n \in Pid
    BY MemoryAssumption DEF MemInv, Typed, Spawn, Pid
  <2>2. QED
    BY <2>1 DEF Spawn
<1> HIDE DEF s, u
<1>4. /\ Good(s) /\ s \in Spaces /\ s.free \subseteq free
      /\ s.free \subseteq Managed /\ s.dir \in Managed \cup {NoFrame}
      /\ s.kstack \in Managed \cup {NoFrame}
      /\ s.tables \in [Table -> Managed \cup {NoFrame}]
      /\ s.pages \in [Page -> Mappable \cup {NoFrame}]
  BY <1>2 DEF Fresh, Good, Spaces
<1>5. Typed'
  <2>1. HeapStart(image) \in Page
    BY HeapStartIsPage
  <2>2. modules' \in 0 .. BootModules
    BY MemoryAssumption DEF MemInv, Typed, Booting
  <2>3. nextPid' \in 1 .. MaxPid + 1
    BY <1>3, MemoryAssumption DEF Pid
  <2>4. QED
    BY <1>3, <1>4, <2>1, <2>2, <2>3 DEF MemInv, Typed
<1>6. ASSUME NEW p \in Pid, NEW x \in Slot
      PROVE  Contents'[p][x] = IF p = n THEN Content(s, x) ELSE Contents[p][x]
  <2>1. CASE p = n
    <3>1. /\ s.dir = pd'[p] /\ s.kstack = kstack'[p] /\ s.tables = tables'[p]
          /\ s.pages = pages'[p]
      BY <1>3, <2>1 DEF MemInv, Typed
    <3>2. QED
      BY <2>1, <3>1, ContentsNext
  <2>2. CASE p # n
    <3>1. /\ pd[p] = pd'[p] /\ kstack[p] = kstack'[p] /\ tables[p] = tables'[p]
          /\ pages[p] = pages'[p]
      BY <1>3, <2>2 DEF MemInv, Typed
    <3>2. QED
      BY <2>2, <3>1, ContentsSame
  <2>3. QED
    BY <2>1, <2>2
<1>7. OneUse(Contents', free')
  <2>1. OneUse(Contents, free)
    BY DEF MemInv
  <2>2. \A x \in Slot : Content(s, x) \in Ram => Content(s, x) \in free
    BY <1>2 DEF Fresh
  <2> HIDE DEF n
  <2>3. OneUse(Contents', s.free)
    BY <2>1, <2>2, <1>3, <1>4, <1>6, ReplaceSpace
  <2>4. QED
    BY <1>3, <2>3
<1>8. Living' /\ Cr3Held'
  <2>1. \A p \in Pid : p # n => pd'[p] = pd[p] /\ kstack'[p] = kstack[p]
    BY <1>3 DEF MemInv, Typed
  <2>2. pd'[n] = s.dir /\ kstack'[n] # NoFrame
    BY <1>2, <1>3 DEF MemInv, Typed
  <2>3. pd[n] = NoFrame
    BY <1>3 DEF MemInv, Living, Pid
  <2>4. \A p \in Pid : pd'[p] # NoFrame => kstack'[p] # NoFrame
    BY <2>1, <2>2 DEF MemInv, Living
  <2>5. current' = current /\ cr3' = cr3
    OBVIOUS
  <2>6. current # KernelTask => current \in Pid /\ current # n /\ pd[current] # NoFrame
    BY <2>3 DEF MemInv, Typed, Living
  <2>7. \A p \in Pid : p >= nextPid' => pd'[p] = NoFrame
    <3> SUFFICES ASSUME NEW p \in Pid, p >= nextPid' PROVE pd'[p] = NoFrame
      OBVIOUS
    <3>1. p \in Nat /\ n \in Nat /\ p >= n + 1
      BY <1>3 DEF Pid
    <3>2. p # n /\ p >= n
      BY <3>1
    <3>3. QED
      BY <2>1, <3>2 DEF MemInv, Living
  <2>8. Booting' => current' = KernelTask /\ cr3' = NoFrame
    <3>1. CASE Booting
      BY <3>1, <2>5 DEF MemInv, Living
    <3>2. CASE ~Booting
      BY <3>2 DEF Booting, UserRunning
    <3>3. QED
      BY <3>1, <3>2
  <2>9. Living'
    BY <2>1, <2>4, <2>5, <2>6, <2>7, <2>8 DEF Living
  <2>10. current' # KernelTask => cr3' = pd'[current']
    BY <2>1, <2>5, <2>6 DEF MemInv, Cr3Held
  <2>11. ASSUME cr3' # NoFrame PROVE \E p \in Pid : pd'[p] = cr3'
    <3>1. current # KernelTask
      BY <2>5, <2>11 DEF MemInv, Living, UserRunning
    <3>2. QED
      BY <3>1, <2>1, <2>5, <2>6 DEF MemInv, Cr3Held
  <2>12. QED
    BY <2>9, <2>10, <2>11 DEF Cr3Held
<1>9. QED
  BY <1>5, <1>7, <1>8 DEF MemInv

(* Steps that write none of the address spaces. *)
LEMMA FreeMem ==
    ASSUME MemInv, UNCHANGED <<pd, tables, pages, kstack, heapBase, heapBreak, nextPid>>,
           free' \subseteq Managed, free' \cap Ram \subseteq free
    PROVE  OneUse(Contents, free)'
<1>1. Contents' = Contents
  BY DEF Contents, Space, Content
<1>2. OneUse(Contents', free')
  BY <1>1, OtherBits DEF MemInv
<1>3. QED
  BY <1>2

(* start() skips a module: the frames it has taken stay marked. *)
LEMMA BootSkipMem ==
    ASSUME MemInv, NEW image \in Images \cup {NotElf}, BootSkip(image)
    PROVE  MemInv'
<1>1. Fresh(WithUserStack(image))
  BY UserStackFresh DEF MemInv, Typed
<1>2. free' \subseteq free /\ free' \subseteq Managed
  BY <1>1 DEF Fresh, BootSkip, MemInv, Typed
<1>3. OneUse(Contents, free)'
  BY <1>2, FreeMem DEF BootSkip
<1>4. Typed'
  <2>1. modules' \in 0 .. BootModules
    BY MemoryAssumption DEF MemInv, Typed, BootSkip, Booting
  <2>2. QED
    BY <1>2, <2>1 DEF MemInv, Typed, BootSkip
<1>5. Living' /\ Cr3Held'
  <2>1. current = KernelTask /\ cr3 = NoFrame
    BY DEF MemInv, Living, BootSkip
  <2>2. QED
    BY <2>1 DEF MemInv, Living, Cr3Held, BootSkip
<1>6. QED
  BY <1>3, <1>4, <1>5 DEF MemInv

(* The frames that destroyAddressSpace gives back were in the space. *)
LEMMA Destroyed ==
    ASSUME NEW s, s \in Spaces, NEW f \in DestroyAddressSpace(s)
    PROVE  \/ f \in s.free
           \/ f \in Managed \cup {NoFrame} /\ \E x \in Slot : f = Content(s, x)
<1>1. CASE f \in s.free
  BY <1>1
<1>2. CASE f \in Held(s.tables)
  <2>1. PICK i \in Table : f = s.tables[i]
    BY <1>2 DEF Held, Spaces
  <2>2. f = Content(s, <<"table", i>>) /\ <<"table", i>> \in Slot
    BY <2>1, SlotFacts, ContentFacts
  <2>3. f \in Managed \cup {NoFrame}
    BY <2>1 DEF Spaces
  <2>4. QED
    BY <2>2, <2>3
<1>3. CASE f \in Held(s.pages) \ LowDevice
  <2>1. PICK v \in Page : f = s.pages[v]
    BY <1>3 DEF Held, Spaces
  <2>2. f = Content(s, <<"page", v>>) /\ <<"page", v>> \in Slot
    BY <2>1, SlotFacts, ContentFacts
  <2>3. f \in Managed \cup {NoFrame}
    BY <1>3, <2>1, FrameFacts DEF Spaces
  <2>4. QED
    BY <2>2, <2>3
<1>4. CASE f = s.dir
  <2>1. f = Content(s, <<"directory", 0>>) /\ <<"directory", 0>> \in Slot
    BY <1>4, SlotFacts, ContentFacts
  <2>2. QED
    BY <1>4, <2>1 DEF Spaces
<1>5. QED
  BY <1>1, <1>2, <1>3, <1>4 DEF DestroyAddressSpace

(* destroyAddressSpace frees real frames only. *)
LEMMA DestroyedNotNull ==
    ASSUME NEW s, s \in Spaces, s.dir # NoFrame
    PROVE  DestroyAddressSpace(s) \subseteq Managed
<1> SUFFICES ASSUME NEW f \in DestroyAddressSpace(s), f = NoFrame PROVE FALSE
  BY Destroyed DEF Spaces
<1>1. NoFrame \notin s.free
  BY FrameFacts DEF Spaces
<1>2. QED
  BY <1>1 DEF DestroyAddressSpace, Held

(* exec gives up: what it had taken is clear again, and nothing else is. *)
LEMMA ExecErrorMem ==
    ASSUME MemInv, NEW image \in Images \cup {NotElf}, ExecError(image)
    PROVE  MemInv'
<1> DEFINE s == WithUserStack(image)
<1>1. Fresh(s)
  BY UserStackFresh DEF MemInv, Typed
<1>2. free' = IF s.dir = NoFrame THEN free ELSE DestroyAddressSpace(s)
  BY DEF ExecError
<1> HIDE DEF s
<1>3. s \in Spaces
  BY <1>1 DEF Fresh, Good
<1>4. free' \subseteq Managed
  BY <1>2, <1>3, DestroyedNotNull DEF MemInv, Typed
<1>5. free' \cap Ram \subseteq free
  BY <1>1, <1>2, <1>3, Destroyed DEF Fresh
<1>6. OneUse(Contents, free)'
  BY <1>4, <1>5, FreeMem DEF ExecError
<1>7. Typed'
  BY <1>4 DEF MemInv, Typed, ExecError
<1>8. Living'
  BY DEF MemInv, Living, ExecError, Booting
<1>9. Cr3Held'
  <2>1. current # KernelTask /\ current \in Pid
    BY DEF MemInv, Typed, ExecError, UserRunning
  <2>2. QED
    BY <2>1 DEF MemInv, Cr3Held, ExecError
<1>10. QED
  BY <1>6, <1>7, <1>8, <1>9 DEF MemInv

(* sbrk and mapDevice write the address space of the running process. *)
LEMMA StoreMem ==
    ASSUME MemInv, NEW r, Good(r), From(Space(current), r, free), SameHead(Space(current), r),
           UserRunning, Store(r), heapBreak' \in [Pid -> Page]
    PROVE  MemInv'
<1> DEFINE s == Space(current)
<1>1. current \in Pid
  BY DEF MemInv, Typed, UserRunning
<1>2. /\ free' = r.free /\ tables' = [tables EXCEPT ![current] = r.tables]
      /\ pages' = [pages EXCEPT ![current] = r.pages]
      /\ UNCHANGED <<pd, kstack, heapBase, nextPid, current, cr3, modules>>
  BY DEF Store
<1>3. /\ r.free \subseteq Managed /\ r.tables \in [Table -> Managed \cup {NoFrame}]
      /\ r.pages \in [Page -> Mappable \cup {NoFrame}]
  BY DEF Good, Spaces
<1>4. Typed'
  BY <1>1, <1>2, <1>3 DEF MemInv, Typed
<1>5. ASSUME NEW p \in Pid, NEW x \in Slot
      PROVE  Contents'[p][x] = IF p = current THEN Content(r, x) ELSE Contents[p][x]
  <2>1. CASE p = current
    <3>1. r.dir = pd[p] /\ r.kstack = kstack[p]
      BY <2>1, SpaceParts DEF SameHead
    <3>2. /\ r.dir = pd'[p] /\ r.kstack = kstack'[p] /\ r.tables = tables'[p]
          /\ r.pages = pages'[p]
      BY <1>1, <1>2, <2>1, <3>1 DEF MemInv, Typed
    <3>3. QED
      BY <2>1, <3>2, ContentsNext
  <2>2. CASE p # current
    <3>1. /\ pd'[p] = pd[p] /\ kstack'[p] = kstack[p] /\ tables'[p] = tables[p]
          /\ pages'[p] = pages[p]
      BY <1>1, <1>2, <2>2 DEF MemInv, Typed
    <3>2. QED
      BY <2>2, <3>1, ContentsSame
  <2>3. QED
    BY <2>1, <2>2
<1>6. OneUse(Contents', free')
  <2>1. OneUse(Contents, free)
    BY DEF MemInv
  <2>2. r.free \subseteq free
    BY SpaceParts DEF From
  <2>3. \A x \in Slot : Content(r, x) \in Ram =>
            Content(r, x) \in free \/ Content(r, x) = Contents[current][x]
    BY <1>1, ContentsNow DEF From
  <2>4. OneUse(Contents', r.free)
    BY <1>1, <1>5, <2>1, <2>2, <2>3, ReplaceSpace
  <2>5. QED
    BY <1>2, <2>4
<1>7. Living'
  BY <1>2 DEF MemInv, Living, Booting
<1>8. Cr3Held'
  <2>1. current # KernelTask
    BY DEF UserRunning
  <2>2. QED
    BY <1>1, <1>2, <2>1 DEF MemInv, Cr3Held
<1>9. QED
  BY <1>4, <1>6, <1>7, <1>8 DEF MemInv

(* sbrk, also when it fails in the middle of its loop. *)
LEMMA SbrkMem ==
    ASSUME MemInv, NEW n \in Growth, Sbrk(n)
    PROVE  MemInv'
<1> DEFINE old == heapBreak[current]
           vs == HeapPages(old, n)
           s == Space(current)
           r == AddPages(s, vs)
<1>1. current \in Pid /\ UserRunning
  BY DEF MemInv, Typed, Sbrk, UserRunning
<1>2. old \in Page /\ old + n <= StackPage
  BY <1>1 DEF MemInv, Typed, Sbrk, BelowStack
<1>3. n \in Nat /\ StackPage \in Nat
  BY MemoryAssumption
<1>4. Store(r) /\ heapBreak' = IF r.ok THEN [heapBreak EXCEPT ![current] = old + n] ELSE heapBreak
  BY DEF Sbrk
<1>5. old + n \in Page
  BY <1>2, <1>3 DEF Page
<1>6. heapBreak' \in [Pid -> Page]
  <2>1. heapBreak \in [Pid -> Page]
    BY DEF MemInv, Typed
  <2> HIDE DEF r, old
  <2>2. QED
    BY <1>1, <1>4, <1>5, <2>1
<1>7. vs \in Seq(Page)
  <2>1. \A i \in 1 .. n : old + i - 1 \in Page
    BY <1>2, <1>3 DEF Page
  <2>2. vs \in [1 .. n -> Page]
    BY <2>1 DEF HeapPages
  <2>3. QED
    BY <1>3, <2>2
<1>8. Good(s)
  BY <1>1, OwnSpaceGood
<1> HIDE DEF vs, old
<1>9. Good(r) /\ From(s, r, s.free) /\ SameHead(s, r)
  <2> HIDE DEF s
  <2>1. QED
    BY <1>7, <1>8, AddPagesGood
<1>10. From(s, r, free)
  BY <1>9, SpaceParts
<1> HIDE DEF r
<1>11. QED
  BY <1>1, <1>4, <1>6, <1>9, <1>10, StoreMem

(* mapDevice, accepted or refused. *)
LEMMA MapDeviceMem ==
    ASSUME MemInv, NEW m \in DeviceMaps, MapDevice(m[1], m[2], m[3])
    PROVE  MemInv'
<1> DEFINE v == m[1]
           f == m[2]
           k == m[3]
           s == Space(current)
           r == MapFrames(s, v, f, k)
<1>1. m \in Page \X Nat \X (Nat \ {0})
  BY MemoryAssumption
<1>2. v \in Nat /\ f \in Nat /\ k \in Nat
  BY <1>1 DEF Page
<1>3. f .. f + k - 1 \subseteq DeviceFrames
  BY DEF DeviceFrames
<1>4. current \in Pid /\ UserRunning /\ v + k <= StackPage + 1
  BY DEF MemInv, Typed, MapDevice, UserRunning
<1>5. Store(r) /\ heapBreak' = heapBreak
  BY DEF MapDevice
<1>6. Good(s)
  BY <1>4, OwnSpaceGood
<1> HIDE DEF v, f, k
<1>7. Good(r) /\ From(s, r, s.free) /\ SameHead(s, r)
  <2> HIDE DEF s
  <2>1. QED
    BY <1>2, <1>3, <1>4, <1>6, MapFramesGood
<1>8. From(s, r, free)
  BY <1>7, SpaceParts
<1>9. heapBreak' \in [Pid -> Page]
  BY <1>5 DEF MemInv, Typed
<1> HIDE DEF r
<1>10. QED
  BY <1>4, <1>5, <1>7, <1>8, <1>9, StoreMem

(* switchTo loads CR3 for every process but the idle task. *)
LEMMA SwitchMem ==
    ASSUME MemInv, NEW next \in {KernelTask} \cup Pid, Switch(next)
    PROVE  MemInv'
<1>1. /\ current' = next /\ cr3' = IF next = KernelTask THEN cr3 ELSE pd[next]
      /\ UNCHANGED <<free, pd, tables, pages, kstack, heapBase, heapBreak, nextPid, modules>>
      /\ next # KernelTask => next \in Pid /\ pd[next] # NoFrame
      /\ ~Booting
  BY DEF Switch, LoadCr3, Runnable
<1>2. OneUse(Contents, free)'
  BY <1>1, FreeMem DEF MemInv, Typed
<1>3. Typed'
  BY <1>1 DEF MemInv, Typed
<1>4. Living'
  BY <1>1 DEF MemInv, Living, Booting
<1>5. Cr3Held'
  BY <1>1 DEF MemInv, Cr3Held
<1>6. QED
  BY <1>2, <1>3, <1>4, <1>5 DEF MemInv

(* exit: the address space and the kernel stack are given back, and CR3,   *)
(* when the idle task is next, keeps a directory that is now clear.        *)
LEMMA ExitMem ==
    ASSUME MemInv, NEW next \in {KernelTask} \cup Pid, Exit(next)
    PROVE  MemInv'
<1> DEFINE s == Space(current)
           k == kstack[current]
<1>1. /\ current \in Pid /\ current # KernelTask /\ ~Booting
      /\ pd[current] # NoFrame /\ k # NoFrame
  BY DEF MemInv, Typed, Living, Exit, UserRunning
<1>2. /\ free' = DestroyAddressSpace(s) \cup {k}
      /\ pd' = [pd EXCEPT ![current] = NoFrame]
      /\ tables' = [tables EXCEPT ![current] = [i \in Table |-> NoFrame]]
      /\ pages' = [pages EXCEPT ![current] = [v \in Page |-> NoFrame]]
      /\ kstack' = [kstack EXCEPT ![current] = NoFrame]
      /\ heapBase' = [heapBase EXCEPT ![current] = 0]
      /\ heapBreak' = [heapBreak EXCEPT ![current] = 0]
      /\ current' = next /\ cr3' = IF next = KernelTask THEN cr3 ELSE pd[next]
      /\ UNCHANGED <<nextPid, modules>>
      /\ next # current /\ next # KernelTask => next \in Pid /\ pd[next] # NoFrame
      /\ next # current
  BY DEF Exit, LoadCr3, Runnable
<1>3. Good(s) /\ s \in Spaces
  BY <1>1, OwnSpaceGood DEF Good
<1>4. s.dir = pd[current] /\ s.free = free /\ s.kstack = k
  BY SpaceParts
<1>5. free' \subseteq Managed
  <2>1. k \in Managed
    BY <1>1 DEF MemInv, Typed
  <2> HIDE DEF s, k
  <2>2. QED
    BY <1>1, <1>2, <1>3, <1>4, <2>1, DestroyedNotNull
<1>6. Typed'
  <2>1. 0 \in Page
    BY MemoryAssumption DEF Page
  <2>2. cr3' \in Managed \cup {NoFrame}
    BY <1>2 DEF MemInv, Typed
  <2> HIDE DEF k, s
  <2>3. QED
    BY <1>1, <1>2, <1>5, <2>1, <2>2 DEF MemInv, Typed
<1>7. ASSUME NEW p \in Pid, NEW x \in Slot
      PROVE  Contents'[p][x] = IF p = current THEN NoFrame ELSE Contents[p][x]
  <2>1. CASE p = current
    <3> DEFINE b == Space(p)'
    <3>1. /\ b.dir = NoFrame /\ b.kstack = NoFrame
          /\ \A i \in Table : b.tables[i] = NoFrame
          /\ \A v \in Page : b.pages[v] = NoFrame
      BY <1>1, <1>2, <2>1 DEF MemInv, Typed, Space
    <3>2. Contents'[p][x] = Content(b, x)
      BY DEF Contents
    <3> HIDE DEF b
    <3>3. QED
      BY <2>1, <3>1, <3>2, BlankSpace
  <2>2. CASE p # current
    <3>1. /\ pd'[p] = pd[p] /\ kstack'[p] = kstack[p] /\ tables'[p] = tables[p]
          /\ pages'[p] = pages[p]
      BY <1>1, <1>2, <2>2 DEF MemInv, Typed
    <3>2. QED
      BY <2>2, <3>1, ContentsSame
  <2>3. QED
    BY <2>1, <2>2
<1>8. ASSUME NEW f \in free' \cap Ram
      PROVE  f \in free \/ \E x \in Slot : f = Contents[current][x]
  <2>1. CASE f = k
    <3>1. <<"kstack", 0>> \in Slot /\ Content(s, <<"kstack", 0>>) = k
      BY <1>4, SlotFacts, ContentFacts
    <3>2. QED
      BY <1>1, <2>1, <3>1, ContentsNow
  <2>2. CASE f # k
    <3>1. f \in DestroyAddressSpace(s)
      BY <1>2, <2>2
    <3>2. f \in free \/ \E x \in Slot : f = Content(s, x)
      <4> HIDE DEF s
      <4>1. QED
        BY <1>3, <1>4, <3>1, Destroyed
    <3>3. QED
      BY <1>1, <3>2, ContentsNow
  <2>3. QED
    BY <2>1, <2>2
<1>9. OneUse(Contents', free')
  <2>1. OneUse(Contents, free)
    BY DEF MemInv
  <2>2. QED
    BY <1>1, <1>7, <1>8, <2>1, ReleaseSpace
<1> HIDE DEF s, k
<1>10. \A p \in Pid : p # current => pd'[p] = pd[p] /\ kstack'[p] = kstack[p]
  BY <1>2 DEF MemInv, Typed
<1>11. pd'[current] = NoFrame
  BY <1>1, <1>2 DEF MemInv, Typed
<1>12. Living'
  <2>1. \A p \in Pid : pd'[p] # NoFrame => kstack'[p] # NoFrame
    BY <1>10, <1>11 DEF MemInv, Living
  <2>2. \A p \in Pid : p >= nextPid' => pd'[p] = NoFrame
    BY <1>2, <1>10, <1>11 DEF MemInv, Living
  <2>3. current' # KernelTask => pd'[current'] # NoFrame
    BY <1>2, <1>10
  <2>4. ~Booting'
    BY <1>1, <1>2 DEF Booting
  <2>5. QED
    BY <2>1, <2>2, <2>3, <2>4 DEF Living
<1>13. Cr3Held'
  <2>1. current' # KernelTask => cr3' = pd'[current']
    BY <1>2, <1>10
  <2>2. CASE next = KernelTask
    <3>1. cr3' = s.dir
      BY <1>1, <1>2, <1>4, <2>2 DEF MemInv, Cr3Held
    <3>2. cr3' \in free'
      BY <1>2, <3>1 DEF DestroyAddressSpace
    <3>3. QED
      BY <2>1, <3>2 DEF Cr3Held
  <2>3. CASE next # KernelTask
    <3>1. next \in Pid /\ pd'[next] = cr3'
      BY <1>2, <1>10, <2>3
    <3>2. QED
      BY <2>1, <3>1 DEF Cr3Held
  <2>4. QED
    BY <2>2, <2>3
<1>14. QED
  BY <1>6, <1>9, <1>12, <1>13 DEF MemInv

(* Every call keeps the invariant. *)
LEMMA NextMem == MemInv /\ [Next]_vars => MemInv'
<1> SUFFICES ASSUME MemInv, [Next]_vars PROVE MemInv'
  OBVIOUS
<1>1. ASSUME NEW image \in Images, BootModule(image) PROVE MemInv'
  BY <1>1, SpawnMem DEF BootModule
<1>2. ASSUME NEW image \in Images, Exec(image) PROVE MemInv'
  BY <1>2, SpawnMem DEF Exec
<1>3. ASSUME NEW image \in Images \cup {NotElf}, BootSkip(image) PROVE MemInv'
  BY <1>3, BootSkipMem
<1>4. ASSUME NEW image \in Images \cup {NotElf}, ExecError(image) PROVE MemInv'
  BY <1>4, ExecErrorMem
<1>5. ASSUME NEW n \in Growth, Sbrk(n) PROVE MemInv'
  BY <1>5, SbrkMem
<1>6. ASSUME NEW m \in DeviceMaps, MapDevice(m[1], m[2], m[3]) PROVE MemInv'
  BY <1>6, MapDeviceMem
<1>7. ASSUME NEW next \in {KernelTask} \cup Pid, Switch(next) PROVE MemInv'
  BY <1>7, SwitchMem
<1>8. ASSUME NEW next \in {KernelTask} \cup Pid, Exit(next) PROVE MemInv'
  BY <1>8, ExitMem
<1>9. CASE UNCHANGED vars
  <2>1. Contents' = Contents
    BY <1>9 DEF vars, Contents, Space, Content
  <2>2. OneUse(Contents', free')
    BY <1>9, <2>1 DEF MemInv, vars
  <2>3. Typed' /\ Living' /\ Cr3Held'
    BY <1>9 DEF MemInv, vars, Typed, Living, Cr3Held, Booting
  <2>4. QED
    BY <2>2, <2>3 DEF MemInv
<1>10. QED
  BY <1>1, <1>2, <1>3, <1>4, <1>5, <1>6, <1>7, <1>8, <1>9 DEF Next, Calls

(* The memory of the system stays in order: the types, one use for every   *)
(* frame of RAM, who is in the process list and what CR3 holds.            *)
THEOREM MemoryInvariance == Spec => []MemInv
BY InitMem, NextMem, PTL DEF Spec

-----------------------------------------------------------------------------
(* What the invariant says of the properties.                              *)

(* The name that Uses gives to a place. *)
Name(p, x) == IF x[1] \in {"table", "page"} THEN <<x[1], <<p, x[2]>>>> ELSE <<x[1], p>>

(* Every use of a frame is a place that holds it. *)
LEMMA UseIsPlace ==
    ASSUME NEW f, NEW u \in Uses(f)
    PROVE  \E p \in Pid : \E x \in Slot : Contents[p][x] = f /\ u = Name(p, x)
<1>1. CASE u \in {<<"directory", p>> : p \in {q \in Pid : pd[q] = f}}
  <2>1. PICK p \in Pid : pd[p] = f /\ u = <<"directory", p>>
    BY <1>1
  <2> DEFINE x == <<"directory", 0>>
  <2>2. x \in Slot /\ Content(Space(p), x) = f
    BY <2>1, SlotFacts, ContentFacts, SpaceParts
  <2>3. Name(p, x) = u
    BY <2>1 DEF Name
  <2> HIDE DEF x
  <2>4. QED
    BY <2>2, <2>3, ContentsNow
<1>2. CASE u \in {<<"kstack", p>> : p \in {q \in Pid : kstack[q] = f}}
  <2>1. PICK p \in Pid : kstack[p] = f /\ u = <<"kstack", p>>
    BY <1>2
  <2> DEFINE x == <<"kstack", 0>>
  <2>2. x \in Slot /\ Content(Space(p), x) = f
    BY <2>1, SlotFacts, ContentFacts, SpaceParts
  <2>3. Name(p, x) = u
    BY <2>1 DEF Name
  <2> HIDE DEF x
  <2>4. QED
    BY <2>2, <2>3, ContentsNow
<1>3. CASE u \in {<<"table", z>> : z \in {y \in Pid \X Table : tables[y[1]][y[2]] = f}}
  <2>1. PICK z \in Pid \X Table : tables[z[1]][z[2]] = f /\ u = <<"table", z>>
    BY <1>3
  <2>2. PICK p \in Pid, i \in Table : z = <<p, i>>
    OBVIOUS
  <2> DEFINE x == <<"table", i>>
  <2>3. tables[p][i] = f /\ u = <<"table", <<p, i>>>>
    BY <2>1, <2>2
  <2>4. x \in Slot /\ Content(Space(p), x) = f
    BY <2>3, SlotFacts, ContentFacts, SpaceParts
  <2>5. Name(p, x) = u
    BY <2>3 DEF Name
  <2> HIDE DEF x
  <2>6. QED
    BY <2>4, <2>5, ContentsNow
<1>4. CASE u \in {<<"page", z>> : z \in {y \in Pid \X Page : pages[y[1]][y[2]] = f}}
  <2>1. PICK z \in Pid \X Page : pages[z[1]][z[2]] = f /\ u = <<"page", z>>
    BY <1>4
  <2>2. PICK p \in Pid, v \in Page : z = <<p, v>>
    OBVIOUS
  <2> DEFINE x == <<"page", v>>
  <2>3. pages[p][v] = f /\ u = <<"page", <<p, v>>>>
    BY <2>1, <2>2
  <2>4. x \in Slot /\ Content(Space(p), x) = f
    BY <2>3, SlotFacts, ContentFacts, SpaceParts
  <2>5. Name(p, x) = u
    BY <2>3 DEF Name
  <2> HIDE DEF x
  <2>6. QED
    BY <2>4, <2>5, ContentsNow
<1>5. QED
  BY <1>1, <1>2, <1>3, <1>4 DEF Uses

(* Two uses of a frame of RAM are one. *)
LEMMA UseIsUnique ==
    ASSUME MemInv, NEW f \in Ram, NEW u \in Uses(f)
    PROVE  Uses(f) = {u} /\ f \notin free
<1>1. PICK p \in Pid, x \in Slot : Contents[p][x] = f /\ u = Name(p, x)
  BY UseIsPlace
<1>2. ASSUME NEW w \in Uses(f) PROVE w = u
  <2>1. PICK q \in Pid, y \in Slot : Contents[q][y] = f /\ w = Name(q, y)
    BY UseIsPlace
  <2>2. p = q /\ x = y
    BY <1>1, <2>1 DEF MemInv, OneUse
  <2>3. QED
    BY <1>1, <2>1, <2>2
<1>3. f \notin free
  BY <1>1 DEF MemInv, OneUse
<1>4. QED
  BY <1>2, <1>3

(* The kernel's tables keep the types that the code declares: an entry is  *)
(* empty or holds a frame that exists, and the break is a user page.       *)
THEOREM MemoryTypes == Spec => []TypeOK
<1>1. MemInv => TypeOK
  <2> SUFFICES ASSUME MemInv PROVE TypeOK
    OBVIOUS
  <2>1. Managed \cup {NoFrame} \subseteq Frame \cup {NoFrame}
          /\ Mappable \cup {NoFrame} \subseteq Frame \cup {NoFrame}
    BY FrameFacts
  <2>2. tables \in [Pid -> [Table -> Frame \cup {NoFrame}]]
    BY <2>1 DEF MemInv, Typed
  <2>3. pages \in [Pid -> [Page -> Frame \cup {NoFrame}]]
    BY <2>1 DEF MemInv, Typed
  <2>4. free \subseteq Frame /\ pd \in [Pid -> Frame \cup {NoFrame}]
          /\ kstack \in [Pid -> Frame \cup {NoFrame}] /\ cr3 \in Frame \cup {NoFrame}
    BY <2>1, FrameFacts DEF MemInv, Typed
  <2>5. QED
    BY <2>2, <2>3, <2>4 DEF MemInv, Typed, TypeOK
<1>2. QED
  BY <1>1, MemoryInvariance, PTL

(* exec, sbrk, mapDevice, exit and the start of the system never give a    *)
(* frame of RAM two uses and never leave the bit of a used frame clear,    *)
(* also when they run out of frames in the middle.                         *)
THEOREM FramesAreExclusive == Spec => []FramesHaveOneUse
<1>1. MemInv => FramesHaveOneUse
  <2> SUFFICES ASSUME MemInv, NEW f \in Ram
               PROVE  Cardinality(Uses(f)) <= 1 /\ (Uses(f) # {} => f \notin free)
    BY DEF FramesHaveOneUse
  <2>1. CASE Uses(f) = {}
    <3>1. Cardinality(Uses(f)) = 0
      BY <2>1, FS_EmptySet
    <3>2. QED
      BY <2>1, <3>1
  <2>2. CASE Uses(f) # {}
    <3>1. PICK u \in Uses(f) : TRUE
      BY <2>2
    <3>2. Uses(f) = {u} /\ f \notin free
      BY UseIsUnique
    <3>3. Cardinality(Uses(f)) = 1
      BY <3>2, FS_Singleton
    <3>4. QED
      BY <3>2, <3>3
  <2>3. QED
    BY <2>1, <2>2
<1>2. QED
  BY <1>1, MemoryInvariance, PTL

(* CR3 never holds a frame of RAM that was given away, whatever device     *)
(* memory programs map.                                                    *)
THEOREM Cr3StaysValid == Spec => []Cr3Intact
<1>1. MemInv => Cr3Intact
  <2> SUFFICES ASSUME MemInv PROVE Cr3Intact
    OBVIOUS
  <2>1. current # KernelTask => cr3 = pd[current]
    BY DEF MemInv, Cr3Held
  <2>2. ASSUME cr3 \in Ram, cr3 \notin free
        PROVE  \E p \in Pid : Uses(cr3) = {<<"directory", p>>}
    <3>1. PICK p \in Pid : pd[p] = cr3
      BY <2>2, FrameFacts DEF MemInv, Cr3Held
    <3>2. <<"directory", p>> \in Uses(cr3)
      BY <3>1 DEF Uses
    <3>3. Uses(cr3) = {<<"directory", p>>}
      BY <2>2, <3>2, UseIsUnique
    <3>4. QED
      BY <3>3
  <2>3. QED
    BY <2>1, <2>2 DEF Cr3Intact
<1>2. QED
  BY <1>1, MemoryInvariance, PTL

-----------------------------------------------------------------------------
(* Device memory above 1 MiB stays out of the allocator while no process   *)
(* that has mapped some exits.                                             *)

(* Address spaces whose frames, but for those of pages, are RAM.           *)
RamSpaces(P) ==
    [free : SUBSET Ram, ok : BOOLEAN, dir : Ram \cup {NoFrame}, kstack : Ram \cup {NoFrame},
     tables : [Table -> Ram \cup {NoFrame}], pages : [Page -> P \cup {NoFrame}]]

(* mapUserPage with a frame of P.                                          *)
LEMMA MapUserPageRam ==
    ASSUME NEW P, NEW s \in RamSpaces(P), NEW v \in Page, NEW f \in P
    PROVE  MapUserPage(s, v, f) \in RamSpaces(P)
<1> DEFINE i == v \div PagesPerTable
           t == AllocFrame(s.free)
           e == [s EXCEPT !.pages[v] = f]
           r == [s EXCEPT !.free = @ \ {t}, !.tables[i] = t, !.pages[v] = f]
<1>1. MapUserPage(s, v, f) =
         IF s.tables[i] # NoFrame THEN e ELSE IF t = NoFrame THEN s ELSE r
  BY DEF MapUserPage
<1>2. i \in Table
  BY TableOfPage
<1>3. s.free \in SUBSET Managed /\ s.free \subseteq Ram
  BY FrameFacts DEF RamSpaces
<1>4. t \in Ram \cup {NoFrame}
  BY <1>3, Alloc
<1> HIDE DEF i, t
<1>5. e \in RamSpaces(P)
  BY DEF RamSpaces
<1>6. r \in RamSpaces(P)
  BY <1>2, <1>4 DEF RamSpaces
<1>7. QED
  BY <1>1, <1>5, <1>6

(* One more page.                                                          *)
LEMMA AddPageRam ==
    ASSUME NEW P, Ram \subseteq P, NEW s \in RamSpaces(P), NEW v \in Page
    PROVE  AddPage(s, v) \in RamSpaces(P)
<1> DEFINE f == AllocFrame(s.free)
           u == [s EXCEPT !.free = @ \ {f}]
           e == [s EXCEPT !.ok = FALSE]
<1>1. AddPage(s, v) = IF ~s.ok \/ f = NoFrame THEN e ELSE MapUserPage(u, v, f)
  BY DEF AddPage
<1>2. e \in RamSpaces(P) /\ u \in RamSpaces(P)
  BY DEF RamSpaces
<1>3. s.free \in SUBSET Managed /\ s.free \subseteq Ram
  BY FrameFacts DEF RamSpaces
<1>4. f = NoFrame \/ f \in P
  BY <1>3, Alloc
<1> HIDE DEF e, u, f
<1>5. f \in P => MapUserPage(u, v, f) \in RamSpaces(P)
  BY <1>2, MapUserPageRam
<1>6. QED
  BY <1>1, <1>2, <1>4, <1>5

(* The loops.                                                              *)
LEMMA AddPagesRam ==
    ASSUME NEW P, Ram \subseteq P, NEW s \in RamSpaces(P), Good(s), NEW vs \in Seq(Page)
    PROVE  AddPages(s, vs) \in RamSpaces(P)
<1> DEFINE n == Len(vs)
<1>1. n \in Nat
  OBVIOUS
<1>2. PICK d : PagesTrace(d, s, vs) /\ AddPages(s, vs) = d[n]
  BY AddPagesTrace
<1>3. d[0] = s /\ \A i \in 1 .. n : d[i] = AddPage(d[i - 1], vs[i])
  BY <1>2 DEF PagesTrace
<1>4. \A i \in 1 .. n : vs[i] \in Page
  OBVIOUS
<1> HIDE DEF n
<1> DEFINE S == {i \in 0 .. n : d[i] \in RamSpaces(P)}
<1>5. 0 \in S
  BY <1>1, <1>3
<1>6. ASSUME NEW i \in 1 .. n, i - 1 \in S PROVE i \in S
  <2>1. AddPage(d[i - 1], vs[i]) \in RamSpaces(P)
    BY <1>4, <1>6, AddPageRam
  <2>2. QED
    BY <1>1, <1>3, <2>1
<1>7. 0 .. n \subseteq S
  <2> HIDE DEF S
  <2>1. QED
    BY <1>1, <1>5, <1>6, RoundInduction
<1>8. QED
  BY <1>1, <1>2, <1>7

LEMMA MapFramesRam ==
    ASSUME NEW s \in RamSpaces(Mappable), Good(s), NEW v \in Nat, NEW f \in Nat, NEW k \in Nat,
           v + k <= StackPage + 1, f .. f + k - 1 \subseteq DeviceFrames
    PROVE  MapFrames(s, v, f, k) \in RamSpaces(Mappable)
<1>1. PICK d : FramesTrace(d, s, v, f, k) /\ MapFrames(s, v, f, k) = d[k]
  BY MapFramesTrace
<1> DEFINE S == {i \in 0 .. k : d[i] \in RamSpaces(Mappable)}
<1>2. 0 \in S
  BY <1>1 DEF FramesTrace
<1>3. ASSUME NEW i \in 1 .. k, i - 1 \in S PROVE i \in S
  <2> DEFINE w == v + i - 1
             g == f + i - 1
  <2>1. d[i] = MapUserPage(d[i - 1], w, g) /\ w \in Page /\ g \in Mappable
    BY <1>1 DEF FramesTrace
  <2> HIDE DEF w, g
  <2>2. MapUserPage(d[i - 1], w, g) \in RamSpaces(Mappable)
    BY <1>3, <2>1, MapUserPageRam
  <2>3. QED
    BY <2>1, <2>2
<1>4. 0 .. k \subseteq S
  <2> HIDE DEF S
  <2>1. QED
    BY <1>2, <1>3, RoundInduction
<1>5. QED
  BY <1>1, <1>4

(* A new process.                                                          *)
LEMMA UserStackRam ==
    ASSUME free \subseteq Ram, NEW image \in Images \cup {NotElf}
    PROVE  WithUserStack(image) \in RamSpaces(Ram)
<1> DEFINE b == CreateAddressSpace
           s == Load(b, image)
<1>1. free \in SUBSET Managed
  BY FrameFacts
<1>2. b \in RamSpaces(Ram)
  <2>1. AllocFrame(free) = NoFrame \/ AllocFrame(free) \in free
    BY <1>1, Alloc
  <2>2. QED
    BY <2>1 DEF CreateAddressSpace, RamSpaces
<1>3. Good(b)
  BY <1>1, CreateFresh DEF Fresh
<1>4. s \in RamSpaces(Ram)
  <2> HIDE DEF b
  <2>1. CASE image \in Images
    <3>1. image \in Seq(0 .. StackPage - 1) /\ 0 .. StackPage - 1 \subseteq Page
      BY <2>1, MemoryAssumption DEF Page
    <3>2. image \in Seq(Page)
      <4>1. ASSUME NEW A, NEW B, A \subseteq B, NEW q \in Seq(A) PROVE q \in Seq(B)
        BY <4>1
      <4>2. QED
        BY <3>1, <4>1, Zenon
    <3>3. AddPages(b, image) \in RamSpaces(Ram)
      BY <1>2, <1>3, <3>2, AddPagesRam
    <3>4. QED
      BY <2>1, <3>3 DEF Load
  <2>2. CASE image \notin Images
    <3>1. [b EXCEPT !.ok = FALSE] \in RamSpaces(Ram)
      BY <1>2 DEF RamSpaces
    <3>2. QED
      BY <2>2, <3>1 DEF Load
  <2>3. QED
    BY <2>1, <2>2
<1>5. StackPage \in Page
  BY MemoryAssumption DEF Page
<1> HIDE DEF s
<1>6. AddPage(s, StackPage) \in RamSpaces(Ram)
  BY <1>4, <1>5, AddPageRam
<1>7. QED
  BY <1>6 DEF WithUserStack, s

LEMMA KernelStackRam ==
    ASSUME NEW s \in RamSpaces(Ram)
    PROVE  WithKernelStack(s) \in RamSpaces(Ram)
<1> DEFINE k == AllocFrame(s.free)
<1>1. s.free \in SUBSET Managed /\ s.free \subseteq Ram
  BY FrameFacts DEF RamSpaces
<1>2. k \in Ram \cup {NoFrame}
  BY <1>1, Alloc
<1> HIDE DEF k
<1>3. [s EXCEPT !.ok = FALSE] \in RamSpaces(Ram)
  BY DEF RamSpaces
<1>4. [s EXCEPT !.free = @ \ {k}, !.kstack = k] \in RamSpaces(Ram)
  BY <1>2 DEF RamSpaces
<1>5. QED
  BY <1>3, <1>4 DEF WithKernelStack, k

(* What the allocator has and what it has given to the kernel is RAM.      *)
RamInv ==
    /\ free \subseteq Ram
    /\ pd \in [Pid -> Ram \cup {NoFrame}] /\ kstack \in [Pid -> Ram \cup {NoFrame}]
    /\ tables \in [Pid -> [Table -> Ram \cup {NoFrame}]]
    /\ cr3 \in Ram \cup {NoFrame}

(* What the tables and pages of an address space hold.                     *)
LEMMA HeldIn ==
    ASSUME NEW S, NEW P, NEW g \in [S -> P \cup {NoFrame}]
    PROVE  Held(g) \subseteq P
BY DEF Held

LEMMA SpawnRam ==
    ASSUME MemInv, RamInv, NEW image \in Images, Spawn(image), cr3' = cr3
    PROVE  RamInv'
<1> DEFINE s == WithKernelStack(WithUserStack(image))
<1>1. s \in RamSpaces(Ram)
  BY UserStackRam, KernelStackRam DEF RamInv
<1>2. nextPid \in Pid
  BY MemoryAssumption DEF MemInv, Typed, Spawn, Pid
<1>3. /\ free' = s.free /\ pd' = [pd EXCEPT ![nextPid] = s.dir]
      /\ tables' = [tables EXCEPT ![nextPid] = s.tables]
      /\ kstack' = [kstack EXCEPT ![nextPid] = s.kstack]
  BY DEF Spawn
<1> HIDE DEF s
<1>4. /\ s.free \subseteq Ram /\ s.dir \in Ram \cup {NoFrame} /\ s.kstack \in Ram \cup {NoFrame}
      /\ s.tables \in [Table -> Ram \cup {NoFrame}]
  BY <1>1 DEF RamSpaces
<1>5. QED
  BY <1>2, <1>3, <1>4 DEF RamInv

LEMMA StoreRam ==
    ASSUME RamInv, current \in Pid, NEW r \in RamSpaces(Mappable), Store(r)
    PROVE  RamInv'
<1>1. r.free \subseteq Ram /\ r.tables \in [Table -> Ram \cup {NoFrame}]
  BY DEF RamSpaces
<1>2. QED
  BY <1>1 DEF Store, RamInv

LEMMA OwnSpaceRam ==
    ASSUME MemInv, RamInv, NEW p \in Pid
    PROVE  Space(p) \in RamSpaces(Mappable)
BY DEF MemInv, Typed, RamInv, Space, RamSpaces

LEMMA SbrkRam ==
    ASSUME MemInv, RamInv, NEW n \in Growth, Sbrk(n)
    PROVE  RamInv'
<1> DEFINE old == heapBreak[current]
           vs == HeapPages(old, n)
           s == Space(current)
           r == AddPages(s, vs)
<1>1. current \in Pid /\ Store(r)
  BY DEF MemInv, Typed, Sbrk, UserRunning
<1>2. vs \in Seq(Page)
  <2>1. /\ old \in Page /\ old + n <= StackPage /\ n \in Nat /\ StackPage \in Nat
    BY <1>1, MemoryAssumption DEF MemInv, Typed, Sbrk, BelowStack
  <2>2. \A i \in 1 .. n : old + i - 1 \in Page
    BY <2>1 DEF Page
  <2>3. vs \in [1 .. n -> Page]
    BY <2>2 DEF HeapPages
  <2>4. QED
    BY <2>1, <2>3
<1>3. Good(s) /\ s \in RamSpaces(Mappable)
  BY <1>1, OwnSpaceGood, OwnSpaceRam
<1> HIDE DEF vs, s
<1>4. r \in RamSpaces(Mappable)
  BY <1>2, <1>3, AddPagesRam, FrameFacts
<1> HIDE DEF r
<1>5. QED
  BY <1>1, <1>4, StoreRam

LEMMA MapDeviceRam ==
    ASSUME MemInv, RamInv, NEW m \in DeviceMaps, MapDevice(m[1], m[2], m[3])
    PROVE  RamInv'
<1> DEFINE v == m[1]
           f == m[2]
           k == m[3]
           s == Space(current)
           r == MapFrames(s, v, f, k)
<1>1. m \in Page \X Nat \X (Nat \ {0})
  BY MemoryAssumption
<1>2. v \in Nat /\ f \in Nat /\ k \in Nat
  BY <1>1 DEF Page
<1>3. f .. f + k - 1 \subseteq DeviceFrames
  BY DEF DeviceFrames
<1>4. current \in Pid /\ v + k <= StackPage + 1 /\ Store(r)
  BY DEF MemInv, Typed, MapDevice, UserRunning
<1>5. Good(s) /\ s \in RamSpaces(Mappable)
  BY <1>4, OwnSpaceGood, OwnSpaceRam
<1> HIDE DEF v, f, k, s
<1>6. r \in RamSpaces(Mappable)
  BY <1>2, <1>3, <1>4, <1>5, MapFramesRam
<1> HIDE DEF r
<1>7. QED
  BY <1>4, <1>6, StoreRam

LEMMA ExecErrorRam ==
    ASSUME RamInv, NEW image \in Images \cup {NotElf}, BootSkip(image) \/ ExecError(image)
    PROVE  RamInv'
<1> DEFINE s == WithUserStack(image)
<1>1. s \in RamSpaces(Ram)
  BY UserStackRam DEF RamInv
<1>2. /\ free' = s.free \/ free' = free \/ (free' = DestroyAddressSpace(s) /\ s.dir # NoFrame)
      /\ UNCHANGED <<pd, tables, kstack, cr3>>
  BY DEF BootSkip, ExecError
<1> HIDE DEF s
<1>3. /\ s.free \subseteq Ram /\ s.dir \in Ram \cup {NoFrame}
      /\ s.tables \in [Table -> Ram \cup {NoFrame}] /\ s.pages \in [Page -> Ram \cup {NoFrame}]
  BY <1>1 DEF RamSpaces
<1>4. Held(s.tables) \subseteq Ram /\ Held(s.pages) \subseteq Ram
  BY <1>3, HeldIn
<1>5. s.dir # NoFrame => DestroyAddressSpace(s) \subseteq Ram
  BY <1>3, <1>4 DEF DestroyAddressSpace
<1>6. free' \subseteq Ram
  BY <1>2, <1>3, <1>5 DEF RamInv
<1>7. QED
  BY <1>2, <1>6 DEF RamInv

LEMMA ExitRam ==
    ASSUME MemInv, RamInv, NEW next \in {KernelTask} \cup Pid, Exit(next), ~KeepsHighDevice
    PROVE  RamInv'
<1> DEFINE s == Space(current)
<1>1. current \in Pid /\ pd[current] # NoFrame /\ kstack[current] # NoFrame
  BY DEF MemInv, Typed, Living, Exit, UserRunning
<1>2. /\ s.free = free /\ s.dir = pd[current] /\ s.tables = tables[current]
      /\ s.pages = pages[current]
  BY SpaceParts
<1>3. /\ free' = DestroyAddressSpace(s) \cup {kstack[current]}
      /\ pd' = [pd EXCEPT ![current] = NoFrame]
      /\ tables' = [tables EXCEPT ![current] = [i \in Table |-> NoFrame]]
      /\ kstack' = [kstack EXCEPT ![current] = NoFrame]
      /\ next # KernelTask => next \in Pid
      /\ cr3' = IF next = KernelTask THEN cr3 ELSE pd[next]
  BY DEF Exit, LoadCr3
<1> HIDE DEF s
<1>4. Held(s.tables) \subseteq Ram
  BY <1>1, <1>2, HeldIn DEF RamInv
<1>5. Held(s.pages) \ LowDevice \subseteq Ram
  <2>1. pages[current] \in [Page -> Mappable \cup {NoFrame}]
    BY <1>1 DEF MemInv, Typed
  <2>2. Held(pages[current]) \subseteq Mappable
    BY <2>1, HeldIn
  <2>3. Mappable \subseteq Ram \cup LowDevice \cup HighDevice
    BY FrameFacts DEF Frame
  <2>4. QED
    BY <1>2, <2>2, <2>3 DEF KeepsHighDevice
<1>6. pd[current] \in Ram /\ kstack[current] \in Ram /\ free \subseteq Ram
  BY <1>1 DEF RamInv
<1>7. free' \subseteq Ram
  BY <1>2, <1>3, <1>4, <1>5, <1>6 DEF DestroyAddressSpace
<1>8. cr3' \in Ram \cup {NoFrame}
  BY <1>3 DEF RamInv
<1>9. QED
  BY <1>1, <1>3, <1>7, <1>8 DEF RamInv

LEMMA ResidentStep ==
    ASSUME MemInv, RamInv, [ResidentNext]_vars
    PROVE  RamInv'
<1>1. ASSUME NEW image \in Images, BootModule(image) \/ Exec(image) PROVE RamInv'
  BY <1>1, SpawnRam DEF BootModule, Exec
<1>2. ASSUME NEW image \in Images \cup {NotElf}, BootSkip(image) \/ ExecError(image) PROVE RamInv'
  BY <1>2, ExecErrorRam
<1>3. ASSUME NEW n \in Growth, Sbrk(n) PROVE RamInv'
  BY <1>3, SbrkRam
<1>4. ASSUME NEW m \in DeviceMaps, MapDevice(m[1], m[2], m[3]) PROVE RamInv'
  BY <1>4, MapDeviceRam
<1>5. ASSUME NEW next \in {KernelTask} \cup Pid, Switch(next) PROVE RamInv'
  BY <1>5 DEF RamInv, Switch, LoadCr3
<1>6. ASSUME NEW next \in {KernelTask} \cup Pid, Exit(next) /\ ~KeepsHighDevice PROVE RamInv'
  BY <1>6, ExitRam
<1>7. CASE UNCHANGED vars
  BY <1>7 DEF RamInv, vars
<1>8. QED
  BY <1>1, <1>2, <1>3, <1>4, <1>5, <1>6, <1>7 DEF ResidentNext, Calls

(* With the programs of this system the qualification of Cr3Intact is void: *)
(* CR3 holds a frame of RAM, and the allocator hands out nothing else, as   *)
(* long as no process that has mapped device memory above 1 MiB exits.  The *)
(* display driver maps its framebuffer there and never leaves its loop.     *)
THEOREM DeviceMemoryStaysOut ==
    ResidentSpec => [](Cr3Intact /\ cr3 \in Ram \cup {NoFrame} /\ free \subseteq Ram)
<1>1. Init => RamInv
  BY DEF Init, RamInv
<1>2. [ResidentNext]_vars => [Next]_vars
  BY DEF ResidentNext, Next
<1>3. MemInv /\ RamInv /\ [ResidentNext]_vars => RamInv'
  BY ResidentStep
<1>4. RamInv => cr3 \in Ram \cup {NoFrame} /\ free \subseteq Ram
  BY DEF RamInv
<1>5. ResidentSpec => Spec
  BY <1>2, PTL DEF ResidentSpec, Spec
<1>6. QED
  BY <1>1, <1>3, <1>4, <1>5, MemoryInvariance, Cr3StaysValid, PTL DEF ResidentSpec

-----------------------------------------------------------------------------
(* What sbrk finds when there are enough frames, and what it does not.     *)

(* There are k frames besides one for every page table that is missing.    *)
Missing(s) == {i \in Table : s.tables[i] = NoFrame}
Spare(s, k) ==
    /\ s.ok /\ IsFiniteSet(s.free)
    /\ Cardinality(s.free) >= k + Cardinality(Missing(s))

LEMMA MissingIsFinite ==
    ASSUME NEW s
    PROVE  IsFiniteSet(Missing(s)) /\ Cardinality(Missing(s)) \in Nat
           /\ Cardinality(Missing(s)) <= Cardinality(Table) /\ Cardinality(Table) \in Nat
<1>1. StackPage \div PagesPerTable \in Int
  BY MemoryAssumption
<1>2. IsFiniteSet(Table)
  BY <1>1, FS_Interval DEF Table
<1>3. Missing(s) \in SUBSET Table
  BY DEF Missing
<1>4. QED
  BY <1>2, <1>3, FS_Subset, FS_CardinalityType

(* MapUserPage finds the frame for a missing page table.                   *)
LEMMA MapUserPageMaps ==
    ASSUME NEW s, Good(s), NEW v \in Page, NEW f, NEW k \in Nat, Spare(s, k)
    PROVE  LET r == MapUserPage(s, v, f)
           IN  Spare(r, k) /\ r.pages = [s.pages EXCEPT ![v] = f]
<1> DEFINE i == v \div PagesPerTable
           t == AllocFrame(s.free)
           e == [s EXCEPT !.pages[v] = f]
           r == [s EXCEPT !.free = @ \ {t}, !.tables[i] = t, !.pages[v] = f]
<1>1. MapUserPage(s, v, f) =
         IF s.tables[i] # NoFrame THEN e ELSE IF t = NoFrame THEN s ELSE r
  BY DEF MapUserPage
<1>2. i \in Table
  BY TableOfPage
<1>3. /\ s.free \in SUBSET Managed /\ s.ok
      /\ s.tables \in [Table -> Managed \cup {NoFrame}]
      /\ IsFiniteSet(s.free) /\ Cardinality(s.free) \in Nat
      /\ Cardinality(s.free) >= k + Cardinality(Missing(s))
      /\ s = [free |-> s.free, ok |-> s.ok, dir |-> s.dir, kstack |-> s.kstack,
              tables |-> s.tables, pages |-> s.pages]
  BY FS_CardinalityType DEF Good, Spaces, Spare
<1>4. IsFiniteSet(Missing(s)) /\ Cardinality(Missing(s)) \in Nat
  BY MissingIsFinite
<1>5. CASE s.tables[i] # NoFrame
  <2>1. /\ e.free = s.free /\ e.ok = s.ok /\ e.tables = s.tables
        /\ e.pages = [s.pages EXCEPT ![v] = f]
    BY <1>3
  <2> HIDE DEF e
  <2>2. Missing(e) = Missing(s)
    BY <2>1 DEF Missing
  <2>3. QED
    BY <1>1, <1>3, <1>5, <2>1, <2>2 DEF Spare
<1>6. CASE s.tables[i] = NoFrame
  <2>1. i \in Missing(s)
    BY <1>2, <1>6 DEF Missing
  <2>2. Cardinality(Missing(s) \ {i}) = Cardinality(Missing(s)) - 1
        /\ IsFiniteSet(Missing(s) \ {i})
    BY <1>4, <2>1, FS_RemoveElement
  <2>3. Cardinality(Missing(s) \ {i}) \in Nat
    BY <2>2, FS_CardinalityType
  <2>4. s.free # {}
    <3>1. Cardinality(s.free) # 0
      BY <1>3, <1>4, <2>2, <2>3
    <3>2. QED
      BY <1>3, <3>1, FS_EmptySet
  <2>5. t \in s.free
    BY <1>3, <2>4, Alloc
  <2>6. t # NoFrame
    BY <1>3, <2>5, FrameFacts
  <2>7. /\ r.free = s.free \ {t} /\ r.ok = s.ok /\ r.tables = [s.tables EXCEPT ![i] = t]
        /\ r.pages = [s.pages EXCEPT ![v] = f]
    BY <1>3
  <2>8. IsFiniteSet(s.free \ {t}) /\ Cardinality(s.free \ {t}) = Cardinality(s.free) - 1
    BY <1>3, <2>5, FS_RemoveElement
  <2> HIDE DEF r, t, i
  <2>9. Missing(r) = Missing(s) \ {i}
    BY <1>2, <1>3, <2>6, <2>7 DEF Missing
  <2>10. Cardinality(r.free) >= k + Cardinality(Missing(r))
    BY <1>3, <1>4, <2>2, <2>7, <2>8, <2>9
  <2>11. QED
    BY <1>1, <1>3, <1>6, <2>6, <2>7, <2>8, <2>10 DEF Spare
<1>7. QED
  BY <1>5, <1>6

(* What sbrk has to show for page v: a mapping, or that it has taken the   *)
(* last frame and the page lacks a page table.                             *)
Promised(r, v) ==
    r.pages[v] # NoFrame \/ (r.free = {} /\ r.tables[v \div PagesPerTable] = NoFrame)

StayMapped(s, r) == \A w \in Page : s.pages[w] # NoFrame => r.pages[w] # NoFrame

(* AddPage succeeds when there was a frame, and unmaps nothing.            *)
LEMMA AddPagePromise ==
    ASSUME NEW s, Good(s), NEW v \in Page, AddPage(s, v).ok
    PROVE  LET r == AddPage(s, v)
           IN  s.ok /\ s.free # {} /\ Promised(r, v) /\ StayMapped(s, r)
<1> DEFINE f == AllocFrame(s.free)
           i == v \div PagesPerTable
           u == [s EXCEPT !.free = @ \ {f}]
           t == AllocFrame(u.free)
           e == [u EXCEPT !.pages[v] = f]
           r == [u EXCEPT !.free = @ \ {t}, !.tables[i] = t, !.pages[v] = f]
<1>1. /\ s.free \in SUBSET Managed /\ s \in Spaces
      /\ s.pages \in [Page -> Mappable \cup {NoFrame}]
      /\ s = [free |-> s.free, ok |-> s.ok, dir |-> s.dir, kstack |-> s.kstack,
              tables |-> s.tables, pages |-> s.pages]
  BY DEF Good, Spaces
<1>2. s.ok /\ f # NoFrame
  <2> SUFFICES ASSUME ~s.ok \/ f = NoFrame PROVE FALSE
    OBVIOUS
  <2>1. AddPage(s, v) = [s EXCEPT !.ok = FALSE]
    BY DEF AddPage
  <2>2. [s EXCEPT !.ok = FALSE].ok = FALSE
    BY <1>1
  <2>3. QED
    BY <2>1, <2>2
<1>3. s.free # {}
  BY <1>1, <1>2, Alloc
<1>4. /\ u.free = s.free \ {f} /\ u.tables = s.tables /\ u.pages = s.pages
      /\ u = [free |-> u.free, ok |-> u.ok, dir |-> u.dir, kstack |-> u.kstack,
              tables |-> u.tables, pages |-> u.pages]
  BY <1>1
<1>5. AddPage(s, v) = IF u.tables[i] # NoFrame THEN e ELSE IF t = NoFrame THEN u ELSE r
  BY <1>2 DEF AddPage, MapUserPage
<1> HIDE DEF u
<1>6. e.pages = [s.pages EXCEPT ![v] = f] /\ r.pages = [s.pages EXCEPT ![v] = f]
  BY <1>4
<1> HIDE DEF e, r
<1>7. ASSUME NEW q, q.pages = [s.pages EXCEPT ![v] = f]
      PROVE  Promised(q, v) /\ StayMapped(s, q)
  <2> HIDE DEF f
  <2>1. q.pages[v] = f /\ \A w \in Page \ {v} : q.pages[w] = s.pages[w]
    BY <1>1, <1>7
  <2>2. q.pages[v] # NoFrame
    BY <1>2, <2>1
  <2>3. Promised(q, v)
    BY <2>2, Zenon DEF Promised
  <2>4. ASSUME NEW w \in Page, s.pages[w] # NoFrame PROVE q.pages[w] # NoFrame
    BY <2>1, <2>2, <2>4
  <2>5. QED
    BY <2>3, <2>4, Zenon DEF StayMapped
<1>8. CASE AddPage(s, v) = u
  <2>1. CASE u.tables[i] = NoFrame /\ t = NoFrame
    <3>1. u.free \in SUBSET Managed
      BY <1>1, <1>4
    <3>2. u.free # {} => t \in u.free
      BY <3>1, Alloc
    <3> HIDE DEF t
    <3>3. NoFrame \notin Managed
      BY FrameFacts
    <3>4. u.free = {}
      BY <3>1, <3>2, <3>3, <2>1
    <3>5. Promised(u, v) /\ StayMapped(s, u)
      BY <1>4, <2>1, <3>4 DEF Promised, StayMapped
    <3>6. QED
      BY <1>2, <1>3, <1>8, <3>5
  <2>2. CASE ~(u.tables[i] = NoFrame /\ t = NoFrame)
    <3>1. AddPage(s, v) = e \/ AddPage(s, v) = r
      BY <1>5, <2>2
    <3>2. QED
      BY <1>2, <1>3, <1>6, <1>7, <3>1
  <2>3. QED
    BY <2>1, <2>2
<1>9. CASE AddPage(s, v) # u
  <2>1. AddPage(s, v) = e \/ AddPage(s, v) = r
    BY <1>5, <1>9
  <2>2. QED
    BY <1>2, <1>3, <1>6, <1>7, <2>1
<1>10. QED
  BY <1>8, <1>9

(* After i rounds of the loop: only the page of the last round may lack a  *)
(* mapping, since the next round would have found no frame.                *)
KeptPromise(r, vs, i) ==
    r.ok => \A j \in 1 .. i : r.pages[vs[j]] # NoFrame \/ (j = i /\ Promised(r, vs[j]))

LEMMA AddPagesPromise ==
    ASSUME NEW s, Good(s), NEW vs \in Seq(Page)
    PROVE  KeptPromise(AddPages(s, vs), vs, Len(vs))
<1> DEFINE n == Len(vs)
<1>1. n \in Nat
  OBVIOUS
<1>2. PICK d : PagesTrace(d, s, vs) /\ AddPages(s, vs) = d[n]
  BY AddPagesTrace
<1>3. /\ \A i \in 0 .. n : Good(d[i])
      /\ \A i \in 1 .. n : d[i] = AddPage(d[i - 1], vs[i])
  BY <1>2 DEF PagesTrace
<1>4. \A i \in 1 .. n : vs[i] \in Page
  OBVIOUS
<1> HIDE DEF n
<1> DEFINE S == {i \in 0 .. n : KeptPromise(d[i], vs, i)}
<1>5. 0 \in S
  BY <1>1 DEF KeptPromise
<1>6. ASSUME NEW i \in 1 .. n, i - 1 \in S PROVE i \in S
  <2>1. i \in 0 .. n /\ i - 1 \in 0 .. n /\ i \in Nat
    BY <1>1
  <2> DEFINE q == d[i - 1]
             r == d[i]
             v == vs[i]
  <2>2. Good(q) /\ v \in Page /\ r = AddPage(q, v)
    BY <1>3, <1>4, <2>1
  <2>3. KeptPromise(q, vs, i - 1)
    BY <1>6
  <2> HIDE DEF q, r
  <2>4. ASSUME r.ok, NEW j \in 1 .. i
        PROVE  r.pages[vs[j]] # NoFrame \/ (j = i /\ Promised(r, vs[j]))
    <3> HIDE DEF v
    <3>1. q.ok /\ q.free # {} /\ Promised(r, v) /\ StayMapped(q, r)
      BY <2>2, <2>4, AddPagePromise
    <3>2. CASE j = i
      BY <3>1, <3>2 DEF v
    <3>3. CASE j # i
      <4>1. j \in 1 .. i - 1 /\ j \in 1 .. n
        BY <1>1, <2>1, <3>3
      <4>2. q.pages[vs[j]] # NoFrame
        BY <2>3, <3>1, <4>1 DEF KeptPromise, Promised
      <4>3. vs[j] \in Page
        BY <1>4, <4>1
      <4>4. \A w \in Page : q.pages[w] # NoFrame => r.pages[w] # NoFrame
        BY <3>1 DEF StayMapped
      <4>5. r.pages[vs[j]] # NoFrame
        BY <4>2, <4>3, <4>4
      <4>6. QED
        BY <4>5, Zenon
    <3>4. QED
      BY <3>2, <3>3
  <2>5. KeptPromise(r, vs, i)
    BY <2>4 DEF KeptPromise
  <2>6. QED
    BY <2>1, <2>5 DEF r
<1>7. 0 .. n \subseteq S
  <2> HIDE DEF S
  <2>1. QED
    BY <1>1, <1>5, <1>6, RoundInduction
<1>8. n \in S
  BY <1>1, <1>7
<1>9. QED
  BY <1>2, <1>8 DEF n

(* The page by which a break has moved, as SbrkMapsItsPages says it.       *)
PageOfHeap(p, v) ==
    \/ pages'[p][v] # NoFrame
    \/ /\ v = heapBreak'[p] - 1
       /\ tables'[p][v \div PagesPerTable] = NoFrame
       /\ free' = {}

LEMMA SbrkMaps ==
    ASSUME MemInv, NEW n \in Growth, Sbrk(n), NEW p \in Pid,
           NEW v \in heapBreak[p] .. heapBreak'[p] - 1
    PROVE  PageOfHeap(p, v)
<1> DEFINE old == heapBreak[current]
           vs == HeapPages(old, n)
           s == Space(current)
           r == AddPages(s, vs)
<1>1. current \in Pid
  BY DEF MemInv, Typed, Sbrk, UserRunning
<1>2. old \in Page /\ old + n <= StackPage /\ heapBreak \in [Pid -> Page]
  BY <1>1 DEF MemInv, Typed, Sbrk, BelowStack
<1>3. n \in Nat /\ StackPage \in Nat
  BY MemoryAssumption
<1>4. Store(r) /\ heapBreak' = IF r.ok THEN [heapBreak EXCEPT ![current] = old + n] ELSE heapBreak
  BY DEF Sbrk
<1>5. vs \in Seq(Page) /\ Len(vs) = n /\ \A i \in 1 .. n : vs[i] = old + i - 1
  <2>1. \A i \in 1 .. n : old + i - 1 \in Page
    BY <1>2, <1>3 DEF Page
  <2>2. vs \in [1 .. n -> Page]
    BY <2>1 DEF HeapPages
  <2>3. QED
    BY <1>3, <2>2 DEF HeapPages
<1>6. Good(s)
  BY <1>1, OwnSpaceGood
<1> HIDE DEF vs
<1>7. KeptPromise(r, vs, n)
  <2> HIDE DEF s
  <2>1. QED
    BY <1>5, <1>6, AddPagesPromise
<1>8. pages'[current] = r.pages /\ tables'[current] = r.tables /\ free' = r.free
  <2>1. /\ pages' = [pages EXCEPT ![current] = r.pages] /\ free' = r.free
        /\ tables' = [tables EXCEPT ![current] = r.tables]
    BY <1>4 DEF Store
  <2> HIDE DEF r
  <2>2. QED
    BY <1>1, <2>1 DEF MemInv, Typed
<1> HIDE DEF r, s
<1>9. CASE heapBreak'[p] = heapBreak[p]
  <2>1. heapBreak[p] \in Nat
    BY <1>2 DEF Page
  <2>2. QED
    BY <1>9, <2>1
<1>10. CASE heapBreak'[p] # heapBreak[p]
  <2>1. p = current /\ heapBreak'[p] = old + n /\ r.ok
    BY <1>1, <1>2, <1>4, <1>10
  <2>2. old \in Nat /\ v \in old .. (old + n) - 1
    BY <1>2, <2>1 DEF Page
  <2> HIDE DEF old
  <2> DEFINE j == (v - old) + 1
  <2>3. j \in 1 .. n /\ old + j - 1 = v /\ (j = n => v = (old + n) - 1)
    BY <1>3, <2>2
  <2>4. vs[j] = v
    BY <1>5, <2>3
  <2> HIDE DEF j
  <2>5. r.pages[v] # NoFrame \/ (j = n /\ Promised(r, v))
    BY <1>7, <2>1, <2>3, <2>4 DEF KeptPromise
  <2>6. QED
    BY <1>8, <2>1, <2>3, <2>5 DEF PageOfHeap, Promised
<1>11. QED
  BY <1>9, <1>10

(* A process that does not exist yet has no heap.                          *)
HeapsAreOwned == \A p \in Pid : p >= nextPid => heapBreak[p] = 0

LEMMA HeapsStep ==
    ASSUME MemInv, HeapsAreOwned, [Next]_vars
    PROVE  HeapsAreOwned'
<1>1. heapBreak \in [Pid -> Page] /\ nextPid \in Nat /\ Pid \subseteq Nat
  BY MemoryAssumption DEF MemInv, Typed, Pid
<1>2. ASSUME NEW image, Spawn(image) PROVE HeapsAreOwned'
  <2>1. nextPid' = nextPid + 1 /\ heapBreak' = [heapBreak EXCEPT ![nextPid] = HeapStart(image)]
    BY <1>2 DEF Spawn
  <2>2. ASSUME NEW p \in Pid, p >= nextPid' PROVE heapBreak'[p] = 0
    <3>1. p >= nextPid /\ p # nextPid
      BY <1>1, <2>1, <2>2
    <3>2. QED
      BY <1>1, <2>1, <3>1 DEF HeapsAreOwned
  <2>3. QED
    BY <2>2 DEF HeapsAreOwned
<1>3. ASSUME nextPid' = nextPid, heapBreak' = heapBreak PROVE HeapsAreOwned'
  BY <1>3 DEF HeapsAreOwned
<1>4. ASSUME nextPid' = nextPid, NEW c \in Pid, NEW b, b = 0 \/ heapBreak[c] # 0,
             heapBreak' = [heapBreak EXCEPT ![c] = b]
      PROVE  HeapsAreOwned'
  <2>1. ASSUME NEW p \in Pid, p >= nextPid PROVE heapBreak'[p] = 0
    BY <1>1, <1>4, <2>1 DEF HeapsAreOwned
  <2>2. QED
    BY <1>4, <2>1 DEF HeapsAreOwned
<1>5. ASSUME NEW n \in Growth, Sbrk(n) PROVE HeapsAreOwned'
  <2>1. current \in Pid
    BY <1>5 DEF MemInv, Typed, Sbrk, UserRunning
  <2>2. nextPid' = nextPid /\ heapBreak[current] # 0
    BY <1>5 DEF Sbrk, Store
  <2>3. \/ heapBreak' = heapBreak
        \/ heapBreak' = [heapBreak EXCEPT ![current] = heapBreak[current] + n]
    BY <1>5 DEF Sbrk
  <2>4. QED
    BY <1>3, <1>4, <2>1, <2>2, <2>3
<1>6. ASSUME NEW m \in DeviceMaps, MapDevice(m[1], m[2], m[3]) PROVE HeapsAreOwned'
  BY <1>3, <1>6 DEF MapDevice, Store
<1>7. ASSUME NEW next, Switch(next) PROVE HeapsAreOwned'
  BY <1>3, <1>7 DEF Switch
<1>8. ASSUME NEW next, Exit(next) PROVE HeapsAreOwned'
  <2>1. current \in Pid
    BY <1>8 DEF MemInv, Typed, Exit, UserRunning
  <2>2. nextPid' = nextPid /\ heapBreak' = [heapBreak EXCEPT ![current] = 0]
    BY <1>8 DEF Exit
  <2>3. QED
    BY <1>4, <2>1, <2>2
<1>9. ASSUME NEW image, BootSkip(image) \/ ExecError(image) PROVE HeapsAreOwned'
  BY <1>3, <1>9 DEF BootSkip, ExecError
<1>10. CASE UNCHANGED vars
  BY <1>3, <1>10 DEF vars
<1>11. QED
  BY <1>2, <1>5, <1>6, <1>7, <1>8, <1>9, <1>10 DEF Next, Calls, BootModule, Exec

(* Only sbrk moves the break of a process that has a heap, and no step but *)
(* the exit of the process moves it down.                                  *)
LEMMA BreakStep ==
    ASSUME MemInv, HeapsAreOwned, Next, NEW p \in Pid, heapBreak[p] # 0,
           ~\E n \in Growth : Sbrk(n)
    PROVE  heapBreak'[p] = heapBreak[p] \/ heapBreak'[p] = 0
<1>1. heapBreak \in [Pid -> Page] /\ nextPid \in Nat /\ p \in Nat
  BY MemoryAssumption DEF MemInv, Typed, Pid
<1>2. ASSUME NEW image, Spawn(image) PROVE heapBreak'[p] = heapBreak[p]
  <2>1. heapBreak' = [heapBreak EXCEPT ![nextPid] = HeapStart(image)]
    BY <1>2 DEF Spawn
  <2>2. p # nextPid
    BY <1>1 DEF HeapsAreOwned
  <2>3. QED
    BY <1>1, <2>1, <2>2
<1>3. ASSUME NEW image, BootSkip(image) \/ ExecError(image) PROVE heapBreak' = heapBreak
  BY <1>3 DEF BootSkip, ExecError
<1>4. ASSUME NEW v, NEW f, NEW k, MapDevice(v, f, k) PROVE heapBreak' = heapBreak
  BY <1>4 DEF MapDevice
<1>5. ASSUME NEW next, Switch(next) PROVE heapBreak' = heapBreak
  BY <1>5 DEF Switch
<1>6. ASSUME NEW next, Exit(next) PROVE heapBreak'[p] = heapBreak[p] \/ heapBreak'[p] = 0
  BY <1>1, <1>6 DEF Exit
<1>7. QED
  BY <1>2, <1>3, <1>4, <1>5, <1>6 DEF Next, Calls, BootModule, Exec

(* SbrkMapsItsPages, for every amount of memory: a break that moves has    *)
(* memory below it, whatever failed before, but for the last page of a     *)
(* call that has used up the memory.                                       *)
THEOREM HeapIsMapped == Spec => SbrkMapsItsPages
<1>1. Init => HeapsAreOwned
  BY DEF Init, HeapsAreOwned
<1>2. MemInv /\ HeapsAreOwned /\ [Next]_vars => HeapsAreOwned'
  BY HeapsStep
<1>3. ASSUME MemInv, HeapsAreOwned, [Next]_vars
      PROVE  [\A p \in Pid : heapBreak[p] # 0 =>
                 \A v \in heapBreak[p] .. heapBreak'[p] - 1 :
                    \/ pages'[p][v] # NoFrame
                    \/ /\ v = heapBreak'[p] - 1
                       /\ tables'[p][v \div PagesPerTable] = NoFrame
                       /\ free' = {}]_vars
  <2> SUFFICES ASSUME Next, NEW p \in Pid, heapBreak[p] # 0,
                      NEW v \in heapBreak[p] .. heapBreak'[p] - 1
               PROVE  PageOfHeap(p, v)
    BY <1>3 DEF PageOfHeap
  <2>1. heapBreak[p] \in Nat
    BY <1>3 DEF MemInv, Typed, Page
  <2>2. CASE \E n \in Growth : Sbrk(n)
    BY <1>3, <2>2, SbrkMaps
  <2>3. CASE ~\E n \in Growth : Sbrk(n)
    <3>1. heapBreak'[p] = heapBreak[p] \/ heapBreak'[p] = 0
      BY <1>3, <2>3, BreakStep
    <3>2. QED
      BY <2>1, <3>1
  <2>4. QED
    BY <2>2, <2>3
<1>4. QED
  BY <1>1, <1>2, <1>3, MemoryInvariance, PTL DEF Spec, SbrkMapsItsPages

-----------------------------------------------------------------------------
(* Frames are not lost.                                                    *)

(* A frame is clear or in a place of an address space.                     *)
Has(s, f) == f \in s.free \/ \E x \in Slot : Content(s, x) = f

(* What s has of the RAM, r has too, except for the frames in L.           *)
Keeps(s, r, L) == \A f \in Ram \ L : Has(s, f) => Has(r, f)

LEMMA KeepsTransitive ==
    ASSUME NEW s, NEW r, NEW q, NEW L, Keeps(s, r, L), Keeps(r, q, L)
    PROVE  Keeps(s, q, L)
BY DEF Keeps

(* Places that change and hold no frame but those in L.                    *)
LEMMA KeepsByPlaces ==
    ASSUME NEW s, NEW r, NEW L,
           \A f \in s.free \cap Ram : Has(r, f),
           \A x \in Slot : Content(s, x) \in Ram =>
                 Content(r, x) = Content(s, x) \/ Content(s, x) \in L
    PROVE  Keeps(s, r, L)
BY DEF Keeps, Has

(* mapUserPage loses nothing but the frame that the page had.              *)
LEMMA MapUserPageKeeps ==
    ASSUME NEW s, Good(s), NEW v \in Page, NEW f
    PROVE  LET r == MapUserPage(s, v, f)
           IN  Keeps(s, r, {s.pages[v]}) /\ \A w \in Page \ {v} : r.pages[w] = s.pages[w]
<1> DEFINE i == v \div PagesPerTable
           t == AllocFrame(s.free)
           e == [s EXCEPT !.pages[v] = f]
           r == [s EXCEPT !.free = @ \ {t}, !.tables[i] = t, !.pages[v] = f]
<1>1. MapUserPage(s, v, f) =
         IF s.tables[i] # NoFrame THEN e ELSE IF t = NoFrame THEN s ELSE r
  BY DEF MapUserPage
<1>2. i \in Table
  BY TableOfPage
<1>3. /\ s.tables \in [Table -> Managed \cup {NoFrame}]
      /\ s.pages \in [Page -> Mappable \cup {NoFrame}]
      /\ s = [free |-> s.free, ok |-> s.ok, dir |-> s.dir, kstack |-> s.kstack,
              tables |-> s.tables, pages |-> s.pages]
  BY DEF Good, Spaces
<1>4. NoFrame \notin Ram
  BY FrameFacts
<1>5. CASE s.tables[i] # NoFrame
  <2>1. /\ e.free = s.free /\ e.dir = s.dir /\ e.kstack = s.kstack /\ e.tables = s.tables
        /\ e.pages = [s.pages EXCEPT ![v] = f]
    BY <1>3
  <2> HIDE DEF e
  <2>2. ASSUME NEW x \in Slot, x # <<"page", v>> PROVE Content(e, x) = Content(s, x)
    <3>1. CASE x = <<"directory", 0>> \/ x = <<"kstack", 0>> \/ \E j \in Table : x = <<"table", j>>
      BY <3>1, <2>1, ContentFacts
    <3>2. CASE \E w \in Page : x = <<"page", w>>
      BY <1>3, <2>1, <2>2, <3>2, ContentFacts
    <3>3. QED
      BY <3>1, <3>2, SlotFacts
  <2>3. Keeps(s, e, {s.pages[v]})
    <3>1. \A g \in s.free \cap Ram : Has(e, g)
      BY <2>1 DEF Has
    <3>2. Content(s, <<"page", v>>) = s.pages[v]
      BY ContentFacts
    <3>3. QED
      BY <2>2, <3>1, <3>2, KeepsByPlaces
  <2>4. \A w \in Page \ {v} : e.pages[w] = s.pages[w]
    BY <1>3, <2>1
  <2>5. QED
    BY <1>1, <1>5, <2>3, <2>4
<1>6. CASE s.tables[i] = NoFrame /\ t = NoFrame
  BY <1>1, <1>6 DEF Keeps
<1>7. CASE s.tables[i] = NoFrame /\ t # NoFrame
  <2>1. /\ r.free = s.free \ {t} /\ r.dir = s.dir /\ r.kstack = s.kstack
        /\ r.tables = [s.tables EXCEPT ![i] = t] /\ r.pages = [s.pages EXCEPT ![v] = f]
    BY <1>3
  <2> HIDE DEF r, t, i
  <2>2. ASSUME NEW x \in Slot, x # <<"page", v>>, x # <<"table", i>>
        PROVE  Content(r, x) = Content(s, x)
    <3>1. CASE x = <<"directory", 0>> \/ x = <<"kstack", 0>>
      BY <3>1, <2>1, ContentFacts
    <3>2. CASE \E j \in Table : x = <<"table", j>>
      BY <1>3, <2>1, <2>2, <3>2, ContentFacts
    <3>3. CASE \E w \in Page : x = <<"page", w>>
      BY <1>3, <2>1, <2>2, <3>3, ContentFacts
    <3>4. QED
      BY <3>1, <3>2, <3>3, SlotFacts
  <2>3. Keeps(s, r, {s.pages[v]})
    <3>1. Content(r, <<"table", i>>) = t /\ <<"table", i>> \in Slot
      BY <1>2, <1>3, <2>1, ContentFacts, SlotFacts
    <3>2. \A g \in s.free \cap Ram : Has(r, g)
      BY <2>1, <3>1 DEF Has
    <3>3. Content(s, <<"page", v>>) = s.pages[v] /\ Content(s, <<"table", i>>) = NoFrame
      BY <1>7, ContentFacts
    <3>4. QED
      BY <1>4, <2>2, <3>2, <3>3, KeepsByPlaces
  <2>4. \A w \in Page \ {v} : r.pages[w] = s.pages[w]
    BY <1>3, <2>1
  <2>5. QED
    BY <1>1, <1>7, <2>3, <2>4
<1>8. QED
  BY <1>5, <1>6, <1>7

(* The frame that AddPage takes is in the page, when there is one for a    *)
(* missing page table too.                                                 *)
LEMMA AddPageKeeps ==
    ASSUME NEW s, Good(s), NEW v \in Page, NEW k \in Nat, Spare(s, k + 1)
    PROVE  LET r == AddPage(s, v)
           IN  /\ Spare(r, k) /\ Keeps(s, r, {s.pages[v]})
               /\ \A w \in Page \ {v} : r.pages[w] = s.pages[w]
<1> DEFINE f == AllocFrame(s.free)
           u == [s EXCEPT !.free = @ \ {f}]
           r == MapUserPage(u, v, f)
<1>1. /\ s.free \in SUBSET Managed /\ s.ok /\ s \in Spaces
      /\ IsFiniteSet(s.free) /\ Cardinality(s.free) \in Nat
      /\ Cardinality(s.free) >= k + 1 + Cardinality(Missing(s))
  BY FS_CardinalityType DEF Good, Spaces, Spare
<1>2. Cardinality(Missing(s)) \in Nat
  BY MissingIsFinite
<1>3. s.free # {}
  <2>1. Cardinality(s.free) # 0
    BY <1>1, <1>2
  <2>2. QED
    BY <1>1, <2>1, FS_EmptySet
<1>4. f \in s.free /\ f # NoFrame
  BY <1>1, <1>3, Alloc, FrameFacts
<1>5. AddPage(s, v) = r
  BY <1>1, <1>4 DEF AddPage
<1>6. /\ u.free = s.free \ {f} /\ u.ok = s.ok /\ u.tables = s.tables /\ u.pages = s.pages
      /\ u.dir = s.dir /\ u.kstack = s.kstack /\ u \in Spaces
  BY <1>1 DEF Spaces
<1> HIDE DEF u, f
<1>7. \A y \in Slot : Content(u, y) = Content(s, y)
  BY <1>6 DEF Content
<1>8. Good(u)
  BY <1>6, <1>7 DEF Good
<1>9. Spare(u, k)
  <2>1. IsFiniteSet(s.free \ {f}) /\ Cardinality(s.free \ {f}) = Cardinality(s.free) - 1
    BY <1>1, <1>4, FS_RemoveElement
  <2>2. Missing(u) = Missing(s)
    BY <1>6 DEF Missing
  <2>3. Cardinality(u.free) >= k + Cardinality(Missing(u))
    BY <1>1, <1>2, <1>6, <2>1, <2>2
  <2>4. QED
    BY <1>1, <1>6, <2>1, <2>3 DEF Spare
<1>10. Spare(r, k) /\ r.pages = [u.pages EXCEPT ![v] = f]
  BY <1>8, <1>9, MapUserPageMaps
<1>11. Keeps(u, r, {u.pages[v]}) /\ \A w \in Page \ {v} : r.pages[w] = u.pages[w]
  BY <1>8, MapUserPageKeeps
<1> HIDE DEF r
<1>12. Has(r, f)
  <2>1. r.pages[v] = f
    BY <1>6, <1>10 DEF Spaces
  <2>2. QED
    BY <2>1, ContentFacts, SlotFacts DEF Has
<1>13. Keeps(s, r, {s.pages[v]})
  <2>1. ASSUME NEW g \in Ram, Has(s, g) PROVE g = f \/ Has(u, g)
    BY <1>6, <1>7, <2>1 DEF Has
  <2>2. QED
    BY <1>6, <1>11, <1>12, <2>1 DEF Keeps
<1>14. QED
  BY <1>5, <1>6, <1>10, <1>11, <1>13

(* Every page of a list is another one.                                    *)
Apart(vs) == \A i, j \in 1 .. Len(vs) : vs[i] = vs[j] => i = j

(* Pages that a loop has not reached are as they were.                     *)
Untouched(s, r, vs, i) ==
    \A w \in Page : (\A j \in 1 .. i : vs[j] # w) => r.pages[w] = s.pages[w]

LEMMA AddPagesKeeps ==
    ASSUME NEW s, Good(s), NEW vs \in Seq(Page), Apart(vs), NEW k \in Nat,
           Spare(s, k + Len(vs)), NEW L, \A i \in 1 .. Len(vs) : s.pages[vs[i]] \in L
    PROVE  LET r == AddPages(s, vs)
           IN  Spare(r, k) /\ Keeps(s, r, L) /\ Untouched(s, r, vs, Len(vs))
<1> DEFINE n == Len(vs)
<1>1. n \in Nat /\ \A i \in 1 .. n : vs[i] \in Page
  OBVIOUS
<1>2. PICK d : PagesTrace(d, s, vs) /\ AddPages(s, vs) = d[n]
  BY AddPagesTrace
<1>3. /\ \A i \in 0 .. n : Good(d[i])
      /\ d[0] = s
      /\ \A i \in 1 .. n : d[i] = AddPage(d[i - 1], vs[i])
  BY <1>2 DEF PagesTrace
<1>4. Apart(vs) /\ \A i \in 1 .. n : s.pages[vs[i]] \in L
  OBVIOUS
<1>5. Spare(s, k + n)
  OBVIOUS
<1>6. Apart(vs) <=> \A i, j \in 1 .. n : vs[i] = vs[j] => i = j
  BY DEF Apart
<1> HIDE DEF n
<1> DEFINE S == {i \in 0 .. n : Spare(d[i], k + (n - i)) /\ Keeps(s, d[i], L) /\ Untouched(s, d[i], vs, i)}
<1>7. 0 \in S
  <2>1. n - 0 = n /\ 0 \in 0 .. n
    BY <1>1
  <2>2. QED
    BY <1>3, <1>5, <2>1 DEF Keeps, Untouched
<1>8. ASSUME NEW i \in 1 .. n, i - 1 \in S PROVE i \in S
  <2> DEFINE q == d[i - 1]
             r == d[i]
             m == k + (n - i)
             v == vs[i]
  <2>1. i \in 0 .. n /\ i - 1 \in 0 .. n /\ m \in Nat /\ k + (n - (i - 1)) = m + 1
    BY <1>1
  <2>2. Spare(q, m + 1) /\ Keeps(s, q, L) /\ Untouched(s, q, vs, i - 1)
    BY <1>8, <2>1
  <2>3. Good(q) /\ r = AddPage(q, v) /\ v \in Page
    BY <1>1, <1>3, <2>1
  <2>4. q.pages[v] = s.pages[v]
    <3>1. \A j \in 1 .. i - 1 : vs[j] # v
      BY <1>1, <1>4, <1>6
    <3>2. QED
      BY <2>2, <2>3, <3>1 DEF Untouched
  <2>5. s.pages[v] \in L
    BY <1>4
  <2>6. \A w \in Page : (\A j \in 1 .. i : vs[j] # w) => w # v /\ \A j \in 1 .. i - 1 : vs[j] # w
    BY <1>1
  <2>9. Untouched(s, r, vs, i) <=> \A w \in Page : (\A j \in 1 .. i : vs[j] # w) => r.pages[w] = s.pages[w]
    BY DEF Untouched
  <2> HIDE DEF q, r, m, v
  <2>7. Spare(r, m) /\ Keeps(q, r, {q.pages[v]}) /\ \A w \in Page \ {v} : r.pages[w] = q.pages[w]
    BY <2>1, <2>2, <2>3, AddPageKeeps
  <2>8. Keeps(s, r, L)
    BY <2>2, <2>4, <2>5, <2>7 DEF Keeps
  <2>10. Untouched(s, r, vs, i)
    BY <2>2, <2>6, <2>7, <2>9 DEF Untouched
  <2>11. QED
    BY <2>1, <2>7, <2>8, <2>10 DEF m, r
<1>9. n \in S
  <2> HIDE DEF S
  <2>1. 0 .. n \subseteq S
    BY <1>1, <1>7, <1>8, RoundInduction
  <2>2. QED
    BY <1>1, <2>1
<1>10. k + (n - n) = k
  BY <1>1
<1>11. QED
  BY <1>2, <1>9, <1>10 DEF n

(* The loop of mapDevice over pages that hold no RAM.                      *)
LEMMA MapFramesKeeps ==
    ASSUME NEW s, Good(s), NEW v \in Nat, NEW f \in Nat, NEW k \in Nat,
           v + k <= StackPage + 1, f .. f + k - 1 \subseteq DeviceFrames,
           \A w \in v .. v + k - 1 : s.pages[w] \notin Ram
    PROVE  Keeps(s, MapFrames(s, v, f, k), {})
<1>1. PICK d : FramesTrace(d, s, v, f, k) /\ MapFrames(s, v, f, k) = d[k]
  BY MapFramesTrace
<1> DEFINE S == {i \in 0 .. k : Keeps(s, d[i], {})
                                  /\ \A w \in Page : w >= v + i => d[i].pages[w] = s.pages[w]}
<1>2. 0 \in S
  BY <1>1 DEF Keeps, FramesTrace
<1>3. ASSUME NEW i \in 1 .. k, i - 1 \in S PROVE i \in S
  <2> DEFINE r == d[i - 1]
             w == v + i - 1
             g == f + i - 1
             q == MapUserPage(r, w, g)
  <2>1. d[i] = q /\ i \in 0 .. k /\ Good(r) /\ w \in Page
    BY <1>1 DEF FramesTrace
  <2>2. Keeps(s, r, {}) /\ \A x \in Page : x >= w => r.pages[x] = s.pages[x]
    <3>1. v + (i - 1) = w
      OBVIOUS
    <3>2. QED
      BY <1>3, <3>1
  <2>3. w \in v .. v + k - 1 /\ w \in Nat /\ w + 1 = v + i
    OBVIOUS
  <2> HIDE DEF r, w, g
  <2>4. Keeps(r, q, {r.pages[w]}) /\ \A x \in Page \ {w} : q.pages[x] = r.pages[x]
    BY <2>1, MapUserPageKeeps
  <2>5. r.pages[w] \notin Ram
    BY <2>1, <2>2, <2>3
  <2> HIDE DEF q
  <2>6. Keeps(s, q, {})
    BY <2>2, <2>4, <2>5 DEF Keeps
  <2>7. ASSUME NEW x \in Page, x >= v + i PROVE q.pages[x] = s.pages[x]
    <3>1. x \in Int /\ x >= w /\ x # w
      BY <2>3, <2>7 DEF Page
    <3>2. QED
      BY <2>2, <2>4, <3>1
  <2>8. QED
    BY <2>1, <2>6, <2>7
<1>4. k \in S
  <2> HIDE DEF S
  <2>1. 0 .. k \subseteq S
    BY <1>2, <1>3, RoundInduction
  <2>2. QED
    BY <2>1
<1>5. QED
  BY <1>1, <1>4

(* The segments of an executable share no page.                            *)
SegmentsApart == \A image \in Images : Apart(image)

(* A page of an executable is a page of its own, so there are at most as   *)
(* many as there are pages below the stack.                                *)
LEMMA ImageFits ==
    ASSUME SegmentsApart, NEW image \in Images
    PROVE  /\ image \in Seq(Page) /\ Len(image) \in Nat /\ Len(image) <= StackPage
           /\ \A i \in 1 .. Len(image) : image[i] # StackPage
<1>1. StackPage \in Nat /\ image \in Seq(0 .. StackPage - 1)
  BY MemoryAssumption
<1> DEFINE n == Len(image)
           T == 0 .. StackPage - 1
<1>2. n \in Nat /\ image \in [1 .. n -> T]
  BY <1>1
<1>3. IsFiniteSet(T) /\ Cardinality(T) = StackPage
  BY <1>1, FS_Interval
<1>4. IsFiniteSet(1 .. n) /\ Cardinality(1 .. n) = n
  BY <1>2, FS_Interval
<1>5. Apart(image)
  BY DEF SegmentsApart
<1>6. \A i, j \in 1 .. n : image[i] = image[j] => i = j
  BY <1>5 DEF Apart
<1>7. \A i \in 1 .. n : image[i] \in Page /\ image[i] # StackPage
  BY <1>1, <1>2 DEF Page
<1>8. image \in Seq(Page)
  <2>1. image \in [1 .. n -> Page]
    BY <1>2, <1>7
  <2>2. QED
    BY <1>1, <2>1
<1> HIDE DEF n, T
<1>9. n <= StackPage
  <2> SUFFICES ASSUME StackPage < n PROVE FALSE
    BY <1>1, <1>2
  <2>1. Cardinality(T) < Cardinality(1 .. n)
    BY <1>3, <1>4
  <2>2. \E i, j \in 1 .. n : i # j /\ image[i] = image[j]
    BY <1>2, <1>3, <1>4, <2>1, FS_PigeonHole
  <2>3. QED
    BY <1>6, <2>2
<1>10. QED
  BY <1>2, <1>7, <1>8, <1>9 DEF n

(* A new address space has all frames that are clear.                      *)
LEMMA CreateKeeps ==
    ASSUME free \subseteq Managed, EnoughFrames, NEW n \in Nat, n <= StackPage + 2
    PROVE  LET s == CreateAddressSpace
           IN  /\ Spare(s, n) /\ s.kstack = NoFrame
               /\ \A f \in free : Has(s, f)
               /\ \A v \in Page : s.pages[v] = NoFrame
<1> DEFINE d == AllocFrame(free)
           s == CreateAddressSpace
<1>1. IsFiniteSet(free) /\ Cardinality(free) \in Nat
  <2>1. free \subseteq Frame
    BY FrameFacts
  <2>2. QED
    BY <2>1, MemoryAssumption, FS_Subset, FS_CardinalityType
<1>2. StackPage \in Nat /\ Cardinality(Page) = StackPage + 1
  <2>1. StackPage \in Nat
    BY MemoryAssumption
  <2>2. QED
    BY <2>1, FS_Interval DEF Page
<1>3. /\ Cardinality(Missing(s)) \in Nat /\ Cardinality(Table) \in Nat
      /\ Cardinality(Missing(s)) <= Cardinality(Table)
  <2> HIDE DEF s
  <2>1. QED
    BY MissingIsFinite
<1>4. Cardinality(free) >= 2 + (StackPage + 1) + Cardinality(Table)
  BY <1>2 DEF EnoughFrames
<1>5. free # {}
  <2>1. Cardinality(free) # 0
    BY <1>1, <1>2, <1>3, <1>4
  <2>2. QED
    BY <2>1, FS_EmptySet
<1>6. d \in free /\ d # NoFrame
  BY <1>5, Alloc, FrameFacts
<1>7. IsFiniteSet(free \ {d}) /\ Cardinality(free \ {d}) = Cardinality(free) - 1
  BY <1>1, <1>6, FS_RemoveElement
<1>8. /\ s.free = free \ {d} /\ s.dir = d /\ s.kstack = NoFrame /\ s.ok = (d # NoFrame)
      /\ s.pages = [v \in Page |-> NoFrame]
  BY DEF CreateAddressSpace
<1> HIDE DEF s, d
<1>9. Cardinality(s.free) >= n + Cardinality(Missing(s))
  BY <1>1, <1>2, <1>3, <1>4, <1>7, <1>8
<1>10. Spare(s, n)
  BY <1>6, <1>7, <1>8, <1>9 DEF Spare
<1>11. ASSUME NEW f \in free PROVE Has(s, f)
  <2>1. Content(s, <<"directory", 0>>) = d /\ <<"directory", 0>> \in Slot
    BY <1>8, ContentFacts, SlotFacts
  <2>2. QED
    BY <1>8, <2>1 DEF Has
<1>12. QED
  BY <1>8, <1>10, <1>11 DEF s

(* Up to the user stack exec loses nothing: every frame that was clear is  *)
(* clear or in the new address space, and one is left for the kernel stack.*)
LEMMA UserStackKeeps ==
    ASSUME free \subseteq Managed, EnoughFrames, SegmentsApart,
           NEW image \in Images \cup {NotElf}
    PROVE  LET s == WithUserStack(image)
           IN  s.kstack = NoFrame /\ \A f \in free \cap Ram : Has(s, f)
<1> DEFINE b == CreateAddressSpace
           u == Load(b, image)
           s == AddPage(u, StackPage)
<1>1. WithUserStack(image) = s
  BY DEF WithUserStack
<1>2. StackPage \in Nat /\ StackPage \in Page
  BY MemoryAssumption DEF Page
<1>3. Good(b)
  BY CreateFresh DEF Fresh
<1>4. NoFrame \notin Ram
  BY FrameFacts
<1>5. CASE image \in Images
  <2>1. /\ image \in Seq(Page) /\ Len(image) \in Nat /\ Len(image) <= StackPage
        /\ \A i \in 1 .. Len(image) : image[i] # StackPage
    BY <1>5, ImageFits
  <2>2. 1 + Len(image) \in Nat /\ 1 + Len(image) <= StackPage + 2
    BY <1>2, <2>1
  <2>3. /\ Spare(b, 1 + Len(image)) /\ b.kstack = NoFrame
        /\ \A f \in free : Has(b, f)
        /\ \A v \in Page : b.pages[v] = NoFrame
    BY <2>2, CreateKeeps
  <2>4. Apart(image)
    BY <1>5 DEF SegmentsApart
  <2>5. \A i \in 1 .. Len(image) : b.pages[image[i]] \in {NoFrame}
    BY <2>1, <2>3
  <2>6. u = AddPages(b, image)
    BY <1>5 DEF Load
  <2> HIDE DEF b, u
  <2>7. Spare(u, 1) /\ Keeps(b, u, {NoFrame}) /\ Untouched(b, u, image, Len(image))
    BY <1>3, <2>1, <2>3, <2>4, <2>5, <2>6, AddPagesKeeps
  <2>8. Good(u) /\ SameHead(b, u)
    BY <1>3, <2>1, <2>6, AddPagesGood
  <2>9. u.pages[StackPage] = NoFrame
    BY <1>2, <2>1, <2>3, <2>7 DEF Untouched
  <2>10. Spare(u, 0 + 1)
    BY <2>7
  <2>11. Keeps(u, s, {NoFrame})
    BY <1>2, <2>8, <2>9, <2>10, AddPageKeeps
  <2>12. SameHead(u, s)
    BY <1>2, <2>8, AddPageGood
  <2> HIDE DEF s
  <2>13. s.kstack = NoFrame
    BY <2>3, <2>8, <2>12 DEF SameHead
  <2>14. \A f \in free \cap Ram : Has(s, f)
    BY <1>4, <2>3, <2>7, <2>11 DEF Keeps
  <2>15. QED
    BY <1>1, <2>13, <2>14
<1>6. CASE image \notin Images
  <2> DEFINE r == [b EXCEPT !.ok = FALSE]
  <2>1. /\ b.kstack = NoFrame /\ \A f \in free : Has(b, f)
    BY <1>2, CreateKeeps
  <2>2. u = r
    BY <1>6 DEF Load
  <2>3. b \in Spaces
    BY <1>3 DEF Good
  <2> HIDE DEF b
  <2>4. /\ r.free = b.free /\ r.dir = b.dir /\ r.kstack = b.kstack /\ r.tables = b.tables
        /\ r.pages = b.pages /\ r.ok = FALSE /\ r \in Spaces
    BY <2>3 DEF Spaces
  <2> HIDE DEF r, u
  <2>5. s = [r EXCEPT !.ok = FALSE]
    BY <2>2, <2>4 DEF AddPage
  <2>6. /\ s.free = b.free /\ s.dir = b.dir /\ s.kstack = b.kstack /\ s.tables = b.tables
        /\ s.pages = b.pages
    BY <2>4, <2>5 DEF Spaces
  <2> HIDE DEF s
  <2>7. \A x \in Slot : Content(s, x) = Content(b, x)
    BY <2>6 DEF Content
  <2>8. QED
    BY <1>1, <2>1, <2>6, <2>7 DEF Has
<1>7. QED
  BY <1>5, <1>6

(* spawn puts the frame for the kernel stack where it belongs.             *)
LEMMA KernelStackKeeps ==
    ASSUME NEW s, Good(s), s.kstack = NoFrame, WithKernelStack(s).ok
    PROVE  Keeps(s, WithKernelStack(s), {})
<1> DEFINE k == AllocFrame(s.free)
           e == [s EXCEPT !.ok = FALSE]
           r == [s EXCEPT !.free = @ \ {k}, !.kstack = k]
<1>1. WithKernelStack(s) = IF ~s.ok \/ k = NoFrame THEN e ELSE r
  BY DEF WithKernelStack
<1>2. s \in Spaces /\ s = [free |-> s.free, ok |-> s.ok, dir |-> s.dir, kstack |-> s.kstack,
                           tables |-> s.tables, pages |-> s.pages]
  BY DEF Good, Spaces
<1>3. e.ok = FALSE
  BY <1>2
<1>4. WithKernelStack(s) = r
  BY <1>1, <1>3
<1>5. /\ r.free = s.free \ {k} /\ r.dir = s.dir /\ r.kstack = k
      /\ r.tables = s.tables /\ r.pages = s.pages
  BY <1>2
<1> HIDE DEF r, k
<1>6. ASSUME NEW x \in Slot, x # <<"kstack", 0>> PROVE Content(r, x) = Content(s, x)
  BY <1>5, <1>6, ContentFacts, SlotFacts
<1>7. Content(r, <<"kstack", 0>>) = k /\ <<"kstack", 0>> \in Slot
  BY <1>5, ContentFacts, SlotFacts
<1>8. \A f \in s.free \cap Ram : Has(r, f)
  BY <1>5, <1>7 DEF Has
<1>9. Content(s, <<"kstack", 0>>) \notin Ram
  BY ContentFacts, FrameFacts
<1>10. Keeps(s, r, {})
  BY <1>6, <1>8, <1>9, KeepsByPlaces
<1>11. QED
  BY <1>4, <1>10

(* A frame of the system is clear or in a place of a process.              *)
Accounted(c, clear, f) == f \in clear \/ \E p \in Pid : \E x \in Slot : c[p][x] = f

(* What is not lost is accounted for.                                      *)
LEMMA NotLost ==
    ASSUME NEW f \in Ram \ Leaked
    PROVE  Accounted(Contents, free, f)
BY UseIsPlace DEF Leaked, Accounted

(* What is accounted for after a step is not lost.                         *)
LEMMA NotLostNext ==
    ASSUME NEW f, Accounted(Contents', free', f)
    PROVE  f \notin Leaked'
<1> SUFFICES ASSUME f \in Leaked' PROVE FALSE
  OBVIOUS
<1>1. f \notin free' /\ Uses(f)' = {}
  BY DEF Leaked
<1>2. PICK p \in Pid, x \in Slot : Contents'[p][x] = f
  BY <1>1 DEF Accounted
<1> DEFINE s == Space(p)'
<1>3. Content(s, x) = f
  BY <1>2 DEF Contents
<1>4. s.dir = pd'[p] /\ s.kstack = kstack'[p] /\ s.tables = tables'[p] /\ s.pages = pages'[p]
  BY DEF Space
<1> HIDE DEF s
<1>5. /\ {<<"directory", q>> : q \in {q \in Pid : pd'[q] = f}} = {}
      /\ {<<"kstack", q>> : q \in {q \in Pid : kstack'[q] = f}} = {}
      /\ {<<"table", y>> : y \in {y \in Pid \X Table : tables'[y[1]][y[2]] = f}} = {}
      /\ {<<"page", y>> : y \in {y \in Pid \X Page : pages'[y[1]][y[2]] = f}} = {}
  BY <1>1 DEF Uses
<1>6. pd'[p] # f /\ kstack'[p] # f
  BY <1>5
<1>7. ASSUME NEW i \in Table PROVE tables'[p][i] # f
  <2>1. <<p, i>> \in Pid \X Table /\ <<p, i>>[1] = p /\ <<p, i>>[2] = i
    OBVIOUS
  <2>2. QED
    BY <1>5, <2>1
<1>8. ASSUME NEW v \in Page PROVE pages'[p][v] # f
  <2>1. <<p, v>> \in Pid \X Page /\ <<p, v>>[1] = p /\ <<p, v>>[2] = v
    OBVIOUS
  <2>2. QED
    BY <1>5, <2>1
<1>9. QED
  BY <1>3, <1>4, <1>6, <1>7, <1>8, ContentFacts, SlotFacts

(* A process that does not exist yet holds nothing.                        *)
Unborn == \A p \in Pid : p >= nextPid => \A x \in Slot : Contents[p][x] = NoFrame

LEMMA UnbornInit == Init => Unborn
<1> SUFFICES ASSUME Init, NEW p \in Pid, NEW x \in Slot PROVE Contents[p][x] = NoFrame
  BY DEF Unborn
<1>1. /\ Space(p).dir = NoFrame /\ Space(p).kstack = NoFrame
      /\ \A i \in Table : Space(p).tables[i] = NoFrame
      /\ \A v \in Page : Space(p).pages[v] = NoFrame
  BY SpaceParts DEF Init
<1>2. QED
  BY <1>1, BlankSpace, ContentsNow

LEMMA UnbornStep ==
    ASSUME MemInv, Unborn, [Next]_vars
    PROVE  Unborn'
<1>1. /\ nextPid \in Nat /\ Pid \subseteq Nat
      /\ pd \in [Pid -> Managed \cup {NoFrame}] /\ kstack \in [Pid -> Managed \cup {NoFrame}]
      /\ tables \in [Pid -> [Table -> Managed \cup {NoFrame}]]
      /\ pages \in [Pid -> [Page -> Mappable \cup {NoFrame}]]
  BY MemoryAssumption DEF MemInv, Typed, Pid
<1>2. ASSUME nextPid' >= nextPid, nextPid' \in Nat,
             \A p \in Pid : p >= nextPid' =>
                 /\ pd'[p] = pd[p] /\ kstack'[p] = kstack[p]
                 /\ tables'[p] = tables[p] /\ pages'[p] = pages[p]
      PROVE  Unborn'
  <2>1. ASSUME NEW p \in Pid, p >= nextPid', NEW x \in Slot PROVE Contents'[p][x] = NoFrame
    <3>1. Contents'[p][x] = Contents[p][x]
      BY <1>2, <2>1, ContentsSame
    <3>2. p >= nextPid
      BY <1>1, <1>2, <2>1
    <3>3. QED
      BY <3>1, <3>2 DEF Unborn
  <2>2. QED
    BY <2>1 DEF Unborn
<1>3. ASSUME NEW image, Spawn(image) PROVE Unborn'
  <2>1. PICK s : /\ nextPid' = nextPid + 1 /\ pd' = [pd EXCEPT ![nextPid] = s.dir]
                 /\ tables' = [tables EXCEPT ![nextPid] = s.tables]
                 /\ pages' = [pages EXCEPT ![nextPid] = s.pages]
                 /\ kstack' = [kstack EXCEPT ![nextPid] = s.kstack]
    BY <1>3 DEF Spawn
  <2>2. QED
    BY <1>1, <1>2, <2>1
<1>4. ASSUME UNCHANGED <<pd, tables, pages, kstack, nextPid>> PROVE Unborn'
  BY <1>1, <1>2, <1>4
<1>5. ASSUME UserRunning PROVE current \in Pid /\ current < nextPid
  <2>1. current \in Pid /\ pd[current] # NoFrame
    BY <1>5 DEF MemInv, Typed, Living, UserRunning
  <2>2. ~(current >= nextPid)
    BY <2>1 DEF MemInv, Living
  <2>3. QED
    BY <1>1, <2>1, <2>2
<1>6. ASSUME UserRunning, NEW s, Store(s) PROVE Unborn'
  <2>1. /\ tables' = [tables EXCEPT ![current] = s.tables]
        /\ pages' = [pages EXCEPT ![current] = s.pages] /\ UNCHANGED <<pd, kstack, nextPid>>
    BY <1>6 DEF Store
  <2>2. QED
    BY <1>1, <1>2, <1>5, <1>6, <2>1
<1>7. ASSUME NEW n, Sbrk(n) PROVE Unborn'
  BY <1>6, <1>7 DEF Sbrk
<1>8. ASSUME NEW v, NEW f, NEW n, MapDevice(v, f, n) PROVE Unborn'
  BY <1>6, <1>8 DEF MapDevice
<1>9. ASSUME NEW next, Switch(next) PROVE Unborn'
  BY <1>4, <1>9 DEF Switch
<1>10. ASSUME NEW next, Exit(next) PROVE Unborn'
  <2>1. UserRunning
    BY <1>10 DEF Exit
  <2>2. PICK t, g : /\ pd' = [pd EXCEPT ![current] = NoFrame]
                    /\ kstack' = [kstack EXCEPT ![current] = NoFrame]
                    /\ tables' = [tables EXCEPT ![current] = t]
                    /\ pages' = [pages EXCEPT ![current] = g] /\ nextPid' = nextPid
    BY <1>10 DEF Exit
  <2>3. QED
    BY <1>1, <1>2, <1>5, <2>1, <2>2
<1>11. ASSUME NEW image, BootSkip(image) \/ ExecError(image) PROVE Unborn'
  BY <1>4, <1>11 DEF BootSkip, ExecError
<1>12. CASE UNCHANGED vars
  BY <1>4, <1>12 DEF vars
<1>13. QED
  BY <1>3, <1>7, <1>8, <1>9, <1>10, <1>11, <1>12 DEF Next, Calls, BootModule, Exec

(* exec: what was clear is clear or in the new process.                    *)
LEMMA ExecKeeps ==
    ASSUME MemInv, Unborn, EnoughFrames, SegmentsApart, NEW image \in Images, Spawn(image),
           NEW f \in Ram, Accounted(Contents, free, f)
    PROVE  Accounted(Contents', free', f)
<1> DEFINE u == WithUserStack(image)
           s == WithKernelStack(u)
           n == nextPid
<1>1. free \subseteq Managed
  BY DEF MemInv, Typed
<1>2. Good(u)
  BY <1>1, UserStackFresh DEF Fresh
<1>3. u.kstack = NoFrame /\ \A g \in free \cap Ram : Has(u, g)
  BY <1>1, UserStackKeeps
<1>4. /\ n \in Pid /\ s.ok /\ nextPid' = n + 1 /\ free' = s.free
      /\ pd' = [pd EXCEPT ![n] = s.dir] /\ tables' = [tables EXCEPT ![n] = s.tables]
      /\ pages' = [pages EXCEPT ![n] = s.pages] /\ kstack' = [kstack EXCEPT ![n] = s.kstack]
  <2>1. n \in Pid
    BY MemoryAssumption DEF MemInv, Typed, Spawn, Pid
  <2>2. QED
    BY <2>1 DEF Spawn
<1> HIDE DEF u
<1>5. Keeps(u, s, {})
  BY <1>2, <1>3, <1>4, KernelStackKeeps
<1> HIDE DEF s
<1>6. ASSUME NEW x \in Slot PROVE Contents'[n][x] = Content(s, x)
  BY <1>4, ContentsNext DEF MemInv, Typed
<1>7. ASSUME NEW p \in Pid, p # n, NEW x \in Slot PROVE Contents'[p][x] = Contents[p][x]
  BY <1>4, <1>7, ContentsSame DEF MemInv, Typed
<1>8. CASE f \in free
  <2>1. Has(s, f)
    BY <1>3, <1>5, <1>8 DEF Keeps
  <2>2. QED
    BY <1>4, <1>6, <2>1 DEF Has, Accounted
<1>9. CASE f \notin free
  <2>1. PICK p \in Pid, x \in Slot : Contents[p][x] = f
    BY <1>9 DEF Accounted
  <2>2. p # n
    <3>1. n >= nextPid
      BY MemoryAssumption DEF MemInv, Typed
    <3>2. f # NoFrame
      BY FrameFacts
    <3>3. QED
      BY <1>4, <2>1, <3>1, <3>2 DEF Unborn
  <2>3. QED
    BY <1>7, <2>1, <2>2 DEF Accounted
<1>10. QED
  BY <1>8, <1>9

(* A frame of RAM that is in the tables goes back to the bitmap with them. *)
LEMMA HeldIsDestroyed ==
    ASSUME NEW s, s \in Spaces, NEW f \in Ram, Has(s, f), s.kstack # f
    PROVE  f \in DestroyAddressSpace(s)
<1>1. CASE f \in s.free
  BY <1>1 DEF DestroyAddressSpace
<1>2. CASE f \notin s.free
  <2>1. PICK x \in Slot : Content(s, x) = f
    BY <1>2 DEF Has
  <2>2. f # NoFrame /\ f \notin LowDevice
    BY FrameFacts, MemoryAssumption
  <2>3. CASE x = <<"directory", 0>>
    BY <2>1, <2>3, ContentFacts DEF DestroyAddressSpace
  <2>4. CASE x = <<"kstack", 0>>
    BY <2>1, <2>4, ContentFacts
  <2>5. CASE \E i \in Table : x = <<"table", i>>
    <3>1. PICK i \in Table : s.tables[i] = f
      BY <2>1, <2>5, ContentFacts
    <3>2. f \in Held(s.tables)
      BY <2>2, <3>1 DEF Held, Spaces
    <3>3. QED
      BY <3>2 DEF DestroyAddressSpace
  <2>6. CASE \E v \in Page : x = <<"page", v>>
    <3>1. PICK v \in Page : s.pages[v] = f
      BY <2>1, <2>6, ContentFacts
    <3>2. f \in Held(s.pages)
      BY <2>2, <3>1 DEF Held, Spaces
    <3>3. QED
      BY <2>2, <3>2 DEF DestroyAddressSpace
  <2>7. QED
    BY <2>3, <2>4, <2>5, <2>6, SlotFacts
<1>3. QED
  BY <1>1, <1>2

(* exec gives up: everything that it had taken is clear again.             *)
LEMMA ExecErrorKeeps ==
    ASSUME MemInv, EnoughFrames, SegmentsApart, NEW image \in Images \cup {NotElf},
           ExecError(image), NEW f \in Ram, Accounted(Contents, free, f)
    PROVE  Accounted(Contents', free', f)
<1> DEFINE s == WithUserStack(image)
<1>1. free \subseteq Managed
  BY DEF MemInv, Typed
<1>2. s \in Spaces
  BY <1>1, UserStackFresh DEF Fresh, Good
<1>3. s.kstack = NoFrame /\ \A g \in free \cap Ram : Has(s, g)
  BY <1>1, UserStackKeeps
<1>4. free' = IF s.dir = NoFrame THEN free ELSE DestroyAddressSpace(s)
  BY DEF ExecError
<1> HIDE DEF s
<1>5. Contents' = Contents
  BY DEF ExecError, Contents, Space, Content
<1>6. f # NoFrame
  BY FrameFacts
<1>7. f \in free => f \in free'
  BY <1>2, <1>3, <1>4, <1>6, HeldIsDestroyed
<1>8. QED
  BY <1>5, <1>7 DEF Accounted

(* sbrk and mapDevice: what they lose is what the running process loses.   *)
LEMMA StoreKeeps ==
    ASSUME MemInv, UserRunning, NEW r, SameHead(Space(current), r), Store(r), NEW L,
           Keeps(Space(current), r, L), NEW f \in Ram \ L, Accounted(Contents, free, f)
    PROVE  Accounted(Contents', free', f)
<1> DEFINE s == Space(current)
<1>1. current \in Pid
  BY DEF MemInv, Typed, UserRunning
<1>2. /\ free' = r.free /\ tables' = [tables EXCEPT ![current] = r.tables]
      /\ pages' = [pages EXCEPT ![current] = r.pages] /\ UNCHANGED <<pd, kstack>>
  BY DEF Store
<1>3. ASSUME NEW x \in Slot PROVE Contents'[current][x] = Content(r, x)
  <2>1. r.dir = pd[current] /\ r.kstack = kstack[current]
    BY SpaceParts DEF SameHead
  <2>2. /\ r.dir = pd'[current] /\ r.kstack = kstack'[current]
        /\ r.tables = tables'[current] /\ r.pages = pages'[current]
    BY <1>1, <1>2, <2>1 DEF MemInv, Typed
  <2>3. QED
    BY <1>1, <2>2, ContentsNext
<1>4. ASSUME NEW p \in Pid, p # current, NEW x \in Slot PROVE Contents'[p][x] = Contents[p][x]
  BY <1>1, <1>2, <1>4, ContentsSame DEF MemInv, Typed
<1>5. CASE Has(s, f)
  <2>1. Has(r, f)
    BY <1>5 DEF Keeps
  <2>2. QED
    BY <1>1, <1>2, <1>3, <2>1 DEF Has, Accounted
<1>6. CASE ~Has(s, f)
  <2>1. f \notin free
    BY <1>6, SpaceParts DEF Has
  <2>2. PICK p \in Pid, x \in Slot : Contents[p][x] = f
    BY <2>1 DEF Accounted
  <2>3. p # current
    BY <1>1, <1>6, <2>2, ContentsNow DEF Has
  <2>4. QED
    BY <1>4, <2>2, <2>3 DEF Accounted
<1>7. QED
  BY <1>5, <1>6

(* sbrk maps pages above the break: what was there is stranded.            *)
LEMMA SbrkKeeps ==
    ASSUME MemInv, EnoughFrames, NEW n \in Growth, Sbrk(n),
           NEW f \in Ram \ Stranded, Accounted(Contents, free, f)
    PROVE  Accounted(Contents', free', f)
<1> DEFINE old == heapBreak[current]
           vs == HeapPages(old, n)
           s == Space(current)
           r == AddPages(s, vs)
<1>1. current \in Pid /\ UserRunning
  BY DEF MemInv, Typed, Sbrk, UserRunning
<1>2. old \in Page /\ old + n <= StackPage
  BY <1>1 DEF MemInv, Typed, Sbrk, BelowStack
<1>3. n \in Nat /\ StackPage \in Nat
  BY MemoryAssumption
<1>4. Store(r)
  BY DEF Sbrk
<1>5. vs \in Seq(Page) /\ Len(vs) = n /\ \A i \in 1 .. n : vs[i] = old + i - 1
  <2>1. \A i \in 1 .. n : old + i - 1 \in Page
    BY <1>2, <1>3 DEF Page
  <2>2. vs \in [1 .. n -> Page]
    BY <2>1 DEF HeapPages
  <2>3. QED
    BY <1>3, <2>2 DEF HeapPages
<1>6. Good(s) /\ s.free = free /\ s.ok /\ s.pages = pages[current]
  BY <1>1, OwnSpaceGood DEF Space
<1> HIDE DEF vs, s
<1>7. Spare(s, 0 + Len(vs))
  <2>1. IsFiniteSet(free)
    <3>1. free \subseteq Frame
      BY FrameFacts DEF MemInv, Typed
    <3>2. QED
      BY <3>1, MemoryAssumption, FS_Subset
  <2>2. Cardinality(free) \in Nat
    BY <2>1, FS_CardinalityType
  <2>3. Cardinality(Page) = StackPage + 1
    BY <1>3, FS_Interval DEF Page
  <2>4. /\ Cardinality(Missing(s)) \in Nat /\ Cardinality(Table) \in Nat
        /\ Cardinality(Missing(s)) <= Cardinality(Table)
    BY MissingIsFinite
  <2>5. Cardinality(free) >= 2 + (StackPage + 1) + Cardinality(Table)
    BY <2>3 DEF EnoughFrames
  <2>6. old \in Nat
    BY <1>2 DEF Page
  <2> HIDE DEF old
  <2>7. n <= StackPage
    BY <1>2, <1>3, <2>6
  <2>8. Cardinality(free) >= (0 + n) + Cardinality(Missing(s))
    BY <1>3, <2>2, <2>4, <2>5, <2>7
  <2>9. QED
    BY <1>5, <1>6, <2>1, <2>8 DEF Spare
<1>8. Apart(vs)
  <2>1. old \in Int
    BY <1>2 DEF Page
  <2>2. QED
    BY <1>3, <1>5, <2>1 DEF Apart
<1>9. \A i \in 1 .. Len(vs) : s.pages[vs[i]] \in Stranded
  <2> SUFFICES ASSUME NEW i \in 1 .. n PROVE pages[current][vs[i]] \in Stranded
    BY <1>5, <1>6
  <2>1. old \in Nat
    BY <1>2 DEF Page
  <2>2. vs[i] \in old .. StackPage - 1 /\ vs[i] \in Page
    BY <1>2, <1>3, <1>5, <2>1 DEF Page
  <2> DEFINE y == <<current, vs[i]>>
  <2>3. y \in Pid \X Page /\ y[1] = current /\ y[2] = vs[i]
    BY <1>1, <2>2
  <2> HIDE DEF y
  <2>4. y \in {z \in Pid \X Page : z[2] \in heapBreak[z[1]] .. StackPage - 1}
    BY <2>2, <2>3
  <2>5. QED
    BY <2>3, <2>4 DEF Stranded
<1> HIDE DEF old
<1>10. Keeps(s, r, Stranded)
  BY <1>5, <1>6, <1>7, <1>8, <1>9, AddPagesKeeps
<1>11. SameHead(s, r)
  BY <1>5, <1>6, AddPagesGood
<1> HIDE DEF r
<1>12. QED
  BY <1>1, <1>4, <1>10, <1>11, StoreKeeps DEF s

(* A program maps device memory over a page that holds memory of its own.  *)
RemapsMemory ==
    \E m \in DeviceMaps :
        /\ MapDevice(m[1], m[2], m[3])
        /\ \E v \in m[1] .. m[1] + m[3] - 1 : pages[current][v] \in Ram

LEMMA MapDeviceKeeps ==
    ASSUME MemInv, NEW m \in DeviceMaps, MapDevice(m[1], m[2], m[3]), ~RemapsMemory,
           NEW f \in Ram, Accounted(Contents, free, f)
    PROVE  Accounted(Contents', free', f)
<1> DEFINE v == m[1]
           d == m[2]
           k == m[3]
           s == Space(current)
           r == MapFrames(s, v, d, k)
<1>1. m \in Page \X Nat \X (Nat \ {0})
  BY MemoryAssumption
<1>2. v \in Nat /\ d \in Nat /\ k \in Nat
  BY <1>1 DEF Page
<1>3. d .. d + k - 1 \subseteq DeviceFrames
  BY DEF DeviceFrames
<1>4. current \in Pid /\ UserRunning /\ v + k <= StackPage + 1
  BY DEF MemInv, Typed, MapDevice, UserRunning
<1>5. Store(r)
  BY DEF MapDevice
<1>6. Good(s) /\ s.pages = pages[current]
  BY <1>4, OwnSpaceGood DEF Space
<1>7. \A w \in v .. v + k - 1 : s.pages[w] \notin Ram
  BY <1>6 DEF RemapsMemory
<1> HIDE DEF v, d, k, s
<1>8. Keeps(s, r, {})
  BY <1>2, <1>3, <1>4, <1>6, <1>7, MapFramesKeeps
<1>9. SameHead(s, r)
  BY <1>2, <1>3, <1>4, <1>6, MapFramesGood
<1> HIDE DEF r
<1>10. QED
  BY <1>4, <1>5, <1>8, <1>9, StoreKeeps DEF s

(* exit: all that the process had is clear.                                *)
LEMMA ExitKeeps ==
    ASSUME MemInv, NEW next, Exit(next), NEW f \in Ram, Accounted(Contents, free, f)
    PROVE  Accounted(Contents', free', f)
<1> DEFINE s == Space(current)
<1>1. current \in Pid
  BY DEF MemInv, Typed, Exit, UserRunning
<1>2. PICK t, g : /\ free' = DestroyAddressSpace(s) \cup {kstack[current]}
                  /\ pd' = [pd EXCEPT ![current] = NoFrame]
                  /\ kstack' = [kstack EXCEPT ![current] = NoFrame]
                  /\ tables' = [tables EXCEPT ![current] = t]
                  /\ pages' = [pages EXCEPT ![current] = g]
  BY DEF Exit
<1>3. s \in Spaces /\ s.kstack = kstack[current] /\ s.free = free
  BY <1>1, OwnSpaceGood, SpaceParts DEF Good
<1>4. ASSUME NEW p \in Pid, p # current, NEW x \in Slot PROVE Contents'[p][x] = Contents[p][x]
  BY <1>1, <1>2, <1>4, ContentsSame DEF MemInv, Typed
<1>5. ASSUME NEW x \in Slot PROVE Contents[current][x] = Content(s, x)
  BY <1>1, ContentsNow
<1> HIDE DEF s
<1>6. CASE Has(s, f)
  BY <1>2, <1>3, <1>6, HeldIsDestroyed DEF Accounted
<1>7. CASE ~Has(s, f)
  <2>1. PICK p \in Pid, x \in Slot : Contents[p][x] = f
    BY <1>3, <1>7 DEF Accounted, Has
  <2>2. p # current
    BY <1>5, <1>7, <2>1 DEF Has
  <2>3. QED
    BY <1>4, <2>1, <2>2 DEF Accounted
<1>8. QED
  BY <1>6, <1>7

(* CallsDoNotLeak, for every amount of memory, if the segments of an       *)
(* executable share no page and no program maps a device over memory of    *)
(* its own.  Both are necessary: elf.cpp:90 and mapDevice map a page again *)
(* without a look at what it had, and nothing knows its frame any more.    *)
THEOREM CallsAreLeakFree ==
    ASSUME SegmentsApart
    PROVE  Spec /\ [][~RemapsMemory]_vars => CallsDoNotLeak
<1>1. ASSUME MemInv, Unborn, [Next]_vars, [~RemapsMemory]_vars
      PROVE  [~Booting /\ EnoughFrames => Leaked' \subseteq Leaked \cup Stranded]_vars
  <2> SUFFICES ASSUME Next, ~RemapsMemory, ~Booting, EnoughFrames,
                      NEW f \in Leaked', f \notin Leaked, f \notin Stranded
               PROVE  FALSE
    BY <1>1
  <2>1. f \in Ram
    BY DEF Leaked
  <2>2. Accounted(Contents, free, f)
    BY <2>1, NotLost
  <2>3. Accounted(Contents', free', f)
    <3>1. ASSUME NEW image \in Images, Exec(image) PROVE Accounted(Contents', free', f)
      BY <1>1, <2>1, <2>2, <3>1, ExecKeeps DEF Exec
    <3>2. ASSUME NEW image \in Images \cup {NotElf}, ExecError(image) PROVE Accounted(Contents', free', f)
      BY <1>1, <2>1, <2>2, <3>2, ExecErrorKeeps
    <3>3. ASSUME NEW n \in Growth, Sbrk(n) PROVE Accounted(Contents', free', f)
      BY <1>1, <2>1, <2>2, <3>3, SbrkKeeps
    <3>4. ASSUME NEW m \in DeviceMaps, MapDevice(m[1], m[2], m[3]) PROVE Accounted(Contents', free', f)
      BY <1>1, <2>1, <2>2, <3>4, MapDeviceKeeps
    <3>5. ASSUME NEW next, Exit(next) PROVE Accounted(Contents', free', f)
      BY <1>1, <2>1, <2>2, <3>5, ExitKeeps
    <3>6. ASSUME NEW next, Switch(next) PROVE Accounted(Contents', free', f)
      <4>1. Contents' = Contents /\ free' = free
        BY <3>6 DEF Switch, Contents, Space, Content
      <4>2. QED
        BY <2>2, <4>1
    <3>7. QED
      BY <3>1, <3>2, <3>3, <3>4, <3>5, <3>6 DEF Next, Calls, BootModule, BootSkip
  <2>4. QED
    BY <2>3, NotLostNext
<1>2. Init => Unborn
  BY UnbornInit
<1>3. MemInv /\ Unborn /\ [Next]_vars => Unborn'
  BY UnbornStep
<1>4. QED
  BY <1>1, <1>2, <1>3, MemoryInvariance, PTL DEF Spec, CallsDoNotLeak

=============================================================================
