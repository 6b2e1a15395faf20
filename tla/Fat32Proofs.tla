---------------------------- MODULE Fat32Proofs ----------------------------
(***************************************************************************)
(* What the commands do to a FAT32 volume, of any size: they cross-link no *)
(* chains, free no cluster that is in use, leave no file whose chain is    *)
(* shorter than its size, lose clusters only when the volume is full, and  *)
(* implement the tree of files of FileTree.                                *)
(*                                                                         *)
(* The structure of a volume (Struct) is a set of disjoint chains, each    *)
(* owned by one entry; every operation is a Change of one entry and of the *)
(* chain that it owns.  A change is an edit of the tree (Edit, Rework):    *)
(* paths are looked up from the root, and lead elsewhere afterwards only   *)
(* where the changed entry is.                                             *)
(***************************************************************************)
EXTENDS Fat32, LoopTheorems, FiniteSetTheorems

Fats == [Clusters -> 0 .. EOC]
Heads == 0 .. EOC

-----------------------------------------------------------------------------
(* Chains.                                                                 *)

LEMMA Sizes ==
    /\ MaxCluster \in Nat /\ MaxCluster >= 2 /\ EOC \in Nat /\ EOC = MaxCluster + 1
    /\ Clusters \subseteq 2 .. MaxCluster /\ 2 .. MaxCluster \subseteq Clusters
    /\ Clusters \subseteq Heads /\ 0 \notin Clusters /\ EOC \notin Clusters
    /\ Root \in Clusters /\ FREE = 0 /\ EOC # 0 /\ EOC \in Heads /\ 0 \in Heads
<1>1. MaxCluster \in Nat /\ MaxCluster >= 2
  BY Fat32Assumption, Zenon
<1>2. QED
  BY <1>1 DEF Clusters, EOC, Heads, Root, FREE

(* w[n][c] holds the first n clusters from c on. *)
IsWalk(s, w) ==
    /\ \A c \in Heads : w[0][c] = <<>>
    /\ \A n \in 0 .. MaxCluster : \A c \in Heads \ Clusters : w[n][c] = <<>>
    /\ \A n \in 1 .. MaxCluster : \A c \in Clusters :
          w[n][c] = <<c>> \o w[n - 1][s.fat[c]]
    /\ \A c \in Heads : Chain(s, c) = w[MaxCluster][c]

(* The recursion of Chain is well defined: a FAT names clusters or the end *)
(* of a chain.                                                             *)
LEMMA ChainIsWalk ==
    ASSUME NEW s, s.fat \in Fats
    PROVE  \E w \in [0 .. MaxCluster -> [Heads -> Seq(Clusters)]] : IsWalk(s, w)
<1> DEFINE X == [Heads -> Seq(Clusters)]
           none == [c \in Heads |-> <<>>]
           step == [x \in X \X (1 .. MaxCluster) |->
                       [c \in Heads |-> IF c \notin Clusters THEN <<>>
                                        ELSE <<c>> \o x[1][FatGet(s, c)]]]
           F(w) == [n \in 0 .. MaxCluster |->
                       [c \in 0 .. EOC |->
                          IF c \notin Clusters \/ n = 0 THEN <<>>
                          ELSE <<c>> \o w[n - 1][FatGet(s, c)]]]
           W == CHOOSE w : w = F(w)
<1>1. \A c \in Clusters : FatGet(s, c) = s.fat[c] /\ FatGet(s, c) \in Heads
  BY DEF FatGet, Fats, Heads
<1>2. none \in X /\ MaxCluster \in Nat
  BY Sizes
<1>3. step \in [X \X (1 .. MaxCluster) -> X]
  <2>1. ASSUME NEW x \in X \X (1 .. MaxCluster), NEW c \in Heads
        PROVE  (IF c \notin Clusters THEN <<>> ELSE <<c>> \o x[1][FatGet(s, c)]) \in Seq(Clusters)
    <3>1. CASE c \notin Clusters
      BY <3>1
    <3>2. CASE c \in Clusters
      <4>1. x[1][FatGet(s, c)] \in Seq(Clusters)
        BY <1>1, <3>2
      <4> HIDE DEF X
      <4>2. <<c>> \in Seq(Clusters)
        BY <3>2
      <4>3. QED
        BY <3>2, <4>1, <4>2
    <3>3. QED
      BY <3>1, <3>2
  <2>2. QED
    BY <2>1
<1>4. PICK g : IsTrace(g, MaxCluster, X, none, step)
  <2> HIDE DEF X, none, step
  <2>1. QED
    BY <1>2, <1>3, LoopTrace
<1>5. /\ g \in [0 .. MaxCluster -> X] /\ g[0] = none
      /\ \A i \in 1 .. MaxCluster : g[i] = step[<<g[i - 1], i>>]
  BY <1>4 DEF IsTrace
<1>6. \A n \in 1 .. MaxCluster :
        g[n] = [c \in Heads |-> IF c \notin Clusters THEN <<>>
                                ELSE <<c>> \o g[n - 1][FatGet(s, c)]]
  <2> TAKE n \in 1 .. MaxCluster
  <2>1. <<g[n - 1], n>> \in X \X (1 .. MaxCluster)
    <3>1. n - 1 \in 0 .. MaxCluster
      BY <1>2
    <3> HIDE DEF X
    <3>2. QED
      BY <1>5, <3>1
  <2>2. g[n] = step[<<g[n - 1], n>>]
    BY <1>5
  <2> HIDE DEF X
  <2>3. QED
    BY <2>1, <2>2
<1>7. g = F(g)
  <2>1. \A n \in 0 .. MaxCluster : g[n] = F(g)[n]
    <3> TAKE n \in 0 .. MaxCluster
    <3>1. CASE n = 0
      BY <1>2, <1>5, <3>1 DEF Heads
    <3>2. CASE n # 0
      <4>1. n \in 1 .. MaxCluster
        BY <3>2
      <4>2. QED
        BY <1>6, <3>2, <4>1 DEF Heads
    <3>3. QED
      BY <3>1, <3>2
  <2>2. g = [n \in 0 .. MaxCluster |-> g[n]]
    BY <1>5
  <2>3. QED
    BY <2>1, <2>2
<1>8. W = F(W)
  BY <1>7
<1>9. \A c : Chain(s, c) = W[MaxCluster][c]
  BY DEF Chain
<1> HIDE DEF W
<1>10. \A n \in 0 .. MaxCluster : W[n] =
          [c \in Heads |-> IF c \notin Clusters \/ n = 0 THEN <<>>
                           ELSE <<c>> \o W[n - 1][FatGet(s, c)]]
  BY <1>8 DEF Heads
<1> DEFINE S == {n \in 0 .. MaxCluster : W[n] \in X}
<1>11. 0 .. MaxCluster \subseteq S
  <2>1. 0 \in S
    <3>1. 0 \in 0 .. MaxCluster
      BY <1>2
    <3>2. W[0] = [c \in Heads |-> <<>>]
      BY <1>10, <3>1
    <3>3. QED
      BY <1>2, <3>1, <3>2
  <2>2. ASSUME NEW n \in 1 .. MaxCluster, n - 1 \in S PROVE n \in S
    <3>1. W[n - 1] \in X /\ n # 0 /\ n \in 0 .. MaxCluster
      BY <2>2
    <3>2. ASSUME NEW c \in Heads
          PROVE  (IF c \notin Clusters THEN <<>> ELSE <<c>> \o W[n - 1][FatGet(s, c)]) \in Seq(Clusters)
      <4>1. CASE c \notin Clusters
        BY <4>1
      <4>2. CASE c \in Clusters
        <5>1. W[n - 1][FatGet(s, c)] \in Seq(Clusters)
          BY <1>1, <3>1, <4>2
        <5>2. <<c>> \in Seq(Clusters)
          BY <4>2
        <5>3. QED
          BY <4>2, <5>1, <5>2
      <4>3. QED
        BY <4>1, <4>2
    <3>3. W[n] = [c \in Heads |-> IF c \notin Clusters THEN <<>>
                                  ELSE <<c>> \o W[n - 1][FatGet(s, c)]]
      BY <1>10, <3>1
    <3>4. W[n] \in X
      BY <3>2, <3>3
    <3>5. QED
      BY <3>1, <3>4
  <2> HIDE DEF S
  <2>3. QED
    BY <1>2, <2>1, <2>2, RoundInduction
<1>12. W \in [0 .. MaxCluster -> X]
  BY <1>8, <1>11
<1>13. IsWalk(s, W)
  <2>1. \A c \in Heads : W[0][c] = <<>>
    <3>1. 0 \in 0 .. MaxCluster
      BY <1>2
    <3>2. W[0] = [c \in Heads |-> <<>>]
      BY <1>10, <3>1
    <3>3. QED
      BY <3>2
  <2>2. \A n \in 0 .. MaxCluster : \A c \in Heads \ Clusters : W[n][c] = <<>>
    BY <1>10
  <2>3. \A n \in 1 .. MaxCluster : \A c \in Clusters : W[n][c] = <<c>> \o W[n - 1][s.fat[c]]
    <3> TAKE n \in 1 .. MaxCluster
    <3> TAKE c \in Clusters
    <3>1. n \in 0 .. MaxCluster /\ n # 0 /\ c \in Heads
      BY Sizes
    <3>2. W[n][c] = <<c>> \o W[n - 1][FatGet(s, c)]
      BY <1>10, <3>1
    <3>3. QED
      BY <1>1, <3>2
  <2>4. QED
    BY <1>9, <2>1, <2>2, <2>3 DEF IsWalk
<1>14. QED
  BY <1>12, <1>13

(* q is a chain of the volume: its clusters differ, and each leads to the  *)
(* next one, the last one to the end.                                      *)
Linked(s, q) ==
    /\ q \in Seq(Clusters) /\ q # <<>>
    /\ \A i, j \in 1 .. Len(q) : q[i] = q[j] => i = j
    /\ \A i \in 1 .. Len(q) - 1 : s.fat[q[i]] = q[i + 1]
    /\ s.fat[q[Len(q)]] = EOC

(* A chain has no more clusters than the volume. *)
LEMMA ChainFits ==
    ASSUME NEW q \in Seq(Clusters), \A i, j \in 1 .. Len(q) : q[i] = q[j] => i = j
    PROVE  Len(q) <= MaxCluster
<1>1. q \in Injection(1 .. Len(q), Clusters)
  BY DEF Injection, IsInjective
<1>2. IsFiniteSet(Clusters) /\ Cardinality(Clusters) <= MaxCluster
  BY Sizes, FS_Interval DEF Clusters
<1>3. Cardinality(1 .. Len(q)) <= Cardinality(Clusters)
  BY <1>1, <1>2, FS_Injection
<1>4. Cardinality(1 .. Len(q)) = Len(q) /\ Len(q) \in Nat
  BY FS_Interval
<1>5. Cardinality(Clusters) \in Nat
  BY <1>2, FS_CardinalityType
<1>6. QED
  BY <1>2, <1>3, <1>4, <1>5, Sizes

LEMMA TailLinked ==
    ASSUME NEW s, NEW q, Linked(s, q), NEW k \in 1 .. Len(q)
    PROVE  Linked(s, SubSeq(q, k, Len(q)))
<1> DEFINE t == SubSeq(q, k, Len(q))
<1>1. /\ t \in Seq(Clusters) /\ Len(t) = Len(q) - k + 1 /\ Len(q) \in Nat
      /\ \A i \in 1 .. Len(t) : t[i] = q[k + i - 1]
  BY DEF Linked
<1> HIDE DEF t
<1>2. t # <<>>
  BY <1>1
<1>3. \A i, j \in 1 .. Len(t) : t[i] = t[j] => i = j
  BY <1>1 DEF Linked
<1>4. \A i \in 1 .. Len(t) - 1 : s.fat[t[i]] = t[i + 1]
  <2> TAKE i \in 1 .. Len(t) - 1
  <2>1. i \in 1 .. Len(t) /\ i + 1 \in 1 .. Len(t) /\ k + i - 1 \in 1 .. Len(q) - 1
    BY <1>1
  <2>2. t[i] = q[k + i - 1] /\ t[i + 1] = q[(k + i - 1) + 1]
    BY <1>1, <2>1
  <2>3. QED
    BY <2>1, <2>2 DEF Linked
<1>5. t[Len(t)] = q[Len(q)]
  BY <1>1
<1>6. QED
  BY <1>1, <1>2, <1>3, <1>4, <1>5 DEF Linked, t

(* Following the FAT from the head of a chain visits the chain. *)
LEMMA ChainIs ==
    ASSUME NEW s, s.fat \in Fats, NEW q, Linked(s, q)
    PROVE  Chain(s, q[1]) = q
<1>0. Len(q) \in Nat /\ q \in Seq(Clusters)
  BY DEF Linked
<1>00. PICK N \in Nat : N = Len(q)
  BY <1>0
<1>1. /\ N >= 1 /\ N <= MaxCluster
      /\ \A i \in 1 .. N : q[i] \in Clusters
  BY <1>0, <1>00, ChainFits DEF Linked
<1>10. MaxCluster \in Nat
  BY Sizes
<1>11. /\ \A i \in 1 .. N - 1 : s.fat[q[i]] = q[i + 1]
       /\ s.fat[q[N]] = EOC
  BY <1>00 DEF Linked
<1>2. PICK w \in [0 .. MaxCluster -> [Heads -> Seq(Clusters)]] : IsWalk(s, w)
  BY ChainIsWalk
<1> DEFINE S == {m \in 0 .. N - 1 : \A n \in 0 .. MaxCluster :
                    n > m => w[n][q[N - m]] = SubSeq(q, N - m, N)}
<1>3. 0 \in S
  <2>1. ASSUME NEW n \in 0 .. MaxCluster, n > 0
        PROVE  w[n][q[N]] = SubSeq(q, N, N)
    <3>1. n \in 1 .. MaxCluster /\ n - 1 \in 0 .. MaxCluster /\ q[N] \in Clusters
      BY <1>1, <1>10, <2>1
    <3>2. w[n][q[N]] = <<q[N]>> \o w[n - 1][EOC]
      BY <1>2, <1>11, <3>1 DEF IsWalk
    <3>3. w[n - 1][EOC] = <<>>
      BY <1>2, <3>1, Sizes DEF IsWalk
    <3>4. w[n][q[N]] = <<q[N]>>
      BY <3>1, <3>2, <3>3
    <3>5. SubSeq(q, N, N) = <<q[N]>>
      <4>1. SubSeq(q, N, N) \in Seq(Clusters) /\ Len(SubSeq(q, N, N)) = 1
        BY <1>0, <1>00, <1>1
      <4>2. SubSeq(q, N, N)[1] = q[N]
        BY <1>0, <1>00, <1>1
      <4>3. \A t \in Seq(Clusters) : Len(t) = 1 => t = <<t[1]>>
        OBVIOUS
      <4> DEFINE t == SubSeq(q, N, N)
      <4> HIDE DEF t
      <4>4. t = <<t[1]>>
        BY <4>1, <4>3 DEF t
      <4>5. QED
        BY <4>2, <4>4 DEF t
    <3>6. QED
      BY <3>4, <3>5
  <2>2. QED
    BY <1>1, <2>1
<1>4. ASSUME NEW m \in 1 .. N - 1, m - 1 \in S PROVE m \in S
  <2> DEFINE k == N - m
  <2>1. k \in 1 .. N - 1 /\ N - (m - 1) = k + 1 /\ k \in 1 .. N
    BY <1>1
  <2>2. ASSUME NEW n \in 0 .. MaxCluster, n > m
        PROVE  w[n][q[k]] = SubSeq(q, k, N)
    <3>1. /\ n \in 1 .. MaxCluster /\ n - 1 \in 0 .. MaxCluster /\ n - 1 > m - 1
          /\ q[k] \in Clusters /\ k \in 1 .. N
      BY <1>1, <1>10, <2>1, <2>2
    <3>2. w[n][q[k]] = <<q[k]>> \o w[n - 1][q[k + 1]]
      <4>1. s.fat[q[k]] = q[k + 1]
        BY <1>11, <2>1
      <4> HIDE DEF k
      <4>2. w[n][q[k]] = <<q[k]>> \o w[n - 1][s.fat[q[k]]]
        BY <1>2, <3>1 DEF IsWalk
      <4>3. QED
        BY <4>1, <4>2
    <3>3. w[n - 1][q[k + 1]] = SubSeq(q, k + 1, N)
      BY <1>4, <2>1, <3>1
    <3>4. SubSeq(q, k, N) = <<q[k]>> \o SubSeq(q, k + 1, N)
      <4> HIDE DEF k
      <4>1. QED
        BY <1>0, <1>00, <2>1
    <3>5. QED
      BY <3>2, <3>3, <3>4
  <2>3. QED
    BY <2>2
<1>5. N - 1 \in S
  <2>1. N - 1 \in Nat
    BY <1>1
  <2> HIDE DEF S
  <2>2. 0 .. N - 1 \subseteq S
    BY <1>3, <1>4, <2>1, RoundInduction
  <2>3. QED
    BY <2>1, <2>2
<1>6. w[MaxCluster][q[1]] = SubSeq(q, 1, N)
  <2>1. MaxCluster \in 0 .. MaxCluster /\ MaxCluster > N - 1 /\ N - (N - 1) = 1
    BY <1>1, <1>10
  <2>2. QED
    BY <1>5, <2>1
<1>7. SubSeq(q, 1, N) = q
  BY <1>0, <1>00
<1>8. q[1] \in Heads
  <2>1. q[1] \in Clusters
    BY <1>1
  <2>2. QED
    BY <2>1, Sizes
<1>9. QED
  BY <1>2, <1>6, <1>7, <1>8 DEF IsWalk

(* What is no cluster heads no chain. *)
LEMMA NoChain ==
    ASSUME NEW s, s.fat \in Fats, NEW c \in Heads \ Clusters
    PROVE  Chain(s, c) = <<>>
<1>1. PICK w \in [0 .. MaxCluster -> [Heads -> Seq(Clusters)]] : IsWalk(s, w)
  BY ChainIsWalk
<1>2. MaxCluster \in 0 .. MaxCluster
  BY Sizes
<1>3. QED
  BY <1>1, <1>2 DEF IsWalk

LEMMA RangeIs ==
    ASSUME NEW q \in Seq(Clusters)
    PROVE  /\ Range(q) = {q[i] : i \in 1 .. Len(q)} /\ Range(q) \subseteq Clusters
           /\ \A i \in 1 .. Len(q) : q[i] \in Range(q)
BY DEF Range

-----------------------------------------------------------------------------
(* The structure of a volume.  ch[h] is the chain with head h, for the     *)
(* heads that the root and the entries of directories name; D is the set   *)
(* of heads of directories.                                                *)

Slot == Clusters \X (1 .. EntriesPerCluster)
SlotTable == [1 .. EntriesPerCluster -> Entries]

Shape(s) ==
    /\ s = [fat |-> s.fat, data |-> s.data]
    /\ s.fat \in Fats
    /\ s.data = [c \in Clusters |-> s.data[c]]

(* The name of a slot that is free. *)
NoName == ""

(* The slots of directories, and those with an entry of a file or of a     *)
(* directory: "." and ".." are none.                                       *)
DirSlots(ch, D) == {x \in Slot : \E d \in D : x[1] \in Range(ch[d])}
Real(s, x) == At(s, x).name \in Names
Live(s, ch, D) == {x \in DirSlots(ch, D) : Real(s, x)}

Layout(s, ch) ==
    /\ DOMAIN ch \subseteq Clusters
    /\ \A h \in DOMAIN ch : Linked(s, ch[h]) /\ ch[h][1] = h
    /\ \A g, h \in DOMAIN ch : g # h => Range(ch[g]) \cap Range(ch[h]) = {}

Dirs(s, ch, D) ==
    /\ D \subseteq DOMAIN ch /\ Root \in D
    /\ \A d \in D : \A c \in Range(ch[d]) : s.data[c] \in SlotTable

(* What an entry names: a directory, or a file whose chain backs its size. *)
Backed(ch, D, e) ==
    /\ e.dir => e.start \in D \ {Root}
    /\ ~e.dir => \/ e.start = 0 /\ e.size = 0
                 \/ /\ e.start \in (DOMAIN ch) \ D
                    /\ e.size <= BytesPerCluster * Len(ch[e.start])

AllBacked(s, ch, D) == \A x \in Live(s, ch, D) : Backed(ch, D, At(s, x))

(* No chain has two entries. *)
OwnersDiffer(s, ch, D) ==
    \A x, y \in Live(s, ch, D) :
        At(s, x).start = At(s, y).start /\ At(s, x).start # 0 => x = y

(* x is the entry of directory h in its parent. *)
EntryIn(s, ch, D, h, x) ==
    /\ x \in Live(s, ch, D)
    /\ x[1] \in Range(ch[ParentOf(s, h)])
    /\ At(s, x).start = h

Parents(s, ch, D) ==
    \A h \in D \ {Root} :
        /\ s.data[h][1].name = "." /\ s.data[h][2].name = ".."
        /\ ParentOf(s, h) \in D
        /\ \E x : EntryIn(s, ch, D, h, x)

Struct(s, ch, D) ==
    /\ Shape(s) /\ Layout(s, ch) /\ Dirs(s, ch, D)
    /\ AllBacked(s, ch, D) /\ OwnersDiffer(s, ch, D) /\ Parents(s, ch, D)

-----------------------------------------------------------------------------
(* One entry changes, with the chain that it owns.                         *)

(* The head of the chain that the entry at x owns, 0 when it owns none. *)
Owned(s, x) == IF Real(s, x) THEN At(s, x).start ELSE 0

(* t has s's contents and links in some clusters. *)
Same(s, t, clusters) == \A c \in clusters : t.fat[c] = s.fat[c] /\ t.data[c] = s.data[c]

Start(q) == IF q = <<>> THEN 0 ELSE q[1]

(* The chain of head h is dropped and chain q, if it is one, comes in. *)
Moved(ch, h, q) ==
    [g \in ((DOMAIN ch) \ {h}) \cup (IF q = <<>> THEN {} ELSE {q[1]}) |->
        IF q # <<>> /\ g = q[1] THEN q ELSE ch[g]]

(* e goes to slot x as the owner of chain q: no entry, a file, or a new    *)
(* directory in d.  D2: the directories afterwards.                        *)
Gone(D, h, e, q, D2) == e.name = NoName /\ q = <<>> /\ D2 = D \ {h}
FileIn(D, h, e, q, D2) ==
    /\ e.name \in Names /\ ~e.dir /\ D2 = D \ {h}
    /\ e.start = Start(q) /\ e.size <= BytesPerCluster * Len(q)
DirIn(ch, D, t, h, x, e, q, D2) ==
    /\ e.name \in Names /\ e.dir /\ D2 = (D \ {h}) \cup {e.start}
    /\ q = <<e.start>> /\ e.start \in Clusters
    /\ \E d \in D \ {h} : x[1] \in Range(ch[d]) /\ t.data[e.start] = NewDirectory(e.start, d)
Fits(ch, D, t, h, x, e, q, D2) ==
    Gone(D, h, e, q, D2) \/ FileIn(D, h, e, q, D2) \/ DirIn(ch, D, t, h, x, e, q, D2)

(* The change: the entry at x, which owned the chain of h, becomes e, which *)
(* owns q.  An entry of a directory may go only when the directory is      *)
(* empty.  The other chains are as they were in t already.                 *)
Change(s, ch, D, x, h, t, q, e, D2) ==
    /\ Struct(s, ch, D)
    /\ x \in DirSlots(ch, D) /\ At(s, x).name \in Names \cup {NoName} /\ h = Owned(s, x)
    /\ h \in D => \A y \in Live(s, ch, D) : y[1] \notin Range(ch[h])
    /\ Shape(t) /\ \A g \in (DOMAIN ch) \ {h} : Same(s, t, Range(ch[g]))
    /\ q = <<>> \/ Linked(t, q)
    /\ \A g \in (DOMAIN ch) \ {h} : Range(q) \cap Range(ch[g]) = {}
    /\ e \in Entries /\ Fits(ch, D, t, h, x, e, q, D2)

LEMMA NamesAreReal ==
    /\ NoName \notin Names /\ "." \notin Names /\ ".." \notin Names
    /\ NoName # "." /\ NoName # ".."
<1>1. Names \cap {"", ".", ".."} = {}
  BY Fat32Assumption, Zenon
<1>2. NoName # "." /\ NoName # ".."
  BY Zenon DEF NoName
<1>3. QED
  BY <1>1, <1>2 DEF NoName

LEMMA TableSize == EntriesPerCluster \in Nat /\ EntriesPerCluster > 2
BY Fat32Assumption, Zenon

LEMMA NoClusters == Range(<<>>) = {} /\ Len(<<>>) = 0 /\ <<>> \in Seq(Clusters)
BY DEF Range

LEMMA NoEntryIs == NoEntry.name = NoName /\ NoEntry.dir = FALSE /\ NoEntry.start = 0 /\ NoEntry.size = 0
BY DEF NoEntry, NoName

LEMMA OneRange ==
    ASSUME NEW c \in Clusters
    PROVE  <<c>> \in Seq(Clusters) /\ Len(<<c>>) = 1 /\ <<c>> # <<>> /\ Range(<<c>>) = {c}
<1>1. <<c>> \in Seq(Clusters) /\ Len(<<c>>) = 1 /\ <<c>>[1] = c /\ <<c>> # <<>>
  OBVIOUS
<1>2. Range(<<c>>) = {<<c>>[i] : i \in 1 .. 1}
  BY <1>1, RangeIs
<1>3. QED
  BY <1>1, <1>2

LEMMA EntryTypes ==
    /\ NoEntry \in Entries /\ EmptySlots \in SlotTable
    /\ \A n \in Names \cup {".", ".."} : \A isDir \in BOOLEAN : \A c \in Clusters \cup {0} :
          DirEntry(n, isDir, c) \in Entries
<1>1. 0 \in 0 .. MaxCluster /\ Clusters \subseteq 0 .. MaxCluster
  BY Sizes
<1>2. QED
  BY <1>1 DEF NoEntry, Entries, EmptySlots, SlotTable, DirEntry

(* The first cluster of a new directory. *)
LEMMA NewDirectoryIs ==
    ASSUME NEW c \in Clusters, NEW p
    PROVE  /\ \A k \in 1 .. EntriesPerCluster : NewDirectory(c, p)[k].name \notin Names
           /\ NewDirectory(c, p)[1].name = "." /\ NewDirectory(c, p)[2].name = ".."
           /\ p = Root => NewDirectory(c, p)[2].start = 0
           /\ p # Root => NewDirectory(c, p)[2].start = p
           /\ p \in Clusters => NewDirectory(c, p) \in SlotTable
<1> DEFINE up == IF p = Root THEN 0 ELSE p
           n == NewDirectory(c, p)
<1>1. /\ 1 \in 1 .. EntriesPerCluster /\ 2 \in 1 .. EntriesPerCluster
      /\ EmptySlots = [i \in 1 .. EntriesPerCluster |-> NoEntry]
  BY TableSize DEF EmptySlots
<1>2. n = [i \in 1 .. EntriesPerCluster |->
              IF i = 2 THEN DirEntry("..", TRUE, up) ELSE IF i = 1 THEN DirEntry(".", TRUE, c) ELSE NoEntry]
  BY <1>1 DEF NewDirectory
<1> HIDE DEF n
<1>3. n[1] = DirEntry(".", TRUE, c) /\ n[2] = DirEntry("..", TRUE, up)
  BY <1>1, <1>2
<1>4. \A k \in 1 .. EntriesPerCluster : n[k].name \notin Names
  <2>1. /\ DirEntry("..", TRUE, up).name = ".." /\ DirEntry(".", TRUE, c).name = "."
    BY DEF DirEntry
  <2>2. QED
    BY <1>2, <2>1, NoEntryIs, NamesAreReal
<1>5. p \in Clusters => n \in SlotTable
  <2> HAVE p \in Clusters
  <2>1. DirEntry(".", TRUE, c) \in Entries /\ DirEntry("..", TRUE, up) \in Entries /\ NoEntry \in Entries
    BY EntryTypes
  <2>2. QED
    BY <1>2, <2>1 DEF SlotTable
<1>6. n[1].name = "." /\ n[2].name = ".." /\ n[2].start = up
  BY <1>3 DEF DirEntry
<1>7. QED
  BY <1>4, <1>5, <1>6 DEF n

LEMMA Bytes == BytesPerCluster \in Nat /\ BytesPerCluster > 0
<1>1. BytesPerCluster \in Nat \ {0}
  BY Fat32Assumption, Zenon
<1>2. QED
  BY <1>1

LEMMA NoBytes == BytesPerCluster * Len(<<>>) = 0
<1>1. \A b \in Nat : b * 0 = 0
  OBVIOUS
<1>2. BytesPerCluster * 0 = 0
  BY <1>1, Bytes
<1>3. QED
  BY <1>2, NoClusters

LEMMA LinkedSame ==
    ASSUME NEW s, NEW t, NEW q, Linked(s, q), \A c \in Range(q) : t.fat[c] = s.fat[c]
    PROVE  Linked(t, q)
<1>1. q \in Seq(Clusters) /\ Len(q) \in Nat /\ q # <<>>
  BY DEF Linked
<1>2. \A i \in 1 .. Len(q) : t.fat[q[i]] = s.fat[q[i]]
  BY <1>1, RangeIs
<1>3. Len(q) >= 1
  BY <1>1
<1>4. QED
  BY <1>1, <1>2, <1>3 DEF Linked

(* The volume after an entry was written. *)
LEMMA PutFacts ==
    ASSUME NEW t, Shape(t), NEW x \in Slot, NEW e \in Entries, t.data[x[1]] \in SlotTable
    PROVE  /\ Shape(PutEntry(t, x, e)) /\ PutEntry(t, x, e).fat = t.fat
           /\ \A c \in Clusters : c # x[1] => PutEntry(t, x, e).data[c] = t.data[c]
           /\ PutEntry(t, x, e).data[x[1]] \in SlotTable
           /\ \A k \in 1 .. EntriesPerCluster :
                 PutEntry(t, x, e).data[x[1]][k] = IF k = x[2] THEN e ELSE t.data[x[1]][k]
<1> DEFINE u == PutEntry(t, x, e)
           table == [t.data[x[1]] EXCEPT ![x[2]] = e]
<1>1. x[1] \in Clusters /\ x[2] \in 1 .. EntriesPerCluster
  BY DEF Slot
<1>2. u = [t EXCEPT !.data = [t.data EXCEPT ![x[1]] = table]]
  BY DEF PutEntry
<1>3. /\ table \in SlotTable
      /\ \A k \in 1 .. EntriesPerCluster : table[k] = IF k = x[2] THEN e ELSE t.data[x[1]][k]
  BY <1>1 DEF SlotTable
<1> HIDE DEF table
<1>4. u = [fat |-> t.fat, data |-> [t.data EXCEPT ![x[1]] = table]]
  BY <1>2 DEF Shape
<1> HIDE DEF u
<1>5. /\ u.fat = t.fat /\ u.data = [t.data EXCEPT ![x[1]] = table]
      /\ u = [fat |-> u.fat, data |-> u.data]
  BY <1>4
<1>6. /\ u.data = [c \in Clusters |-> IF c = x[1] THEN table ELSE t.data[c]]
  BY <1>5 DEF Shape
<1>7. Shape(u)
  BY <1>5, <1>6 DEF Shape
<1>8. QED
  BY <1>1, <1>3, <1>5, <1>6, <1>7 DEF u

LEMMA PutAt ==
    ASSUME NEW t, Shape(t), NEW x \in Slot, NEW e \in Entries, t.data[x[1]] \in SlotTable
    PROVE  \A y \in Slot : At(PutEntry(t, x, e), y) = IF y = x THEN e ELSE At(t, y)
<1> TAKE y \in Slot
<1>1. /\ x = <<x[1], x[2]>> /\ y = <<y[1], y[2]>>
      /\ y[1] \in Clusters /\ y[2] \in 1 .. EntriesPerCluster
  BY DEF Slot
<1>2. CASE y[1] = x[1]
  BY <1>1, <1>2, PutFacts DEF At
<1>3. CASE y[1] # x[1]
  BY <1>1, <1>3, PutFacts DEF At
<1>4. QED
  BY <1>2, <1>3

LEMMA HeadInRange ==
    ASSUME NEW s, NEW ch, Layout(s, ch), NEW h \in DOMAIN ch
    PROVE  /\ h \in Range(ch[h]) /\ Range(ch[h]) \subseteq Clusters
           /\ h \in Clusters /\ ch[h] # <<>> /\ ch[h] \in Seq(Clusters)
<1>1. ch[h] \in Seq(Clusters) /\ ch[h] # <<>> /\ ch[h][1] = h
  BY DEF Layout, Linked
<1>2. Len(ch[h]) \in Nat /\ Len(ch[h]) >= 1
  BY <1>1
<1>3. QED
  BY <1>1, <1>2, RangeIs DEF Layout

LEMMA StartInRange ==
    ASSUME NEW t, NEW q, Linked(t, q)
    PROVE  q[1] \in Range(q) /\ q[1] \in Clusters /\ Range(q) \subseteq Clusters /\ q # <<>>
<1>1. q \in Seq(Clusters) /\ q # <<>>
  BY DEF Linked
<1>2. Len(q) \in Nat /\ Len(q) >= 1
  BY <1>1
<1>3. QED
  BY <1>1, <1>2, RangeIs

(* What an entry of the volume owns. *)
LEMMA OwnedFacts ==
    ASSUME NEW s, NEW ch, NEW D, Struct(s, ch, D), NEW x \in DirSlots(ch, D)
    PROVE  /\ Owned(s, x) # Root
           /\ Owned(s, x) = 0 \/ Owned(s, x) \in DOMAIN ch
           /\ x \in Slot
<1>1. Root # 0
  BY Sizes
<1>2. CASE Real(s, x)
  <2>1. Backed(ch, D, At(s, x))
    BY <1>2 DEF Struct, AllBacked, Live
  <2>2. QED
    BY <1>1, <1>2, <2>1 DEF Backed, Owned, Struct, Dirs, DirSlots
<1>3. CASE ~Real(s, x)
  BY <1>1, <1>3 DEF Owned, DirSlots
<1>4. QED
  BY <1>2, <1>3

(* Where the change takes place. *)
LEMMA ChangePlace ==
    ASSUME NEW s, NEW ch, NEW D, NEW x, NEW h, NEW t, NEW q, NEW e, NEW D2,
           Change(s, ch, D, x, h, t, q, e, D2)
    PROVE  /\ x \in Slot /\ t.data[x[1]] \in SlotTable /\ x[1] \notin Range(q)
           /\ \E d \in D \ {h} : x[1] \in Range(ch[d])
<1>1. x \in Slot /\ \E d \in D : x[1] \in Range(ch[d])
  BY DEF Change, DirSlots
<1>2. PICK d \in D : x[1] \in Range(ch[d])
  BY <1>1
<1>3. d # h
  <2> SUFFICES ASSUME d = h PROVE FALSE
    OBVIOUS
  <2>1. h # 0
    <3>1. d \in DOMAIN ch
      BY DEF Change, Struct, Dirs
    <3>2. d \in Clusters
      BY <3>1 DEF Change, Struct, Layout
    <3>3. QED
      BY <3>2, Sizes
  <2>2. x \in Live(s, ch, D)
    BY <2>1 DEF Change, Owned, Live
  <2>3. QED
    BY <1>2, <2>2 DEF Change
<1>4. d \in (DOMAIN ch) \ {h}
  BY <1>3 DEF Change, Struct, Dirs
<1>5. t.data[x[1]] = s.data[x[1]] /\ x[1] \notin Range(q)
  BY <1>2, <1>4 DEF Change, Same
<1>6. s.data[x[1]] \in SlotTable
  BY <1>2 DEF Change, Struct, Dirs
<1>7. QED
  BY <1>1, <1>2, <1>3, <1>5, <1>6

(* The chains after the change. *)
Joined(ch, h, q, ch2) ==
    /\ q = <<>> => DOMAIN ch2 = (DOMAIN ch) \ {h}
    /\ q # <<>> => DOMAIN ch2 = ((DOMAIN ch) \ {h}) \cup {q[1]} /\ ch2[q[1]] = q
    /\ \A g \in (DOMAIN ch) \ {h} : ch2[g] = ch[g] /\ (q # <<>> => g # q[1])

LEMMA MovedFacts ==
    ASSUME NEW s, NEW ch, NEW D, NEW x, NEW h, NEW t, NEW q, NEW e, NEW D2,
           Change(s, ch, D, x, h, t, q, e, D2)
    PROVE  Joined(ch, h, q, Moved(ch, h, q))
<1>1. ASSUME NEW g \in (DOMAIN ch) \ {h}, q # <<>> PROVE g # q[1]
  <2>1. q[1] \in Range(q)
    BY <1>1, StartInRange DEF Change
  <2>2. g \in Range(ch[g])
    BY HeadInRange DEF Change, Struct
  <2>3. Range(q) \cap Range(ch[g]) = {}
    BY DEF Change
  <2>4. QED
    BY <2>1, <2>2, <2>3
<1>2. QED
  BY <1>1 DEF Moved, Joined

LEMMA ChangedLayout ==
    ASSUME NEW s, NEW ch, NEW D, NEW x, NEW h, NEW t, NEW q, NEW e, NEW D2,
           Change(s, ch, D, x, h, t, q, e, D2)
    PROVE  Layout(PutEntry(t, x, e), Moved(ch, h, q)) /\ Shape(PutEntry(t, x, e))
<1> DEFINE u == PutEntry(t, x, e)
           ch2 == Moved(ch, h, q)
           K == (DOMAIN ch) \ {h}
<1>0. x \in Slot /\ t.data[x[1]] \in SlotTable
  BY ChangePlace
<1>00. Shape(t) /\ e \in Entries
  BY DEF Change
<1>1. Shape(u) /\ u.fat = t.fat
  BY <1>0, <1>00, PutFacts
<1>2. /\ q = <<>> => DOMAIN ch2 = K
      /\ q # <<>> => DOMAIN ch2 = K \cup {q[1]} /\ ch2[q[1]] = q
      /\ \A g \in K : ch2[g] = ch[g]
  <2>1. Joined(ch, h, q, ch2)
    BY MovedFacts
  <2>2. QED
    BY <2>1 DEF Joined
<1>3. q # <<>> => q[1] \in Clusters /\ Linked(t, q)
  BY StartInRange DEF Change
<1>4. \A g \in K : Linked(t, ch[g]) /\ ch[g][1] = g
  <2> TAKE g \in K
  <2>1. Linked(s, ch[g]) /\ ch[g][1] = g
    BY DEF Change, Struct, Layout
  <2>2. \A c \in Range(ch[g]) : t.fat[c] = s.fat[c]
    BY DEF Change, Same
  <2>3. QED
    BY <2>1, <2>2, LinkedSame
<1>5. /\ \A f, g \in K : f # g => Range(ch[f]) \cap Range(ch[g]) = {}
      /\ K \subseteq Clusters
  BY DEF Change, Struct, Layout
<1>6. \A g \in K : Range(q) \cap Range(ch[g]) = {}
  BY DEF Change
<1> HIDE DEF u, ch2, K
<1>7. \A g \in DOMAIN ch2 : Linked(t, ch2[g]) /\ ch2[g][1] = g
  BY <1>2, <1>3, <1>4
<1>8. \A p : Linked(t, p) => Linked(u, p)
  BY <1>1 DEF Linked
<1>9. \A f, g \in DOMAIN ch2 : f # g => Range(ch2[f]) \cap Range(ch2[g]) = {}
  <2> TAKE f, g \in DOMAIN ch2
  <2>1. CASE f \in K /\ g \in K
    BY <1>2, <1>5, <2>1
  <2>2. CASE f \in K /\ g \notin K
    <3>1. ch2[f] = ch[f] /\ ch2[g] = q /\ Range(q) \cap Range(ch[f]) = {}
      BY <1>2, <1>6, <2>2
    <3>2. QED
      BY <3>1
  <2>3. CASE f \notin K /\ g \in K
    <3>1. ch2[f] = q /\ ch2[g] = ch[g] /\ Range(q) \cap Range(ch[g]) = {}
      BY <1>2, <1>6, <2>3
    <3>2. QED
      BY <3>1
  <2>4. CASE f \notin K /\ g \notin K
    BY <1>2, <2>4
  <2>5. QED
    BY <2>1, <2>2, <2>3, <2>4
<1>10. DOMAIN ch2 \subseteq Clusters
  BY <1>2, <1>3, <1>5
<1>11. QED
  BY <1>1, <1>7, <1>8, <1>9, <1>10 DEF Layout, u, ch2

(* The entries after the change: those that there were, but for x. *)
LEMMA LiveAfter ==
    ASSUME NEW s, NEW ch, NEW D, NEW x, NEW h, NEW t, NEW q, NEW e, NEW D2,
           Change(s, ch, D, x, h, t, q, e, D2),
           NEW y \in Live(PutEntry(t, x, e), Moved(ch, h, q), D2)
    PROVE  \/ y = x /\ At(PutEntry(t, x, e), y) = e /\ e.name \in Names
           \/ /\ y # x /\ y \in Live(s, ch, D)
              /\ At(PutEntry(t, x, e), y) = At(s, y)
<1> DEFINE u == PutEntry(t, x, e)
           ch2 == Moved(ch, h, q)
<1>1. x \in Slot /\ t.data[x[1]] \in SlotTable /\ x[1] \notin Range(q)
  BY ChangePlace
<1>2. Shape(t) /\ e \in Entries /\ Fits(ch, D, t, h, x, e, q, D2)
  BY DEF Change
<1>3. \A z \in Slot : At(u, z) = IF z = x THEN e ELSE At(t, z)
  BY <1>1, <1>2, PutAt
<1>4. y \in Slot /\ At(u, y).name \in Names
  BY DEF Live, DirSlots, Real
<1>5. CASE y = x
  BY <1>3, <1>4, <1>5
<1>6. CASE y # x
  <2>1. At(u, y) = At(t, y)
    BY <1>3, <1>4, <1>6
  <2>2. PICK d \in D2 : y[1] \in Range(ch2[d])
    BY DEF Live, DirSlots
  <2>3. Joined(ch, h, q, ch2)
    BY MovedFacts
  <2>4. CASE d \in D \ {h}
    <3>1. d \in (DOMAIN ch) \ {h}
      BY <2>4 DEF Change, Struct, Dirs
    <3>2. y[1] \in Range(ch[d])
      BY <2>2, <2>3, <3>1 DEF Joined
    <3>3. t.data[y[1]] = s.data[y[1]]
      BY <3>1, <3>2 DEF Change, Same
    <3>4. At(t, y) = At(s, y)
      BY <3>3 DEF At
    <3>5. y \in Live(s, ch, D)
      BY <1>4, <2>1, <2>4, <3>2, <3>4 DEF Live, DirSlots, Real
    <3>6. QED
      BY <1>6, <2>1, <3>4, <3>5
  <2>5. CASE d \notin D \ {h}
    <3>1. DirIn(ch, D, t, h, x, e, q, D2) /\ d = e.start
      BY <1>2, <2>5 DEF Fits, Gone, FileIn, DirIn
    <3>2. q = <<d>> /\ d \in Clusters /\ q # <<>> /\ q[1] = d
      BY <3>1 DEF DirIn
    <3>3. y[1] \in Range(q)
      BY <2>2, <2>3, <3>2 DEF Joined
    <3>4. y[1] = d
      BY <3>2, <3>3, OneRange
    <3>5. PICK p : t.data[d] = NewDirectory(d, p)
      BY <3>1 DEF DirIn
    <3>6. At(t, y) = NewDirectory(d, p)[y[2]] /\ y[2] \in 1 .. EntriesPerCluster
      BY <1>4, <3>4, <3>5 DEF At, Slot
    <3>7. At(t, y).name \notin Names
      BY <3>2, <3>6, NewDirectoryIs
    <3>8. QED
      BY <1>4, <2>1, <3>7, NamesAreReal
  <2>6. QED
    BY <2>4, <2>5
<1>7. QED
  BY <1>5, <1>6

LEMMA LiveKept ==
    ASSUME NEW s, NEW ch, NEW D, NEW x, NEW h, NEW t, NEW q, NEW e, NEW D2,
           Change(s, ch, D, x, h, t, q, e, D2)
    PROVE  /\ \A y \in Live(s, ch, D) \ {x} :
                 /\ y \in Live(PutEntry(t, x, e), Moved(ch, h, q), D2)
                 /\ At(PutEntry(t, x, e), y) = At(s, y)
           /\ At(PutEntry(t, x, e), x) = e
           /\ e.name \in Names => x \in Live(PutEntry(t, x, e), Moved(ch, h, q), D2)
<1> DEFINE u == PutEntry(t, x, e)
           ch2 == Moved(ch, h, q)
<1>1. /\ x \in Slot /\ t.data[x[1]] \in SlotTable
      /\ \E d \in D \ {h} : x[1] \in Range(ch[d])
  BY ChangePlace
<1>2. Shape(t) /\ e \in Entries /\ Fits(ch, D, t, h, x, e, q, D2)
  BY DEF Change
<1>3. \A z \in Slot : At(u, z) = IF z = x THEN e ELSE At(t, z)
  BY <1>1, <1>2, PutAt
<1>4. D \ {h} \subseteq D2
  BY <1>2 DEF Fits, Gone, FileIn, DirIn
<1>5. \A d \in D \ {h} : d \in D2 /\ ch2[d] = ch[d]
  <2>1. Joined(ch, h, q, ch2)
    BY MovedFacts
  <2>2. QED
    BY <1>4, <2>1 DEF Joined, Change, Struct, Dirs
<1> HIDE DEF u, ch2
<1>6. \A y \in Slot : (\E d \in D \ {h} : y[1] \in Range(ch[d])) => y \in DirSlots(ch2, D2)
  BY <1>5 DEF DirSlots
<1>7. ASSUME NEW y \in Live(s, ch, D) \ {x}
      PROVE  y \in Live(u, ch2, D2) /\ At(u, y) = At(s, y)
  <2>1. y \in Slot
    BY DEF Live, DirSlots
  <2>2. PICK d \in D : y[1] \in Range(ch[d])
    BY DEF Live, DirSlots
  <2>3. d # h
    BY <2>2 DEF Change
  <2>4. d \in (DOMAIN ch) \ {h}
    BY <2>3 DEF Change, Struct, Dirs
  <2>5. At(t, y) = At(s, y)
    BY <2>2, <2>4 DEF Change, Same, At
  <2>6. At(u, y) = At(s, y)
    BY <1>3, <2>1, <2>5
  <2>7. y \in DirSlots(ch2, D2)
    BY <1>6, <2>1, <2>2, <2>3
  <2>8. Real(u, y)
    BY <2>6 DEF Live, Real
  <2>9. QED
    BY <2>6, <2>7, <2>8 DEF Live
<1>8. At(u, x) = e
  BY <1>1, <1>3
<1>9. e.name \in Names => x \in Live(u, ch2, D2)
  BY <1>1, <1>6, <1>8 DEF Live, Real
<1>10. QED
  BY <1>7, <1>8, <1>9 DEF u, ch2

LEMMA ChangedDirs ==
    ASSUME NEW s, NEW ch, NEW D, NEW x, NEW h, NEW t, NEW q, NEW e, NEW D2,
           Change(s, ch, D, x, h, t, q, e, D2)
    PROVE  Dirs(PutEntry(t, x, e), Moved(ch, h, q), D2)
<1> DEFINE u == PutEntry(t, x, e)
           ch2 == Moved(ch, h, q)
<1>1. x \in Slot /\ t.data[x[1]] \in SlotTable /\ x[1] \notin Range(q)
  BY ChangePlace
<1>2. Shape(t) /\ e \in Entries /\ Fits(ch, D, t, h, x, e, q, D2)
  BY DEF Change
<1>3. /\ \A c \in Clusters : c # x[1] => u.data[c] = t.data[c]
      /\ u.data[x[1]] \in SlotTable
  BY <1>1, <1>2, PutFacts
<1>4. Joined(ch, h, q, ch2)
  BY MovedFacts
<1>5. /\ D \subseteq DOMAIN ch /\ Root \in D /\ Root # h
      /\ \A d \in D : \A c \in Range(ch[d]) : s.data[c] \in SlotTable
  <2>1. Root # h
    BY OwnedFacts DEF Change
  <2>2. QED
    BY <2>1 DEF Change, Struct, Dirs
<1>6. \/ D2 = D \ {h}
      \/ DirIn(ch, D, t, h, x, e, q, D2)
  BY <1>2 DEF Fits, Gone, FileIn
<1>7. D \ {h} \subseteq D2 /\ \A d \in D2 : d \in D \ {h} \/ (DirIn(ch, D, t, h, x, e, q, D2) /\ d = e.start)
  BY <1>6 DEF DirIn
<1>8. DirIn(ch, D, t, h, x, e, q, D2) => q = <<e.start>> /\ e.start \in Clusters /\ q # <<>> /\ q[1] = e.start
  BY DEF DirIn
<1>9. D2 \subseteq DOMAIN ch2 /\ Root \in D2
  BY <1>4, <1>5, <1>7, <1>8 DEF Joined
<1>10. ASSUME NEW d \in D2, NEW c \in Range(ch2[d]) PROVE u.data[c] \in SlotTable
  <2>1. CASE d \in D \ {h}
    <3>1. d \in (DOMAIN ch) \ {h} /\ c \in Range(ch[d])
      BY <1>4, <1>5, <1>10, <2>1 DEF Joined
    <3>2. c \in Clusters
      BY <3>1, HeadInRange DEF Change, Struct
    <3>3. t.data[c] = s.data[c]
      BY <3>1 DEF Change, Same
    <3>4. QED
      BY <1>3, <1>5, <2>1, <3>1, <3>2, <3>3
  <2>2. CASE DirIn(ch, D, t, h, x, e, q, D2) /\ d = e.start
    <3>1. c = d /\ d \in Clusters /\ c \in Range(q)
      BY <1>4, <1>8, <1>10, <2>2, OneRange DEF Joined
    <3>2. PICK p \in D : t.data[d] = NewDirectory(d, p)
      BY <2>2 DEF DirIn
    <3>3. p \in Clusters
      BY <1>5 DEF Change, Struct, Layout
    <3>4. t.data[d] \in SlotTable
      BY <3>1, <3>2, <3>3, NewDirectoryIs
    <3>5. QED
      BY <1>1, <1>3, <3>1, <3>4
  <2>3. QED
    BY <1>7, <2>1, <2>2
<1>11. QED
  BY <1>9, <1>10 DEF Dirs

(* What an entry that stays owns was not dropped. *)
LEMMA OwnerStays ==
    ASSUME NEW s, NEW ch, NEW D, NEW x, NEW h, NEW t, NEW q, NEW e, NEW D2,
           Change(s, ch, D, x, h, t, q, e, D2),
           NEW y \in Live(s, ch, D) \ {x}
    PROVE  At(s, y).start # 0 => At(s, y).start \in (DOMAIN ch) \ {h}
<1> HAVE At(s, y).start # 0
<1>1. At(s, y).start \in DOMAIN ch
  <2>1. Backed(ch, D, At(s, y))
    BY DEF Change, Struct, AllBacked
  <2>2. QED
    BY <2>1 DEF Backed, Change, Struct, Dirs
<1>2. At(s, y).start # h
  <2> SUFFICES ASSUME At(s, y).start = h PROVE FALSE
    OBVIOUS
  <2>1. Real(s, x) /\ At(s, x).start = h
    BY DEF Change, Owned
  <2>2. x \in Live(s, ch, D)
    BY <2>1 DEF Change, Live
  <2>3. QED
    BY <2>1, <2>2 DEF Change, Struct, OwnersDiffer
<1>3. QED
  BY <1>1, <1>2

LEMMA ChangedBacked ==
    ASSUME NEW s, NEW ch, NEW D, NEW x, NEW h, NEW t, NEW q, NEW e, NEW D2,
           Change(s, ch, D, x, h, t, q, e, D2)
    PROVE  AllBacked(PutEntry(t, x, e), Moved(ch, h, q), D2)
<1> DEFINE u == PutEntry(t, x, e)
           ch2 == Moved(ch, h, q)
<1> SUFFICES ASSUME NEW y \in Live(u, ch2, D2) PROVE Backed(ch2, D2, At(u, y))
  BY DEF AllBacked
<1>1. Joined(ch, h, q, ch2)
  BY MovedFacts
<1>2. Fits(ch, D, t, h, x, e, q, D2) /\ e \in Entries
  BY DEF Change
<1>3. D \subseteq DOMAIN ch /\ Root \in D /\ Root # h
  <2>1. Root # h
    BY OwnedFacts DEF Change
  <2>2. QED
    BY <2>1 DEF Change, Struct, Dirs
<1>4. q # <<>> => q[1] \in Clusters
  BY StartInRange DEF Change
<1>5. CASE y = x /\ At(u, y) = e /\ e.name \in Names
  <2>1. CASE FileIn(D, h, e, q, D2)
    <3>1. CASE q = <<>>
      <4>1. e.start = 0 /\ e.size <= BytesPerCluster * 0
        BY <2>1, <3>1 DEF FileIn, Start
      <4>2. e.size \in Nat /\ BytesPerCluster * 0 = 0
        <5>1. e.size \in Nat
          BY <1>2 DEF Entries
        <5>2. \A b \in Nat : b * 0 = 0
          OBVIOUS
        <5>3. QED
          BY <5>1, <5>2, Bytes
      <4>3. QED
        BY <1>5, <2>1, <4>1, <4>2 DEF Backed, FileIn
    <3>2. CASE q # <<>>
      <4>1. e.start = q[1] /\ ch2[e.start] = q /\ e.start \in DOMAIN ch2
        BY <1>1, <2>1, <3>2 DEF FileIn, Start, Joined
      <4>2. e.start \notin D2
        BY <1>1, <1>3, <2>1, <3>2, <4>1 DEF FileIn, Joined
      <4>3. QED
        BY <1>5, <2>1, <4>1, <4>2 DEF Backed, FileIn
    <3>3. QED
      BY <3>1, <3>2
  <2>2. CASE DirIn(ch, D, t, h, x, e, q, D2)
    <3>1. q # <<>> /\ q[1] = e.start /\ e.start \in D2 /\ e.dir
      BY <2>2 DEF DirIn
    <3>2. e.start # Root
      BY <1>1, <1>3, <3>1 DEF Joined
    <3>3. QED
      BY <1>5, <3>1, <3>2 DEF Backed
  <2>3. QED
    BY <1>2, <1>5, <2>1, <2>2, NamesAreReal DEF Fits, Gone
<1>6. CASE y # x /\ y \in Live(s, ch, D) /\ At(u, y) = At(s, y)
  <2> DEFINE f == At(s, y)
  <2>1. Backed(ch, D, f)
    BY <1>6 DEF Change, Struct, AllBacked
  <2>2. f.start # 0 => f.start \in (DOMAIN ch) \ {h}
    BY <1>6, OwnerStays
  <2>3. At(u, y) = f
    BY <1>6
  <2> HIDE DEF f, u
  <2>4. f.start # 0 => f.start \in DOMAIN ch2 /\ ch2[f.start] = ch[f.start] /\ (q # <<>> => f.start # q[1])
    BY <1>1, <2>2 DEF Joined
  <2>5. CASE f.dir
    <3>1. f.start \in D \ {Root} /\ f.start # 0
      <4>1. f.start \in D \ {Root}
        BY <2>1, <2>5 DEF Backed
      <4>2. 0 \notin DOMAIN ch
        BY Sizes DEF Change, Struct, Layout
      <4>3. QED
        BY <1>3, <4>1, <4>2
    <3>2. D \ {h} \subseteq D2
      BY <1>2 DEF Fits, Gone, FileIn, DirIn
    <3>3. QED
      BY <2>2, <2>3, <2>5, <3>1, <3>2 DEF Backed
  <2>6. CASE ~f.dir /\ f.start # 0
    <3>1. f.start \notin D /\ f.size <= BytesPerCluster * Len(ch[f.start])
      BY <2>1, <2>6 DEF Backed
    <3>2. f.start \notin D2
      <4>1. DirIn(ch, D, t, h, x, e, q, D2) => q # <<>> /\ q[1] = e.start /\ D2 = (D \ {h}) \cup {e.start}
        BY DEF DirIn
      <4>2. D2 = D \ {h} \/ DirIn(ch, D, t, h, x, e, q, D2)
        BY <1>2 DEF Fits, Gone, FileIn
      <4>3. QED
        BY <2>4, <2>6, <3>1, <4>1, <4>2
    <3>3. QED
      BY <2>3, <2>4, <2>6, <3>1, <3>2 DEF Backed
  <2>7. CASE ~f.dir /\ f.start = 0
    <3>1. f.size = 0
      <4>1. 0 \notin DOMAIN ch
        BY Sizes DEF Change, Struct, Layout
      <4>2. QED
        BY <2>1, <2>7, <4>1 DEF Backed
    <3>2. QED
      BY <2>3, <2>7, <3>1 DEF Backed
  <2>8. QED
    BY <2>5, <2>6, <2>7
<1>7. QED
  BY <1>5, <1>6, LiveAfter

LEMMA ChangedOwners ==
    ASSUME NEW s, NEW ch, NEW D, NEW x, NEW h, NEW t, NEW q, NEW e, NEW D2,
           Change(s, ch, D, x, h, t, q, e, D2)
    PROVE  OwnersDiffer(PutEntry(t, x, e), Moved(ch, h, q), D2)
<1> DEFINE u == PutEntry(t, x, e)
           ch2 == Moved(ch, h, q)
<1>1. \A y \in Live(u, ch2, D2) :
         \/ y = x /\ At(u, y) = e
         \/ y # x /\ y \in Live(s, ch, D) /\ At(u, y) = At(s, y)
  BY LiveAfter
<1>2. \A y \in Live(s, ch, D) \ {x} :
         At(s, y).start # 0 => At(s, y).start \in (DOMAIN ch) \ {h}
  BY OwnerStays
<1>3. x \in Live(u, ch2, D2) => e.start = 0 \/ (q # <<>> /\ e.start = q[1])
  <2>1. At(u, x) = e
    BY LiveKept
  <2>2. x \in Live(u, ch2, D2) => e.name \in Names
    BY <2>1 DEF Live, Real
  <2>3. Fits(ch, D, t, h, x, e, q, D2)
    BY DEF Change
  <2>4. DirIn(ch, D, t, h, x, e, q, D2) => q # <<>> /\ e.start = q[1]
    BY DEF DirIn
  <2>5. FileIn(D, h, e, q, D2) => e.start = 0 \/ (q # <<>> /\ e.start = q[1])
    BY DEF FileIn, Start
  <2>6. QED
    BY <2>2, <2>3, <2>4, <2>5, NamesAreReal DEF Fits, Gone
<1>4. \A g \in (DOMAIN ch) \ {h} : q # <<>> => g # q[1]
  <2>1. Joined(ch, h, q, ch2)
    BY MovedFacts
  <2>2. QED
    BY <2>1 DEF Joined
<1>5. OwnersDiffer(s, ch, D)
  BY DEF Change, Struct
<1> HIDE DEF u, ch2
<1> SUFFICES ASSUME NEW y \in Live(u, ch2, D2), NEW z \in Live(u, ch2, D2),
                    At(u, y).start = At(u, z).start, At(u, y).start # 0
             PROVE  y = z
  BY DEF OwnersDiffer, u, ch2
<1>6. CASE y # x /\ z # x
  <2>1. /\ y \in Live(s, ch, D) /\ At(u, y) = At(s, y)
        /\ z \in Live(s, ch, D) /\ At(u, z) = At(s, z)
    BY <1>1, <1>6
  <2>2. QED
    BY <1>5, <2>1 DEF OwnersDiffer
<1>7. CASE y = x /\ z # x
  <2>1. At(u, y) = e /\ z \in Live(s, ch, D) /\ At(u, z) = At(s, z)
    BY <1>1, <1>7
  <2>2. QED
    BY <1>2, <1>3, <1>4, <1>7, <2>1
<1>8. CASE z = x /\ y # x
  <2>1. At(u, z) = e /\ y \in Live(s, ch, D) /\ At(u, y) = At(s, y)
    BY <1>1, <1>8
  <2>2. QED
    BY <1>2, <1>3, <1>4, <1>8, <2>1
<1>9. QED
  BY <1>6, <1>7, <1>8

(* Directories keep their place in the tree. *)
LEMMA ChangedParents ==
    ASSUME NEW s, NEW ch, NEW D, NEW x, NEW h, NEW t, NEW q, NEW e, NEW D2,
           Change(s, ch, D, x, h, t, q, e, D2)
    PROVE  Parents(PutEntry(t, x, e), Moved(ch, h, q), D2)
<1> DEFINE u == PutEntry(t, x, e)
           ch2 == Moved(ch, h, q)
<1>1. x \in Slot /\ t.data[x[1]] \in SlotTable /\ x[1] \notin Range(q)
  BY ChangePlace
<1>2. Shape(t) /\ e \in Entries /\ Fits(ch, D, t, h, x, e, q, D2)
  BY DEF Change
<1>3. /\ \A c \in Clusters : c # x[1] => u.data[c] = t.data[c]
      /\ \A k \in 1 .. EntriesPerCluster :
            u.data[x[1]][k] = IF k = x[2] THEN e ELSE t.data[x[1]][k]
  BY <1>1, <1>2, PutFacts
<1>4. Joined(ch, h, q, ch2)
  BY MovedFacts
<1>5. D \subseteq DOMAIN ch /\ Root \in D /\ Root # h
  <2>1. Root # h
    BY OwnedFacts DEF Change
  <2>2. QED
    BY <2>1 DEF Change, Struct, Dirs
<1>6. \A d \in D2 : d \in D \ {h} \/ (DirIn(ch, D, t, h, x, e, q, D2) /\ d = e.start)
  BY <1>2 DEF Fits, Gone, FileIn, DirIn
<1>7. D \ {h} \subseteq D2 /\ \A d \in D \ {h} : ch2[d] = ch[d]
  BY <1>2, <1>4, <1>5 DEF Fits, Gone, FileIn, DirIn, Joined
<1>8. /\ \A y \in Live(s, ch, D) \ {x} : y \in Live(u, ch2, D2) /\ At(u, y) = At(s, y)
      /\ At(u, x) = e /\ (e.name \in Names => x \in Live(u, ch2, D2))
  BY LiveKept
<1>9. 1 \in 1 .. EntriesPerCluster /\ 2 \in 1 .. EntriesPerCluster
  BY TableSize
<1> HIDE DEF u, ch2
<1>10. ASSUME NEW g \in D \ {h, Root}
       PROVE  /\ u.data[g][1].name = "." /\ u.data[g][2].name = ".."
              /\ ParentOf(u, g) \in D2 /\ \E y : EntryIn(u, ch2, D2, g, y)
  <2>1. /\ s.data[g][1].name = "." /\ s.data[g][2].name = ".."
        /\ ParentOf(s, g) \in D /\ \E y : EntryIn(s, ch, D, g, y)
    BY DEF Change, Struct, Parents
  <2>2. g \in (DOMAIN ch) \ {h} /\ g \in Clusters /\ g \in Range(ch[g])
    BY <1>5, HeadInRange DEF Change, Struct
  <2>3. t.data[g] = s.data[g]
    BY <2>2 DEF Change, Same
  <2>4. u.data[g][1] = s.data[g][1] /\ u.data[g][2] = s.data[g][2]
    <3>1. CASE g # x[1]
      BY <1>3, <2>2, <2>3, <3>1
    <3>2. CASE g = x[1]
      <4>1. At(s, x) = s.data[g][x[2]] /\ At(s, x).name \in Names \cup {NoName}
        BY <3>2 DEF Change, At
      <4>2. x[2] # 1 /\ x[2] # 2
        BY <2>1, <4>1, NamesAreReal
      <4>3. QED
        BY <1>3, <1>9, <2>3, <3>2, <4>2
    <3>3. QED
      BY <3>1, <3>2
  <2>5. ParentOf(u, g) = ParentOf(s, g)
    BY <2>4 DEF ParentOf
  <2>6. PICK y : EntryIn(s, ch, D, g, y)
    BY <2>1
  <2>7. y \in Live(s, ch, D) /\ y[1] \in Range(ch[ParentOf(s, g)]) /\ At(s, y).start = g
    BY <2>6 DEF EntryIn
  <2>8. ParentOf(s, g) # h
    BY <2>1, <2>7 DEF Change
  <2>9. y # x
    <3> SUFFICES ASSUME y = x PROVE FALSE
      OBVIOUS
    <3>1. h = g
      BY <2>7 DEF Change, Owned, Live
    <3>2. QED
      BY <3>1
  <2>10. EntryIn(u, ch2, D2, g, y)
    BY <1>7, <1>8, <2>1, <2>5, <2>7, <2>8, <2>9 DEF EntryIn
  <2>11. QED
    BY <1>7, <2>1, <2>4, <2>5, <2>8, <2>10
<1>11. ASSUME NEW g, DirIn(ch, D, t, h, x, e, q, D2), g = e.start
       PROVE  /\ u.data[g][1].name = "." /\ u.data[g][2].name = ".."
              /\ ParentOf(u, g) \in D2 /\ \E y : EntryIn(u, ch2, D2, g, y)
  <2>1. PICK d \in D \ {h} : x[1] \in Range(ch[d]) /\ t.data[g] = NewDirectory(g, d)
    BY <1>11 DEF DirIn
  <2>2. q = <<g>> /\ g \in Clusters /\ g # x[1] /\ e.name \in Names
    BY <1>1, <1>11, OneRange DEF DirIn
  <2>3. u.data[g] = NewDirectory(g, d)
    BY <1>3, <2>1, <2>2
  <2>4. d \in Clusters
    BY <1>5 DEF Change, Struct, Layout
  <2>5. g # Root
    BY <1>4, <1>5, <2>2 DEF Joined
  <2>6. /\ u.data[g][1].name = "." /\ u.data[g][2].name = ".."
        /\ d = Root => u.data[g][2].start = 0
        /\ d # Root => u.data[g][2].start = d
    <3>1. /\ NewDirectory(g, d)[1].name = "." /\ NewDirectory(g, d)[2].name = ".."
          /\ d = Root => NewDirectory(g, d)[2].start = 0
          /\ d # Root => NewDirectory(g, d)[2].start = d
      BY <2>2, NewDirectoryIs
    <3>2. QED
      BY <2>3, <3>1
  <2>7. ParentOf(u, g) = d
    BY <2>4, <2>5, <2>6, Sizes DEF ParentOf
  <2>8. EntryIn(u, ch2, D2, g, x)
    BY <1>7, <1>8, <1>11, <2>1, <2>2, <2>7 DEF EntryIn
  <2>9. QED
    BY <1>7, <2>6, <2>7, <2>8
<1>12. QED
  BY <1>6, <1>10, <1>11 DEF Parents, u, ch2

(* The structure survives the change. *)
LEMMA Changed ==
    ASSUME NEW s, NEW ch, NEW D, NEW x, NEW h, NEW t, NEW q, NEW e, NEW D2,
           Change(s, ch, D, x, h, t, q, e, D2)
    PROVE  Struct(PutEntry(t, x, e), Moved(ch, h, q), D2)
BY ChangedLayout, ChangedDirs, ChangedBacked, ChangedOwners, ChangedParents DEF Struct

-----------------------------------------------------------------------------
(* Chains of the volume, and clusters that are in none.                    *)

LEMMA ChainOfHead ==
    ASSUME NEW s, NEW ch, NEW D, Struct(s, ch, D), NEW h \in DOMAIN ch
    PROVE  Chain(s, h) = ch[h]
BY ChainIs DEF Struct, Shape, Layout

LEMMA SlotsOfDir ==
    ASSUME NEW s, NEW ch, NEW D, Struct(s, ch, D), NEW d \in D
    PROVE  /\ Slots(s, d) = Range(ch[d]) \X (1 .. EntriesPerCluster)
           /\ Slots(s, d) \subseteq DirSlots(ch, D)
           /\ \A x \in Slots(s, d) : x[1] \in Range(ch[d])
<1>1. d \in DOMAIN ch
  BY DEF Struct, Dirs
<1>2. Slots(s, d) = Range(ch[d]) \X (1 .. EntriesPerCluster)
  BY <1>1, ChainOfHead DEF Slots
<1>3. Range(ch[d]) \subseteq Clusters
  BY <1>1, HeadInRange DEF Struct
<1>4. QED
  BY <1>2, <1>3 DEF DirSlots, Slot

(* What allocateCluster takes is a cluster of no chain. *)
LEMMA FreeIsOutside ==
    ASSUME NEW s, NEW q, Linked(s, q), NEW c \in FreeClusters(s)
    PROVE  c \notin Range(q)
<1> SUFFICES ASSUME c \in Range(q) PROVE FALSE
  OBVIOUS
<1>1. q \in Seq(Clusters) /\ s.fat[c] = 0
  BY Sizes DEF Linked, FreeClusters
<1>2. PICK i \in 1 .. Len(q) : c = q[i]
  BY <1>1, RangeIs
<1>3. CASE i = Len(q)
  BY <1>1, <1>2, <1>3, Sizes DEF Linked
<1>4. CASE i # Len(q)
  <2>1. i \in 1 .. Len(q) - 1 /\ i + 1 \in 1 .. Len(q)
    BY <1>1, <1>2, <1>4
  <2>2. s.fat[c] = q[i + 1]
    BY <1>2, <2>1 DEF Linked
  <2>3. q[i + 1] \in Clusters
    BY <1>1, <2>1
  <2>4. QED
    BY <1>1, <2>2, <2>3, Sizes
<1>5. QED
  BY <1>3, <1>4

LEMMA NewClusterIs ==
    ASSUME NEW s, FreeClusters(s) # {}
    PROVE  NewCluster(s) \in FreeClusters(s) /\ NewCluster(s) \in Clusters
<1>1. FreeClusters(s) \in SUBSET Nat
  <2>1. \A c \in Clusters : c \in Nat
    BY Sizes
  <2>2. QED
    BY <2>1 DEF FreeClusters
<1>2. NewCluster(s) \in FreeClusters(s)
  BY <1>1, MinInSet DEF NewCluster
<1>3. QED
  BY <1>2 DEF FreeClusters

(* freeChain. *)
LEMMA FreedIs ==
    ASSUME NEW s, Shape(s), NEW cs \in SUBSET Clusters
    PROVE  Shape(Freed(s, cs)) /\ Same(s, Freed(s, cs), Clusters \ cs)
<1>1. Freed(s, cs) = [fat |-> Freed(s, cs).fat, data |-> Freed(s, cs).data]
  BY DEF Freed
<1>2. Freed(s, cs).fat \in Fats
  BY Sizes DEF Shape, Freed, Fats, Heads
<1>3. Freed(s, cs).data = [c \in Clusters |-> Freed(s, cs).data[c]]
  BY DEF Freed
<1>4. Same(s, Freed(s, cs), Clusters \ cs)
  BY DEF Same, Freed
<1>5. QED
  BY <1>1, <1>2, <1>3, <1>4 DEF Shape

(* The cluster that Chain starts from may be no cluster. *)
LEMMA FreedChain ==
    ASSUME NEW s, NEW ch, NEW D, Struct(s, ch, D), NEW h, h = 0 \/ h \in DOMAIN ch
    PROVE  /\ Shape(FreeChain(s, h))
           /\ \A g \in (DOMAIN ch) \ {h} : Same(s, FreeChain(s, h), Range(ch[g]))
<1>1. Shape(s) /\ s.fat \in Fats
  BY DEF Struct, Shape
<1>2. CASE h = 0
  <2>1. Chain(s, h) = <<>>
    BY <1>1, <1>2, NoChain, Sizes
  <2>2. Range(<<>>) = {}
    BY DEF Range
  <2>3. FreeChain(s, h) = Freed(s, {})
    BY <2>1, <2>2 DEF FreeChain
  <2>4. Shape(FreeChain(s, h)) /\ Same(s, FreeChain(s, h), Clusters \ {})
    BY <1>1, <2>3, FreedIs
  <2>5. \A g \in DOMAIN ch : Range(ch[g]) \subseteq Clusters
    BY HeadInRange DEF Struct
  <2>6. QED
    BY <2>4, <2>5 DEF Same
<1>3. CASE h \in DOMAIN ch
  <2>1. FreeChain(s, h) = Freed(s, Range(ch[h])) /\ Range(ch[h]) \in SUBSET Clusters
    BY <1>3, ChainOfHead, HeadInRange DEF FreeChain, Struct
  <2>2. Shape(FreeChain(s, h)) /\ Same(s, FreeChain(s, h), Clusters \ Range(ch[h]))
    BY <1>1, <2>1, FreedIs
  <2>3. \A g \in (DOMAIN ch) \ {h} : Range(ch[g]) \subseteq Clusters \ Range(ch[h])
    <3> TAKE g \in (DOMAIN ch) \ {h}
    <3>1. Range(ch[g]) \subseteq Clusters
      BY HeadInRange DEF Struct
    <3>2. Range(ch[g]) \cap Range(ch[h]) = {}
      BY <1>3 DEF Struct, Layout
    <3>3. QED
      BY <3>1, <3>2
  <2>4. QED
    BY <2>2, <2>3 DEF Same
<1>4. QED
  BY <1>2, <1>3

(* findEntry: one of the slots with the name comes first. *)
LEMMA FirstIsNamed ==
    ASSUME NEW s, NEW ch, NEW D, Struct(s, ch, D), NEW d \in D,
           NEW X \in SUBSET Slots(s, d), X # {}
    PROVE  First(s, X) \in X
<1> DEFINE q == ch[d]
<1>1. /\ q \in Seq(Clusters) /\ Linked(s, q) /\ Len(q) \in Nat /\ s.fat \in Fats
      /\ Slots(s, d) = Range(q) \X (1 .. EntriesPerCluster)
  BY SlotsOfDir DEF Struct, Shape, Layout, Dirs, Linked
<1> DEFINE I == {i \in 1 .. Len(q) : \E x \in X : x[1] = q[i]}
<1>2. I \in SUBSET Nat /\ I # {}
  <2>1. PICK x \in X : TRUE
    OBVIOUS
  <2>2. x[1] \in Range(q)
    BY <1>1, <2>1
  <2>3. PICK i \in 1 .. Len(q) : q[i] = x[1]
    BY <1>1, <2>2, RangeIs
  <2>4. i \in I
    BY <2>1, <2>3
  <2>5. QED
    BY <2>4
<1>3. PICK i \in I : \A j \in I : i <= j
  <2> HIDE DEF I
  <2>1. QED
    BY <1>2, MinInSet
<1> DEFINE K == {k \in 1 .. EntriesPerCluster : <<q[i], k>> \in X}
<1>4. K \in SUBSET Nat /\ K # {}
  <2>1. PICK x \in X : x[1] = q[i]
    BY <1>3
  <2>2. x = <<x[1], x[2]>> /\ x[2] \in 1 .. EntriesPerCluster
    BY <1>1, <2>1
  <2>3. x[2] \in K
    BY <2>1, <2>2
  <2>4. QED
    BY <2>3
<1>5. PICK k \in K : \A j \in K : k <= j
  <2> HIDE DEF K
  <2>1. QED
    BY <1>4, MinInSet
<1> DEFINE x == <<q[i], k>>
<1>6. x \in X
  BY <1>5
<1>7. ASSUME NEW y \in X PROVE Before(s, x, y)
  <2>1. y[1] \in Range(q) /\ y[2] \in 1 .. EntriesPerCluster /\ y = <<y[1], y[2]>>
    BY <1>1
  <2>2. CASE y[1] = q[i]
    <3>1. y[2] \in K
      BY <2>1, <2>2
    <3>2. QED
      BY <1>5, <2>2, <3>1 DEF Before
  <2>3. CASE y[1] # q[i]
    <3>1. PICK j \in 1 .. Len(q) : q[j] = y[1]
      BY <1>1, <2>1, RangeIs
    <3>2. j \in I
      BY <3>1
    <3>3. i \in 1 .. Len(q) /\ i <= j
      BY <1>3, <3>2
    <3> DEFINE tail == SubSeq(q, i, Len(q))
    <3>4. Linked(s, tail)
      BY <1>1, <3>3, TailLinked
    <3>5. /\ tail \in Seq(Clusters) /\ tail[1] = q[i]
          /\ j - i + 1 \in 1 .. Len(tail) /\ tail[j - i + 1] = q[j]
      <4> HIDE DEF I
      <4>1. tail \in Seq(Clusters) /\ Len(tail) = Len(q) - i + 1
        BY <1>1, <3>3
      <4>2. \A m \in 1 .. Len(tail) : tail[m] = q[i + m - 1]
        BY <1>1, <3>3
      <4>3. j - i + 1 \in 1 .. Len(tail) /\ 1 \in 1 .. Len(tail)
            /\ i + (j - i + 1) - 1 = j /\ i + 1 - 1 = i
        BY <1>1, <3>3, <4>1
      <4> HIDE DEF tail
      <4>4. tail[j - i + 1] = q[i + (j - i + 1) - 1] /\ tail[1] = q[i + 1 - 1]
        BY <4>2, <4>3
      <4>5. QED
        BY <4>1, <4>3, <4>4
    <3> HIDE DEF tail
    <3>6. Chain(s, q[i]) = tail
      BY <1>1, <3>4, <3>5, ChainIs
    <3>7. q[j] \in Range(tail)
      BY <3>5, RangeIs
    <3>8. QED
      BY <2>3, <3>1, <3>6, <3>7 DEF Before
  <2>4. QED
    BY <2>2, <2>3
<1> HIDE DEF x
<1>8. QED
  BY <1>6, <1>7 DEF First

-----------------------------------------------------------------------------
(* Paths.                                                                  *)

(* What a path may lead to. *)
NodeAt(s, x) == [entry |-> At(s, x), place |-> x]
GoodNodes(s, ch, D) ==
    {Nothing} \cup {Directory(c) : c \in D} \cup {NodeAt(s, x) : x \in Live(s, ch, D)}

(* r is the entry with name n in the directory of a node. *)
Holds(s, ch, D, node, n, r, x) ==
    /\ x \in Live(s, ch, D) /\ r = NodeAt(s, x) /\ At(s, x).name = n
    /\ node.entry.dir /\ node.entry.start \in D
    /\ x[1] \in Range(ch[node.entry.start])
Under(s, ch, D, node, n, r) == r = Nothing \/ \E x : Holds(s, ch, D, node, n, r, x)

LEMMA NothingIs ==
    /\ Nothing.entry = NoEntry /\ Nothing.entry.dir = FALSE
    /\ Nothing.entry.start = 0 /\ Nothing.entry.size = 0
<1>1. Nothing.entry = NoEntry
  BY DEF Nothing
<1>2. QED
  BY <1>1, NoEntryIs

LEMMA DirectoryIs ==
    ASSUME NEW c
    PROVE  Directory(c).entry.dir = TRUE /\ Directory(c).entry.start = c
BY DEF Directory, DirEntry

LEMMA NodeAtIs ==
    ASSUME NEW s, NEW x
    PROVE  NodeAt(s, x).entry = At(s, x) /\ NodeAt(s, x).place = x
BY DEF NodeAt

LEMMA NodeFacts ==
    ASSUME NEW s, NEW ch, NEW D, Struct(s, ch, D), NEW node \in GoodNodes(s, ch, D)
    PROVE  /\ node.entry.dir => node.entry.start \in D
           /\ node.entry.start = 0 \/ node.entry.start \in DOMAIN ch
           /\ ~node.entry.dir => \/ node.entry.start = 0 /\ node.entry.size = 0
                                 \/ /\ node.entry.start \in DOMAIN ch
                                    /\ node.entry.size <= BytesPerCluster * Len(ch[node.entry.start])
<1>1. D \subseteq DOMAIN ch
  BY DEF Struct, Dirs
<1>2. CASE node = Nothing
  BY <1>2, NothingIs
<1>3. ASSUME NEW c \in D, node = Directory(c)
      PROVE  node.entry.dir = TRUE /\ node.entry.start \in D
  BY <1>3, DirectoryIs
<1>4. ASSUME NEW x \in Live(s, ch, D), node = NodeAt(s, x)
      PROVE  Backed(ch, D, node.entry)
  <2>1. node.entry = At(s, x)
    BY <1>4, NodeAtIs
  <2>2. QED
    BY <2>1 DEF Struct, AllBacked
<1>5. \/ node = Nothing
      \/ \E c \in D : node = Directory(c)
      \/ \E x \in Live(s, ch, D) : node = NodeAt(s, x)
  BY DEF GoodNodes
<1>6. CASE \E c \in D : node = Directory(c)
  BY <1>1, <1>3, <1>6
<1>7. CASE \E x \in Live(s, ch, D) : node = NodeAt(s, x)
  BY <1>1, <1>4, <1>7 DEF Backed
<1>8. QED
  BY <1>2, <1>5, <1>6, <1>7

LEMMA LookupIs ==
    ASSUME NEW s, NEW ch, NEW D, Struct(s, ch, D), NEW node \in GoodNodes(s, ch, D),
           NEW n \in Names \cup {".."}
    PROVE  /\ Lookup(s, node, n) \in GoodNodes(s, ch, D)
           /\ n \in Names => Under(s, ch, D, node, n, Lookup(s, node, n))
<1> DEFINE d == node.entry.start
           slots == Named(s, d, n)
           r == Lookup(s, node, n)
<1>0. ".." \notin Names
  BY NamesAreReal
<1>1. r = IF ~node.entry.dir THEN Nothing
          ELSE IF n = ".." THEN Directory(ParentOf(s, d))
          ELSE IF slots = {} THEN Nothing
          ELSE NodeAt(s, First(s, slots))
  BY DEF Lookup, NodeAt
<1>2. node.entry.dir => d \in D
  BY NodeFacts
<1> HIDE DEF d, r, slots
<1>3. Nothing \in GoodNodes(s, ch, D) /\ Under(s, ch, D, node, n, Nothing)
  BY DEF GoodNodes, Under
<1>4. CASE ~node.entry.dir
  BY <1>1, <1>3, <1>4 DEF r
<1>5. CASE node.entry.dir /\ n = ".."
  <2>1. ParentOf(s, d) \in D
    <3>1. CASE d = Root
      BY <3>1 DEF ParentOf, Struct, Dirs
    <3>2. CASE d # Root
      BY <1>2, <1>5, <3>2 DEF Struct, Parents
    <3>3. QED
      BY <3>1, <3>2
  <2>2. r = Directory(ParentOf(s, d))
    BY <1>1, <1>5
  <2>3. QED
    BY <1>0, <1>5, <2>1, <2>2 DEF GoodNodes, r
<1>6. CASE node.entry.dir /\ n # ".." /\ slots = {}
  BY <1>1, <1>3, <1>6 DEF r
<1>7. CASE node.entry.dir /\ n # ".." /\ slots # {}
  <2>1. n \in Names /\ d \in D
    BY <1>2, <1>7
  <2>2. slots \in SUBSET Slots(s, d)
    BY DEF slots, Named
  <2>3. PICK x : x = First(s, slots) /\ x \in slots
    BY <1>7, <2>1, <2>2, FirstIsNamed
  <2>4. /\ x \in DirSlots(ch, D) /\ x[1] \in Range(ch[d]) /\ At(s, x).name = n
    BY <2>1, <2>3, SlotsOfDir DEF slots, Named
  <2>5. x \in Live(s, ch, D)
    BY <2>1, <2>4 DEF Live, Real
  <2>6. r = NodeAt(s, x)
    BY <1>1, <1>7, <2>3
  <2>7. Holds(s, ch, D, node, n, r, x)
    BY <1>7, <2>1, <2>4, <2>5, <2>6 DEF Holds, d
  <2>8. QED
    BY <2>5, <2>6, <2>7 DEF GoodNodes, Under, r
<1>8. QED
  BY <1>4, <1>5, <1>6, <1>7

(* g holds the nodes that resolvePath goes through. *)
IsPath(s, path, g) ==
    /\ g[0] = Directory(Root)
    /\ \A i \in 1 .. Len(path) : g[i] = Lookup(s, g[i - 1], path[i])
    /\ ResolvePath(s, path) = g[Len(path)]

LEMMA PathTrace ==
    ASSUME NEW s, NEW ch, NEW D, Struct(s, ch, D), NEW path \in Seq(Names \cup {".."})
    PROVE  \E g \in [0 .. Len(path) -> GoodNodes(s, ch, D)] : IsPath(s, path, g)
<1> DEFINE X == GoodNodes(s, ch, D)
<1>1. PICK n \in Nat : n = Len(path)
  OBVIOUS
<1>2. \A i \in 1 .. n : path[i] \in Names \cup {".."}
  BY <1>1
<1> DEFINE step == [y \in X \X (1 .. n) |-> Lookup(s, y[1], path[y[2]])]
           F(a) == [i \in 0 .. Len(path) |->
                      IF i = 0 THEN {Directory(Root)}
                      ELSE {Lookup(s, node, path[i]) : node \in a[i - 1]}]
           at == CHOOSE a : a = F(a)
<1>3. Directory(Root) \in X
  BY DEF GoodNodes, Struct, Dirs
<1>4. step \in [X \X (1 .. n) -> X]
  <2>1. \A y \in X \X (1 .. n) : Lookup(s, y[1], path[y[2]]) \in X
    <3> TAKE y \in X \X (1 .. n)
    <3>1. y[1] \in GoodNodes(s, ch, D) /\ y[2] \in 1 .. n
      OBVIOUS
    <3>2. path[y[2]] \in Names \cup {".."}
      BY <1>2, <3>1
    <3>3. QED
      BY <3>1, <3>2, LookupIs
  <2> HIDE DEF X
  <2>2. QED
    BY <2>1
<1>5. PICK g : IsTrace(g, n, X, Directory(Root), step)
  <2> HIDE DEF X, step
  <2>1. QED
    BY <1>3, <1>4, LoopTrace
<1>6. /\ g \in [0 .. n -> X] /\ g[0] = Directory(Root)
      /\ \A i \in 1 .. n : g[i] = step[<<g[i - 1], i>>]
  BY <1>5 DEF IsTrace
<1> HIDE DEF X
<1>7. \A i \in 1 .. n : g[i] = Lookup(s, g[i - 1], path[i])
  <2> TAKE i \in 1 .. n
  <2>1. i - 1 \in 0 .. n
    OBVIOUS
  <2>2. <<g[i - 1], i>> \in X \X (1 .. n)
    BY <1>6, <2>1
  <2>3. QED
    BY <1>6, <2>2
<1> HIDE DEF step
<1>8. ResolvePath(s, path) = CHOOSE node \in at[n] : TRUE
  BY <1>1 DEF ResolvePath
<1> DEFINE singles == [i \in 0 .. n |-> {g[i]}]
<1>9. singles = F(singles)
  <2>1. \A i \in 0 .. n : singles[i] = F(singles)[i]
    <3> TAKE i \in 0 .. n
    <3>1. CASE i = 0
      BY <1>1, <1>6, <3>1
    <3>2. CASE i # 0
      <4>1. i \in 1 .. n /\ i - 1 \in 0 .. n
        BY <3>2
      <4>2. singles[i - 1] = {g[i - 1]} /\ singles[i] = {g[i]}
        BY <4>1
      <4>3. F(singles)[i] = {Lookup(s, node, path[i]) : node \in singles[i - 1]}
        BY <1>1, <3>2
      <4> HIDE DEF singles, F
      <4>4. QED
        BY <1>7, <4>1, <4>2, <4>3
    <3>3. QED
      BY <3>1, <3>2
  <2>2. singles = [i \in 0 .. n |-> singles[i]] /\ F(singles) = [i \in 0 .. n |-> F(singles)[i]]
    BY <1>1
  <2> HIDE DEF singles, F
  <2>3. QED
    BY <2>1, <2>2
<1>10. at = F(at)
  BY <1>9
<1> HIDE DEF at, singles
<1>11. at[0] = {Directory(Root)} /\ \A i \in 1 .. n : at[i] = {Lookup(s, node, path[i]) : node \in at[i - 1]}
  <2>1. \A i \in 0 .. n : at[i] = IF i = 0 THEN {Directory(Root)}
                                  ELSE {Lookup(s, node, path[i]) : node \in at[i - 1]}
    BY <1>1, <1>10
  <2>2. 0 \in 0 .. n /\ \A i \in 1 .. n : i \in 0 .. n /\ i # 0
    OBVIOUS
  <2> HIDE DEF F
  <2>3. QED
    BY <2>1, <2>2
<1> HIDE DEF F
<1> DEFINE S == {i \in 0 .. n : at[i] = {g[i]}}
<1>12. at[n] = {g[n]}
  <2>1. 0 \in S
    BY <1>6, <1>11
  <2>2. ASSUME NEW i \in 1 .. n, i - 1 \in S PROVE i \in S
    <3>1. at[i - 1] = {g[i - 1]}
      BY <2>2
    <3>2. at[i] = {Lookup(s, node, path[i]) : node \in at[i - 1]}
      BY <1>11
    <3>3. at[i] = {Lookup(s, g[i - 1], path[i])}
      BY <3>1, <3>2
    <3>4. QED
      BY <1>7, <3>3
  <2> HIDE DEF S
  <2>3. 0 .. n \subseteq S
    BY <2>1, <2>2, RoundInduction
  <2>4. QED
    BY <2>3 DEF S
<1>13. ResolvePath(s, path) = g[n]
  BY <1>8, <1>12
<1>14. QED
  BY <1>1, <1>6, <1>7, <1>13 DEF IsPath, X

(* What resolvePath returns. *)
LEMMA ResolvedIs ==
    ASSUME NEW s, NEW ch, NEW D, Struct(s, ch, D), NEW path \in Seq(Names \cup {".."})
    PROVE  /\ ResolvePath(s, path) \in GoodNodes(s, ch, D)
           /\ path # <<>> /\ path[Len(path)] \in Names =>
                 \/ ResolvePath(s, path) = Nothing
                 \/ \E x \in Live(s, ch, D) : ResolvePath(s, path) = NodeAt(s, x)
<1>1. PICK g \in [0 .. Len(path) -> GoodNodes(s, ch, D)] : IsPath(s, path, g)
  BY PathTrace
<1>2. PICK n \in Nat : n = Len(path)
  OBVIOUS
<1>3. ResolvePath(s, path) = g[n] /\ g[n] \in GoodNodes(s, ch, D)
  BY <1>1, <1>2 DEF IsPath
<1>4. ASSUME path # <<>>, path[n] \in Names
      PROVE  g[n] = Nothing \/ \E x \in Live(s, ch, D) : g[n] = NodeAt(s, x)
  <2>1. n \in 1 .. n /\ n - 1 \in 0 .. n
    BY <1>2, <1>4
  <2>2. g[n - 1] \in GoodNodes(s, ch, D) /\ g[n] = Lookup(s, g[n - 1], path[n])
    BY <1>1, <1>2, <2>1 DEF IsPath
  <2>3. Under(s, ch, D, g[n - 1], path[n], g[n])
    BY <1>4, <2>2, LookupIs
  <2>4. QED
    BY <2>3 DEF Under, Holds
<1>5. QED
  BY <1>2, <1>3, <1>4

(* The root has no entry: what is found by name is not the root. *)
LEMMA HoldsFacts ==
    ASSUME NEW s, NEW ch, NEW D, Struct(s, ch, D), NEW node, NEW n, NEW r, NEW x,
           Holds(s, ch, D, node, n, r, x)
    PROVE  r.entry = At(s, x) /\ r.entry.start # Root
<1>1. r.entry = At(s, x) /\ x \in Live(s, ch, D)
  BY NodeAtIs DEF Holds
<1>2. Backed(ch, D, At(s, x)) /\ Root \in D /\ Root # 0
  BY <1>1, Sizes DEF Struct, AllBacked, Dirs
<1>3. QED
  BY <1>1, <1>2 DEF Backed

(* Two paths to one chain: their last components are the same, in the same *)
(* directory.                                                              *)
LEMMA SameParent ==
    ASSUME NEW s, NEW ch, NEW D, Struct(s, ch, D),
           NEW node1, NEW n1, NEW r1, Under(s, ch, D, node1, n1, r1),
           NEW node2, NEW n2, NEW r2, Under(s, ch, D, node2, n2, r2),
           r1.entry.start = r2.entry.start, r1.entry.start # 0
    PROVE  n1 = n2 /\ node1.entry.start = node2.entry.start /\ node1.entry.start # 0
<1>1. r1 # Nothing /\ r2 # Nothing
  BY NothingIs
<1>2. PICK x : Holds(s, ch, D, node1, n1, r1, x)
  BY <1>1 DEF Under
<1>3. PICK y : Holds(s, ch, D, node2, n2, r2, y)
  BY <1>1 DEF Under
<1>4. r1.entry = At(s, x) /\ r2.entry = At(s, y)
  BY <1>2, <1>3, HoldsFacts
<1>5. x = y
  BY <1>2, <1>3, <1>4 DEF Holds, Struct, OwnersDiffer
<1>6. /\ node1.entry.start \in DOMAIN ch /\ node2.entry.start \in DOMAIN ch
      /\ x[1] \in Range(ch[node1.entry.start]) /\ x[1] \in Range(ch[node2.entry.start])
  BY <1>2, <1>3, <1>5 DEF Holds, Struct, Dirs
<1>7. node1.entry.start = node2.entry.start
  BY <1>6 DEF Struct, Layout
<1>8. node1.entry.start # 0
  BY <1>6, Sizes DEF Struct, Layout
<1>9. n1 = n2
  BY <1>2, <1>3, <1>5 DEF Holds
<1>10. QED
  BY <1>7, <1>8, <1>9

(* No chain is reached by two paths of names. *)
LEMMA OnePath ==
    ASSUME NEW s, NEW ch, NEW D, Struct(s, ch, D), NEW p \in Seq(Names), NEW q \in Seq(Names),
           ResolvePath(s, p).entry.start = ResolvePath(s, q).entry.start,
           ResolvePath(s, p).entry.start # 0
    PROVE  p = q
<1>1. p \in Seq(Names \cup {".."}) /\ q \in Seq(Names \cup {".."})
  OBVIOUS
<1>2. PICK g \in [0 .. Len(p) -> GoodNodes(s, ch, D)] : IsPath(s, p, g)
  BY <1>1, PathTrace
<1>3. PICK f \in [0 .. Len(q) -> GoodNodes(s, ch, D)] : IsPath(s, q, f)
  BY <1>1, PathTrace
<1>4. PICK m \in Nat : m = Len(p)
  OBVIOUS
<1>5. PICK n \in Nat : n = Len(q)
  OBVIOUS
<1>6. \A i \in 1 .. m : Under(s, ch, D, g[i - 1], p[i], g[i])
  <2> TAKE i \in 1 .. m
  <2>1. i - 1 \in 0 .. m /\ i \in 1 .. Len(p) /\ p[i] \in Names
    BY <1>4
  <2>2. g[i - 1] \in GoodNodes(s, ch, D) /\ g[i] = Lookup(s, g[i - 1], p[i])
    BY <1>2, <1>4, <2>1 DEF IsPath
  <2>3. QED
    BY <2>1, <2>2, LookupIs
<1>7. \A i \in 1 .. n : Under(s, ch, D, f[i - 1], q[i], f[i])
  <2> TAKE i \in 1 .. n
  <2>1. i - 1 \in 0 .. n /\ i \in 1 .. Len(q) /\ q[i] \in Names
    BY <1>5
  <2>2. f[i - 1] \in GoodNodes(s, ch, D) /\ f[i] = Lookup(s, f[i - 1], q[i])
    BY <1>3, <1>5, <2>1 DEF IsPath
  <2>3. QED
    BY <2>1, <2>2, LookupIs
<1>8. /\ g[0].entry.start = Root /\ f[0].entry.start = Root /\ Root # 0
  BY <1>2, <1>3, DirectoryIs, Sizes DEF IsPath
<1>9. /\ \A i \in 1 .. m : g[i].entry.start # Root
      /\ \A i \in 1 .. n : f[i].entry.start # Root
  <2>1. ASSUME NEW node, NEW name, NEW r, Under(s, ch, D, node, name, r) PROVE r.entry.start # Root
    <3>1. CASE r = Nothing
      BY <1>8, <3>1, NothingIs
    <3>2. CASE \E x : Holds(s, ch, D, node, name, r, x)
      BY <3>2, HoldsFacts
    <3>3. QED
      BY <2>1, <3>1, <3>2 DEF Under
  <2>2. QED
    BY <1>6, <1>7, <2>1
<1> DEFINE Agree(i, j) == i = j /\ \A k \in 1 .. i : p[k] = q[k]
           S == {i \in 0 .. m : \A j \in 0 .. n :
                    g[i].entry.start = f[j].entry.start /\ g[i].entry.start # 0 => Agree(i, j)}
<1>10. 0 \in S
  <2>1. ASSUME NEW j \in 0 .. n, g[0].entry.start = f[j].entry.start PROVE Agree(0, j)
    <3>1. j = 0
      BY <1>8, <1>9, <2>1
    <3>2. QED
      BY <3>1
  <2>2. QED
    BY <2>1
<1>11. ASSUME NEW i \in 1 .. m, i - 1 \in S PROVE i \in S
  <2>1. ASSUME NEW j \in 0 .. n, g[i].entry.start = f[j].entry.start, g[i].entry.start # 0
        PROVE  Agree(i, j)
    <3>1. j \in 1 .. n /\ j - 1 \in 0 .. n
      BY <1>8, <1>9, <2>1
    <3>2. /\ p[i] = q[j] /\ g[i - 1].entry.start = f[j - 1].entry.start
          /\ g[i - 1].entry.start # 0
      BY <1>6, <1>7, <2>1, <3>1, SameParent
    <3>3. i - 1 = j - 1 /\ \A k \in 1 .. i - 1 : p[k] = q[k]
      BY <1>11, <3>1, <3>2
    <3>4. i = j /\ \A k \in 1 .. i : k = i \/ k \in 1 .. i - 1
      BY <3>1, <3>3
    <3>5. QED
      BY <3>2, <3>3, <3>4
  <2>2. QED
    BY <2>1
<1>12. m \in S
  <2> HIDE DEF S
  <2>1. 0 .. m \subseteq S
    BY <1>10, <1>11, RoundInduction
  <2>2. QED
    BY <2>1
<1>13. g[m].entry.start = f[n].entry.start /\ g[m].entry.start # 0
  BY <1>2, <1>3, <1>4, <1>5 DEF IsPath
<1>14. m = n /\ \A k \in 1 .. m : p[k] = q[k]
  <2>1. n \in 0 .. n
    OBVIOUS
  <2> HIDE DEF Agree
  <2>2. Agree(m, n)
    BY <1>12, <1>13, <2>1
  <2>3. QED
    BY <2>2 DEF Agree
<1>15. Len(p) = Len(q) /\ \A k \in 1 .. Len(p) : p[k] = q[k]
  BY <1>4, <1>5, <1>14
<1>16. QED
  BY <1>15

-----------------------------------------------------------------------------
(* Paths, component by component.                                          *)

Components == Names \cup {".."}

LEMMA ResolveNone ==
    ASSUME NEW s, NEW ch, NEW D, Struct(s, ch, D)
    PROVE  ResolvePath(s, <<>>) = Directory(Root)
<1>0. <<>> \in Seq(Names \cup {".."})
  OBVIOUS
<1>1. PICK path : path = <<>> /\ path \in Seq(Names \cup {".."})
  BY <1>0
<1>2. PICK g \in [0 .. Len(path) -> GoodNodes(s, ch, D)] : IsPath(s, path, g)
  BY <1>1, PathTrace
<1>3. Len(path) = 0
  BY <1>1
<1>4. QED
  BY <1>1, <1>2, <1>3 DEF IsPath

LEMMA ResolveAppend ==
    ASSUME NEW s, NEW ch, NEW D, Struct(s, ch, D), NEW path \in Seq(Components), NEW n \in Components
    PROVE  ResolvePath(s, Append(path, n)) = Lookup(s, ResolvePath(s, path), n)
<1>0. Append(path, n) \in Seq(Components)
  OBVIOUS
<1>1. PICK long : long = Append(path, n) /\ long \in Seq(Components)
  BY <1>0
<1>2. PICK g \in [0 .. Len(long) -> GoodNodes(s, ch, D)] : IsPath(s, long, g)
  BY <1>1, PathTrace DEF Components
<1>3. PICK f \in [0 .. Len(path) -> GoodNodes(s, ch, D)] : IsPath(s, path, f)
  BY PathTrace DEF Components
<1>4. PICK m \in Nat : m = Len(path)
  OBVIOUS
<1>5. /\ Len(long) = m + 1 /\ long[m + 1] = n
      /\ \A i \in 1 .. m : long[i] = path[i]
  BY <1>1, <1>4
<1> DEFINE S == {i \in 0 .. m : g[i] = f[i]}
<1>6. 0 \in S
  BY <1>2, <1>3 DEF IsPath
<1>7. ASSUME NEW i \in 1 .. m, i - 1 \in S PROVE i \in S
  <2>1. i \in 1 .. m + 1 /\ i \in 0 .. m
    OBVIOUS
  <2>2. g[i] = Lookup(s, g[i - 1], path[i]) /\ f[i] = Lookup(s, f[i - 1], path[i])
    BY <1>2, <1>3, <1>4, <1>5, <2>1 DEF IsPath
  <2>3. QED
    BY <1>7, <2>1, <2>2
<1>8. g[m] = f[m]
  <2> HIDE DEF S
  <2>1. 0 .. m \subseteq S
    BY <1>6, <1>7, RoundInduction
  <2>2. QED
    BY <2>1 DEF S
<1>9. m + 1 \in 1 .. m + 1 /\ (m + 1) - 1 = m
  OBVIOUS
<1>10. g[m + 1] = Lookup(s, g[m], n)
  BY <1>2, <1>5, <1>9 DEF IsPath
<1>11. ResolvePath(s, long) = g[m + 1] /\ ResolvePath(s, path) = f[m]
  BY <1>2, <1>3, <1>4, <1>5 DEF IsPath
<1>12. QED
  BY <1>1, <1>8, <1>10, <1>11

(* The node that the first i components of a path lead to. *)
Upto(s, path, i) == ResolvePath(s, SubSeq(path, 1, i))

LEMMA UptoIs ==
    ASSUME NEW s, NEW ch, NEW D, Struct(s, ch, D), NEW path \in Seq(Components)
    PROVE  /\ Upto(s, path, 0) = Directory(Root)
           /\ Upto(s, path, Len(path)) = ResolvePath(s, path)
           /\ \A i \in 0 .. Len(path) : Upto(s, path, i) \in GoodNodes(s, ch, D)
           /\ \A i \in 1 .. Len(path) : Upto(s, path, i) = Lookup(s, Upto(s, path, i - 1), path[i])
<1>1. PICK m \in Nat : m = Len(path)
  OBVIOUS
<1>2. \A i \in 0 .. m : SubSeq(path, 1, i) \in Seq(Components)
  BY <1>1
<1>3. SubSeq(path, 1, 0) = <<>> /\ SubSeq(path, 1, m) = path
  BY <1>1
<1>4. \A i \in 1 .. m : SubSeq(path, 1, i) = Append(SubSeq(path, 1, i - 1), path[i])
  BY <1>1
<1>5. Upto(s, path, 0) = Directory(Root) /\ Upto(s, path, m) = ResolvePath(s, path)
  BY <1>3, ResolveNone DEF Upto
<1>6. ASSUME NEW i \in 0 .. m PROVE Upto(s, path, i) \in GoodNodes(s, ch, D)
  <2>1. PICK p : p = SubSeq(path, 1, i) /\ p \in Seq(Components)
    BY <1>2
  <2>2. ResolvePath(s, p) \in GoodNodes(s, ch, D)
    BY <2>1, ResolvedIs DEF Components
  <2>3. QED
    BY <2>1, <2>2 DEF Upto
<1>7. ASSUME NEW i \in 1 .. m
      PROVE  Upto(s, path, i) = Lookup(s, Upto(s, path, i - 1), path[i])
  <2>1. i - 1 \in 0 .. m /\ path[i] \in Components
    BY <1>1
  <2>2. PICK p \in Seq(Components) : p = SubSeq(path, 1, i - 1)
    BY <1>2, <2>1
  <2>3. SubSeq(path, 1, i) = Append(p, path[i])
    BY <1>4, <2>2
  <2>4. ResolvePath(s, Append(p, path[i])) = Lookup(s, ResolvePath(s, p), path[i])
    BY <2>1, ResolveAppend
  <2>5. QED
    BY <2>2, <2>3, <2>4 DEF Upto
<1>8. QED
  BY <1>1, <1>5, <1>6, <1>7

(* The names in a directory differ. *)
Differ(s, ch, D) ==
    \A d \in D : \A x, y \in Live(s, ch, D) :
        /\ x[1] \in Range(ch[d]) /\ y[1] \in Range(ch[d])
        /\ At(s, x).name = At(s, y).name
        => x = y

(* findEntry finds the entry with a name. *)
LEMMA LookupFinds ==
    ASSUME NEW s, NEW ch, NEW D, Struct(s, ch, D), Differ(s, ch, D),
           NEW node \in GoodNodes(s, ch, D), node.entry.dir,
           NEW x \in Live(s, ch, D), x[1] \in Range(ch[node.entry.start])
    PROVE  Lookup(s, node, At(s, x).name) = NodeAt(s, x)
<1> DEFINE n == At(s, x).name
           d == node.entry.start
           r == Lookup(s, node, n)
<1>1. n \in Names /\ n # ".." /\ x \in Slot
  BY NamesAreReal DEF Live, Real, DirSlots
<1>2. d \in D
  BY NodeFacts
<1>3. x \in Named(s, d, n)
  <2>1. x \in Slots(s, d)
    BY <1>1, <1>2, SlotsOfDir DEF Slot
  <2>2. QED
    BY <2>1 DEF Named
<1>4. Under(s, ch, D, node, n, r)
  BY <1>1, LookupIs
<1>5. CASE r = Nothing
  <2>1. r = NodeAt(s, First(s, Named(s, d, n)))
    BY <1>1, <1>3 DEF Lookup, NodeAt
  <2>2. First(s, Named(s, d, n)) \in Named(s, d, n)
    <3>1. Named(s, d, n) \in SUBSET Slots(s, d)
      BY DEF Named
    <3>2. QED
      BY <1>2, <1>3, <3>1, FirstIsNamed
  <2>3. At(s, First(s, Named(s, d, n))).name = n
    BY <2>2 DEF Named
  <2>4. r.entry.name = n
    BY <2>1, <2>3, NodeAtIs
  <2>5. QED
    BY <1>1, <1>5, <2>4, NothingIs, NoEntryIs, NamesAreReal
<1>6. CASE \E y : Holds(s, ch, D, node, n, r, y)
  <2>1. PICK y : Holds(s, ch, D, node, n, r, y)
    BY <1>6
  <2>2. y = x
    BY <1>2, <2>1 DEF Holds, Differ
  <2>3. QED
    BY <2>1, <2>2 DEF Holds
<1>7. QED
  BY <1>4, <1>5, <1>6 DEF Under

-----------------------------------------------------------------------------
(* An edit of the tree: u has the entries of s in the same directories,    *)
(* but for slot x, and what x names is a file or an empty directory.       *)

InDir(ch, D, y, d) == d \in D /\ y[1] \in Range(ch[d])

SameEntries(s, ch, D, u, ch2, D2, x) ==
    \A y : y # x => /\ y \in Live(s, ch, D) <=> y \in Live(u, ch2, D2)
                    /\ y \in Live(s, ch, D) => At(u, y) = At(s, y)
SamePlaces(s, ch, D, ch2, D2, x) ==
    \A y \in Live(s, ch, D) \cup {x} : \A d : InDir(ch, D, y, d) <=> InDir(ch2, D2, y, d)
Childless(s, ch, D, x) ==
    x \in Live(s, ch, D) /\ At(s, x).dir =>
        \A y \in Live(s, ch, D) : y[1] \notin Range(ch[At(s, x).start])

Edit(s, ch, D, u, ch2, D2, x) ==
    /\ Struct(s, ch, D) /\ Differ(s, ch, D) /\ Childless(s, ch, D, x)
    /\ Struct(u, ch2, D2) /\ Differ(u, ch2, D2) /\ Childless(u, ch2, D2, x)
    /\ SameEntries(s, ch, D, u, ch2, D2, x) /\ SamePlaces(s, ch, D, ch2, D2, x)

LEMMA EditBack ==
    ASSUME NEW s, NEW ch, NEW D, NEW u, NEW ch2, NEW D2, NEW x, Edit(s, ch, D, u, ch2, D2, x)
    PROVE  Edit(u, ch2, D2, s, ch, D, x)
<1>1. SameEntries(u, ch2, D2, s, ch, D, x)
  BY DEF Edit, SameEntries
<1>2. SamePlaces(u, ch2, D2, ch, D, x)
  BY DEF Edit, SameEntries, SamePlaces
<1>3. QED
  BY <1>1, <1>2 DEF Edit

LEMMA PathKept ==
    ASSUME NEW s, NEW ch, NEW D, NEW u, NEW ch2, NEW D2, NEW x, Edit(s, ch, D, u, ch2, D2, x),
           NEW p \in Seq(Names)
    PROVE  \/ ResolvePath(s, p) = Nothing
           \/ ResolvePath(s, p) = ResolvePath(u, p)
           \/ x \in Live(s, ch, D) /\ ResolvePath(s, p) = NodeAt(s, x)
<1> DEFINE Kept(i) == \/ Upto(s, p, i) = Nothing
                      \/ Upto(s, p, i) = Upto(u, p, i)
                      \/ x \in Live(s, ch, D) /\ Upto(s, p, i) = NodeAt(s, x)
           S == {i \in 0 .. Len(p) : Kept(i)}
<1>1. p \in Seq(Components) /\ \A i \in 1 .. Len(p) : p[i] \in Names /\ p[i] \in Components
  BY DEF Components
<1>2. PICK m \in Nat : m = Len(p)
  OBVIOUS
<1>3. Struct(s, ch, D) /\ Struct(u, ch2, D2) /\ Differ(u, ch2, D2)
  BY DEF Edit
<1>4. /\ Upto(s, p, 0) = Directory(Root) /\ Upto(s, p, m) = ResolvePath(s, p)
      /\ \A i \in 0 .. m : Upto(s, p, i) \in GoodNodes(s, ch, D)
      /\ \A i \in 1 .. m : Upto(s, p, i) = Lookup(s, Upto(s, p, i - 1), p[i])
  BY <1>1, <1>2, <1>3, UptoIs
<1>5. /\ Upto(u, p, 0) = Directory(Root) /\ Upto(u, p, m) = ResolvePath(u, p)
      /\ \A i \in 0 .. m : Upto(u, p, i) \in GoodNodes(u, ch2, D2)
      /\ \A i \in 1 .. m : Upto(u, p, i) = Lookup(u, Upto(u, p, i - 1), p[i])
  BY <1>1, <1>2, <1>3, UptoIs
<1>6. 0 \in S
  BY <1>2, <1>4, <1>5
<1>7. ASSUME NEW i \in 1 .. m, Kept(i - 1) PROVE Kept(i)
  <2>1. PICK node : node = Upto(s, p, i - 1)
    OBVIOUS
  <2>2. PICK r : r = Upto(s, p, i)
    OBVIOUS
  <2>3. /\ i - 1 \in 0 .. m /\ node \in GoodNodes(s, ch, D) /\ r = Lookup(s, node, p[i])
        /\ Upto(u, p, i - 1) \in GoodNodes(u, ch2, D2) /\ Upto(u, p, i) = Lookup(u, Upto(u, p, i - 1), p[i])
    BY <1>4, <1>5, <2>1, <2>2
  <2>4. Under(s, ch, D, node, p[i], r)
    BY <1>1, <1>2, <1>3, <2>3, LookupIs DEF Components
  <2>5. CASE r = Nothing
    BY <2>2, <2>5
  <2>6. ASSUME NEW y, Holds(s, ch, D, node, p[i], r, y), y # x PROVE r = Upto(u, p, i)
    <3>1. /\ y \in Live(s, ch, D) /\ r = NodeAt(s, y) /\ At(s, y).name = p[i]
          /\ node.entry.dir /\ InDir(ch, D, y, node.entry.start)
      BY <2>6 DEF Holds, InDir
    <3>2. node # Nothing
      BY <3>1, NothingIs
    <3>3. ~(x \in Live(s, ch, D) /\ node = NodeAt(s, x))
      <4> SUFFICES ASSUME x \in Live(s, ch, D), node = NodeAt(s, x) PROVE FALSE
        OBVIOUS
      <4>1. node.entry = At(s, x)
        BY NodeAtIs
      <4>2. QED
        BY <3>1, <4>1 DEF Edit, Childless, InDir
    <3>4. node = Upto(u, p, i - 1) /\ node \in GoodNodes(u, ch2, D2)
      BY <1>7, <2>1, <2>3, <3>2, <3>3
    <3>5. y \in Live(u, ch2, D2) /\ At(u, y) = At(s, y) /\ InDir(ch2, D2, y, node.entry.start)
      BY <2>6, <3>1 DEF Edit, SameEntries, SamePlaces
    <3>6. Lookup(u, node, At(u, y).name) = NodeAt(u, y)
      BY <1>3, <3>1, <3>4, <3>5, LookupFinds DEF InDir
    <3>7. NodeAt(u, y) = NodeAt(s, y)
      BY <3>5 DEF NodeAt
    <3>8. QED
      BY <2>3, <3>1, <3>4, <3>5, <3>6, <3>7
  <2>7. ASSUME Holds(s, ch, D, node, p[i], r, x) PROVE x \in Live(s, ch, D) /\ r = NodeAt(s, x)
    BY <2>7 DEF Holds
  <2>8. CASE \E y : Holds(s, ch, D, node, p[i], r, y)
    BY <2>2, <2>6, <2>7, <2>8
  <2>9. QED
    BY <2>4, <2>5, <2>8 DEF Under
<1>8. m \in S
  <2>1. ASSUME NEW i \in 1 .. m, i - 1 \in S PROVE i \in S
    <3>1. i \in 0 .. Len(p)
      BY <1>2
    <3> HIDE DEF Kept
    <3>2. Kept(i - 1)
      BY <2>1
    <3>3. QED
      BY <1>7, <3>1, <3>2
  <2> HIDE DEF S
  <2>2. 0 .. m \subseteq S
    BY <1>6, <2>1, RoundInduction
  <2>3. QED
    BY <2>2
<1>9. QED
  BY <1>4, <1>5, <1>8

(* A path keeps what it leads to, unless that is slot x. *)
LEMMA NodeKept ==
    ASSUME NEW s, NEW ch, NEW D, NEW u, NEW ch2, NEW D2, NEW x, Edit(s, ch, D, u, ch2, D2, x),
           NEW p \in Seq(Names),
           x \in Live(s, ch, D) => ResolvePath(s, p) # NodeAt(s, x),
           x \in Live(u, ch2, D2) => ResolvePath(u, p) # NodeAt(u, x)
    PROVE  ResolvePath(u, p) = ResolvePath(s, p)
<1>1. ResolvePath(s, p) = Nothing \/ ResolvePath(s, p) = ResolvePath(u, p)
  BY PathKept
<1>2. Edit(u, ch2, D2, s, ch, D, x)
  BY EditBack
<1>3. ResolvePath(u, p) = Nothing \/ ResolvePath(s, p) = ResolvePath(u, p)
  BY <1>2, PathKept
<1>4. QED
  BY <1>1, <1>3

(* The path to an entry: its name, in its directory. *)
LEMMA PathOfEntry ==
    ASSUME NEW s, NEW ch, NEW D, Struct(s, ch, D), NEW p \in Seq(Names),
           NEW x \in Live(s, ch, D), ResolvePath(s, p) = NodeAt(s, x)
    PROVE  /\ p # <<>> /\ Front(p) \in Seq(Names) /\ Last(p) = At(s, x).name
           /\ p = Append(Front(p), Last(p))
           /\ ResolvePath(s, Front(p)).entry.dir
           /\ InDir(ch, D, x, ResolvePath(s, Front(p)).entry.start)
<1>1. p # <<>>
  <2> SUFFICES ASSUME p = <<>> PROVE FALSE
    OBVIOUS
  <2>1. NodeAt(s, x) = Directory(Root)
    BY ResolveNone
  <2>2. NodeAt(s, x).entry.name = ".." /\ NodeAt(s, x).entry = At(s, x)
    BY <2>1, NodeAtIs DEF Directory, DirEntry
  <2>3. At(s, x).name \in Names
    BY DEF Live, Real
  <2>4. QED
    BY <2>2, <2>3, NamesAreReal
<1>2. PICK m \in Nat : m = Len(p) /\ m >= 1
  BY <1>1
<1>3. Front(p) = SubSeq(p, 1, m - 1) /\ Last(p) = p[m] /\ p[m] \in Names
  BY <1>2 DEF Front, Last
<1>4. Front(p) \in Seq(Names) /\ p = Append(Front(p), Last(p))
  BY <1>2, <1>3
<1>5. p \in Seq(Components) /\ p[m] \in Components /\ m \in 1 .. m /\ m - 1 \in 0 .. m
  BY <1>2, <1>3 DEF Components
<1>6. /\ Upto(s, p, m) = ResolvePath(s, p) /\ Upto(s, p, m - 1) \in GoodNodes(s, ch, D)
      /\ Upto(s, p, m) = Lookup(s, Upto(s, p, m - 1), p[m])
  BY <1>2, <1>5, UptoIs
<1>7. PICK up : up = Upto(s, p, m - 1) /\ up = ResolvePath(s, Front(p))
  BY <1>3 DEF Upto
<1>8. Under(s, ch, D, up, p[m], NodeAt(s, x))
  BY <1>3, <1>6, <1>7, LookupIs
<1>9. NodeAt(s, x) # Nothing
  BY NodeAtIs, NothingIs, NoEntryIs, NamesAreReal DEF Live, Real
<1>10. PICK y : Holds(s, ch, D, up, p[m], NodeAt(s, x), y)
  BY <1>8, <1>9 DEF Under
<1>11. y = x
  BY <1>10, NodeAtIs DEF Holds
<1>12. QED
  BY <1>1, <1>3, <1>4, <1>7, <1>10, <1>11 DEF Holds, InDir

LEMMA OneName ==
    ASSUME NEW s, NEW ch, NEW D, Struct(s, ch, D), NEW x \in Live(s, ch, D),
           NEW p \in Seq(Names), ResolvePath(s, p) = NodeAt(s, x),
           NEW q \in Seq(Names), ResolvePath(s, q) = NodeAt(s, x)
    PROVE  p = q
<1>1. /\ Front(p) \in Seq(Names) /\ p = Append(Front(p), At(s, x).name)
      /\ InDir(ch, D, x, ResolvePath(s, Front(p)).entry.start)
  BY PathOfEntry
<1>2. /\ Front(q) \in Seq(Names) /\ q = Append(Front(q), At(s, x).name)
      /\ InDir(ch, D, x, ResolvePath(s, Front(q)).entry.start)
  BY PathOfEntry
<1>3. PICK c : c = ResolvePath(s, Front(p)).entry.start
  OBVIOUS
<1>4. PICK d : d = ResolvePath(s, Front(q)).entry.start
  OBVIOUS
<1>5. c \in DOMAIN ch /\ d \in DOMAIN ch /\ x[1] \in Range(ch[c]) /\ x[1] \in Range(ch[d])
  BY <1>1, <1>2, <1>3, <1>4 DEF InDir, Struct, Dirs
<1>6. c = d /\ c # 0
  BY <1>5, Sizes DEF Struct, Layout
<1>7. Front(p) = Front(q)
  BY <1>1, <1>2, <1>3, <1>4, <1>6, OnePath
<1>8. QED
  BY <1>1, <1>2, <1>7

(* An edit of the entry that path p0 leads to changes no other path. *)
LEMMA TreeKept ==
    ASSUME NEW s, NEW ch, NEW D, NEW u, NEW ch2, NEW D2, NEW x, Edit(s, ch, D, u, ch2, D2, x),
           NEW p0 \in Seq(Names),
           x \in Live(s, ch, D) => ResolvePath(s, p0) = NodeAt(s, x),
           x \in Live(u, ch2, D2) => ResolvePath(u, p0) = NodeAt(u, x),
           NEW p \in Seq(Names), p # p0
    PROVE  ResolvePath(u, p) = ResolvePath(s, p)
<1>1. x \in Live(s, ch, D) => ResolvePath(s, p) # NodeAt(s, x)
  BY OneName DEF Edit
<1>2. x \in Live(u, ch2, D2) => ResolvePath(u, p) # NodeAt(u, x)
  BY OneName DEF Edit
<1>3. QED
  BY <1>1, <1>2, NodeKept

(* The entry at x is found where its directory was. *)
LEMMA EntryFound ==
    ASSUME NEW s, NEW ch, NEW D, NEW u, NEW ch2, NEW D2, NEW x, Edit(s, ch, D, u, ch2, D2, x),
           NEW up \in Seq(Names), ResolvePath(s, up).entry.dir,
           x \in Live(s, ch, D) => ~At(s, x).dir,
           x \in Live(u, ch2, D2), InDir(ch2, D2, x, ResolvePath(s, up).entry.start)
    PROVE  ResolvePath(u, Append(up, At(u, x).name)) = NodeAt(u, x)
<1>1. ResolvePath(s, up) # Nothing
  BY NothingIs
<1>2. ~(x \in Live(s, ch, D) /\ ResolvePath(s, up) = NodeAt(s, x))
  BY NodeAtIs
<1>3. ResolvePath(u, up) = ResolvePath(s, up)
  BY <1>1, <1>2, PathKept
<1>4. up \in Seq(Components) /\ up \in Seq(Names \cup {".."})
  BY DEF Components
<1>5. PICK node : node = ResolvePath(u, up) /\ node \in GoodNodes(u, ch2, D2)
  BY <1>4, ResolvedIs DEF Edit
<1>6. Lookup(u, node, At(u, x).name) = NodeAt(u, x)
  BY <1>3, <1>5, LookupFinds DEF Edit, InDir
<1>7. At(u, x).name \in Components
  BY DEF Live, Real, Components
<1>8. QED
  BY <1>4, <1>5, <1>6, <1>7, ResolveAppend DEF Edit

-----------------------------------------------------------------------------
(* What an edit does to the chains, when it drops the one of head h.       *)

(* The other chains are kept, those of directories may grow; a new head is *)
(* what x names.                                                           *)
HeadsKept(ch, h, u, ch2, D2, x) ==
    /\ \A g \in (DOMAIN ch) \ {h} : g \in DOMAIN ch2 /\ Range(ch[g]) \subseteq Range(ch2[g])
    /\ \A g \in DOMAIN ch2 : \/ g \in (DOMAIN ch) \ {h}
                             \/ x \in Live(u, ch2, D2) /\ g = At(u, x).start
(* The other files are untouched. *)
FilesKept(s, ch, D, h, u, ch2, D2) ==
    \A g \in ((DOMAIN ch) \ D) \ {h} :
        g \notin D2 /\ ch2[g] = ch[g] /\ \A c \in Range(ch[g]) : u.data[c] = s.data[c]
(* A cluster that was free or in a chain is so afterwards. *)
InChain(ch, c) == \E g \in DOMAIN ch : c \in Range(ch[g])
Accounted(s, ch, u, ch2) ==
    \A c \in Clusters :
        u.fat[c] # FREE /\ (s.fat[c] = FREE \/ InChain(ch, c)) => InChain(ch2, c)

Rework(s, ch, D, h, u, ch2, D2, x) ==
    /\ Edit(s, ch, D, u, ch2, D2, x)
    /\ HeadsKept(ch, h, u, ch2, D2, x) /\ FilesKept(s, ch, D, h, u, ch2, D2)
Balanced(s, ch, D, h, u, ch2, D2, x) ==
    Rework(s, ch, D, h, u, ch2, D2, x) /\ Accounted(s, ch, u, ch2)

(* No other entry in the directory of x has the name. *)
NameIsFree(s, ch, D, x, n) ==
    \A y \in Live(s, ch, D) \ {x} : \A d :
        InDir(ch, D, x, d) /\ InDir(ch, D, y, d) => At(s, y).name # n

(* Where the entries of the volume were, when a chain was dropped. *)
LEMMA OldPlaces ==
    ASSUME NEW s, NEW ch, NEW D, NEW x, NEW h, NEW t, NEW q, NEW e, NEW D2,
           Change(s, ch, D, x, h, t, q, e, D2), NEW y \in Live(s, ch, D) \cup {x}
    PROVE  /\ \E d \in D \ {h} : y[1] \in Range(ch[d])
           /\ \A d : InDir(ch, D, y, d) => d # h
           /\ y[1] \notin Range(q)
<1>1. PICK d \in D : y[1] \in Range(ch[d]) /\ d # h
  <2>1. CASE y = x
    BY <2>1, ChangePlace
  <2>2. CASE y # x
    <3>1. PICK d \in D : y[1] \in Range(ch[d])
      BY <2>2 DEF Live, DirSlots
    <3>2. d # h
      BY <2>2, <3>1 DEF Change
    <3>3. QED
      BY <3>1, <3>2
  <2>3. QED
    BY <2>1, <2>2
<1>2. d \in (DOMAIN ch) \ {h}
  BY <1>1 DEF Change, Struct, Dirs
<1>3. \A g : InDir(ch, D, y, g) => g = d
  <2> SUFFICES ASSUME NEW g, InDir(ch, D, y, g) PROVE g = d
    OBVIOUS
  <2>1. g \in DOMAIN ch /\ y[1] \in Range(ch[g])
    BY DEF InDir, Change, Struct, Dirs
  <2>2. QED
    BY <1>1, <1>2, <2>1 DEF Change, Struct, Layout
<1>4. y[1] \notin Range(q)
  BY <1>1, <1>2 DEF Change
<1>5. QED
  BY <1>1, <1>3, <1>4

LEMMA ChangeKeepsPlaces ==
    ASSUME NEW s, NEW ch, NEW D, NEW x, NEW h, NEW t, NEW q, NEW e, NEW D2,
           Change(s, ch, D, x, h, t, q, e, D2)
    PROVE  SamePlaces(s, ch, D, Moved(ch, h, q), D2, x)
<1> DEFINE ch2 == Moved(ch, h, q)
<1>1. Joined(ch, h, q, ch2)
  BY MovedFacts
<1> HIDE DEF ch2
<1>2. D \ {h} \subseteq D2 /\ D \subseteq DOMAIN ch
  BY DEF Change, Fits, Gone, FileIn, DirIn, Struct, Dirs
<1> SUFFICES ASSUME NEW y \in Live(s, ch, D) \cup {x}, NEW d
             PROVE  InDir(ch, D, y, d) <=> InDir(ch2, D2, y, d)
  BY DEF SamePlaces, ch2
<1>3. (\A g : InDir(ch, D, y, g) => g # h) /\ y[1] \notin Range(q)
  BY OldPlaces
<1>4. ASSUME InDir(ch, D, y, d) PROVE InDir(ch2, D2, y, d)
  BY <1>1, <1>2, <1>3, <1>4 DEF InDir, Joined
<1>5. ASSUME InDir(ch2, D2, y, d) PROVE InDir(ch, D, y, d)
  <2>1. CASE d \in D \ {h}
    BY <1>1, <1>2, <1>5, <2>1 DEF InDir, Joined
  <2>2. CASE d \notin D \ {h}
    <3>1. DirIn(ch, D, t, h, x, e, q, D2) /\ d = e.start
      BY <1>5, <2>2 DEF InDir, Change, Fits, Gone, FileIn, DirIn
    <3>2. q = <<d>> /\ d \in Clusters /\ q # <<>> /\ q[1] = d
      BY <3>1 DEF DirIn
    <3>3. y[1] \in Range(q)
      BY <1>1, <1>5, <3>2 DEF InDir, Joined
    <3>4. QED
      BY <1>3, <3>3
  <2>3. QED
    BY <2>1, <2>2
<1>6. QED
  BY <1>4, <1>5

(* A change is an edit of the tree. *)
LEMMA ChangeEdits ==
    ASSUME NEW s, NEW ch, NEW D, NEW x, NEW h, NEW t, NEW q, NEW e, NEW D2,
           Change(s, ch, D, x, h, t, q, e, D2), Differ(s, ch, D),
           e.name \in Names => NameIsFree(s, ch, D, x, e.name)
    PROVE  Edit(s, ch, D, PutEntry(t, x, e), Moved(ch, h, q), D2, x)
<1>1. PICK u : u = PutEntry(t, x, e)
  OBVIOUS
<1>2. PICK ch2 : ch2 = Moved(ch, h, q)
  OBVIOUS
<1>3. Struct(s, ch, D) /\ Struct(u, ch2, D2)
  BY <1>1, <1>2, Changed DEF Change
<1>4. ASSUME NEW y \in Live(u, ch2, D2)
      PROVE  \/ y = x /\ At(u, y) = e /\ e.name \in Names
             \/ y # x /\ y \in Live(s, ch, D) /\ At(u, y) = At(s, y)
  BY <1>1, <1>2, LiveAfter
<1>5. \A y \in Live(s, ch, D) \ {x} : y \in Live(u, ch2, D2) /\ At(u, y) = At(s, y)
  BY <1>1, <1>2, LiveKept
<1>6. SameEntries(s, ch, D, u, ch2, D2, x)
  BY <1>4, <1>5 DEF SameEntries
<1>7. SamePlaces(s, ch, D, ch2, D2, x)
  BY <1>2, ChangeKeepsPlaces
<1>8. Differ(u, ch2, D2)
  <2> SUFFICES ASSUME NEW d \in D2, NEW y \in Live(u, ch2, D2), NEW z \in Live(u, ch2, D2),
                      y[1] \in Range(ch2[d]), z[1] \in Range(ch2[d]), At(u, y).name = At(u, z).name
               PROVE  y = z
    BY DEF Differ
  <2>1. ASSUME NEW v \in Live(u, ch2, D2), v[1] \in Range(ch2[d]) PROVE InDir(ch, D, v, d)
    BY <1>4, <1>7, <2>1 DEF SamePlaces, InDir
  <2>2. InDir(ch, D, y, d) /\ InDir(ch, D, z, d)
    BY <2>1
  <2>3. CASE y # x /\ z # x
    BY <1>4, <2>2, <2>3 DEF InDir, Differ
  <2>4. CASE y = x /\ z # x
    BY <1>4, <2>2, <2>4 DEF NameIsFree
  <2>5. CASE y # x /\ z = x
    BY <1>4, <2>2, <2>5 DEF NameIsFree
  <2>6. QED
    BY <2>3, <2>4, <2>5
<1>9. Childless(s, ch, D, x)
  <2> SUFFICES ASSUME x \in Live(s, ch, D), At(s, x).dir
               PROVE  \A y \in Live(s, ch, D) : y[1] \notin Range(ch[At(s, x).start])
    BY DEF Childless
  <2>1. Backed(ch, D, At(s, x)) /\ At(s, x).start = h
    BY DEF Change, Struct, AllBacked, Owned, Live
  <2>2. QED
    BY <2>1 DEF Backed, Change
<1>10. Childless(u, ch2, D2, x)
  <2> SUFFICES ASSUME x \in Live(u, ch2, D2), At(u, x).dir, NEW y \in Live(u, ch2, D2)
               PROVE  y[1] \notin Range(ch2[At(u, x).start])
    BY DEF Childless
  <2>1. At(u, x) = e /\ e.name \in Names /\ e.dir
    BY <1>4
  <2>2. e.name # NoName
    BY <2>1, NamesAreReal
  <2>3. DirIn(ch, D, t, h, x, e, q, D2)
    BY <2>1, <2>2 DEF Change, Fits, Gone, FileIn
  <2>4. q = <<e.start>> /\ q # <<>> /\ q[1] = e.start
    BY <2>3 DEF DirIn
  <2>5. Joined(ch, h, q, ch2)
    BY <1>2, MovedFacts
  <2>6. ch2[e.start] = q
    BY <2>4, <2>5 DEF Joined
  <2>7. y \in Live(s, ch, D) \cup {x}
    BY <1>4
  <2>8. y[1] \notin Range(q)
    BY <2>7, OldPlaces
  <2>9. QED
    BY <2>1, <2>6, <2>8
<1>11. Edit(s, ch, D, u, ch2, D2, x)
  BY <1>3, <1>6, <1>7, <1>8, <1>9, <1>10 DEF Edit
<1>12. QED
  BY <1>1, <1>2, <1>11

(* What the clusters of t are in use for. *)
Settled(s, ch, h, t, q) ==
    \A c \in Clusters :
        t.fat[c] # FREE /\ (s.fat[c] = FREE \/ (h \in DOMAIN ch /\ c \in Range(ch[h])))
        => c \in Range(q)

LEMMA ChangeReworks ==
    ASSUME NEW s, NEW ch, NEW D, NEW x, NEW h, NEW t, NEW q, NEW e, NEW D2,
           Change(s, ch, D, x, h, t, q, e, D2), Differ(s, ch, D),
           e.name \in Names => NameIsFree(s, ch, D, x, e.name)
    PROVE  /\ Rework(s, ch, D, h, PutEntry(t, x, e), Moved(ch, h, q), D2, x)
           /\ Settled(s, ch, h, t, q) => Accounted(s, ch, PutEntry(t, x, e), Moved(ch, h, q))
<1>1. PICK u : u = PutEntry(t, x, e)
  OBVIOUS
<1>2. PICK ch2 : ch2 = Moved(ch, h, q)
  OBVIOUS
<1>3. Edit(s, ch, D, u, ch2, D2, x)
  BY <1>1, <1>2, ChangeEdits
<1>4. Joined(ch, h, q, ch2)
  BY <1>2, MovedFacts
<1>5. \A g \in (DOMAIN ch) \ {h} : g \in DOMAIN ch2 /\ ch2[g] = ch[g]
  BY <1>4 DEF Joined
<1>6. ASSUME q # <<>> PROVE q[1] \in DOMAIN ch2 /\ ch2[q[1]] = q /\ x \in Live(u, ch2, D2) /\ At(u, x).start = q[1]
  <2>1. e.name \in Names /\ e.start = q[1]
    BY <1>6 DEF Change, Fits, Gone, FileIn, DirIn, Start
  <2>2. At(u, x) = e /\ x \in Live(u, ch2, D2)
    BY <1>1, <1>2, <2>1, LiveKept
  <2>3. QED
    BY <1>4, <1>6, <2>1, <2>2 DEF Joined
<1>7. HeadsKept(ch, h, u, ch2, D2, x)
  <2>1. \A g \in DOMAIN ch2 : g \in (DOMAIN ch) \ {h} \/ (q # <<>> /\ g = q[1])
    BY <1>4 DEF Joined
  <2>2. QED
    BY <1>5, <1>6, <2>1 DEF HeadsKept
<1>8. u.fat = t.fat /\ \A c \in Clusters : c # x[1] => u.data[c] = t.data[c]
  BY <1>1, ChangePlace, PutFacts DEF Change
<1>9. FilesKept(s, ch, D, h, u, ch2, D2)
  <2> SUFFICES ASSUME NEW g \in ((DOMAIN ch) \ D) \ {h}
               PROVE  g \notin D2 /\ ch2[g] = ch[g] /\ \A c \in Range(ch[g]) : u.data[c] = s.data[c]
    BY DEF FilesKept
  <2>1. g \notin D2
    <3>1. q # <<>> => g # q[1]
      BY <1>4 DEF Joined
    <3>2. \A d \in D2 : d \in D \/ (q # <<>> /\ d = q[1])
      BY DEF Change, Fits, Gone, FileIn, DirIn
    <3>3. QED
      BY <3>1, <3>2
  <2>2. ASSUME NEW c \in Range(ch[g]) PROVE u.data[c] = s.data[c]
    <3>1. c \in Clusters
      BY HeadInRange DEF Change, Struct
    <3>2. t.data[c] = s.data[c]
      BY DEF Change, Same
    <3>3. PICK d \in D : x[1] \in Range(ch[d])
      BY ChangePlace
    <3>4. d \in DOMAIN ch /\ d # g
      BY <3>3 DEF Change, Struct, Dirs
    <3>5. Range(ch[d]) \cap Range(ch[g]) = {}
      BY <3>4 DEF Change, Struct, Layout
    <3>6. c # x[1]
      BY <3>3, <3>5
    <3>7. QED
      BY <1>8, <3>1, <3>2, <3>6
  <2>3. QED
    BY <1>5, <2>1, <2>2
<1>10. ASSUME Settled(s, ch, h, t, q) PROVE Accounted(s, ch, u, ch2)
  <2> SUFFICES ASSUME NEW c \in Clusters, u.fat[c] # FREE, s.fat[c] = FREE \/ InChain(ch, c)
               PROVE  InChain(ch2, c)
    BY DEF Accounted
  <2>1. CASE c \in Range(q)
    <3>1. q # <<>>
      BY <2>1, NoClusters
    <3>2. QED
      BY <1>6, <2>1, <3>1 DEF InChain
  <2>2. CASE c \notin Range(q)
    <3>1. s.fat[c] # FREE /\ ~(h \in DOMAIN ch /\ c \in Range(ch[h]))
      BY <1>8, <1>10, <2>2 DEF Settled
    <3>2. PICK g \in DOMAIN ch : c \in Range(ch[g])
      BY <3>1 DEF InChain
    <3>3. g # h
      BY <3>1, <3>2
    <3>4. QED
      BY <1>5, <3>2, <3>3 DEF InChain
  <2>3. QED
    BY <2>1, <2>2
<1>11. Rework(s, ch, D, h, u, ch2, D2, x)
  BY <1>3, <1>7, <1>9 DEF Rework
<1>12. QED
  BY <1>1, <1>2, <1>10, <1>11

-----------------------------------------------------------------------------
(* createEntry and removeEntry.                                            *)

LEMMA NewIsOutside ==
    ASSUME NEW s, NEW ch, NEW D, Struct(s, ch, D), FreeClusters(s) # {}
    PROVE  \A g \in DOMAIN ch : NewCluster(s) \notin Range(ch[g])
BY NewClusterIs, FreeIsOutside DEF Struct, Layout

(* A cluster behind the last one of a chain. *)
LEMMA AppendLinked ==
    ASSUME NEW s, NEW u, NEW q, Linked(s, q), NEW c \in Clusters, c \notin Range(q),
           u.fat = [[s.fat EXCEPT ![c] = EOC] EXCEPT ![q[Len(q)]] = c], s.fat \in Fats
    PROVE  Linked(u, Append(q, c)) /\ Range(Append(q, c)) = Range(q) \cup {c}
<1> DEFINE r == Append(q, c)
<1>1. /\ q \in Seq(Clusters) /\ Len(q) \in Nat /\ Len(q) >= 1
      /\ \A i, j \in 1 .. Len(q) : q[i] = q[j] => i = j
      /\ \A i \in 1 .. Len(q) - 1 : s.fat[q[i]] = q[i + 1]
  BY DEF Linked
<1>2. /\ r \in Seq(Clusters) /\ Len(r) = Len(q) + 1 /\ r # <<>>
      /\ \A i \in 1 .. Len(q) : r[i] = q[i]
      /\ r[Len(q) + 1] = c
  BY <1>1
<1> HIDE DEF r
<1>3. \A i \in 1 .. Len(q) : q[i] # c /\ q[i] \in Clusters
  BY <1>1, RangeIs
<1>4. \A i, j \in 1 .. Len(r) : r[i] = r[j] => i = j
  <2> TAKE i, j \in 1 .. Len(r)
  <2>1. (i \in 1 .. Len(q) \/ i = Len(q) + 1) /\ (j \in 1 .. Len(q) \/ j = Len(q) + 1)
    BY <1>1, <1>2
  <2>2. QED
    BY <1>1, <1>2, <1>3, <2>1
<1>5. \A i \in 1 .. Len(q) - 1 : u.fat[q[i]] = s.fat[q[i]]
  <2> TAKE i \in 1 .. Len(q) - 1
  <2>1. i \in 1 .. Len(q) /\ Len(q) \in 1 .. Len(q) /\ i # Len(q)
    BY <1>1
  <2>2. q[i] # c /\ q[i] # q[Len(q)] /\ q[i] \in Clusters
    BY <1>1, <1>3, <2>1
  <2>3. QED
    BY <2>2 DEF Fats
<1>6. u.fat[q[Len(q)]] = c /\ u.fat[c] = EOC
  <2>1. Len(q) \in 1 .. Len(q)
    BY <1>1
  <2>2. q[Len(q)] # c /\ q[Len(q)] \in Clusters
    BY <1>3, <2>1
  <2>3. QED
    BY <2>2 DEF Fats
<1>7. \A i \in 1 .. Len(r) - 1 : u.fat[r[i]] = r[i + 1]
  <2> TAKE i \in 1 .. Len(r) - 1
  <2>1. i \in 1 .. Len(q)
    BY <1>1, <1>2
  <2>2. CASE i = Len(q)
    BY <1>2, <1>6, <2>1, <2>2
  <2>3. CASE i # Len(q)
    <3>1. i \in 1 .. Len(q) - 1 /\ i + 1 \in 1 .. Len(q)
      BY <1>1, <2>1, <2>3
    <3>2. r[i] = q[i] /\ r[i + 1] = q[i + 1] /\ u.fat[q[i]] = s.fat[q[i]]
      BY <1>2, <1>5, <2>1, <3>1
    <3>3. s.fat[q[i]] = q[i + 1]
      BY <1>1, <3>1
    <3>4. QED
      BY <3>2, <3>3
  <2>4. QED
    BY <2>2, <2>3
<1>8. u.fat[r[Len(r)]] = EOC
  BY <1>2, <1>6
<1>9. Linked(u, r)
  BY <1>2, <1>4, <1>7, <1>8 DEF Linked
<1>10. Range(r) = Range(q) \cup {c}
  <2>1. Range(r) = {r[i] : i \in 1 .. Len(r)} /\ Range(q) = {q[i] : i \in 1 .. Len(q)}
    BY <1>1, <1>2, RangeIs
  <2>2. 1 .. Len(r) = (1 .. Len(q)) \cup {Len(q) + 1}
    BY <1>1, <1>2
  <2>3. QED
    BY <1>2, <2>1, <2>2
<1>11. QED
  BY <1>9, <1>10 DEF r

(* A directory grows by a cluster of free slots. *)
Grown(s, ch, D, u, ch1, d, c) ==
    /\ Struct(u, ch1, D) /\ DOMAIN ch1 = DOMAIN ch
    /\ Range(ch1[d]) = Range(ch[d]) \cup {c} /\ \A g \in (DOMAIN ch) \ {d} : ch1[g] = ch[g]
    /\ \A g \in DOMAIN ch : c \notin Range(ch[g]) /\ \A b \in Range(ch[g]) : u.data[b] = s.data[b]
    /\ \A y : y \in Live(s, ch, D) <=> y \in Live(u, ch1, D)
    /\ \A y \in Live(s, ch, D) : At(u, y) = At(s, y)
    /\ \A b \in Clusters \ {c} : u.fat[b] # FREE => s.fat[b] # FREE

LEMMA ExtendedKeeps ==
    ASSUME NEW s, NEW ch, NEW D, Struct(s, ch, D), NEW d \in D, FreeClusters(s) # {}
    PROVE  \E ch1 : Grown(s, ch, D, Extended(s, d), ch1, d, NewCluster(s))
<1> DEFINE c == NewCluster(s)
           q == ch[d]
           u == Extended(s, d)
           ch1 == [ch EXCEPT ![d] = Append(q, c)]
<1>1. /\ Shape(s) /\ Layout(s, ch) /\ Dirs(s, ch, D) /\ d \in DOMAIN ch
      /\ Linked(s, q) /\ Chain(s, d) = q /\ q \in Seq(Clusters)
  BY ChainOfHead DEF Struct, Dirs, Layout, Linked
<1>2. c \in Clusters /\ \A g \in DOMAIN ch : c \notin Range(ch[g])
  BY NewClusterIs, NewIsOutside
<1>3. Last(Chain(s, d)) = q[Len(q)] /\ q[Len(q)] \in Clusters /\ q[Len(q)] \in Range(q)
  <2>1. Len(q) \in 1 .. Len(q)
    BY <1>1 DEF Linked
  <2>2. QED
    BY <1>1, <2>1, RangeIs DEF Last
<1> DEFINE fat2 == [[s.fat EXCEPT ![c] = EOC] EXCEPT ![q[Len(q)]] = c]
           data2 == [s.data EXCEPT ![c] = EmptySlots]
<1>4. u = [fat |-> fat2, data |-> data2]
  <2>1. s = [fat |-> s.fat, data |-> s.data]
    BY <1>1 DEF Shape
  <2>2. Allocated(s) = [fat |-> [s.fat EXCEPT ![c] = EOC], data |-> s.data]
    BY <2>1 DEF Allocated, FatSet
  <2>3. FatSet(Allocated(s), q[Len(q)], c) = [fat |-> fat2, data |-> s.data]
    BY <2>2 DEF FatSet
  <2>4. QED
    BY <1>3, <2>3 DEF Extended
<1>5. /\ u = [fat |-> u.fat, data |-> u.data] /\ u.fat = fat2 /\ u.data = data2
  BY <1>4
<1>6. fat2 \in Fats
  <2>1. s.fat \in Fats /\ EOC \in Heads /\ c \in Heads
    BY <1>1, <1>2, Sizes DEF Shape
  <2>2. QED
    BY <1>2, <1>3, <2>1 DEF Fats, Heads
<1>7. \A b \in Clusters : b # c => data2[b] = s.data[b] /\ (b # q[Len(q)] => fat2[b] = s.fat[b])
  <2>1. s.fat = [b \in Clusters |-> s.fat[b]] /\ s.data = [b \in Clusters |-> s.data[b]]
    BY <1>1 DEF Shape, Fats
  <2> TAKE b \in Clusters
  <2> HAVE b # c
  <2>2. data2[b] = s.data[b]
    BY <2>1
  <2>3. b # q[Len(q)] => fat2[b] = s.fat[b]
    BY <2>1
  <2>4. QED
    BY <2>2, <2>3
<1>8. data2[c] = EmptySlots /\ data2 = [b \in Clusters |-> data2[b]]
  BY <1>1, <1>2 DEF Shape
<1> HIDE DEF data2, u
<1>9. Shape(u)
  BY <1>5, <1>6, <1>8 DEF Shape
<1>10. Linked(u, Append(q, c)) /\ Range(Append(q, c)) = Range(q) \cup {c}
  BY <1>1, <1>2, <1>5, AppendLinked DEF Shape
<1> HIDE DEF fat2
<1>11. /\ DOMAIN ch1 = DOMAIN ch /\ ch1[d] = Append(q, c)
       /\ \A g \in (DOMAIN ch) \ {d} : ch1[g] = ch[g]
       /\ Range(ch1[d]) = Range(ch[d]) \cup {c}
  BY <1>1, <1>10
<1> HIDE DEF ch1
<1>12. ASSUME NEW g \in (DOMAIN ch) \ {d} PROVE Linked(u, ch[g])
  <2>1. Linked(s, ch[g]) /\ Range(ch[g]) \cap Range(q) = {} /\ Range(ch[g]) \subseteq Clusters
    BY <1>1, HeadInRange DEF Layout
  <2>2. \A b \in Range(ch[g]) : u.fat[b] = s.fat[b]
    BY <1>2, <1>3, <1>5, <1>7, <2>1
  <2>3. QED
    BY <2>1, <2>2, LinkedSame
<1>13. Layout(u, ch1)
  <2>1. \A g \in DOMAIN ch1 : Linked(u, ch1[g])
    BY <1>10, <1>11, <1>12
  <2>2. \A g \in DOMAIN ch1 : ch1[g][1] = g
    <3>1. Append(q, c)[1] = q[1]
      BY <1>1, <1>2 DEF Linked
    <3>2. QED
      BY <1>1, <1>11, <3>1 DEF Layout
  <2>3. \A f, g \in DOMAIN ch1 : f # g => Range(ch1[f]) \cap Range(ch1[g]) = {}
    <3> TAKE f, g \in DOMAIN ch1
    <3> HAVE f # g
    <3>1. Range(ch[f]) \cap Range(ch[g]) = {} /\ c \notin Range(ch[f]) /\ c \notin Range(ch[g])
      BY <1>1, <1>2, <1>11 DEF Layout
    <3>2. Range(ch1[f]) = Range(ch[f]) \/ (f = d /\ Range(ch1[f]) = Range(ch[f]) \cup {c})
      BY <1>11
    <3>3. Range(ch1[g]) = Range(ch[g]) \/ (g = d /\ Range(ch1[g]) = Range(ch[g]) \cup {c})
      BY <1>11
    <3>4. QED
      BY <3>1, <3>2, <3>3
  <2>4. QED
    BY <1>1, <1>11, <2>1, <2>2, <2>3 DEF Layout
<1>14. \A g \in DOMAIN ch : \A b \in Range(ch[g]) : b \in Clusters /\ b # c /\ u.data[b] = s.data[b]
  BY <1>1, <1>2, <1>5, <1>7, HeadInRange
<1>15. Dirs(u, ch1, D)
  <2>1. EmptySlots \in SlotTable
    BY EntryTypes
  <2>2. \A g \in D : g \in DOMAIN ch /\ \A b \in Range(ch[g]) : s.data[b] \in SlotTable
    BY <1>1 DEF Dirs
  <2>3. \A g \in D : \A b \in Range(ch1[g]) : b \in Range(ch[g]) \/ b = c
    BY <1>11, <2>2
  <2>4. \A g \in D : \A b \in Range(ch1[g]) : u.data[b] \in SlotTable
    BY <1>5, <1>8, <1>14, <2>1, <2>2, <2>3
  <2>5. QED
    BY <1>1, <1>11, <2>4 DEF Dirs
<1>16. \A y \in Live(s, ch, D) : y \in Live(u, ch1, D) /\ At(u, y) = At(s, y)
  <2> TAKE y \in Live(s, ch, D)
  <2>1. PICK g \in D : y[1] \in Range(ch[g])
    BY DEF Live, DirSlots
  <2>2. g \in DOMAIN ch
    BY <1>1 DEF Dirs
  <2>3. At(u, y) = At(s, y)
    BY <1>14, <2>1, <2>2 DEF At
  <2>4. y[1] \in Range(ch1[g])
    BY <1>11, <2>1, <2>2
  <2>5. y \in DirSlots(ch1, D)
    BY <2>4 DEF Live, DirSlots
  <2>6. QED
    BY <2>3, <2>5 DEF Live, Real
<1>17. \A y \in Live(u, ch1, D) : y \in Live(s, ch, D)
  <2> TAKE y \in Live(u, ch1, D)
  <2>1. PICK g \in D : y[1] \in Range(ch1[g])
    BY DEF Live, DirSlots
  <2>2. g \in DOMAIN ch /\ y \in Slot /\ y[2] \in 1 .. EntriesPerCluster /\ At(u, y).name \in Names
    BY <1>1 DEF Dirs, Live, DirSlots, Slot, Real
  <2>3. y[1] # c
    <3> SUFFICES ASSUME y[1] = c PROVE FALSE
      OBVIOUS
    <3>1. At(u, y) = NoEntry
      BY <1>5, <1>8, <2>2 DEF At, EmptySlots
    <3>2. At(u, y).name = NoName
      BY <3>1, NoEntryIs
    <3>3. QED
      BY <2>2, <3>2, NamesAreReal
  <2>4. y[1] \in Range(ch[g])
    BY <1>11, <2>1, <2>2, <2>3
  <2>5. At(u, y) = At(s, y)
    BY <1>14, <2>2, <2>4 DEF At
  <2>6. QED
    BY <2>2, <2>4, <2>5 DEF Live, DirSlots, Real
<1>18. AllBacked(u, ch1, D)
  <2> SUFFICES ASSUME NEW y \in Live(u, ch1, D) PROVE Backed(ch1, D, At(u, y))
    BY DEF AllBacked
  <2>1. y \in Live(s, ch, D) /\ At(u, y) = At(s, y)
    BY <1>16, <1>17
  <2>2. Backed(ch, D, At(u, y))
    BY <2>1 DEF Struct, AllBacked
  <2>3. QED
    BY <1>11, <2>2 DEF Backed
<1>19. OwnersDiffer(u, ch1, D)
  BY <1>16, <1>17 DEF Struct, OwnersDiffer
<1>20. Parents(u, ch1, D)
  <2> SUFFICES ASSUME NEW g \in D \ {Root}
               PROVE  /\ u.data[g][1].name = "." /\ u.data[g][2].name = ".."
                      /\ ParentOf(u, g) \in D /\ \E y : EntryIn(u, ch1, D, g, y)
    BY DEF Parents
  <2>1. /\ s.data[g][1].name = "." /\ s.data[g][2].name = ".."
        /\ ParentOf(s, g) \in D /\ \E y : EntryIn(s, ch, D, g, y)
    BY DEF Struct, Parents
  <2>2. u.data[g] = s.data[g]
    BY <1>1, <1>14, HeadInRange DEF Dirs
  <2>3. ParentOf(u, g) = ParentOf(s, g)
    BY <2>2 DEF ParentOf
  <2>4. PICK y : EntryIn(s, ch, D, g, y)
    BY <2>1
  <2>5. Range(ch[ParentOf(s, g)]) \subseteq Range(ch1[ParentOf(s, g)])
    BY <1>1, <1>11, <2>1 DEF Dirs
  <2>6. EntryIn(u, ch1, D, g, y)
    BY <1>16, <2>3, <2>4, <2>5 DEF EntryIn
  <2>7. QED
    BY <2>1, <2>2, <2>3, <2>6
<1>21. Struct(u, ch1, D)
  BY <1>9, <1>13, <1>15, <1>18, <1>19, <1>20 DEF Struct
<1>22. \A b \in Clusters \ {c} : u.fat[b] # FREE => s.fat[b] # FREE
  <2>1. s.fat[q[Len(q)]] = EOC
    BY <1>1 DEF Linked
  <2>2. QED
    BY <1>5, <1>7, <2>1, Sizes
<1>23. Grown(s, ch, D, u, ch1, d, c)
  BY <1>2, <1>11, <1>14, <1>16, <1>17, <1>21, <1>22 DEF Grown
<1>24. QED
  BY <1>23 DEF u

NoPlace == <<0, 0>>

LEMMA NoPlaceIs ==
    ASSUME NEW s, NEW ch, NEW D, Struct(s, ch, D)
    PROVE  NoPlace \notin Live(s, ch, D) /\ \A d : ~InDir(ch, D, NoPlace, d)
<1>1. NoPlace[1] \notin Clusters
  BY Sizes DEF NoPlace
<1>2. NoPlace \notin Slot
  BY <1>1 DEF Slot
<1>3. NoPlace \notin Live(s, ch, D)
  BY <1>2 DEF Live, DirSlots
<1>4. \A d : ~InDir(ch, D, NoPlace, d)
  BY <1>1, HeadInRange DEF InDir, Struct, Dirs
<1>5. QED
  BY <1>3, <1>4

(* Nothing changes. *)
LEMMA SameReworks ==
    ASSUME NEW s, NEW ch, NEW D, Struct(s, ch, D), Differ(s, ch, D)
    PROVE  Balanced(s, ch, D, 0, s, ch, D, NoPlace)
<1>1. NoPlace \notin Live(s, ch, D) /\ 0 \notin DOMAIN ch
  BY NoPlaceIs, Sizes DEF Struct, Layout
<1>2. Edit(s, ch, D, s, ch, D, NoPlace)
  BY <1>1 DEF Edit, Childless, SameEntries, SamePlaces
<1>3. QED
  BY <1>1, <1>2, Sizes DEF Balanced, Rework, HeadsKept, FilesKept, Accounted

LEMMA ExtendedReworks ==
    ASSUME NEW s, NEW ch, NEW D, Struct(s, ch, D), Differ(s, ch, D), NEW d \in D, FreeClusters(s) # {}
    PROVE  \E ch1 : Balanced(s, ch, D, 0, Extended(s, d), ch1, D, NoPlace)
<1>1. PICK u : u = Extended(s, d)
  OBVIOUS
<1>2. PICK c : c = NewCluster(s)
  OBVIOUS
<1>3. PICK ch1 : Grown(s, ch, D, u, ch1, d, c)
  BY <1>1, <1>2, ExtendedKeeps
<1>4. Struct(u, ch1, D) /\ DOMAIN ch1 = DOMAIN ch /\ D \subseteq DOMAIN ch
  BY <1>3 DEF Grown, Struct, Dirs
<1>5. NoPlace \notin Live(s, ch, D) /\ NoPlace \notin Live(u, ch1, D)
  BY <1>4, NoPlaceIs
<1>6. SamePlaces(s, ch, D, ch1, D, NoPlace)
  <2> SUFFICES ASSUME NEW y \in Live(s, ch, D) \cup {NoPlace}, NEW g
               PROVE  InDir(ch, D, y, g) <=> InDir(ch1, D, y, g)
    BY DEF SamePlaces
  <2>1. CASE y = NoPlace
    BY <1>4, <2>1, NoPlaceIs
  <2>2. CASE y \in Live(s, ch, D)
    <3>1. y[1] # c
      BY <1>3, <1>4, <2>2 DEF Grown, Live, DirSlots
    <3>2. g \in D => (y[1] \in Range(ch[g]) <=> y[1] \in Range(ch1[g]))
      BY <1>3, <1>4, <3>1 DEF Grown
    <3>3. QED
      BY <3>2 DEF InDir
  <2>3. QED
    BY <2>1, <2>2
<1>7. SameEntries(s, ch, D, u, ch1, D, NoPlace)
  BY <1>3 DEF SameEntries, Grown
<1>8. Differ(u, ch1, D)
  <2> SUFFICES ASSUME NEW g \in D, NEW y \in Live(u, ch1, D), NEW z \in Live(u, ch1, D),
                      y[1] \in Range(ch1[g]), z[1] \in Range(ch1[g]), At(u, y).name = At(u, z).name
               PROVE  y = z
    BY DEF Differ
  <2>1. /\ y \in Live(s, ch, D) /\ z \in Live(s, ch, D)
        /\ At(s, y).name = At(s, z).name
    BY <1>3 DEF Grown
  <2>2. y[1] \in Range(ch[g]) /\ z[1] \in Range(ch[g])
    BY <1>6, <2>1 DEF SamePlaces, InDir
  <2>3. QED
    BY <2>1, <2>2 DEF Differ
<1>9. Edit(s, ch, D, u, ch1, D, NoPlace)
  BY <1>4, <1>5, <1>6, <1>7, <1>8 DEF Edit, Childless
<1>10. HeadsKept(ch, 0, u, ch1, D, NoPlace)
  <2>1. 0 \notin DOMAIN ch
    BY Sizes DEF Struct, Layout
  <2>2. QED
    BY <1>3, <1>4, <2>1 DEF HeadsKept, Grown
<1>11. FilesKept(s, ch, D, 0, u, ch1, D)
  BY <1>3 DEF FilesKept, Grown
<1>12. Accounted(s, ch, u, ch1)
  BY <1>3, <1>4 DEF Accounted, Grown, InChain
<1>13. QED
  BY <1>1, <1>9, <1>10, <1>11, <1>12 DEF Balanced, Rework

LEMMA RoomReworks ==
    ASSUME NEW s, NEW ch, NEW D, Struct(s, ch, D), Differ(s, ch, D), NEW d \in D
    PROVE  \E ch1 : Balanced(s, ch, D, 0, RoomIn(s, d), ch1, D, NoPlace)
BY ExtendedReworks, SameReworks DEF RoomIn

(* A new entry e in slot x of directory d. *)
NewEntry(s, ch, D, u, ch2, D2, x, d, e) ==
    /\ Balanced(s, ch, D, 0, u, ch2, D2, x)
    /\ x \notin Live(s, ch, D) /\ x \in Live(u, ch2, D2)
    /\ At(u, x) = e /\ InDir(ch2, D2, x, d)

(* The new entry and, for a directory, its first cluster. *)
LEMMA EntryMade ==
    ASSUME NEW s, NEW ch, NEW D, Struct(s, ch, D), Differ(s, ch, D), NEW d \in D,
           NEW x \in Named(s, d, NoName), NEW n \in Names,
           \A y \in Live(s, ch, D) : y[1] \in Range(ch[d]) => At(s, y).name # n
    PROVE  /\ \A u, e : u = PutEntry(s, x, e) /\ e = DirEntry(n, FALSE, 0)
                        => \E ch1 : NewEntry(s, ch, D, u, ch1, D, x, d, e)
           /\ \A c, t, u, e : /\ FreeClusters(s) # {} /\ c = NewCluster(s)
                              /\ t = [Allocated(s) EXCEPT !.data[c] = NewDirectory(c, d)]
                              /\ e = DirEntry(n, TRUE, c) /\ u = PutEntry(t, x, e)
                              => \E ch1, D1 : NewEntry(s, ch, D, u, ch1, D1, x, d, e)
<1>1. /\ x \in DirSlots(ch, D) /\ At(s, x).name = NoName /\ x[1] \in Range(ch[d])
      /\ Shape(s) /\ Layout(s, ch) /\ d \in DOMAIN ch
  BY SlotsOfDir DEF Named, Struct, Dirs
<1>2. Owned(s, x) = 0
  BY <1>1, NamesAreReal DEF Owned, Real
<1>3. 0 \notin DOMAIN ch /\ 0 \notin D
  <2>1. 0 \notin DOMAIN ch
    BY <1>1, Sizes DEF Layout
  <2>2. QED
    BY <2>1 DEF Struct, Dirs
<1>4. D \ {0} = D /\ (DOMAIN ch) \ {0} = DOMAIN ch
  BY <1>3
<1>40. x \notin Live(s, ch, D) /\ NameIsFree(s, ch, D, x, n)
  <2>1. x \notin Live(s, ch, D)
    BY <1>1, NamesAreReal DEF Live, Real
  <2>2. \A g : InDir(ch, D, x, g) => g = d
    BY <1>1 DEF InDir, Struct, Dirs, Layout
  <2>3. QED
    BY <2>1, <2>2 DEF NameIsFree, InDir
<1>41. InDir(ch, D, x, d)
  BY <1>1 DEF InDir
(* The entry in its slot. *)
<1>42. ASSUME NEW t, NEW q, NEW e, NEW D2, NEW u, u = PutEntry(t, x, e), e.name = n,
              Change(s, ch, D, x, 0, t, q, e, D2), Settled(s, ch, 0, t, q)
       PROVE  \E ch1 : NewEntry(s, ch, D, u, ch1, D2, x, d, e)
  <2>1. PICK ch2 : ch2 = Moved(ch, 0, q)
    OBVIOUS
  <2>2. Balanced(s, ch, D, 0, u, ch2, D2, x)
    BY <1>40, <1>42, <2>1, ChangeReworks DEF Balanced
  <2>3. At(u, x) = e /\ x \in Live(u, ch2, D2)
    BY <1>42, <2>1, LiveKept
  <2>4. SamePlaces(s, ch, D, ch2, D2, x)
    BY <2>2 DEF Balanced, Rework, Edit
  <2>5. InDir(ch2, D2, x, d)
    BY <1>41, <2>4 DEF SamePlaces
  <2>6. QED
    BY <1>40, <2>2, <2>3, <2>5 DEF NewEntry
<1>5. ASSUME NEW e, e = DirEntry(n, FALSE, 0), NEW u, u = PutEntry(s, x, e)
      PROVE  \E ch1 : NewEntry(s, ch, D, u, ch1, D, x, d, e)
  <2>1. e \in Entries /\ e.name = n /\ e.dir = FALSE /\ e.start = 0 /\ e.size = 0
    BY <1>5, EntryTypes DEF DirEntry
  <2>2. FileIn(D, 0, e, <<>>, D)
    <3>1. 0 <= BytesPerCluster * Len(<<>>)
      BY NoBytes
    <3>3. e.size <= BytesPerCluster * Len(<<>>)
      BY <2>1, <3>1
    <3>4. QED
      BY <1>4, <2>1, <3>3 DEF FileIn, Start
  <2>3. Range(<<>>) = {}
    BY NoClusters
  <2>4. Change(s, ch, D, x, 0, s, <<>>, e, D)
    BY <1>1, <1>2, <1>3, <2>1, <2>2, <2>3 DEF Change, Fits, Same
  <2>5. Settled(s, ch, 0, s, <<>>)
    BY <1>3 DEF Settled
  <2>6. QED
    BY <1>42, <1>5, <2>1, <2>4, <2>5
<1>6. ASSUME FreeClusters(s) # {}, NEW c, c = NewCluster(s), NEW e, e = DirEntry(n, TRUE, c),
             NEW t, t = [Allocated(s) EXCEPT !.data[c] = NewDirectory(c, d)],
             NEW u, u = PutEntry(t, x, e)
      PROVE  \E ch1, D1 : NewEntry(s, ch, D, u, ch1, D1, x, d, e)
  <2>1. c \in Clusters /\ \A g \in DOMAIN ch : c \notin Range(ch[g])
    BY <1>6, NewClusterIs, NewIsOutside
  <2>2. e \in Entries /\ e.name = n /\ e.dir = TRUE /\ e.start = c
    BY <1>6, <2>1, EntryTypes DEF DirEntry
  <2> DEFINE fat2 == [s.fat EXCEPT ![c] = EOC]
             data2 == [s.data EXCEPT ![c] = NewDirectory(c, d)]
  <2>3. t = [fat |-> fat2, data |-> data2]
    <3>1. s = [fat |-> s.fat, data |-> s.data]
      BY <1>1 DEF Shape
    <3>2. Allocated(s) = [s EXCEPT !.fat[c] = EOC]
      BY <1>6 DEF Allocated, FatSet
    <3>3. Allocated(s) = [fat |-> fat2, data |-> s.data]
      BY <3>1, <3>2
    <3>4. t = [Allocated(s) EXCEPT !.data[c] = NewDirectory(c, d)]
      BY <1>6
    <3>5. [[fat |-> fat2, data |-> s.data] EXCEPT !.data[c] = NewDirectory(c, d)]
            = [fat |-> fat2, data |-> data2]
      OBVIOUS
    <3>6. QED
      BY <3>3, <3>4, <3>5
  <2>4. t = [fat |-> t.fat, data |-> t.data] /\ t.fat = fat2 /\ t.data = data2
    BY <2>3
  <2>5. /\ s.fat = [b \in Clusters |-> s.fat[b]] /\ s.data = [b \in Clusters |-> s.data[b]]
        /\ s.fat \in Fats
    BY <1>1 DEF Shape, Fats
  <2>6. fat2 \in Fats
    BY <2>5, Sizes DEF Fats, Heads
  <2>7. /\ \A b \in Clusters : b # c => fat2[b] = s.fat[b] /\ data2[b] = s.data[b]
        /\ fat2[c] = EOC /\ data2[c] = NewDirectory(c, d)
        /\ data2 = [b \in Clusters |-> data2[b]]
    <3>1. fat2[c] = EOC /\ data2[c] = NewDirectory(c, d) /\ data2 = [b \in Clusters |-> data2[b]]
      BY <2>1, <2>5
    <3>2. \A b \in Clusters : b # c => fat2[b] = s.fat[b]
      BY <2>5
    <3>3. \A b \in Clusters : b # c => data2[b] = s.data[b]
      BY <2>5
    <3>4. QED
      BY <3>1, <3>2, <3>3
  <2> HIDE DEF fat2, data2
  <2>8. Shape(t)
    BY <2>4, <2>6, <2>7 DEF Shape
  <2>9. <<c>> \in Seq(Clusters) /\ Len(<<c>>) = 1 /\ <<c>> # <<>> /\ Range(<<c>>) = {c} /\ <<c>>[1] = c
    BY <2>1, OneRange
  <2>10. Linked(t, <<c>>)
    <3>1. PICK q : q = <<c>>
      OBVIOUS
    <3>2. q \in Seq(Clusters) /\ Len(q) = 1 /\ q # <<>> /\ q[1] = c
      BY <2>9, <3>1
    <3>3. t.fat[q[1]] = EOC
      BY <2>4, <2>7, <3>2
    <3>4. Linked(t, q)
      <4>1. 1 .. Len(q) = {1} /\ 1 .. Len(q) - 1 = {}
        BY <3>2
      <4>2. QED
        BY <3>2, <3>3, <4>1 DEF Linked
    <3>5. QED
      BY <3>1, <3>4
  <2>11. \A g \in DOMAIN ch : Same(s, t, Range(ch[g])) /\ Range(<<c>>) \cap Range(ch[g]) = {}
    <3> TAKE g \in DOMAIN ch
    <3>1. Range(ch[g]) \subseteq Clusters /\ c \notin Range(ch[g])
      BY <1>1, <2>1, HeadInRange
    <3>2. QED
      BY <2>4, <2>7, <2>9, <3>1 DEF Same
  <2> DEFINE D1 == (D \ {0}) \cup {c}
  <2>12. DirIn(ch, D, t, 0, x, e, <<c>>, D1)
    BY <1>1, <1>3, <2>1, <2>2, <2>4, <2>7 DEF DirIn
  <2> HIDE DEF D1
  <2>13. Change(s, ch, D, x, 0, t, <<c>>, e, D1)
    BY <1>1, <1>2, <1>3, <2>2, <2>8, <2>10, <2>11, <2>12 DEF Change, Fits
  <2>14. Settled(s, ch, 0, t, <<c>>)
    BY <1>3, <2>4, <2>7, <2>9 DEF Settled
  <2>15. QED
    BY <1>42, <1>6, <2>2, <2>13, <2>14
<1>7. QED
  BY <1>5, <1>6

(* What createEntry does: the directory may have grown, and then there is  *)
(* the new entry, of a file that is empty or of an empty directory.        *)
CreateFails(s, ch, D, r) == ~r.ok /\ \E ch1 : Balanced(s, ch, D, 0, r.s, ch1, D, NoPlace)
Makes(s, ch, D, d, r, n, isDir, s1, ch1, ch2, D2, e) ==
    /\ Balanced(s, ch, D, 0, s1, ch1, D, NoPlace)
    /\ NewEntry(s1, ch1, D, r.s, ch2, D2, r.place, d, e)
    /\ e.name = n /\ e.dir = isDir /\ (~isDir => e = DirEntry(n, FALSE, 0))
CreateMakes(s, ch, D, d, r, n, isDir) ==
    r.ok /\ \E s1, ch1, ch2, D2, e : Makes(s, ch, D, d, r, n, isDir, s1, ch1, ch2, D2, e)

LEMMA CreateReworks ==
    ASSUME NEW s, NEW ch, NEW D, Struct(s, ch, D), Differ(s, ch, D), NEW d \in D,
           NEW n \in Names, NEW isDir \in BOOLEAN, Named(s, d, n) = {},
           NEW r, r = CreateEntry(s, d, n, isDir)
    PROVE  CreateFails(s, ch, D, r) \/ CreateMakes(s, ch, D, d, r, n, isDir)
<1>1. PICK s1 : s1 = RoomIn(s, d)
  OBVIOUS
<1>2. PICK ch1 : Balanced(s, ch, D, 0, s1, ch1, D, NoPlace)
  BY <1>1, RoomReworks
<1>3. PICK free : free = Named(s1, d, NoName)
  OBVIOUS
<1>4. PICK place : place = First(s1, free)
  OBVIOUS
<1>5. PICK c : c = NewCluster(s1)
  OBVIOUS
<1>6. PICK t : t = [Allocated(s1) EXCEPT !.data[c] = NewDirectory(c, d)]
  OBVIOUS
<1> DEFINE full == free = {} \/ (isDir /\ FreeClusters(s1) = {})
<1>7. r = IF full THEN [ok |-> FALSE, s |-> s1, place |-> <<0, 0>>]
          ELSE IF isDir
          THEN [ok |-> TRUE, place |-> place, s |-> PutEntry(t, place, DirEntry(n, TRUE, c))]
          ELSE [ok |-> TRUE, place |-> place, s |-> PutEntry(s1, place, DirEntry(n, FALSE, 0))]
  BY <1>1, <1>3, <1>4, <1>5, <1>6 DEF CreateEntry, NoName
<1>8. Struct(s1, ch1, D) /\ Differ(s1, ch1, D)
  BY <1>2 DEF Balanced, Rework, Edit
<1>9. free # {} => place \in Named(s1, d, NoName)
  <2>1. free \in SUBSET Slots(s1, d)
    BY <1>3 DEF Named
  <2>2. QED
    BY <1>3, <1>4, <1>8, <2>1, FirstIsNamed
<1>10. \A y \in Live(s1, ch1, D) : y[1] \in Range(ch1[d]) => At(s1, y).name # n
  <2> SUFFICES ASSUME NEW y \in Live(s1, ch1, D), y[1] \in Range(ch1[d]), At(s1, y).name = n
               PROVE  FALSE
    OBVIOUS
  <2>1. y # NoPlace
    BY <1>8, NoPlaceIs
  <2>2. y \in Live(s, ch, D) /\ At(s, y).name = n
    BY <1>2, <2>1 DEF Balanced, Rework, Edit, SameEntries
  <2>3. y[1] \in Range(ch[d]) /\ y \in Slot
    BY <1>2, <2>2 DEF Balanced, Rework, Edit, SamePlaces, InDir, Live, DirSlots
  <2>4. y \in Slots(s, d)
    BY <2>3, SlotsOfDir DEF Slot
  <2>5. QED
    BY <2>2, <2>4 DEF Named
<1>11. CASE full
  <2>1. r.ok = FALSE /\ r.s = s1
    BY <1>7, <1>11
  <2>2. QED
    BY <1>2, <2>1 DEF CreateFails
<1>12. CASE ~full /\ isDir
  <2>1. PICK e : e = DirEntry(n, TRUE, c)
    OBVIOUS
  <2>2. r.s = PutEntry(t, place, e) /\ r.ok /\ r.place = place
    BY <1>7, <1>12, <2>1
  <2>3. place \in Named(s1, d, NoName) /\ FreeClusters(s1) # {}
    BY <1>9, <1>12
  <2>4. PICK ch2, D2 : NewEntry(s1, ch1, D, r.s, ch2, D2, place, d, e)
    BY <1>5, <1>6, <1>8, <1>10, <2>1, <2>2, <2>3, EntryMade
  <2>5. e.name = n /\ e.dir = TRUE
    BY <2>1 DEF DirEntry
  <2>6. Makes(s, ch, D, d, r, n, isDir, s1, ch1, ch2, D2, e)
    BY <1>2, <1>12, <2>2, <2>4, <2>5 DEF Makes
  <2>7. QED
    BY <2>2, <2>6 DEF CreateMakes
<1>13. CASE ~full /\ ~isDir
  <2>1. PICK e : e = DirEntry(n, FALSE, 0)
    OBVIOUS
  <2>2. r.s = PutEntry(s1, place, e) /\ r.ok /\ r.place = place
    BY <1>7, <1>13, <2>1
  <2>3. place \in Named(s1, d, NoName)
    BY <1>9, <1>13
  <2>4. PICK ch2 : NewEntry(s1, ch1, D, r.s, ch2, D, place, d, e)
    BY <1>8, <1>10, <2>1, <2>2, <2>3, EntryMade
  <2>5. e.name = n /\ e.dir = FALSE
    BY <2>1 DEF DirEntry
  <2>6. Makes(s, ch, D, d, r, n, isDir, s1, ch1, ch2, D, e)
    BY <1>2, <1>13, <2>1, <2>2, <2>4, <2>5 DEF Makes
  <2>7. QED
    BY <2>2, <2>6 DEF CreateMakes
<1>14. QED
  BY <1>11, <1>12, <1>13

(* removeEntry of an entry that may go. *)
LEMMA RemoveReworks ==
    ASSUME NEW s, NEW ch, NEW D, Struct(s, ch, D), Differ(s, ch, D), NEW x \in Live(s, ch, D),
           Removable(s, At(s, x)), NEW u, u = RemoveEntry(s, x)
    PROVE  \E ch1, D1 : Balanced(s, ch, D, At(s, x).start, u, ch1, D1, x) /\ x \notin Live(u, ch1, D1)
<1> DEFINE h == At(s, x).start
           t == FreeChain(s, h)
<1>1. x \in DirSlots(ch, D) /\ Real(s, x) /\ Owned(s, x) = h /\ At(s, x).name \in Names
  BY DEF Live, Owned, Real
<1>2. h = 0 \/ h \in DOMAIN ch
  BY <1>1, OwnedFacts
<1>3. ASSUME h \in D, NEW y \in Live(s, ch, D), y[1] \in Range(ch[h]) PROVE FALSE
  <2>1. Backed(ch, D, At(s, x))
    BY DEF Struct, AllBacked
  <2>2. 0 \notin D
    BY Sizes DEF Struct, Dirs, Layout
  <2>3. IsEmptyDir(s, h)
    BY <1>3, <2>1, <2>2 DEF Backed, Removable
  <2>4. y \in Slots(s, h)
    <3>1. y \in Slot
      BY DEF Live, DirSlots
    <3>2. Slots(s, h) = Range(ch[h]) \X (1 .. EntriesPerCluster)
      BY <1>3, SlotsOfDir
    <3>3. QED
      BY <1>3, <3>1, <3>2 DEF Slot
  <2>5. At(s, y).name \in {NoName, ".", ".."} /\ At(s, y).name \in Names
    BY <2>3, <2>4 DEF IsEmptyDir, Live, Real, NoName
  <2>6. QED
    BY <2>5, NamesAreReal
<1>4. Shape(t) /\ \A g \in (DOMAIN ch) \ {h} : Same(s, t, Range(ch[g]))
  BY <1>2, FreedChain
<1>5. Gone(D, h, NoEntry, <<>>, D \ {h})
  BY NoEntryIs DEF Gone
<1>6. Range(<<>>) = {} /\ NoEntry \in Entries
  BY EntryTypes, NoClusters
<1>7. Settled(s, ch, h, t, <<>>)
  <2> SUFFICES ASSUME NEW c \in Clusters, t.fat[c] # FREE,
                      s.fat[c] = FREE \/ (h \in DOMAIN ch /\ c \in Range(ch[h]))
               PROVE  FALSE
    BY DEF Settled
  <2>1. t.fat[c] = IF c \in Range(Chain(s, h)) THEN FREE ELSE s.fat[c]
    BY DEF FreeChain, Freed
  <2>2. h \in DOMAIN ch => Chain(s, h) = ch[h]
    BY ChainOfHead
  <2> HIDE DEF h, t
  <2>3. QED
    BY <2>1, <2>2
<1> HIDE DEF h, t
<1>8. Change(s, ch, D, x, h, t, <<>>, NoEntry, D \ {h})
  BY <1>1, <1>3, <1>4, <1>5, <1>6 DEF Change, Fits
<1>9. u = PutEntry(t, x, NoEntry)
  BY DEF RemoveEntry, h, t
<1>10. PICK ch1 : ch1 = Moved(ch, h, <<>>)
  OBVIOUS
<1>11. PICK D1 : D1 = D \ {h}
  OBVIOUS
<1>12. NoEntry.name \notin Names
  BY NoEntryIs, NamesAreReal
<1>13. PICK q, e : q = <<>> /\ e = NoEntry
  OBVIOUS
<1>14. Change(s, ch, D, x, h, t, q, e, D1) /\ Settled(s, ch, h, t, q) /\ u = PutEntry(t, x, e)
       /\ ch1 = Moved(ch, h, q) /\ e.name \notin Names
  BY <1>7, <1>8, <1>9, <1>10, <1>11, <1>12, <1>13
<1>15. Balanced(s, ch, D, h, u, ch1, D1, x)
  BY <1>14, ChangeReworks DEF Balanced
<1>16. x \notin Live(u, ch1, D1)
  BY <1>14, LiveAfter
<1>17. QED
  BY <1>15, <1>16 DEF h

-----------------------------------------------------------------------------
(* write.                                                                  *)

(* The chain that is filled is linked, and the other clusters stay. *)
LEMMA FilledIs ==
    ASSUME NEW s, Shape(s), NEW q \in Seq(Clusters), NEW text,
           \A i, j \in 1 .. Len(q) : q[i] = q[j] => i = j
    PROVE  /\ Shape(Filled(s, q, text)) /\ Same(s, Filled(s, q, text), Clusters \ Range(q))
           /\ q # <<>> => Linked(Filled(s, q, text), q)
<1> DEFINE u == Filled(s, q, text)
           index == [c \in Clusters |-> CHOOSE i \in 1 .. Len(q) : q[i] = c]
           next(c) == IF index[c] < Len(q) THEN q[index[c] + 1] ELSE EOC
<1>1. Len(q) \in Nat /\ \A i \in 1 .. Len(q) : q[i] \in Clusters /\ q[i] \in Range(q)
  BY RangeIs
<1>2. \A i \in 1 .. Len(q) : index[q[i]] = i
  <2> TAKE i \in 1 .. Len(q)
  <2>1. index[q[i]] = CHOOSE j \in 1 .. Len(q) : q[j] = q[i]
    BY <1>1
  <2>2. QED
    BY <2>1
<1>3. u.fat = [c \in Clusters |-> IF c \notin Range(q) THEN s.fat[c] ELSE next(c)]
  BY DEF Filled
<1>4. /\ u = [fat |-> u.fat, data |-> u.data] /\ u.data = [c \in Clusters |-> u.data[c]]
      /\ \A c \in Clusters \ Range(q) : u.data[c] = s.data[c]
  BY DEF Filled
<1> HIDE DEF u, index
<1>5. \A c \in Range(q) : next(c) \in Heads
  <2> TAKE c \in Range(q)
  <2>1. PICK i \in 1 .. Len(q) : c = q[i]
    BY RangeIs
  <2>2. index[c] = i
    BY <1>2, <2>1
  <2>3. CASE i < Len(q)
    <3>1. i + 1 \in 1 .. Len(q)
      BY <1>1, <2>3
    <3>2. q[i + 1] \in Clusters
      BY <1>1, <3>1
    <3>3. QED
      BY <2>2, <2>3, <3>2, Sizes
  <2>4. CASE ~(i < Len(q))
    BY <2>2, <2>4, Sizes
  <2>5. QED
    BY <2>3, <2>4
<1>6. u.fat \in Fats
  <2>1. \A c \in Clusters : s.fat[c] \in Heads
    BY DEF Shape, Fats, Heads
  <2> HIDE DEF next
  <2>2. QED
    BY <1>3, <1>5, <2>1 DEF Fats, Heads
<1>7. Shape(u)
  BY <1>4, <1>6 DEF Shape
<1>8. Same(s, u, Clusters \ Range(q))
  BY <1>3, <1>4 DEF Same
<1>9. \A i \in 1 .. Len(q) : u.fat[q[i]] = IF i < Len(q) THEN q[i + 1] ELSE EOC
  <2> TAKE i \in 1 .. Len(q)
  <2>1. u.fat[q[i]] = next(q[i])
    <3> HIDE DEF next
    <3>1. QED
      BY <1>1, <1>3
  <2>2. QED
    BY <1>2, <2>1
<1>10. ASSUME q # <<>> PROVE Linked(u, q)
  <2>1. Len(q) >= 1
    BY <1>1, <1>10
  <2>2. \A i \in 1 .. Len(q) - 1 : u.fat[q[i]] = q[i + 1]
    BY <1>1, <1>9
  <2>3. u.fat[q[Len(q)]] = EOC
    BY <1>1, <1>9, <2>1
  <2>4. QED
    BY <1>10, <2>2, <2>3 DEF Linked
<1>11. QED
  BY <1>7, <1>8, <1>10 DEF u

(* The clusters that allocateCluster returns are free, and differ; when    *)
(* they are fewer than were asked for, they are all that were free.        *)
LEMMA NewClustersAre ==
    ASSUME NEW s, NEW n \in Nat
    PROVE  /\ NewClusters(s, n) \in Seq(FreeClusters(s)) /\ Len(NewClusters(s, n)) <= n
           /\ \A i, j \in 1 .. Len(NewClusters(s, n)) :
                 NewClusters(s, n)[i] = NewClusters(s, n)[j] => i = j
           /\ Len(NewClusters(s, n)) < n =>
                 \A c \in FreeClusters(s) : \E i \in 1 .. Len(NewClusters(s, n)) : c = NewClusters(s, n)[i]
<1> DEFINE Free == FreeClusters(s)
           X == SUBSET Free
           step == [x \in X \X (1 .. n) |-> {c \in x[1] : \E b \in x[1] : b < c}]
           F(l) == [i \in 0 .. n |->
                      IF i = 0 THEN Free ELSE {c \in l[i - 1] : \E b \in l[i - 1] : b < c}]
           left == CHOOSE l : l = F(l)
<1>1. Free \subseteq Nat
  <2>1. \A c \in Clusters : c \in Nat
    BY Sizes
  <2>2. QED
    BY <2>1 DEF FreeClusters
<1>2. Free \in X /\ step \in [X \X (1 .. n) -> X]
  OBVIOUS
<1>3. PICK g : IsTrace(g, n, X, Free, step)
  <2> HIDE DEF X, step, Free
  <2>1. QED
    BY <1>2, LoopTrace
<1>4. /\ g \in [0 .. n -> X] /\ g[0] = Free
      /\ \A i \in 1 .. n : g[i] = step[<<g[i - 1], i>>]
  BY <1>3 DEF IsTrace
<1> HIDE DEF Free
<1>5. \A i \in 1 .. n : g[i] = {c \in g[i - 1] : \E b \in g[i - 1] : b < c}
  <2> TAKE i \in 1 .. n
  <2>1. i - 1 \in 0 .. n
    OBVIOUS
  <2>2. <<g[i - 1], i>> \in X \X (1 .. n)
    BY <1>4, <2>1
  <2>3. QED
    BY <1>4, <2>2
<1>6. g = F(g)
  BY <1>4, <1>5
<1>7. left = F(left)
  BY <1>6
<1>8. NewClusters(s, n) = [i \in {j \in 1 .. n : left[j - 1] # {}} |-> Min(left[i - 1])]
  BY DEF NewClusters, Free
<1> HIDE DEF left
<1>9. /\ left[0] = Free
      /\ \A i \in 1 .. n : left[i] = {c \in left[i - 1] : \E b \in left[i - 1] : b < c}
  <2>1. \A i \in 0 .. n : left[i] =
           IF i = 0 THEN Free ELSE {c \in left[i - 1] : \E b \in left[i - 1] : b < c}
    BY <1>7
  <2>2. 0 \in 0 .. n /\ \A i \in 1 .. n : i \in 0 .. n /\ i # 0
    OBVIOUS
  <2> HIDE DEF F
  <2>3. QED
    BY <2>1, <2>2
<1> HIDE DEF F
<1> DEFINE S == {j \in 0 .. n : left[j] \subseteq Free /\ \A i \in 0 .. j : left[j] \subseteq left[i]}
<1>10. \A j \in 0 .. n : left[j] \subseteq Free /\ \A i \in 0 .. j : left[j] \subseteq left[i]
  <2>1. 0 \in S
    BY <1>9
  <2>2. ASSUME NEW j \in 1 .. n, j - 1 \in S PROVE j \in S
    <3>1. left[j] \subseteq left[j - 1]
      BY <1>9
    <3>2. \A i \in 0 .. j : i = j \/ i \in 0 .. j - 1
      OBVIOUS
    <3>3. QED
      BY <2>2, <3>1, <3>2
  <2> HIDE DEF S
  <2>3. 0 .. n \subseteq S
    BY <2>1, <2>2, RoundInduction
  <2>4. QED
    BY <2>3 DEF S
<1> HIDE DEF S
<1>11. \A i \in 1 .. n : left[i - 1] # {} =>
          /\ Min(left[i - 1]) \in left[i - 1] /\ Min(left[i - 1]) \in Free
          /\ Min(left[i - 1]) \notin left[i]
  <2> TAKE i \in 1 .. n
  <2> HAVE left[i - 1] # {}
  <2>1. i - 1 \in 0 .. n
    OBVIOUS
  <2>2. left[i - 1] \in SUBSET Nat /\ left[i - 1] \subseteq Free
    BY <1>1, <1>10, <2>1
  <2> DEFINE L == left[i - 1]
             m == Min(L)
  <2>3. L \in SUBSET Nat /\ L # {}
    BY <2>2
  <2> HIDE DEF L
  <2>4. m \in L /\ \A y \in L : m <= y
    BY <2>3, MinInSet
  <2>5. left[i] = {c \in L : \E b \in L : b < c}
    BY <1>9 DEF L
  <2> HIDE DEF m
  <2>6. m \notin left[i]
    BY <2>3, <2>4, <2>5
  <2>7. QED
    BY <2>2, <2>4, <2>6 DEF L, m
<1> DEFINE dom == {j \in 1 .. n : left[j - 1] # {}}
           E == (1 .. n) \ dom
           new == NewClusters(s, n)
<1>12. \A i \in dom : \A j \in 1 .. i : j \in dom
  <2> TAKE i \in dom
  <2> TAKE j \in 1 .. i
  <2>1. i - 1 \in 0 .. n /\ j - 1 \in 0 .. i - 1 /\ j \in 1 .. n
    OBVIOUS
  <2>2. left[i - 1] \subseteq left[j - 1]
    BY <1>10, <2>1
  <2>3. QED
    BY <2>1, <2>2
<1>13. \E k \in 0 .. n : dom = 1 .. k
  <2>1. dom \subseteq 1 .. n /\ E \subseteq Nat
    OBVIOUS
  <2>2. CASE E = {}
    <3>1. dom = 1 .. n /\ n \in 0 .. n
      BY <2>1, <2>2
    <3> HIDE DEF dom
    <3>2. QED
      BY <3>1
  <2>3. CASE E # {}
    <3> DEFINE m == Min(E)
    <3>1. E \in SUBSET Nat
      BY <2>1
    <3>2. m \in E /\ \A y \in E : m <= y
      <4> HIDE DEF E
      <4>1. QED
        BY <2>3, <3>1, MinInSet
    <3> HIDE DEF m, dom
    <3>3. m \in 1 .. n /\ m \notin dom
      BY <3>2
    <3>4. ASSUME NEW i \in dom PROVE i \in 1 .. m - 1
      <4>1. i \in 1 .. n
        BY <2>1
      <4>2. ~(m <= i)
        <5> SUFFICES ASSUME m <= i PROVE FALSE
          OBVIOUS
        <5>1. m \in 1 .. i
          BY <3>3, <4>1
        <5>2. QED
          BY <1>12, <3>3, <5>1
      <4>3. QED
        BY <3>3, <4>1, <4>2
    <3>5. ASSUME NEW i \in 1 .. m - 1 PROVE i \in dom
      <4>1. i \in 1 .. n /\ ~(m <= i)
        BY <3>3
      <4>2. QED
        BY <3>2, <4>1
    <3>6. m - 1 \in 0 .. n
      BY <3>3
    <3>7. dom = 1 .. m - 1
      BY <3>4, <3>5
    <3>8. QED
      BY <3>6, <3>7
  <2>4. QED
    BY <2>2, <2>3
<1>14. PICK k \in 0 .. n : dom = 1 .. k
  BY <1>13
<1>15. new = [i \in 1 .. k |-> Min(left[i - 1])]
  BY <1>8, <1>14
<1>16. \A i \in 1 .. k : Min(left[i - 1]) \in Free
  <2> TAKE i \in 1 .. k
  <2>1. i \in 1 .. n /\ left[i - 1] # {}
    BY <1>14
  <2>2. QED
    BY <1>11, <2>1
<1>17. new \in Seq(Free) /\ Len(new) = k
  <2> HIDE DEF new, dom
  <2>1. QED
    BY <1>15, <1>16
<1>18. \A i, j \in 1 .. k : i < j => new[i] # new[j]
  <2> TAKE i, j \in 1 .. k
  <2> HAVE i < j
  <2>0. i \in dom /\ j \in dom
    BY <1>14
  <2>1. /\ i \in 1 .. n /\ j \in 1 .. n /\ left[i - 1] # {} /\ left[j - 1] # {}
        /\ j - 1 \in 0 .. n /\ i \in 0 .. j - 1
    BY <2>0
  <2>2. left[j - 1] \subseteq left[i]
    BY <1>10, <2>1
  <2>3. Min(left[i - 1]) \notin left[i] /\ Min(left[j - 1]) \in left[j - 1]
    BY <1>11, <2>1
  <2>4. QED
    BY <1>15, <2>2, <2>3
<1>19. \A i, j \in 1 .. k : new[i] = new[j] => i = j
  BY <1>18
<1>20. ASSUME k < n, NEW c \in Free PROVE \E i \in 1 .. k : c = new[i]
  <2> DEFINE T == {i \in 0 .. k : c \in left[i] \/ \E j \in 1 .. i : c = new[j]}
  <2>1. 0 \in T
    BY <1>9
  <2>2. ASSUME NEW i \in 1 .. k, i - 1 \in T PROVE i \in T
    <3>1. CASE \E j \in 1 .. i - 1 : c = new[j]
      BY <3>1
    <3>2. CASE c \in left[i - 1]
      <4>1. i \in dom /\ i \in 1 .. n
        BY <1>14
      <4>2. left[i - 1] \in SUBSET Nat /\ left[i - 1] # {}
        <5>1. i - 1 \in 0 .. n
          BY <4>1
        <5>2. QED
          BY <1>1, <1>10, <3>2, <5>1
      <4>3. PICK m : m = Min(left[i - 1]) /\ m \in left[i - 1] /\ \A y \in left[i - 1] : m <= y
        BY <4>2, MinInSet
      <4>4. m \in Nat /\ c \in Nat /\ m <= c
        BY <3>2, <4>2, <4>3
      <4>5. CASE m = c
        <5>1. new[i] = m
          BY <1>15, <4>3
        <5>2. QED
          BY <4>5, <5>1
      <4>6. CASE m # c
        <5>1. m < c
          BY <4>4, <4>6
        <5>2. c \in left[i]
          BY <1>9, <3>2, <4>1, <4>3, <5>1
        <5>3. QED
          BY <5>2
      <4>7. QED
        BY <4>5, <4>6
    <3>3. QED
      BY <2>2, <3>1, <3>2
  <2>3. left[k] = {}
    <3>1. k + 1 \in 1 .. n /\ k + 1 \notin 1 .. k /\ (k + 1) - 1 = k
      BY <1>20
    <3>2. k + 1 \notin dom
      BY <1>14, <3>1
    <3> HIDE DEF T
    <3>3. QED
      BY <3>1, <3>2
  <2>4. k \in T
    <3> HIDE DEF T
    <3>1. k \in Nat
      OBVIOUS
    <3>2. 0 .. k \subseteq T
      BY <2>1, <2>2, <3>1, RoundInduction
    <3>3. QED
      BY <3>2
  <2> HIDE DEF new, dom, E
  <2>5. QED
    BY <2>3, <2>4
<1>21. QED
  BY <1>17, <1>19, <1>20 DEF new, Free

(* The chain that an entry has before the write. *)
LEMMA OldChain ==
    ASSUME NEW s, NEW ch, NEW D, Struct(s, ch, D), NEW h, h = 0 \/ h \in DOMAIN ch
    PROVE  /\ Chain(s, h) \in Seq(Clusters)
           /\ \A i, j \in 1 .. Len(Chain(s, h)) : Chain(s, h)[i] = Chain(s, h)[j] => i = j
           /\ \A g \in (DOMAIN ch) \ {h} : Range(Chain(s, h)) \cap Range(ch[g]) = {}
           /\ \A c \in FreeClusters(s) : c \notin Range(Chain(s, h))
           /\ h = 0 => Chain(s, h) = <<>>
           /\ h # 0 => /\ Chain(s, h) = ch[h] /\ Linked(s, ch[h])
                       /\ h \in Clusters /\ Len(ch[h]) >= 1 /\ ch[h][1] = h
<1>1. CASE h = 0
  <2>1. Chain(s, h) = <<>>
    BY <1>1, NoChain, Sizes DEF Struct, Shape
  <2>2. \A i \in 1 .. 0 : FALSE
    OBVIOUS
  <2>3. QED
    BY <1>1, <2>1, <2>2, NoClusters
<1>2. CASE h # 0
  <2>1. h \in DOMAIN ch /\ Chain(s, h) = ch[h]
    BY <1>2, ChainOfHead
  <2>2. Linked(s, ch[h]) /\ ch[h][1] = h /\ h \in Clusters
    BY <2>1 DEF Struct, Layout
  <2>3. ch[h] \in Seq(Clusters) /\ ch[h] # <<>>
    BY <2>2 DEF Linked
  <2>4. Len(ch[h]) >= 1
    BY <2>3
  <2>5. \A c \in FreeClusters(s) : c \notin Range(ch[h])
    BY <2>2, FreeIsOutside
  <2>6. \A g \in (DOMAIN ch) \ {h} : Range(ch[h]) \cap Range(ch[g]) = {}
    BY <2>1 DEF Struct, Layout
  <2>7. \A i, j \in 1 .. Len(ch[h]) : ch[h][i] = ch[h][j] => i = j
    BY <2>2 DEF Linked
  <2>8. QED
    BY <1>2, <2>1, <2>2, <2>3, <2>4, <2>5, <2>6, <2>7
<1>3. QED
  BY <1>1, <1>2

LEMMA NeededIs ==
    ASSUME NEW len \in Nat
    PROVE  ClustersNeeded(len) \in Nat /\ len <= BytesPerCluster * ClustersNeeded(len)
<1> DEFINE x == len + BytesPerCluster - 1
<1>1. x \in Nat /\ BytesPerCluster \in Nat \ {0} /\ BytesPerCluster \in Nat
  BY Bytes
<1> HIDE DEF x
<1>2. PICK k \in Nat : k = x \div BytesPerCluster
  BY <1>1, DivMod
<1>3. PICK r \in 0 .. BytesPerCluster - 1 : x = BytesPerCluster * k + r
  BY <1>1, <1>2, DivMod
<1>4. PICK m \in Nat : m = BytesPerCluster * k
  <2>1. \A a, b \in Nat : a * b \in Nat
    OBVIOUS
  <2>2. QED
    BY <1>1, <2>1
<1>5. len <= m
  BY <1>1, <1>3, <1>4 DEF x
<1>6. ClustersNeeded(len) = k
  BY <1>2 DEF ClustersNeeded, x
<1>7. QED
  BY <1>4, <1>5, <1>6

(* Two sequences without repetitions that have nothing in common. *)
LEMMA JoinedDiffer ==
    ASSUME NEW a \in Seq(Clusters), NEW b \in Seq(Clusters),
           \A i, j \in 1 .. Len(a) : a[i] = a[j] => i = j,
           \A i, j \in 1 .. Len(b) : b[i] = b[j] => i = j,
           Range(a) \cap Range(b) = {}
    PROVE  /\ a \o b \in Seq(Clusters) /\ Len(a \o b) = Len(a) + Len(b)
           /\ \A i, j \in 1 .. Len(a \o b) : (a \o b)[i] = (a \o b)[j] => i = j
           /\ Range(a \o b) = Range(a) \cup Range(b)
           /\ \A i \in 1 .. Len(a) : (a \o b)[i] = a[i]
           /\ Len(a) >= 1 => (a \o b)[1] = a[1]
<1> DEFINE q == a \o b
<1>1. /\ q \in Seq(Clusters) /\ Len(q) = Len(a) + Len(b) /\ Len(a) \in Nat /\ Len(b) \in Nat
      /\ \A i \in 1 .. Len(q) : q[i] = IF i <= Len(a) THEN a[i] ELSE b[i - Len(a)]
  OBVIOUS
<1> HIDE DEF q
<1>2. PICK m \in Nat : m = Len(a)
  BY <1>1
<1>3. PICK n \in Nat : n = Len(b)
  BY <1>1
<1>4. \A i \in 1 .. m + n : i <= m => i \in 1 .. m /\ q[i] = a[i]
  BY <1>1, <1>2, <1>3
<1>5. \A i \in 1 .. m + n : ~(i <= m) => i - m \in 1 .. n /\ q[i] = b[i - m]
  BY <1>1, <1>2, <1>3
<1>6. /\ \A i \in 1 .. m : a[i] \in Range(a)
      /\ \A i \in 1 .. n : b[i] \in Range(b)
  BY <1>2, <1>3, RangeIs
<1>7. \A i, j \in 1 .. m + n : q[i] = q[j] => i = j
  <2> TAKE i, j \in 1 .. m + n
  <2> HAVE q[i] = q[j]
  <2>1. CASE i <= m /\ j <= m
    BY <1>2, <1>4, <2>1
  <2>2. CASE ~(i <= m) /\ ~(j <= m)
    <3>1. i - m = j - m
      BY <1>3, <1>5, <2>2
    <3>2. QED
      BY <3>1
  <2>3. CASE i <= m /\ ~(j <= m)
    <3>1. q[i] \in Range(a) /\ q[j] \in Range(b)
      BY <1>4, <1>5, <1>6, <2>3
    <3>2. QED
      BY <3>1
  <2>4. CASE ~(i <= m) /\ j <= m
    <3>1. q[j] \in Range(a) /\ q[i] \in Range(b)
      BY <1>4, <1>5, <1>6, <2>4
    <3>2. QED
      BY <3>1
  <2>5. QED
    BY <2>1, <2>2, <2>3, <2>4
<1>80. Range(a) \cup Range(b) \subseteq Range(q)
  <2>1. \A i \in 1 .. m : i \in 1 .. m + n /\ a[i] = q[i]
    BY <1>4
  <2>2. \A i \in 1 .. n : i + m \in 1 .. m + n /\ b[i] = q[i + m]
    <3> TAKE i \in 1 .. n
    <3>1. i + m \in 1 .. m + n /\ ~(i + m <= m) /\ (i + m) - m = i
      OBVIOUS
    <3>2. QED
      BY <1>5, <3>1
  <2>3. Range(a) = {a[i] : i \in 1 .. m} /\ Range(b) = {b[i] : i \in 1 .. n}
    BY <1>2, <1>3, RangeIs
  <2>4. \A i \in 1 .. m + n : q[i] \in Range(q)
    BY <1>1, <1>2, <1>3, RangeIs
  <2>5. \A i \in 1 .. m : a[i] \in Range(q)
    BY <2>1, <2>4
  <2>6. \A i \in 1 .. n : b[i] \in Range(q)
    BY <2>2, <2>4
  <2>7. QED
    BY <2>3, <2>5, <2>6
<1>8. Range(q) \subseteq Range(a) \cup Range(b)
  <2>1. \A i \in 1 .. m + n : q[i] \in Range(a) \cup Range(b)
    BY <1>4, <1>5, <1>6
  <2>2. Range(q) = {q[i] : i \in 1 .. Len(q)}
    BY <1>1, RangeIs
  <2>3. QED
    BY <1>1, <1>2, <1>3, <2>1, <2>2
<1>9. Len(a) >= 1 => q[1] = a[1]
  BY <1>1
<1>10. Len(q) = m + n
  BY <1>1, <1>2, <1>3
<1>11. \A i \in 1 .. Len(a) : q[i] = a[i]
  BY <1>1
<1>12. QED
  BY <1>1, <1>7, <1>8, <1>80, <1>9, <1>10, <1>11 DEF q

(* The chain that is filled meets no chain of another entry. *)
Fillable(s, ch, h, len, chain) ==
    /\ chain \in Seq(Clusters) /\ \A i, j \in 1 .. Len(chain) : chain[i] = chain[j] => i = j
    /\ \A g \in (DOMAIN ch) \ {h} : Range(chain) \cap Range(ch[g]) = {}
    /\ h # 0 /\ chain # <<>> => chain[1] = h
    /\ \A i \in 1 .. Len(chain) : i <= Len(Chain(s, h)) => chain[i] = Chain(s, h)[i]
    /\ Len(chain) < ClustersNeeded(len) =>
          Len(Chain(s, h)) <= Len(chain) /\ FreeClusters(s) \subseteq Range(chain)

LEMMA WriteChainIs ==
    ASSUME NEW s, NEW ch, NEW D, Struct(s, ch, D), NEW c, c.start = 0 \/ c.start \in DOMAIN ch,
           NEW len \in Nat
    PROVE  Fillable(s, ch, c.start, len, WriteChain(s, c, len))
<1> DEFINE h == c.start
           old == Chain(s, h)
           chain == WriteChain(s, c, len)
<1>1. /\ old \in Seq(Clusters) /\ Len(old) \in Nat
      /\ \A i, j \in 1 .. Len(old) : old[i] = old[j] => i = j
      /\ \A g \in (DOMAIN ch) \ {h} : Range(old) \cap Range(ch[g]) = {}
      /\ \A b \in FreeClusters(s) : b \notin Range(old)
      /\ h # 0 => Len(old) >= 1 /\ old[1] = h
  BY OldChain
<1>2. PICK need \in Nat : need = ClustersNeeded(len)
  BY NeededIs
<1>3. chain = IF need <= Len(old) THEN SubSeq(old, 1, need)
              ELSE old \o NewClusters(s, need - Len(old))
  BY <1>2 DEF WriteChain
<1> HIDE DEF old, chain
<1>4. CASE need <= Len(old)
  <2>1. chain = SubSeq(old, 1, need)
    BY <1>3, <1>4
  <2>2. /\ chain \in Seq(Clusters) /\ Len(chain) = need
        /\ \A i \in 1 .. need : chain[i] = old[i] /\ i \in 1 .. Len(old)
    BY <1>1, <1>4, <2>1
  <2>3. Range(chain) \subseteq Range(old)
    <3>1. Range(chain) = {chain[i] : i \in 1 .. need}
      BY <2>2, RangeIs
    <3>2. \A i \in 1 .. Len(old) : old[i] \in Range(old)
      BY <1>1, RangeIs
    <3>3. QED
      BY <2>2, <3>1, <3>2
  <2>4. \A i, j \in 1 .. Len(chain) : chain[i] = chain[j] => i = j
    BY <1>1, <2>2
  <2>5. chain # <<>> => Len(chain) >= 1
    BY <2>2
  <2>6. h # 0 /\ chain # <<>> => chain[1] = h
    BY <1>1, <2>2, <2>5
  <2>7. ~(Len(chain) < need)
    BY <2>2
  <2>8. \A g \in (DOMAIN ch) \ {h} : Range(chain) \cap Range(ch[g]) = {}
    BY <1>1, <2>3
  <2>9. QED
    BY <1>2, <2>2, <2>4, <2>6, <2>7, <2>8 DEF Fillable, chain, old
<1>5. CASE ~(need <= Len(old))
  <2>1. PICK n \in Nat : n = need - Len(old)
    BY <1>1, <1>5
  <2> DEFINE new == NewClusters(s, n)
  <2>2. /\ new \in Seq(FreeClusters(s))
        /\ \A i, j \in 1 .. Len(new) : new[i] = new[j] => i = j
        /\ Len(new) < n => \A b \in FreeClusters(s) : \E i \in 1 .. Len(new) : b = new[i]
    BY NewClustersAre
  <2>3. chain = old \o new
    BY <1>3, <1>5, <2>1
  <2> HIDE DEF new
  <2>4. FreeClusters(s) \subseteq Clusters
    BY DEF FreeClusters
  <2>5. new \in Seq(Clusters) /\ Len(new) \in Nat /\ \A i \in 1 .. Len(new) : new[i] \in FreeClusters(s)
    BY <2>2, <2>4
  <2>6. Range(new) \subseteq FreeClusters(s)
    BY <2>5, RangeIs
  <2>7. Range(old) \cap Range(new) = {}
    BY <1>1, <2>6
  <2>8. /\ chain \in Seq(Clusters) /\ Len(chain) = Len(old) + Len(new)
        /\ \A i, j \in 1 .. Len(chain) : chain[i] = chain[j] => i = j
        /\ Range(chain) = Range(old) \cup Range(new)
        /\ \A i \in 1 .. Len(old) : chain[i] = old[i]
        /\ Len(old) >= 1 => chain[1] = old[1]
    BY <1>1, <2>2, <2>3, <2>5, <2>7, JoinedDiffer
  <2>9. \A g \in (DOMAIN ch) \ {h} : Range(new) \cap Range(ch[g]) = {}
    <3> TAKE g \in (DOMAIN ch) \ {h}
    <3>1. Linked(s, ch[g])
      BY DEF Struct, Layout
    <3>2. QED
      BY <2>6, <3>1, FreeIsOutside
  <2>10. \A g \in (DOMAIN ch) \ {h} : Range(chain) \cap Range(ch[g]) = {}
    BY <1>1, <2>8, <2>9
  <2>11. Len(old) <= Len(chain)
    BY <1>1, <2>5, <2>8
  <2>12. ASSUME Len(chain) < need PROVE FreeClusters(s) \subseteq Range(chain)
    <3>1. Len(new) < n
      BY <1>1, <2>1, <2>5, <2>8, <2>12
    <3>2. \A i \in 1 .. Len(new) : new[i] \in Range(new)
      BY <2>5, RangeIs
    <3>3. QED
      BY <2>2, <2>8, <3>1, <3>2
  <2>13. \A i \in 1 .. Len(chain) : i <= Len(old) => chain[i] = old[i]
    BY <1>1, <2>8
  <2>14. h # 0 /\ chain # <<>> => chain[1] = h
    BY <1>1, <2>8
  <2>15. QED
    BY <1>2, <2>8, <2>10, <2>11, <2>12, <2>13, <2>14 DEF Fillable, chain, old
<1>6. QED
  BY <1>4, <1>5

(* The clusters behind the new end of the file. *)
LEMMA TailFreedIs ==
    ASSUME NEW s, NEW ch, NEW D, Struct(s, ch, D), NEW c, c.start = 0 \/ c.start \in DOMAIN ch,
           NEW q \in Seq(Clusters)
    PROVE  /\ Shape(TailFreed(s, c, q))
           /\ \A g \in (DOMAIN ch) \ {c.start} : Same(s, TailFreed(s, c, q), Range(ch[g]))
           /\ \A b \in Clusters : s.fat[b] = FREE => TailFreed(s, c, q).fat[b] = FREE
           /\ \A i \in 1 .. Len(Chain(s, c.start)) :
                 i > Len(q) => TailFreed(s, c, q).fat[Chain(s, c.start)[i]] = FREE
<1> DEFINE h == c.start
           old == Chain(s, h)
           t == TailFreed(s, c, q)
<1>0. Shape(s) /\ s.fat \in Fats
  BY DEF Struct, Shape
<1>1. CASE ~(Len(q) < Len(old))
  <2>1. t = s
    BY <1>1 DEF TailFreed
  <2>2. old \in Seq(Clusters)
    BY OldChain
  <2>3. \A i \in 1 .. Len(old) : ~(i > Len(q))
    BY <1>1, <2>2
  <2> HIDE DEF old
  <2>4. QED
    BY <1>0, <2>1, <2>3 DEF Same, old
<1>2. CASE Len(q) < Len(old)
  <2>1. PICK k \in Nat : k = Len(q) + 1
    OBVIOUS
  <2>2. t = FreeChain(s, old[k])
    BY <1>2, <2>1 DEF TailFreed
  <2>3. h # 0
    <3>1. h = 0 => old = <<>>
      BY OldChain
    <3>2. QED
      BY <1>2, <3>1
  <2>4. old = ch[h] /\ Linked(s, ch[h]) /\ ch[h] \in Seq(Clusters)
    BY <2>3, OldChain DEF Linked
  <2>5. \A g \in (DOMAIN ch) \ {h} : Range(ch[h]) \cap Range(ch[g]) = {}
    BY <2>4, OldChain
  <2> HIDE DEF t, old
  <2> DEFINE p == ch[h]
             tail == SubSeq(p, k, Len(p))
  <2>6. k \in 1 .. Len(p)
    BY <1>2, <2>1, <2>4
  <2>7. Linked(s, tail)
    BY <2>4, <2>6, TailLinked
  <2>8. /\ tail \in Seq(Clusters) /\ Len(tail) = Len(p) - k + 1 /\ tail[1] = p[k]
        /\ \A i \in 1 .. Len(tail) : tail[i] = p[k + i - 1] /\ k + i - 1 \in 1 .. Len(p)
    <3> HIDE DEF p
    <3>1. p \in Seq(Clusters)
      BY <2>4 DEF p
    <3>2. QED
      BY <2>6, <3>1
  <2> HIDE DEF p, tail
  <2>9. Chain(s, tail[1]) = tail
    BY <1>0, <2>7, ChainIs
  <2>10. t = Freed(s, Range(tail))
    BY <2>2, <2>4, <2>8, <2>9 DEF FreeChain, p
  <2>11. Range(tail) \subseteq Range(p) /\ Range(tail) \subseteq Clusters
    <3>1. Range(tail) = {tail[i] : i \in 1 .. Len(tail)} /\ Range(tail) \subseteq Clusters
      BY <2>8, RangeIs
    <3>2. \A i \in 1 .. Len(p) : p[i] \in Range(p)
      BY <2>4, RangeIs DEF p
    <3>3. QED
      BY <2>8, <3>1, <3>2
  <2>12. Shape(t) /\ Same(s, t, Clusters \ Range(tail))
    BY <1>0, <2>10, <2>11, FreedIs
  <2>13. \A g \in (DOMAIN ch) \ {h} : Range(ch[g]) \subseteq Clusters \ Range(tail)
    <3> TAKE g \in (DOMAIN ch) \ {h}
    <3>1. Range(ch[g]) \subseteq Clusters
      BY HeadInRange DEF Struct
    <3>2. QED
      BY <2>5, <2>11, <3>1 DEF p
  <2>14. \A g \in (DOMAIN ch) \ {h} : Same(s, t, Range(ch[g]))
    BY <2>12, <2>13 DEF Same
  <2>15. t.fat = [b \in Clusters |-> IF b \in Range(tail) THEN FREE ELSE s.fat[b]]
    BY <2>10 DEF Freed
  <2>16. \A b \in Clusters : s.fat[b] = FREE => t.fat[b] = FREE
    BY <2>15
  <2>17. \A i \in 1 .. Len(p) : i > Len(q) => t.fat[p[i]] = FREE
    <3> TAKE i \in 1 .. Len(p)
    <3> HAVE i > Len(q)
    <3>0. Len(p) \in Nat /\ Len(q) \in Nat /\ i \in Nat /\ i <= Len(p)
      BY <2>4 DEF p
    <3>1. PICK j \in Nat : j = i - k + 1
      BY <2>1, <3>0
    <3>2. j \in 1 .. Len(tail) /\ k + j - 1 = i
      BY <2>1, <2>8, <3>0, <3>1
    <3>3. tail[j] = p[i] /\ tail[j] \in Range(tail)
      BY <2>8, <3>2, RangeIs
    <3>4. p[i] \in Clusters
      BY <2>4 DEF p
    <3>5. QED
      BY <2>15, <3>3, <3>4
  <2>18. \A i \in 1 .. Len(old) : i > Len(q) => t.fat[old[i]] = FREE
    BY <2>4, <2>17 DEF p
  <2>19. QED
    BY <2>12, <2>14, <2>16, <2>18 DEF t, old
<1>3. QED
  BY <1>1, <1>2

(* A file's entry takes another chain and size. *)
Rewritten(s, ch, x, t, q, e) ==
    /\ Shape(t)
    /\ \A g \in (DOMAIN ch) \ {At(s, x).start} :
          Same(s, t, Range(ch[g])) /\ Range(q) \cap Range(ch[g]) = {}
    /\ q = <<>> \/ Linked(t, q)
    /\ e \in Entries /\ e.name = At(s, x).name /\ ~e.dir
    /\ e.start = Start(q) /\ e.size <= BytesPerCluster * Len(q)

(* The volume u that it leads to. *)
Rewrites(s, ch, D, x, t, q, e, u, ch1, D1) ==
    /\ Rework(s, ch, D, At(s, x).start, u, ch1, D1, x)
    /\ x \in Live(u, ch1, D1) /\ At(u, x) = e
    /\ q # <<>> => e.start \in DOMAIN ch1 /\ ch1[e.start] = q
    /\ \A c \in Range(q) : u.data[c] = t.data[c]
    /\ Settled(s, ch, At(s, x).start, t, q) => Accounted(s, ch, u, ch1)

LEMMA FileRewritten ==
    ASSUME NEW s, NEW ch, NEW D, Struct(s, ch, D), Differ(s, ch, D),
           NEW x \in Live(s, ch, D), ~At(s, x).dir,
           NEW t, NEW q, NEW e, Rewritten(s, ch, x, t, q, e), NEW u, u = PutEntry(t, x, e)
    PROVE  \E ch1, D1 : Rewrites(s, ch, D, x, t, q, e, u, ch1, D1)
<1>1. PICK h : h = At(s, x).start
  OBVIOUS
<1>2. x \in DirSlots(ch, D) /\ Owned(s, x) = h /\ At(s, x).name \in Names
  BY <1>1 DEF Live, Owned, Real
<1>3. h \notin D
  <2>1. Backed(ch, D, At(s, x))
    BY DEF Struct, AllBacked
  <2>2. 0 \notin D
    BY Sizes DEF Struct, Dirs, Layout
  <2>3. QED
    BY <1>1, <2>1, <2>2 DEF Backed
<1>4. Fits(ch, D, t, h, x, e, q, D \ {h})
  BY <1>2 DEF FileIn, Rewritten, Fits
<1>5. /\ Shape(t)
      /\ q = <<>> \/ Linked(t, q)
      /\ \A g \in (DOMAIN ch) \ {h} : Same(s, t, Range(ch[g]))
      /\ \A g \in (DOMAIN ch) \ {h} : Range(q) \cap Range(ch[g]) = {}
      /\ e \in Entries /\ e.name = At(s, x).name /\ e.start = Start(q)
  BY <1>1 DEF Rewritten
<1>6. PICK D1 : D1 = D \ {h}
  OBVIOUS
<1>7. Change(s, ch, D, x, h, t, q, e, D1)
  BY <1>2, <1>3, <1>4, <1>5, <1>6 DEF Change
<1>8. NameIsFree(s, ch, D, x, e.name)
  BY <1>5 DEF NameIsFree, Differ, InDir
<1>9. PICK ch1 : ch1 = Moved(ch, h, q)
  OBVIOUS
<1>10. /\ Rework(s, ch, D, h, u, ch1, D1, x)
       /\ Settled(s, ch, h, t, q) => Accounted(s, ch, u, ch1)
  BY <1>7, <1>8, <1>9, ChangeReworks
<1>11. x \in Live(u, ch1, D1) /\ At(u, x) = e
  BY <1>2, <1>5, <1>7, <1>9, LiveKept
<1>12. q # <<>> => e.start \in DOMAIN ch1 /\ ch1[e.start] = q
  <2>1. Joined(ch, h, q, ch1)
    BY <1>7, <1>9, MovedFacts
  <2>2. QED
    BY <1>5, <2>1 DEF Joined, Start
<1>13. \A c \in Range(q) : u.data[c] = t.data[c]
  <2>1. x[1] \notin Range(q) /\ x \in Slot /\ t.data[x[1]] \in SlotTable
    BY <1>7, ChangePlace
  <2>2. Range(q) \subseteq Clusters
    BY <1>5, NoClusters, StartInRange
  <2>3. QED
    BY <1>5, <2>1, <2>2, PutFacts
<1>14. Rewrites(s, ch, D, x, t, q, e, u, ch1, D1)
  BY <1>1, <1>10, <1>11, <1>12, <1>13 DEF Rewrites
<1>15. QED
  BY <1>14

(* The entry in a slot of a directory. *)
LEMMA EntryAt ==
    ASSUME NEW s, NEW ch, NEW D, Struct(s, ch, D), NEW x \in DirSlots(ch, D)
    PROVE  /\ At(s, x) \in Entries /\ x \in Slot /\ s.data[x[1]] \in SlotTable
           /\ \E d \in D : d \in DOMAIN ch /\ x[1] \in Range(ch[d])
<1>1. PICK d \in D : x[1] \in Range(ch[d])
  BY DEF DirSlots
<1>2. s.data[x[1]] \in SlotTable /\ d \in DOMAIN ch
  BY <1>1 DEF Struct, Dirs
<1>3. x \in Slot /\ x[2] \in 1 .. EntriesPerCluster
  BY DEF DirSlots, Slot
<1>4. At(s, x) \in Entries
  BY <1>2, <1>3 DEF At, SlotTable
<1>5. QED
  BY <1>1, <1>2, <1>3, <1>4

-----------------------------------------------------------------------------
(* What is in a file: the cluster and the index of byte i.                 *)

Nth(i) == ((i - 1) \div BytesPerCluster) + 1
Offset(i) == ((i - 1) % BytesPerCluster) + 1
TextIn(s, q, n) == [i \in 1 .. n |-> s.data[q[Nth(i)]][Offset(i)]]

LEMMA PlaceOfByte ==
    ASSUME NEW i \in Nat, i >= 1
    PROVE  /\ Nth(i) \in Nat /\ Nth(i) >= 1 /\ Offset(i) \in 1 .. BytesPerCluster
           /\ (Nth(i) - 1) * BytesPerCluster + Offset(i) = i
           /\ \A n \in Nat : i <= BytesPerCluster * n => Nth(i) \in 1 .. n
<1>1. PICK w \in Nat \ {0} : w = BytesPerCluster
  BY Bytes
<1>2. PICK x \in Nat : x = i - 1
  OBVIOUS
<1>3. PICK k \in Nat : k = x \div w
  BY DivMod
<1>4. PICK r \in 0 .. w - 1 : r = x % w /\ x = w * k + r
  BY <1>3, DivMod
<1>5. Nth(i) = k + 1 /\ Offset(i) = r + 1
  BY <1>1, <1>2, <1>3, <1>4 DEF Nth, Offset
<1>6. (Nth(i) - 1) * BytesPerCluster + Offset(i) = i
  <2>1. ((k + 1) - 1) * w = w * k
    OBVIOUS
  <2>2. PICK m \in Nat : m = w * k
    OBVIOUS
  <2>3. m + (r + 1) = i
    BY <1>2, <1>4, <2>2
  <2>4. QED
    BY <1>1, <1>5, <2>1, <2>2, <2>3
<1>7. ASSUME NEW n \in Nat, i <= BytesPerCluster * n PROVE Nth(i) \in 1 .. n
  <2>1. w * k + r < w * n
    <3>1. PICK m \in Nat : m = w * n
      OBVIOUS
    <3>2. x < m
      BY <1>1, <1>2, <1>7, <3>1
    <3>3. QED
      BY <1>4, <3>1, <3>2
  <2>2. k < n
    <3> SUFFICES ASSUME n <= k PROVE FALSE
      OBVIOUS
    <3>1. \A a, b, c \in Nat : a <= b => c * a <= c * b /\ c * a \in Nat /\ c * b \in Nat
      OBVIOUS
    <3>2. w * n <= w * k /\ w * n \in Nat /\ w * k \in Nat
      BY <3>1
    <3>3. QED
      BY <2>1, <3>2
  <2>3. QED
    BY <1>5, <2>2
<1>8. QED
  BY <1>1, <1>5, <1>6, <1>7

(* The loop of write: what it leaves in the clusters that it fills. *)
HasText(s, q, text, i) ==
    /\ Nth(i) \in 1 .. Len(q)
    /\ i <= Len(text) => Filled(s, q, text).data[q[Nth(i)]][Offset(i)] = text[i]
    /\ ~(i <= Len(text)) =>
          Filled(s, q, text).data[q[Nth(i)]][Offset(i)] = s.data[q[Nth(i)]][Offset(i)]

LEMMA FilledText ==
    ASSUME NEW s, NEW q \in Seq(Clusters), \A i, j \in 1 .. Len(q) : q[i] = q[j] => i = j,
           NEW text, NEW i \in Nat, i >= 1, i <= BytesPerCluster * Len(q)
    PROVE  HasText(s, q, text, i)
<1> DEFINE u == Filled(s, q, text)
           index == [c \in Clusters |-> CHOOSE j \in 1 .. Len(q) : q[j] = c]
           bytes(c) == [k \in 1 .. BytesPerCluster |->
                          IF (index[c] - 1) * BytesPerCluster + k <= Len(text)
                          THEN text[(index[c] - 1) * BytesPerCluster + k] ELSE s.data[c][k]]
<1>1. PICK j : j = Nth(i) /\ j \in 1 .. Len(q)
  BY PlaceOfByte
<1>2. PICK k : k = Offset(i) /\ k \in 1 .. BytesPerCluster
  BY PlaceOfByte
<1>3. PICK c : c = q[j] /\ c \in Clusters /\ c \in Range(q)
  BY <1>1, RangeIs
<1>4. index[c] = j
  <2>1. index[c] = CHOOSE m \in 1 .. Len(q) : q[m] = c
    BY <1>3
  <2>2. QED
    BY <1>1, <1>3, <2>1
<1>5. u.data = [b \in Clusters |-> IF b \notin Range(q) THEN s.data[b] ELSE bytes(b)]
  BY DEF Filled
<1> HIDE DEF u, index
<1>6. u.data[c] = bytes(c)
  <2> HIDE DEF bytes
  <2>1. QED
    BY <1>3, <1>5
<1>7. (j - 1) * BytesPerCluster + k = i
  BY <1>1, <1>2, PlaceOfByte
<1>8. u.data[c] = [m \in 1 .. BytesPerCluster |->
                     IF (j - 1) * BytesPerCluster + m <= Len(text)
                     THEN text[(j - 1) * BytesPerCluster + m] ELSE s.data[c][m]]
  BY <1>4, <1>6
<1>9. u.data[c][k] = IF (j - 1) * BytesPerCluster + k <= Len(text)
                     THEN text[(j - 1) * BytesPerCluster + k] ELSE s.data[c][k]
  BY <1>2, <1>8
<1>10. u.data[c][k] = IF i <= Len(text) THEN text[i] ELSE s.data[c][k]
  BY <1>7, <1>9
<1>11. QED
  BY <1>1, <1>2, <1>3, <1>10 DEF u, HasText

(* The text of the file whose entry is in slot x. *)
TextAt(s, x) == TextIn(s, Chain(s, At(s, x).start), At(s, x).size)

LEMMA RewrittenText ==
    ASSUME NEW s, NEW ch, NEW D, NEW x, NEW t, NEW q, NEW e, Rewritten(s, ch, x, t, q, e),
           NEW u, NEW ch1, NEW D1, Rewrites(s, ch, D, x, t, q, e, u, ch1, D1)
    PROVE  TextAt(u, x) = [i \in 1 .. e.size |-> t.data[q[Nth(i)]][Offset(i)]]
<1>1. At(u, x) = e /\ e.start = Start(q) /\ e.size <= BytesPerCluster * Len(q) /\ e.size \in Nat
  BY DEF Rewritten, Rewrites, Entries
<1>2. TextAt(u, x) = [i \in 1 .. e.size |-> u.data[Chain(u, e.start)[Nth(i)]][Offset(i)]]
  BY <1>1 DEF TextAt, TextIn
<1>3. CASE q = <<>>
  <2>1. e.size = 0
    BY <1>1, <1>3, NoBytes
  <2>2. 1 .. e.size = {}
    BY <2>1
  <2>3. QED
    BY <1>2, <2>2
<1>4. CASE q # <<>>
  <2>1. q \in Seq(Clusters)
    BY <1>4 DEF Rewritten, Linked
  <2>2. Chain(u, e.start) = q
    BY <1>4, ChainOfHead DEF Rewrites, Rework, Edit
  <2>3. ASSUME NEW i \in 1 .. e.size
        PROVE  u.data[Chain(u, e.start)[Nth(i)]][Offset(i)] = t.data[q[Nth(i)]][Offset(i)]
    <3>1. PICK n \in Nat : n = Len(q)
      BY <2>1
    <3>2. PICK m \in Nat : m = BytesPerCluster * n
      BY <3>1, Bytes
    <3>3. i \in Nat /\ i >= 1 /\ i <= m
      BY <1>1, <3>1, <3>2
    <3>4. Nth(i) \in 1 .. n
      BY <3>2, <3>3, PlaceOfByte
    <3>5. q[Nth(i)] \in Range(q)
      BY <2>1, <3>1, <3>4, RangeIs
    <3>6. QED
      BY <2>2, <3>5 DEF Rewrites
  <2>4. QED
    BY <1>2, <2>3
<1>5. QED
  BY <1>3, <1>4

(* The outcome of write: the file has the text, or the volume is full and  *)
(* the file has some leading bytes of it.                                  *)
Partly(s, x, text, n) ==
    [i \in 1 .. At(s, x).size |-> IF i <= n THEN text[i] ELSE TextAt(s, x)[i]]
Wrote(s, ch, D, x, text, u, ch1, D1) ==
    /\ Rework(s, ch, D, At(s, x).start, u, ch1, D1, x)
    /\ x \in Live(u, ch1, D1) /\ ~At(u, x).dir /\ At(u, x).name = At(s, x).name
    /\ Accounted(s, ch, u, ch1) \/ FreeClusters(u) = {}
    /\ \/ TextAt(u, x) = text
       \/ \E n \in 0 .. Len(text) : TextAt(u, x) = Partly(s, x, text, n)

LEMMA RewriteIsWrite ==
    ASSUME NEW s, NEW ch, NEW D, Struct(s, ch, D), Differ(s, ch, D),
           NEW x \in Live(s, ch, D), ~At(s, x).dir,
           NEW t, NEW q, NEW e, Rewritten(s, ch, x, t, q, e), NEW u, u = PutEntry(t, x, e),
           Settled(s, ch, At(s, x).start, t, q) \/ FreeClusters(u) = {}, NEW text,
           LET new == [i \in 1 .. e.size |-> t.data[q[Nth(i)]][Offset(i)]]
           IN new = text \/ \E n \in 0 .. Len(text) : new = Partly(s, x, text, n)
    PROVE  \E ch1, D1 : Wrote(s, ch, D, x, text, u, ch1, D1)
<1>1. PICK ch1, D1 : Rewrites(s, ch, D, x, t, q, e, u, ch1, D1)
  BY FileRewritten
<1>2. PICK new : new = [i \in 1 .. e.size |-> t.data[q[Nth(i)]][Offset(i)]]
  OBVIOUS
<1>3. TextAt(u, x) = new
  BY <1>1, <1>2, RewrittenText
<1>4. new = text \/ \E n \in 0 .. Len(text) : new = Partly(s, x, text, n)
  BY <1>2
<1>5. Accounted(s, ch, u, ch1) \/ FreeClusters(u) = {}
  BY <1>1 DEF Rewrites
<1>6. /\ Rework(s, ch, D, At(s, x).start, u, ch1, D1, x)
      /\ x \in Live(u, ch1, D1) /\ ~At(u, x).dir /\ At(u, x).name = At(s, x).name
  BY <1>1 DEF Rewrites, Rewritten
<1>7. Wrote(s, ch, D, x, text, u, ch1, D1)
  BY <1>3, <1>4, <1>5, <1>6 DEF Wrote
<1>8. QED
  BY <1>7

(* write of a text to the file of a command. *)
LEMMA WriteReworks ==
    ASSUME NEW ch, NEW D, Struct(fs, ch, D), Differ(fs, ch, D), cmd.place \in Live(fs, ch, D),
           ~At(fs, cmd.place).dir, At(fs, cmd.place).start = cmd.start,
           NEW text \in Texts, Write(text)
    PROVE  \E ch1, D1 : Wrote(fs, ch, D, cmd.place, text, fs', ch1, D1)
<1> DEFINE chain == WriteChain(fs, cmd, Len(text))
           first == IF chain = <<>> THEN cmd.start ELSE chain[1]
<1>1. PICK len \in Nat : /\ Len(text) = len /\ (text = <<>> <=> len = 0)
                         /\ text = [i \in 1 .. len |-> text[i]]
  <2>1. PICK n \in 0 .. MaxLen : text = [i \in 1 .. n |-> i]
    BY DEF Texts
  <2>2. n \in Nat /\ Len(text) = n /\ text \in Seq(Nat)
    BY <2>1
  <2>3. text = <<>> <=> n = 0
    BY <2>2
  <2>4. text = [i \in 1 .. n |-> text[i]]
    BY <2>1
  <2>5. QED
    BY <2>2, <2>3, <2>4
<1>2. PICK x \in Live(fs, ch, D) : x = cmd.place
  OBVIOUS
<1>3. PICK h : h = cmd.start /\ h = At(fs, x).start
  BY <1>2
<1>4. /\ x \in DirSlots(ch, D) /\ At(fs, x).name \in Names /\ Owned(fs, x) = h
      /\ Backed(ch, D, At(fs, x))
  BY <1>3 DEF Live, Real, Owned, Struct, AllBacked
<1>5. h = 0 \/ h \in (DOMAIN ch) \ D
  BY <1>2, <1>3, <1>4 DEF Backed
<1>6. h # 0 => h >= 2 /\ h \in Nat /\ h \in DOMAIN ch
  <2>1. \A c \in Clusters : c >= 2 /\ c \in Nat
    BY Sizes
  <2>2. DOMAIN ch \subseteq Clusters
    BY DEF Struct, Layout
  <2>3. QED
    BY <1>5, <2>1, <2>2
<1>7. At(fs, x) \in Entries /\ x \in Slot
  BY <1>4, EntryAt
<1>8. Fillable(fs, ch, h, len, chain)
  BY <1>1, <1>3, <1>6, WriteChainIs
<1>9. PICK q \in Seq(Clusters) : q = chain
  BY <1>8 DEF Fillable
<1>10. PICK n \in Nat : n = Len(q)
  BY <1>9
<1>11. PICK need \in Nat : need = ClustersNeeded(len) /\ len <= BytesPerCluster * need
  BY NeededIs
<1>12. /\ \A i, j \in 1 .. Len(q) : q[i] = q[j] => i = j
       /\ \A g \in (DOMAIN ch) \ {h} : Range(q) \cap Range(ch[g]) = {}
       /\ h # 0 /\ q # <<>> => q[1] = h
       /\ n < need => Len(Chain(fs, h)) <= n /\ FreeClusters(fs) \subseteq Range(q)
       /\ \A i \in 1 .. Len(q) : i <= Len(Chain(fs, h)) => q[i] = Chain(fs, h)[i]
       /\ Shape(fs)
  BY <1>8, <1>9, <1>10, <1>11 DEF Fillable, Struct
<1>13. \/ /\ len = 0 /\ h >= 2
          /\ fs' = PutEntry(FreeChain(fs, h), x, [At(FreeChain(fs, h), x) EXCEPT !.start = 0, !.size = 0])
       \/ /\ len # 0 \/ h < 2
          /\ n = need
          /\ fs' = PutEntry(Filled(TailFreed(fs, cmd, q), q, text), x,
                            [At(Filled(TailFreed(fs, cmd, q), q, text), x) EXCEPT
                                !.start = first, !.size = len])
       \/ /\ n < need
          /\ fs' = Filled(fs, q, text)
  BY <1>1, <1>2, <1>3, <1>9, <1>10, <1>11 DEF Write, Update
<1>14. first = IF q = <<>> THEN h ELSE q[1]
  BY <1>3, <1>9
<1> HIDE DEF chain, first
(* The slot of the entry is in a directory, which no write touches. *)
<1>15. ASSUME NEW t, \A g \in (DOMAIN ch) \ {h} : Same(fs, t, Range(ch[g]))
       PROVE  At(t, x) = At(fs, x) /\ t.data[x[1]] \in SlotTable
  <2>1. fs.data[x[1]] \in SlotTable /\ \E d \in D : d \in DOMAIN ch /\ x[1] \in Range(ch[d])
    BY <1>4, EntryAt
  <2>2. PICK d \in D : d \in DOMAIN ch /\ x[1] \in Range(ch[d])
    BY <2>1
  <2>3. d # h
    <3>1. 0 \notin D
      BY Sizes DEF Struct, Dirs, Layout
    <3>2. QED
      BY <1>5, <3>1
  <2>4. t.data[x[1]] = fs.data[x[1]]
    BY <1>15, <2>2, <2>3 DEF Same
  <2>5. QED
    BY <2>1, <2>4 DEF At
<1>16. ASSUME NEW st \in 0 .. MaxCluster, NEW sz \in Nat
       PROVE  LET e == [At(fs, x) EXCEPT !.start = st, !.size = sz]
              IN e \in Entries /\ e.name = At(fs, x).name /\ ~e.dir /\ e.start = st /\ e.size = sz
  BY <1>2, <1>4, <1>7 DEF Entries
<1>17. 0 \in 0 .. MaxCluster /\ Clusters \subseteq 0 .. MaxCluster
  BY Sizes
<1>18. CASE /\ len = 0 /\ h >= 2
            /\ fs' = PutEntry(FreeChain(fs, h), x, [At(FreeChain(fs, h), x) EXCEPT !.start = 0, !.size = 0])
  <2> DEFINE t == FreeChain(fs, h)
             e == [At(fs, x) EXCEPT !.start = 0, !.size = 0]
  <2>1. Shape(t) /\ \A g \in (DOMAIN ch) \ {h} : Same(fs, t, Range(ch[g]))
    BY <1>6, FreedChain
  <2>10. Settled(fs, ch, h, t, <<>>)
    <3> SUFFICES ASSUME NEW c \in Clusters, t.fat[c] # FREE,
                        fs.fat[c] = FREE \/ (h \in DOMAIN ch /\ c \in Range(ch[h]))
                 PROVE  FALSE
      BY DEF Settled
    <3>1. t.fat[c] = IF c \in Range(Chain(fs, h)) THEN FREE ELSE fs.fat[c]
      BY DEF FreeChain, Freed
    <3>2. h \in DOMAIN ch => Chain(fs, h) = ch[h]
      BY ChainOfHead
    <3> HIDE DEF t
    <3>3. QED
      BY <3>1, <3>2
  <2> HIDE DEF t
  <2>2. At(t, x) = At(fs, x)
    BY <1>15, <2>1
  <2>3. fs' = PutEntry(t, x, e)
    BY <1>18, <2>2 DEF t
  <2>4. e \in Entries /\ e.name = At(fs, x).name /\ ~e.dir /\ e.start = 0 /\ e.size = 0
    BY <1>16, <1>17
  <2> HIDE DEF e
  <2>5. PICK q0 : q0 = <<>>
    OBVIOUS
  <2>6. Rewritten(fs, ch, x, t, q0, e)
    <3>1. Start(<<>>) = 0
      BY DEF Start
    <3>2. Range(<<>>) = {} /\ e.size <= BytesPerCluster * Len(<<>>)
      BY <2>4, NoClusters, NoBytes
    <3>3. QED
      BY <1>3, <2>1, <2>4, <2>5, <3>1, <3>2 DEF Rewritten
  <2>7. [i \in 1 .. e.size |-> t.data[q0[Nth(i)]][Offset(i)]] = text
    <3>1. text = [i \in 1 .. 0 |-> text[i]]
      BY <1>1, <1>18
    <3>2. 1 .. e.size = {} /\ 1 .. 0 = {}
      BY <2>4
    <3>3. QED
      BY <3>1, <3>2
  <2>8. QED
    BY <1>2, <1>3, <2>3, <2>5, <2>6, <2>7, <2>10, RewriteIsWrite
<1>19. ASSUME NEW u, Shape(u), \A g \in (DOMAIN ch) \ {h} : Same(fs, u, Range(ch[g]))
       PROVE  LET t == Filled(u, q, text)
              IN /\ Shape(t) /\ \A g \in (DOMAIN ch) \ {h} : Same(fs, t, Range(ch[g]))
                 /\ q # <<>> => Linked(t, q)
                 /\ Same(u, t, Clusters \ Range(q))
  <2> DEFINE t == Filled(u, q, text)
  <2>1. Shape(t) /\ Same(u, t, Clusters \ Range(q)) /\ (q # <<>> => Linked(t, q))
    BY <1>12, <1>19, FilledIs
  <2> HIDE DEF t
  <2>2. \A g \in (DOMAIN ch) \ {h} : Same(fs, t, Range(ch[g]))
    <3> TAKE g \in (DOMAIN ch) \ {h}
    <3>1. Range(ch[g]) \subseteq Clusters \ Range(q)
      BY <1>12, HeadInRange DEF Struct
    <3>2. QED
      BY <1>19, <2>1, <3>1 DEF Same
  <2>3. QED
    BY <2>1, <2>2 DEF t
<1>180. ASSUME NEW v, NEW i \in Nat, i >= 1, i <= BytesPerCluster * Len(q)
        PROVE  /\ Nth(i) \in 1 .. Len(q)
               /\ i <= len => Filled(v, q, text).data[q[Nth(i)]][Offset(i)] = text[i]
               /\ ~(i <= len) =>
                     Filled(v, q, text).data[q[Nth(i)]][Offset(i)] = v.data[q[Nth(i)]][Offset(i)]
  <2>1. \A j, k \in 1 .. Len(q) : q[j] = q[k] => j = k
    BY <1>12
  <2>2. Len(text) = len
    BY <1>1
  <2>3. HasText(v, q, text, i)
    BY <1>180, <2>1, FilledText
  <2>4. QED
    BY <2>2, <2>3 DEF HasText
<1>190. ASSUME NEW v, NEW i \in 1 .. len, len <= BytesPerCluster * n
        PROVE  Filled(v, q, text).data[q[Nth(i)]][Offset(i)] = text[i]
  <2>1. PICK m \in Nat : m = BytesPerCluster * n
    BY Bytes
  <2>2. i \in Nat /\ i >= 1 /\ i <= m /\ i <= len
    BY <1>190, <2>1
  <2>3. QED
    BY <1>10, <1>180, <2>1, <2>2
<1>20. CASE /\ len # 0 \/ h < 2
            /\ n = need
            /\ fs' = PutEntry(Filled(TailFreed(fs, cmd, q), q, text), x,
                              [At(Filled(TailFreed(fs, cmd, q), q, text), x) EXCEPT
                                  !.start = first, !.size = len])
  <2> DEFINE u == TailFreed(fs, cmd, q)
             t == Filled(u, q, text)
             e == [At(fs, x) EXCEPT !.start = first, !.size = len]
  <2>1. /\ Shape(u) /\ \A g \in (DOMAIN ch) \ {h} : Same(fs, u, Range(ch[g]))
        /\ \A b \in Clusters : fs.fat[b] = FREE => u.fat[b] = FREE
        /\ \A i \in 1 .. Len(Chain(fs, h)) : i > Len(q) => u.fat[Chain(fs, h)[i]] = FREE
    <3>1. cmd.start = 0 \/ cmd.start \in DOMAIN ch
      BY <1>3, <1>6
    <3>2. /\ Shape(u)
          /\ \A g \in (DOMAIN ch) \ {cmd.start} : Same(fs, u, Range(ch[g]))
          /\ \A b \in Clusters : fs.fat[b] = FREE => u.fat[b] = FREE
          /\ \A i \in 1 .. Len(Chain(fs, cmd.start)) :
                i > Len(q) => u.fat[Chain(fs, cmd.start)[i]] = FREE
      BY <3>1, TailFreedIs
    <3> HIDE DEF u
    <3>3. QED
      BY <1>3, <3>2
  <2> HIDE DEF u
  <2>2. /\ Shape(t) /\ \A g \in (DOMAIN ch) \ {h} : Same(fs, t, Range(ch[g]))
        /\ q # <<>> => Linked(t, q)
        /\ Same(u, t, Clusters \ Range(q))
    BY <1>19, <2>1
  <2>11. \A i \in 1 .. len : t.data[q[Nth(i)]][Offset(i)] = text[i]
    <3>1. len <= BytesPerCluster * n
      BY <1>11, <1>20
    <3>2. QED
      BY <1>190, <3>1
  <2> HIDE DEF t
  <2>12. Settled(fs, ch, h, t, q)
    <3> SUFFICES ASSUME NEW c \in Clusters, t.fat[c] # FREE, c \notin Range(q),
                        fs.fat[c] = FREE \/ (h \in DOMAIN ch /\ c \in Range(ch[h]))
                 PROVE  FALSE
      BY DEF Settled
    <3>1. u.fat[c] # FREE
      BY <2>2 DEF Same
    <3>2. h \in DOMAIN ch /\ c \in Range(ch[h])
      BY <2>1, <3>1
    <3>3. Chain(fs, h) = ch[h] /\ ch[h] \in Seq(Clusters)
      BY <3>2, ChainOfHead DEF Struct, Layout, Linked
    <3>4. PICK i \in 1 .. Len(ch[h]) : c = ch[h][i]
      BY <3>2, <3>3, RangeIs
    <3>5. CASE i > Len(q)
      BY <2>1, <3>1, <3>3, <3>4, <3>5
    <3>6. CASE ~(i > Len(q))
      <4>1. i \in 1 .. Len(q) /\ i <= Len(Chain(fs, h))
        BY <1>10, <3>3, <3>6
      <4>2. q[i] = c /\ q[i] \in Range(q)
        BY <1>12, <3>3, <3>4, <4>1, RangeIs
      <4>3. QED
        BY <4>2
    <3>7. QED
      BY <3>5, <3>6
  <2>3. At(t, x) = At(fs, x)
    BY <1>15, <2>2
  <2>4. fs' = PutEntry(t, x, e)
    BY <1>20, <2>3 DEF t, u
  <2>5. first = Start(q)
    <3>1. CASE q = <<>>
      <4>1. need = 0
        BY <1>10, <1>20, <3>1, NoClusters
      <4>2. len <= BytesPerCluster * 0
        BY <1>11, <4>1
      <4>3. BytesPerCluster * 0 = 0
        BY NoBytes, NoClusters
      <4>4. len = 0
        BY <4>2, <4>3
      <4>5. h = 0
        BY <1>6, <1>20, <4>4
      <4>6. QED
        BY <1>14, <3>1, <4>5 DEF Start
    <3>2. CASE q # <<>>
      BY <1>14, <3>2 DEF Start
    <3>3. QED
      BY <3>1, <3>2
  <2>6. Start(q) \in 0 .. MaxCluster
    <3>1. q # <<>> => q[1] \in Clusters
      BY <2>2, StartInRange
    <3>2. QED
      BY <1>17, <3>1 DEF Start
  <2>7. /\ e \in Entries /\ e.name = At(fs, x).name /\ ~e.dir
        /\ e.start = Start(q) /\ e.size = len
    <3>1. first \in 0 .. MaxCluster
      BY <2>5, <2>6
    <3>2. /\ e \in Entries /\ e.name = At(fs, x).name /\ ~e.dir
          /\ e.start = first /\ e.size = len
      BY <1>16, <3>1
    <3> HIDE DEF e
    <3>3. QED
      BY <2>5, <3>2
  <2> HIDE DEF e
  <2>8. e.size <= BytesPerCluster * Len(q)
    BY <1>10, <1>11, <1>20, <2>7
  <2>9. Rewritten(fs, ch, x, t, q, e)
    BY <1>3, <1>12, <2>2, <2>7, <2>8 DEF Rewritten
  <2>10. [i \in 1 .. e.size |-> t.data[q[Nth(i)]][Offset(i)]] = text
    BY <1>1, <2>7, <2>11
  <2>13. QED
    BY <1>2, <1>3, <2>4, <2>9, <2>10, <2>12, RewriteIsWrite
(* The volume is full: the entry stays as it was. *)
<1>21. CASE n < need /\ fs' = Filled(fs, q, text)
  <2> DEFINE t == Filled(fs, q, text)
             e == At(fs, x)
             r == IF h = 0 THEN <<>> ELSE q
  <2>1. /\ Shape(t) /\ \A g \in (DOMAIN ch) \ {h} : Same(fs, t, Range(ch[g]))
        /\ q # <<>> => Linked(t, q)
        /\ Same(fs, t, Clusters \ Range(q))
    <3>1. \A g \in (DOMAIN ch) \ {h} : Same(fs, fs, Range(ch[g]))
      BY DEF Same
    <3>2. QED
      BY <1>12, <1>19, <3>1
  <2> HIDE DEF t
  <2>2. At(t, x) = e /\ t.data[x[1]] \in SlotTable
    BY <1>15, <2>1
  <2>3. t = PutEntry(t, x, e)
    <3>1. /\ t = [fat |-> t.fat, data |-> t.data] /\ t.data = [c \in Clusters |-> t.data[c]]
          /\ t.data[x[1]] = [k \in 1 .. EntriesPerCluster |-> t.data[x[1]][k]]
      BY <2>1, <2>2 DEF Shape, SlotTable
    <3>2. x[1] \in Clusters /\ x[2] \in 1 .. EntriesPerCluster /\ e = t.data[x[1]][x[2]]
      BY <1>7, <2>2 DEF Slot, At
    <3> HIDE DEF e
    <3>3. [t.data[x[1]] EXCEPT ![x[2]] = e] = t.data[x[1]]
      BY <3>1, <3>2
    <3>4. [t.data EXCEPT ![x[1]] = t.data[x[1]]] = t.data
      BY <3>1, <3>2
    <3>5. PutEntry(t, x, e) = [t EXCEPT !.data = [t.data EXCEPT ![x[1]] = [t.data[x[1]] EXCEPT ![x[2]] = e]]]
      BY DEF PutEntry
    <3>6. PutEntry(t, x, e) = [t EXCEPT !.data = t.data]
      BY <3>3, <3>4, <3>5
    <3>7. [t EXCEPT !.data = t.data] = t
      BY <3>1
    <3>8. QED
      BY <3>6, <3>7
  <2>4. ASSUME h # 0
        PROVE  /\ q # <<>> /\ q[1] = h /\ e.size \in Nat
               /\ e.size <= BytesPerCluster * Len(q)
    <3>1. Chain(fs, h) = ch[h] /\ Linked(fs, ch[h]) /\ Len(ch[h]) >= 1 /\ Len(ch[h]) \in Nat
      BY <1>6, <2>4, OldChain DEF Linked
    <3>2. PICK m \in Nat : m = Len(ch[h])
      BY <3>1
    <3>3. m >= 1 /\ m <= n
      BY <1>12, <1>21, <3>1, <3>2
    <3>4. q # <<>>
      BY <1>10, <3>3, NoClusters
    <3>5. e.size \in Nat /\ e.size <= BytesPerCluster * m
      BY <1>2, <1>3, <1>4, <1>7, <2>4, <3>2 DEF Backed, Entries
    <3>6. \A b, i, j \in Nat : i <= j => b * i <= b * j /\ b * i \in Nat /\ b * j \in Nat
      OBVIOUS
    <3>7. BytesPerCluster * m <= BytesPerCluster * n /\ BytesPerCluster * m \in Nat /\ BytesPerCluster * n \in Nat
      BY <3>3, <3>6, Bytes
    <3>8. e.size <= BytesPerCluster * n
      <4>1. \A a, b, c \in Nat : a <= b /\ b <= c => a <= c
        OBVIOUS
      <4>2. QED
        BY <3>5, <3>7, <4>1
    <3>9. QED
      BY <1>10, <1>12, <2>4, <3>4, <3>5, <3>8
  <2>5. ASSUME h = 0 PROVE e.start = 0 /\ e.size = 0
    <3>1. 0 \notin DOMAIN ch
      BY Sizes DEF Struct, Layout
    <3>2. QED
      BY <1>2, <1>3, <1>4, <2>5, <3>1 DEF Backed
  <2> HIDE DEF e
  <2>6. Rewritten(fs, ch, x, t, r, e)
    <3>1. e \in Entries /\ e.name = At(fs, x).name /\ ~e.dir /\ e.start = h
      BY <1>2, <1>3, <1>4, <1>7 DEF e
    <3>2. CASE h = 0
      <4>1. Start(<<>>) = 0
        BY DEF Start
      <4>2. r = <<>> /\ Range(<<>>) = {} /\ e.size <= BytesPerCluster * Len(<<>>)
        BY <2>5, <3>2, NoClusters, NoBytes
      <4> HIDE DEF r
      <4>3. QED
        BY <1>3, <2>1, <3>1, <3>2, <4>1, <4>2 DEF Rewritten
    <3>3. CASE h # 0
      <4>1. r = q /\ Start(q) = h
        BY <2>4, <3>3 DEF Start
      <4> HIDE DEF r
      <4>2. QED
        BY <1>3, <1>12, <2>1, <2>4, <3>1, <3>3, <4>1 DEF Rewritten
    <3>4. QED
      BY <3>2, <3>3
  <2>8. fs' = t /\ fs' = PutEntry(t, x, e)
    BY <1>21, <2>3 DEF t
  <2>9. FreeClusters(t) = {}
    <3> SUFFICES ASSUME NEW c \in FreeClusters(t) PROVE FALSE
      OBVIOUS
    <3>1. c \in Clusters /\ t.fat[c] = FREE
      BY DEF FreeClusters
    <3>2. CASE c \in Range(q)
      <4>1. q # <<>>
        BY <3>2, NoClusters
      <4>2. QED
        BY <2>1, <3>2, <4>1, FreeIsOutside
    <3>3. CASE c \notin Range(q)
      <4>1. c \in FreeClusters(fs)
        BY <2>1, <3>1, <3>3 DEF Same, FreeClusters
      <4>2. QED
        BY <1>12, <1>21, <3>3, <4>1
    <3>4. QED
      BY <3>2, <3>3
  <2>10. \E k \in 0 .. Len(text) :
            [i \in 1 .. e.size |-> t.data[r[Nth(i)]][Offset(i)]] = Partly(fs, x, text, k)
    <3>1. CASE h = 0
      <4>1. e.size = 0 /\ 1 .. 0 = {} /\ 0 \in 0 .. Len(text)
        BY <1>1, <2>5, <3>1
      <4>2. Partly(fs, x, text, 0) = [i \in 1 .. e.size |-> t.data[r[Nth(i)]][Offset(i)]]
        BY <4>1 DEF Partly, e
      <4>3. QED
        BY <4>1, <4>2
    <3>2. CASE h # 0
      <4>0. r = q
        BY <3>2
      <4>1. ASSUME NEW i \in 1 .. e.size
            PROVE  t.data[q[Nth(i)]][Offset(i)] = IF i <= len THEN text[i] ELSE TextAt(fs, x)[i]
        <5>1. Chain(fs, h) = ch[h] /\ ch[h] \in Seq(Clusters)
          BY <1>6, <3>2, OldChain DEF Linked
        <5>2. PICK m \in Nat : m = Len(ch[h])
          BY <5>1
        <5>3. e.size \in Nat /\ e.size <= BytesPerCluster * m /\ e.size <= BytesPerCluster * n
          BY <1>2, <1>3, <1>4, <1>7, <1>10, <2>4, <3>2, <5>2 DEF Backed, Entries, e
        <5>4. PICK k \in Nat : k = BytesPerCluster * m
          BY Bytes
        <5>5. PICK l \in Nat : l = BytesPerCluster * n
          BY Bytes
        <5>6. i \in Nat /\ i >= 1 /\ i <= k /\ i <= l
          BY <5>3, <5>4, <5>5
        <5>7. Nth(i) \in 1 .. m
          BY <5>4, <5>6, PlaceOfByte
        <5>8. /\ Nth(i) \in 1 .. Len(q)
              /\ t.data[q[Nth(i)]][Offset(i)] =
                    IF i <= Len(text) THEN text[i] ELSE fs.data[q[Nth(i)]][Offset(i)]
          <6>1. i <= BytesPerCluster * Len(q)
            BY <1>10, <5>5, <5>6
          <6>2. /\ i <= len => t.data[q[Nth(i)]][Offset(i)] = text[i]
                /\ ~(i <= len) => t.data[q[Nth(i)]][Offset(i)] = fs.data[q[Nth(i)]][Offset(i)]
            BY <1>180, <5>6, <6>1 DEF t
          <6>4. Nth(i) \in 1 .. Len(q)
            BY <1>180, <5>6, <6>1
          <6>3. QED
            BY <1>1, <6>2, <6>4
        <5>9. q[Nth(i)] = Chain(fs, h)[Nth(i)]
          BY <1>12, <5>1, <5>2, <5>7, <5>8
        <5>10. TextAt(fs, x)[i] = fs.data[Chain(fs, h)[Nth(i)]][Offset(i)]
          BY <1>3 DEF TextAt, TextIn, e
        <5>11. QED
          BY <1>1, <5>8, <5>9, <5>10
      <4>2. Partly(fs, x, text, len) = [i \in 1 .. e.size |-> t.data[q[Nth(i)]][Offset(i)]]
        BY <4>1 DEF Partly, e
      <4>3. len \in 0 .. Len(text)
        BY <1>1
      <4> HIDE DEF r
      <4>4. QED
        BY <4>0, <4>2, <4>3
    <3>3. QED
      BY <3>1, <3>2
  <2> HIDE DEF r
  <2>11. QED
    BY <1>2, <2>6, <2>8, <2>9, <2>10, RewriteIsWrite
<1>22. QED
  BY <1>13, <1>18, <1>20, <1>21

-----------------------------------------------------------------------------
(* Paths of the shell: a path through ".." names what a path of names      *)
(* names that is no longer.                                                *)

Descents(path, i) == {j \in 1 .. i : path[j] # ".."}
DepthTo(path, i) == Cardinality(Descents(path, i))

LEMMA DepthSteps ==
    ASSUME NEW path \in Seq(Components)
    PROVE  /\ \A i \in 0 .. Len(path) : DepthTo(path, i) \in Nat
           /\ \A i \in 1 .. Len(path) :
                 /\ path[i] = ".." => DepthTo(path, i) = DepthTo(path, i - 1)
                 /\ path[i] # ".." => DepthTo(path, i) = DepthTo(path, i - 1) + 1
           /\ Depth(path) = DepthTo(path, Len(path))
<1>1. PICK m \in Nat : m = Len(path)
  OBVIOUS
<1>2. ASSUME NEW i \in 0 .. m PROVE IsFiniteSet(Descents(path, i)) /\ DepthTo(path, i) \in Nat
  <2>1. IsFiniteSet(1 .. i)
    BY FS_Interval
  <2>2. Descents(path, i) \subseteq 1 .. i
    BY DEF Descents
  <2>3. IsFiniteSet(Descents(path, i))
    BY <2>1, <2>2, FS_Subset
  <2>4. QED
    BY <2>3, FS_CardinalityType DEF DepthTo
<1>3. ASSUME NEW i \in 1 .. m
      PROVE  /\ path[i] = ".." => DepthTo(path, i) = DepthTo(path, i - 1)
             /\ path[i] # ".." => DepthTo(path, i) = DepthTo(path, i - 1) + 1
  <2>1. i - 1 \in 0 .. m /\ i \notin 1 .. i - 1 /\ 1 .. i = (1 .. i - 1) \cup {i}
    OBVIOUS
  <2>2. path[i] = ".." => Descents(path, i) = Descents(path, i - 1)
    BY <2>1, Zenon DEF Descents
  <2>3. path[i] # ".." => Descents(path, i) = Descents(path, i - 1) \cup {i}
    BY <2>1, Zenon DEF Descents
  <2>4. IsFiniteSet(Descents(path, i - 1)) /\ i \notin Descents(path, i - 1)
    BY <1>2, <2>1 DEF Descents
  <2>5. Cardinality(Descents(path, i - 1) \cup {i}) = Cardinality(Descents(path, i - 1)) + 1
    BY <2>4, FS_AddElement
  <2>6. QED
    BY <2>2, <2>3, <2>5 DEF DepthTo
<1>4. Depth(path) = DepthTo(path, m)
  <2>1. DOMAIN path = 1 .. m
    BY <1>1
  <2>2. QED
    BY <2>1 DEF Depth, DepthTo, Descents
<1>5. QED
  BY <1>1, <1>2, <1>3, <1>4

(* What two directories of the same start have under a name. *)
LEMMA LookupSame ==
    ASSUME NEW s, NEW a, NEW b, a.entry.dir, b.entry.dir, a.entry.start = b.entry.start, NEW n
    PROVE  Lookup(s, a, n) = Lookup(s, b, n)
BY DEF Lookup

(* The directory above the one that a path of names leads to. *)
LEMMA PathAbove ==
    ASSUME NEW s, NEW ch, NEW D, Struct(s, ch, D), NEW q \in Seq(Names),
           ResolvePath(s, q).entry.dir, ResolvePath(s, q).entry.start # Root
    PROVE  /\ q # <<>> /\ Front(q) \in Seq(Names) /\ Len(Front(q)) <= Len(q)
           /\ ResolvePath(s, Front(q)).entry.dir
           /\ ResolvePath(s, Front(q)).entry.start = ParentOf(s, ResolvePath(s, q).entry.start)
<1>1. PICK node : node = ResolvePath(s, q) /\ node \in GoodNodes(s, ch, D)
  BY ResolvedIs
<1>2. PICK d : d = node.entry.start /\ d \in D \ {Root}
  BY <1>1, NodeFacts
<1>3. q # <<>>
  <2>1. q = <<>> => node.entry.start = Root
    BY <1>1, ResolveNone, DirectoryIs
  <2>2. QED
    BY <1>2, <2>1
<1>4. Len(q) \in Nat /\ Len(q) >= 1 /\ q[Len(q)] \in Names
  BY <1>3
<1>5. node # Nothing
  BY <1>1, NothingIs
<1>6. PICK y \in Live(s, ch, D) : node = NodeAt(s, y)
  BY <1>1, <1>3, <1>4, <1>5, ResolvedIs
<1>7. PICK x : EntryIn(s, ch, D, d, x)
  BY <1>2 DEF Struct, Parents
<1>8. d # 0 /\ ParentOf(s, d) \in D
  BY <1>2, Sizes DEF Struct, Parents, Dirs, Layout
<1>9. y = x
  <2>1. At(s, y).start = d
    BY <1>2, <1>6, NodeAtIs
  <2>2. QED
    BY <1>7, <1>8, <2>1 DEF EntryIn, Struct, OwnersDiffer
<1>10. /\ Front(q) \in Seq(Names) /\ q = Append(Front(q), Last(q))
       /\ ResolvePath(s, Front(q)).entry.dir
       /\ InDir(ch, D, x, ResolvePath(s, Front(q)).entry.start)
  BY <1>1, <1>6, <1>9, PathOfEntry
<1>11. PICK g : g = ResolvePath(s, Front(q)).entry.start
  OBVIOUS
<1>12. g = ParentOf(s, d)
  <2>1. g \in DOMAIN ch /\ ParentOf(s, d) \in DOMAIN ch
    BY <1>8, <1>10, <1>11 DEF InDir, Struct, Dirs
  <2>2. x[1] \in Range(ch[g]) /\ x[1] \in Range(ch[ParentOf(s, d)])
    BY <1>7, <1>10, <1>11 DEF InDir, EntryIn
  <2>3. QED
    BY <2>1, <2>2 DEF Struct, Layout
<1>13. Len(Front(q)) <= Len(q)
  <2>1. Len(Append(Front(q), Last(q))) = Len(Front(q)) + 1 /\ Len(Front(q)) \in Nat
    BY <1>10
  <2>2. QED
    BY <1>10, <2>1
<1>14. QED
  BY <1>1, <1>2, <1>3, <1>10, <1>11, <1>12, <1>13

(* A directory has a path of names of at most k components. *)
IsDirPath(s, q, start, k) ==
    /\ q \in Seq(Names) /\ Len(q) <= k
    /\ ResolvePath(s, q).entry.dir /\ ResolvePath(s, q).entry.start = start
HasDirPath(s, node, k) == node.entry.dir => \E q : IsDirPath(s, q, node.entry.start, k)

LEMMA PathBelow ==
    ASSUME NEW s, NEW ch, NEW D, Struct(s, ch, D), NEW k \in Nat,
           NEW node \in GoodNodes(s, ch, D), HasDirPath(s, node, k), NEW n \in Components
    PROVE  /\ n = ".." => HasDirPath(s, Lookup(s, node, n), k)
           /\ n # ".." => HasDirPath(s, Lookup(s, node, n), k + 1)
<1>1. PICK r : r = Lookup(s, node, n)
  OBVIOUS
<1>2. SUFFICES ASSUME r.entry.dir
               PROVE  /\ n = ".." => \E q : IsDirPath(s, q, r.entry.start, k)
                      /\ n # ".." => \E q : IsDirPath(s, q, r.entry.start, k + 1)
  BY <1>1 DEF HasDirPath
<1>3. node.entry.dir
  <2>1. ~node.entry.dir => r = Nothing
    BY <1>1 DEF Lookup
  <2>2. QED
    BY <1>2, <2>1, NothingIs
<1>4. PICK q : IsDirPath(s, q, node.entry.start, k)
  BY <1>3 DEF HasDirPath
<1>5. /\ q \in Seq(Names) /\ Len(q) <= k /\ Len(q) \in Nat
      /\ ResolvePath(s, q).entry.dir /\ ResolvePath(s, q).entry.start = node.entry.start
  BY <1>4 DEF IsDirPath
<1>6. ASSUME n # ".." PROVE \E p : IsDirPath(s, p, r.entry.start, k + 1)
  <2>1. n \in Names
    BY <1>6 DEF Components
  <2>2. PICK p : p = Append(q, n)
    OBVIOUS
  <2>3. p \in Seq(Names) /\ Len(p) <= k + 1 /\ q \in Seq(Components)
    BY <1>5, <2>1, <2>2 DEF Components
  <2>4. ResolvePath(s, p) = Lookup(s, ResolvePath(s, q), n)
    BY <2>2, <2>3, ResolveAppend
  <2>5. ResolvePath(s, p) = r
    BY <1>1, <1>3, <1>5, <2>4, LookupSame
  <2>6. IsDirPath(s, p, r.entry.start, k + 1)
    BY <1>2, <2>3, <2>5 DEF IsDirPath
  <2>7. QED
    BY <2>6
<1>7. ASSUME n = ".." PROVE \E p : IsDirPath(s, p, r.entry.start, k)
  <2>1. r = Directory(ParentOf(s, node.entry.start))
    BY <1>1, <1>3, <1>7 DEF Lookup
  <2>2. r.entry.start = ParentOf(s, node.entry.start)
    BY <2>1, DirectoryIs
  <2>3. CASE node.entry.start = Root
    <3>1. r.entry.start = Root
      BY <2>2, <2>3 DEF ParentOf
    <3>20. <<>> \in Seq(Names) /\ Len(<<>>) = 0
      OBVIOUS
    <3>2. PICK p : p = <<>> /\ p \in Seq(Names) /\ Len(p) = 0
      BY <3>20
    <3>3. ResolvePath(s, p) = Directory(Root)
      BY <3>2, ResolveNone
    <3>4. IsDirPath(s, p, r.entry.start, k)
      <4>1. ResolvePath(s, p).entry.dir /\ ResolvePath(s, p).entry.start = Root
        BY <3>3, DirectoryIs
      <4>2. QED
        BY <3>1, <3>2, <4>1 DEF IsDirPath
    <3>5. QED
      BY <3>4
  <2>4. CASE node.entry.start # Root
    <3>1. /\ q # <<>> /\ Front(q) \in Seq(Names) /\ Len(Front(q)) <= Len(q)
          /\ ResolvePath(s, Front(q)).entry.dir
          /\ ResolvePath(s, Front(q)).entry.start = ParentOf(s, node.entry.start)
      BY <1>5, <2>4, PathAbove
    <3>2. PICK p : p = Front(q)
      OBVIOUS
    <3>3. Len(p) <= k
      BY <1>5, <3>1, <3>2
    <3>4. IsDirPath(s, p, r.entry.start, k)
      BY <2>2, <3>1, <3>2, <3>3 DEF IsDirPath
    <3>5. QED
      BY <3>4
  <2>5. QED
    BY <2>3, <2>4
<1>8. QED
  BY <1>6, <1>7

LEMMA DirPath ==
    ASSUME NEW s, NEW ch, NEW D, Struct(s, ch, D), NEW path \in Seq(Components)
    PROVE  \A i \in 0 .. Len(path) : HasDirPath(s, Upto(s, path, i), DepthTo(path, i))
<1>1. PICK m \in Nat : m = Len(path)
  OBVIOUS
<1> DEFINE S == {i \in 0 .. m : HasDirPath(s, Upto(s, path, i), DepthTo(path, i))}
<1>2. /\ Upto(s, path, 0) = Directory(Root)
      /\ \A i \in 0 .. m : Upto(s, path, i) \in GoodNodes(s, ch, D)
      /\ \A i \in 1 .. m : Upto(s, path, i) = Lookup(s, Upto(s, path, i - 1), path[i])
  BY <1>1, UptoIs
<1>3. 0 \in S
  <2>1. DepthTo(path, 0) \in Nat
    BY DepthSteps
  <2>20. <<>> \in Seq(Names) /\ Len(<<>>) = 0
    OBVIOUS
  <2>2. PICK p : p = <<>> /\ p \in Seq(Names) /\ Len(p) = 0
    BY <2>20
  <2>3. ResolvePath(s, p) = Upto(s, path, 0)
    BY <1>2, <2>2, ResolveNone
  <2>30. Len(p) <= DepthTo(path, 0)
    BY <2>1, <2>2
  <2>4. HasDirPath(s, Upto(s, path, 0), DepthTo(path, 0))
    BY <2>2, <2>3, <2>30 DEF HasDirPath, IsDirPath
  <2>5. QED
    BY <2>4
<1>4. ASSUME NEW i \in 1 .. m, i - 1 \in S PROVE i \in S
  <2>1. /\ i - 1 \in 0 .. m /\ i \in 0 .. m /\ path[i] \in Components
        /\ HasDirPath(s, Upto(s, path, i - 1), DepthTo(path, i - 1))
    BY <1>1, <1>4
  <2>2. /\ DepthTo(path, i - 1) \in Nat
        /\ path[i] = ".." => DepthTo(path, i) = DepthTo(path, i - 1)
        /\ path[i] # ".." => DepthTo(path, i) = DepthTo(path, i - 1) + 1
    BY <1>1, <2>1, DepthSteps
  <2>3. /\ path[i] = ".." => HasDirPath(s, Upto(s, path, i), DepthTo(path, i - 1))
        /\ path[i] # ".." => HasDirPath(s, Upto(s, path, i), DepthTo(path, i - 1) + 1)
    BY <1>2, <2>1, <2>2, PathBelow
  <2>4. HasDirPath(s, Upto(s, path, i), DepthTo(path, i))
    BY <2>2, <2>3
  <2>5. QED
    BY <2>1, <2>4
<1>5. QED
  <2> HIDE DEF S
  <2>1. 0 .. m \subseteq S
    BY <1>3, <1>4, RoundInduction
  <2>2. QED
    BY <1>1, <2>1 DEF S

(* The path of names of what a command names: the entry with the last      *)
(* component as its name, in the directory that the others lead to.        *)
IsNamePath(s, path, p0) ==
    /\ p0 \in Paths /\ p0 # <<>> /\ Last(p0) = Last(path) /\ Front(p0) \in Paths
    /\ p0 = Append(Front(p0), Last(path)) /\ Front(p0) = SubSeq(p0, 1, Len(p0) - 1)
    /\ ResolvePath(s, p0) = ResolvePath(s, path)
    /\ ResolvePath(s, Front(p0)).entry.dir
    /\ ResolvePath(s, Front(p0)).entry.start = ResolveParent(s, path).start

LEMMA NamePath ==
    ASSUME NEW s, NEW ch, NEW D, Struct(s, ch, D), NEW path \in Seq(Components),
           path # <<>>, path[Len(path)] \in Names, Depth(path) <= MaxDepth, HasParent(s, path)
    PROVE  \E p0 : IsNamePath(s, path, p0)
<1>1. PICK m \in Nat : m = Len(path) /\ m >= 1
  OBVIOUS
<1>2. PICK n \in Names : n = path[m] /\ n = Last(path) /\ n \in Components /\ n # ".."
  BY <1>1, NamesAreReal DEF Last, Components
<1>3. PICK front : front = Front(path) /\ front = SubSeq(path, 1, m - 1)
  BY <1>1 DEF Front
<1>4. front \in Seq(Components) /\ path = Append(front, n)
  <2>1. SubSeq(path, 1, m - 1) \in Seq(Components) /\ path = Append(SubSeq(path, 1, m - 1), path[m])
    BY <1>1
  <2>2. QED
    BY <1>2, <1>3, <2>1
<1>5. PICK up : up = ResolvePath(s, front) /\ up = Upto(s, path, m - 1)
  BY <1>3 DEF Upto
<1>6. m - 1 \in 0 .. m /\ m \in 1 .. m
  BY <1>1
<1>7. DepthTo(path, m) = DepthTo(path, m - 1) + 1 /\ Depth(path) = DepthTo(path, m)
      /\ DepthTo(path, m - 1) \in Nat
  BY <1>1, <1>2, <1>6, DepthSteps
<1>8. up.entry.dir /\ up.entry.start = ResolveParent(s, path).start
  BY <1>3, <1>5 DEF HasParent, ResolveParent
<1>9. PICK q : IsDirPath(s, q, up.entry.start, DepthTo(path, m - 1))
  BY <1>1, <1>5, <1>6, <1>8, DirPath DEF HasDirPath
<1>10. /\ q \in Seq(Names) /\ Len(q) <= DepthTo(path, m - 1) /\ Len(q) \in Nat
       /\ ResolvePath(s, q).entry.dir /\ ResolvePath(s, q).entry.start = up.entry.start
  BY <1>9 DEF IsDirPath
<1>11. MaxDepth \in Nat
  BY Fat32Assumption, Zenon
<1>12. Len(q) + 1 <= MaxDepth
  BY <1>7, <1>10, <1>11
<1>13. \A p \in Seq(Names) : Len(p) <= MaxDepth => p \in Paths
  <2> SUFFICES ASSUME NEW p \in Seq(Names), Len(p) <= MaxDepth PROVE p \in Paths
    OBVIOUS
  <2>1. PICK l \in 0 .. MaxDepth : l = Len(p)
    BY <1>11
  <2>2. p \in [1 .. l -> Names]
    BY <2>1
  <2>3. QED
    BY <2>2 DEF Paths
<1>140. Append(q, n) \in Seq(Names)
  BY <1>10
<1>14. PICK p0 : p0 = Append(q, n) /\ p0 \in Seq(Names)
  BY <1>140
<1>15. Len(p0) = Len(q) + 1 /\ p0[Len(p0)] = n /\ SubSeq(p0, 1, Len(p0) - 1) = q /\ p0 # <<>>
  BY <1>10, <1>14
<1>16. p0 \in Paths /\ q \in Paths
  <2>1. Len(p0) <= MaxDepth /\ Len(q) <= MaxDepth
    BY <1>10, <1>11, <1>12, <1>15
  <2>2. QED
    BY <1>10, <1>13, <1>14, <2>1
<1>17. Front(p0) = q /\ Last(p0) = n
  BY <1>15 DEF Front, Last
<1>18. q \in Seq(Components)
  BY <1>10 DEF Components
<1>19. ResolvePath(s, p0) = Lookup(s, ResolvePath(s, q), n)
  BY <1>2, <1>14, <1>18, ResolveAppend
<1>20. ResolvePath(s, path) = Lookup(s, up, n)
  <2>1. ResolvePath(s, Append(front, n)) = Lookup(s, ResolvePath(s, front), n)
    BY <1>2, <1>4, ResolveAppend
  <2>2. QED
    BY <1>4, <1>5, <2>1
<1>21. ResolvePath(s, p0) = ResolvePath(s, path)
  BY <1>8, <1>10, <1>19, <1>20, LookupSame
<1>22. IsNamePath(s, path, p0)
  BY <1>2, <1>8, <1>10, <1>14, <1>15, <1>16, <1>17, <1>21 DEF IsNamePath
<1>23. QED
  BY <1>22

-----------------------------------------------------------------------------
(* What a step does to the tree of paths.                                  *)

LEMMA PathNames == ASSUME NEW p \in Paths PROVE p \in Seq(Names) /\ p \in Seq(Names \cup {".."})
<1>1. PICK n \in 0 .. MaxDepth : p \in [1 .. n -> Names]
  BY DEF Paths
<1>2. n \in Nat
  <2>1. MaxDepth \in Nat
    BY Fat32Assumption, Zenon
  <2>2. QED
    BY <2>1
<1>3. p \in Seq(Names)
  BY <1>1, <1>2
<1>4. QED
  BY <1>3

LEMMA RootPath == <<>> \in Paths /\ <<>> \in Seq(Names)
<1>1. MaxDepth \in Nat
  BY Fat32Assumption, Zenon
<1>2. 0 \in 0 .. MaxDepth
  BY <1>1
<1>3. <<>> \in [1 .. 0 -> Names]
  OBVIOUS
<1>4. QED
  BY <1>2, <1>3 DEF Paths

(* Every chain of the volume is that of a path. *)
Reached(s, ch) == \A g \in DOMAIN ch : \E p \in Paths : ResolvePath(s, p).entry.start = g
Tidy(s, ch, D) == Struct(s, ch, D) /\ Differ(s, ch, D) /\ Reached(s, ch)

(* What a path shows. *)
View(s, e) ==
    IF e = NoEntry THEN <<"absent">>
    ELSE IF e.dir THEN <<"dir">> ELSE <<"file", TextIn(s, Chain(s, e.start), e.size)>>
ViewOf(s, p) == View(s, ResolvePath(s, p).entry)
KeepsPath(s, u, p) ==
    ResolvePath(u, p) = ResolvePath(s, p) /\ ViewOf(u, p) = ViewOf(s, p)
Keeps(s, u, P) == \A p \in P : KeepsPath(s, u, p)

LEMMA TextSame ==
    ASSUME NEW s, NEW u, NEW q \in Seq(Clusters), NEW n \in Nat, n <= BytesPerCluster * Len(q),
           \A c \in Range(q) : u.data[c] = s.data[c]
    PROVE  TextIn(u, q, n) = TextIn(s, q, n)
<1>1. ASSUME NEW i \in 1 .. n PROVE u.data[q[Nth(i)]][Offset(i)] = s.data[q[Nth(i)]][Offset(i)]
  <2>1. PICK m \in Nat : m = Len(q)
    OBVIOUS
  <2>2. PICK k \in Nat : k = BytesPerCluster * m
    BY Bytes, <2>1
  <2>3. i \in Nat /\ i >= 1 /\ i <= BytesPerCluster * m
    BY <2>1, <2>2
  <2>4. Nth(i) \in 1 .. m
    BY <2>3, PlaceOfByte
  <2>5. q[Nth(i)] \in Range(q)
    BY <2>1, <2>4, RangeIs
  <2>6. QED
    BY <2>5
<1>2. QED
  BY <1>1 DEF TextIn

(* What a path leads to, and its chain. *)
LEMMA PathLeads ==
    ASSUME NEW s, NEW ch, NEW D, Struct(s, ch, D), NEW p \in Seq(Names),
           ResolvePath(s, p).entry # NoEntry, ~ResolvePath(s, p).entry.dir
    PROVE  \E x \in Live(s, ch, D) : ResolvePath(s, p) = NodeAt(s, x)
<1>1. PICK node : node = ResolvePath(s, p)
  OBVIOUS
<1>2. node \in GoodNodes(s, ch, D)
  BY <1>1, ResolvedIs
<1>3. node # Nothing
  BY <1>1, NothingIs
<1>4. \A c : node # Directory(c)
  BY <1>1, DirectoryIs
<1>5. QED
  BY <1>1, <1>2, <1>3, <1>4 DEF GoodNodes

(* A file whose chain was not touched shows what it did. *)
LEMMA ViewKept ==
    ASSUME NEW s, NEW ch, NEW D, NEW h, NEW u, NEW ch2, NEW D2, NEW x,
           Rework(s, ch, D, h, u, ch2, D2, x), NEW p \in Seq(Names),
           ResolvePath(u, p) = ResolvePath(s, p),
           ResolvePath(s, p).entry.start = 0 \/ ResolvePath(s, p).entry.start # h
    PROVE  KeepsPath(s, u, p)
<1>1. PICK e : e = ResolvePath(s, p).entry
  OBVIOUS
<1>2. Struct(s, ch, D) /\ Struct(u, ch2, D2)
  BY DEF Rework, Edit
<1>3. CASE e = NoEntry \/ e.dir
  BY <1>1, <1>3 DEF KeepsPath, ViewOf, View
<1>4. CASE e # NoEntry /\ ~e.dir
  <2>1. PICK y \in Live(s, ch, D) : ResolvePath(s, p) = NodeAt(s, y)
    BY <1>1, <1>2, <1>4, PathLeads
  <2>2. e = At(s, y) /\ e \in Entries
    BY <1>1, <1>2, <2>1, NodeAtIs, EntryAt DEF Live
  <2>3. e.size \in Nat
    BY <2>2 DEF Entries
  <2>4. Backed(ch, D, e)
    BY <1>2, <2>1, <2>2 DEF Struct, AllBacked
  <2>5. TextIn(u, Chain(u, e.start), e.size) = TextIn(s, Chain(s, e.start), e.size)
    <3>1. CASE e.start = 0
      <4>1. e.size = 0
        <5>1. 0 \notin DOMAIN ch
          BY <1>2, Sizes DEF Struct, Layout
        <5>2. QED
          BY <1>4, <2>4, <3>1, <5>1 DEF Backed
      <4>2. QED
        BY <4>1 DEF TextIn
    <3>2. CASE e.start # 0
      <4>1. PICK g : g = e.start /\ g \in (DOMAIN ch) \ D /\ g # h
        BY <1>1, <1>4, <2>4, <3>2 DEF Backed
      <4>2. g \in DOMAIN ch2 /\ ch2[g] = ch[g] /\ \A c \in Range(ch[g]) : u.data[c] = s.data[c]
        BY <4>1 DEF Rework, HeadsKept, FilesKept
      <4>3. Chain(s, g) = ch[g] /\ Chain(u, g) = ch[g]
        BY <1>2, <4>1, <4>2, ChainOfHead
      <4>4. ch[g] \in Seq(Clusters)
        BY <1>2, <4>1 DEF Struct, Layout, Linked
      <4>5. e.size <= BytesPerCluster * Len(ch[g])
        BY <1>4, <2>4, <3>2, <4>1 DEF Backed
      <4>6. TextIn(u, ch[g], e.size) = TextIn(s, ch[g], e.size)
        BY <2>3, <4>2, <4>4, <4>5, TextSame
      <4>7. QED
        BY <4>1, <4>3, <4>6
    <3>3. QED
      BY <3>1, <3>2
  <2>6. QED
    BY <1>1, <2>5 DEF KeepsPath, ViewOf, View
<1>5. QED
  BY <1>3, <1>4

(* The edit is of what path p0 names, and the chain that goes is its own. *)
EditsPath(s, ch, D, h, u, ch2, D2, x, p0) ==
    /\ Rework(s, ch, D, h, u, ch2, D2, x)
    /\ x \in Live(s, ch, D) => ResolvePath(s, p0) = NodeAt(s, x) /\ h = At(s, x).start
    /\ x \notin Live(s, ch, D) => ResolvePath(s, p0) = Nothing /\ h = 0
    /\ x \in Live(u, ch2, D2) => ResolvePath(u, p0) = NodeAt(u, x)

LEMMA OthersKeep ==
    ASSUME NEW s, NEW ch, NEW D, NEW h, NEW u, NEW ch2, NEW D2, NEW x, NEW p0 \in Paths,
           EditsPath(s, ch, D, h, u, ch2, D2, x, p0), Tidy(s, ch, D)
    PROVE  Tidy(u, ch2, D2) /\ Keeps(s, u, Paths \ {p0})
<1>1. /\ Rework(s, ch, D, h, u, ch2, D2, x) /\ Edit(s, ch, D, u, ch2, D2, x)
      /\ Struct(s, ch, D) /\ Struct(u, ch2, D2) /\ Differ(u, ch2, D2)
  BY DEF EditsPath, Rework, Edit
<1>2. /\ x \in Live(s, ch, D) => ResolvePath(s, p0) = NodeAt(s, x)
      /\ x \in Live(u, ch2, D2) => ResolvePath(u, p0) = NodeAt(u, x)
  BY DEF EditsPath
<1>3. ResolvePath(s, p0).entry.start = h
  <2>1. CASE x \in Live(s, ch, D)
    BY <2>1, NodeAtIs DEF EditsPath
  <2>2. CASE x \notin Live(s, ch, D)
    BY <2>2, NothingIs DEF EditsPath
  <2>3. QED
    BY <2>1, <2>2
<1>4. p0 \in Seq(Names)
  BY PathNames
<1>5. ASSUME NEW p \in Paths \ {p0} PROVE KeepsPath(s, u, p)
  <2>1. p \in Seq(Names) /\ p # p0
    BY <1>5, PathNames
  <2>2. ResolvePath(u, p) = ResolvePath(s, p)
    BY <1>1, <1>2, <1>4, <2>1, TreeKept
  <2>3. ResolvePath(s, p).entry.start = 0 \/ ResolvePath(s, p).entry.start # h
    BY <1>1, <1>3, <1>4, <2>1, OnePath
  <2>4. QED
    BY <1>1, <2>1, <2>2, <2>3, ViewKept
<1>6. Reached(u, ch2)
  <2> SUFFICES ASSUME NEW g \in DOMAIN ch2 PROVE \E p \in Paths : ResolvePath(u, p).entry.start = g
    BY DEF Reached
  <2>1. CASE g \in (DOMAIN ch) \ {h}
    <3>1. PICK p \in Paths : ResolvePath(s, p).entry.start = g
      BY <2>1 DEF Tidy, Reached
    <3>2. p # p0
      BY <1>3, <2>1, <3>1
    <3>3. QED
      BY <1>5, <3>1, <3>2 DEF KeepsPath
  <2>2. CASE x \in Live(u, ch2, D2) /\ g = At(u, x).start
    BY <1>2, <2>2, NodeAtIs
  <2>3. QED
    BY <1>1, <2>1, <2>2 DEF Rework, HeadsKept
<1>7. QED
  BY <1>1, <1>5, <1>6 DEF Tidy, Keeps

(* Nothing happens to the tree, though a directory may grow. *)
LEMMA AllKeep ==
    ASSUME NEW s, NEW ch, NEW D, NEW u, NEW ch2, NEW D2,
           Rework(s, ch, D, 0, u, ch2, D2, NoPlace), Tidy(s, ch, D)
    PROVE  Tidy(u, ch2, D2) /\ Keeps(s, u, Paths)
<1>1. /\ Edit(s, ch, D, u, ch2, D2, NoPlace)
      /\ Struct(s, ch, D) /\ Struct(u, ch2, D2) /\ Differ(u, ch2, D2)
  BY DEF Rework, Edit
<1>2. NoPlace \notin Live(s, ch, D) /\ NoPlace \notin Live(u, ch2, D2)
  BY <1>1, NoPlaceIs
<1>3. ASSUME NEW p \in Paths PROVE KeepsPath(s, u, p)
  <2>1. p \in Seq(Names)
    BY PathNames
  <2>2. ResolvePath(u, p) = ResolvePath(s, p)
    BY <1>1, <1>2, <2>1, NodeKept
  <2>3. ResolvePath(s, p).entry.start = 0 \/ ResolvePath(s, p).entry.start # 0
    OBVIOUS
  <2>4. QED
    BY <2>1, <2>2, <2>3, ViewKept
<1>4. Reached(u, ch2)
  <2> SUFFICES ASSUME NEW g \in DOMAIN ch2 PROVE \E p \in Paths : ResolvePath(u, p).entry.start = g
    BY DEF Reached
  <2>1. g \in DOMAIN ch
    BY <1>2 DEF Rework, HeadsKept
  <2>2. PICK p \in Paths : ResolvePath(s, p).entry.start = g
    BY <2>1 DEF Tidy, Reached
  <2>3. QED
    BY <1>3, <2>2 DEF KeepsPath
<1>5. QED
  BY <1>1, <1>3, <1>4 DEF Tidy, Keeps

LEMMA AccountedTwice ==
    ASSUME NEW s, NEW ch, NEW u, NEW ch1, NEW v, NEW ch2,
           Accounted(s, ch, u, ch1), Accounted(u, ch1, v, ch2)
    PROVE  Accounted(s, ch, v, ch2)
BY DEF Accounted

LEMMA KeepsTwice ==
    ASSUME NEW s, NEW u, NEW v, NEW P, Keeps(s, u, P), Keeps(u, v, P)
    PROVE  Keeps(s, v, P)
BY DEF Keeps, KeepsPath

(* The clusters that are taken and belong to no path. *)
LostOf(s) ==
    {c \in Clusters : s.fat[c] # FREE}
        \ UNION {Range(Chain(s, ResolvePath(s, p).entry.start)) : p \in Paths}

LEMMA LostIs ==
    ASSUME NEW s, NEW ch, NEW D, Tidy(s, ch, D)
    PROVE  LostOf(s) = {c \in Clusters : s.fat[c] # FREE /\ ~InChain(ch, c)}
<1>1. Struct(s, ch, D)
  BY DEF Tidy
<1>2. ASSUME NEW p \in Paths, NEW c, c \in Range(Chain(s, ResolvePath(s, p).entry.start))
      PROVE  InChain(ch, c)
  <2>1. PICK node : node = ResolvePath(s, p) /\ node \in GoodNodes(s, ch, D)
    BY <1>1, PathNames, ResolvedIs
  <2>2. PICK g : g = node.entry.start /\ (g = 0 \/ g \in DOMAIN ch)
    BY <1>1, <2>1, NodeFacts
  <2>3. g = 0 => Chain(s, g) = <<>>
    BY <1>1, OldChain
  <2>4. g # 0
    BY <1>2, <2>1, <2>2, <2>3, NoClusters
  <2>5. Chain(s, g) = ch[g]
    BY <1>1, <2>2, <2>4, ChainOfHead
  <2>6. QED
    BY <1>2, <2>1, <2>2, <2>4, <2>5 DEF InChain
<1>3. ASSUME NEW c, InChain(ch, c)
      PROVE  \E p \in Paths : c \in Range(Chain(s, ResolvePath(s, p).entry.start))
  <2>1. PICK g \in DOMAIN ch : c \in Range(ch[g])
    BY <1>3 DEF InChain
  <2>2. PICK p \in Paths : ResolvePath(s, p).entry.start = g
    BY DEF Tidy, Reached
  <2>3. Chain(s, g) = ch[g]
    BY <1>1, ChainOfHead
  <2>4. QED
    BY <2>1, <2>2, <2>3
<1>4. QED
  BY <1>2, <1>3 DEF LostOf

(* What a step may do to the volume: it changes no path but p0, and it     *)
(* loses clusters only when the volume is full.                            *)
StepTo(s, ch, D, u, ch2, D2, P) ==
    /\ Tidy(u, ch2, D2) /\ Keeps(s, u, P)
    /\ Accounted(s, ch, u, ch2) \/ FreeClusters(u) = {}

LEMMA StepLoses ==
    ASSUME NEW s, NEW ch, NEW D, Tidy(s, ch, D), NEW u, NEW ch2, NEW D2, NEW P,
           StepTo(s, ch, D, u, ch2, D2, P)
    PROVE  FreeClusters(u) # {} => LostOf(u) \subseteq LostOf(s)
<1>1. LostOf(s) = {c \in Clusters : s.fat[c] # FREE /\ ~InChain(ch, c)}
  BY LostIs
<1>2. LostOf(u) = {c \in Clusters : u.fat[c] # FREE /\ ~InChain(ch2, c)}
  BY LostIs DEF StepTo
<1>3. QED
  BY <1>1, <1>2 DEF StepTo, Accounted

-----------------------------------------------------------------------------
(* The steps of the commands: create, remove, write and read.              *)

LEMMA ComponentPaths ==
    ASSUME NEW p \in Seq(Names)
    PROVE  p \in Seq(Components)
BY DEF Components

(* What is under a name that a directory does not hold. *)
LEMMA NothingUnder ==
    ASSUME NEW s, NEW ch, NEW D, Struct(s, ch, D), NEW up \in Seq(Names), NEW n \in Names,
           ResolvePath(s, up).entry.dir => Named(s, ResolvePath(s, up).entry.start, n) = {}
    PROVE  ResolvePath(s, Append(up, n)) = Nothing
<1>1. up \in Seq(Components) /\ n \in Components /\ n # ".."
  BY ComponentPaths, NamesAreReal DEF Components
<1>2. ResolvePath(s, Append(up, n)) = Lookup(s, ResolvePath(s, up), n)
  BY <1>1, ResolveAppend
<1>3. QED
  BY <1>1, <1>2 DEF Lookup

(* The path that a command is given is free. *)
LEMMA FreePath ==
    ASSUME NEW s, NEW ch, NEW D, Struct(s, ch, D), NEW path, NEW p0, IsNamePath(s, path, p0),
           Last(path) \in Names, Named(s, ResolveParent(s, path).start, Last(path)) = {}
    PROVE  ResolvePath(s, p0) = Nothing
<1>1. PICK up : up = Front(p0) /\ up \in Paths
  BY DEF IsNamePath
<1>2. PICK n \in Names : n = Last(path)
  OBVIOUS
<1>3. /\ ResolvePath(s, up).entry.start = ResolveParent(s, path).start
      /\ p0 = Append(up, n)
  BY <1>1, <1>2 DEF IsNamePath
<1>4. up \in Seq(Names)
  BY <1>1, PathNames
<1>5. ResolvePath(s, Append(up, n)) = Nothing
  BY <1>2, <1>3, <1>4, NothingUnder
<1>6. QED
  BY <1>3, <1>5

(* createEntry. *)
CreateStepFails(s, ch, D, r) ==
    ~r.ok /\ \E ch2, D2 : StepTo(s, ch, D, r.s, ch2, D2, Paths)
NewPath(s, ch2, D2, x, p0, n, isDir) ==
    /\ x \in Live(s, ch2, D2) /\ ResolvePath(s, p0) = NodeAt(s, x)
    /\ At(s, x).dir = isDir /\ (~isDir => At(s, x) = DirEntry(n, FALSE, 0))
CreateStepMakes(s, ch, D, r, p0, n, isDir) ==
    r.ok /\ \E ch2, D2 : /\ StepTo(s, ch, D, r.s, ch2, D2, Paths \ {p0})
                         /\ Accounted(s, ch, r.s, ch2)
                         /\ NewPath(r.s, ch2, D2, r.place, p0, n, isDir)

LEMMA CreateStep ==
    ASSUME NEW s, NEW ch, NEW D, Tidy(s, ch, D), NEW path, NEW p0, IsNamePath(s, path, p0),
           NEW n \in Names, n = Last(path), NEW d, d = ResolveParent(s, path).start,
           Named(s, d, n) = {}, NEW isDir \in BOOLEAN, NEW r, r = CreateEntry(s, d, n, isDir)
    PROVE  CreateStepFails(s, ch, D, r) \/ CreateStepMakes(s, ch, D, r, p0, n, isDir)
<1>1. Struct(s, ch, D) /\ Differ(s, ch, D)
  BY DEF Tidy
<1>2. PICK up : /\ up = Front(p0) /\ up \in Paths /\ p0 \in Paths /\ p0 = Append(up, n)
                /\ ResolvePath(s, up).entry.dir /\ ResolvePath(s, up).entry.start = d
  BY DEF IsNamePath
<1>3. d \in D
  <2>1. PICK node : node = ResolvePath(s, up) /\ node \in GoodNodes(s, ch, D)
    BY <1>1, <1>2, PathNames, ResolvedIs
  <2>2. node.entry.dir => node.entry.start \in D
    BY <1>1, <2>1, NodeFacts
  <2>3. QED
    BY <1>2, <2>1, <2>2
<1>4. CreateFails(s, ch, D, r) \/ CreateMakes(s, ch, D, d, r, n, isDir)
  BY <1>1, <1>3, CreateReworks
<1>5. CASE CreateFails(s, ch, D, r)
  <2>1. PICK ch1 : Balanced(s, ch, D, 0, r.s, ch1, D, NoPlace)
    BY <1>5 DEF CreateFails
  <2>2. Tidy(r.s, ch1, D) /\ Keeps(s, r.s, Paths)
    BY <2>1, AllKeep DEF Balanced
  <2>3. StepTo(s, ch, D, r.s, ch1, D, Paths)
    BY <2>1, <2>2 DEF StepTo, Balanced
  <2>4. CreateStepFails(s, ch, D, r)
    BY <1>5, <2>3 DEF CreateStepFails, CreateFails
  <2>5. QED
    BY <2>4
<1>6. CASE CreateMakes(s, ch, D, d, r, n, isDir)
  <2>1. PICK s1, ch1, ch2, D2, e : Makes(s, ch, D, d, r, n, isDir, s1, ch1, ch2, D2, e)
    BY <1>6 DEF CreateMakes
  <2>2. PICK x : x = r.place
    OBVIOUS
  <2>3. Tidy(s1, ch1, D) /\ Keeps(s, s1, Paths) /\ Accounted(s, ch, s1, ch1)
    BY <2>1, AllKeep DEF Makes, Balanced
  <2>4. /\ Rework(s1, ch1, D, 0, r.s, ch2, D2, x) /\ Accounted(s1, ch1, r.s, ch2)
        /\ x \notin Live(s1, ch1, D) /\ x \in Live(r.s, ch2, D2)
        /\ At(r.s, x) = e /\ InDir(ch2, D2, x, d)
    BY <2>1, <2>2 DEF Makes, NewEntry, Balanced
  <2>5. e.name = n /\ e.dir = isDir /\ (~isDir => e = DirEntry(n, FALSE, 0))
    BY <2>1 DEF Makes
  <2>6. ResolvePath(s1, up) = ResolvePath(s, up) /\ ResolvePath(s1, p0) = ResolvePath(s, p0)
    BY <1>2, <2>3 DEF Keeps, KeepsPath
  <2>7. ResolvePath(s1, p0) = Nothing
    BY <1>1, <2>6, FreePath
  <2>8. ResolvePath(r.s, p0) = NodeAt(r.s, x)
    <3>1. Edit(s1, ch1, D, r.s, ch2, D2, x)
      BY <2>4 DEF Rework
    <3>2. up \in Seq(Names)
      BY <1>2, PathNames
    <3>3. /\ ResolvePath(s1, up).entry.dir /\ InDir(ch2, D2, x, ResolvePath(s1, up).entry.start)
          /\ (x \in Live(s1, ch1, D) => ~At(s1, x).dir)
      BY <1>2, <2>4, <2>6
    <3>4. ResolvePath(r.s, Append(up, At(r.s, x).name)) = NodeAt(r.s, x)
      BY <2>4, <3>1, <3>2, <3>3, EntryFound
    <3>5. QED
      BY <1>2, <2>4, <2>5, <3>4
  <2>9. EditsPath(s1, ch1, D, 0, r.s, ch2, D2, x, p0)
    BY <2>4, <2>7, <2>8 DEF EditsPath
  <2>10. Tidy(r.s, ch2, D2) /\ Keeps(s1, r.s, Paths \ {p0})
    BY <1>2, <2>3, <2>9, OthersKeep
  <2>11. Keeps(s, r.s, Paths \ {p0})
    <3>1. Keeps(s, s1, Paths \ {p0})
      BY <2>3 DEF Keeps
    <3>2. QED
      BY <2>10, <3>1, KeepsTwice
  <2>12. Accounted(s, ch, r.s, ch2)
    BY <2>3, <2>4, AccountedTwice
  <2>13. StepTo(s, ch, D, r.s, ch2, D2, Paths \ {p0})
    BY <2>10, <2>11, <2>12 DEF StepTo
  <2>14. NewPath(r.s, ch2, D2, r.place, p0, n, isDir)
    BY <2>2, <2>4, <2>5, <2>8 DEF NewPath
  <2>15. CreateStepMakes(s, ch, D, r, p0, n, isDir)
    BY <1>6, <2>12, <2>13, <2>14 DEF CreateStepMakes, CreateMakes
  <2>16. QED
    BY <2>15
<1>7. QED
  BY <1>4, <1>5, <1>6

(* removeEntry. *)
RemoveStepDone(s, ch, D, u, p0) ==
    \E ch2, D2 : /\ StepTo(s, ch, D, u, ch2, D2, Paths \ {p0})
                 /\ Accounted(s, ch, u, ch2) /\ ResolvePath(u, p0) = Nothing

LEMMA RemoveStep ==
    ASSUME NEW s, NEW ch, NEW D, Tidy(s, ch, D), NEW p0 \in Paths, p0 # <<>>,
           NEW x \in Live(s, ch, D), ResolvePath(s, p0) = NodeAt(s, x),
           Removable(s, At(s, x)), NEW u, u = RemoveEntry(s, x)
    PROVE  RemoveStepDone(s, ch, D, u, p0)
<1>1. Struct(s, ch, D) /\ Differ(s, ch, D)
  BY DEF Tidy
<1>2. PICK h : h = At(s, x).start
  OBVIOUS
<1>3. PICK ch2, D2 : Balanced(s, ch, D, h, u, ch2, D2, x) /\ x \notin Live(u, ch2, D2)
  BY <1>1, <1>2, RemoveReworks
<1>4. Rework(s, ch, D, h, u, ch2, D2, x) /\ Accounted(s, ch, u, ch2)
  BY <1>3 DEF Balanced
<1>5. EditsPath(s, ch, D, h, u, ch2, D2, x, p0)
  BY <1>2, <1>3, <1>4 DEF EditsPath
<1>6. Tidy(u, ch2, D2) /\ Keeps(s, u, Paths \ {p0})
  BY <1>5, OthersKeep
<1>7. StepTo(s, ch, D, u, ch2, D2, Paths \ {p0})
  BY <1>4, <1>6 DEF StepTo
<1>8. ResolvePath(u, p0) = Nothing
  <2>1. p0 \in Seq(Names) /\ p0 \in Seq(Names \cup {".."}) /\ p0[Len(p0)] \in Names
    <3>1. p0 \in Seq(Names) /\ p0 \in Seq(Names \cup {".."})
      BY PathNames
    <3>2. QED
      BY <3>1
  <2>2. Edit(u, ch2, D2, s, ch, D, x)
    BY <1>4, EditBack DEF Rework
  <2>3. \/ ResolvePath(u, p0) = Nothing
        \/ ResolvePath(u, p0) = ResolvePath(s, p0)
    BY <1>3, <2>1, <2>2, PathKept
  <2>4. Struct(u, ch2, D2)
    BY <1>6 DEF Tidy
  <2>5. \/ ResolvePath(u, p0) = Nothing
        \/ \E y \in Live(u, ch2, D2) : ResolvePath(u, p0) = NodeAt(u, y)
    BY <2>1, <2>4, ResolvedIs
  <2>6. ASSUME NEW y \in Live(u, ch2, D2), ResolvePath(u, p0) = NodeAt(u, y),
               ResolvePath(u, p0) = ResolvePath(s, p0)
        PROVE  FALSE
    <3>1. NodeAt(u, y).place = y /\ NodeAt(s, x).place = x
      BY NodeAtIs
    <3>2. y = x
      BY <2>6, <3>1
    <3>3. QED
      BY <1>3, <3>2
  <2>7. QED
    BY <2>3, <2>5, <2>6
<1>9. QED
  BY <1>4, <1>7, <1>8 DEF RemoveStepDone

(* Nothing is below what may be removed. *)
LEMMA NoChildren ==
    ASSUME NEW s, NEW ch, NEW D, Struct(s, ch, D), NEW p0 \in Paths,
           Removable(s, ResolvePath(s, p0).entry),
           NEW q \in Paths, q # <<>>, SubSeq(q, 1, Len(q) - 1) = p0
    PROVE  ResolvePath(s, q) = Nothing
<1>1. q \in Seq(Names) /\ p0 \in Seq(Names)
  BY PathNames
<1>2. PICK m \in Nat : m = Len(q) /\ m >= 1
  BY <1>1
<1>3. q[m] \in Names /\ q = Append(SubSeq(q, 1, m - 1), q[m])
  BY <1>1, <1>2
<1>4. PICK n \in Names : n = q[m] /\ q = Append(p0, n)
  BY <1>2, <1>3
<1>5. ResolvePath(s, p0).entry.dir => Named(s, ResolvePath(s, p0).entry.start, n) = {}
  <2>1. n \notin {"", ".", ".."}
    BY NamesAreReal DEF NoName
  <2>2. QED
    BY <2>1 DEF Removable, IsEmptyDir, Named
<1>6. ResolvePath(s, Append(p0, n)) = Nothing
  BY <1>1, <1>5, NothingUnder
<1>7. QED
  BY <1>4, <1>6

(* write, to the file of a path. *)
WriteStepDone(s, ch, D, u, x, p0, text) ==
    \E ch2, D2 : /\ StepTo(s, ch, D, u, ch2, D2, Paths \ {p0})
                 /\ Struct(u, ch2, D2) /\ x \in Live(u, ch2, D2) /\ ~At(u, x).dir
                 /\ ResolvePath(u, p0) = NodeAt(u, x)
                 /\ \/ TextAt(u, x) = text
                    \/ \E n \in 0 .. Len(text) : TextAt(u, x) = Partly(s, x, text, n)

LEMMA WriteStep ==
    ASSUME NEW s, NEW ch, NEW D, Tidy(s, ch, D), NEW p0 \in Paths,
           NEW x \in Live(s, ch, D), ~At(s, x).dir, ResolvePath(s, p0) = NodeAt(s, x),
           NEW text, NEW u, NEW ch2, NEW D2, Wrote(s, ch, D, x, text, u, ch2, D2)
    PROVE  WriteStepDone(s, ch, D, u, x, p0, text)
<1>1. Struct(s, ch, D)
  BY DEF Tidy
<1>2. PICK h : h = At(s, x).start
  OBVIOUS
<1>3. /\ Rework(s, ch, D, h, u, ch2, D2, x) /\ Edit(s, ch, D, u, ch2, D2, x)
      /\ x \in Live(u, ch2, D2) /\ ~At(u, x).dir /\ At(u, x).name = At(s, x).name
      /\ Accounted(s, ch, u, ch2) \/ FreeClusters(u) = {}
  BY <1>2 DEF Wrote, Rework
<1>4. p0 \in Seq(Names)
  BY PathNames
<1>5. /\ p0 # <<>> /\ Front(p0) \in Seq(Names) /\ Last(p0) = At(s, x).name
      /\ p0 = Append(Front(p0), Last(p0))
      /\ ResolvePath(s, Front(p0)).entry.dir
      /\ InDir(ch, D, x, ResolvePath(s, Front(p0)).entry.start)
  BY <1>1, <1>4, PathOfEntry
<1>6. PICK up : up = Front(p0)
  OBVIOUS
<1>7. InDir(ch2, D2, x, ResolvePath(s, up).entry.start)
  BY <1>3, <1>5, <1>6 DEF Edit, SamePlaces
<1>8. ResolvePath(u, Append(up, At(u, x).name)) = NodeAt(u, x)
  BY <1>3, <1>5, <1>6, <1>7, EntryFound
<1>9. ResolvePath(u, p0) = NodeAt(u, x)
  BY <1>3, <1>5, <1>6, <1>8
<1>10. EditsPath(s, ch, D, h, u, ch2, D2, x, p0)
  BY <1>2, <1>3, <1>9 DEF EditsPath
<1>11. Tidy(u, ch2, D2) /\ Keeps(s, u, Paths \ {p0})
  BY <1>10, OthersKeep
<1>12. StepTo(s, ch, D, u, ch2, D2, Paths \ {p0}) /\ Struct(u, ch2, D2)
  BY <1>3, <1>11 DEF StepTo, Tidy
<1>13. \/ TextAt(u, x) = text
       \/ \E n \in 0 .. Len(text) : TextAt(u, x) = Partly(s, x, text, n)
  BY DEF Wrote
<1>14. QED
  BY <1>3, <1>9, <1>12, <1>13 DEF WriteStepDone

(* read: the bytes of the file that come next. *)
NextBytes(text, n, m) == [i \in 1 .. m |-> text[n + i]]
ReadIs(s, h, n, text, m) ==
    /\ m \in Nat /\ n + m <= h.size /\ (m = 0 => n = h.size)
    /\ ReadBytes(s, h, n) = NextBytes(text, n, m)

LEMMA ReadGets ==
    ASSUME NEW s, NEW h, h.size \in Nat, NEW q, q = Chain(s, h.start), q \in Seq(Clusters),
           h.size <= BytesPerCluster * Len(q), NEW n \in 0 .. h.size
    PROVE  ReadIs(s, h, n, TextIn(s, q, h.size), ReadLen(h, n))
<1>1. PICK size \in Nat : size = h.size
  OBVIOUS
<1>2. n \in Nat /\ n <= size
  BY <1>1
<1>3. PICK m : m = ReadLen(h, n)
  OBVIOUS
<1>4. m \in Nat /\ n + m <= size /\ (m = 0 => n = size)
  <2>1. CASE n >= size
    BY <1>1, <1>2, <1>3, <2>1 DEF ReadLen
  <2>2. CASE ~(n >= size)
    <3>1. m = Min({ChunkLen, size - n})
      BY <1>1, <1>3, <2>2 DEF ReadLen
    <3>2. ChunkLen \in Nat \ {0}
      BY Fat32Assumption, Zenon
    <3>3. PICK a \in Nat : a = ChunkLen /\ a >= 1
      BY <3>2
    <3>4. PICK b \in Nat : b = size - n /\ b >= 1
      BY <1>2, <2>2
    <3>5. m \in {a, b} /\ m <= a /\ m <= b
      <4>1. \E x \in {a, b} : \A y \in {a, b} : x <= y
        OBVIOUS
      <4>2. m = CHOOSE x \in {a, b} : \A y \in {a, b} : x <= y
        BY <3>1, <3>3, <3>4 DEF Min
      <4>3. m \in {a, b} /\ \A y \in {a, b} : m <= y
        BY <4>1, <4>2
      <4>4. QED
        BY <4>3
    <3>6. QED
      BY <1>2, <3>3, <3>4, <3>5
  <2>3. QED
    BY <2>1, <2>2
<1>5. PICK l \in Nat : l = Len(q)
  OBVIOUS
<1>6. PICK k \in Nat : k = BytesPerCluster * l
  BY <1>5, Bytes
<1> DEFINE cluster(i) == ClusterAtOffset(s, h.start, n + i - 1)
<1>7. ASSUME NEW i \in 1 .. m
      PROVE  /\ n + i \in 1 .. size /\ cluster(i) = q[Nth(n + i)] /\ cluster(i) \in Clusters
             /\ ((n + i - 1) % BytesPerCluster) + 1 = Offset(n + i)
  <2>1. n + i \in Nat /\ n + i >= 1 /\ n + i <= size /\ n + i <= BytesPerCluster * l
    BY <1>1, <1>2, <1>4, <1>5, <1>6
  <2>2. Nth(n + i) \in 1 .. l
    BY <1>5, <2>1, PlaceOfByte
  <2>3. (n + i - 1) \div BytesPerCluster + 1 = Nth(n + i)
    BY DEF Nth
  <2>4. cluster(i) = q[Nth(n + i)]
    BY <1>5, <2>2, <2>3 DEF ClusterAtOffset
  <2>5. ((n + i - 1) % BytesPerCluster) + 1 = Offset(n + i)
    BY DEF Offset
  <2>6. q[Nth(n + i)] \in Clusters
    BY <1>5, <2>2
  <2>7. QED
    BY <2>1, <2>4, <2>5, <2>6
<1> DEFINE read == {i \in 1 .. ReadLen(h, n) : \A j \in 1 .. i : cluster(j) \in Clusters}
<1>8. ReadBytes(s, h, n) =
         [i \in 1 .. Cardinality(read) |->
            s.data[cluster(i)][((n + i - 1) % BytesPerCluster) + 1]]
  BY DEF ReadBytes
<1> HIDE DEF cluster
<1>9. read = 1 .. m
  <2>1. ASSUME NEW i \in 1 .. m, NEW j \in 1 .. i PROVE cluster(j) \in Clusters
    <3>1. j \in 1 .. m
      BY <1>4
    <3>2. QED
      BY <1>7, <3>1
  <2>2. QED
    BY <1>3, <2>1
<1>10. Cardinality(1 .. m) = m
  BY <1>4, FS_Interval
<1> HIDE DEF read
<1>11. ReadBytes(s, h, n) =
          [i \in 1 .. m |-> s.data[cluster(i)][((n + i - 1) % BytesPerCluster) + 1]]
  BY <1>8, <1>9, <1>10
<1>12. ASSUME NEW i \in 1 .. m
       PROVE  s.data[cluster(i)][((n + i - 1) % BytesPerCluster) + 1] = TextIn(s, q, size)[n + i]
  BY <1>7 DEF TextIn
<1>13. ReadBytes(s, h, n) = NextBytes(TextIn(s, q, size), n, m)
  BY <1>11, <1>12 DEF NextBytes
<1>14. QED
  BY <1>1, <1>3, <1>4, <1>13 DEF ReadIs

-----------------------------------------------------------------------------
(* The properties, from the structure.                                     *)

(* The chain of what a path leads to. *)
LEMMA PathChain ==
    ASSUME NEW s, NEW ch, NEW D, Struct(s, ch, D), NEW p \in Seq(Names \cup {".."})
    PROVE  LET e == ResolvePath(s, p).entry
           IN /\ e.start = 0 \/ e.start \in DOMAIN ch
              /\ e.start = 0 => Chain(s, e.start) = <<>>
              /\ e.start # 0 => Chain(s, e.start) = ch[e.start] /\ Linked(s, ch[e.start])
              /\ ~e.dir => e.size <= BytesPerCluster * Len(Chain(s, e.start))
<1>1. PICK node : node = ResolvePath(s, p) /\ node \in GoodNodes(s, ch, D)
  BY ResolvedIs
<1> DEFINE h == node.entry.start
<1>2. /\ h = 0 \/ h \in DOMAIN ch
      /\ ~node.entry.dir => \/ h = 0 /\ node.entry.size = 0
                            \/ h \in DOMAIN ch /\ node.entry.size <= BytesPerCluster * Len(ch[h])
  BY <1>1, NodeFacts
<1> HIDE DEF h
<1>3. /\ h = 0 => Chain(s, h) = <<>>
      /\ h # 0 => Chain(s, h) = ch[h] /\ Linked(s, ch[h])
  BY <1>2, OldChain
<1>4. ~node.entry.dir => node.entry.size <= BytesPerCluster * Len(Chain(s, h))
  <2>1. CASE h = 0
    <3>1. 0 \notin DOMAIN ch
      BY Sizes DEF Struct, Layout
    <3>2. node.entry.size = 0 => node.entry.size <= BytesPerCluster * Len(<<>>)
      BY NoBytes
    <3>3. QED
      BY <1>2, <1>3, <2>1, <3>1, <3>2
  <2>2. CASE h # 0
    BY <1>2, <1>3, <2>2
  <2>3. QED
    BY <2>1, <2>2
<1>5. QED
  BY <1>1, <1>2, <1>3, <1>4 DEF h

LEMMA ChainsFromStruct ==
    ASSUME NEW ch, NEW D, Struct(fs, ch, D)
    PROVE  ChainsSeparate
<1> DEFINE chains == {<<p, ChainOf(p)>> : p \in Paths}
<1>1. ASSUME NEW x \in chains
      PROVE  \E p \in Paths : x = <<p, Chain(fs, ResolvePath(fs, p).entry.start)>>
  BY DEF ChainOf, EntryOf
<1>2. ASSUME NEW p \in Paths
      PROVE  LET h == ResolvePath(fs, p).entry.start
             IN /\ h = 0 \/ h \in DOMAIN ch
                /\ h = 0 => Chain(fs, h) = <<>>
                /\ h # 0 => Chain(fs, h) = ch[h] /\ Linked(fs, ch[h])
  BY PathNames, PathChain
<1> HIDE DEF chains
<1>3. ASSUME NEW x \in chains
      PROVE  (x[2] # <<>> => fs.fat[Last(x[2])] = EOC) /\ IsInjective(x[2])
  <2>1. PICK p \in Paths : x = <<p, Chain(fs, ResolvePath(fs, p).entry.start)>>
    BY <1>1
  <2>2. x[2] = <<>> \/ Linked(fs, x[2])
    BY <1>2, <2>1
  <2>3. CASE x[2] = <<>>
    <3>1. IsInjective(<<>>)
      BY DEF IsInjective
    <3>2. QED
      BY <2>3, <3>1
  <2>4. CASE Linked(fs, x[2])
    <3>1. PICK q : q = x[2] /\ q \in Seq(Clusters)
      BY <2>4 DEF Linked
    <3>2. fs.fat[q[Len(q)]] = EOC /\ \A i, j \in 1 .. Len(q) : q[i] = q[j] => i = j
      BY <2>4, <3>1 DEF Linked
    <3>3. IsInjective(q)
      BY <3>1, <3>2 DEF IsInjective
    <3>4. fs.fat[Last(q)] = EOC
      BY <3>2 DEF Last
    <3>5. QED
      BY <3>1, <3>3, <3>4
  <2>5. QED
    BY <2>2, <2>3, <2>4
<1>4. ASSUME NEW x \in chains, NEW y \in chains \ {x}
      PROVE  Range(x[2]) \cap Range(y[2]) = {}
  <2>1. PICK p \in Paths : x = <<p, Chain(fs, ResolvePath(fs, p).entry.start)>>
    BY <1>1
  <2>2. PICK r \in Paths : y = <<r, Chain(fs, ResolvePath(fs, r).entry.start)>>
    BY <1>1
  <2>3. p # r
    BY <2>1, <2>2
  <2>4. PICK g : g = ResolvePath(fs, p).entry.start
    OBVIOUS
  <2>5. PICK h : h = ResolvePath(fs, r).entry.start
    OBVIOUS
  <2>6. x[2] = Chain(fs, g) /\ y[2] = Chain(fs, h)
    BY <2>1, <2>2, <2>4, <2>5
  <2>7. CASE g = 0 \/ h = 0
    <3>1. x[2] = <<>> \/ y[2] = <<>>
      BY <1>2, <2>4, <2>5, <2>6, <2>7
    <3>2. Range(<<>>) = {}
      BY NoClusters
    <3>3. QED
      BY <3>1, <3>2
  <2>8. CASE g # 0 /\ h # 0
    <3>1. g # h
      BY <2>3, <2>4, <2>5, <2>8, PathNames, OnePath
    <3>2. g \in DOMAIN ch /\ h \in DOMAIN ch /\ x[2] = ch[g] /\ y[2] = ch[h]
      BY <1>2, <2>4, <2>5, <2>6, <2>8
    <3>3. QED
      BY <3>1, <3>2 DEF Struct, Layout
  <2>9. QED
    BY <2>7, <2>8
<1>5. QED
  BY <1>3, <1>4 DEF ChainsSeparate, chains

LEMMA SizesFromStruct ==
    ASSUME NEW ch, NEW D, Struct(fs, ch, D)
    PROVE  SizeIsBacked
BY PathNames, PathChain DEF SizeIsBacked, EntryOf

-----------------------------------------------------------------------------
(* The invariant: the volume is tidy, and a command that is in progress    *)
(* holds what the entry of its file says and has read the leading bytes.   *)

FatInv == \E ch, D : Tidy(fs, ch, D)

Handle == [op |-> cmd.op, start |-> cmd.start, size |-> cmd.size, place |-> cmd.place, read |-> cmd.read]
Leading(text, n) == [i \in 1 .. n |-> text[i]]
HandleText == TextIn(fs, Chain(fs, cmd.start), cmd.size)
OpenOn(p) ==
    LET node == ResolvePath(fs, p)
    IN /\ node.entry # NoEntry /\ ~node.entry.dir
       /\ node.place = cmd.place /\ node.entry.start = cmd.start /\ node.entry.size = cmd.size
Using ==
    /\ cmd = Handle /\ cmd.op \in {"cat", "write"} /\ shown = <<>>
    /\ \E p \in Paths : OpenOn(p)
    /\ \E n \in 0 .. cmd.size : cmd.read = Leading(HandleText, n)
CmdInv == cmd = Idle \/ Using
CwdInv == cwd \in Seq(Names \cup {".."})

VolumeInv == FatInv /\ CmdInv /\ CwdInv

LEMMA PathOfInput ==
    ASSUME CwdInv, NEW input \in Inputs
    PROVE  LET path == Absolute(input)
           IN /\ path \in Seq(Names \cup {".."}) /\ path # <<>> /\ path[Len(path)] \in Names
              /\ Last(path) \in Names /\ Front(path) \in Seq(Names \cup {".."})
<1>1. /\ Inputs \subseteq Seq(Names \cup {".."}) \ {<<>>}
      /\ \A i \in Inputs : Last(i) # ".."
  BY Fat32Assumption, Zenon
<1>2. input \in Seq(Names \cup {".."}) /\ input # <<>> /\ input[Len(input)] # ".."
  BY <1>1 DEF Last
<1>3. Len(input) \in Nat /\ Len(input) >= 1
  BY <1>2
<1>4. input[Len(input)] \in Names
  BY <1>2, <1>3
<1> DEFINE path == cwd \o input
<1>5. /\ path \in Seq(Names \cup {".."}) /\ Len(path) = Len(cwd) + Len(input)
      /\ path[Len(path)] = input[Len(input)] /\ Len(cwd) \in Nat
  BY <1>2, <1>3 DEF CwdInv
<1> HIDE DEF path
<1>6. Len(path) >= 1 /\ Len(path) \in Nat
  BY <1>3, <1>5
<1>7. path # <<>>
  BY <1>6
<1>8. Front(path) \in Seq(Names \cup {".."})
  BY <1>5, <1>6 DEF Front
<1>9. Last(path) = path[Len(path)]
  BY DEF Last
<1>10. QED
  BY <1>4, <1>5, <1>7, <1>8, <1>9 DEF path, Absolute

LEMMA VolumeInit == Init => VolumeInv
<1> HAVE Init
<1> DEFINE ch == [h \in {Root} |-> <<Root>>]
           D == {Root}
<1>1. /\ fs.fat = [c \in Clusters |-> IF c = Root THEN EOC ELSE FREE]
      /\ fs.data = [c \in Clusters |-> IF c = Root THEN EmptySlots ELSE Stale]
      /\ fs = [fat |-> fs.fat, data |-> fs.data]
      /\ cmd = Idle /\ cwd = <<>>
  BY DEF Init
<1>2. Root \in Clusters /\ 0 \in Heads /\ EOC \in Heads
  BY Sizes
<1>3. fs.fat[Root] = EOC /\ fs.data[Root] = EmptySlots
  BY <1>1, <1>2
<1>4. Shape(fs)
  <2>1. fs.fat \in Fats
    BY <1>1, <1>2, Sizes DEF Fats, Heads
  <2>2. fs.data = [c \in Clusters |-> fs.data[c]]
    BY <1>1
  <2>3. QED
    BY <1>1, <2>1, <2>2 DEF Shape
<1>5. /\ ch[Root] = <<Root>> /\ DOMAIN ch = {Root}
      /\ <<Root>> \in Seq(Clusters) /\ Len(<<Root>>) = 1 /\ <<Root>> # <<>> /\ Range(<<Root>>) = {Root}
      /\ <<Root>>[1] = Root
  BY <1>2, OneRange
<1> HIDE DEF ch
<1>6. Layout(fs, ch)
  <2>1. Linked(fs, <<Root>>)
    <3> DEFINE q == <<Root>>
    <3>1. q \in Seq(Clusters) /\ Len(q) = 1 /\ q # <<>> /\ q[1] = Root
      BY <1>5
    <3> HIDE DEF q
    <3>2. Linked(fs, q)
      BY <1>3, <3>1 DEF Linked
    <3>3. QED
      BY <3>2 DEF q
  <2>2. QED
    BY <1>2, <1>5, <2>1 DEF Layout
<1>7. Dirs(fs, ch, D)
  BY <1>3, <1>5, EntryTypes DEF Dirs
<1>8. Live(fs, ch, D) = {}
  <2> SUFFICES ASSUME NEW x \in Live(fs, ch, D) PROVE FALSE
    OBVIOUS
  <2>1. x \in Slot /\ x[1] = Root /\ At(fs, x).name \in Names
    BY <1>5 DEF Live, DirSlots, Real
  <2>2. At(fs, x) = NoEntry
    BY <1>3, <2>1 DEF At, Slot, EmptySlots
  <2>3. QED
    BY <2>1, <2>2, NoEntryIs, NamesAreReal
<1>9. Struct(fs, ch, D)
  BY <1>4, <1>6, <1>7, <1>8 DEF Struct, AllBacked, OwnersDiffer, Parents
<1>10. Tidy(fs, ch, D)
  <2>1. Differ(fs, ch, D)
    BY <1>8 DEF Differ
  <2>2. ResolvePath(fs, <<>>) = Directory(Root)
    BY <1>9, ResolveNone
  <2>3. Reached(fs, ch)
    BY <1>5, <2>2, RootPath, DirectoryIs DEF Reached
  <2>4. QED
    BY <1>9, <2>1, <2>3 DEF Tidy
<1>11. FatInv
  BY <1>10 DEF FatInv
<1>12. QED
  BY <1>1, <1>11 DEF VolumeInv, CmdInv, CwdInv

-----------------------------------------------------------------------------
(* What a command does to the views of the paths.                          *)

LEMMA ViewNothing ==
    ASSUME NEW s, NEW p, ResolvePath(s, p) = Nothing
    PROVE  ViewOf(s, p) = <<"absent">>
BY NothingIs DEF ViewOf, View

LEMMA ViewDir ==
    ASSUME NEW s, NEW p, ResolvePath(s, p).entry.dir
    PROVE  ViewOf(s, p) = <<"dir">>
BY NoEntryIs DEF ViewOf, View

LEMMA ViewFile ==
    ASSUME NEW s, NEW ch, NEW D, NEW x \in Live(s, ch, D), ~At(s, x).dir,
           NEW p, ResolvePath(s, p) = NodeAt(s, x)
    PROVE  ViewOf(s, p) = <<"file", TextAt(s, x)>> /\ ResolvePath(s, p).entry # NoEntry
<1>1. At(s, x).name \in Names
  BY DEF Live, Real
<1>2. At(s, x) # NoEntry
  BY <1>1, NoEntryIs, NamesAreReal
<1>3. ResolvePath(s, p).entry = At(s, x)
  BY NodeAtIs
<1>4. QED
  BY <1>2, <1>3 DEF ViewOf, View, TextAt

LEMMA NewFileIsEmpty ==
    ASSUME NEW s, NEW x, NEW n, At(s, x) = DirEntry(n, FALSE, 0)
    PROVE  TextAt(s, x) = <<>>
<1>1. At(s, x).size = 0
  BY DEF DirEntry
<1>2. TextAt(s, x) = [i \in 1 .. 0 |-> s.data[Chain(s, At(s, x).start)[Nth(i)]][Offset(i)]]
  BY <1>1 DEF TextAt, TextIn
<1>3. QED
  BY <1>2

Above(p) == SubSeq(p, 1, Len(p) - 1)
CreatesAt(p) ==
    /\ p # <<>> /\ Above(p) \in Paths /\ ViewOf(fs, Above(p)) = <<"dir">>
    /\ ViewOf(fs, p) = <<"absent">>
    /\ ViewOf(fs', p) = <<"dir">> \/ ViewOf(fs', p) = <<"file", <<>> >>
RemovesAt(p) ==
    /\ p # <<>> /\ ViewOf(fs, p) # <<"absent">> /\ ViewOf(fs', p) = <<"absent">>
    /\ \A q \in Paths : q # <<>> /\ Above(q) = p => ViewOf(fs, q) = <<"absent">>
LeadingOf(text, n, old) == [i \in 1 .. Len(old) |-> IF i <= n THEN text[i] ELSE old[i]]
WritesOver(p, text, old) ==
    /\ ViewOf(fs, p) = <<"file", old>>
    /\ \/ ViewOf(fs', p) = <<"file", text>>
       \/ \E n \in 0 .. Len(text) : ViewOf(fs', p) = <<"file", LeadingOf(text, n, old)>>
WritesAt(p) == \E text \in Texts : \E old : WritesOver(p, text, old)
ChangesOnly(p) ==
    /\ shown' = <<>> /\ Keeps(fs, fs', Paths \ {p})
    /\ CreatesAt(p) \/ RemovesAt(p) \/ WritesAt(p)
Prints(p) == Keeps(fs, fs', Paths) /\ ViewOf(fs, p) = <<"file", shown'>>
NoChange == Keeps(fs, fs', Paths) /\ (shown' = <<>> \/ shown' = shown)
TreeStep == NoChange \/ \E p \in Paths : ChangesOnly(p) \/ Prints(p)

LosesNothing == FreeClusters(fs') # {} => LostOf(fs') \subseteq LostOf(fs)
Outcome == FatInv' /\ CmdInv' /\ LosesNothing /\ TreeStep

LEMMA StepIsSafe ==
    ASSUME NEW ch, NEW D, Tidy(fs, ch, D), NEW ch2, NEW D2, NEW P,
           StepTo(fs, ch, D, fs', ch2, D2, P)
    PROVE  FatInv' /\ LosesNothing
<1>1. Tidy(fs', ch2, D2)
  BY DEF StepTo
<1>2. FatInv'
  BY <1>1 DEF FatInv
<1>3. LosesNothing
  BY StepLoses DEF LosesNothing
<1>4. QED
  BY <1>2, <1>3

(* A command that changes nothing. *)
LEMMA NothingHappens ==
    ASSUME FatInv, fs' = fs, CmdInv', shown' = <<>> \/ shown' = shown
    PROVE  Outcome
<1>1. PICK ch, D : Tidy(fs, ch, D)
  BY DEF FatInv
<1>2. Tidy(fs', ch, D)
  BY <1>1
<1>3. FatInv'
  BY <1>2 DEF FatInv
<1>4. Keeps(fs, fs', Paths)
  BY DEF Keeps, KeepsPath
<1>5. LosesNothing
  BY DEF LosesNothing
<1>6. QED
  BY <1>3, <1>4, <1>5 DEF Outcome, TreeStep, NoChange

(* A command that leaves every path as it was. *)
LEMMA NothingShows ==
    ASSUME NEW ch, NEW D, Tidy(fs, ch, D), NEW ch2, NEW D2,
           StepTo(fs, ch, D, fs', ch2, D2, Paths), cmd' = Idle, shown' = <<>>
    PROVE  Outcome
<1>1. FatInv' /\ LosesNothing
  BY StepIsSafe
<1>2. CmdInv'
  BY DEF CmdInv
<1>3. TreeStep
  BY DEF TreeStep, NoChange, StepTo
<1>4. QED
  BY <1>1, <1>2, <1>3 DEF Outcome

(* The path of names of a command whose path has a parent. *)
LEMMA CommandPath ==
    ASSUME NEW ch, NEW D, Tidy(fs, ch, D), CwdInv, NEW input \in Inputs,
           Depth(Absolute(input)) <= MaxDepth, HasParent(fs, Absolute(input))
    PROVE  \E p0 : IsNamePath(fs, Absolute(input), p0)
<1>1. PICK path : path = Absolute(input)
  OBVIOUS
<1>2. path \in Seq(Components) /\ path # <<>> /\ path[Len(path)] \in Names
  BY <1>1, PathOfInput DEF Components
<1>3. Struct(fs, ch, D) /\ Depth(path) <= MaxDepth /\ HasParent(fs, path)
  BY <1>1 DEF Tidy
<1>4. \E p0 : IsNamePath(fs, path, p0)
  BY <1>2, <1>3, NamePath
<1>5. QED
  BY <1>1, <1>4

(* What a path of a command finds. *)
LEMMA FoundIs ==
    ASSUME NEW ch, NEW D, Tidy(fs, ch, D), CwdInv, NEW input \in Inputs
    PROVE  LET path == Absolute(input)
               node == ResolvePath(fs, path)
           IN /\ Last(path) \in Names
              /\ Found(node) => HasParent(fs, path) /\ \E x \in Live(fs, ch, D) : node = NodeAt(fs, x)
              /\ ~Found(node) => node = Nothing
              /\ HasParent(fs, path) /\ node = Nothing
                    => Named(fs, ResolveParent(fs, path).start, Last(path)) = {}
<1>1. PICK path : path = Absolute(input)
  OBVIOUS
<1>2. /\ path \in Seq(Names \cup {".."}) /\ path # <<>> /\ path[Len(path)] \in Names
      /\ Last(path) \in Names /\ Front(path) \in Seq(Names \cup {".."})
  BY <1>1, PathOfInput
<1>3. PICK node : node = ResolvePath(fs, path)
  OBVIOUS
<1>4. Struct(fs, ch, D)
  BY DEF Tidy
<1>5. node = Nothing \/ \E x \in Live(fs, ch, D) : node = NodeAt(fs, x)
  BY <1>2, <1>3, <1>4, ResolvedIs
<1>6. ~Found(Nothing)
  BY NothingIs DEF Found
<1>7. ASSUME NEW x \in Live(fs, ch, D), node = NodeAt(fs, x) PROVE Found(node) /\ node # Nothing
  <2>1. At(fs, x).name \in Names
    BY DEF Live, Real
  <2>2. At(fs, x) # NoEntry
    BY <2>1, NoEntryIs, NamesAreReal
  <2>3. QED
    BY <1>6, <1>7, <2>2, NodeAtIs DEF Found
<1>8. PICK up : up = ResolvePath(fs, Front(path)) /\ up \in GoodNodes(fs, ch, D)
  BY <1>2, <1>4, ResolvedIs
<1>9. PICK n \in Names : n = Last(path)
  BY <1>2
<1>10. node = Lookup(fs, up, n)
  <2>1. PICK m \in Nat : m = Len(path) /\ m >= 1
    BY <1>2
  <2>2. path = Append(SubSeq(path, 1, m - 1), path[m])
    BY <1>2, <2>1
  <2>3. path = Append(Front(path), n)
    BY <1>9, <2>1, <2>2 DEF Front, Last
  <2>4. Front(path) \in Seq(Components) /\ n \in Components
    BY <1>2, <1>9 DEF Components
  <2>5. ResolvePath(fs, Append(Front(path), n)) = Lookup(fs, ResolvePath(fs, Front(path)), n)
    BY <1>4, <2>4, ResolveAppend
  <2>6. QED
    BY <1>3, <1>8, <2>3, <2>5
<1>11. HasParent(fs, path) <=> up.entry.dir
  BY <1>8 DEF HasParent, ResolveParent
<1>12. ~up.entry.dir => node = Nothing
  BY <1>10 DEF Lookup
<1>13. ASSUME up.entry.dir, node = Nothing PROVE Named(fs, up.entry.start, n) = {}
  <2> SUFFICES ASSUME Named(fs, up.entry.start, n) # {} PROVE FALSE
    OBVIOUS
  <2>1. PICK d : d = up.entry.start /\ d \in D
    BY <1>4, <1>8, <1>13, NodeFacts
  <2>2. PICK x : x = First(fs, Named(fs, d, n))
    OBVIOUS
  <2>3. n # ".."
    BY NamesAreReal
  <2>4. node.entry = At(fs, x)
    BY <1>10, <1>13, <2>1, <2>2, <2>3 DEF Lookup
  <2>5. x \in Named(fs, d, n)
    BY <1>4, <2>1, <2>2, FirstIsNamed DEF Named
  <2>6. At(fs, x).name = n
    BY <2>5 DEF Named
  <2>7. At(fs, x).name = NoName
    BY <1>13, <2>4, NothingIs, NoEntryIs
  <2>8. QED
    BY <2>6, <2>7, NamesAreReal
<1>14. ResolveParent(fs, path).start = up.entry.start
  BY <1>8 DEF ResolveParent
<1>15. QED
  BY <1>1, <1>2, <1>3, <1>5, <1>6, <1>7, <1>9, <1>11, <1>12, <1>13, <1>14

-----------------------------------------------------------------------------
(* The commands.                                                           *)

(* What was created shows: its directory is one, and its path was free. *)
LEMMA CreationShows ==
    ASSUME NEW ch, NEW D, Tidy(fs, ch, D), NEW path, NEW p0, IsNamePath(fs, path, p0),
           NEW n \in Names, n = Last(path), Named(fs, ResolveParent(fs, path).start, n) = {},
           NEW ch2, NEW D2, NEW x, NEW isDir, NewPath(fs', ch2, D2, x, p0, n, isDir)
    PROVE  CreatesAt(p0)
<1>1. PICK up : up = Above(p0) /\ up \in Paths /\ ResolvePath(fs, up).entry.dir /\ p0 # <<>>
  BY DEF IsNamePath, Above
<1>2. ViewOf(fs, up) = <<"dir">>
  BY <1>1, ViewDir
<1>3. ResolvePath(fs, p0) = Nothing
  BY FreePath DEF Tidy
<1>4. ViewOf(fs, p0) = <<"absent">>
  BY <1>3, ViewNothing
<1>5. ViewOf(fs', p0) = <<"dir">> \/ ViewOf(fs', p0) = <<"file", <<>> >>
  <2>1. CASE At(fs', x).dir
    <3>1. ResolvePath(fs', p0).entry.dir
      BY <2>1, NodeAtIs DEF NewPath
    <3>2. QED
      BY <3>1, ViewDir
  <2>2. CASE ~At(fs', x).dir
    <3>1. At(fs', x) = DirEntry(n, FALSE, 0) /\ x \in Live(fs', ch2, D2)
          /\ ResolvePath(fs', p0) = NodeAt(fs', x)
      BY <2>2 DEF NewPath
    <3>2. TextAt(fs', x) = <<>>
      BY <3>1, NewFileIsEmpty
    <3>3. ViewOf(fs', p0) = <<"file", TextAt(fs', x)>>
      BY <2>2, <3>1, ViewFile
    <3>4. QED
      BY <3>2, <3>3
  <2>3. QED
    BY <2>1, <2>2
<1>6. QED
  BY <1>1, <1>2, <1>4, <1>5 DEF CreatesAt

LEMMA MkdirDoes ==
    ASSUME VolumeInv, NEW input \in Inputs, Depth(Absolute(input)) <= MaxDepth, Mkdir(input)
    PROVE  Outcome
<1>1. PICK ch, D : Tidy(fs, ch, D)
  BY DEF VolumeInv, FatInv
<1>2. PICK path : path = Absolute(input)
  OBVIOUS
<1>3. PICK n \in Names : n = Last(path)
  BY <1>1, <1>2, FoundIs DEF VolumeInv
<1>4. PICK d : d = ResolveParent(fs, path).start
  OBVIOUS
<1>5. PICK r : r = CreateEntry(fs, d, n, TRUE)
  OBVIOUS
<1>6. /\ HasParent(fs, path) /\ Named(fs, d, n) = {} /\ fs' = r.s
      /\ cmd = Idle /\ cmd' = cmd /\ shown' = <<>>
  BY <1>2, <1>3, <1>4, <1>5 DEF Mkdir
<1>7. PICK p0 : IsNamePath(fs, path, p0)
  BY <1>1, <1>2, <1>6, CommandPath DEF VolumeInv
<1>8. CreateStepFails(fs, ch, D, r) \/ CreateStepMakes(fs, ch, D, r, p0, n, TRUE)
  BY <1>1, <1>3, <1>4, <1>5, <1>6, <1>7, CreateStep
<1>9. CASE CreateStepFails(fs, ch, D, r)
  <2>1. PICK ch2, D2 : StepTo(fs, ch, D, fs', ch2, D2, Paths)
    BY <1>6, <1>9 DEF CreateStepFails
  <2>2. QED
    BY <1>1, <1>6, <2>1, NothingShows
<1>10. CASE CreateStepMakes(fs, ch, D, r, p0, n, TRUE)
  <2>1. PICK ch2, D2 : /\ StepTo(fs, ch, D, fs', ch2, D2, Paths \ {p0})
                       /\ NewPath(fs', ch2, D2, r.place, p0, n, TRUE)
    BY <1>6, <1>10 DEF CreateStepMakes
  <2>2. FatInv' /\ LosesNothing
    BY <1>1, <2>1, StepIsSafe
  <2>3. CreatesAt(p0)
    BY <1>1, <1>3, <1>4, <1>6, <1>7, <2>1, CreationShows
  <2>4. p0 \in Paths
    BY <1>7 DEF IsNamePath
  <2>5. TreeStep
    BY <1>6, <2>1, <2>3, <2>4 DEF TreeStep, ChangesOnly, StepTo
  <2>6. CmdInv'
    BY <1>6 DEF CmdInv
  <2>7. QED
    BY <2>2, <2>5, <2>6 DEF Outcome
<1>11. QED
  BY <1>8, <1>9, <1>10

LEMMA RemovePathDoes ==
    ASSUME VolumeInv, NEW input \in Inputs, Depth(Absolute(input)) <= MaxDepth, RemovePath(input)
    PROVE  Outcome
<1>1. PICK ch, D : Tidy(fs, ch, D)
  BY DEF VolumeInv, FatInv
<1>2. PICK path : path = Absolute(input)
  OBVIOUS
<1>3. PICK node : node = ResolvePath(fs, path)
  OBVIOUS
<1>4. /\ HasParent(fs, path) /\ Found(node) /\ Removable(fs, node.entry)
      /\ fs' = RemoveEntry(fs, node.place)
      /\ cmd = Idle /\ cmd' = cmd /\ shown' = <<>>
  BY <1>2, <1>3 DEF RemovePath
<1>5. PICK x \in Live(fs, ch, D) : node = NodeAt(fs, x)
  BY <1>1, <1>2, <1>3, <1>4, FoundIs DEF VolumeInv
<1>6. node.entry = At(fs, x) /\ node.place = x
  BY <1>5, NodeAtIs
<1>7. PICK p0 : IsNamePath(fs, path, p0)
  BY <1>1, <1>2, <1>4, CommandPath DEF VolumeInv
<1>8. p0 \in Paths /\ p0 # <<>> /\ ResolvePath(fs, p0) = node
  BY <1>3, <1>7 DEF IsNamePath
<1>9. RemoveStepDone(fs, ch, D, fs', p0)
  BY <1>1, <1>4, <1>5, <1>6, <1>8, RemoveStep
<1>10. PICK ch2, D2 : /\ StepTo(fs, ch, D, fs', ch2, D2, Paths \ {p0})
                      /\ ResolvePath(fs', p0) = Nothing
  BY <1>9 DEF RemoveStepDone
<1>11. FatInv' /\ LosesNothing
  BY <1>1, <1>10, StepIsSafe
<1>12. ViewOf(fs', p0) = <<"absent">>
  BY <1>10, ViewNothing
<1>13. ViewOf(fs, p0) # <<"absent">>
  <2>1. ViewOf(fs, p0) = <<"dir">> \/ ViewOf(fs, p0) = <<"file", TextAt(fs, x)>>
    <3>1. CASE At(fs, x).dir
      BY <1>6, <1>8, <3>1, ViewDir
    <3>2. CASE ~At(fs, x).dir
      BY <1>5, <1>8, <3>2, ViewFile
    <3>3. QED
      BY <3>1, <3>2
  <2>2. QED
    BY <2>1
<1>14. ASSUME NEW q \in Paths, q # <<>>, Above(q) = p0 PROVE ViewOf(fs, q) = <<"absent">>
  <2>1. ResolvePath(fs, q) = Nothing
    BY <1>1, <1>4, <1>8, <1>14, NoChildren DEF Tidy, Above
  <2>2. QED
    BY <2>1, ViewNothing
<1>15. RemovesAt(p0)
  BY <1>8, <1>12, <1>13, <1>14 DEF RemovesAt
<1>16. TreeStep
  BY <1>4, <1>8, <1>10, <1>15 DEF TreeStep, ChangesOnly, StepTo
<1>17. CmdInv'
  BY <1>4 DEF CmdInv
<1>18. QED
  BY <1>11, <1>16, <1>17 DEF Outcome

(* A command that goes on takes the handle of a file. *)
LEMMA CommandTakes ==
    ASSUME NEW ch, NEW D, Tidy(fs', ch, D), NEW x \in Live(fs', ch, D), ~At(fs', x).dir,
           NEW op \in {"touch", "cat", "write"}, NEW p0 \in Paths,
           ResolvePath(fs', p0) = NodeAt(fs', x), shown' = <<>>,
           cmd' = Command(op, At(fs', x), x)
    PROVE  CmdInv'
<1>1. CASE op = "touch"
  <2>1. cmd' = Idle
    BY <1>1 DEF Command
  <2>2. QED
    BY <2>1 DEF CmdInv
<1>2. CASE op # "touch"
  <2>1. PICK e : e = At(fs', x)
    OBVIOUS
  <2>2. cmd' = [op |-> op, start |-> e.start, size |-> e.size, place |-> x, read |-> <<>>]
    BY <1>2, <2>1 DEF Command
  <2>3. /\ cmd'.op = op /\ cmd'.start = e.start /\ cmd'.size = e.size /\ cmd'.place = x
        /\ cmd'.read = <<>>
    BY <2>2
  <2>4. cmd' = Handle'
    BY <2>2, <2>3 DEF Handle
  <2>5. OpenOn(p0)'
    <3>1. ResolvePath(fs', p0).entry # NoEntry
      BY ViewFile
    <3>2. ResolvePath(fs', p0).entry = e /\ ResolvePath(fs', p0).place = x
      BY <2>1, NodeAtIs
    <3>3. QED
      BY <2>1, <2>3, <3>1, <3>2 DEF OpenOn
  <2>6. \E n \in 0 .. cmd'.size : cmd'.read = Leading(HandleText', n)
    <3>1. e.size \in Nat
      <4>1. e \in Entries
        BY <2>1, EntryAt DEF Tidy, Live
      <4>2. QED
        BY <4>1 DEF Entries
    <3>2. 0 \in 0 .. cmd'.size
      BY <2>3, <3>1
    <3>3. Leading(HandleText', 0) = <<>>
      BY DEF Leading
    <3>4. QED
      BY <2>3, <3>2, <3>3
  <2>7. Using'
    BY <1>2, <2>3, <2>4, <2>5, <2>6 DEF Using
  <2>8. QED
    BY <2>7 DEF CmdInv
<1>3. QED
  BY <1>1, <1>2

LEMMA OpenExistingDoes ==
    ASSUME VolumeInv, NEW input \in Inputs, Depth(Absolute(input)) <= MaxDepth,
           NEW op \in {"touch", "cat", "write"}, OpenExisting(input, op)
    PROVE  Outcome
<1>1. PICK ch, D : Tidy(fs, ch, D)
  BY DEF VolumeInv, FatInv
<1>2. PICK path : path = Absolute(input)
  OBVIOUS
<1>3. PICK node : node = ResolvePath(fs, path)
  OBVIOUS
<1>4. /\ Found(node) /\ ~node.entry.dir /\ fs' = fs /\ shown' = <<>>
      /\ cmd' = Command(op, node.entry, node.place)
  BY <1>2, <1>3 DEF OpenExisting
<1>5. HasParent(fs, path) /\ \E x \in Live(fs, ch, D) : node = NodeAt(fs, x)
  BY <1>1, <1>2, <1>3, <1>4, FoundIs DEF VolumeInv
<1>6. PICK x \in Live(fs, ch, D) : node = NodeAt(fs, x)
  BY <1>5
<1>7. node.entry = At(fs, x) /\ node.place = x
  BY <1>6, NodeAtIs
<1>8. PICK p0 : IsNamePath(fs, path, p0)
  BY <1>1, <1>2, <1>5, CommandPath DEF VolumeInv
<1>9. p0 \in Paths /\ ResolvePath(fs, p0) = NodeAt(fs, x)
  BY <1>3, <1>6, <1>8 DEF IsNamePath
<1>10. /\ Tidy(fs', ch, D) /\ x \in Live(fs', ch, D) /\ ~At(fs', x).dir
       /\ ResolvePath(fs', p0) = NodeAt(fs', x) /\ cmd' = Command(op, At(fs', x), x)
  BY <1>1, <1>4, <1>6, <1>7, <1>9
<1>11. CmdInv'
  BY <1>4, <1>9, <1>10, CommandTakes
<1>12. QED
  BY <1>4, <1>11, NothingHappens DEF VolumeInv

(* The file that was created is removed again: nothing has changed. *)
LEMMA CreateUndone ==
    ASSUME NEW ch, NEW D, Tidy(fs, ch, D), NEW path, NEW p0, IsNamePath(fs, path, p0),
           NEW n \in Names, n = Last(path), NEW d, d = ResolveParent(fs, path).start,
           Named(fs, d, n) = {}, NEW r, CreateStepMakes(fs, ch, D, r, p0, n, FALSE),
           NEW u, u = RemoveEntry(r.s, r.place)
    PROVE  \E ch2, D2 : StepTo(fs, ch, D, u, ch2, D2, Paths)
<1>1. PICK x : x = r.place
  OBVIOUS
<1>2. PICK ch1, D1 : /\ StepTo(fs, ch, D, r.s, ch1, D1, Paths \ {p0})
                     /\ Accounted(fs, ch, r.s, ch1)
                     /\ NewPath(r.s, ch1, D1, x, p0, n, FALSE)
  BY <1>1 DEF CreateStepMakes
<1>3. Tidy(r.s, ch1, D1) /\ Keeps(fs, r.s, Paths \ {p0})
  BY <1>2 DEF StepTo
<1>4. x \in Live(r.s, ch1, D1) /\ ResolvePath(r.s, p0) = NodeAt(r.s, x) /\ At(r.s, x).dir = FALSE
  BY <1>2 DEF NewPath
<1>5. p0 \in Paths /\ p0 # <<>> /\ Removable(r.s, At(r.s, x))
  BY <1>4 DEF IsNamePath, Removable
<1>6. RemoveStepDone(r.s, ch1, D1, u, p0)
  BY <1>1, <1>3, <1>4, <1>5, RemoveStep
<1>7. PICK ch2, D2 : /\ StepTo(r.s, ch1, D1, u, ch2, D2, Paths \ {p0})
                     /\ Accounted(r.s, ch1, u, ch2) /\ ResolvePath(u, p0) = Nothing
  BY <1>6 DEF RemoveStepDone
<1>8. Tidy(u, ch2, D2) /\ Keeps(r.s, u, Paths \ {p0})
  BY <1>7 DEF StepTo
<1>9. Keeps(fs, u, Paths \ {p0})
  BY <1>3, <1>8, KeepsTwice
<1>10. KeepsPath(fs, u, p0)
  <2>1. ResolvePath(fs, p0) = Nothing
    BY FreePath DEF Tidy
  <2>2. QED
    BY <1>7, <2>1, ViewNothing DEF KeepsPath
<1>11. Keeps(fs, u, Paths)
  BY <1>9, <1>10 DEF Keeps
<1>12. Accounted(fs, ch, u, ch2)
  BY <1>2, <1>7, AccountedTwice
<1>13. StepTo(fs, ch, D, u, ch2, D2, Paths)
  BY <1>8, <1>11, <1>12 DEF StepTo
<1>14. QED
  BY <1>13

LEMMA OpenCreateDoes ==
    ASSUME VolumeInv, NEW input \in Inputs, Depth(Absolute(input)) <= MaxDepth,
           NEW op \in {"touch", "cat", "write"}, OpenCreate(input, op)
    PROVE  Outcome
<1>1. PICK ch, D : Tidy(fs, ch, D)
  BY DEF VolumeInv, FatInv
<1>2. PICK path : path = Absolute(input)
  OBVIOUS
<1>3. PICK n \in Names : n = Last(path)
  BY <1>1, <1>2, FoundIs DEF VolumeInv
<1>4. PICK d : d = ResolveParent(fs, path).start
  OBVIOUS
<1>5. PICK r : r = CreateEntry(fs, d, n, FALSE)
  OBVIOUS
<1>6. /\ cmd = Idle /\ ~Found(ResolvePath(fs, path)) /\ HasParent(fs, path) /\ shown' = <<>>
      /\ \/ r.ok /\ fs' = r.s /\ cmd' = Command(op, At(r.s, r.place), r.place)
         \/ r.ok /\ fs' = RemoveEntry(r.s, r.place) /\ cmd' = cmd
         \/ ~r.ok /\ fs' = r.s /\ cmd' = cmd
  BY <1>2, <1>3, <1>4, <1>5 DEF OpenCreate
<1>7. Named(fs, d, n) = {}
  BY <1>1, <1>2, <1>3, <1>4, <1>6, FoundIs DEF VolumeInv
<1>8. PICK p0 : IsNamePath(fs, path, p0)
  BY <1>1, <1>2, <1>6, CommandPath DEF VolumeInv
<1>9. CreateStepFails(fs, ch, D, r) \/ CreateStepMakes(fs, ch, D, r, p0, n, FALSE)
  BY <1>1, <1>3, <1>4, <1>5, <1>7, <1>8, CreateStep
<1>10. CASE ~r.ok
  <2>1. CreateStepFails(fs, ch, D, r) /\ fs' = r.s /\ cmd' = Idle
    BY <1>6, <1>9, <1>10 DEF CreateStepMakes
  <2>2. PICK ch2, D2 : StepTo(fs, ch, D, fs', ch2, D2, Paths)
    BY <2>1 DEF CreateStepFails
  <2>3. QED
    BY <1>1, <1>6, <2>1, <2>2, NothingShows
<1>11. CASE r.ok /\ fs' = r.s /\ cmd' = Command(op, At(r.s, r.place), r.place)
  <2>1. CreateStepMakes(fs, ch, D, r, p0, n, FALSE)
    BY <1>9, <1>11 DEF CreateStepFails
  <2>2. PICK x : x = r.place
    OBVIOUS
  <2>3. PICK ch2, D2 : /\ StepTo(fs, ch, D, fs', ch2, D2, Paths \ {p0})
                       /\ NewPath(fs', ch2, D2, x, p0, n, FALSE)
    BY <1>11, <2>1, <2>2 DEF CreateStepMakes
  <2>4. FatInv' /\ LosesNothing
    BY <1>1, <2>3, StepIsSafe
  <2>5. CreatesAt(p0)
    BY <1>1, <1>3, <1>4, <1>7, <1>8, <2>3, CreationShows
  <2>6. p0 \in Paths
    BY <1>8 DEF IsNamePath
  <2>7. TreeStep
    BY <1>6, <2>3, <2>5, <2>6 DEF TreeStep, ChangesOnly, StepTo
  <2>8. Tidy(fs', ch2, D2) /\ cmd' = Command(op, At(fs', x), x)
    BY <1>11, <2>2, <2>3 DEF StepTo
  <2>9. x \in Live(fs', ch2, D2) /\ ResolvePath(fs', p0) = NodeAt(fs', x) /\ ~At(fs', x).dir
    BY <2>3 DEF NewPath
  <2>10. CmdInv'
    BY <1>6, <2>6, <2>8, <2>9, CommandTakes
  <2>11. QED
    BY <2>4, <2>7, <2>10 DEF Outcome
<1>12. CASE r.ok /\ fs' = RemoveEntry(r.s, r.place) /\ cmd' = cmd
  <2>1. CreateStepMakes(fs, ch, D, r, p0, n, FALSE)
    BY <1>9, <1>12 DEF CreateStepFails
  <2>2. PICK u : u = RemoveEntry(r.s, r.place)
    OBVIOUS
  <2>3. \E ch2, D2 : StepTo(fs, ch, D, u, ch2, D2, Paths)
    BY <1>1, <1>3, <1>4, <1>7, <1>8, <2>1, <2>2, CreateUndone
  <2>4. PICK ch2, D2 : StepTo(fs, ch, D, fs', ch2, D2, Paths)
    BY <1>12, <2>2, <2>3
  <2>5. QED
    BY <1>1, <1>6, <1>12, <2>4, NothingShows
<1>13. QED
  BY <1>6, <1>10, <1>11, <1>12

-----------------------------------------------------------------------------
(* read and write, with the handle of a command.                           *)

(* The entry that the handle was taken from. *)
LEMMA HandleIs ==
    ASSUME NEW ch, NEW D, Tidy(fs, ch, D), NEW p \in Paths, OpenOn(p)
    PROVE  \E x \in Live(fs, ch, D) :
              /\ cmd.place = x /\ ResolvePath(fs, p) = NodeAt(fs, x) /\ ~At(fs, x).dir
              /\ cmd.start = At(fs, x).start /\ cmd.size = At(fs, x).size /\ cmd.size \in Nat
              /\ HandleText = TextAt(fs, x) /\ ViewOf(fs, p) = <<"file", HandleText>>
<1>1. PICK node : node = ResolvePath(fs, p)
  OBVIOUS
<1>2. /\ node.entry # NoEntry /\ ~node.entry.dir
      /\ node.place = cmd.place /\ node.entry.start = cmd.start /\ node.entry.size = cmd.size
  BY <1>1 DEF OpenOn
<1>3. Struct(fs, ch, D) /\ p \in Seq(Names)
  BY PathNames DEF Tidy
<1>4. PICK x \in Live(fs, ch, D) : node = NodeAt(fs, x)
  BY <1>1, <1>2, <1>3, PathLeads
<1>5. node.entry = At(fs, x) /\ node.place = x
  BY <1>4, NodeAtIs
<1>6. At(fs, x) \in Entries
  BY <1>3, EntryAt DEF Live
<1>7. cmd.size \in Nat
  BY <1>2, <1>5, <1>6 DEF Entries
<1>8. HandleText = TextAt(fs, x)
  BY <1>2, <1>5 DEF HandleText, TextAt
<1>9. ViewOf(fs, p) = <<"file", HandleText>>
  BY <1>1, <1>2, <1>4, <1>5, <1>8, ViewFile
<1>10. QED
  BY <1>1, <1>2, <1>4, <1>5, <1>7, <1>8, <1>9

LEMMA LeadingNext ==
    ASSUME NEW text, NEW n \in Nat, NEW m \in Nat
    PROVE  /\ Leading(text, n) \o NextBytes(text, n, m) = Leading(text, n + m)
           /\ Len(Leading(text, n)) = n
           /\ NextBytes(text, n, m) = <<>> => m = 0
<1> DEFINE S == {text[i] : i \in 1 .. n + m}
<1>1. ASSUME NEW i \in 1 .. n PROVE text[i] \in S
  OBVIOUS
<1>2. ASSUME NEW i \in 1 .. m PROVE text[n + i] \in S
  <2>1. n + i \in 1 .. n + m
    OBVIOUS
  <2>2. QED
    BY <2>1
<1> HIDE DEF S
<1>3. Leading(text, n) \in Seq(S) /\ Len(Leading(text, n)) = n
      /\ \A i \in 1 .. n : Leading(text, n)[i] = text[i]
  BY <1>1 DEF Leading
<1>4. NextBytes(text, n, m) \in Seq(S) /\ Len(NextBytes(text, n, m)) = m
      /\ \A i \in 1 .. m : NextBytes(text, n, m)[i] = text[n + i]
  BY <1>2 DEF NextBytes
<1>5. PICK a \in Seq(S) : a = Leading(text, n)
  BY <1>3
<1>6. PICK b \in Seq(S) : b = NextBytes(text, n, m)
  BY <1>4
<1>7. /\ a \o b \in Seq(S) /\ Len(a \o b) = n + m
      /\ \A i \in 1 .. n + m : (a \o b)[i] = IF i <= n THEN a[i] ELSE b[i - n]
  BY <1>3, <1>4, <1>5, <1>6
<1>8. ASSUME NEW i \in 1 .. n + m PROVE (a \o b)[i] = text[i]
  <2>1. CASE i <= n
    BY <1>3, <1>5, <1>7, <2>1
  <2>2. CASE ~(i <= n)
    <3>1. i - n \in 1 .. m /\ n + (i - n) = i
      BY <2>2
    <3>2. b[i - n] = text[n + (i - n)]
      BY <1>4, <1>6, <3>1
    <3>3. QED
      BY <1>7, <2>2, <3>1, <3>2
  <2>3. QED
    BY <2>1, <2>2
<1>9. a \o b = Leading(text, n + m)
  <2>1. PICK c : c = a \o b /\ c \in Seq(S) /\ Len(c) = n + m
    BY <1>7
  <2>2. PICK l \in Nat : l = n + m
    OBVIOUS
  <2>3. c \in Seq(S) /\ Len(c) = l
    BY <2>1, <2>2
  <2>4. c = [i \in 1 .. l |-> c[i]]
    BY <2>3
  <2>5. c = [i \in 1 .. l |-> text[i]]
    BY <1>8, <2>1, <2>2, <2>4, Zenon
  <2>6. QED
    BY <2>1, <2>2, <2>5 DEF Leading
<1>10. b = <<>> => m = 0
  BY <1>4, <1>6
<1>11. QED
  BY <1>3, <1>5, <1>6, <1>9, <1>10

LEMMA CatReadDoes == ASSUME VolumeInv, CatRead PROVE Outcome
<1>1. PICK ch, D : Tidy(fs, ch, D)
  BY DEF VolumeInv, FatInv
<1>2. cmd.op = "cat" /\ fs' = fs
  BY DEF CatRead
<1>3. Using
  <2>1. Idle.op = "idle"
    BY DEF Idle
  <2>2. QED
    BY <1>2, <2>1 DEF VolumeInv, CmdInv
<1>4. PICK p \in Paths : OpenOn(p)
  BY <1>3 DEF Using
<1>5. PICK n \in 0 .. cmd.size : cmd.read = Leading(HandleText, n)
  BY <1>3 DEF Using
<1>6. PICK x \in Live(fs, ch, D) :
              /\ cmd.place = x /\ ResolvePath(fs, p) = NodeAt(fs, x) /\ ~At(fs, x).dir
              /\ cmd.start = At(fs, x).start /\ cmd.size = At(fs, x).size /\ cmd.size \in Nat
              /\ HandleText = TextAt(fs, x) /\ ViewOf(fs, p) = <<"file", HandleText>>
  BY <1>1, <1>4, HandleIs
<1>7. PICK q : q = Chain(fs, cmd.start)
  OBVIOUS
<1>8. q \in Seq(Clusters) /\ cmd.size <= BytesPerCluster * Len(q)
  <2>1. PICK e : e = ResolvePath(fs, p).entry
    OBVIOUS
  <2>2. Struct(fs, ch, D) /\ p \in Seq(Names \cup {".."})
    BY <1>1, PathNames DEF Tidy
  <2>3. /\ e.start = 0 \/ e.start \in DOMAIN ch
        /\ ~e.dir => e.size <= BytesPerCluster * Len(Chain(fs, e.start))
    BY <2>1, <2>2, PathChain
  <2>4. e = At(fs, x)
    BY <1>6, <2>1, NodeAtIs
  <2>5. Chain(fs, e.start) \in Seq(Clusters)
    BY <2>2, <2>3, OldChain
  <2>6. QED
    BY <1>6, <1>7, <2>3, <2>4, <2>5
<1>9. PICK text : text = HandleText /\ text = TextIn(fs, q, cmd.size)
  BY <1>7 DEF HandleText
<1>10. PICK m : m = ReadLen(cmd, n)
  OBVIOUS
<1>11. ReadIs(fs, cmd, n, text, m)
  BY <1>6, <1>7, <1>8, <1>9, <1>10, ReadGets
<1>12. /\ n \in Nat /\ m \in Nat /\ n + m \in 0 .. cmd.size /\ (m = 0 => n = cmd.size)
       /\ ReadBytes(fs, cmd, n) = NextBytes(text, n, m)
  BY <1>6, <1>11 DEF ReadIs
<1>13. /\ Leading(text, n) \o NextBytes(text, n, m) = Leading(text, n + m)
       /\ Len(Leading(text, n)) = n
       /\ NextBytes(text, n, m) = <<>> => m = 0
  BY <1>12, LeadingNext
<1>14. PICK bytes : bytes = NextBytes(text, n, m)
  OBVIOUS
<1>15. \/ cmd' = [cmd EXCEPT !.read = @ \o bytes] /\ shown' = shown
       \/ bytes = <<>> /\ shown' = cmd.read /\ cmd' = Idle
  BY <1>5, <1>9, <1>12, <1>13, <1>14 DEF CatRead
<1>16. CASE cmd' = [cmd EXCEPT !.read = @ \o bytes] /\ shown' = shown
  <2>1. PICK rd : rd = cmd.read \o bytes /\ rd = Leading(text, n + m)
    BY <1>5, <1>9, <1>13, <1>14
  <2>2. cmd' = [op |-> cmd.op, start |-> cmd.start, size |-> cmd.size, place |-> cmd.place, read |-> rd]
    BY <1>3, <1>16, <2>1 DEF Using, Handle
  <2>3. /\ cmd'.op = cmd.op /\ cmd'.start = cmd.start /\ cmd'.size = cmd.size
        /\ cmd'.place = cmd.place /\ cmd'.read = rd
    BY <2>2
  <2>4. cmd' = Handle'
    BY <2>2, <2>3 DEF Handle
  <2>5. OpenOn(p)'
    BY <1>2, <1>4, <2>3 DEF OpenOn
  <2>6. HandleText' = text
    BY <1>2, <1>9, <2>3 DEF HandleText
  <2>7. n + m \in 0 .. cmd'.size /\ cmd'.read = Leading(HandleText', n + m)
    BY <1>12, <2>1, <2>3, <2>6
  <2>8. Using'
    BY <1>2, <1>3, <1>16, <2>3, <2>4, <2>5, <2>7 DEF Using
  <2>9. CmdInv'
    BY <2>8 DEF CmdInv
  <2>10. QED
    BY <1>2, <1>16, <2>9, NothingHappens DEF VolumeInv
<1>17. CASE bytes = <<>> /\ shown' = cmd.read /\ cmd' = Idle
  <2>1. n = cmd.size
    BY <1>12, <1>13, <1>14, <1>17
  <2>2. Leading(text, cmd.size) = text
    BY <1>9 DEF Leading, TextIn
  <2>3. ViewOf(fs, p) = <<"file", shown'>>
    BY <1>5, <1>6, <1>9, <1>17, <2>1, <2>2
  <2>4. Keeps(fs, fs', Paths)
    BY <1>2 DEF Keeps, KeepsPath
  <2>5. TreeStep
    BY <2>3, <2>4 DEF TreeStep, Prints
  <2>6. CmdInv'
    BY <1>17 DEF CmdInv
  <2>7. FatInv' /\ LosesNothing
    <3>1. Tidy(fs', ch, D)
      BY <1>1, <1>2
    <3>2. QED
      BY <1>2, <3>1 DEF FatInv, LosesNothing
  <2>8. QED
    BY <2>5, <2>6, <2>7 DEF Outcome
<1>18. QED
  BY <1>15, <1>16, <1>17

LEMMA WriteDoes == ASSUME VolumeInv, NEW text \in Texts, Write(text) PROVE Outcome
<1>1. PICK ch, D : Tidy(fs, ch, D)
  BY DEF VolumeInv, FatInv
<1>2. cmd.op = "write" /\ cmd' = Idle /\ shown' = shown
  BY DEF Write
<1>3. Using
  <2>1. Idle.op = "idle"
    BY DEF Idle
  <2>2. QED
    BY <1>2, <2>1 DEF VolumeInv, CmdInv
<1>4. PICK p \in Paths : OpenOn(p)
  BY <1>3 DEF Using
<1>5. PICK x \in Live(fs, ch, D) :
              /\ cmd.place = x /\ ResolvePath(fs, p) = NodeAt(fs, x) /\ ~At(fs, x).dir
              /\ cmd.start = At(fs, x).start /\ cmd.size = At(fs, x).size /\ cmd.size \in Nat
              /\ HandleText = TextAt(fs, x) /\ ViewOf(fs, p) = <<"file", HandleText>>
  BY <1>1, <1>4, HandleIs
<1>6. PICK ch1, D1 : Wrote(fs, ch, D, x, text, fs', ch1, D1)
  <2>1. Struct(fs, ch, D) /\ Differ(fs, ch, D)
    BY <1>1 DEF Tidy
  <2>2. cmd.place \in Live(fs, ch, D) /\ ~At(fs, cmd.place).dir
        /\ At(fs, cmd.place).start = cmd.start
    BY <1>5
  <2>3. \E ch1, D1 : Wrote(fs, ch, D, cmd.place, text, fs', ch1, D1)
    BY <2>1, <2>2, WriteReworks
  <2>4. QED
    BY <1>5, <2>3
<1>7. WriteStepDone(fs, ch, D, fs', x, p, text)
  BY <1>1, <1>5, <1>6, WriteStep
<1>8. PICK ch2, D2 :
         /\ StepTo(fs, ch, D, fs', ch2, D2, Paths \ {p})
         /\ Struct(fs', ch2, D2) /\ x \in Live(fs', ch2, D2) /\ ~At(fs', x).dir
         /\ ResolvePath(fs', p) = NodeAt(fs', x)
         /\ \/ TextAt(fs', x) = text
            \/ \E n \in 0 .. Len(text) : TextAt(fs', x) = Partly(fs, x, text, n)
  BY <1>7 DEF WriteStepDone
<1>9. FatInv' /\ LosesNothing
  BY <1>1, <1>8, StepIsSafe
<1>10. ViewOf(fs', p) = <<"file", TextAt(fs', x)>>
  BY <1>8, ViewFile
<1>11. PICK old : old = TextAt(fs, x) /\ ViewOf(fs, p) = <<"file", old>>
  BY <1>5
<1>12. Len(old) = At(fs, x).size
  <2>1. At(fs, x).size \in Nat
    BY <1>5
  <2>2. QED
    BY <1>11, <2>1 DEF TextAt, TextIn
<1>13. ASSUME NEW n PROVE Partly(fs, x, text, n) = LeadingOf(text, n, old)
  BY <1>11, <1>12 DEF Partly, LeadingOf
<1>14. WritesOver(p, text, old)
  BY <1>8, <1>10, <1>11, <1>13 DEF WritesOver
<1>15. shown' = <<>>
  BY <1>2, <1>3 DEF Using
<1>16. TreeStep
  <2>1. WritesAt(p)
    BY <1>14 DEF WritesAt
  <2>2. QED
    BY <1>8, <1>15, <2>1 DEF TreeStep, ChangesOnly, StepTo
<1>17. CmdInv'
  BY <1>2 DEF CmdInv
<1>18. QED
  BY <1>9, <1>16, <1>17 DEF Outcome

-----------------------------------------------------------------------------
(* Every step.                                                             *)

LEMMA CwdKeeps == ASSUME VolumeInv, [Next]_vars PROVE CwdInv'
<1>1. CASE cwd' = cwd
  BY <1>1 DEF VolumeInv, CwdInv
<1>2. ASSUME NEW input \in Inputs, Cd(input) PROVE CwdInv'
  <2>1. Absolute(input) \in Seq(Names \cup {".."})
    BY PathOfInput DEF VolumeInv
  <2>2. QED
    BY <1>2, <2>1 DEF Cd, CwdInv
<1>3. CASE CdUp
  <2>1. cwd \in Seq(Names \cup {".."}) /\ cwd # <<>> /\ cwd' = SubSeq(cwd, 1, Len(cwd) - 1)
    BY <1>3 DEF CdUp, Front, VolumeInv, CwdInv
  <2>2. QED
    BY <2>1 DEF CwdInv
<1>4. CASE CdRoot
  BY <1>4 DEF CdRoot, CwdInv
<1>5. QED
  BY <1>1, <1>2, <1>3, <1>4
  DEF Next, vars, Mkdir, RemovePath, OpenExisting, OpenCreate, CatRead, Write

LEMMA CdDoes == ASSUME VolumeInv, fs' = fs, cmd = Idle, cmd' = cmd, shown' = <<>> PROVE Outcome
<1>1. CmdInv'
  BY DEF CmdInv
<1>2. QED
  BY <1>1, NothingHappens DEF VolumeInv

LEMMA StutterDoes == ASSUME VolumeInv, UNCHANGED vars PROVE Outcome
<1>1. fs' = fs /\ cmd' = cmd /\ shown' = shown
  BY DEF vars
<1>2. CmdInv'
  BY <1>1 DEF VolumeInv, CmdInv, Using, Handle, OpenOn, HandleText
<1>3. QED
  BY <1>1, <1>2, NothingHappens DEF VolumeInv

LEMMA EveryStep == ASSUME VolumeInv, [Next]_vars PROVE Outcome
<1>1. ASSUME NEW input \in Inputs, Depth(Absolute(input)) <= MaxDepth,
             \/ Mkdir(input) \/ RemovePath(input) \/ Cd(input)
             \/ \E op \in {"touch", "cat", "write"} :
                   OpenExisting(input, op) \/ OpenCreate(input, op)
      PROVE  Outcome
  <2>1. CASE Mkdir(input)
    BY <1>1, <2>1, MkdirDoes
  <2>2. CASE RemovePath(input)
    BY <1>1, <2>2, RemovePathDoes
  <2>3. CASE Cd(input)
    BY <2>3, CdDoes DEF Cd
  <2>4. ASSUME NEW op \in {"touch", "cat", "write"}, OpenExisting(input, op) PROVE Outcome
    BY <1>1, <2>4, OpenExistingDoes
  <2>5. ASSUME NEW op \in {"touch", "cat", "write"}, OpenCreate(input, op) PROVE Outcome
    BY <1>1, <2>5, OpenCreateDoes
  <2>6. QED
    BY <1>1, <2>1, <2>2, <2>3, <2>4, <2>5
<1>2. CASE CatRead
  BY <1>2, CatReadDoes
<1>3. ASSUME NEW text \in Texts, Write(text) PROVE Outcome
  BY <1>3, WriteDoes
<1>4. CASE CdUp
  BY <1>4, CdDoes DEF CdUp
<1>5. CASE CdRoot
  BY <1>5, CdDoes DEF CdRoot
<1>6. CASE UNCHANGED vars
  BY <1>6, StutterDoes
<1>7. QED
  BY <1>1, <1>2, <1>3, <1>4, <1>5, <1>6 DEF Next

LEMMA VolumeNext == VolumeInv /\ [Next]_vars => VolumeInv'
<1> SUFFICES ASSUME VolumeInv, [Next]_vars PROVE VolumeInv'
  OBVIOUS
<1>1. CwdInv' /\ Outcome
  BY CwdKeeps, EveryStep
<1>2. QED
  BY <1>1 DEF VolumeInv, Outcome

LEMMA VolumeAlways == Spec => []VolumeInv
BY VolumeInit, VolumeNext, PTL DEF Spec

(* No sequence of commands cross-links the FAT: no cluster belongs to two  *)
(* files or directories, none in use is free, and every chain ends         *)
(* (createEntry, removeEntry, write, allocateCluster and freeChain).       *)
THEOREM FatNeverCrossLinks == Spec => []ChainsSeparate
<1>1. VolumeInv => ChainsSeparate
  BY ChainsFromStruct DEF VolumeInv, FatInv, Tidy
<1>2. QED
  BY <1>1, VolumeAlways, PTL

(* The chain of a file holds the bytes that its entry promises, also after *)
(* a write for which the volume was too full.                              *)
THEOREM FilesAreBacked == Spec => []SizeIsBacked
<1>1. VolumeInv => SizeIsBacked
  BY SizesFromStruct DEF VolumeInv, FatInv, Tidy
<1>2. QED
  BY <1>1, VolumeAlways, PTL

(* A command loses clusters only when it takes the last ones of the volume *)
(* (createEntry, removeEntry and the tail that write frees give back or    *)
(* link every cluster; write on a full volume does not).                   *)
THEOREM ClustersAreKept == Spec => LeaksOnlyWhenFull
<1>1. VolumeInv /\ [Next]_vars => [FreeClusters(fs)' # {} => Lost' \subseteq Lost]_fs
  <2> SUFFICES ASSUME VolumeInv, [Next]_vars
               PROVE  FreeClusters(fs') # {} => Lost' \subseteq Lost
    OBVIOUS
  <2>1. LosesNothing
    BY EveryStep DEF Outcome
  <2>2. Lost = LostOf(fs) /\ Lost' = LostOf(fs')
    BY DEF Lost, LostOf, ChainOf, EntryOf
  <2>3. QED
    BY <2>1, <2>2 DEF LosesNothing
<1>2. QED
  BY <1>1, VolumeAlways, PTL DEF Spec, LeaksOnlyWhenFull

-----------------------------------------------------------------------------
(* The tree of files.                                                      *)

LEMMA NodeEntry ==
    ASSUME NEW s, NEW ch, NEW D, Struct(s, ch, D), NEW node \in GoodNodes(s, ch, D)
    PROVE  node.entry \in Entries
<1>1. CASE node = Nothing
  BY <1>1, NothingIs, EntryTypes
<1>2. ASSUME NEW c \in D, node = Directory(c) PROVE node.entry \in Entries
  <2>1. c \in Clusters
    BY DEF Struct, Layout, Dirs
  <2>2. DirEntry("..", TRUE, c) \in Entries
    BY <2>1, EntryTypes
  <2>3. QED
    BY <1>2, <2>2 DEF Directory
<1>3. ASSUME NEW x \in Live(s, ch, D), node = NodeAt(s, x) PROVE node.entry \in Entries
  BY <1>3, EntryAt, NodeAtIs DEF Live
<1>4. QED
  BY <1>1, <1>2, <1>3 DEF GoodNodes

LEMMA ContentsAre == ASSUME NEW e PROVE Contents(e) = TextIn(fs, Chain(fs, e.start), e.size)
BY DEF Contents, TextIn, Nth, Offset

LEMMA ShownIs == ASSUME NEW e \in Entries PROVE Shown[e] = View(fs, e)
<1>1. Shown = [x \in Entries |-> CASE x = NoEntry -> <<"absent">>
                                   [] x.dir -> <<"dir">>
                                   [] OTHER -> <<"file", Contents(x)>>]
  BY DEF Shown
<1>2. Shown[e] = CASE e = NoEntry -> <<"absent">>
                   [] e.dir -> <<"dir">>
                   [] OTHER -> <<"file", Contents(e)>>
  BY <1>1
<1>3. ~(e = NoEntry /\ e.dir)
  BY NoEntryIs
<1>4. Shown[e] = IF e = NoEntry THEN <<"absent">>
                 ELSE IF e.dir THEN <<"dir">> ELSE <<"file", Contents(e)>>
  BY <1>2, <1>3
<1>5. QED
  BY <1>4, ContentsAre DEF View

LEMMA TreeIs ==
    ASSUME FatInv
    PROVE  ShownTree = [p \in Paths |-> ViewOf(fs, p)]
<1>1. PICK ch, D : Struct(fs, ch, D)
  BY DEF FatInv, Tidy
<1>2. ASSUME NEW p \in Paths PROVE Shown[EntryOf(p)] = ViewOf(fs, p)
  <2>1. ResolvePath(fs, p) \in GoodNodes(fs, ch, D)
    BY <1>1, PathNames, ResolvedIs
  <2>2. EntryOf(p) \in Entries
    BY <1>1, <2>1, NodeEntry DEF EntryOf
  <2>3. QED
    BY <2>2, ShownIs DEF EntryOf, ViewOf
<1>3. QED
  BY <1>2 DEF ShownTree

(* Steps on the views of the paths are steps of the tree. *)
LEMMA KeptTree ==
    ASSUME ShownTree = [p \in Paths |-> ViewOf(fs, p)],
           ShownTree' = [p \in Paths |-> ViewOf(fs', p)]
    PROVE  /\ Keeps(fs, fs', Paths) => ShownTree' = ShownTree
           /\ \A p \in Paths : ShownTree[p] = ViewOf(fs, p) /\ ShownTree'[p] = ViewOf(fs', p)
           /\ \A p \in Paths : Keeps(fs, fs', Paths \ {p}) =>
                 \A q \in Paths \ {p} : ShownTree'[q] = ShownTree[q]
<1>1. Keeps(fs, fs', Paths) => ShownTree' = ShownTree
  BY DEF Keeps, KeepsPath
<1>2. \A p \in Paths : ShownTree[p] = ViewOf(fs, p) /\ ShownTree'[p] = ViewOf(fs', p)
  OBVIOUS
<1>3. QED
  BY <1>1, <1>2 DEF Keeps, KeepsPath

LEMMA TreeNext ==
    ASSUME ShownTree = [p \in Paths |-> ViewOf(fs, p)],
           ShownTree' = [p \in Paths |-> ViewOf(fs', p)], TreeStep
    PROVE  [Tree!Next]_<<ShownTree, shown>>
<1>1. /\ Keeps(fs, fs', Paths) => ShownTree' = ShownTree
      /\ \A p \in Paths : ShownTree[p] = ViewOf(fs, p) /\ ShownTree'[p] = ViewOf(fs', p)
      /\ \A p \in Paths : Keeps(fs, fs', Paths \ {p}) =>
            \A q \in Paths \ {p} : ShownTree'[q] = ShownTree[q]
  BY KeptTree
<1>2. CASE NoChange
  <2>1. ShownTree' = ShownTree /\ (shown' = <<>> \/ shown' = shown)
    BY <1>1, <1>2 DEF NoChange
  <2>2. CASE shown' = <<>>
    <3>1. Tree!Silent
      BY <2>1, <2>2 DEF Tree!Silent
    <3>2. QED
      BY <3>1 DEF Tree!Next
  <2>3. CASE shown' = shown
    BY <2>1, <2>3
  <2>4. QED
    BY <2>1, <2>2, <2>3
<1>3. ASSUME NEW p \in Paths, Prints(p) PROVE Tree!Next
  <2>1. ShownTree' = ShownTree /\ ShownTree[p] = <<"file", shown'>>
    BY <1>1, <1>3 DEF Prints
  <2>2. ShownTree[p][1] = "file" /\ ShownTree[p][2] = shown'
    BY <2>1
  <2>3. Tree!Cat(p)
    BY <2>1, <2>2 DEF Tree!Cat, Tree!IsFile
  <2>4. QED
    BY <2>3 DEF Tree!Next
<1>4. ASSUME NEW p \in Paths, ChangesOnly(p) PROVE Tree!Next
  <2>1. shown' = <<>> /\ Tree!OthersKept(p)
    BY <1>1, <1>4 DEF ChangesOnly, Tree!OthersKept
  <2>2. ShownTree[p] = ViewOf(fs, p) /\ ShownTree'[p] = ViewOf(fs', p)
    BY <1>1
  <2>3. ASSUME CreatesAt(p) PROVE Tree!Create(p)
    <3>1. PICK up : up = Above(p) /\ up \in Paths
      BY <2>3 DEF CreatesAt
    <3>2. ShownTree[up] = <<"dir">> /\ ShownTree[p] = <<"absent">> /\ p # <<>>
      BY <1>1, <2>3, <3>1 DEF CreatesAt
    <3>3. ShownTree'[p] = <<"dir">> \/ ShownTree'[p] = <<"file", <<>> >>
      BY <2>2, <2>3 DEF CreatesAt
    <3>4. Tree!Parent(p) = up
      BY <3>1 DEF Above, Tree!Parent
    <3>5. QED
      BY <3>2, <3>3, <3>4
      DEF Tree!Create, Tree!Put, Tree!Dir, Tree!Absent, Tree!File
  <2>4. ASSUME RemovesAt(p) PROVE Tree!Remove(p)
    <3>1. p # <<>> /\ ShownTree[p] # <<"absent">> /\ ShownTree'[p] = <<"absent">>
      BY <2>2, <2>4 DEF RemovesAt
    <3>2. ASSUME NEW q \in Paths, q # <<>>, Tree!Parent(q) = p PROVE ShownTree[q] = <<"absent">>
      BY <1>1, <2>4, <3>2 DEF RemovesAt, Above, Tree!Parent
    <3>3. Tree!Children(p) = {}
      BY <3>2 DEF Tree!Children, Tree!Absent
    <3>4. QED
      BY <3>1, <3>3 DEF Tree!Remove, Tree!Put, Tree!Absent
  <2>5. ASSUME NEW text \in Texts, NEW old, WritesOver(p, text, old)
        PROVE  Tree!Write(p, text) \/ Tree!WriteFails(p, text)
    <3>1. ShownTree[p] = <<"file", old>>
      BY <2>2, <2>5 DEF WritesOver
    <3>2. ShownTree[p][1] = "file" /\ ShownTree[p][2] = old
      BY <3>1
    <3>3. CASE ShownTree'[p] = <<"file", text>>
      BY <3>2, <3>3 DEF Tree!Write, Tree!IsFile, Tree!Put, Tree!File
    <3>4. ASSUME NEW n \in 0 .. Len(text), ShownTree'[p] = <<"file", LeadingOf(text, n, old)>>
          PROVE  Tree!WriteFails(p, text)
      BY <3>2, <3>4 DEF Tree!WriteFails, Tree!IsFile, Tree!Put, Tree!File, LeadingOf
    <3>5. QED
      BY <2>2, <2>5, <3>3, <3>4 DEF WritesOver
  <2>6. CreatesAt(p) \/ RemovesAt(p) \/ WritesAt(p)
    BY <1>4 DEF ChangesOnly
  <2>7. \/ Tree!Create(p) \/ Tree!Remove(p)
        \/ \E text \in Texts : Tree!Write(p, text) \/ Tree!WriteFails(p, text)
    BY <2>3, <2>4, <2>5, <2>6 DEF WritesAt
  <2>8. QED
    BY <2>1, <2>7 DEF Tree!Next
<1>5. QED
  BY <1>2, <1>3, <1>4 DEF TreeStep

LEMMA TreeInit == Init => Tree!Init
<1> SUFFICES ASSUME Init PROVE Tree!Init
  OBVIOUS
<1>1. VolumeInv
  BY VolumeInit
<1>2. PICK ch, D : Tidy(fs, ch, D)
  BY <1>1 DEF VolumeInv, FatInv
<1>3. ShownTree = [p \in Paths |-> ViewOf(fs, p)]
  BY <1>1, TreeIs DEF VolumeInv
<1>4. PICK root : root = <<>> /\ root \in Paths
  BY RootPath
<1>5. ViewOf(fs, root) = <<"dir">>
  <2>1. ResolvePath(fs, root) = Directory(Root)
    BY <1>2, <1>4, ResolveNone DEF Tidy
  <2>2. QED
    BY <2>1, DirectoryIs, ViewDir
<1>6. ASSUME NEW p \in Paths, p # <<>> PROVE ViewOf(fs, p) = <<"absent">>
  <2>1. p \in Seq(Names)
    BY PathNames
  <2>2. PICK m \in Nat : m = Len(p) /\ m >= 1
    BY <1>6, <2>1
  <2>3. SubSeq(p, 1, m - 1) \in Seq(Names) /\ p[m] \in Names
        /\ p = Append(SubSeq(p, 1, m - 1), p[m])
    BY <2>1, <2>2
  <2>4. PICK up \in Seq(Names), n \in Names : p = Append(up, n)
    BY <2>3
  <2>5. ASSUME NEW d \in D PROVE Named(fs, d, n) = {}
    <3>1. ASSUME NEW x \in Slots(fs, d) PROVE At(fs, x).name # n
      <4>1. x[1] \in Clusters /\ x[2] \in 1 .. EntriesPerCluster /\ fs.data[x[1]] \in SlotTable
        <5>1. Struct(fs, ch, D)
          BY <1>2 DEF Tidy
        <5>2. x \in DirSlots(ch, D)
          BY <5>1, SlotsOfDir
        <5>3. x \in Slot /\ fs.data[x[1]] \in SlotTable
          BY <5>1, <5>2, EntryAt
        <5>4. QED
          BY <5>3 DEF Slot
      <4>2. x[1] = Root
        <5>1. x[1] \in Range(Chain(fs, d))
          BY DEF Slots
        <5>2. fs.data = [c \in Clusters |-> IF c = Root THEN EmptySlots ELSE Stale]
          BY DEF Init
        <5>3. CASE x[1] # Root
          <6>1. fs.fat[x[1]] = 0
            BY <4>1, <5>3 DEF Init, FREE
          <6>2. Struct(fs, ch, D) /\ d \in DOMAIN ch
            BY <1>2 DEF Tidy, Struct, Dirs
          <6>3. Chain(fs, d) = ch[d] /\ Linked(fs, ch[d])
            BY <6>2, ChainOfHead DEF Struct, Layout
          <6>4. x[1] \in FreeClusters(fs)
            BY <4>1, <6>1 DEF FreeClusters, FREE
          <6>5. QED
            BY <5>1, <6>3, <6>4, FreeIsOutside
        <5>4. QED
          BY <5>3
      <4>3. At(fs, x) = NoEntry
        BY <4>1, <4>2, Sizes DEF At, Init, EmptySlots
      <4>4. QED
        BY <4>3, NoEntryIs, NamesAreReal
    <3>2. QED
      BY <3>1 DEF Named
  <2>6. ResolvePath(fs, up).entry.dir => ResolvePath(fs, up).entry.start \in D
    <3>1. Struct(fs, ch, D) /\ up \in Seq(Names \cup {".."})
      BY <1>2 DEF Tidy
    <3>2. PICK node : node = ResolvePath(fs, up) /\ node \in GoodNodes(fs, ch, D)
      BY <3>1, ResolvedIs
    <3>3. node.entry.dir => node.entry.start \in D
      BY <3>1, <3>2, NodeFacts
    <3>4. QED
      BY <3>2, <3>3
  <2>7. ResolvePath(fs, Append(up, n)) = Nothing
    BY <1>2, <2>5, <2>6, NothingUnder DEF Tidy
  <2>8. QED
    BY <2>4, <2>7, ViewNothing
<1>7. ShownTree = [p \in Paths |-> IF p = <<>> THEN <<"dir">> ELSE <<"absent">>]
  BY <1>3, <1>4, <1>5, <1>6
<1>8. shown = <<>>
  BY DEF Init
<1>9. QED
  BY <1>7, <1>8 DEF Tree!Init, Tree!Dir, Tree!Absent

(* The volume implements a tree of files: a command changes the path that  *)
(* it is given and no other, cat prints what was written, and a write for  *)
(* which the volume is too full damages no more than leading bytes of its  *)
(* own file (createEntry, removeEntry, open, read and write).              *)
THEOREM VolumeIsTree == Spec => ImplementsFileTree
<1>1. FatInv => ShownTree = [p \in Paths |-> ViewOf(fs, p)]
  BY TreeIs
<1>2. (FatInv => ShownTree = [p \in Paths |-> ViewOf(fs, p)])'
  BY <1>1, PTL
<1>3. VolumeInv /\ [Next]_vars => [Tree!Next]_<<ShownTree, shown>>
  <2> SUFFICES ASSUME VolumeInv, [Next]_vars PROVE [Tree!Next]_<<ShownTree, shown>>
    OBVIOUS
  <2>1. FatInv /\ FatInv' /\ TreeStep
    BY EveryStep DEF Outcome, VolumeInv
  <2>2. ShownTree' = [p \in Paths |-> ViewOf(fs', p)]
    BY <1>2, <2>1 DEF ViewOf
  <2>3. QED
    BY <1>1, <2>1, <2>2, TreeNext
<1>4. QED
  BY <1>3, TreeInit, VolumeAlways, PTL DEF Spec, ImplementsFileTree, Tree!Spec
=============================================================================
