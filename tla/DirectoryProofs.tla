-------------------------- MODULE DirectoryProofs ---------------------------
(***************************************************************************)
(* FAT32 directories, for every size of clusters and of the volume.  That  *)
(* nothing lies behind the end holds for all names; that a directory is a  *)
(* set of names holds for names with at most one long-name entry.          *)
(***************************************************************************)
EXTENDS Directory, LoopTheorems, TLAPS

States == {"live", "deleted", "end"}
Kinds == {"short", "lfn", "hidden", "none"}
Entries == [state : States, kind : Kinds, text : (Names \X Int) \cup {<<>>}]

Typed == dir \in Seq(Entries) /\ free \in Nat

(* NothingBehindEnd, for a chain that is being written. *)
EndIsLast(d) ==
    \A i, j \in 1 .. Len(d) : i < j /\ d[i].state = "end" => d[j].state # "live"

(* The inductive invariant that needs no assumption about names. *)
ChainInv == Typed /\ NothingBehindEnd

-----------------------------------------------------------------------------
(* Sequences and entries.                                                  *)

(* A function that starts at 1 is a sequence. *)
LEMMA Listing ==
    ASSUME NEW S, NEW m \in Nat, NEW f \in [1 .. m -> S]
    PROVE  f \in Seq(S) /\ Len(f) = m
OBVIOUS

(* The entries that the operations write have the type of entries. *)
LEMMA EntryTypes ==
    /\ End \in Entries /\ End.state = "end" /\ Hidden \in Entries
    /\ \A e \in Entries : /\ Deleted(e) \in Entries
                          /\ Deleted(e).state = "deleted" /\ Deleted(e).kind = e.kind
    /\ \A n \in Names, k \in Int, w \in {"lfn", "short"} :
          Entry(w, <<n, k>>) \in Entries
BY DEF End, Hidden, Deleted, Entry, Entries, States, Kinds

(* The fields of an entry in use. *)
LEMMA EntryParts ==
    ASSUME NEW w, NEW t
    PROVE  Entry(w, t).state = "live" /\ Entry(w, t).kind = w /\ Entry(w, t).text = t
BY DEF Entry

(* extending the chain adds zeroed clusters behind it. *)
LEMMA GrownIs ==
    ASSUME Typed, NEW k \in Nat
    PROVE  /\ Grown(k) \in Seq(Entries) /\ Len(Grown(k)) >= Len(dir)
           /\ \A i \in 1 .. Len(dir) : Grown(k)[i] = dir[i]
           /\ \A i \in 1 .. Len(Grown(k)) : i > Len(dir) => Grown(k)[i] = End
<1> DEFINE m == k * EntriesPerCluster
           tail == [i \in 1 .. m |-> End]
<1>1. m \in Nat
  BY DirectoryAssumption
<1> HIDE DEF m
<1>2. tail \in Seq(Entries) /\ Len(tail) = m
  BY <1>1, EntryTypes, Listing
<1>3. dir \in Seq(Entries)
  BY DEF Typed
<1>4. Grown(k) = dir \o tail
  BY DEF Grown, m
<1>5. \A i \in 1 .. m : tail[i] = End
  OBVIOUS
<1> HIDE DEF tail
<1>6. QED
  BY <1>1, <1>2, <1>3, <1>4, <1>5

(* An extended chain has nothing behind its end either. *)
LEMMA GrownEnds ==
    ASSUME ChainInv, NEW k \in Nat
    PROVE  EndIsLast(Grown(k))
<1>1. EndIsLast(dir)
  BY DEF ChainInv, NothingBehindEnd, EndIsLast
<1>2. /\ Grown(k) \in Seq(Entries) /\ Len(Grown(k)) >= Len(dir)
      /\ \A i \in 1 .. Len(dir) : Grown(k)[i] = dir[i]
      /\ \A i \in 1 .. Len(Grown(k)) : i > Len(dir) => Grown(k)[i] = End
  BY GrownIs DEF ChainInv
<1>3. dir \in Seq(Entries)
  BY DEF ChainInv, Typed
<1> SUFFICES ASSUME NEW i \in 1 .. Len(Grown(k)), NEW j \in 1 .. Len(Grown(k)),
                    i < j, Grown(k)[i].state = "end"
             PROVE  Grown(k)[j].state # "live"
  BY DEF EndIsLast
<1>4. CASE j > Len(dir)
  BY <1>2, <1>4, EntryTypes
<1>5. CASE j <= Len(dir)
  <2>1. i \in 1 .. Len(dir) /\ j \in 1 .. Len(dir) /\ Len(dir) \in Nat
    BY <1>3, <1>5
  <2>2. Grown(k)[i] = dir[i] /\ Grown(k)[j] = dir[j]
    BY <2>1, <1>2
  <2>3. QED
    BY <1>1, <2>1, <2>2 DEF EndIsLast
<1>6. QED
  BY <1>3, <1>4, <1>5

-----------------------------------------------------------------------------
(* createEntry.                                                            *)

(* The first run of free entries that is long enough: no end lies before   *)
(* it, as everything behind the end is free.                               *)
RunAt(d, n, s) ==
    /\ s \in 1 .. Len(d) /\ s + LfnEntries[n] \in s .. Len(d)
    /\ \A j \in s .. s + LfnEntries[n] : d[j].state # "live"
    /\ \A i \in 1 .. s - 1 : d[i].state # "end"

(* createEntry writes into the first run. *)
LEMMA FirstRunIs ==
    ASSUME NEW d \in Seq(Entries), EndIsLast(d), NEW n \in Names, Runs(d, n) # {}
    PROVE  RunAt(d, n, FirstRun(d, n))
<1> DEFINE L == LfnEntries[n]
           s == FirstRun(d, n)
<1>1. L \in Nat /\ Len(d) \in Nat
  BY DirectoryAssumption
<1>2. Runs(d, n) = {x \in 1 .. Len(d) - L : \A j \in x .. x + L : d[j].state # "live"}
  BY DEF Runs, IsFree
<1>3. Runs(d, n) \in SUBSET Nat
  BY <1>1, <1>2
<1>4. s \in Runs(d, n) /\ \A y \in Runs(d, n) : s <= y
  BY <1>3, MinInSet DEF FirstRun
<1> HIDE DEF L, s
<1>5. s \in 1 .. Len(d) - L /\ \A j \in s .. s + L : d[j].state # "live"
  BY <1>2, <1>4
<1>6. ASSUME NEW i \in 1 .. s - 1, d[i].state = "end" PROVE FALSE
  <2>1. i \in 1 .. Len(d) - L /\ i < s
    BY <1>1, <1>5
  <2>2. ASSUME NEW j \in i .. i + L PROVE d[j].state # "live"
    <3>1. j \in 1 .. Len(d) /\ i \in 1 .. Len(d) /\ (j = i \/ i < j)
      BY <2>1, <1>1
    <3>2. QED
      BY <3>1, <1>6 DEF EndIsLast
  <2>3. i \in Runs(d, n)
    BY <1>2, <2>1, <2>2
  <2>4. QED
    BY <1>4, <2>1, <2>3, <1>1, <1>5
<1>7. s \in 1 .. Len(d) /\ s + L \in s .. Len(d)
  BY <1>1, <1>5
<1>8. QED
  BY <1>5, <1>6, <1>7 DEF RunAt, L, s

(* r is d with live entries in the slots from s on that "at" names. *)
Writes(d, r, s, at) ==
    /\ r \in Seq(Entries) /\ Len(r) = Len(d)
    /\ \A i \in 1 .. Len(d) : i \notin at => r[i] = d[i]
    /\ \A i \in at : \A j \in s .. i : j \in at
    /\ \A i \in at : i >= s /\ r[i].state = "live"

(* What is written from a run's start on leaves nothing behind the end. *)
LEMMA WritesEnd ==
    ASSUME NEW d \in Seq(Entries), EndIsLast(d), NEW n \in Names, NEW s,
           RunAt(d, n, s), NEW at \in SUBSET (1 .. Len(d)), NEW r, Writes(d, r, s, at)
    PROVE  EndIsLast(r)
<1> SUFFICES ASSUME NEW i \in 1 .. Len(r), NEW j \in 1 .. Len(r),
                    i < j, r[i].state = "end", r[j].state = "live"
             PROVE  FALSE
  BY DEF EndIsLast
<1>1. Len(r) = Len(d) /\ Len(d) \in Nat /\ s \in Nat
  BY DEF Writes, RunAt
<1>2. i \notin at
  BY DEF Writes
<1>3. r[i] = d[i]
  BY <1>1, <1>2 DEF Writes
<1>4. CASE j \notin at
  <2>1. r[j] = d[j]
    BY <1>1, <1>4 DEF Writes
  <2>2. QED
    BY <1>1, <1>3, <2>1 DEF EndIsLast
<1>5. CASE j \in at
  <2>1. j >= s /\ \A x \in s .. j : x \in at
    BY <1>5 DEF Writes
  <2>2. ~(i >= s)
    BY <2>1, <1>1, <1>2
  <2>3. i \in 1 .. s - 1
    BY <2>2, <1>1
  <2>4. QED
    BY <1>3, <2>3 DEF RunAt
<1>6. QED
  BY <1>4, <1>5

(* The chain with the LFN entries of n in the slots "at". *)
LEMMA WithLfnIs ==
    ASSUME NEW d \in Seq(Entries), NEW n \in Names, NEW s, RunAt(d, n, s),
           NEW at \in SUBSET (s .. s + LfnEntries[n] - 1),
           \A i \in at : \A j \in s .. i : j \in at
    PROVE  /\ Writes(d, WithLfn(d, n, s, at), s, at)
           /\ \A i \in at :
                 WithLfn(d, n, s, at)[i] = Entry("lfn", <<n, LfnEntries[n] - (i - s)>>)
<1> DEFINE r == WithLfn(d, n, s, at)
           L == LfnEntries[n]
<1>1. L \in Nat /\ Len(d) \in Nat /\ s \in 1 .. Len(d) /\ s + L \in s .. Len(d)
  BY DirectoryAssumption DEF RunAt
<1>2. at \subseteq 1 .. Len(d)
  BY <1>1
<1>3. r = [i \in 1 .. Len(d) |-> IF i \in at THEN Entry("lfn", <<n, L - (i - s)>>) ELSE d[i]]
  BY DEF WithLfn
<1> HIDE DEF r
<1>4. ASSUME NEW i \in at PROVE Entry("lfn", <<n, L - (i - s)>>) \in Entries
  <2>1. L - (i - s) \in Int
    BY <1>1, <1>2
  <2>2. QED
    BY <2>1, EntryTypes
<1>5. ASSUME NEW i \in 1 .. Len(d)
      PROVE  (IF i \in at THEN Entry("lfn", <<n, L - (i - s)>>) ELSE d[i]) \in Entries
  BY <1>4
<1>6. r \in [1 .. Len(d) -> Entries]
  BY <1>3, <1>5
<1>7. r \in Seq(Entries) /\ Len(r) = Len(d)
  BY <1>1, <1>6, Listing
<1>8. \A i \in 1 .. Len(d) : i \notin at => r[i] = d[i]
  BY <1>3
<1>9. \A i \in at : r[i] = Entry("lfn", <<n, L - (i - s)>>)
  BY <1>2, <1>3
<1>10. \A i \in at : i >= s /\ r[i].state = "live"
  <2>1. \A i \in at : i >= s
    BY <1>1
  <2>2. ASSUME NEW i \in at PROVE r[i].state = "live"
    <3>1. r[i] = Entry("lfn", <<n, L - (i - s)>>)
      BY <1>9
    <3>2. Entry("lfn", <<n, L - (i - s)>>).state = "live"
      BY EntryParts
    <3>3. QED
      BY <3>1, <3>2
  <2>3. QED
    BY <2>1, <2>2
<1>11. QED
  BY <1>7, <1>8, <1>9, <1>10 DEF Writes, r

(* What the chain holds after createEntry. *)
LEMMA CreatedIs ==
    ASSUME NEW d \in Seq(Entries), NEW n \in Names, NEW s, RunAt(d, n, s)
    PROVE  /\ Writes(d, Created(d, n, s), s, s .. s + LfnEntries[n])
           /\ \A i \in s .. s + LfnEntries[n] - 1 :
                 Created(d, n, s)[i] = Entry("lfn", <<n, LfnEntries[n] - (i - s)>>)
           /\ Created(d, n, s)[s + LfnEntries[n]] = Entry("short", ShortText(n))
<1> DEFINE L == LfnEntries[n]
           at == s .. s + L - 1
           w == WithLfn(d, n, s, at)
           e == Entry("short", ShortText(n))
           r == Created(d, n, s)
<1>1. L \in Nat /\ Len(d) \in Nat /\ s \in 1 .. Len(d) /\ s + L \in s .. Len(d)
  BY DirectoryAssumption DEF RunAt
<1>2. \A i \in at : \A j \in s .. i : j \in at
  BY <1>1
<1>3. /\ Writes(d, w, s, at)
      /\ \A i \in at : w[i] = Entry("lfn", <<n, L - (i - s)>>)
  <2>1. at \in SUBSET (s .. s + LfnEntries[n] - 1)
    OBVIOUS
  <2>2. QED
    BY <1>2, <2>1, WithLfnIs
<1>4. e \in Entries /\ e.state = "live"
  <2>1. ShortText(n) = <<n, 0>> \/ ShortText(n) = <<n, -1>>
    BY DEF ShortText
  <2>2. e \in Entries
    BY <2>1, EntryTypes
  <2>3. QED
    BY <2>2 DEF Entry
<1>5. r = [w EXCEPT ![s + L] = e]
  BY DEF Created
<1> HIDE DEF w, e, r
<1>6. w \in Seq(Entries) /\ Len(w) = Len(d)
  BY <1>3 DEF Writes
<1>7. w \in [1 .. Len(d) -> Entries]
  BY <1>6
<1>8. r \in [1 .. Len(d) -> Entries] /\ r[s + L] = e
        /\ \A i \in 1 .. Len(d) : i # s + L => r[i] = w[i]
  BY <1>1, <1>4, <1>5, <1>7
<1>9. r \in Seq(Entries) /\ Len(r) = Len(d)
  BY <1>1, <1>8, Listing
<1>10. \A i \in 1 .. Len(d) : i \notin s .. s + L => r[i] = d[i]
  <2> SUFFICES ASSUME NEW i \in 1 .. Len(d), i \notin s .. s + L PROVE r[i] = d[i]
    OBVIOUS
  <2>1. i # s + L /\ i \notin at
    BY <1>1
  <2>2. w[i] = d[i]
    BY <1>3, <2>1 DEF Writes
  <2>3. QED
    BY <1>8, <2>1, <2>2
<1>11. \A i \in at : r[i] = Entry("lfn", <<n, L - (i - s)>>)
  <2> SUFFICES ASSUME NEW i \in at PROVE r[i] = w[i]
    BY <1>3
  <2>1. i \in 1 .. Len(d) /\ i # s + L
    BY <1>1
  <2>2. QED
    BY <1>8, <2>1
<1>12. \A i \in s .. s + L : r[i].state = "live"
  <2> SUFFICES ASSUME NEW i \in s .. s + L PROVE r[i].state = "live"
    OBVIOUS
  <2>1. i = s + L \/ i \in at
    BY <1>1
  <2>2. ASSUME i \in at PROVE r[i].state = "live"
    <3>1. r[i] = Entry("lfn", <<n, L - (i - s)>>)
      BY <1>11, <2>2
    <3>2. Entry("lfn", <<n, L - (i - s)>>).state = "live"
      BY EntryParts
    <3>3. QED
      BY <3>1, <3>2
  <2>3. QED
    BY <2>1, <2>2, <1>4, <1>8
<1>13. \A i \in s .. s + L : \A j \in s .. i : j \in s .. s + L
  BY <1>1
<1>14. Writes(d, r, s, s .. s + L)
  BY <1>1, <1>9, <1>10, <1>12, <1>13 DEF Writes
<1>15. QED
  BY <1>8, <1>11, <1>14 DEF r, e

(* The clusters by which createEntry extends the chain. *)
LEMMA ClustersIs ==
    ASSUME Typed, NEW n \in Names, ClustersFor(dir, n) # {}
    PROVE  /\ Min(ClustersFor(dir, n)) \in 0 .. free
           /\ Runs(Grown(Min(ClustersFor(dir, n))), n) # {}
<1>1. ClustersFor(dir, n) = {k \in 0 .. free : Runs(Grown(k), n) # {}}
  BY DEF ClustersFor
<1>2. ClustersFor(dir, n) \in SUBSET Nat
  BY <1>1 DEF Typed
<1>3. Min(ClustersFor(dir, n)) \in ClustersFor(dir, n)
  BY <1>2, MinInSet
<1>4. QED
  BY <1>1, <1>3

(* Clusters are numbered in the order of their entries. *)
LEMMA ClusterOrder ==
    ASSUME NEW i \in Nat \ {0}, NEW j \in Nat \ {0}, i <= j
    PROVE  /\ ClusterOf(i) \in Nat /\ ClusterOf(j) \in Nat
           /\ ClusterOf(i) <= ClusterOf(j)
<1>1. EntriesPerCluster \in Nat \ {0} /\ i - 1 \in Nat /\ j - 1 \in Nat /\ i - 1 <= j - 1
  BY DirectoryAssumption
<1>2. ClusterOf(i) \in 0 .. ClusterOf(j)
  BY <1>1, QuotientOrder DEF ClusterOf
<1>3. ClusterOf(j) \in 0 .. ClusterOf(j)
  BY <1>1, QuotientOrder DEF ClusterOf
<1>4. QED
  BY <1>2, <1>3

(* Where createEntry writes: the first run in the chain, extended by k     *)
(* clusters.                                                               *)
Place(d, n, s) ==
    /\ \E k \in Nat : d = Grown(k)
    /\ d \in Seq(Entries) /\ EndIsLast(d) /\ RunAt(d, n, s)

(* createEntry finds such a place as soon as the clusters suffice. *)
LEMMA PlaceIs ==
    ASSUME ChainInv, NEW n \in Names, ClustersFor(dir, n) # {}
    PROVE  LET k == Min(ClustersFor(dir, n))
           IN  k \in 0 .. free /\ Place(Grown(k), n, FirstRun(Grown(k), n))
<1> DEFINE k == Min(ClustersFor(dir, n))
           d == Grown(k)
<1>1. k \in 0 .. free /\ Runs(d, n) # {} /\ free \in Nat
  BY ClustersIs DEF ChainInv, Typed
<1> HIDE DEF k
<1>2. k \in Nat
  BY <1>1
<1>3. d \in Seq(Entries) /\ EndIsLast(d)
  BY <1>2, GrownIs, GrownEnds DEF ChainInv
<1>4. RunAt(d, n, FirstRun(d, n))
  <2> HIDE DEF d
  <2>1. QED
    BY <1>1, <1>3, FirstRunIs
<1>5. Place(d, n, FirstRun(d, n))
  BY <1>2, <1>3, <1>4 DEF Place
<1>6. QED
  BY <1>1, <1>5 DEF k

(* createEntry, when all clusters it needs are there. *)
LEMMA CreateIs ==
    ASSUME ChainInv, NEW n \in Names, Create(n)
    PROVE  /\ \E d, s : Place(d, n, s) /\ dir' = Created(d, n, s)
           /\ free' \in Nat
<1> DEFINE k == Min(ClustersFor(dir, n))
           d == Grown(k)
           s == FirstRun(d, n)
<1>1. k \in 0 .. free /\ Place(d, n, s)
  BY PlaceIs DEF Create
<1>2. /\ n \in Dirs => free - k > 0
      /\ dir' = Created(d, n, s)
      /\ free' = free - k - (IF n \in Dirs THEN 1 ELSE 0)
  BY DEF Create
<1>3. free \in Nat
  BY DEF ChainInv, Typed
<1> HIDE DEF k, d, s
<1>4. free' \in Nat
  BY <1>1, <1>2, <1>3
<1>5. QED
  BY <1>1, <1>2, <1>4

(* mkdir, when the cluster for the contents is missing. *)
LEMMA CreateNoContentIs ==
    ASSUME ChainInv, NEW n \in Names, CreateNoContent(n)
    PROVE  /\ \E d, s : Place(d, n, s) /\ dir' = WithLfn(d, n, s, Before(n, s))
           /\ n \in Dirs /\ free' \in Nat
<1> DEFINE k == Min(ClustersFor(dir, n))
           d == Grown(k)
           s == FirstRun(d, n)
<1>1. Place(d, n, s)
  BY PlaceIs DEF CreateNoContent
<1>2. /\ dir' = WithLfn(d, n, s, Before(n, s))
      /\ n \in Dirs /\ free' = 0
  BY DEF CreateNoContent
<1> HIDE DEF k, d, s
<1>3. QED
  BY <1>1, <1>2

(* The slots before a cluster boundary are the first of the run. *)
LEMMA BeforeIs ==
    ASSUME NEW n \in Names, NEW d \in Seq(Entries), NEW s, RunAt(d, n, s)
    PROVE  /\ Before(n, s) \in SUBSET (s .. s + LfnEntries[n] - 1)
           /\ \A i \in Before(n, s) : \A j \in s .. i : j \in Before(n, s)
<1>1. LfnEntries[n] \in Nat /\ Len(d) \in Nat /\ s \in 1 .. Len(d)
  BY DirectoryAssumption DEF RunAt
<1>2. ASSUME NEW i \in Before(n, s), NEW j \in s .. i PROVE j \in Before(n, s)
  <2>1. i \in s .. s + LfnEntries[n] - 1 /\ ClusterOf(i) < ClusterOf(s + LfnEntries[n])
    BY DEF Before
  <2>2. /\ j \in Nat \ {0} /\ i \in Nat \ {0} /\ j <= i
        /\ s + LfnEntries[n] \in Nat \ {0} /\ i <= s + LfnEntries[n]
        /\ j \in s .. s + LfnEntries[n] - 1
    BY <1>1, <2>1
  <2>3. ClusterOf(j) <= ClusterOf(i) /\ ClusterOf(i) \in Nat /\ ClusterOf(j) \in Nat
    BY <2>2, ClusterOrder
  <2>4. ClusterOf(s + LfnEntries[n]) \in Nat
    BY <2>2, ClusterOrder
  <2>5. QED
    BY <2>1, <2>2, <2>3, <2>4 DEF Before
<1>3. QED
  BY <1>2 DEF Before

-----------------------------------------------------------------------------
(* Nothing lies behind the end.                                            *)

(* createEntry, on each of its paths. *)
LEMMA CreateChain ==
    ASSUME ChainInv, NEW n \in Names,
           Create(n) \/ CreateNoRoom(n) \/ CreateNoContent(n)
    PROVE  ChainInv'
<1>1. ASSUME NEW d \in Seq(Entries), NEW s, Place(d, n, s),
             NEW at \in SUBSET (1 .. Len(d)), Writes(d, dir', s, at)
      PROVE  dir' \in Seq(Entries) /\ NothingBehindEnd'
  <2>1. EndIsLast(dir')
    BY <1>1, WritesEnd DEF Place
  <2>2. QED
    BY <1>1, <2>1 DEF Writes, EndIsLast, NothingBehindEnd
<1>2. CASE Create(n)
  <2>1. PICK d, s : Place(d, n, s) /\ dir' = Created(d, n, s)
    BY <1>2, CreateIs
  <2>2. d \in Seq(Entries) /\ RunAt(d, n, s)
    BY <2>1 DEF Place
  <2>3. Writes(d, dir', s, s .. s + LfnEntries[n])
    BY <2>1, <2>2, CreatedIs
  <2>4. s .. s + LfnEntries[n] \in SUBSET (1 .. Len(d))
    BY <2>2, DirectoryAssumption DEF RunAt
  <2>5. free' \in Nat
    BY <1>2, CreateIs
  <2>6. QED
    BY <1>1, <2>1, <2>2, <2>3, <2>4, <2>5 DEF ChainInv, Typed
<1>3. CASE CreateNoContent(n)
  <2>1. PICK d, s : Place(d, n, s) /\ dir' = WithLfn(d, n, s, Before(n, s))
    BY <1>3, CreateNoContentIs
  <2>2. d \in Seq(Entries) /\ RunAt(d, n, s)
    BY <2>1 DEF Place
  <2>3. /\ Before(n, s) \in SUBSET (s .. s + LfnEntries[n] - 1)
        /\ \A i \in Before(n, s) : \A j \in s .. i : j \in Before(n, s)
    BY <2>2, BeforeIs
  <2>4. Writes(d, dir', s, Before(n, s))
    BY <2>1, <2>2, <2>3, WithLfnIs
  <2>5. Before(n, s) \in SUBSET (1 .. Len(d))
    <3>1. LfnEntries[n] \in Nat /\ s \in 1 .. Len(d) /\ s + LfnEntries[n] \in s .. Len(d)
      BY <2>2, DirectoryAssumption DEF RunAt
    <3>2. QED
      BY <3>1, <2>2, <2>3
  <2>6. free' \in Nat
    BY <1>3, CreateNoContentIs
  <2>7. QED
    BY <1>1, <2>1, <2>2, <2>4, <2>5, <2>6 DEF ChainInv, Typed
<1>4. CASE CreateNoRoom(n)
  <2>1. free \in Nat /\ dir' = Grown(free) /\ free' = 0
    BY <1>4 DEF CreateNoRoom, ChainInv, Typed
  <2>2. Grown(free) \in Seq(Entries) /\ EndIsLast(Grown(free))
    BY <2>1, GrownIs, GrownEnds DEF ChainInv
  <2>3. dir' \in Seq(Entries) /\ EndIsLast(dir')
    BY <2>1, <2>2
  <2>4. QED
    BY <2>1, <2>3 DEF ChainInv, Typed, NothingBehindEnd, EndIsLast
<1>5. QED
  BY <1>2, <1>3, <1>4

(* removeEntry marks entries deleted. *)
Marks(at) ==
    /\ dir' \in Seq(Entries) /\ Len(dir') = Len(dir)
    /\ \A j \in 1 .. Len(dir) : dir'[j] = IF j \in at THEN Deleted(dir[j]) ELSE dir[j]

(* What the chain holds after removeEntry. *)
LEMMA RemoveIs ==
    ASSUME Typed, NEW n \in Names, Remove(n, TRUE)
    PROVE  /\ Marks(OwnEntries(Min(Found(n))) \cup PreviousEntries(Min(Found(n))))
           /\ Found(n) # {} /\ free' \in Nat /\ out' = Result("remove", TRUE)
<1> DEFINE at == OwnEntries(Min(Found(n))) \cup PreviousEntries(Min(Found(n)))
<1>1. /\ dir' = [j \in 1 .. Len(dir) |-> IF j \in at THEN Deleted(dir[j]) ELSE dir[j]]
      /\ Found(n) # {} /\ out' = Result("remove", TRUE)
      /\ free' = free + (IF n \in Dirs THEN 1 ELSE 0)
  BY DEF Remove
<1> HIDE DEF at
<1>2. dir \in Seq(Entries) /\ free \in Nat /\ Len(dir) \in Nat
  BY DEF Typed
<1>3. ASSUME NEW j \in 1 .. Len(dir)
      PROVE  (IF j \in at THEN Deleted(dir[j]) ELSE dir[j]) \in Entries
  <2>1. dir[j] \in Entries
    BY <1>2
  <2>2. QED
    BY <2>1, EntryTypes
<1>4. dir' \in [1 .. Len(dir) -> Entries]
  BY <1>1, <1>3
<1>5. dir' \in Seq(Entries) /\ Len(dir') = Len(dir)
  BY <1>2, <1>4, Listing
<1>6. free' \in Nat
  BY <1>1, <1>2
<1>7. QED
  BY <1>1, <1>5, <1>6 DEF Marks, at

(* removeEntry moves no end. *)
LEMMA RemoveChain ==
    ASSUME ChainInv, NEW n \in Names, Remove(n, TRUE)
    PROVE  ChainInv'
<1>1. PICK at : Marks(at)
  BY RemoveIs DEF ChainInv
<1>2. dir' \in Seq(Entries) /\ free' \in Nat
  BY <1>1, RemoveIs DEF Marks, ChainInv
<1>3. ASSUME NEW j \in 1 .. Len(dir)
      PROVE  dir'[j].state = "deleted" \/ dir'[j] = dir[j]
  <2>1. dir[j] \in Entries
    BY DEF ChainInv, Typed
  <2>2. QED
    BY <2>1, <1>1, EntryTypes DEF Marks
<1>4. NothingBehindEnd'
  <2> SUFFICES ASSUME NEW i \in 1 .. Len(dir'), NEW j \in 1 .. Len(dir'),
                      i < j, dir'[i].state = "end", dir'[j].state = "live"
               PROVE  FALSE
    BY DEF NothingBehindEnd
  <2>1. i \in 1 .. Len(dir) /\ j \in 1 .. Len(dir)
    BY <1>1 DEF Marks
  <2>2. dir'[i] = dir[i] /\ dir'[j] = dir[j]
    BY <1>3, <2>1
  <2>3. QED
    BY <2>1, <2>2 DEF ChainInv, NothingBehindEnd
<1>5. QED
  BY <1>2, <1>4 DEF ChainInv, Typed

(* Every request to vfs keeps the invariant. *)
LEMMA NextChain == ChainInv /\ [Next]_vars => ChainInv'
<1> SUFFICES ASSUME ChainInv, [Next]_vars PROVE ChainInv'
  OBVIOUS
<1>1. ASSUME UNCHANGED <<dir, free>> PROVE ChainInv'
  BY <1>1 DEF ChainInv, Typed, NothingBehindEnd
<1>2. CASE UNCHANGED vars
  BY <1>1, <1>2 DEF vars
<1>3. ASSUME NEW n \in Names, Lookup(n) \/ CreateExisting(n) \/ RemoveMissing(n)
      PROVE  ChainInv'
  BY <1>1, <1>3 DEF Lookup, CreateExisting, RemoveMissing
<1>4. ASSUME NEW n \in Names, NEW empty \in BOOLEAN, Remove(n, empty)
      PROVE  ChainInv'
  <2>1. CASE empty = TRUE
    BY <1>4, <2>1, RemoveChain
  <2>2. CASE empty = FALSE
    BY <1>1, <1>4, <2>2 DEF Remove
  <2>3. QED
    BY <2>1, <2>2
<1>5. QED
  BY <1>2, <1>3, <1>4, CreateChain DEF Next

(* A new directory. *)
LEMMA InitChain == Init => ChainInv
<1> SUFFICES ASSUME Init PROVE ChainInv
  OBVIOUS
<1>1. /\ EntriesPerCluster \in Nat /\ HiddenEntries \in Nat /\ FreeClusters \in Nat
      /\ dir = [i \in 1 .. EntriesPerCluster |-> IF i <= HiddenEntries THEN Hidden ELSE End]
      /\ free = FreeClusters
  BY DirectoryAssumption DEF Init
<1>2. dir \in [1 .. EntriesPerCluster -> Entries]
  BY <1>1, EntryTypes
<1>3. dir \in Seq(Entries) /\ Len(dir) = EntriesPerCluster
  BY <1>1, <1>2, Listing
<1>4. NothingBehindEnd
  <2> SUFFICES ASSUME NEW i \in 1 .. Len(dir), NEW j \in 1 .. Len(dir),
                      i < j, dir[i].state = "end"
               PROVE  dir[j].state # "live"
    BY DEF NothingBehindEnd
  <2>1. Hidden.state = "live"
    BY DEF Hidden, Entry
  <2>2. ~(i <= HiddenEntries)
    BY <1>1, <1>3, <2>1
  <2>3. ~(j <= HiddenEntries)
    BY <1>1, <1>3, <2>2
  <2>4. QED
    BY <1>1, <1>3, <2>3, EntryTypes
<1>5. QED
  BY <1>1, <1>3, <1>4 DEF ChainInv, Typed

(* createEntry and removeEntry, for names of any length, never leave a     *)
(* live entry where readDirEntry, which stops at the end, does not look.   *)
THEOREM NothingIsHidden == Spec => []NothingBehindEnd
<1>1. ChainInv => NothingBehindEnd
  BY DEF ChainInv
<1>2. QED
  BY <1>1, InitChain, NextChain, PTL DEF Spec

-----------------------------------------------------------------------------
(* A directory is a set of names, when names have at most one LFN entry,   *)
(* those of directories none, and no name is one that nameToShort changes. *)
(* Run directory_long shows that two LFN entries are too many.             *)
PlainNames ==
    /\ Dotted = {}
    /\ \A n \in Names : LfnEntries[n] \in 0 .. 1
    /\ \A n \in Dirs : LfnEntries[n] = 0

Live(d) == {i \in 1 .. Len(d) : d[i].state = "live"}

(* The short entry of n, and its LFN entry. *)
Short(d, i, n) == i \in Live(d) /\ d[i].kind = "short" /\ d[i].text = <<n, 0>>
Piece(d, i, n) == i \in Live(d) /\ d[i].kind = "lfn" /\ d[i].text = <<n, 1>>

(* Every name that is there is there once and whole. *)
Whole(d) ==
    /\ \A i \in Live(d) : d[i].kind = "short" => \E n \in Names : Short(d, i, n)
    /\ \A i \in Live(d) : d[i].kind = "lfn" =>
          \E n \in Names : LfnEntries[n] = 1 /\ Piece(d, i, n) /\ Short(d, i + 1, n)
    /\ \A i \in Live(d), n \in Names :
          Short(d, i, n) /\ LfnEntries[n] = 1 => Piece(d, i - 1, n)
    /\ \A i, j \in Live(d), n \in Names : Short(d, i, n) /\ Short(d, j, n) => i = j

(* The names that are there. *)
Present(d) == {n \in Names : \E i \in Live(d) : Short(d, i, n)}

SetInv == ChainInv /\ Whole(dir)

(* What readDirEntry lists. *)
LEMMA ListedIs ==
    ASSUME SetInv
    PROVE  Listed = {i \in Live(dir) : dir[i].kind = "short"}
<1>1. dir \in Seq(Entries) /\ Len(dir) \in Nat
  BY DEF SetInv, ChainInv, Typed
<1>2. ASSUME NEW i \in Live(dir), NEW j \in 1 .. i PROVE dir[j].state # "end"
  <2>1. i \in 1 .. Len(dir) /\ dir[i].state = "live"
    BY DEF Live
  <2>2. j \in 1 .. Len(dir) /\ (j = i \/ j < i)
    BY <1>1, <2>1
  <2>3. QED
    BY <2>1, <2>2 DEF SetInv, ChainInv, NothingBehindEnd
<1>3. QED
  BY <1>2 DEF Listed, Visible, Live

(* The name that readDirEntry puts together. *)
LEMMA NameIs ==
    ASSUME SetInv, PlainNames, NEW n \in Names, NEW i \in Live(dir), Short(dir, i, n)
    PROVE  EntryName(i) = Text(n) /\ LfnRun(i) = LfnEntries[n]
<1>1. i \in 1 .. Len(dir) /\ Len(dir) \in Nat
  BY DEF SetInv, ChainInv, Typed, Live
<1> DEFINE S == {k \in 0 .. i - 1 :
                   \A j \in i - k .. i - 1 : dir[j].state = "live" /\ IsLfn(dir[j])}
<1>2. LfnRun(i) = Max(S)
  BY DEF LfnRun
<1>3. ASSUME NEW j \in 1 .. i - 1, dir[j].state = "live", IsLfn(dir[j])
      PROVE  /\ j + 1 \in Live(dir) /\ dir[j + 1].kind = "short"
             /\ j = i - 1 => LfnEntries[n] = 1
  <2>1. j \in Live(dir) /\ dir[j].kind = "lfn"
    BY <1>1, <1>3 DEF Live, IsLfn
  <2>2. PICK m \in Names : LfnEntries[m] = 1 /\ Short(dir, j + 1, m)
    BY <2>1 DEF SetInv, Whole
  <2>3. j = i - 1 => m = n
    <3>1. j = i - 1 => j + 1 = i
      BY <1>1
    <3>2. QED
      BY <2>2, <3>1 DEF Short
  <2>4. QED
    BY <2>2, <2>3 DEF Short
<1>4. 0 \in S
  BY <1>1
<1>5. ASSUME NEW k \in S PROVE k <= LfnEntries[n]
  <2>1. k \in 0 .. i - 1 /\ \A j \in i - k .. i - 1 : dir[j].state = "live" /\ IsLfn(dir[j])
    OBVIOUS
  <2>2. k >= 1 => LfnEntries[n] = 1
    <3> SUFFICES ASSUME k >= 1 PROVE LfnEntries[n] = 1
      OBVIOUS
    <3>1. i - 1 \in i - k .. i - 1 /\ i - 1 \in 1 .. i - 1
      BY <1>1, <2>1
    <3>2. QED
      BY <1>3, <2>1, <3>1
  <2>3. ~(k >= 2)
    <3> SUFFICES ASSUME k >= 2 PROVE FALSE
      OBVIOUS
    <3>1. /\ i - 2 \in i - k .. i - 1 /\ i - 1 \in i - k .. i - 1
          /\ i - 2 \in 1 .. i - 1 /\ (i - 2) + 1 = i - 1
      BY <1>1, <2>1
    <3>2. dir[i - 1].kind = "short"
      BY <1>3, <2>1, <3>1
    <3>3. dir[i - 1].kind = "lfn"
      BY <2>1, <3>1 DEF IsLfn
    <3>4. QED
      BY <3>2, <3>3
  <2>4. k \in Nat /\ LfnEntries[n] \in 0 .. 1
    BY <2>1, <1>1 DEF PlainNames
  <2>5. QED
    BY <2>2, <2>3, <2>4
<1>6. ASSUME LfnEntries[n] = 1
      PROVE  1 \in S /\ i - 1 \in 1 .. Len(dir) /\ Piece(dir, i - 1, n)
  <2>1. Piece(dir, i - 1, n)
    BY <1>6 DEF SetInv, Whole
  <2>2. i - 1 \in 1 .. Len(dir) /\ dir[i - 1].state = "live" /\ IsLfn(dir[i - 1])
    BY <2>1 DEF Piece, Live, IsLfn
  <2>3. i - 1 .. i - 1 = {i - 1} /\ 1 \in 0 .. i - 1
    BY <1>1, <2>2
  <2>4. QED
    BY <2>1, <2>2, <2>3
<1>7. LfnEntries[n] \in S /\ S \subseteq Nat
  BY <1>1, <1>4, <1>6 DEF PlainNames
<1> HIDE DEF S
<1>8. Max(S) = LfnEntries[n]
  <2>1. ASSUME NEW x \in S, \A y \in S : x >= y PROVE x = LfnEntries[n]
    <3>1. x >= LfnEntries[n]
      BY <1>7, <2>1
    <3>2. x <= LfnEntries[n] /\ x \in Nat /\ LfnEntries[n] \in Nat
      BY <1>5, <1>7
    <3>3. QED
      BY <3>1, <3>2
  <2>2. \A y \in S : LfnEntries[n] >= y
    BY <1>5, <1>7
  <2>3. QED
    BY <1>7, <2>1, <2>2 DEF Max
<1>9. EntryName(i) = Text(n)
  <2>1. CASE LfnEntries[n] = 0
    <3>1. EntryName(i) = <<dir[i].text>>
      BY <1>2, <1>8, <2>1 DEF EntryName
    <3>2. QED
      BY <2>1, <3>1 DEF Text, Short
  <2>2. CASE LfnEntries[n] = 1
    <3>1. dir[i - 1].text = <<n, 1>>
      BY <1>6, <2>2 DEF Piece
    <3>2. Terminates(dir[i - 1].text)
      BY <2>2, <3>1 DEF Terminates
    <3> DEFINE last == {k \in 1 .. 1 : Terminates(dir[i - k].text)}
    <3>3. last = {1}
      BY <3>2
    <3>4. Min(last) = 1
      BY <3>3 DEF Min
    <3>5. EntryName(i) = [k \in 1 .. 1 |-> dir[i - k].text]
      <4>1. EntryName(i) = [k \in 1 .. IF last = {} THEN 1 ELSE Min(last) |-> dir[i - k].text]
        BY <1>2, <1>8, <2>2 DEF EntryName
      <4> HIDE DEF last
      <4>2. QED
        BY <3>3, <3>4, <4>1
    <3>6. Text(n) = [k \in 1 .. 1 |-> <<n, k>>]
      BY <2>2 DEF Text
    <3>7. \A k \in 1 .. 1 : dir[i - k].text = <<n, k>>
      BY <3>1
    <3>8. QED
      BY <3>5, <3>6, <3>7
  <2>3. QED
    BY <2>1, <2>2 DEF PlainNames
<1>10. QED
  BY <1>2, <1>8, <1>9

(* Different names are spelled differently. *)
LEMMA TextDiffers ==
    ASSUME PlainNames, NEW n \in Names, NEW m \in Names, Text(n) = Text(m)
    PROVE  n = m
<1>1. ASSUME NEW x \in Names PROVE Text(x)[1][1] = x
  <2>1. CASE LfnEntries[x] = 0
    BY <2>1 DEF Text
  <2>2. CASE LfnEntries[x] = 1
    BY <2>2 DEF Text
  <2>3. QED
    BY <2>1, <2>2 DEF PlainNames
<1>2. QED
  BY <1>1

(* findEntry finds the short entry of the name. *)
LEMMA FoundIs ==
    ASSUME SetInv, PlainNames, NEW n \in Names
    PROVE  /\ Found(n) = {i \in Live(dir) : Short(dir, i, n)}
           /\ Found(n) = {} <=> n \notin Present(dir)
<1>1. ASSUME NEW i \in Live(dir), dir[i].kind = "short"
      PROVE  EntryName(i) = Text(n) <=> Short(dir, i, n)
  <2>1. PICK m \in Names : Short(dir, i, m)
    BY <1>1 DEF SetInv, Whole
  <2>2. EntryName(i) = Text(m)
    BY <2>1, NameIs
  <2>3. m = n => Short(dir, i, n)
    BY <2>1
  <2>4. Short(dir, i, n) => m = n
    BY <2>1 DEF Short
  <2>5. Text(m) = Text(n) => m = n
    BY TextDiffers
  <2>6. QED
    BY <2>2, <2>3, <2>4, <2>5
<1>2. Found(n) = {i \in Live(dir) : Short(dir, i, n)}
  <2>1. Found(n) = {i \in Listed : EntryName(i) = Text(n)}
    BY DEF Found
  <2>2. \A i : i \in Listed <=> i \in Live(dir) /\ dir[i].kind = "short"
    BY ListedIs
  <2>3. \A i \in Live(dir) : Short(dir, i, n) => dir[i].kind = "short"
    BY DEF Short
  <2>4. QED
    BY <1>1, <2>1, <2>2, <2>3
<1>3. QED
  BY <1>2 DEF Present

(* The names that the refinement maps to. *)
ShownNames == {EntryName(i) : i \in Listed}

(* Each name that is there is shown, and no other. *)
LEMMA ShownIs ==
    ASSUME SetInv, PlainNames
    PROVE  ShownNames = {Text(n) : n \in Present(dir)}
<1>1. ASSUME NEW i \in Listed PROVE EntryName(i) \in {Text(n) : n \in Present(dir)}
  <2>1. i \in Live(dir) /\ dir[i].kind = "short"
    BY ListedIs
  <2>2. PICK n \in Names : Short(dir, i, n)
    BY <2>1 DEF SetInv, Whole
  <2>3. EntryName(i) = Text(n) /\ n \in Present(dir)
    BY <2>1, <2>2, NameIs DEF Present
  <2>4. QED
    BY <2>3
<1>2. ASSUME NEW n \in Present(dir) PROVE Text(n) \in ShownNames
  <2>1. n \in Names
    BY DEF Present
  <2>2. PICK i \in Live(dir) : Short(dir, i, n)
    BY DEF Present
  <2>3. i \in Listed
    BY <2>2, ListedIs DEF Short
  <2>4. EntryName(i) = Text(n)
    BY <2>1, <2>2, NameIs
  <2>5. QED
    BY <2>3, <2>4 DEF ShownNames
<1>3. QED
  BY <1>1, <1>2 DEF ShownNames

-----------------------------------------------------------------------------
(* The steps, as they change the entries in use.                           *)

(* The entries in use are the same. *)
Agree(d, r) == Live(r) = Live(d) /\ \A i \in Live(d) : r[i] = d[i]

(* Only entries in use matter for names. *)
LEMMA AgreeKeeps ==
    ASSUME NEW d, NEW r, Agree(d, r), Whole(d)
    PROVE  Whole(r) /\ Present(r) = Present(d)
<1>1. \A i, n : Short(r, i, n) <=> Short(d, i, n)
  BY DEF Agree, Short
<1>2. \A i, n : Piece(r, i, n) <=> Piece(d, i, n)
  BY DEF Agree, Piece
<1>3. \A i \in Live(d) : r[i] = d[i]
  BY DEF Agree
<1>4. Live(r) = Live(d)
  BY DEF Agree
<1>5. Present(r) = Present(d)
  BY <1>1, <1>4 DEF Present
<1>6. Whole(r)
  BY <1>1, <1>2, <1>3, <1>4 DEF Whole
<1>7. QED
  BY <1>5, <1>6

(* Extending the chain leaves the entries in use alone. *)
LEMMA GrownAgrees ==
    ASSUME Typed, NEW k \in Nat
    PROVE  Agree(dir, Grown(k))
<1>1. /\ Grown(k) \in Seq(Entries) /\ Len(Grown(k)) >= Len(dir)
      /\ \A i \in 1 .. Len(dir) : Grown(k)[i] = dir[i]
      /\ \A i \in 1 .. Len(Grown(k)) : i > Len(dir) => Grown(k)[i] = End
  BY GrownIs
<1>2. Len(dir) \in Nat /\ Len(Grown(k)) \in Nat /\ End.state # "live"
  BY <1>1, EntryTypes DEF Typed
<1>3. ASSUME NEW i \in Live(Grown(k)) PROVE i \in Live(dir)
  <2>1. i \in 1 .. Len(Grown(k)) /\ Grown(k)[i].state = "live"
    BY DEF Live
  <2>2. ~(i > Len(dir))
    BY <1>1, <1>2, <2>1
  <2>3. i \in 1 .. Len(dir)
    BY <1>2, <2>1, <2>2
  <2>4. QED
    BY <1>1, <2>1, <2>3 DEF Live
<1>4. ASSUME NEW i \in Live(dir) PROVE i \in Live(Grown(k)) /\ Grown(k)[i] = dir[i]
  <2>1. i \in 1 .. Len(dir) /\ dir[i].state = "live"
    BY DEF Live
  <2>2. i \in 1 .. Len(Grown(k))
    BY <1>1, <1>2, <2>1
  <2>3. QED
    BY <1>1, <2>1, <2>2 DEF Live
<1>5. QED
  BY <1>3, <1>4 DEF Agree

(* createEntry adds the entries of a name that is not there. *)
LEMMA CreatedWhole ==
    ASSUME PlainNames, NEW n \in Names, NEW d \in Seq(Entries), Whole(d),
           n \notin Present(d), NEW s, RunAt(d, n, s)
    PROVE  /\ Whole(Created(d, n, s))
           /\ Present(Created(d, n, s)) = Present(d) \cup {n}
<1> DEFINE L == LfnEntries[n]
           r == Created(d, n, s)
           z == s + L
<1>1. /\ Len(d) \in Nat /\ s \in 1 .. Len(d) /\ z \in s .. Len(d) /\ L \in 0 .. 1
      /\ \A j \in s .. z : d[j].state # "live"
  BY DEF RunAt, PlainNames
<1>2. /\ Writes(d, r, s, s .. z)
      /\ \A i \in s .. z - 1 : r[i] = Entry("lfn", <<n, L - (i - s)>>)
      /\ r[z] = Entry("short", ShortText(n))
  <2>1. /\ Writes(d, Created(d, n, s), s, s .. s + LfnEntries[n])
        /\ \A i \in s .. s + LfnEntries[n] - 1 :
              Created(d, n, s)[i] = Entry("lfn", <<n, LfnEntries[n] - (i - s)>>)
        /\ Created(d, n, s)[s + LfnEntries[n]] = Entry("short", ShortText(n))
    BY CreatedIs
  <2>2. Writes(d, r, s, s .. z)
    BY <2>1
  <2>3. ASSUME NEW i \in s .. z - 1 PROVE r[i] = Entry("lfn", <<n, L - (i - s)>>)
    <3>1. i \in s .. s + LfnEntries[n] - 1
      BY <1>1
    <3>2. QED
      BY <2>1, <3>1
  <2>4. r[z] = Entry("short", ShortText(n))
    BY <2>1
  <2>5. QED
    BY <2>2, <2>3, <2>4
<1>3. ShortText(n) = <<n, 0>>
  BY DEF ShortText, PlainNames
<1> HIDE DEF r, L, z
<1>4. Len(r) = Len(d) /\ \A i \in 1 .. Len(d) : i \notin s .. z => r[i] = d[i]
  BY <1>2 DEF Writes
<1>5. \A i \in s .. z : r[i].state = "live"
  BY <1>2 DEF Writes
<1>6. Live(r) = Live(d) \cup (s .. z) /\ \A i \in Live(d) : i \notin s .. z /\ r[i] = d[i]
  <2>1. \A i \in s .. z : i \in 1 .. Len(d)
    BY <1>1
  <2>2. \A i \in Live(d) : i \notin s .. z /\ r[i] = d[i]
    BY <1>1, <1>4 DEF Live
  <2>3. \A i : i \in Live(r) <=> i \in 1 .. Len(d) /\ r[i].state = "live"
    BY <1>4 DEF Live
  <2>4. \A i : i \in Live(d) <=> i \in 1 .. Len(d) /\ d[i].state = "live"
    BY DEF Live
  <2>5. QED
    BY <1>4, <1>5, <2>1, <2>2, <2>3, <2>4
<1>7. /\ z \in s .. z /\ r[z].kind = "short" /\ r[z].text = <<n, 0>>
      /\ Short(r, z, n)
  <2>1. z \in s .. z
    BY <1>1
  <2>2. r[z].kind = "short" /\ r[z].text = <<n, 0>>
    BY <1>2, <1>3, EntryParts
  <2>3. QED
    BY <1>6, <2>1, <2>2 DEF Short
<1>8. ASSUME NEW i \in s .. z, i # z
      PROVE  i + 1 = z /\ LfnEntries[n] = 1 /\ Piece(r, i, n)
  <2>1. L = 1 /\ i = s /\ z = s + 1 /\ i \in s .. z - 1
    BY <1>1, <1>8 DEF z
  <2>2. L - (i - s) = 1
    BY <2>1, <1>1
  <2>3. r[i] = Entry("lfn", <<n, 1>>)
    BY <1>2, <2>1, <2>2
  <2>4. r[i].kind = "lfn" /\ r[i].text = <<n, 1>>
    BY <2>3, EntryParts
  <2>5. QED
    BY <1>6, <2>1, <2>4 DEF Piece, L
<1>9. \A i \in Live(d), m \in Names : Short(r, i, m) <=> Short(d, i, m)
  BY <1>6 DEF Short
<1>10. \A i \in Live(d), m \in Names : Piece(r, i, m) <=> Piece(d, i, m)
  BY <1>6 DEF Piece
<1>11. ASSUME NEW i \in s .. z, NEW m \in Names, Short(r, i, m) PROVE i = z /\ m = n
  <2>1. i = z
    <3>1. i # z => r[i].kind = "lfn"
      BY <1>8 DEF Piece
    <3>2. QED
      BY <1>11, <3>1 DEF Short
  <2>2. QED
    BY <1>7, <1>11, <2>1 DEF Short
<1>12. \A i \in Live(d) : ~Short(d, i, n)
  BY DEF Present
<1>13. Present(r) = Present(d) \cup {n}
  <2>1. ASSUME NEW m \in Present(r) PROVE m \in Present(d) \/ m = n
    <3>1. m \in Names
      BY DEF Present
    <3>2. PICK i \in Live(r) : Short(r, i, m)
      BY DEF Present
    <3>3. QED
      BY <1>6, <1>9, <1>11, <3>1, <3>2 DEF Present
  <2>2. ASSUME NEW m \in Present(d) PROVE m \in Present(r)
    <3>1. m \in Names
      BY DEF Present
    <3>2. PICK i \in Live(d) : Short(d, i, m)
      BY DEF Present
    <3>3. QED
      BY <1>6, <1>9, <3>1, <3>2 DEF Present
  <2>3. n \in Present(r)
    BY <1>6, <1>7 DEF Present
  <2>4. QED
    BY <2>1, <2>2, <2>3
<1>14. ASSUME NEW i \in Live(r), r[i].kind = "short" PROVE \E m \in Names : Short(r, i, m)
  <2>1. CASE i \in Live(d)
    <3>1. PICK m \in Names : Short(d, i, m)
      BY <1>6, <1>14, <2>1 DEF Whole
    <3>2. QED
      BY <1>9, <2>1, <3>1
  <2>2. CASE i \in s .. z
    <3>1. i = z
      BY <1>8, <1>14, <2>2 DEF Piece
    <3>2. QED
      BY <1>7, <3>1
  <2>3. QED
    BY <1>6, <2>1, <2>2
<1>15. ASSUME NEW i \in Live(r), r[i].kind = "lfn"
       PROVE  \E m \in Names : LfnEntries[m] = 1 /\ Piece(r, i, m) /\ Short(r, i + 1, m)
  <2>1. CASE i \in Live(d)
    <3>1. PICK m \in Names : LfnEntries[m] = 1 /\ Piece(d, i, m) /\ Short(d, i + 1, m)
      BY <1>6, <1>15, <2>1 DEF Whole
    <3>2. i + 1 \in Live(d)
      BY <3>1 DEF Short
    <3>3. QED
      BY <1>9, <1>10, <2>1, <3>1, <3>2
  <2>2. CASE i \in s .. z
    <3>1. i # z
      BY <1>7, <1>15
    <3>2. QED
      BY <1>7, <1>8, <2>2, <3>1
  <2>3. QED
    BY <1>6, <2>1, <2>2
<1>16. ASSUME NEW i \in Live(r), NEW m \in Names, Short(r, i, m), LfnEntries[m] = 1
       PROVE  Piece(r, i - 1, m)
  <2>1. CASE i \in Live(d)
    <3>1. Piece(d, i - 1, m)
      BY <1>9, <1>16, <2>1 DEF Whole
    <3>2. i - 1 \in Live(d)
      BY <3>1 DEF Piece
    <3>3. QED
      BY <1>10, <3>1, <3>2
  <2>2. CASE i \in s .. z
    <3>1. i = z /\ m = n
      BY <1>11, <1>16, <2>2
    <3>2. L = 1 /\ z - 1 = s /\ s \in s .. z /\ s # z
      BY <1>1, <1>16, <3>1 DEF L, z
    <3>3. Piece(r, s, n)
      BY <1>8, <3>2
    <3>4. QED
      BY <3>1, <3>2, <3>3
  <2>3. QED
    BY <1>6, <2>1, <2>2
<1>17. ASSUME NEW i \in Live(r), NEW j \in Live(r), NEW m \in Names,
              Short(r, i, m), Short(r, j, m)
       PROVE  i = j
  <2>1. CASE i \in Live(d) /\ j \in Live(d)
    BY <1>9, <1>17, <2>1 DEF Whole
  <2>2. CASE i \in s .. z /\ j \in s .. z
    BY <1>11, <1>17, <2>2
  <2>3. CASE i \in Live(d) /\ j \in s .. z
    BY <1>9, <1>11, <1>12, <1>17, <2>3
  <2>4. CASE i \in s .. z /\ j \in Live(d)
    BY <1>9, <1>11, <1>12, <1>17, <2>4
  <2>5. QED
    BY <1>6, <2>1, <2>2, <2>3, <2>4
<1>18. Whole(r)
  BY <1>14, <1>15, <1>16, <1>17 DEF Whole
<1>19. QED
  BY <1>13, <1>18 DEF r

(* The first entry of a cluster. *)
LEMMA FirstIs ==
    ASSUME NEW i \in Nat \ {0}
    PROVE  First(i) \in 1 .. i /\ EntriesPerCluster \in Nat \ {0}
<1> DEFINE q == (i - 1) \div EntriesPerCluster
           m == (i - 1) % EntriesPerCluster
<1>1. EntriesPerCluster \in Nat \ {0} /\ i - 1 \in Nat
  BY DirectoryAssumption
<1>2. q \in Nat /\ m \in Nat /\ i - 1 = EntriesPerCluster * q + m
  BY <1>1, DivMod
<1>3. First(i) = q * EntriesPerCluster + 1
  BY DEF First, ClusterOf
<1> HIDE DEF q, m
<1>4. q * EntriesPerCluster \in Nat /\ q * EntriesPerCluster = EntriesPerCluster * q
  BY <1>1, <1>2
<1>5. QED
  BY <1>1, <1>2, <1>3, <1>4

(* Of the entries with the LFN attribute below x only the nearest can be   *)
(* in use: a piece that is in use has its short entry above it.            *)
LEMMA BelowIs ==
    ASSUME Typed, Whole(dir), NEW x \in 1 .. Len(dir), NEW b \in Int,
           NEW j \in Live(dir), j \in LfnBelow(dir, x, b)
    PROVE  j = x - 1 /\ \E m \in Names : LfnEntries[m] = 1 /\ Piece(dir, j, m) /\ Short(dir, x, m)
<1>1. /\ j \in b .. x - 1 /\ \A m \in j .. x - 1 : IsLfn(dir[m])
      /\ j \in 1 .. Len(dir) /\ Len(dir) \in Nat
  BY DEF LfnBelow, Live, Typed
<1>2. j \in j .. x - 1
  BY <1>1
<1>3. dir[j].kind = "lfn"
  BY <1>1, <1>2 DEF IsLfn
<1>4. PICK m \in Names : LfnEntries[m] = 1 /\ Piece(dir, j, m) /\ Short(dir, j + 1, m)
  BY <1>3 DEF Whole
<1>5. j = x - 1
  <2> SUFFICES ASSUME j # x - 1 PROVE FALSE
    OBVIOUS
  <2>1. j + 1 \in j .. x - 1
    BY <1>1
  <2>2. dir[j + 1].kind = "lfn"
    BY <1>1, <2>1 DEF IsLfn
  <2>3. QED
    BY <1>4, <2>2 DEF Short
<1>6. j + 1 = x
  BY <1>1, <1>5
<1>7. QED
  BY <1>4, <1>5, <1>6

(* removeEntry marks the entries of the name and, of those in use, no      *)
(* other.                                                                  *)
LEMMA RemovedIs ==
    ASSUME Typed, PlainNames, Whole(dir), NEW n \in Names, NEW i \in Live(dir),
           Short(dir, i, n), NEW j \in Live(dir)
    PROVE  j \in OwnEntries(i) \cup PreviousEntries(i) <=>
              j = i \/ (LfnEntries[n] = 1 /\ j = i - 1)
<1>1. i \in 1 .. Len(dir) /\ Len(dir) \in Nat /\ j \in 1 .. Len(dir)
  BY DEF Live, Typed
<1>2. First(i) \in 1 .. i /\ EntriesPerCluster \in Nat \ {0} /\ i \in Nat
  BY <1>1, FirstIs
<1>3. ASSUME NEW b \in Int, j \in LfnBelow(dir, i, b)
      PROVE  LfnEntries[n] = 1 /\ j = i - 1
  <2>1. j = i - 1 /\ \E m \in Names : LfnEntries[m] = 1 /\ Short(dir, i, m)
    BY <1>1, <1>3, BelowIs
  <2>2. QED
    BY <2>1 DEF Short
<1>4. ASSUME j \in OwnEntries(i) PROVE j = i \/ (LfnEntries[n] = 1 /\ j = i - 1)
  <2>1. j = i \/ j \in LfnBelow(dir, i, First(i))
    BY <1>4 DEF OwnEntries
  <2>2. QED
    BY <2>1, <1>2, <1>3
<1>5. ASSUME j \in PreviousEntries(i) PROVE LfnEntries[n] = 1 /\ j = i - 1
  <2>1. /\ j \in LfnBelow(dir, First(i), First(i) - EntriesPerCluster)
        /\ i = First(i) \/ IsLfn(dir[First(i)])
    BY <1>5 DEF PreviousEntries
  <2>2. First(i) - EntriesPerCluster \in Int /\ First(i) \in 1 .. Len(dir)
    BY <1>1, <1>2
  <2>3. \E m \in Names : Short(dir, First(i), m)
    BY <2>1, <2>2, BelowIs
  <2>4. i = First(i)
    BY <2>1, <2>3 DEF Short, IsLfn
  <2>5. QED
    BY <1>3, <2>1, <2>2, <2>4
<1>6. i \in OwnEntries(i)
  BY DEF OwnEntries
<1>7. ASSUME LfnEntries[n] = 1, j = i - 1
      PROVE  j \in OwnEntries(i) \cup PreviousEntries(i)
  <2>1. Piece(dir, i - 1, n)
    BY <1>7 DEF Whole
  <2>2. IsLfn(dir[i - 1]) /\ i - 1 \in 1 .. Len(dir) /\ i - 1 .. i - 1 = {i - 1}
    BY <1>2, <2>1 DEF Piece, IsLfn, Live
  <2>3. CASE First(i) <= i - 1
    <3>1. i - 1 \in First(i) .. i - 1
      BY <1>2, <2>3
    <3>2. i - 1 \in LfnBelow(dir, i, First(i))
      BY <2>2, <3>1 DEF LfnBelow
    <3>3. QED
      BY <1>7, <3>2 DEF OwnEntries
  <2>4. CASE First(i) = i
    <3>1. First(i) > 1
      BY <1>2, <2>2, <2>4
    <3>2. i - 1 \in i - EntriesPerCluster .. i - 1
      BY <1>2
    <3>3. i - 1 \in LfnBelow(dir, i, i - EntriesPerCluster)
      BY <2>2, <3>2 DEF LfnBelow
    <3>4. PreviousEntries(i) = LfnBelow(dir, i, i - EntriesPerCluster)
      BY <2>4, <3>1 DEF PreviousEntries
    <3>5. QED
      BY <1>7, <3>3, <3>4
  <2>5. QED
    BY <1>2, <2>3, <2>4
<1>8. QED
  BY <1>4, <1>5, <1>6, <1>7

(* removeEntry takes the name away and no other. *)
LEMMA RemovedWhole ==
    ASSUME SetInv, PlainNames, NEW n \in Names, Remove(n, TRUE)
    PROVE  /\ Whole(dir') /\ n \in Present(dir)
           /\ Present(dir') = Present(dir) \ {n}
<1> DEFINE i == Min(Found(n))
           at == OwnEntries(i) \cup PreviousEntries(i)
<1>1. Marks(at) /\ Found(n) # {}
  BY RemoveIs DEF SetInv, ChainInv
<1>2. i \in Live(dir) /\ Short(dir, i, n) /\ n \in Present(dir)
  <2>1. Found(n) = {x \in Live(dir) : Short(dir, x, n)} /\ n \in Present(dir)
    BY <1>1, FoundIs
  <2>2. Found(n) \in SUBSET Nat
    BY <2>1 DEF Live, SetInv, ChainInv, Typed
  <2>3. Min(Found(n)) \in Found(n)
    BY <1>1, <2>2, MinInSet
  <2>4. QED
    BY <2>1, <2>3
<1> HIDE DEF i
<1>3. Typed /\ Whole(dir) /\ Len(dir) \in Nat
  BY DEF SetInv, ChainInv, Typed
<1>4. \A j \in Live(dir) : j \in at <=> j = i \/ (LfnEntries[n] = 1 /\ j = i - 1)
  BY <1>2, <1>3, RemovedIs
<1> HIDE DEF at
<1>5. Live(dir') = Live(dir) \ at /\ \A j \in Live(dir) : j \notin at => dir'[j] = dir[j]
  <2>1. Len(dir') = Len(dir) /\ \A j \in 1 .. Len(dir) :
           dir'[j] = IF j \in at THEN Deleted(dir[j]) ELSE dir[j]
    BY <1>1 DEF Marks
  <2>2. \A j \in 1 .. Len(dir) : Deleted(dir[j]).state # "live"
    <3>1. \A j \in 1 .. Len(dir) : dir[j] \in Entries
      BY <1>3 DEF Typed
    <3>2. QED
      BY <3>1, EntryTypes
  <2>3. QED
    BY <2>1, <2>2 DEF Live
<1>6. \A j \in Live(dir'), m \in Names : Short(dir', j, m) <=> Short(dir, j, m)
  BY <1>5 DEF Short
<1>7. \A j \in Live(dir'), m \in Names : Piece(dir', j, m) <=> Piece(dir, j, m)
  BY <1>5 DEF Piece
<1>8. ASSUME NEW j \in Live(dir'), dir'[j].kind = "short"
      PROVE  \E m \in Names : Short(dir', j, m)
  <2>1. PICK m \in Names : Short(dir, j, m)
    BY <1>3, <1>5, <1>8 DEF Whole
  <2>2. QED
    BY <1>6, <2>1
<1>9. i \in Int /\ \A x \in Live(dir) : x \in Int
  BY <1>2, <1>3 DEF Live
<1>10. ASSUME NEW j \in Live(dir'), dir'[j].kind = "lfn"
       PROVE  \E m \in Names : LfnEntries[m] = 1 /\ Piece(dir', j, m) /\ Short(dir', j + 1, m)
  <2>1. j \in Live(dir) /\ j \notin at /\ dir[j].kind = "lfn"
    BY <1>5, <1>10
  <2>2. PICK m \in Names : LfnEntries[m] = 1 /\ Piece(dir, j, m) /\ Short(dir, j + 1, m)
    BY <1>3, <2>1 DEF Whole
  <2>3. j + 1 \in Live(dir)
    BY <2>2 DEF Short
  <2>4. j + 1 # i
    <3> SUFFICES ASSUME j + 1 = i PROVE FALSE
      OBVIOUS
    <3>1. m = n
      BY <1>2, <2>2 DEF Short
    <3>2. j = i - 1
      BY <1>9, <2>1
    <3>3. QED
      BY <1>4, <2>1, <2>2, <3>1, <3>2
  <2>5. ASSUME LfnEntries[n] = 1, j + 1 = i - 1 PROVE FALSE
    <3>1. Piece(dir, i - 1, n)
      BY <1>2, <1>3, <2>5 DEF Whole
    <3>2. QED
      BY <2>2, <2>5, <3>1 DEF Piece, Short
  <2>6. j + 1 \in Live(dir')
    BY <1>4, <1>5, <2>3, <2>4, <2>5
  <2>7. QED
    BY <1>6, <1>7, <2>2, <2>6
<1>11. ASSUME NEW j \in Live(dir'), NEW m \in Names, Short(dir', j, m), LfnEntries[m] = 1
       PROVE  Piece(dir', j - 1, m)
  <2>1. j \in Live(dir) /\ j \notin at /\ Short(dir, j, m)
    BY <1>5, <1>6, <1>11
  <2>2. Piece(dir, j - 1, m)
    BY <1>3, <1>11, <2>1 DEF Whole
  <2>3. j - 1 \in Live(dir)
    BY <2>2 DEF Piece
  <2>4. j - 1 # i
    BY <1>2, <2>2 DEF Piece, Short
  <2>5. j - 1 # i - 1
    <3>1. j # i
      BY <1>4, <2>1
    <3>2. QED
      BY <1>9, <2>1, <3>1
  <2>6. j - 1 \in Live(dir')
    BY <1>4, <1>5, <2>3, <2>4, <2>5
  <2>7. QED
    BY <1>7, <2>2, <2>6
<1>12. ASSUME NEW j \in Live(dir'), NEW k \in Live(dir'), NEW m \in Names,
              Short(dir', j, m), Short(dir', k, m)
       PROVE  j = k
  BY <1>3, <1>5, <1>6, <1>12 DEF Whole
<1>13. Whole(dir')
  BY <1>8, <1>10, <1>11, <1>12 DEF Whole
<1>14. ASSUME NEW m \in Names PROVE m \in Present(dir') <=> m \in Present(dir) /\ m # n
  <2>1. ASSUME NEW j \in Live(dir'), Short(dir', j, m) PROVE m \in Present(dir) /\ m # n
    <3>1. j \in Live(dir) /\ j \notin at /\ Short(dir, j, m)
      BY <1>5, <1>6, <2>1
    <3>2. j # i
      BY <1>4, <3>1
    <3>3. m # n
      BY <1>2, <1>3, <3>1, <3>2 DEF Whole
    <3>4. QED
      BY <3>1, <3>3 DEF Present
  <2>2. ASSUME m # n, NEW j \in Live(dir), Short(dir, j, m) PROVE m \in Present(dir')
    <3>1. j # i
      BY <1>2, <2>2 DEF Short
    <3>2. ASSUME LfnEntries[n] = 1 PROVE j # i - 1
      <4>1. Piece(dir, i - 1, n)
        BY <1>2, <1>3, <3>2 DEF Whole
      <4>2. QED
        BY <2>2, <4>1 DEF Piece, Short
    <3>3. j \in Live(dir')
      BY <1>4, <1>5, <3>1, <3>2
    <3>4. QED
      BY <1>6, <2>2, <3>3 DEF Present
  <2>3. QED
    BY <2>1, <2>2 DEF Present
<1>15. \A m : m \in Present(dir) \/ m \in Present(dir') => m \in Names
  BY DEF Present
<1>16. QED
  BY <1>2, <1>13, <1>14, <1>15

(* What a request about the name n does to the names that are there. *)
PresentStep(n) ==
    \/ /\ Present(dir') = Present(dir)
       /\ out' = Result("create", FALSE) \/ out' = Result("remove", FALSE)
    \/ Present(dir') = Present(dir) /\ out' = Result("lookup", n \in Present(dir))
    \/ /\ n \notin Present(dir) /\ Present(dir') = Present(dir) \cup {n}
       /\ out' = Result("create", TRUE)
    \/ /\ n \in Present(dir) /\ Present(dir') = Present(dir) \ {n}
       /\ out' = Result("remove", TRUE)

Request(n) ==
    \/ Lookup(n)
    \/ Create(n) \/ CreateNoRoom(n) \/ CreateNoContent(n) \/ CreateExisting(n)
    \/ \E empty \in BOOLEAN : Remove(n, empty)
    \/ RemoveMissing(n)

(* Every request keeps the names whole and does what it reports. *)
LEMMA RequestStep ==
    ASSUME SetInv, PlainNames, NEW n \in Names, Request(n)
    PROVE  Whole(dir') /\ PresentStep(n)
<1>1. ASSUME UNCHANGED dir PROVE Whole(dir') /\ Present(dir') = Present(dir)
  BY <1>1 DEF SetInv
<1>2. Found(n) # {} <=> n \in Present(dir)
  BY FoundIs
<1>3. ASSUME Agree(dir, dir') PROVE Whole(dir') /\ Present(dir') = Present(dir)
  BY <1>3, AgreeKeeps DEF SetInv
<1>4. CASE Lookup(n)
  <2>1. (Found(n) # {}) = (n \in Present(dir))
    BY <1>2
  <2>2. out' = Result("lookup", Found(n) # {}) /\ UNCHANGED dir
    BY <1>4 DEF Lookup
  <2>3. out' = Result("lookup", n \in Present(dir))
    BY <2>1, <2>2, Zenon
  <2>4. QED
    BY <1>1, <2>2, <2>3 DEF PresentStep
<1>5. CASE Create(n)
  <2>1. PICK d, s : Place(d, n, s) /\ dir' = Created(d, n, s)
    BY <1>5, CreateIs DEF SetInv
  <2>2. d \in Seq(Entries) /\ RunAt(d, n, s) /\ \E k \in Nat : d = Grown(k)
    BY <2>1 DEF Place
  <2>3. Agree(dir, d)
    BY <2>2, GrownAgrees DEF SetInv, ChainInv
  <2>4. Whole(d) /\ Present(d) = Present(dir)
    BY <2>3, AgreeKeeps DEF SetInv
  <2>5. n \notin Present(dir)
    BY <1>2, <1>5 DEF Create, Existing
  <2>6. Whole(Created(d, n, s)) /\ Present(Created(d, n, s)) = Present(d) \cup {n}
    BY <2>2, <2>4, <2>5, CreatedWhole
  <2>7. Whole(dir') /\ Present(dir') = Present(dir) \cup {n}
    BY <2>1, <2>4, <2>6
  <2>8. out' = Result("create", TRUE)
    BY <1>5 DEF Create
  <2>9. QED
    BY <2>5, <2>7, <2>8 DEF PresentStep
<1>6. CASE CreateNoRoom(n)
  <2>1. free \in Nat /\ dir' = Grown(free) /\ out' = Result("create", FALSE)
    BY <1>6 DEF CreateNoRoom, SetInv, ChainInv, Typed
  <2>2. Agree(dir, dir')
    BY <2>1, GrownAgrees DEF SetInv, ChainInv
  <2>3. QED
    BY <1>3, <2>1, <2>2 DEF PresentStep
<1>7. CASE CreateNoContent(n)
  <2>1. PICK d, s : Place(d, n, s) /\ dir' = WithLfn(d, n, s, Before(n, s))
    BY <1>7, CreateNoContentIs DEF SetInv
  <2>2. d \in Seq(Entries) /\ RunAt(d, n, s) /\ \E k \in Nat : d = Grown(k)
    BY <2>1 DEF Place
  <2>3. LfnEntries[n] = 0
    BY <1>7 DEF CreateNoContent, PlainNames
  <2>4. Before(n, s) = {} /\ \A i \in Before(n, s) : \A j \in s .. i : j \in Before(n, s)
    <3>1. s \in Nat
      BY <2>2 DEF RunAt
    <3>2. Before(n, s) \in SUBSET (s .. s + LfnEntries[n] - 1)
      BY <2>2, BeforeIs
    <3>3. QED
      BY <2>3, <3>1, <3>2
  <2>5. Writes(d, dir', s, {})
    BY <2>1, <2>2, <2>4, WithLfnIs
  <2>6. Len(dir') = Len(d) /\ \A i \in 1 .. Len(d) : dir'[i] = d[i]
    BY <2>5 DEF Writes
  <2>7. Agree(dir, d)
    BY <2>2, GrownAgrees DEF SetInv, ChainInv
  <2>8. Agree(dir, dir')
    <3>1. Live(dir') = Live(d) /\ \A i \in Live(d) : dir'[i] = d[i]
      BY <2>6 DEF Live
    <3>2. QED
      BY <2>7, <3>1 DEF Agree
  <2>9. out' = Result("create", FALSE)
    BY <1>7 DEF CreateNoContent
  <2>10. QED
    BY <1>3, <2>8, <2>9 DEF PresentStep
<1>8. CASE CreateExisting(n)
  BY <1>1, <1>8 DEF CreateExisting, PresentStep
<1>9. CASE Remove(n, TRUE)
  <2>1. out' = Result("remove", TRUE)
    BY <1>9, RemoveIs DEF SetInv, ChainInv
  <2>2. QED
    BY <1>9, <2>1, RemovedWhole DEF PresentStep
<1>10. CASE Remove(n, FALSE)
  BY <1>1, <1>10 DEF Remove, PresentStep
<1>11. CASE RemoveMissing(n)
  BY <1>1, <1>11 DEF RemoveMissing, PresentStep
<1>12. QED
  BY <1>4, <1>5, <1>6, <1>7, <1>8, <1>9, <1>10, <1>11 DEF Request

(* The inductive step. *)
LEMMA NextSet ==
    ASSUME PlainNames, SetInv, [Next]_vars
    PROVE  SetInv' /\ ((\E n \in Names : PresentStep(n)) \/ UNCHANGED vars)
<1>1. ChainInv'
  BY NextChain DEF SetInv
<1>2. CASE UNCHANGED vars
  BY <1>1, <1>2 DEF SetInv, vars
<1>3. CASE \E n \in Names : Request(n)
  <2>1. PICK n \in Names : Request(n)
    BY <1>3
  <2>2. Whole(dir') /\ PresentStep(n)
    BY <2>1, RequestStep
  <2>3. QED
    BY <1>1, <2>2 DEF SetInv
<1>4. QED
  BY <1>2, <1>3 DEF Next, Request

(* An empty directory has hidden entries only. *)
LEMMA InitSet ==
    ASSUME Init
    PROVE  SetInv /\ Present(dir) = {}
<1>1. ChainInv
  BY InitChain
<1>2. Len(dir) = EntriesPerCluster /\ \A i \in 1 .. Len(dir) : dir[i] = Hidden \/ dir[i] = End
  <2>1. /\ EntriesPerCluster \in Nat
        /\ dir = [i \in 1 .. EntriesPerCluster |-> IF i <= HiddenEntries THEN Hidden ELSE End]
    BY DirectoryAssumption DEF Init
  <2>2. Len(dir) = EntriesPerCluster
    BY <2>1
  <2>3. QED
    BY <2>1, <2>2
<1>3. \A i \in Live(dir) : dir[i].kind = "hidden"
  BY <1>2 DEF Live, Hidden, End, Entry
<1>4. \A i \in Live(dir), n \in Names : ~Short(dir, i, n)
  BY <1>3 DEF Short
<1>5. QED
  BY <1>1, <1>3, <1>4 DEF SetInv, Whole, Present

-----------------------------------------------------------------------------
(* The theorems about names.                                               *)

(* Every name that createEntry has stored and removeEntry has not removed  *)
(* is in the chain once, with all its entries and no foreign one.          *)
THEOREM SetInvariance ==
    ASSUME PlainNames
    PROVE  Spec => []SetInv
<1>1. Init => SetInv
  BY InitSet
<1>2. SetInv /\ [Next]_vars => SetInv'
  BY NextSet
<1>3. QED
  BY <1>1, <1>2, PTL DEF Spec

(* createEntry and removeEntry leave no piece of a name behind that        *)
(* readDirEntry would read with the next one.                              *)
THEOREM PiecesBelong ==
    ASSUME PlainNames
    PROVE  Spec => []LfnRunsComplete
<1>1. SetInv => LfnRunsComplete
  <2> SUFFICES ASSUME SetInv, NEW i \in 1 .. Len(dir), dir[i].state = "live", IsLfn(dir[i])
               PROVE  LET n == dir[i].text[1]
                          short == i + dir[i].text[2]
                      IN /\ short \in Listed
                         /\ dir[short].text = ShortText(n)
                         /\ LfnRun(short) = LfnEntries[n]
    BY DEF LfnRunsComplete
  <2>1. i \in Live(dir) /\ dir[i].kind = "lfn"
    BY DEF Live, IsLfn
  <2>2. PICK n \in Names : LfnEntries[n] = 1 /\ Piece(dir, i, n) /\ Short(dir, i + 1, n)
    BY <2>1 DEF SetInv, Whole
  <2>3. dir[i].text[1] = n /\ dir[i].text[2] = 1
    BY <2>2 DEF Piece
  <2>4. i + 1 \in Live(dir) /\ dir[i + 1].kind = "short" /\ dir[i + 1].text = <<n, 0>>
    BY <2>2 DEF Short
  <2>5. i + 1 \in Listed
    BY <2>4, ListedIs
  <2>6. ShortText(n) = <<n, 0>>
    BY DEF ShortText, PlainNames
  <2>7. LfnRun(i + 1) = LfnEntries[n]
    BY <2>2, <2>4, NameIs
  <2>8. QED
    BY <2>3, <2>4, <2>5, <2>6, <2>7
<1>2. QED
  BY <1>1, SetInvariance, PTL

(* createEntry looks for the name first, and findEntry finds it if it is   *)
(* there: no listing shows a name twice.                                   *)
THEOREM NamesAreUnique ==
    ASSUME PlainNames
    PROVE  Spec => []NamesDiffer
<1>1. SetInv => NamesDiffer
  <2> SUFFICES ASSUME SetInv, NEW i \in Listed, NEW j \in Listed,
                      EntryName(i) = EntryName(j)
               PROVE  i = j
    BY DEF NamesDiffer
  <2>1. i \in Live(dir) /\ dir[i].kind = "short" /\ j \in Live(dir) /\ dir[j].kind = "short"
    BY ListedIs
  <2>2. PICK n \in Names : Short(dir, i, n)
    BY <2>1 DEF SetInv, Whole
  <2>3. PICK m \in Names : Short(dir, j, m)
    BY <2>1 DEF SetInv, Whole
  <2>4. EntryName(i) = Text(n) /\ EntryName(j) = Text(m)
    BY <2>1, <2>2, <2>3, NameIs
  <2>5. n = m
    BY <2>4, TextDiffers
  <2>6. QED
    BY <2>1, <2>2, <2>3, <2>5 DEF SetInv, Whole
<1>2. QED
  BY <1>1, SetInvariance, PTL

(* A step on the names that are there is a step of NameSet. *)
LEMMA NamesStep ==
    ASSUME PlainNames, NEW n \in Names, PresentStep(n),
           ShownNames = {Text(m) : m \in Present(dir)},
           ShownNames' = {Text(m) : m \in Present(dir')}
    PROVE  NamesSpec!Next
<1> DEFINE t == Text(n)
           texts == {Text(m) : m \in Names}
<1>1. t \in texts
  OBVIOUS
<1>2. \A m \in Names : Text(m) = t => m = n
  BY TextDiffers
<1>3. Present(dir) \subseteq Names /\ Present(dir') \subseteq Names
  BY DEF Present
<1> HIDE DEF t
<1>4. t \in ShownNames <=> n \in Present(dir)
  BY <1>2, <1>3 DEF t
<1>5. Present(dir') = Present(dir) => ShownNames' = ShownNames
  OBVIOUS
<1>6. Present(dir') = Present(dir) \cup {n} => ShownNames' = ShownNames \cup {t}
  BY DEF t
<1>7. Present(dir') = Present(dir) \ {n} => ShownNames' = ShownNames \ {t}
  BY <1>2, <1>3 DEF t
<1>8. \/ ShownNames' = ShownNames /\ out' = Result("create", FALSE)
      \/ ShownNames' = ShownNames /\ out' = Result("remove", FALSE)
      \/ ShownNames' = ShownNames /\ out' = Result("lookup", t \in ShownNames)
      \/ t \notin ShownNames /\ ShownNames' = ShownNames \cup {t} /\ out' = Result("create", TRUE)
      \/ t \in ShownNames /\ ShownNames' = ShownNames \ {t} /\ out' = Result("remove", TRUE)
  <2>1. (t \in ShownNames) = (n \in Present(dir))
    BY <1>4
  <2>2. CASE Present(dir') = Present(dir) /\ out' = Result("lookup", n \in Present(dir))
    <3>1. out' = Result("lookup", t \in ShownNames)
      BY <2>1, <2>2, Zenon
    <3>2. QED
      BY <1>5, <2>2, <3>1
  <2>3. CASE /\ Present(dir') = Present(dir)
             /\ out' = Result("create", FALSE) \/ out' = Result("remove", FALSE)
    BY <1>5, <2>3
  <2>4. CASE /\ n \notin Present(dir) /\ Present(dir') = Present(dir) \cup {n}
             /\ out' = Result("create", TRUE)
    BY <1>4, <1>6, <2>4
  <2>5. CASE /\ n \in Present(dir) /\ Present(dir') = Present(dir) \ {n}
             /\ out' = Result("remove", TRUE)
    BY <1>4, <1>7, <2>5
  <2>6. QED
    BY <2>2, <2>3, <2>4, <2>5 DEF PresentStep
<1>9. NamesSpec!Create(t) \/ NamesSpec!Remove(t) \/ NamesSpec!Lookup(t)
  BY <1>8, Zenon DEF NamesSpec!Create, NamesSpec!Remove, NamesSpec!Lookup, NamesSpec!Result,
     Result, ShownNames
<1>10. QED
  BY <1>1, <1>9 DEF NamesSpec!Next

(* The directory implements a set of names: create adds the name it was    *)
(* given, remove takes it away, neither touches another, and lookup finds  *)
(* what was created and not removed.                                       *)
THEOREM DirectoryRefinement ==
    ASSUME PlainNames
    PROVE  Spec => ImplementsNameSet
<1>1. Init => NamesSpec!Init
  <2> SUFFICES ASSUME Init PROVE NamesSpec!Init
    OBVIOUS
  <2>1. SetInv /\ Present(dir) = {}
    BY InitSet
  <2>2. ShownNames = {}
    BY <2>1, ShownIs
  <2>3. QED
    BY <2>2 DEF NamesSpec!Init, ShownNames, Init, Result, NamesSpec!Result
<1>2. SetInv => ShownNames = {Text(n) : n \in Present(dir)}
  BY ShownIs
<1>3. (SetInv => ShownNames = {Text(n) : n \in Present(dir)})'
  BY <1>2, PTL
<1>4. SetInv /\ [Next]_vars => [NamesSpec!Next]_<<ShownNames, out>>
  <2> SUFFICES ASSUME SetInv, [Next]_vars PROVE [NamesSpec!Next]_<<ShownNames, out>>
    OBVIOUS
  <2>1. CASE UNCHANGED vars
    <3>1. UNCHANGED dir /\ UNCHANGED out
      BY <2>1 DEF vars
    <3>2. UNCHANGED ShownNames
      BY <3>1 DEF ShownNames, Listed, Visible, EntryName, LfnRun
    <3>3. QED
      BY <3>1, <3>2
  <2>2. ASSUME NEW n \in Names, PresentStep(n) PROVE NamesSpec!Next
    <3>1. SetInv'
      BY NextSet
    <3>2. ShownNames' = {Text(m) : m \in Present(dir')}
      BY <1>3, <3>1
    <3>3. QED
      BY <1>2, <2>2, <3>2, NamesStep
  <2>3. QED
    BY <2>1, <2>2, NextSet
<1>5. QED
  BY <1>1, <1>4, SetInvariance, PTL DEF Spec, ImplementsNameSet, NamesSpec!Spec, ShownNames
=============================================================================
