------------------------- MODULE SectorCacheProofs --------------------------
(***************************************************************************)
(* The cache of vfs over the buffer of the ATA driver, for any number of   *)
(* slots and sectors and any behaviour of the drive: the two never         *)
(* disagree, and together they implement module Disk.  The argument is     *)
(* about a table c of cache entries and a device s (platters and driver    *)
(* buffer), because an operation goes through states between two steps of  *)
(* the specification: it evicts, transfers, and then fills a slot.         *)
(***************************************************************************)
EXTENDS SectorCache, TLAPS

Device == [disk : [Lba -> Data], drv : [valid : BOOLEAN, lba : Lba, data : Data]]
Table == [Slots -> [valid : BOOLEAN, lba : Sectors, data : Data, dirty : BOOLEAN]]

(* Slot i of table c holds sector l. *)
Has(c, i, l) == c[i].valid /\ c[i].lba = l

Unique(c) ==
    \A i, j \in Slots : c[i].valid /\ c[j].valid /\ c[i].lba = c[j].lba => i = j

Agrees(c, s) ==
    \A i \in Slots :
        c[i].valid /\ s.drv.valid /\ s.drv.lba = c[i].lba => s.drv.data = c[i].data

(* What a read of sector l returns from table c over device s. *)
View(c, s, l) ==
    IF \E i \in Slots : Has(c, i, l)
    THEN c[CHOOSE i \in Slots : Has(c, i, l)].data
    ELSE IF s.drv.valid /\ s.drv.lba = l THEN s.drv.data ELSE s.disk[l]

(* Going from (c, s) to (e, t), sector l keeps its two values or settles   *)
(* on one of them: Kept of module Disk.                                    *)
Keeps(c, s, e, t, l) ==
    \/ t.disk[l] = s.disk[l] /\ View(e, t, l) = View(c, s, l)
    \/ t.disk[l] = View(e, t, l) /\ View(e, t, l) \in {s.disk[l], View(c, s, l)}

(* The inductive invariant: the properties are inductive as they stand. *)
IInv == TypeOK /\ OneSlotPerSector /\ DriverAgreesWithCache

-----------------------------------------------------------------------------
(* Facts about tables and devices.                                         *)

(* The default contents of buffers that are not valid have their types,    *)
(* and the second FAT lies outside the sectors that are cached.            *)
LEMMA Constants ==
    /\ Sector0 \in Sectors /\ Data0 \in Data
    /\ Sectors \subseteq Lba
    /\ \A l \in Fat1 : l \in Sectors /\ Mirror[l] \in Lba /\ Mirror[l] \notin Sectors
BY CacheAssumption DEF Sector0, Data0, Lba

(* An invalid slot has the type of an entry. *)
LEMMA NoEntryType == NoEntry \in [valid : BOOLEAN, lba : Sectors, data : Data, dirty : BOOLEAN]
BY Constants DEF NoEntry

(* A sector in a slot is read from that slot. *)
LEMMA ViewCached ==
    ASSUME NEW c \in Table, NEW s, NEW l, Unique(c), NEW i \in Slots, Has(c, i, l)
    PROVE  View(c, s, l) = c[i].data
<1> DEFINE j == CHOOSE k \in Slots : Has(c, k, l)
<1>1. j \in Slots /\ Has(c, j, l)
  OBVIOUS
<1>2. j = i
  BY <1>1 DEF Unique, Has
<1>3. QED
  BY <1>2 DEF View

(* A sector in no slot is read from the driver. *)
LEMMA ViewUncached ==
    ASSUME NEW c, NEW s, NEW l, \A i \in Slots : ~Has(c, i, l)
    PROVE  View(c, s, l) = IF s.drv.valid /\ s.drv.lba = l THEN s.drv.data ELSE s.disk[l]
BY DEF View

(* Ata::writeSector of the driver keeps the types, fills its buffer and    *)
(* changes no other sector.                                                *)
LEMMA DriverWriteFacts ==
    ASSUME NEW s \in Device, NEW l \in Lba, NEW d \in Data, NEW a
    PROVE  LET t == DriverWrite(s, l, d, a)
           IN /\ t \in Device
              /\ t.drv = [valid |-> TRUE, lba |-> l, data |-> d]
              /\ t.disk[l] = IF a = "stored" THEN d ELSE s.disk[l]
              /\ \A k \in Lba \ {l} : t.disk[k] = s.disk[k]
BY DEF DriverWrite, Device

(* Ata::readSector of the driver leaves the platters alone; when it        *)
(* succeeds its buffer holds the sector.                                   *)
LEMMA DriverReadFacts ==
    ASSUME NEW s \in Device, NEW l \in Lba, NEW a
    PROVE  LET t == DriverAfterRead(s, l, a)
           IN /\ t \in Device
              /\ t.disk = s.disk
              /\ \/ t = s
                 \/ ~DriverHolds(s, l) /\ t.drv = [valid |-> TRUE, lba |-> l, data |-> s.disk[l]]
              /\ DriverReads(s, l, a) => t.drv.valid /\ t.drv.lba = l
BY DEF DriverAfterRead, DriverReads, DriverHolds, Device

(* Slot i of c is empty or holds sector l, which is in no other slot, and  *)
(* e has data d for l there and is otherwise as c.                         *)
Puts(c, i, l, d, e) ==
    /\ c[i].valid => c[i].lba = l
    /\ \A j \in Slots : Has(c, j, l) => j = i
    /\ Has(e, i, l) /\ e[i].data = d
    /\ \A j \in Slots \ {i} : e[j] = c[j]

(* Filling a slot keeps the table unique; its sector is read from the slot *)
(* and the others are read as before.                                      *)
LEMMA Placing ==
    ASSUME NEW c \in Table, NEW e \in Table, Unique(c), NEW i \in Slots,
           NEW l \in Sectors, NEW d \in Data, Puts(c, i, l, d, e)
    PROVE  /\ Unique(e)
           /\ \A s : View(e, s, l) = d
           /\ \A s : \A k \in Sectors \ {l} : View(e, s, k) = View(c, s, k)
<1>1. /\ c[i].valid => c[i].lba = l
      /\ \A j \in Slots : Has(c, j, l) => j = i
      /\ Has(e, i, l) /\ e[i].data = d
      /\ \A j \in Slots \ {i} : e[j] = c[j]
  BY DEF Puts
<1>2. Unique(e)
  BY <1>1 DEF Unique, Has
<1>3. ASSUME NEW s PROVE View(e, s, l) = d
  BY <1>1, <1>2, ViewCached
<1>4. ASSUME NEW s, NEW k \in Sectors \ {l} PROVE View(e, s, k) = View(c, s, k)
  <2>1. ~Has(e, i, k) /\ ~Has(c, i, k)
    BY <1>1 DEF Has
  <2>2. CASE \E j \in Slots : Has(c, j, k)
    <3>1. PICK j \in Slots : Has(c, j, k)
      BY <2>2
    <3>2. Has(e, j, k) /\ e[j] = c[j]
      BY <1>1, <2>1, <3>1 DEF Has
    <3>3. QED
      BY <1>1, <1>2, <3>1, <3>2, ViewCached
  <2>3. CASE \A j \in Slots : ~Has(c, j, k)
    <3>1. \A j \in Slots : ~Has(e, j, k)
      BY <1>1, <2>1, <2>3 DEF Has
    <3>2. QED
      BY <2>3, <3>1, ViewUncached
  <2>4. QED
    BY <2>2, <2>3
<1>5. QED
  BY <1>1, <1>2, <1>3, <1>4

(* With an unchanged table, a device whose platters keep sector k and      *)
(* whose buffer either is what it was or holds another sector keeps k.     *)
LEMMA DeviceKeeps ==
    ASSUME NEW c \in Table, Unique(c), NEW s, NEW t, NEW k,
           t.disk[k] = s.disk[k],
           \/ t.drv = s.drv
           \/ ~(t.drv.valid /\ t.drv.lba = k)
           \/ t.drv.data = s.disk[k] /\ ~(s.drv.valid /\ s.drv.lba = k)
    PROVE  Keeps(c, s, c, t, k)
<1>1. CASE \E i \in Slots : Has(c, i, k)
  <2>1. PICK i \in Slots : Has(c, i, k)
    BY <1>1
  <2>2. View(c, s, k) = c[i].data /\ View(c, t, k) = c[i].data
    BY <2>1, ViewCached
  <2>3. QED
    BY <2>2 DEF Keeps
<1>2. CASE \A i \in Slots : ~Has(c, i, k)
  BY <1>2, ViewUncached DEF Keeps
<1>3. QED
  BY <1>1, <1>2

(* Keeping a sector composes. *)
LEMMA KeepsTransitive ==
    ASSUME NEW c, NEW s, NEW e, NEW t, NEW f, NEW u, NEW k,
           Keeps(c, s, e, t, k), Keeps(e, t, f, u, k)
    PROVE  Keeps(c, s, f, u, k)
BY DEF Keeps

-----------------------------------------------------------------------------
(* Eviction.                                                               *)

Evicted(i) == [cache EXCEPT ![i] = NoEntry]

(* cacheEvict: writing back a dirty victim and dropping it keeps every     *)
(* sector, leaves the buffer of the driver in agreement with the rest of   *)
(* the table, and changes no sector of the platters but the victim's.      *)
LEMMA Evicting ==
    ASSUME IInv, NEW i \in Slots, NEW s \in Evictions(i)
    PROVE  /\ s \in Device /\ Evicted(i) \in Table
           /\ Unique(Evicted(i)) /\ Agrees(Evicted(i), s)
           /\ ~Evicted(i)[i].valid
           /\ \A l : Holding(l) = {} => \A j \in Slots : ~Has(Evicted(i), j, l)
           /\ \A l \in Sectors : Holding(l) = {} => s.disk[l] = disk[l]
           /\ \A k \in Sectors : Keeps(cache, Dev, Evicted(i), s, k)
<1> DEFINE e == Evicted(i)
<1>1. cache \in Table /\ Dev \in Device /\ Unique(cache) /\ Agrees(cache, Dev)
  BY DEF IInv, TypeOK, Table, Device, Dev, OneSlotPerSector, Unique,
         DriverAgreesWithCache, Agrees
<1>2. e \in Table /\ e[i] = NoEntry /\ \A j \in Slots \ {i} : e[j] = cache[j]
  BY <1>1, NoEntryType DEF Evicted, Table
<1>3. ~e[i].valid
  BY <1>2 DEF NoEntry
<1>4. Unique(e)
  BY <1>1, <1>2, <1>3 DEF Unique
<1>5. \A l : Holding(l) = {} => \A j \in Slots : ~Has(cache, j, l) /\ ~Has(e, j, l)
  BY <1>2, <1>3 DEF Holding, Has
<1>6. \/ s = Dev
      \/ /\ cache[i].valid
         /\ \E a : s = DriverWrite(Dev, cache[i].lba, cache[i].data, a)
  BY DEF Evictions
<1>7. cache[i].lba \in Sectors /\ cache[i].lba \in Lba /\ cache[i].data \in Data
  BY <1>1, Constants DEF Table
<1>8. CASE s = Dev
  <2>1. Agrees(e, s)
    BY <1>1, <1>2, <1>3, <1>8 DEF Agrees
  <2>2. ASSUME NEW k \in Sectors PROVE Keeps(cache, Dev, e, s, k)
    <3>1. CASE Has(cache, i, k)
      <4>1. View(cache, Dev, k) = cache[i].data
        BY <1>1, <3>1, ViewCached
      <4>2. \A j \in Slots : ~Has(e, j, k)
        BY <1>1, <1>2, <1>3, <3>1 DEF Has, Unique
      <4>3. Dev.drv.valid /\ Dev.drv.lba = k => Dev.drv.data = cache[i].data
        BY <1>1, <3>1 DEF Agrees, Has
      <4>4. QED
        BY <1>8, <4>1, <4>2, <4>3, ViewUncached DEF Keeps
    <3>2. CASE ~Has(cache, i, k)
      <4>1. \A j \in Slots : Has(e, j, k) <=> Has(cache, j, k)
        BY <1>2, <1>3, <3>2 DEF Has
      <4>2. \A j \in Slots : Has(e, j, k) => e[j] = cache[j]
        BY <1>2, <1>3 DEF Has
      <4>3. View(e, Dev, k) = View(cache, Dev, k)
        <5>1. CASE \E j \in Slots : Has(e, j, k)
          BY <1>1, <1>2, <1>4, <4>1, <4>2, <5>1, ViewCached
        <5>2. CASE \A j \in Slots : ~Has(e, j, k)
          BY <4>1, <5>2, ViewUncached
        <5>3. QED
          BY <5>1, <5>2
      <4>4. QED
        BY <1>8, <4>3 DEF Keeps
    <3>3. QED
      BY <3>1, <3>2
  <2>3. QED
    BY <1>1, <1>2, <1>3, <1>4, <1>5, <1>8, <2>1, <2>2 DEF Dev
<1>9. CASE cache[i].valid /\ \E a : s = DriverWrite(Dev, cache[i].lba, cache[i].data, a)
  <2>1. PICK a : s = DriverWrite(Dev, cache[i].lba, cache[i].data, a)
    BY <1>9
  <2>2. /\ s \in Device
        /\ s.drv = [valid |-> TRUE, lba |-> cache[i].lba, data |-> cache[i].data]
        /\ s.disk[cache[i].lba] \in {cache[i].data, Dev.disk[cache[i].lba]}
        /\ \A k \in Lba \ {cache[i].lba} : s.disk[k] = Dev.disk[k]
    BY <1>1, <1>7, <2>1, DriverWriteFacts
  <2>3. Agrees(e, s)
    BY <1>1, <1>2, <1>3, <1>9, <2>2 DEF Agrees, Unique
  <2>4. ASSUME NEW l \in Sectors, Holding(l) = {} PROVE s.disk[l] = disk[l]
    BY <1>5, <1>9, <2>2, <2>4, Constants DEF Has, Dev
  <2>5. ASSUME NEW k \in Sectors PROVE Keeps(cache, Dev, e, s, k)
    <3>1. CASE k = cache[i].lba
      <4>1. Has(cache, i, k)
        BY <1>9, <3>1 DEF Has
      <4>2. View(cache, Dev, k) = cache[i].data
        BY <1>1, <4>1, ViewCached
      <4>3. \A j \in Slots : ~Has(e, j, k)
        BY <1>1, <1>2, <1>3, <4>1 DEF Has, Unique
      <4>4. View(e, s, k) = cache[i].data
        BY <2>2, <3>1, <4>3, ViewUncached
      <4>5. QED
        BY <2>2, <3>1, <4>2, <4>4 DEF Keeps
    <3>2. CASE k # cache[i].lba
      <4>1. \A j \in Slots : Has(e, j, k) <=> Has(cache, j, k)
        BY <1>2, <1>3, <3>2 DEF Has
      <4>2. \A j \in Slots : Has(e, j, k) => e[j] = cache[j]
        BY <1>2, <1>3 DEF Has
      <4>3. s.disk[k] = Dev.disk[k] /\ ~(s.drv.valid /\ s.drv.lba = k)
        BY <2>2, <3>2, Constants
      <4>4. CASE \E j \in Slots : Has(e, j, k)
        <5>1. View(e, s, k) = View(cache, Dev, k)
          BY <1>1, <1>2, <1>4, <4>1, <4>2, <4>4, ViewCached
        <5>2. QED
          BY <4>3, <5>1 DEF Keeps
      <4>5. CASE \A j \in Slots : ~Has(e, j, k)
        BY <4>3, <4>5, ViewUncached DEF Keeps
      <4>6. QED
        BY <4>4, <4>5
    <3>3. QED
      BY <3>1, <3>2
  <2>6. QED
    BY <1>2, <1>3, <1>4, <1>5, <2>2, <2>3, <2>4, <2>5
<1>10. QED
  BY <1>6, <1>8, <1>9

-----------------------------------------------------------------------------
(* Transfers.                                                              *)

(* A read of a sector that is in no slot, by whatever way it ends, keeps   *)
(* every sector and the agreement of driver and table; if it succeeds the  *)
(* buffer of the driver holds what is read.                                *)
LEMMA Reading ==
    ASSUME NEW c \in Table, Unique(c), NEW s \in Device, Agrees(c, s),
           NEW l \in Sectors, \A i \in Slots : ~Has(c, i, l), NEW a,
           NEW t, t = DriverAfterRead(s, l, a)
    PROVE  /\ t \in Device /\ Agrees(c, t)
           /\ \A k \in Sectors : Keeps(c, s, c, t, k)
           /\ DriverReads(s, l, a) =>
                 t.drv.valid /\ t.drv.lba = l /\ View(c, t, l) = t.drv.data
<1>1. /\ t \in Device
      /\ t.disk = s.disk
      /\ \/ t = s
         \/ ~DriverHolds(s, l) /\ t.drv = [valid |-> TRUE, lba |-> l, data |-> s.disk[l]]
      /\ DriverReads(s, l, a) => t.drv.valid /\ t.drv.lba = l
  BY DriverReadFacts, Constants
<1>2. Agrees(c, t)
  BY <1>1 DEF Agrees, Has
<1>3. ASSUME NEW k \in Sectors PROVE Keeps(c, s, c, t, k)
  <2>1. \/ t.drv = s.drv
        \/ ~(t.drv.valid /\ t.drv.lba = k)
        \/ t.drv.data = s.disk[k] /\ ~(s.drv.valid /\ s.drv.lba = k)
    BY <1>1 DEF DriverHolds
  <2>2. QED
    BY <1>1, <2>1, DeviceKeeps
<1>4. DriverReads(s, l, a) => View(c, t, l) = t.drv.data
  BY <1>1, ViewUncached
<1>5. QED
  BY <1>1, <1>2, <1>3, <1>4

(* A write into slot i, which is empty or holds the sector: the new data   *)
(* is read from now on, every other sector is kept, and driver and table   *)
(* agree.                                                                  *)
LEMMA Writing ==
    ASSUME NEW c \in Table, Unique(c), NEW s \in Device, NEW i \in Slots,
           NEW l \in Sectors, NEW d \in Data, NEW a,
           NEW e \in Table, Puts(c, i, l, d, e),
           NEW t, t = DriverWrite(s, l, d, a)
    PROVE  /\ t \in Device /\ Unique(e) /\ Agrees(e, t)
           /\ View(e, t, l) = d
           /\ t.disk[l] = IF a = "stored" THEN d ELSE s.disk[l]
           /\ \A k \in Sectors \ {l} : Keeps(c, s, e, t, k)
<1>1. /\ t \in Device
      /\ t.drv = [valid |-> TRUE, lba |-> l, data |-> d]
      /\ t.disk[l] = IF a = "stored" THEN d ELSE s.disk[l]
      /\ \A k \in Lba \ {l} : t.disk[k] = s.disk[k]
  BY DriverWriteFacts, Constants
<1>2. /\ Unique(e)
      /\ View(e, t, l) = d
      /\ \A k \in Sectors \ {l} : View(e, t, k) = View(c, t, k)
  BY Placing
<1>3. Agrees(e, t)
  BY <1>1, <1>2 DEF Agrees, Unique, Puts, Has
<1>4. ASSUME NEW k \in Sectors \ {l} PROVE Keeps(c, s, e, t, k)
  <2>1. t.disk[k] = s.disk[k] /\ ~(t.drv.valid /\ t.drv.lba = k)
    BY <1>1, Constants
  <2>2. Keeps(c, s, c, t, k)
    BY <2>1, DeviceKeeps
  <2>3. QED
    BY <1>2, <2>2 DEF Keeps
<1>5. QED
  BY <1>1, <1>2, <1>3, <1>4

-----------------------------------------------------------------------------
(* From tables and devices to the specifications.                          *)

(* The invariant in terms of the table and the device. *)
LEMMA Parts ==
    ASSUME IInv
    PROVE  cache \in Table /\ Dev \in Device /\ Unique(cache) /\ Agrees(cache, Dev)
BY DEF IInv, TypeOK, Table, Device, Dev, OneSlotPerSector, Unique,
       DriverAgreesWithCache, Agrees

(* The invariant after a step, from its parts. *)
LEMMA InvFromParts ==
    ASSUME present' \in BOOLEAN, buffered' \subseteq Slots, age' \in [Slots -> Slots],
           cache' \in Table, Dev' \in Device, Unique(cache'), Agrees(cache', Dev')
    PROVE  IInv'
<1>1. disk' \in [Lba -> Data] /\ drv' \in [valid : BOOLEAN, lba : Lba, data : Data]
  BY DEF Dev, Device
<1>2. TypeOK'
  BY <1>1 DEF TypeOK, Table
<1>3. OneSlotPerSector' /\ DriverAgreesWithCache'
  BY DEF OneSlotPerSector, Unique, DriverAgreesWithCache, Agrees, Dev
<1>4. QED
  BY <1>2, <1>3 DEF IInv

(* Renewing the age of a slot keeps the ages within the slots. *)
LEMMA AgesTyped ==
    ASSUME IInv, NEW i \in Slots
    PROVE  Touched(i) \in [Slots -> Slots]
<1>1. age \in [Slots -> Slots] /\ CACHE_SIZE \in Nat \ {0}
  BY CacheAssumption DEF IInv, TypeOK
<1>2. CACHE_SIZE \in Slots
  BY <1>1 DEF Slots
<1>3. ASSUME NEW x \in Slots, NEW y \in Slots, x > y PROVE x - 1 \in Slots
  BY <1>1, <1>3 DEF Slots
<1>4. ASSUME NEW j \in Slots
      PROVE  (IF j = i THEN CACHE_SIZE
              ELSE IF age[j] > age[i] THEN age[j] - 1 ELSE age[j]) \in Slots
  <2>1. age[j] \in Slots /\ age[i] \in Slots
    BY <1>1
  <2>2. age[j] > age[i] => age[j] - 1 \in Slots
    BY <1>3, <2>1
  <2>3. QED
    BY <1>2, <2>1, <2>2
<1>5. QED
  BY <1>4 DEF Touched

(* The refinement mapping is View. *)
LEMMA SeenIsView == \A l : Seen(l) = View(cache, Dev, l)
BY DEF Seen, View, Has, Dev

(* The same after a step. *)
LEMMA SeenIsViewNext == \A l : Seen(l)' = View(cache', Dev', l)
BY DEF Seen, View, Has, Dev

(* What is read is the contents of a sector. *)
LEMMA ViewTyped ==
    ASSUME NEW c \in Table, NEW s \in Device, Unique(c), NEW l \in Sectors
    PROVE  View(c, s, l) \in Data
<1>1. CASE \E i \in Slots : Has(c, i, l)
  BY <1>1, ViewCached DEF Table
<1>2. CASE \A i \in Slots : ~Has(c, i, l)
  <2>1. s.disk[l] \in Data /\ s.drv.data \in Data
    BY Constants DEF Device
  <2>2. QED
    BY <1>2, <2>1, ViewUncached
<1>3. QED
  BY <1>1, <1>2

(* Keeps is Kept of Disk under the refinement mapping. *)
LEMMA KeptFromKeeps ==
    ASSUME NEW k \in Sectors, Keeps(cache, Dev, cache', Dev', k)
    PROVE  DiskSpec!Kept(k)
<1>1. Dev.disk[k] = disk[k] /\ Dev'.disk[k] = disk'[k]
  BY DEF Dev
<1>2. QED
  BY <1>1, SeenIsView, SeenIsViewNext DEF Keeps, DiskSpec!Kept

(* The refinement mapping has the types that Disk asks for. *)
LEMMA TypedFromInv ==
    ASSUME cache' \in Table, Dev' \in Device, Unique(cache')
    PROVE  DiskSpec!Typed
<1>1. ASSUME NEW l \in Sectors PROVE Seen(l)' \in Data /\ disk'[l] \in Data
  <2>1. View(cache', Dev', l) \in Data
    BY ViewTyped
  <2>2. Dev'.disk[l] \in Data /\ Dev'.disk[l] = disk'[l]
    BY Constants DEF Device, Dev
  <2>3. QED
    BY <2>1, <2>2, SeenIsViewNext
<1>2. QED
  BY <1>1 DEF DiskSpec!Typed, DiskSpec!Contents

(* The parts of a step that both specifications need. *)
Good(t) ==
    /\ t = Dev' /\ t \in Device
    /\ cache' \in Table /\ Unique(cache') /\ Agrees(cache', t)
    /\ present' = present /\ buffered' \subseteq Slots /\ age' \in [Slots -> Slots]

(* A good step keeps the invariant and the types of Disk. *)
LEMMA GoodStep ==
    ASSUME IInv, NEW t, Good(t)
    PROVE  IInv' /\ DiskSpec!Typed
<1>1. present' \in BOOLEAN
  BY DEF IInv, TypeOK, Good
<1>2. IInv'
  BY <1>1, InvFromParts DEF Good
<1>3. DiskSpec!Typed
  BY TypedFromInv DEF Good
<1>4. QED
  BY <1>2, <1>3

(* A step that keeps every sector and answers with what is read, or with   *)
(* a failure, is a read of Disk.                                           *)
LEMMA IsDiskRead ==
    ASSUME IInv, NEW l \in Sectors, NEW t, Good(t),
           \A k \in Sectors : Keeps(cache, Dev, cache', t, k),
           out' \in {ReadOk(l, View(cache', t, l)), ReadFailed(l)}
    PROVE  IInv' /\ DiskSpec!Read(l)
<1>1. IInv' /\ DiskSpec!Typed
  BY GoodStep
<1>2. \A k \in Sectors : DiskSpec!Kept(k)
  BY KeptFromKeeps DEF Good
<1>3. Seen(l)' = View(cache', t, l)
  BY SeenIsViewNext DEF Good
<1>4. QED
  BY <1>1, <1>2, <1>3
  DEF DiskSpec!Read, DiskSpec!ReadOk, DiskSpec!ReadFailed, ReadOk, ReadFailed

(* A step that keeps every other sector, shows the new data and has stored *)
(* it exactly when the drive did is a write of Disk.                       *)
LEMMA IsDiskWrite ==
    ASSUME IInv, NEW l \in Sectors, NEW d \in Data, NEW t, Good(t),
           \A k \in Sectors \ {l} : Keeps(cache, Dev, cache', t, k),
           View(cache', t, l) = d, NEW a \in Answers,
           t.disk[l] = IF a = "stored" THEN d ELSE disk[l],
           out' = WriteDone(l, Succeeded(ReplyCode(a # "refused")))
    PROVE  IInv' /\ DiskSpec!Write(l, d)
<1>1. IInv' /\ DiskSpec!Typed
  BY GoodStep
<1>2. \A k \in Sectors \ {l} : DiskSpec!Kept(k)
  BY KeptFromKeeps DEF Good
<1>3. Seen(l)' = d
  BY SeenIsViewNext DEF Good
<1>4. disk'[l] = IF a = "stored" THEN d ELSE disk[l]
  BY DEF Good, Dev
<1>5. a = "stored" \/ a = "refused" \/ (a = "late" /\ "late" \in Outcomes)
  BY CacheAssumption DEF Answers
<1>6. out' = WriteDone(l, a # "refused")
  BY DEF Succeeded, ReplyCode
<1>7. \/ disk'[l] = d /\ out' = WriteDone(l, TRUE)
      \/ disk'[l] = disk[l] /\ out' = WriteDone(l, FALSE)
      \/ "late" \in Outcomes /\ disk'[l] = disk[l] /\ out' = WriteDone(l, TRUE)
  BY <1>4, <1>5, <1>6
<1>8. QED
  BY <1>1, <1>2, <1>3, <1>7 DEF DiskSpec!Write, DiskSpec!WriteDone, WriteDone

-----------------------------------------------------------------------------
(* One lemma per operation.                                                *)

(* Nothing happens to a sector when neither table nor device changes. *)
LEMMA KeepsSame == \A c, s, k : Keeps(c, s, c, s, k)
BY DEF Keeps

(* cacheRead of a sector in the cache. *)
LEMMA ReadHitStep ==
    ASSUME IInv, NEW l \in Sectors, CacheReadHit(l)
    PROVE  IInv' /\ DiskSpec!Read(l)
<1>1. PICK i \in Holding(l) : age' = Touched(i) /\ out' = ReadOk(l, cache[i].data)
  BY DEF CacheReadHit
<1>2. i \in Slots /\ Has(cache, i, l)
  BY DEF Holding, Has
<1>3. cache' = cache /\ Dev' = Dev /\ present' = present /\ buffered' = buffered
  BY DEF CacheReadHit, Dev
<1>4. Good(Dev')
  BY <1>1, <1>2, <1>3, Parts, AgesTyped DEF Good, IInv, TypeOK
<1>5. View(cache', Dev', l) = cache[i].data
  BY <1>2, <1>3, Parts, ViewCached
<1>6. \A k \in Sectors : Keeps(cache, Dev, cache', Dev', k)
  BY <1>3, KeepsSame
<1>7. QED
  BY <1>1, <1>4, <1>5, <1>6, IsDiskRead

(* cacheRead of a sector that evicts another. *)
LEMMA ReadMissStep ==
    ASSUME IInv, NEW l \in Sectors, CacheReadMiss(l)
    PROVE  IInv' /\ DiskSpec!Read(l)
<1>0. PICK i \in Slots : \E s \in Evictions(i), a \in Answers :
         buffered' = buffered \cup {i} /\ ReadInto(i, l, s, a)
  BY DEF CacheReadMiss
<1>1. PICK s \in Evictions(i), a \in Answers :
         buffered' = buffered \cup {i} /\ ReadInto(i, l, s, a)
  BY <1>0
<1> DEFINE c == Evicted(i)
           t == DriverAfterRead(s, l, a)
<1>2. Holding(l) = {} /\ present' = present
  BY DEF CacheReadMiss
<1>3. /\ s \in Device /\ c \in Table /\ Unique(c) /\ Agrees(c, s) /\ ~c[i].valid
      /\ \A j \in Slots : ~Has(c, j, l)
      /\ \A k \in Sectors : Keeps(cache, Dev, c, s, k)
  BY <1>2, Evicting
<1> HIDE DEF c, t
<1>4. /\ t \in Device /\ Agrees(c, t)
      /\ \A k \in Sectors : Keeps(c, s, c, t, k)
      /\ DriverReads(s, l, a) =>
            t.drv.valid /\ t.drv.lba = l /\ View(c, t, l) = t.drv.data
  BY <1>3, Reading DEF t
<1>5. Dev' = t
  BY <1>1, <1>4 DEF t, ReadInto, SetDev, Dev, Device
<1>6. buffered' \subseteq Slots
  BY <1>1 DEF IInv, TypeOK
<1>7. \A k \in Sectors : Keeps(cache, Dev, c, t, k)
  BY <1>3, <1>4, KeepsTransitive
<1>8. CASE DriverReads(s, l, a)
  <2>1. /\ cache' = [cache EXCEPT ![i] = Entry(l, t.drv.data, FALSE)]
        /\ age' = Touched(i)
        /\ out' = ReadOk(l, t.drv.data)
    BY <1>1, <1>8 DEF t, ReadInto, Succeeded, ReplyCode
  <2>2. t.drv.data \in Data
    BY <1>4 DEF Device
  <2>3. cache' \in Table /\ Puts(c, i, l, t.drv.data, cache')
    BY <1>3, <2>1, <2>2, Parts DEF Puts, Has, Entry, Table, c, Evicted
  <2>4. /\ Unique(cache')
        /\ View(cache', t, l) = t.drv.data
        /\ \A k \in Sectors \ {l} : View(cache', t, k) = View(c, t, k)
    BY <1>3, <2>2, <2>3, Placing
  <2>5. Agrees(cache', t)
    BY <1>4, <1>8, <2>3, <2>4 DEF Agrees, Puts, Has, Unique
  <2>6. \A k \in Sectors : Keeps(cache, Dev, cache', t, k)
    BY <1>4, <1>7, <1>8, <2>4 DEF Keeps
  <2>7. Good(t)
    BY <1>2, <1>4, <1>5, <1>6, <2>1, <2>3, <2>4, <2>5, AgesTyped DEF Good
  <2>8. QED
    BY <2>1, <2>4, <2>6, <2>7, IsDiskRead
<1>9. CASE ~DriverReads(s, l, a)
  <2>1. cache' = c /\ age' = age /\ out' = ReadFailed(l)
    BY <1>1, <1>9 DEF c, ReadInto, Evicted, Succeeded, ReplyCode
  <2>2. Good(t)
    BY <1>2, <1>3, <1>4, <1>5, <1>6, <2>1 DEF Good, IInv, TypeOK
  <2>3. QED
    BY <1>7, <2>1, <2>2, IsDiskRead
<1>10. QED
  BY <1>8, <1>9

(* cacheRead past the cache. *)
LEMMA ReadDirectStep ==
    ASSUME IInv, NEW l \in Sectors, CacheReadDirect(l)
    PROVE  IInv' /\ DiskSpec!Read(l)
<1>1. PICK a \in Answers :
         LET t == DriverAfterRead(Dev, l, a)
         IN /\ SetDev(t)
            /\ out' = IF Succeeded(ReplyCode(DriverReads(Dev, l, a)))
                      THEN ReadOk(l, t.drv.data) ELSE ReadFailed(l)
  BY DEF CacheReadDirect
<1> DEFINE t == DriverAfterRead(Dev, l, a)
<1>2. cache' = cache /\ age' = age /\ present' = present /\ buffered' = buffered
  BY DEF CacheReadDirect
<1>3. \A j \in Slots : ~Has(cache, j, l)
  BY DEF CacheReadDirect, Holding, Has
<1> HIDE DEF t
<1>4. /\ t \in Device /\ Agrees(cache, t)
      /\ \A k \in Sectors : Keeps(cache, Dev, cache, t, k)
      /\ DriverReads(Dev, l, a) => View(cache, t, l) = t.drv.data
  BY <1>3, Parts, Reading DEF t
<1>5. Dev' = t
  BY <1>1, <1>4 DEF t, SetDev, Dev, Device
<1>6. Good(t)
  BY <1>2, <1>4, <1>5, Parts DEF Good, IInv, TypeOK
<1>7. out' \in {ReadOk(l, View(cache', t, l)), ReadFailed(l)}
  BY <1>1, <1>2, <1>4 DEF t, Succeeded, ReplyCode
<1>8. QED
  BY <1>2, <1>4, <1>6, <1>7, IsDiskRead

(* cacheWrite into slot i over a table and a device that keep every        *)
(* sector: for a hit the current ones, for a miss those after eviction.    *)
LEMMA WriteThroughStep ==
    ASSUME IInv, NEW l \in Sectors, NEW d \in Data, NEW i \in Slots, NEW a \in Answers,
           NEW c \in Table, Unique(c), NEW s \in Device,
           \A j \in Slots \ {i} : c[j] = cache[j],
           c[i].valid => c[i].lba = l,
           \A j \in Slots : Has(c, j, l) => j = i,
           s.disk[l] = disk[l],
           \A k \in Sectors : Keeps(cache, Dev, c, s, k),
           WriteThrough(i, l, d, s, a),
           present' = present, buffered' \subseteq Slots
    PROVE  IInv' /\ DiskSpec!Write(l, d)
<1> DEFINE t == DriverWrite(s, l, d, a)
<1>1. cache' \in Table /\ Puts(c, i, l, d, cache')
  BY Parts DEF WriteThrough, Puts, Has, Entry, Table
<1> HIDE DEF t
<1>2. /\ t \in Device /\ Unique(cache') /\ Agrees(cache', t)
      /\ View(cache', t, l) = d
      /\ t.disk[l] = IF a = "stored" THEN d ELSE s.disk[l]
      /\ \A k \in Sectors \ {l} : Keeps(c, s, cache', t, k)
  BY <1>1, Writing DEF t
<1>3. Dev' = t
  BY <1>2 DEF t, WriteThrough, SetDev, Dev, Device
<1>4. age' \in [Slots -> Slots]
  BY AgesTyped DEF WriteThrough
<1>5. Good(t)
  BY <1>1, <1>2, <1>3, <1>4 DEF Good
<1>6. \A k \in Sectors \ {l} : Keeps(cache, Dev, cache', t, k)
  BY <1>2, KeepsTransitive
<1>7. out' = WriteDone(l, Succeeded(ReplyCode(a # "refused")))
  BY DEF WriteThrough
<1>8. QED
  BY <1>2, <1>5, <1>6, <1>7, IsDiskWrite

(* cacheWrite of a sector in the cache. *)
LEMMA WriteHitStep ==
    ASSUME IInv, NEW l \in Sectors, NEW d \in Data, CacheWriteHit(l, d)
    PROVE  IInv' /\ DiskSpec!Write(l, d)
<1>1. PICK i \in Holding(l), a \in Answers : WriteThrough(i, l, d, Dev, a)
  BY DEF CacheWriteHit
<1>2. i \in Slots /\ Has(cache, i, l)
  BY DEF Holding, Has
<1>3. \A j \in Slots : Has(cache, j, l) => j = i
  BY <1>2, Parts DEF Unique, Has
<1>4. present' = present /\ buffered' \subseteq Slots
  BY DEF CacheWriteHit, IInv, TypeOK
<1>5. Dev.disk[l] = disk[l] /\ \A k \in Sectors : Keeps(cache, Dev, cache, Dev, k)
  BY KeepsSame DEF Dev
<1>6. cache[i].valid => cache[i].lba = l
  BY <1>2 DEF Has
<1>7. QED
  BY <1>1, <1>2, <1>3, <1>4, <1>5, <1>6, Parts, WriteThroughStep

(* cacheWrite of a sector that evicts another. *)
LEMMA WriteMissStep ==
    ASSUME IInv, NEW l \in Sectors, NEW d \in Data, CacheWriteMiss(l, d)
    PROVE  IInv' /\ DiskSpec!Write(l, d)
<1>0. PICK i \in Slots : \E s \in Evictions(i), a \in Answers :
         buffered' = buffered \cup {i} /\ WriteThrough(i, l, d, s, a)
  BY DEF CacheWriteMiss
<1>1. PICK s \in Evictions(i), a \in Answers :
         buffered' = buffered \cup {i} /\ WriteThrough(i, l, d, s, a)
  BY <1>0
<1> DEFINE c == Evicted(i)
<1>2. Holding(l) = {} /\ present' = present
  BY DEF CacheWriteMiss
<1>3. /\ s \in Device /\ c \in Table /\ Unique(c) /\ ~c[i].valid
      /\ \A j \in Slots : ~Has(c, j, l)
      /\ s.disk[l] = disk[l]
      /\ \A k \in Sectors : Keeps(cache, Dev, c, s, k)
  BY <1>2, Evicting
<1>4. \A j \in Slots \ {i} : c[j] = cache[j]
  BY Parts DEF Evicted, Table
<1>5. buffered' \subseteq Slots
  BY <1>1 DEF IInv, TypeOK
<1> HIDE DEF c
<1>6. QED
  BY <1>1, <1>2, <1>3, <1>4, <1>5, WriteThroughStep

(* cacheWrite past the cache. *)
LEMMA WriteDirectStep ==
    ASSUME IInv, NEW l \in Sectors, NEW d \in Data, CacheWriteDirect(l, d)
    PROVE  IInv' /\ DiskSpec!Write(l, d)
<1>1. PICK a \in Answers :
         /\ SetDev(DriverWrite(Dev, l, d, a))
         /\ out' = WriteDone(l, Succeeded(ReplyCode(a # "refused")))
  BY DEF CacheWriteDirect
<1> DEFINE t == DriverWrite(Dev, l, d, a)
<1>2. cache' = cache /\ age' = age /\ present' = present /\ buffered' = buffered
  BY DEF CacheWriteDirect
<1>3. \A j \in Slots : ~Has(cache, j, l)
  BY DEF CacheWriteDirect, Holding, Has
<1>4. /\ t \in Device
      /\ t.drv = [valid |-> TRUE, lba |-> l, data |-> d]
      /\ t.disk[l] = IF a = "stored" THEN d ELSE Dev.disk[l]
      /\ \A k \in Lba \ {l} : t.disk[k] = Dev.disk[k]
  BY Parts, Constants, DriverWriteFacts
<1> HIDE DEF t
<1>5. Dev' = t
  BY <1>1, <1>4 DEF t, SetDev, Dev, Device
<1>6. Agrees(cache, t)
  BY <1>3, <1>4 DEF Agrees, Has
<1>7. Good(t)
  BY <1>2, <1>4, <1>5, <1>6, Parts DEF Good, IInv, TypeOK
<1>8. View(cache', t, l) = d
  BY <1>2, <1>3, <1>4, ViewUncached
<1>9. ASSUME NEW k \in Sectors \ {l} PROVE Keeps(cache, Dev, cache', t, k)
  <2>1. t.disk[k] = Dev.disk[k] /\ ~(t.drv.valid /\ t.drv.lba = k)
    BY <1>4, Constants
  <2>2. QED
    BY <1>2, <2>1, Parts, DeviceKeeps
<1>10. t.disk[l] = IF a = "stored" THEN d ELSE disk[l]
  BY <1>4 DEF Dev
<1>11. QED
  BY <1>1, <1>7, <1>8, <1>9, <1>10, IsDiskWrite

(* Mirroring the FAT writes outside the cached sectors: the platters keep  *)
(* every one of them, and only the buffer of the driver changes hands.     *)
LEMMA FlushStep ==
    ASSUME IInv, FlushFat
    PROVE  IInv' /\ DiskSpec!Flush
<1>1. /\ cache' = cache /\ age' = age /\ present' = present /\ buffered' = buffered
      /\ out' = FlushDone
  BY DEF FlushFat
<1>2. /\ Dev' \in Device /\ Agrees(cache, Dev')
      /\ \A k \in Sectors : Keeps(cache, Dev, cache, Dev', k)
  <2>1. CASE UNCHANGED <<disk, drv>>
    BY <2>1, Parts, KeepsSame DEF Dev
  <2>2. CASE ~UNCHANGED <<disk, drv>>
    <3>1. PICK last \in FatSlots, a \in [FatSlots -> Answers] :
             /\ disk' = [l \in Lba |->
                   IF \E i \in FatSlots : a[i] = "stored" /\ Mirror[cache[i].lba] = l
                   THEN cache[CHOOSE i \in FatSlots :
                                  a[i] = "stored" /\ Mirror[cache[i].lba] = l].data
                   ELSE disk[l]]
             /\ drv' = [valid |-> TRUE, lba |-> Mirror[cache[last].lba],
                        data |-> cache[last].data]
      BY <2>2 DEF FlushFat
    <3>2. \A i \in FatSlots : /\ i \in Slots /\ cache[i].data \in Data
                              /\ Mirror[cache[i].lba] \in Lba
                              /\ Mirror[cache[i].lba] \notin Sectors
      BY Parts, Constants DEF FatSlots, Table
    <3>3. \A k \in Sectors : disk'[k] = disk[k]
      BY <3>1, <3>2, Constants
    <3>4. disk' \in [Lba -> Data]
      <4>1. disk \in [Lba -> Data]
        BY DEF IInv, TypeOK
      <4>2. ASSUME NEW l \in Lba PROVE disk'[l] \in Data
        <5> DEFINE P(i) == a[i] = "stored" /\ Mirror[cache[i].lba] = l
        <5>1. CASE \E i \in FatSlots : P(i)
          <6>1. (CHOOSE i \in FatSlots : P(i)) \in FatSlots
            BY <5>1
          <6>2. QED
            BY <3>1, <3>2, <5>1, <6>1
        <5>2. CASE ~\E i \in FatSlots : P(i)
          BY <3>1, <4>1, <5>2
        <5>3. QED
          BY <5>1, <5>2
      <4>3. QED
        BY <3>1, <4>2
    <3>5. Dev' \in Device
      BY <3>1, <3>2, <3>4 DEF Dev, Device
    <3>6. Dev'.drv.lba \notin Sectors
      BY <3>1, <3>2 DEF Dev
    <3>7. Agrees(cache, Dev')
      BY <3>6, Parts DEF Agrees, Table
    <3>8. ASSUME NEW k \in Sectors PROVE Keeps(cache, Dev, cache, Dev', k)
      <4>1. Dev'.disk[k] = Dev.disk[k] /\ ~(Dev'.drv.valid /\ Dev'.drv.lba = k)
        BY <3>3, <3>6 DEF Dev
      <4>2. QED
        BY <4>1, Parts, DeviceKeeps
    <3>9. QED
      BY <3>5, <3>7, <3>8
  <2>3. QED
    BY <2>1, <2>2
<1>3. Good(Dev')
  BY <1>1, <1>2, Parts DEF Good, IInv, TypeOK
<1>4. IInv' /\ DiskSpec!Typed
  BY <1>3, GoodStep
<1>5. \A k \in Sectors : DiskSpec!Kept(k)
  BY <1>1, <1>2, KeptFromKeeps
<1>6. QED
  BY <1>1, <1>4, <1>5 DEF DiskSpec!Flush, DiskSpec!FlushDone, FlushDone

-----------------------------------------------------------------------------
(* The theorems.                                                           *)

(* mount establishes the invariant and the initial states of Disk. *)
LEMMA InitStep == Init => IInv /\ DiskSpec!Init
<1> SUFFICES ASSUME Init PROVE IInv /\ DiskSpec!Init
  OBVIOUS
<1>1. disk \in [Lba -> Data] /\ drv \in [valid : BOOLEAN, lba : Lba, data : Data]
      /\ ~drv.valid
  BY Constants DEF Init, DriveInit
<1>2. cache \in Table /\ \A i \in Slots : ~cache[i].valid
  BY NoEntryType DEF Init, Table, NoEntry
<1>3. IInv
  BY <1>1, <1>2 DEF Init, DriveInit, IInv, TypeOK, Table, OneSlotPerSector,
                    DriverAgreesWithCache
<1>4. \A l \in Sectors : Seen(l) = disk[l]
  BY <1>1, <1>2 DEF Seen
<1>5. DiskSpec!Init
  BY <1>1, <1>4, Constants DEF Init, DiskSpec!Init, DiskSpec!Contents,
     DiskSpec!NoResult, NoResult
<1>6. QED
  BY <1>3, <1>5

(* Every operation keeps the invariant and is an operation of Disk. *)
LEMMA NextStep ==
    ASSUME IInv, Next
    PROVE  IInv' /\ DiskSpec!Next
<1>1. ASSUME NEW l \in Sectors, CacheRead(l) PROVE IInv' /\ DiskSpec!Read(l)
  BY <1>1, ReadHitStep, ReadMissStep, ReadDirectStep DEF CacheRead
<1>2. ASSUME NEW l \in Sectors, NEW d \in Data, CacheWrite(l, d)
      PROVE  IInv' /\ DiskSpec!Write(l, d)
  BY <1>2, WriteHitStep, WriteMissStep, WriteDirectStep DEF CacheWrite
<1>3. QED
  BY <1>1, <1>2, FlushStep DEF Next, DiskSpec!Next

(* The invariants of the cache hold in every reachable state, whatever the *)
(* drive does and however the transfers fail.                              *)
THEOREM CacheInvariance == Spec => []IInv
<1>1. Init => IInv
  BY InitStep
<1>2. IInv /\ [Next]_vars => IInv'
  <2>1. ASSUME IInv, UNCHANGED vars PROVE IInv'
    BY <2>1 DEF vars, IInv, TypeOK, OneSlotPerSector, DriverAgreesWithCache
  <2>2. QED
    BY <2>1, NextStep
<1>3. QED
  BY <1>1, <1>2, PTL DEF Spec

(* Slots, ages, driver buffer and platters keep their types. *)
THEOREM CacheTypes == Spec => []TypeOK
<1>1. IInv => TypeOK
  BY DEF IInv
<1>2. QED
  BY <1>1, CacheInvariance, PTL

(* cacheLookup and cacheEvict never leave a sector in two slots. *)
THEOREM CacheUnique == Spec => []OneSlotPerSector
<1>1. IInv => OneSlotPerSector
  BY DEF IInv
<1>2. QED
  BY <1>1, CacheInvariance, PTL

(* The driver's sectorBuf and the cache of vfs never disagree. *)
THEOREM CacheAgreement == Spec => []DriverAgreesWithCache
<1>1. IInv => DriverAgreesWithCache
  BY DEF IInv
<1>2. QED
  BY <1>1, CacheInvariance, PTL

(* cacheRead, cacheWrite and flushFat over the ATA driver implement module *)
(* Disk: no failure of the drive makes a read return anything but the last *)
(* data written or what the platters hold.                                 *)
THEOREM CacheRefinement == Spec => ImplementsDisk
<1>1. Init => DiskSpec!Init
  BY InitStep
<1>2. IInv /\ [Next]_vars => [DiskSpec!Next]_(DiskSpec!vars)
  <2>1. ASSUME UNCHANGED vars PROVE UNCHANGED DiskSpec!vars
    <3>1. \A l : Seen(l)' = Seen(l)
      BY <2>1 DEF vars, Seen
    <3>2. QED
      BY <2>1, <3>1 DEF vars, DiskSpec!vars
  <2>2. QED
    BY <2>1, NextStep
<1>3. QED
  BY <1>1, <1>2, CacheInvariance, PTL DEF Spec, ImplementsDisk, DiskSpec!Spec

-----------------------------------------------------------------------------
(* Recency.                                                                *)

(* No two slots have the same age, and the sector used last is in the      *)
(* youngest slot, if it is in one.                                         *)
Distinct(ages) == \A i, j \in Slots : ages[i] = ages[j] => i = j
LastIsYoungest ==
    out.op \in {"read", "write"} =>
        \A i \in Slots : Has(cache, i, out.lba) => age[i] = CACHE_SIZE
RecencyInv == Distinct(age) /\ LastIsYoungest

(* Renewing the age of a slot makes it the youngest and keeps the order of *)
(* the others.                                                             *)
LEMMA TouchedDistinct ==
    ASSUME IInv, Distinct(age), NEW i \in Slots
    PROVE  Distinct(Touched(i)) /\ Touched(i)[i] = CACHE_SIZE
<1> DEFINE t == Touched(i)
<1>1. CACHE_SIZE \in Nat /\ \A j \in Slots : age[j] \in 1 .. CACHE_SIZE
  BY CacheAssumption DEF IInv, TypeOK, Slots
<1>2. /\ t[i] = CACHE_SIZE
      /\ \A j \in Slots : j # i =>
            t[j] = IF age[j] > age[i] THEN age[j] - 1 ELSE age[j]
  BY DEF Touched
<1>3. \A j \in Slots : j # i => age[j] # age[i]
  BY DEF Distinct
<1>4. ASSUME NEW j \in Slots, j # i PROVE t[j] < CACHE_SIZE
  BY <1>1, <1>2, <1>3, <1>4
<1>5. ASSUME NEW j \in Slots, NEW k \in Slots, j # i, k # i, t[j] = t[k] PROVE j = k
  <2>1. age[j] = age[k]
    BY <1>1, <1>2, <1>3, <1>5
  <2>2. QED
    BY <2>1 DEF Distinct
<1> HIDE DEF t
<1>6. ASSUME NEW j \in Slots, NEW k \in Slots, t[j] = t[k] PROVE j = k
  <2>1. j = i => k = i
    BY <1>1, <1>2, <1>4, <1>6
  <2>2. k = i => j = i
    BY <1>1, <1>2, <1>4, <1>6
  <2>3. QED
    BY <1>5, <1>6, <2>1, <2>2
<1>7. QED
  BY <1>2, <1>6 DEF Distinct, t

(* cacheEvict does not choose the slot used last if there is another.      *)
LEMMA YoungestIsNoVictim ==
    ASSUME IInv, Distinct(age), CACHE_SIZE > 1,
           NEW i \in Slots, cache[i].valid, age[i] = CACHE_SIZE
    PROVE  ~IsVictim(i)
<1>1. i \notin Empty
  BY DEF Empty
<1>2. PICK j \in Slots : j # i
  <2>1. 1 \in Slots /\ 2 \in Slots
    BY CacheAssumption DEF Slots
  <2>2. QED
    BY <2>1
<1>3. age[j] \in 1 .. CACHE_SIZE /\ age[j] # age[i]
  BY <1>2 DEF IInv, TypeOK, Slots, Distinct
<1>4. ~(age[i] <= age[j])
  BY <1>3, CacheAssumption
<1>5. QED
  BY <1>1, <1>4 DEF IsVictim

(* The slot that takes the sector of the operation has its age renewed.    *)
LEMMA PlacedIsYoungest ==
    ASSUME IInv, IInv', RecencyInv, NEW l \in Sectors, NEW i \in Slots,
           age' = Touched(i), Has(cache', i, l),
           out'.lba = l
    PROVE  RecencyInv'
<1>1. Distinct(age') /\ age'[i] = CACHE_SIZE
  BY TouchedDistinct DEF RecencyInv
<1>2. \A j \in Slots : Has(cache', j, l) => j = i
  BY DEF IInv, OneSlotPerSector, Has
<1>3. LastIsYoungest'
  BY <1>1, <1>2 DEF LastIsYoungest
<1>4. Distinct(age)'
  BY <1>1 DEF Distinct
<1>5. QED
  BY <1>3, <1>4 DEF RecencyInv

(* Nothing happened to the ages, and the sector of the operation is in no  *)
(* slot.                                                                   *)
LEMMA AbsentIsYoungest ==
    ASSUME RecencyInv, age' = age,
           out'.op \in {"read", "write"} => \A i \in Slots : ~Has(cache', i, out'.lba)
    PROVE  RecencyInv'
<1>1. Distinct(age)'
  BY DEF RecencyInv, Distinct
<1>2. QED
  BY <1>1 DEF RecencyInv, LastIsYoungest

(* A sector that was cached before the step is cached after it.            *)
StaysIn(l) == (\E i \in Slots : Has(cache, i, l)) => \E i \in Slots : Has(cache', i, l)

(* A slot that does not hold l may be refilled.                            *)
LEMMA RefillKeeps ==
    ASSUME IInv, NEW k \in Slots, NEW e, cache' = [cache EXCEPT ![k] = e],
           NEW l, ~Has(cache, k, l)
    PROVE  StaysIn(l)
<1>1. cache \in Table
  BY Parts
<1>2. \A j \in Slots : j # k => cache'[j] = cache[j]
  BY <1>1 DEF Table
<1>3. QED
  BY <1>2 DEF StaysIn, Has

(* An eviction refills no slot that holds the sector used last.            *)
LEMMA VictimIsOther ==
    ASSUME IInv, RecencyInv, CACHE_SIZE > 1, NEW l, NEW k \in Slots, IsVictim(k),
           out.op \in {"read", "write"}, out.lba = l
    PROVE  ~Has(cache, k, l)
<1> SUFFICES ASSUME Has(cache, k, l) PROVE FALSE
  OBVIOUS
<1>1. age[k] = CACHE_SIZE /\ cache[k].valid
  BY DEF RecencyInv, LastIsYoungest, Has
<1>2. QED
  BY <1>1, YoungestIsNoVictim DEF RecencyInv

(* The sector used last is still cached after the step.                    *)
LastStays ==
    \A l \in Sectors :
        CACHE_SIZE > 1 /\ out.op \in {"read", "write"} /\ out.lba = l => StaysIn(l)

(* cacheRead: a hit or a filled slot becomes the youngest, and a sector    *)
(* that could not be read, or not be cached, is in no slot.                *)
LEMMA ReadRecency ==
    ASSUME IInv, IInv', RecencyInv, NEW l \in Sectors, CacheRead(l)
    PROVE  RecencyInv' /\ LastStays
<1>0. cache \in Table
  BY Parts
<1>1. CASE CacheReadHit(l)
  <2>1. PICK i \in Holding(l) : age' = Touched(i) /\ out' = ReadOk(l, cache[i].data)
    BY <1>1 DEF CacheReadHit
  <2>2. cache' = cache
    BY <1>1 DEF CacheReadHit
  <2>3. i \in Slots /\ Has(cache', i, l) /\ out'.lba = l
    BY <2>1, <2>2 DEF Holding, Has, ReadOk
  <2>4. RecencyInv'
    BY <2>1, <2>3, PlacedIsYoungest
  <2>5. QED
    BY <2>2, <2>4 DEF LastStays, StaysIn
<1>2. CASE CacheReadMiss(l)
  <2>0. PICK i \in Slots : IsVictim(i) /\ \E s \in Evictions(i), a \in Answers : ReadInto(i, l, s, a)
    BY <1>2 DEF CacheReadMiss
  <2>1. PICK s \in Evictions(i), a \in Answers : ReadInto(i, l, s, a)
    BY <2>0
  <2> DEFINE t == DriverAfterRead(s, l, a)
  <2>2. \/ /\ cache' = [cache EXCEPT ![i] = Entry(l, t.drv.data, FALSE)]
           /\ age' = Touched(i) /\ out' = ReadOk(l, t.drv.data)
        \/ /\ cache' = [cache EXCEPT ![i] = NoEntry]
           /\ age' = age /\ out' = ReadFailed(l)
    BY <2>1 DEF ReadInto
  <2> HIDE DEF t
  <2>3. PICK e : cache' = [cache EXCEPT ![i] = e]
    BY <2>2
  <2>4. LastStays
    BY <2>0, <2>3, VictimIsOther, RefillKeeps DEF LastStays
  <2>5. CASE age' = Touched(i) /\ out' = ReadOk(l, t.drv.data)
             /\ cache' = [cache EXCEPT ![i] = Entry(l, t.drv.data, FALSE)]
    <3>1. Has(cache', i, l) /\ out'.lba = l
      BY <1>0, <2>5 DEF Has, Entry, ReadOk, Table
    <3>2. QED
      BY <2>4, <2>5, <3>1, PlacedIsYoungest
  <2>6. CASE age' = age /\ out' = ReadFailed(l) /\ cache' = [cache EXCEPT ![i] = NoEntry]
    <3>1. out'.lba = l
      BY <2>6 DEF ReadFailed
    <3>2. \A j \in Slots : cache'[j] = cache[j] \/ ~cache'[j].valid
      BY <1>0, <2>6 DEF Table, NoEntry
    <3>3. \A j \in Slots : ~Has(cache, j, l)
      BY <1>2 DEF CacheReadMiss, Holding, Has
    <3>4. \A j \in Slots : ~Has(cache', j, out'.lba)
      BY <3>1, <3>2, <3>3 DEF Has
    <3>5. QED
      BY <2>4, <2>6, <3>4, AbsentIsYoungest
  <2>7. QED
    BY <2>2, <2>5, <2>6
<1>3. CASE CacheReadDirect(l)
  <2>1. cache' = cache /\ age' = age /\ \A j \in Slots : ~Has(cache, j, l)
    BY <1>3 DEF CacheReadDirect, Holding, Has
  <2>2. out'.lba = l
    BY <1>3 DEF CacheReadDirect, ReadOk, ReadFailed
  <2>3. RecencyInv'
    BY <2>1, <2>2, AbsentIsYoungest
  <2>4. QED
    BY <2>1, <2>3 DEF LastStays, StaysIn
<1>4. QED
  BY <1>1, <1>2, <1>3 DEF CacheRead

(* cacheWrite: the slot written becomes the youngest, also when the drive  *)
(* refuses the data.                                                       *)
LEMMA WriteRecency ==
    ASSUME IInv, IInv', RecencyInv, NEW l \in Sectors, NEW d \in Data, CacheWrite(l, d)
    PROVE  RecencyInv' /\ LastStays
<1>0. cache \in Table
  BY Parts
<1>1. ASSUME NEW i \in Slots, NEW s, NEW a, WriteThrough(i, l, d, s, a)
      PROVE  /\ RecencyInv' /\ cache' = [cache EXCEPT ![i] = Entry(l, d, TRUE)]
             /\ Has(cache', i, l)
  <2>1. cache' = [cache EXCEPT ![i] = Entry(l, d, TRUE)] /\ age' = Touched(i)
    BY <1>1 DEF WriteThrough
  <2>2. out'.lba = l
    BY <1>1 DEF WriteThrough, WriteDone
  <2>3. Has(cache', i, l)
    BY <1>0, <2>1 DEF Has, Entry, Table
  <2>4. QED
    BY <2>1, <2>2, <2>3, PlacedIsYoungest
<1>2. CASE CacheWriteHit(l, d)
  <2>1. PICK i \in Holding(l), a \in Answers : WriteThrough(i, l, d, Dev, a)
    BY <1>2 DEF CacheWriteHit
  <2>2. i \in Slots /\ Has(cache, i, l)
    BY DEF Holding, Has
  <2>3. ASSUME NEW k \in Sectors PROVE StaysIn(k)
    <3>1. CASE k = l
      BY <1>1, <2>1, <2>2, <3>1 DEF StaysIn
    <3>2. CASE k # l
      <4>1. ~Has(cache, i, k)
        BY <2>2, <3>2 DEF Has
      <4>2. QED
        BY <1>1, <2>1, <2>2, <4>1, RefillKeeps
    <3>3. QED
      BY <3>1, <3>2
  <2>4. QED
    BY <1>1, <2>1, <2>2, <2>3 DEF LastStays
<1>3. CASE CacheWriteMiss(l, d)
  <2>0. PICK i \in Slots :
           IsVictim(i) /\ \E s \in Evictions(i), a \in Answers : WriteThrough(i, l, d, s, a)
    BY <1>3 DEF CacheWriteMiss
  <2>1. PICK s \in Evictions(i), a \in Answers : WriteThrough(i, l, d, s, a)
    BY <2>0
  <2>2. RecencyInv' /\ cache' = [cache EXCEPT ![i] = Entry(l, d, TRUE)]
    BY <1>1, <2>1
  <2>3. QED
    BY <2>0, <2>2, VictimIsOther, RefillKeeps DEF LastStays
<1>4. CASE CacheWriteDirect(l, d)
  <2>1. cache' = cache /\ age' = age /\ \A j \in Slots : ~Has(cache, j, l)
    BY <1>4 DEF CacheWriteDirect, Holding, Has
  <2>2. out'.lba = l
    BY <1>4 DEF CacheWriteDirect, WriteDone
  <2>3. RecencyInv'
    BY <2>1, <2>2, AbsentIsYoungest
  <2>4. QED
    BY <2>1, <2>3 DEF LastStays, StaysIn
<1>5. QED
  BY <1>2, <1>3, <1>4 DEF CacheWrite

(* Every operation; flushFat uses no slot.                                 *)
LEMMA RecencyStep ==
    ASSUME IInv, RecencyInv, Next
    PROVE  RecencyInv' /\ LastStays
<1>1. IInv'
  BY NextStep
<1>2. CASE FlushFat
  <2>1. cache' = cache /\ age' = age /\ out' = FlushDone
    BY <1>2 DEF FlushFat
  <2>2. out'.op \notin {"read", "write"}
    BY <2>1 DEF FlushDone
  <2>3. RecencyInv'
    BY <2>1, <2>2, AbsentIsYoungest
  <2>4. QED
    BY <2>1, <2>3 DEF LastStays, StaysIn
<1>3. QED
  BY <1>1, <1>2, ReadRecency, WriteRecency DEF Next

(* LastUsedSurvives: cacheEvict goes by recency, for any number of slots. *)
THEOREM CacheRecency == Spec => LastUsedSurvives
<1>1. Init => RecencyInv
  <2> SUFFICES ASSUME Init PROVE RecencyInv
    OBVIOUS
  <2>1. \A i \in Slots : age[i] = i /\ ~cache[i].valid
    BY DEF Init, NoEntry
  <2>2. QED
    BY <2>1 DEF RecencyInv, Distinct, LastIsYoungest, Has
<1>2. IInv /\ RecencyInv /\ [Next]_vars => RecencyInv'
  <2>1. ASSUME RecencyInv, UNCHANGED vars PROVE RecencyInv'
    BY <2>1 DEF vars, RecencyInv, Distinct, LastIsYoungest, Has
  <2>2. QED
    BY <2>1, RecencyStep
<1>3. ASSUME IInv, RecencyInv, [Next]_vars
      PROVE  [\A l \in Sectors :
                 /\ CACHE_SIZE > 1
                 /\ out.op \in {"read", "write"} /\ out.lba = l
                 /\ Holding(l) # {}
                 => Holding(l)' # {}]_vars
  <2> SUFFICES ASSUME Next, NEW l \in Sectors, CACHE_SIZE > 1,
                      out.op \in {"read", "write"}, out.lba = l, Holding(l) # {}
               PROVE  Holding(l)' # {}
    BY <1>3
  <2>1. StaysIn(l)
    BY <1>3, RecencyStep DEF LastStays
  <2>2. QED
    BY <2>1 DEF StaysIn, Holding, Has
<1>4. QED
  BY <1>1, <1>2, <1>3, CacheInvariance, PTL DEF Spec, LastUsedSurvives
=============================================================================
