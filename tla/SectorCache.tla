---------------------------- MODULE SectorCache -----------------------------
(***************************************************************************)
(* The sector I/O below the FAT32 filesystem: the write-through LRU cache  *)
(* of the vfs server, the ATA client library, the one-sector buffer of the *)
(* ATA driver, and a drive whose transfers may fail.  vfs is the only      *)
(* client of the driver and blocks until it answers, so a cache operation  *)
(* with the requests it makes is one step.                                 *)
(***************************************************************************)
EXTENDS Naturals

CONSTANTS
    Sectors,        \* sectors that vfs reads and writes through its cache
    Fat1,           \* those of them that belong to the first FAT
    Mirror,         \* Mirror[l] is the second FAT's copy of l \in Fat1
    Data,           \* contents of a sector
    CACHE_SIZE,     \* slots of the cache
    Outcomes        \* what the drive may do with a transfer
                    \* (the request itself reaches the driver)

ASSUME CacheAssumption ==
    /\ CACHE_SIZE \in Nat \ {0}
    /\ Fat1 \subseteq Sectors
    /\ Mirror \in [Fat1 -> {Mirror[l] : l \in Fat1} \ Sectors]
    /\ \A l, k \in Fat1 : Mirror[l] = Mirror[k] => l = k
    /\ Outcomes \subseteq {"stored", "late", "refused"}
    /\ Sectors # {} /\ Data # {}

Lba == Sectors \cup {Mirror[l] : l \in Fat1}
Slots == 1 .. CACHE_SIZE

VARIABLES
    present,    \* Ata::present: the drive answered IDENTIFY
    disk,       \* what the platters hold
    drv,        \* the driver's sectorBuf, cachedLba and cacheValid
    cache,      \* CacheEntry[]: valid, lba, dirty and data
    buffered,   \* slots whose data buffer has been allocated
    age,        \* order of last use: 1 is the oldest
    out         \* result of the last operation

vars == <<present, disk, drv, cache, buffered, age, out>>

NoResult == [op |-> "none"]
FlushDone == [op |-> "flush"]
ReadOk(l, d) == [op |-> "read", lba |-> l, ok |-> TRUE, data |-> d]
ReadFailed(l) == [op |-> "read", lba |-> l, ok |-> FALSE]
WriteDone(l, ok) == [op |-> "write", lba |-> l, ok |-> ok]

-----------------------------------------------------------------------------
(* The ATA driver.                                                         *)

(* Contents of buffers that are not valid; nothing reads them. *)
Sector0 == CHOOSE l \in Sectors : TRUE
Data0 == CHOOSE d \in Data : TRUE

(* Ata::init: the drive may be missing. *)
DriveInit ==
    /\ present \in BOOLEAN
    /\ drv = [valid |-> FALSE, lba |-> Sector0, data |-> Data0]

(* poll and waitForData: how a command may end.  A drive that refuses it   *)
(* sets Err or Df, or leaves Drq clear; an absent one refuses everything.  *)
(* An error raised after the data ("late") is not looked at.               *)
Answers == IF present THEN Outcomes ELSE {"refused"}

(* The state a request works on: the platters and the driver's buffer. *)
Dev == [disk |-> disk, drv |-> drv]

(* Mutation: the buffer of the driver is not refreshed by a write. *)
StaleDriverWrite(s, l, d, a) ==
    [s EXCEPT !.disk = IF a = "stored" THEN [@ EXCEPT ![l] = d] ELSE @]

(* Ata::writeSector of the driver: the buffer takes the data first. *)
DriverWrite(s, l, d, a) ==
    [disk |-> IF a = "stored" THEN [s.disk EXCEPT ![l] = d] ELSE s.disk,
     drv |-> [valid |-> TRUE, lba |-> l, data |-> d]]

(* Ata::readSector of the driver: a hit in its buffer needs no transfer. *)
DriverHolds(s, l) == s.drv.valid /\ s.drv.lba = l

DriverReads(s, l, a) == DriverHolds(s, l) \/ a # "refused"
DriverAfterRead(s, l, a) ==
    IF DriverHolds(s, l) \/ a = "refused" THEN s
    ELSE [s EXCEPT !.drv = [valid |-> TRUE, lba |-> l, data |-> s.disk[l]]]

(* The reply of the driver's service loop, and how the client reads it. *)
ReplyCode(ok) == IF ok THEN 0 ELSE 1
Succeeded(code) == code = 0

-----------------------------------------------------------------------------
(* The cache.                                                              *)

(* Mutation: dirty entries are not looked up. *)
CleanHolding(l) == {i \in Slots : cache[i].valid /\ ~cache[i].dirty /\ cache[i].lba = l}
(* cacheLookup: the slots that hold sector l. *)
Holding(l) == {i \in Slots : cache[i].valid /\ cache[i].lba = l}

(* Mutation: the age counter runs past the range of the ages. *)
TouchedPast(i) == [age EXCEPT ![i] = CACHE_SIZE + 1]
(* Mutation: using an entry does not renew its age. *)
TouchedNever(i) == age
(* Slot i becomes the most recently used one.  Ages are kept up to order:  *)
(* the 32-bit counter the code takes them from is assumed not to wrap.     *)
Touched(i) ==
    [j \in Slots |-> IF j = i THEN CACHE_SIZE
                     ELSE IF age[j] > age[i] THEN age[j] - 1 ELSE age[j]]

(* cacheEvict: the first invalid slot, else the least recently used one. *)
Empty == {i \in Slots : ~cache[i].valid}
IsVictim(i) ==
    IF Empty # {} THEN i \in Empty /\ \A j \in Empty : i <= j
    ELSE \A j \in Slots : age[i] <= age[j]

(* A dirty victim is written back; the result is ignored. *)
Evictions(i) ==
    IF cache[i].valid /\ cache[i].dirty
    THEN {DriverWrite(Dev, cache[i].lba, cache[i].data, a) : a \in Answers}
    ELSE {Dev}

Entry(l, d, dirty) == [valid |-> TRUE, lba |-> l, data |-> d, dirty |-> dirty]
NoEntry == [valid |-> FALSE, lba |-> Sector0, data |-> Data0, dirty |-> FALSE]

SetDev(s) == disk' = s.disk /\ drv' = s.drv

(* cacheRead, hit. *)
CacheReadHit(l) ==
    /\ \E i \in Holding(l) :
          /\ age' = Touched(i)
          /\ out' = ReadOk(l, cache[i].data)
    /\ UNCHANGED <<present, disk, drv, cache, buffered>>

(* cacheRead into slot i, after whatever made room there (s): the sector   *)
(* is read, and a slot whose read failed stays empty.                      *)
ReadInto(i, l, s, a) ==
    LET t == DriverAfterRead(s, l, a)
        code == ReplyCode(DriverReads(s, l, a))
    IN /\ SetDev(t)
       /\ \/ /\ Succeeded(code)
             /\ cache' = [cache EXCEPT ![i] = Entry(l, t.drv.data, FALSE)]
             /\ age' = Touched(i)
             /\ out' = ReadOk(l, t.drv.data)
          \/ /\ ~Succeeded(code)
             /\ cache' = [cache EXCEPT ![i] = NoEntry]
             /\ age' = age
             /\ out' = ReadFailed(l)

(* cacheRead, miss: make room, then read the sector into the slot. *)
CacheReadMiss(l) ==
    /\ Holding(l) = {}
    /\ \E i \in {j \in Slots : IsVictim(j)} : \E s \in Evictions(i), a \in Answers :
          /\ buffered' = buffered \cup {i}
          /\ ReadInto(i, l, s, a)
    /\ UNCHANGED present

(* cacheRead when the slot's buffer cannot be allocated: uncached. *)
CacheReadDirect(l) ==
    /\ Holding(l) = {}
    /\ \E i \in Slots, a \in Answers :
          LET s == DriverAfterRead(Dev, l, a)
          IN /\ IsVictim(i) /\ i \notin buffered
             /\ SetDev(s)
             /\ out' = IF Succeeded(ReplyCode(DriverReads(Dev, l, a)))
                       THEN ReadOk(l, s.drv.data) ELSE ReadFailed(l)
    /\ UNCHANGED <<present, cache, buffered, age>>

CacheRead(l) == CacheReadHit(l) \/ CacheReadMiss(l) \/ CacheReadDirect(l)

(* cacheWrite into slot i, after whatever made room there (s): the entry   *)
(* takes the data and is dirty, then the sector is written through.        *)
WriteThrough(i, l, d, s, a) ==
    /\ cache' = [cache EXCEPT ![i] = Entry(l, d, TRUE)]
    /\ age' = Touched(i)
    /\ SetDev(DriverWrite(s, l, d, a))
    /\ out' = WriteDone(l, Succeeded(ReplyCode(a # "refused")))

CacheWriteHit(l, d) ==
    /\ \E i \in Holding(l), a \in Answers : WriteThrough(i, l, d, Dev, a)
    /\ UNCHANGED <<present, buffered>>

CacheWriteMiss(l, d) ==
    /\ Holding(l) = {}
    /\ \E i \in {j \in Slots : IsVictim(j)} : \E s \in Evictions(i), a \in Answers :
          /\ buffered' = buffered \cup {i}
          /\ WriteThrough(i, l, d, s, a)
    /\ UNCHANGED present

CacheWriteDirect(l, d) ==
    /\ Holding(l) = {}
    /\ \E i \in Slots, a \in Answers :
          /\ IsVictim(i) /\ i \notin buffered
          /\ SetDev(DriverWrite(Dev, l, d, a))
          /\ out' = WriteDone(l, Succeeded(ReplyCode(a # "refused")))
    /\ UNCHANGED <<present, cache, buffered, age>>

CacheWrite(l, d) ==
    CacheWriteHit(l, d) \/ CacheWriteMiss(l, d) \/ CacheWriteDirect(l, d)

(* flushFat: the dirty first-FAT sectors in the cache, in slot order, are  *)
(* written to the second FAT, past the cache and ignoring the results.     *)
FatSlots == {i \in Slots : cache[i].valid /\ cache[i].dirty /\ cache[i].lba \in Fat1}
FlushFat ==
    /\ \/ FatSlots = {} /\ UNCHANGED <<disk, drv>>
       \/ \E last \in FatSlots, a \in [FatSlots -> Answers] :
             /\ \A i \in FatSlots : i <= last
             /\ disk' = [l \in Lba |->
                   IF \E i \in FatSlots : a[i] = "stored" /\ Mirror[cache[i].lba] = l
                   THEN cache[CHOOSE i \in FatSlots :
                                  a[i] = "stored" /\ Mirror[cache[i].lba] = l].data
                   ELSE disk[l]]
             /\ drv' = [valid |-> TRUE, lba |-> Mirror[cache[last].lba],
                        data |-> cache[last].data]
    /\ out' = FlushDone
    /\ UNCHANGED <<present, cache, buffered, age>>

-----------------------------------------------------------------------------
(* mount allocates the table; the disk may hold anything, with two equal   *)
(* copies of the FAT as mkfs leaves them.                                  *)
Init ==
    /\ DriveInit
    /\ disk \in [Lba -> Data]
    /\ \A l \in Fat1 : disk[Mirror[l]] = disk[l]
    /\ cache = [i \in Slots |-> NoEntry]
    /\ buffered = {}
    /\ age = [i \in Slots |-> i]
    /\ out = NoResult

Next ==
    \/ \E l \in Sectors : CacheRead(l)
    \/ \E l \in Sectors, d \in Data : CacheWrite(l, d)
    \/ FlushFat

Spec == Init /\ [][Next]_vars

-----------------------------------------------------------------------------
(* Properties.                                                             *)

TypeOK ==
    /\ present \in BOOLEAN
    /\ disk \in [Lba -> Data]
    /\ drv \in [valid : BOOLEAN, lba : Lba, data : Data]
    /\ cache \in [Slots -> [valid : BOOLEAN, lba : Sectors, data : Data, dirty : BOOLEAN]]
    /\ buffered \subseteq Slots
    /\ age \in [Slots -> Slots]

(* A sector is never in two slots of the cache: a copy that a later write  *)
(* misses would be read or written back in place of the new data.          *)
OneSlotPerSector ==
    \A i, j \in Slots :
        cache[i].valid /\ cache[j].valid /\ cache[i].lba = cache[j].lba => i = j

(* The buffer of the driver and the cache of vfs never disagree about a    *)
(* sector that both hold, whatever transfers failed on the way.            *)
DriverAgreesWithCache ==
    \A i \in Slots :
        cache[i].valid /\ drv.valid /\ drv.lba = cache[i].lba =>
            drv.data = cache[i].data

(* Eviction goes by recency: with more than one slot, the sector that was  *)
(* used last outlives the operation that follows.                          *)
LastUsedSurvives ==
    [][\A l \in Sectors :
          /\ CACHE_SIZE > 1
          /\ out.op \in {"read", "write"} /\ out.lba = l
          /\ Holding(l) # {}
          => Holding(l)' # {}]_vars

(* What a read of sector l returns now: the cached copy, else the buffer   *)
(* of the driver, else the platters.                                       *)
Seen(l) ==
    IF \E i \in Slots : cache[i].valid /\ cache[i].lba = l
    THEN cache[CHOOSE i \in Slots : cache[i].valid /\ cache[i].lba = l].data
    ELSE IF drv.valid /\ drv.lba = l THEN drv.data ELSE disk[l]

DiskSpec == INSTANCE Disk WITH
    stored <- [l \in Sectors |-> disk[l]],
    seen <- [l \in Sectors |-> Seen(l)],
    Silent <- "late" \in Outcomes

(* The two caches over a failing drive implement module Disk: a read never *)
(* returns anything but the last data written to the sector or what the    *)
(* platters hold, and an accepted write is stored unless the drive lost it *)
(* after the transfer.                                                     *)
ImplementsDisk == DiskSpec!Spec
=============================================================================
