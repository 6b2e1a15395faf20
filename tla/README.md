# CassiOS: TLA+ models and proofs

CassiOS is an i386 microkernel with synchronous message passing. The kernel owns
processes, memory, the scheduler and interrupt routing; drivers and services are
user programs that talk through `send`, `receive`, `reply` and `notify`. This
directory holds TLA+ modules translated from `src/kernel`, `src/userspace` and
`src/libs`, TLC configurations, and proofs checked by TLAPS. `PROJECT.json` maps
every definition to the lines it models, and lists the hazards line by line.

## 1. Inventory

| Component | State | Operations | Interacts with |
|---|---|---|---|
| Scheduler (`core/scheduler.cpp`) | `tickCount`, process states | `schedule` (timer), `reschedule` (a call blocked), `exitCurrent` | process list, every blocking call, CR3 |
| Process manager (`core/process.cpp`) | process list, `nextPid`, `currentProcess`; per process: state, send and notify queue, outgoing message, `waitPid`, heap bounds | `create`, `spawn`, `destroy`, queue push and pop | wakes senders and waiters, frees frames |
| IPC calls (`core/syscall.cpp`) | saved `eax`, user buffers | `send`, `receive`, `reply`, `notify`, `waitpid` | queues, scheduler, pending interrupts |
| IRQ forwarding (`hardware/irq.cpp`) | `forwardPid`, `pendingIrq` | `registerForward`, `handleIrq`, `deliverPending` | wakes drivers in `receive` |
| PIT (`hardware/pit.cpp`) | `ticks` | `handleInterrupt`, `sleep` | scheduler |
| Physical memory (`memory/physical.cpp`) | bitmap | `init`, `allocFrame`, `freeFrame` | everything that allocates |
| Paging (`memory/paging.cpp`) | page directories and tables, CR3 | `createAddressSpace`, `mapUserPage`, `destroyAddressSpace` | frame allocator |
| ELF loader, `exec`, `sbrk`, `mapDevice` | `heapBase`, `heapBreak` | as named | frames, process creation |
| Boot (`core/kernel.cpp`) | – | `start` | all of the above |
| Heap allocator (`libs/alloc`, `libs/heap`) | linked block headers, region end | `allocate`, `free`, `extend` | kernel heap; `sbrk` in programs |
| Nameserver | name table | register, lookup, list | all clients |
| ATA driver (`drivers/ata`) | one sector buffer, presence of the drive | read, write sector | vfs |
| Sector cache of vfs | slots with sector, dirty flag, age, buffer | `cacheRead`, `cacheWrite`, eviction, `flushFat` | ATA driver |
| FAT32 directories | chains of 32-byte entries, LFN runs | find, create, remove, read entry | FAT, cache |
| FAT32 files | FAT, clusters, handles | open, read, write, mkdir, remove, stat, list | shell commands |
| Keyboard driver | prefix and modifier flags, ring, held reader | interrupt (drain), read request | IRQ forwarding, shell |
| Display, terminal | back buffer as a ring of lines, framebuffer; cells, cursor, postponed scroll | draw, scroll, flush; write, clear, cursor | shell |
| Shell | line buffer, cursor, prompt position, working directory | line editing, 16 commands | terminal, keyboard, vfs, ns |
| Mouse driver | packet bytes, motion | interrupt, read | nobody reads it |

What is hard here:

* **Concurrency.** User programs interleave at every system call; and because
  vector 0x80 is a *trap* gate, the timer and the devices also interrupt the
  kernel inside a call. Key bytes, interrupts and read requests race.
* **Wake-ups.** A receiver has three sources of work (pending interrupts,
  notifications, senders), each of which is either delivered to a sleeping
  receiver or kept for a busy one. Losing the distinction loses a wake-up.
* **Failure.** Processes exit while others wait for them, queue nodes come from a
  finite heap, `exec` and `sbrk` can run out of frames at any allocation, drives
  refuse or lose transfers, and volumes fill up in the middle of an operation.
* **Stale copies.** A sector lives on the platters, in the driver's buffer and in
  the cache of vfs; a screen in cells, in the back buffer and in the framebuffer.
* **Long sequences of legal calls.** Directories, cluster chains and the heap are
  linked structures that a thousand operations must not tangle.
* **Liveness.** Round robin must reach everybody; calls among servers must not
  form a cycle; every key must reach the shell.

## 2. Modules

| Module | Models | Granularity |
|---|---|---|
| `Scheduler` | the process states and the running process, with the scheduler's choices `FindNextReady`, `Demoted`, `Resumed`, `Successor` and the invariant `IdleTaskRunnable` its two users share | operators; `state`, `current` |
| `Kernel` | process list, scheduler, IPC, `waitpid`, process creation and exit, IRQ forwarding | one entry into the kernel per action |
| `Rpc` (extends `Kernel`) | the same kernel under the discipline of the services: reply only to a caller whose message was received | one entry per action |
| `KernelPreempt` (extends `Scheduler`) | the blocking calls with interrupts between their steps | one step of a call per action |
| `Memory` | frame bitmap, address spaces, `exec`, `sbrk`, `mapDevice`, exit, CR3 | one whole call per action |
| `Heap` | the allocator of kernel and programs, over `sbrk` | one call per action |
| `SectorCache`, implements `Disk` | the cache of vfs, the ATA client and driver, a failing drive | one cache operation with its requests per action |
| `Directory`, implements `NameSet` | entries and long names of one FAT32 directory | one vfs request per action |
| `Fat32`, implements `FileTree` | FAT, files, directories, paths, handles, the file commands of the shell | one vfs request per action |
| `Keyboard` | scancodes, driver, held reader, interrupt | a byte, an interrupt, a message per action |
| `Screen` | terminal and display in character cells | operators |
| `Console` (extends `Keyboard`, `Screen`), implements `TypeAhead` | the shell's line editor between keyboard and screen | one key per action |
| `KernelProofs`, `MemoryProofs`, `HeapProofs`, `SectorCacheProofs`, `DirectoryProofs`, `Fat32Proofs`, `ConsoleProofs` | theorems about the module each is named after; `KernelProofs` also those about `Scheduler`, `Rpc` and `KernelPreempt`, `ConsoleProofs` those about `Keyboard` and `Screen` | – |
| `LoopTheorems` | induction over the rounds of a loop, quotients, minima; used by the modules of proofs with loops | – |
| `MC*` | instances for TLC | – |

`Disk`, `NameSet`, `FileTree` and `TypeAhead` are abstract specifications: what
the component promises to its users, without how. `ImplementsDisk`,
`ImplementsNameSet`, `ImplementsFileTree` and `ImplementsTypeAhead` are the
refinements, each with its mapping in the detailed module.

### Kernel

The variables are the fields named beside them in the module. `state[p] =
"Empty"` stands for "no such process in the list"; as the list is append-only
and pids grow, list order is pid order, and `FindNextReady` walks pids
circularly. `eax[p]` and `buf[p]` are the `eax` slot of the saved frame and the
buffer at `msgPtr`: what the program will see when its call returns. A message
is its kind, its sender and the process it was composed for; contents and bulk
data are left out. `msg[p]` is the target of the message kept in the sender.

An action is a call from the trap to the return, including the `reschedule` that
ends a blocking one: `Send` is `SendError`, `SendDeliver`, `SendEnqueue` or
`SendNoMemory`, as the code branches; `HandleIrq(0)` is the timer, which runs
`Schedule` and then delivers as any interrupt does. A program may make any call
of `Calls` with any argument. A push to a queue may fail at any time, since the
kernel heap is shared with everything else, and always fails at `QueueBound`.
Once a process is switched out without being blocked, its frame and its buffer
belong to the program again (`Preempted`, `SavedEax`, `SavedBuf`): the timer
saves a different frame there.

### Rpc

`Kernel` lets a program reply to any blocked process. The services do not:
`AnswerCaller` restricts `reply` to `Served(p)`, the callers that `p` has
received and not answered. `RpcSpec` is the kernel under that restriction only;
`ServeSpec` also fixes the loops: servers receive, call the servers they use and
reply, clients call servers.

### KernelPreempt

`pc[p]` is where inside its call a process is, `target[p]` the `Process*` it
holds. The interrupt handlers run behind interrupt gates and stay atomic. Only
who is blocked, queued or waiting is kept. A step that would dereference a
process freed meanwhile is disabled: the model says nothing of what such a
dereference does, so what it finds is wrong even while all memory is still
allocated.

### Memory

Addresses are in pages and frames. The bitmap is the set `free` of clear bits
and `AllocFrame` takes the lowest. An address space under construction is a
record passed through `AddPage` and `MapUserPage`, so that each of the
allocations can be the one that fails, with what the code leaves behind. The
loops of the ELF loader, of `sbrk` and of `mapDevice` are recursive functions of
the number of rounds done (`AddPages`, `MapFrames`). `Ram`
is what the allocator has left when the first process is spawned: on a PC these
frames lie above 1 MiB, because the 256 frames of the kernel heap exhaust the
low ones (160 at most). Whether a file is a valid executable is one choice;
which process runs next is arbitrary here (it is `Kernel`'s subject). Device
memory passed to `mapDevice` is device memory: the call checks nothing, and the
drivers of the repository pass the VGA buffer and the framebuffer only. The
instance has both: frame 100 stands for memory below 1 MiB, which
`destroyAddressSpace` leaves alone, frame 200 for a framebuffer above it, which
goes to the free list when its process exits and may then be given out like RAM.
`Spec` lets every process exit. `ResidentSpec` is the system as it ships, where
the only program with a framebuffer, the display driver, never leaves its loop.
Executables have the segments that the linker scripts give them: page aligned,
from 0x00400000 on and below the stack, which `elf.cpp:76` does not check; a file
of which a later segment is rejected, after the first ones were mapped, fails as
one that is rejected at once (`NotElf`), with the same frames given back.

### Heap

`blocks` maps the address of every header in the list to its size, its flag and
the next address, so that headers are where the code puts them and arithmetic on
addresses (split, merge, extend) can go wrong. The loop of `free` is kept round
by round (`Round`): a round absorbs the next block into the one it looks at or
moves on. `live` is what the program holds, and `free` is called for that only:
the checks for pointers outside the region and for blocks that are free already
(`alloc.cpp:71`) return early and are left out.
`Alloc` finds a block, `AllocGrow` extends through `sbrk` first, `AllocNull` is
`sbrk` failing; the first call builds the heap from one page.

### SectorCache and Disk

`disk`, `drv` and `cache` are the three copies of a sector. A request goes
through a *device* (platters and driver buffer): `DriverWrite` and
`DriverAfterRead` give the device after a transfer that ended in one of
`Outcomes`: stored, refused (reported), or "late", an error that the drive
raises after the data, which the driver does not look at. Eviction writes a
dirty victim back and ignores the result; without a buffer for the slot the
operation bypasses the cache. `age` keeps the order of the `age` stamps
instead of their values: the 32-bit counter is assumed not to wrap. Requests
are assumed to reach the driver: a `send` that fails for want of a queue node,
whose result the client ignores, is not among the outcomes.
`DriverAgreesWithCache` depends on it, as the driver would keep the old data of
a sector that the cache has renewed.

`Disk` has two values per sector: what is stored and what a read returns. They
differ only for a sector whose last write did not reach the platters; such a
sector may settle, once, on either value, and never shows a third. A refused
write is not stored but still seen, which is what the code does: the cache keeps
the data of a write that it reported as failed.

### Directory and NameSet

The chain is a sequence of entries in cluster order. A long name is a run of LFN
entries and a short one; an LFN entry carries which piece of which name it
spells, and `EntryName` reassembles what `readDirEntry` would, so that a stray
piece shows up as a wrong name. `createEntry` searches a run of free entries,
over cluster boundaries, and grows the chain; `removeEntry` marks what its loop
marks. A volume without a free cluster makes creation fail. A directory that is
removed has one cluster here; the chain of one that had grown is freed as a whole.

### Fat32 and FileTree

`fs.fat` and `fs.data` are the table and the clusters; a directory entry is one
slot here. Paths are sequences of names and "..", resolved from the root as
`resolvePath` does. A command of the shell opens a path, gets a handle of
`MAX_HANDLES` (never closed), and reads in chunks or writes once. `Write` is the
whole loop of `Filesystem::write`: reuse of the old chain, allocation, freeing
of the tail, size update, and what is left behind when the volume is full. Texts
have bytes that tell their place, and free clusters hold a byte nobody writes,
so that a byte too many or in the wrong place is seen. `FileTree` is a function
from paths to absent, directory or contents, of which a command changes one
path. Left out are inputs that start with "/" (each is the same request with the
root for a working directory, which `cd ..` reaches), paths longer than the
shell's buffer, and what the code finds below a file, whose data it reads as
directory entries (section 5): `Lookup` takes such a path for absent.

### Keyboard, Screen, Console and TypeAhead

The user presses and releases keys; a key is one or two bytes on the wire. A byte
raises the interrupt, which is a notification to the driver; the driver drains
the controller, fills the ring, and answers the reader that it holds. `Screen`
keeps the cells, the cursor, the postponed scroll, the back buffer as a ring of
lines and the framebuffer. `Console` adds the line editor; as the terminal
handles messages in order and nobody else draws meanwhile, the drawing of a key
belongs to its step. The two `Sessions` are a user who waits for the echo and
edits with every key, and one who types ahead, where the ring overflows.
`TypeAhead` is a ring between keys that are coming and a reader: the key that
arrives while the ring is full is lost, and none of those that wait. The mapping
takes for the ring the driver's own, for what is coming the keys that the bytes
still in the controller will become (`Coming`), and for the reply the answer that
the shell has not looked at (`Answered`). Left out are tabs and other control
characters in what is printed, the output of programs that the shell starts,
commands that do not end, and messages to the terminal or the display that
`notifyPush` has no memory for.

## 3. Runs

| Run | Instance | Shows |
|---|---|---|
| `kernel_all` | 1 booted + 1 spawned process, all calls, line 1, an invalid IRQ number, queues of 1 | the invariants of `Kernel` (also the inductive one of the proofs, conjunct by conjunct) and that blocked calls end with their result |
| `rpc_order` | 3 processes, send, receive, reply, notify, exit, queues of 1 | exact queues, right receiver, only the callee ends a call and its exit releases exactly its queue, notifications first |
| `rpc_serving` | nameserver, vfs, ata, 2 clients, slices of 2 | every call is answered and every Ready process runs |
| `preempt_scheduling` | 2 processes with preemption inside calls | the idle task stays runnable, current is alive, every Ready process runs |
| `memory` | 3 processes, 20 frames, VGA memory and a framebuffer above 1 MiB | one use per frame of RAM and a valid CR3, also at exhaustion and after a framebuffer was freed; `sbrk` maps what it promises but for its last page when it took the last frame; calls that find enough frames lose nothing but what a failed `sbrk` has stranded |
| `heap` | 4 pages, requests of 0, 18, 41 and 70 bytes | blocks tile the region, allocations have their own blocks, free space is merged, nothing else moves |
| `cache` | 3 sectors (one of the FAT) in 2 slots, 2 contents, every outcome | one slot per sector, driver and cache agree, recency, refinement of `Disk` |
| `directory` | an 8.3 file, two names with an LFN entry, a directory; 3 entries per cluster, 2 free clusters | nothing behind the end, no stray pieces, no name twice, refinement of `NameSet` |
| `files` | names a and d in two levels, 3 clusters besides the root, 2 bytes each, 2 handles | chains separate, sizes backed, losses only on a full volume, refinement of `FileTree` |
| `console` | 3 × 6 cells, lines of 2, ring of 2, one letter, editing keys, shift | the screen shows the line, modifiers do not stick, refinement of `TypeAhead`, every key reaches the shell |

Two runs show that the code does not do what the repository says (quoted under
`findings`):

* `preempt_wakeup`: a process sleeps although its work is there: a driver on a
  pending interrupt, a receiver before a queued sender, `waitpid` on a process
  that exited meanwhile.
* `directory_long`: `removeEntry` leaves the LFN entries of a name with two of
  them in the previous cluster, because it tests an entry that it has just marked
  deleted; the next name is then read with foreign pieces. It is the same
  refinement that holds for names with one LFN entry in `directory`.

### Bounds

Three parties are enough for every IPC situation the properties speak of: a
caller, its callee and a third that interferes. One queue slot already gives an
empty, a full and a failing queue; `rpc_serving` uses four, one per possible
caller. Time slices of 1 make every tick a switch; 2 makes ticks that do not.
Interrupt 1 is a device, 16 an argument `registerForward` rejects. In `Memory`,
page tables of two pages make tables appear in the middle of images and heaps;
20 frames are less than three processes of maximal size take and more than one
call takes (`EnoughFrames`), so that calls fail at every allocation and also
succeed, before and after exhaustion; a `sbrk` that finds a frame for its page and
none for the page table occurs. In `Heap` a page of 64 bytes with the real
header of 12 gives exact fits, splits, rests too small to split and growth by
one page and by two; `WIDTH` is far above the region, and `HeapAssumption`
excludes requests that wrap. In `SectorCache` two slots and three sectors make
every miss an eviction, including of the FAT sector. In `Directory` clusters of
three entries, two of them taken at the start, make runs cross and chains grow;
two clusters run out. In `Fat32` texts of up to three bytes are empty, a part of
a cluster, one cluster and more than one; three free clusters run out with one
directory and one file; `..` is tried from the root and from below;
`Fat32Assumption` excludes the names "", "." and "..", which `resolvePath` treats
apart and `readDirEntry` never shows. In `Console`
output longer than a line wraps, two outputs scroll, and a burst of two keys
overflows the ring. `MaxLen`, `MaxDepth`, `MaxBreak` and `QueueBound` are the
bounds in guards. Deadlock is checked in all runs.

### Fairness

`rpc_serving` and `preempt_scheduling` assume weak fairness of the timer: the PIT
fires periodically and interrupts are enabled in user mode, in the idle loop and
inside calls. `rpc_serving` adds strong fairness of each server's receive and
reply: a server is enabled only while it has the processor, which the timer takes
away and gives back for ever, and its loop is straight-line code. Nothing is
assumed of clients, or of how often a server calls the servers below it.
`console` assumes weak fairness of what the hardware and the driver do with
bytes that are there and of the shell taking a key, and strong fairness of the
end of draining and of receiving a request: bytes come slower than the driver's
loops, so that again and again it finds the controller empty and no notification
in front of the request. Nothing is assumed of the user.

In `rpc_serving` and `console` a `receive` is one step. The fairness of
`ReceiveIrq` in `console` says that a driver with an interrupt pending handles it,
and the answers of `rpc_serving` rest on servers that wake up for their senders;
the window that `preempt_wakeup` shows breaks both, as a driver asleep on a
pending interrupt receives it only with the next one. `CallsAnswered` and
`KeysReachShell` therefore hold for the kernel with atomic calls, as
`NoLostWakeup` does.

## 4. Proofs

TLAPS proves, for every value of the constants that satisfies the named
assumptions of the modules:

* `NextIsReady`, `NextIsNearest` (`KernelProofs`): `FindNextReady` returns a
  Ready process if there is one other than the current, and the nearest in
  circular order. The argument is that the set of distances has a minimum
  (`MinInSet`).
* `Invariance` (`KernelProofs`): `Spec => []IInv`, with
  `IInv == TypeOK /\ OneRunning /\ PidsAreFresh /\ BlockedReceiverHasNoWork /\ WaitersHaveTarget`.
  The conjuncts need each other: a blocking call keeps `OneRunning` only because
  the process it switches to was Ready (`NextIsReady`, from the type) and the
  idle task is runnable; `BlockedReceiverHasNoWork` needs the caller to be the
  Running process, so that nobody else blocks in its step; `exec` keeps the last
  two because a fresh pid has no queue entry of a live process (`PidsAreFresh`);
  `WaitersHaveTarget` needs that only the process named can have made its target
  disappear. One lemma per action, then the temporal step. From it
  `TypeCorrect`, `OneRunningProcess`, `NoLostWakeup`, `NoWaitForTheDead` and
  `FreshPids`.
* `BlockedCallsEnd` (`KernelProofs`): `Spec => BlockedCallsEndWithTheirResult`,
  from `IInv`, again with one lemma per action. The type invariant tells that
  the sender popped from a queue is a process; `WaitersHaveTarget` that whoever
  exit wakes from `waitpid` was waiting for the process that exits.
* `RpcInvariance` (`KernelProofs`): `RpcSpec => []RpcInv`, with
  `RpcInv == IInv /\ QueuedSendersWait /\ MessageIsForReceiver`. The reply
  discipline is used in one place: the caller that `reply` releases has been
  received, so it is in no queue. Everything else only pops entries, empties the
  queue of the dying process or appends a caller that was Running and therefore
  in no queue (`QueuesShrink` and its companions). From it `QueuesExact`,
  `MessagesReachTheirReceiver` and the action theorems `CallersReleasedByCallee`
  and `NotificationsComeFirst`. That an exit releases exactly the queued callers
  also needs that no other step removes a process (`OnlyExitRemoves`).
* `SchedulerSurvivesPreemption` (`KernelProofs`): `IdleTaskRunnable` with
  the types of three variables is inductive also when calls are interrupted
  between any two steps. More of the scheduler's invariant does not survive:
  that only the current process is Running is false there, which is the
  observation at `scheduler.cpp:98` below.
* `MemoryInvariance` (`MemoryProofs`): `Spec => []MemInv`, with
  `MemInv == Typed /\ OneUse(Contents, free) /\ Living /\ Cr3Held`. `Contents`
  puts all places that hold a frame (directory, kernel stack, tables, pages)
  into one table, over which `OneUse` says that a frame of RAM is in one place
  and not clear in the bitmap. A call works on a record, so the argument is
  about records: `Good` is `OneUse` for one address space, `From` says that it
  got new frames from the free set only, `Fresh` that a space under construction
  has nothing else; each function keeps them, `RoundInduction` carries them
  through its loop, and `ReplaceSpace` puts the record back among the processes.
  `Living` is needed for exit and `exec`: a dead process holds no frames. From
  it `MemoryTypes` and `FramesAreExclusive`, for any device memory.
* `Cr3StaysValid`: `Spec => []Cr3Intact`, for any device memory. The property
  speaks of frames of RAM in CR3: a framebuffer that `destroyAddressSpace` frees
  (`paging.cpp:191`) may become a page directory, and no claim is made for what is
  then in CR3. `DeviceMemoryStaysOut` says that this does not happen in the
  system as it ships: `ResidentSpec => [](Cr3Intact /\ cr3 \in Ram \cup {NoFrame} /\
  free \subseteq Ram)`. There `RamInv` is inductive: directories, kernel stacks,
  page tables and the free set are RAM, and so are the pages of every process that
  maps no device memory above 1 MiB; such a process is the only kind that exits.
  With `Spec` TLC refutes the two last conjuncts.
* `HeapIsMapped` (`MemoryProofs`): `Spec => SbrkMapsItsPages`. `mapUserPage` returns
  nothing, so that `sbrk` can move the break over a page that was never mapped when
  the frame for a page table is missing. The property names that case exactly. A
  round of the loop first takes the frame of its page and gives up without one; if
  a page lacks its mapping, the allocator was found empty while that page was
  added, so that no later round can have succeeded: the page is the last one of the
  call, and the free set is empty (`AddPagePromise`, `AddPagesPromise`). What
  earlier rounds mapped stays mapped (`StayMapped`).
* `CallsAreLeakFree` (`MemoryProofs`): if the segments of every executable lie on
  pages of their own (`SegmentsApart`),
  `Spec /\ [][~RemapsMemory]_vars => CallsDoNotLeak`. `Keeps(s, r, L)` says that what
  the record s has of the RAM, clear or in a place, r has too, except for the frames
  in L; it composes, and the loops lose what their pages held before (`AddPageKeeps`,
  `AddPagesKeeps`, `MapFramesKeeps`): nothing in a new address space, `Stranded` for
  sbrk. That a page that gets a frame also gets a table is a count: `Spare(s, k)` says
  that there are k frames besides one for every missing page table, and a round of the
  loop takes one frame, and a second only together with a missing table. An executable has at most as many pages as there are below the stack (`ImageFits`,
  the pigeonhole principle), so that `EnoughFrames` is enough for all of exec. What a
  failed exec or an exit holds is what `destroyAddressSpace` visits
  (`HeldIsDestroyed`). The two hypotheses are necessary: `elf.cpp:90` and mapDevice
  map a page again without a look at its frame, which nothing knows afterwards.
* `HeapInvariance` (`HeapProofs`): `Spec => []HeapInv`. `Tiles` is `BlocksTile`
  with what it rests on (a finite list that starts at the head, one last block,
  sizes in words), `Holds` says that allocations and used blocks correspond,
  `Apart` that no two free blocks are neighbours. For the loop of `free`,
  `PassInv` says that the list tiles the region, that the used blocks are those
  of before, and that what lies behind the current block is merged; every round
  takes a block away from those ahead (`Ahead`), so that after as many rounds as
  blocks the loop is at the end of the list (`RoundsPass`) and `PassInv` says
  that all of it is merged. From it `HeapIsTiled`, `AllocationsHaveBlocks`,
  `FreeMemoryIsWhole` and the action theorem `AllocationsStay`.
  `HeapAssumption` excludes requests so large that their size wraps, as
  `alloc.cpp:37` does not.
* `LoopTheorems`: a loop `f[i \in 0 .. n]` has a trace (`LoopTrace`), and what
  holds before it and is kept by a round holds after each (`RoundInduction`).
  Both are stated for sets and functions rather than predicates and rest on the
  well-foundedness of the natural numbers. Next to them, what the provers need
  about minima, quotients and remainders (`MinInSet`, `DivMod`, `QuotientOrder`).
* `CacheInvariance` (`SectorCacheProofs`): `TypeOK`, `OneSlotPerSector` and
  `DriverAgreesWithCache` together are inductive, for any number of slots and
  sectors and any outcomes of the drive. Agreement needs uniqueness: writing a
  victim back fills the driver's buffer with it, which is harmless only because
  no other slot holds that sector.
* `CacheRefinement`: `Spec => ImplementsDisk`. An operation of the cache goes
  through states that are no states of the specification (after the eviction,
  after the transfer), so the argument is about a table of entries over a device:
  `View` is what a read of it returns, `Keeps` is the promise of `Disk` for one
  sector, and `Keeps` composes (`KeepsTransitive`). `Evicting`, `Reading`,
  `Writing` and `Placing` prove it for the parts, one lemma per operation puts
  them together.
* `CacheRecency`: `Spec => LastUsedSurvives`. With the types, ages that differ and
  the highest age for the sector used last (`RecencyInv`) are inductive; a renewed
  age moves only the younger ones down by one, which keeps them apart
  (`TouchedDistinct`), and of two different ages the highest is not the lowest.
* `NothingIsHidden` (`DirectoryProofs`): `Spec => []NothingBehindEnd` for all
  names and sizes. With the types it is inductive: the run of entries that a
  creation takes is the first that is long enough, everything behind an end
  entry is free, so no end lies before the run, and those within it are
  overwritten (`FirstRunIs`).
* `SetInvariance`, `PiecesBelong`, `NamesAreUnique`: for names that fit 8.3
  without extension or need one LFN entry, and directories of the first kind
  (`PlainNames`), `[]SetInv`. `Whole` says that a live short entry of a long
  name has its LFN entry directly below, that a live LFN entry has its short
  entry directly above, and that a name has one short entry. Then the
  name put together from the LFN entries below a short entry is the right one
  (`NameIs`), a lookup finds a name exactly if it has a short entry (`FoundIs`),
  so a creation adds a name that was absent, and of the entries with the LFN
  attribute that a removal deletes below a short entry only the nearest was
  live (`RemovedIs`).
* `DirectoryRefinement`: under the same hypothesis `Spec => ImplementsNameSet`:
  the directory is a set of names. Each part of `PlainNames` is necessary: a
  removal leaves pieces of names with two LFN entries (`directory_long`), a
  `mkdir` of a long name that finds no cluster can leave its LFN entry, and a
  dotted short name is never found again, so that it can be created twice.
* `FatNeverCrossLinks`, `FilesAreBacked`, `ClustersAreKept` and `VolumeIsTree`
  (`Fat32Proofs`): `ChainsSeparate`, `SizeIsBacked`, `LeaksOnlyWhenFull` and the
  refinement `ImplementsFileTree`, for a volume of any size, files of any length and
  paths of any depth. The properties speak of paths; the invariant (`VolumeInv`)
  speaks of the volume. `Struct`: there are disjoint chains `ch`, one for each head
  that an entry or the root names, each `Linked` in the table from its head to the
  end, and a set `D` of heads of directories; every live entry names a directory of
  `D` or a file whose chain backs its size (`AllBacked`), no two entries name one
  chain (`OwnersDiffer`), and every directory except the root has an entry in the
  directory that its ".." names (`Parents`). Without `Parents` the others are not
  inductive: ".." would lead into a directory that was removed. For the tree
  `Tidy` adds that the names in a directory differ (`Differ`; `createEntry` does not
  look, so the callers' tests for an existing name are what keeps it) and that every
  chain is that of a path (`Reached`). `Using` says that the handle of a
  command in progress is what the entry of a path says, and that `cat` has read
  leading bytes of that file.
  - Volume: mkdir, remove, create and write are each one `Change`, after room was
    made in the directory: the entry in a slot takes another chain, and nothing outside
    its old chain and the free clusters moves. `Changed` proves that a change keeps
    the structure; `CreateReworks`, `RemoveReworks` and `WriteReworks` show which
    change each operation is. `ChainIs` says that following the table from the head
    of a linked chain returns the chain, `NewClustersAre` that the clusters that the
    loop of `write` allocates are free and differ, `FilledText` where the bytes go.
  - Paths: by induction over its components a path leads to the same entry before and
    after a change, unless that is the changed one (`PathKept`, `TreeKept`), and no
    chain is reached by two paths (`OnePath`: their last components would be one
    entry, in one directory, and so on back to the root). A path with ".." names what
    a path of names that is no longer names (`NamePath`), which is the path of the
    tree that the step changes.
  - Clusters: what was free or in a chain is free or in a chain afterwards
    (`Accounted`), except after a write that leaves no cluster free.
  - Steps: one lemma per command (`MkdirDoes`, `RemovePathDoes`, `OpenCreateDoes`,
    `CatReadDoes`, `WriteDoes`, ...) gives its `Outcome`; `TreeNext` makes that a step
    of `FileTree`. An open that finds no handle creates and removes its file, which is
    a stutter (`CreateUndone`).
* `SpecModifiersMatch`, `SpecImplementsTypeAhead` (`ConsoleProofs`): from one
  inductive invariant, `KeyboardInv`, for any keyboard, session and size of the
  ring. `ModifiersMatch` speaks of the moments without bytes in the controller and
  is not inductive: while bytes are under way the flags of the driver lag behind
  the keys. `FlagsFollow` therefore says what the flags will be once the driver has
  handled everything under way (`Handled(kb, UnderWay)`): pressing or releasing a
  key appends a stroke to what is under way (`StrokeHandled`), and a byte that is
  handled goes from there into the driver (`HandledFirst`). For the
  refinement `HandledRing` splits the result into the ring that is there and the
  keys to come, which do not depend on it; so pressing a key is a `Type` or a
  stutter, draining the byte that completes a key an `Arrive` or, with a full ring, a
  `Lose` of just that key, a reply the `Answer` with the first of the ring, and an
  interrupt or a held request changes nothing.
* `SpecScreenShowsLine` (`ConsoleProofs`):
  `Spec /\ [][~EntersBlanks]_vars => []ScreenShowsLine`, for any screen, any
  output, and lines of any length that `ConsoleAssumption` admits. `ScreenInv`
  adds to the property that the ring of the back buffer, read from its offset,
  agrees with the cells, that no scroll is pending, and that everything below the
  line is blank. Within a key less holds: a scroll may be owed (`Ready` relates
  ring and cells whether or not it is), and while the cursor is drawn they differ
  in its cell (`NearlyReady`). `PutcharIs` and `TextRounds` carry `Ready` through
  the characters of a text, `ScrolledData` makes up for the scroll, which turns
  the ring and blanks the lines that come round, and `FlushIs` brings everything
  to the framebuffer. Above them is one lemma per key: a redraw writes the line, one blank and
  the cursor, and needs `ConsoleAssumption` to stay in its row. The hypothesis
  says that Enter never finds a line of blanks (`EntersBlanks`). It is necessary:
  the shell then prints a new prompt and keeps the buffer (`shell.cpp:83`), so that
  the screen shows an empty line and the shell holds the blanks.

`NoLostWakeup` and `NoWaitForTheDead` are theorems about atomic system calls.
`preempt_wakeup` shows that the same statement fails with interrupts inside
calls. Together they say that the logic of the calls is right and the window is
the whole problem: behind an interrupt gate for vector 0x80 the calls are those
of `Kernel` (`sleep`, which waits for ticks inside its call, would then have to
enable interrupts itself).

Only model-checked: liveness (`ReadyRuns`, `CallsAnswered`, `KeysReachShell`);
every other property of a passing run is a theorem, some under the hypotheses
named above. Liveness under fairness, `ENABLED`, and what
`RECURSIVE` operators and folds compute for every input are out of the prover's
reach and stay with TLC.

## 5. Observations

What reading and modelling turned up and no run states as a property.

Kernel:
* `irqRegister` overwrites a claim and reports success (`irq.cpp:107`; `os.hpp:99`
  promises "IRQ already registered").
* A caller that a server has received and not answered stays `SendBlocked` for
  ever when the server exits: it is in no queue (`process.cpp:230`;
  `CalleeReleasesCaller` states it).
* With interrupts inside calls, a process woken between blocking and its own
  `reschedule` is switched out while marked Running and never found again
  (`scheduler.cpp:98`).
* `reply` asks only that its target is blocked in some send, so
  `CalleeReleasesCaller` and `QueuedSendersWait` hold for the services'
  discipline (`Rpc`) and not for arbitrary programs. A `send` that was replied to
  returns 0, while `libs/ipc/include/std/ipc.hpp` promises the sender's pid.
* `sbrk` returns memory whose last page is unmapped when no frame is left for a page
  table (`syscall.cpp:478`; the exception in `SbrkMapsItsPages`); one that runs out of frames in the middle leaves pages
  mapped above the break, whose frames the next call loses (`Stranded`).
* A framebuffer above 1 MiB would be freed as RAM if its process exited
  (`paging.cpp:191`); the display driver does not.
* A boot module that cannot be loaded keeps its frames (`kernel.cpp:97`); the
  kernel heap assumes that 256 frames are contiguous (`memory/heap.cpp:32`); the
  multiboot modules are not marked used (`physical.cpp:66`); `sleep` computes in
  32 bits (`pit.cpp:47`).

Disk and files:
* A dirty FAT sector that is evicted before `flushFat` is never mirrored.
* A late write error is not reported; a refused write still shows in the cache.
* The ATA client ignores the result of `send` (`libs/ata/src/ata.cpp:26`).
* A name that fits 8.3 and has an extension is given a "~N" short name and no
  long one, and cannot be found under its own name (`Dotted` in `Directory`).
* `mkdir` that finds no cluster for the contents of a directory with a long name
  leaves LFN entries behind. `removeEntry` frees the chain before it allocates
  the buffer it needs to delete the entry.
* `resolvePath` reads the data of a file as a directory for "/file/x" and leaves
  its result unset for "/.", "//" and "/..".
* Handles are never released: after 16 opens every further one fails.
* Writing to a full volume loses clusters (`LeaksOnlyWhenFull` says: only then).
* A name with 20 or more LFN entries overruns `lfnBuf`; names of a multiple of 13
  characters have no terminator and are left out of `Directory`.
* After a failed mount vfs receives and never replies (`vfs/src/main.cpp:33`).

Console and heap:
* The line buffer is not reset after a line of blanks (`shell.cpp:83`), so the
  next line is appended to what the screen no longer shows; blanks are therefore
  not among the instance's letters.
* A full line is copied with its terminator into an array without room for it
  (`shell.cpp:78`).
* `ConsoleAssumption` (prompt, longest line, the blank that a redraw writes behind
  it and one more column fit in a row) holds for `SHELL_MAX_INPUT` = 78 at 1024
  pixels (128 columns) and not at 640 (80 columns). One column less and the redraw of the longest line
  wraps: on the last row it scrolls the screen under the prompt's remembered
  position (TLC finds it with 5 columns and lines of 2). The screen height is
  taken for a multiple of the font height.
* Both shift keys share a flag; the keyboard driver holds one reader only; the
  keyboard and the mouse driver read the same port, and the keyboard driver takes
  any byte that is there; a lost mouse byte shifts all later packets.
* `cd ..` drops the last component of a working directory also when it is "..".
* `alloc` of 0 bytes takes a block; a size above 2^32 - 4 wraps to 0
  (`alloc.cpp:37`); growth assumes that consecutive `sbrk` results are adjacent.
* A name stays registered to a service that has exited (`ns/src/table.cpp:22`).

## 6. Not modelled

* Descriptor tables, the serial port, exceptions (they print and halt), and the
  system calls that only read state or drive a port: no state to relate.
* The memory map and the kernel's direct map: decided once, by the machine.
* Pixels, glyphs and drawing that nothing calls (`drawRect`, `drawText`, `blit`).
* The mouse: no program reads it.
* The table of the nameserver: it only grows.
* `mount`, `list`, `stat` output: they read the volume and change nothing.
* `fmt`, `str`, `mem` and the font: sequential functions without state.
* Two clients of vfs at once, and failing transfers in the middle of a file
  operation: `Fat32` has one client, as the system does, over a working disk.

## 7. Plan

Done: scheduler and IPC; the RPC discipline; preemption inside calls; frames; the
heap; sector cache, directories and files with their abstract specifications;
keyboard, screen and shell; the inductive invariants of kernel, remote calls,
frames, heap, cache, directories, the FAT, keyboard and screen with the action
properties they carry, and the refinements of `Disk`, `NameSet`, `FileTree` and
`TypeAhead`.

Left, modelling: preemption inside `spawn` and `allocFrame`; long names in
`Fat32` by composing it with `Directory`; an abstract remote call that `Rpc`
implements.
