------------------------------- MODULE Memory -------------------------------
(***************************************************************************)
(* Who owns which physical frame: the bitmap of the frame allocator        *)
(* (memory/physical.cpp), the page directories and page tables of the      *)
(* processes (memory/paging.cpp), the ELF loader (core/elf.cpp), spawn and *)
(* destroy (core/process.cpp) and the system calls exec, sbrk, mapDevice   *)
(* and exit, with the page directory that CR3 holds.                       *)
(*                                                                         *)
(* Addresses are counted in pages and frames; frame 0 is the null page and *)
(* stands for "no frame".  Every action is one whole system call.  Which   *)
(* process runs next is module Kernel's subject: here it is arbitrary.     *)
(***************************************************************************)
EXTENDS Integers, Sequences, FiniteSets, FiniteSetsExt

CONSTANTS
    MaxPid,         \* bound: processes ever created
    BootModules,    \* bound: multiboot modules
    Ram,            \* frames that are free when the first process is spawned
    LowDevice,      \* device memory below 1 MiB, such as the VGA buffer
    HighDevice,     \* device memory above 1 MiB, such as the framebuffer
    PagesPerTable,  \* pages that one page table maps
    StackPage,      \* the last user page, which holds the user stack
    Images,         \* executables: the pages of their segments, in load order
    Growth,         \* pages that programs ask sbrk for
    DeviceMaps      \* <<page, frame, count>> that programs pass to mapDevice

Pid == 1 .. MaxPid
KernelTask == 0
Page == 0 .. StackPage
Table == 0 .. StackPage \div PagesPerTable
Frame == Ram \cup LowDevice \cup HighDevice
NoFrame == 0

(* The frames that programs map with mapDevice. *)
DeviceFrames == UNION {m[2] .. m[2] + m[3] - 1 : m \in DeviceMaps}

ASSUME MemoryAssumption ==
    /\ MaxPid \in Nat \ {0} /\ BootModules \in Nat /\ StackPage \in Nat /\ PagesPerTable \in Nat \ {0}
    /\ Frame \subseteq Nat \ {0} /\ IsFiniteSet(Frame)
    /\ Ram \cap (LowDevice \cup HighDevice) = {}
    /\ Images \subseteq Seq(0 .. StackPage - 1)
    /\ Growth \subseteq Nat
    /\ DeviceMaps \subseteq Page \X Nat \X (Nat \ {0})
    /\ DeviceFrames \subseteq LowDevice \cup HighDevice

VARIABLES
    free,       \* PhysicalMemoryManager::bitmap: the clear bits
    pd,         \* Process::pageDirectory, NoFrame for pids not in the list
    tables,     \* the page tables of each process
    pages,      \* the frame each page table entry holds
    kstack,     \* the frame below Process::kernelEsp
    heapBase,   \* Process::heapBase
    heapBreak,  \* Process::heapBreak
    nextPid,    \* ProcessManager::nextPid
    current,    \* ProcessManager::currentProcess
    cr3,        \* the frame in CR3, NoFrame for the kernel's own directory
    modules     \* multiboot modules that start() has still to load

vars == <<free, pd, tables, pages, kstack, heapBase, heapBreak, nextPid, current,
          cr3, modules>>

-----------------------------------------------------------------------------
(* The frame allocator and the page tables.  An address space is a record: *)
(* the clear bits of the bitmap, the frame of the directory, the page      *)
(* tables, the entries and the kernel stack; ok is FALSE once its creator  *)
(* has given up.                                                           *)

(* PhysicalMemoryManager::allocFrame: the first clear bit. *)
AllocFrame(clear) == IF clear = {} THEN NoFrame ELSE Min(clear)

(* PagingManager::mapUserPage: when there is no frame for a missing page   *)
(* table it returns, and the page stays unmapped.                          *)
MapUserPage(s, v, f) ==
    LET i == v \div PagesPerTable
        t == AllocFrame(s.free)
    IN  IF s.tables[i] # NoFrame THEN [s EXCEPT !.pages[v] = f]
        ELSE IF t = NoFrame THEN s
        ELSE [s EXCEPT !.free = @ \ {t}, !.tables[i] = t, !.pages[v] = f]

(* Mutation: the frame's bit stays clear. *)
AddPageUnmarked(s, v) ==
    LET f == AllocFrame(s.free)
    IN  IF ~s.ok \/ f = NoFrame THEN [s EXCEPT !.ok = FALSE] ELSE MapUserPage(s, v, f)

(* Allocate a frame and map it at page v: the body of the loops of         *)
(* ElfLoader::load and sbrk, and the user stack of spawn.                  *)
AddPage(s, v) ==
    LET f == AllocFrame(s.free)
    IN  IF ~s.ok \/ f = NoFrame THEN [s EXCEPT !.ok = FALSE]
        ELSE MapUserPage([s EXCEPT !.free = @ \ {f}], v, f)

(* The loops: done[i] is the address space after i pages. *)
AddPages(s, vs) ==
    LET done[i \in 0 .. Len(vs)] == IF i = 0 THEN s ELSE AddPage(done[i - 1], vs[i])
    IN  done[Len(vs)]

(* PagingManager::createAddressSpace. *)
CreateAddressSpace ==
    LET d == AllocFrame(free)
    IN  [free |-> free \ {d}, ok |-> d # NoFrame, dir |-> d, kstack |-> NoFrame,
         tables |-> [i \in Table |-> NoFrame], pages |-> [v \in Page |-> NoFrame]]

Held(f) == {f[x] : x \in DOMAIN f} \ {NoFrame}

(* Mutation: the frames of the page tables are forgotten. *)
DestroyKeepsTables(s) == s.free \cup (Held(s.pages) \ LowDevice) \cup {s.dir}

(* PagingManager::destroyAddressSpace: the clear bits afterwards. *)
DestroyAddressSpace(s) ==
    s.free \cup Held(s.tables) \cup (Held(s.pages) \ LowDevice) \cup {s.dir}

-----------------------------------------------------------------------------
(* Process creation.                                                       *)

(* ElfLoader::load; it rejects a file that is not an ELF executable.  Two  *)
(* things are left out: a file that it rejects at a later program header,  *)
(* with the segments before it mapped (exec destroys them all the same,    *)
(* start() leaves their frames marked), and segments that do not begin at  *)
(* a page of the user part: the loader does not check that, but the linker *)
(* scripts place every program at 0x00400000.                              *)
Load(s, image) ==
    IF image \in Images THEN AddPages(s, image) ELSE [s EXCEPT !.ok = FALSE]

(* The page after the last one of the image. *)
HeapStart(image) == 1 + Max({-1} \cup {image[i] : i \in DOMAIN image})

(* A process up to its user stack, which spawn maps first. *)
WithUserStack(image) == AddPage(Load(CreateAddressSpace, image), StackPage)

(* ProcessManager::spawn takes a frame for the kernel stack. *)
WithKernelStack(s) ==
    LET k == AllocFrame(s.free)
    IN  IF ~s.ok \/ k = NoFrame THEN [s EXCEPT !.ok = FALSE]
        ELSE [s EXCEPT !.free = @ \ {k}, !.kstack = k]

(* spawn and create succeed: the process joins the list. *)
Spawn(image) ==
    LET s == WithKernelStack(WithUserStack(image))
    IN  /\ nextPid <= MaxPid
        /\ s.ok
        /\ nextPid' = nextPid + 1
        /\ free' = s.free
        /\ pd' = [pd EXCEPT ![nextPid] = s.dir]
        /\ tables' = [tables EXCEPT ![nextPid] = s.tables]
        /\ pages' = [pages EXCEPT ![nextPid] = s.pages]
        /\ kstack' = [kstack EXCEPT ![nextPid] = s.kstack]
        /\ heapBase' = [heapBase EXCEPT ![nextPid] = HeapStart(image)]
        /\ heapBreak' = [heapBreak EXCEPT ![nextPid] = HeapStart(image)]

NotElf == <<StackPage>>

Booting == modules > 0

(* start() loads the modules one by one.  A module that cannot be loaded   *)
(* or spawned is skipped, and what was allocated for it stays allocated.   *)
BootModule(image) ==
    /\ Booting
    /\ modules' = modules - 1
    /\ Spawn(image)
    /\ UNCHANGED <<current, cr3>>

BootSkip(image) ==
    /\ Booting
    /\ modules' = modules - 1
    /\ free' = WithUserStack(image).free
    /\ UNCHANGED <<pd, tables, pages, kstack, heapBase, heapBreak, nextPid,
                   current, cr3>>

UserRunning == ~Booting /\ current # KernelTask

(* SyscallHandler::exec. *)
Exec(image) ==
    /\ UserRunning
    /\ Spawn(image)
    /\ UNCHANGED <<current, cr3, modules>>

(* exec gives up, for lack of frames or of kernel heap, or because the     *)
(* file is no executable, and destroys what it has built.                  *)
ExecError(image) ==
    /\ UserRunning
    /\ LET s == WithUserStack(image)
       IN  free' = IF s.dir = NoFrame THEN free ELSE DestroyAddressSpace(s)
    /\ UNCHANGED <<pd, tables, pages, kstack, heapBase, heapBreak, nextPid,
                   current, cr3, modules>>

-----------------------------------------------------------------------------
(* The other system calls, and the switches between processes.             *)

Space(p) ==
    [free |-> free, ok |-> TRUE, dir |-> pd[p], kstack |-> kstack[p],
     tables |-> tables[p], pages |-> pages[p]]

Store(s) ==
    /\ free' = s.free
    /\ tables' = [tables EXCEPT ![current] = s.tables]
    /\ pages' = [pages EXCEPT ![current] = s.pages]
    /\ UNCHANGED <<pd, kstack, heapBase, nextPid, current, cr3, modules>>

(* Mutation: the loop starts one page late. *)
LaterPages(old, n) == [i \in 1 .. n |-> old + i]

(* The pages that the loop of sbrk maps. *)
HeapPages(old, n) == [i \in 1 .. n |-> old + i - 1]

(* Mutation: the heap may take the page of the user stack. *)
UpToStack(break) == break <= StackPage + 1

(* The heap ends below USER_STACK_BOTTOM. *)
BelowStack(break) == break <= StackPage

(* SyscallHandler::sbrk: the break moves only when every frame was found;  *)
(* the pages mapped until then stay mapped.                                *)
Sbrk(n) ==
    LET old == heapBreak[current]
        s == AddPages(Space(current), HeapPages(old, n))
    IN  /\ UserRunning
        /\ old # 0
        /\ BelowStack(old + n)
        /\ Store(s)
        /\ heapBreak' = IF s.ok THEN [heapBreak EXCEPT ![current] = old + n] ELSE heapBreak

(* The loop of mapDevice: n pages from page v to the frames from f. *)
MapFrames(s, v, f, n) ==
    LET done[i \in 0 .. n] ==
            IF i = 0 THEN s ELSE MapUserPage(done[i - 1], v + i - 1, f + i - 1)
    IN  done[n]

(* SyscallHandler::mapDevice. *)
MapDevice(v, f, n) ==
    /\ UserRunning
    /\ v + n <= StackPage + 1
    /\ Store(MapFrames(Space(current), v, f, n))
    /\ UNCHANGED heapBreak

(* Mutation: CR3 is not loaded. *)
KeepCr3(next) == cr3' = cr3

(* Scheduler::switchTo and exitCurrent load CR3 unless the next process is *)
(* the kernel task, which runs in whatever address space it finds.         *)
LoadCr3(next) == cr3' = IF next = KernelTask THEN cr3 ELSE pd[next]

Runnable == {KernelTask} \cup {p \in Pid : pd[p] # NoFrame}

Switch(next) ==
    /\ ~Booting
    /\ next \in Runnable
    /\ current' = next
    /\ LoadCr3(next)
    /\ UNCHANGED <<free, pd, tables, pages, kstack, heapBase, heapBreak, nextPid, modules>>

(* ProcessManager::destroy frees the address space and the kernel stack of *)
(* the process that exits; exitCurrent then switches to another one.       *)
Exit(next) ==
    /\ UserRunning
    /\ next \in Runnable \ {current}
    /\ free' = DestroyAddressSpace(Space(current)) \cup {kstack[current]}
    /\ pd' = [pd EXCEPT ![current] = NoFrame]
    /\ tables' = [tables EXCEPT ![current] = [i \in Table |-> NoFrame]]
    /\ pages' = [pages EXCEPT ![current] = [v \in Page |-> NoFrame]]
    /\ kstack' = [kstack EXCEPT ![current] = NoFrame]
    /\ heapBase' = [heapBase EXCEPT ![current] = 0]
    /\ heapBreak' = [heapBreak EXCEPT ![current] = 0]
    /\ current' = next
    /\ LoadCr3(next)
    /\ UNCHANGED <<nextPid, modules>>

-----------------------------------------------------------------------------
Init ==
    /\ free = Ram
    /\ pd = [p \in Pid |-> NoFrame]
    /\ tables = [p \in Pid |-> [i \in Table |-> NoFrame]]
    /\ pages = [p \in Pid |-> [v \in Page |-> NoFrame]]
    /\ kstack = [p \in Pid |-> NoFrame]
    /\ heapBase = [p \in Pid |-> 0]
    /\ heapBreak = [p \in Pid |-> 0]
    /\ nextPid = 1
    /\ current = KernelTask
    /\ cr3 = NoFrame
    /\ modules \in 0 .. BootModules

(* Everything but exit. *)
Calls ==
    \/ \E image \in Images : BootModule(image) \/ Exec(image)
    \/ \E image \in Images \cup {NotElf} : BootSkip(image) \/ ExecError(image)
    \/ \E n \in Growth : Sbrk(n)
    \/ \E m \in DeviceMaps : MapDevice(m[1], m[2], m[3])
    \/ \E next \in {KernelTask} \cup Pid : Switch(next)

Next == Calls \/ \E next \in {KernelTask} \cup Pid : Exit(next)

Spec == Init /\ [][Next]_vars

(* The programs of this system: the only one that maps device memory above *)
(* 1 MiB is the display driver, whose loop has no end.                     *)
KeepsHighDevice == Held(pages[current]) \cap HighDevice # {}

ResidentNext == Calls \/ \E next \in {KernelTask} \cup Pid : Exit(next) /\ ~KeepsHighDevice

ResidentSpec == Init /\ [][ResidentNext]_vars

-----------------------------------------------------------------------------
(* Properties.                                                             *)

(* Every variable holds values of the type the code declares for it. *)
TypeOK ==
    /\ free \subseteq Frame
    /\ pd \in [Pid -> Frame \cup {NoFrame}]
    /\ tables \in [Pid -> [Table -> Frame \cup {NoFrame}]]
    /\ pages \in [Pid -> [Page -> Frame \cup {NoFrame}]]
    /\ kstack \in [Pid -> Frame \cup {NoFrame}]
    /\ heapBase \in [Pid -> Page] /\ heapBreak \in [Pid -> Page]
    /\ nextPid \in 1 .. MaxPid + 1
    /\ current \in {KernelTask} \cup Pid
    /\ cr3 \in Frame \cup {NoFrame}
    /\ modules \in 0 .. BootModules

(* What a frame of RAM may be used for. *)
Uses(f) ==
    {<<"directory", p>> : p \in {q \in Pid : pd[q] = f}}
      \cup {<<"kstack", p>> : p \in {q \in Pid : kstack[q] = f}}
      \cup {<<"table", x>> : x \in {y \in Pid \X Table : tables[y[1]][y[2]] = f}}
      \cup {<<"page", x>> : x \in {y \in Pid \X Page : pages[y[1]][y[2]] = f}}

(* A frame of RAM serves one purpose at a time and is marked used while it *)
(* does: no two processes share memory, no page table or kernel stack is   *)
(* visible to a program, also when frames run out in the middle of exec    *)
(* or sbrk and when address spaces are torn down.                          *)
FramesHaveOneUse ==
    \A f \in Ram : Cardinality(Uses(f)) <= 1 /\ (Uses(f) # {} => f \notin free)

(* CR3 never holds a frame of RAM that has been given away: it is the      *)
(* directory of the running process, and while the idle task runs on the   *)
(* directory of the process that ran last, which may have exited, nobody   *)
(* reuses it.                                                              *)
Cr3Intact ==
    /\ current # KernelTask => cr3 = pd[current]
    /\ cr3 \in Ram => \/ cr3 \in free
                      \/ \E p \in Pid : Uses(cr3) = {<<"directory", p>>}

(* Frames that are marked used and serve no purpose. *)
Leaked == {f \in Ram : f \notin free /\ Uses(f) = {}}

(* More frames than any one call takes: a directory, a kernel stack, and   *)
(* every page with its tables.                                             *)
EnoughFrames == Cardinality(free) >= 2 + Cardinality(Page) + Cardinality(Table)

(* Pages that a failed sbrk has left mapped above the break: the next sbrk *)
(* overwrites their entries, and their frames are lost.                    *)
Stranded == {pages[x[1]][x[2]] : x \in {y \in Pid \X Page : y[2] \in heapBreak[y[1]] .. StackPage - 1}}

(* A system call that finds enough frames loses none but those that a      *)
(* failed sbrk has stranded: what exec, sbrk and exit take from the        *)
(* allocator is in use or given back when they return, also when exec      *)
(* fails in the middle.                                                    *)
CallsDoNotLeak ==
    [][~Booting /\ EnoughFrames => Leaked' \subseteq Leaked \cup Stranded]_vars

(* sbrk maps every page by which it moves the break, whatever earlier      *)
(* calls that ran out of frames have left, with one exception: its last    *)
(* page, when the call has taken the last frame and the page still lacks a *)
(* page table (mapUserPage does not report that).                          *)
SbrkMapsItsPages ==
    [][\A p \in Pid : heapBreak[p] # 0 =>
          \A v \in heapBreak[p] .. heapBreak'[p] - 1 :
             \/ pages'[p][v] # NoFrame
             \/ /\ v = heapBreak'[p] - 1
                /\ tables'[p][v \div PagesPerTable] = NoFrame
                /\ free' = {}]_vars

=============================================================================
