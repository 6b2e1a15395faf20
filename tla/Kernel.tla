------------------------------- MODULE Kernel -------------------------------
(***************************************************************************)
(* The CassiOS kernel core: the process list (core/process.cpp), the       *)
(* round-robin scheduler (core/scheduler.cpp), synchronous IPC             *)
(* (core/syscall.cpp) and the forwarding of hardware interrupts to         *)
(* user-space drivers (hardware/irq.cpp).  User programs are arbitrary:    *)
(* the running process may issue any system call with any argument.        *)
(*                                                                         *)
(* Every action is one entry into the kernel, from the trap to the return  *)
(* to user mode.  Interrupts that arrive inside a system call (the system  *)
(* call gate is a trap gate) are the subject of module KernelPreempt.      *)
(***************************************************************************)
EXTENDS Scheduler, Sequences

CONSTANTS
    BootModules,    \* multiboot modules that start() tries to spawn
    Calls,          \* the system calls that programs make
    TimeSlice,      \* Scheduler::timeSlice, in timer ticks
    IrqArgs,        \* interrupt numbers that programs pass to irqRegister
    IrqLines,       \* interrupt lines the hardware raises
    QueueBound      \* bound: nodes the kernel heap can give to one IPC queue

SyscallNames == {"Send", "Receive", "Reply", "Notify", "WaitPid", "Exec", "Exit",
                 "IrqRegister"}

ASSUME CallsAssumption == Calls \subseteq SyscallNames

ASSUME BoundsAssumption ==
    /\ BootModules \in 0 .. MaxPid
    /\ TimeSlice \in Nat \ {0}
    /\ QueueBound \in Nat

(* u8 arguments; only vectors 0x20, 0x21, 0x2C and 0x2E have a gate.       *)
ASSUME IrqAssumption ==
    /\ IrqArgs \subseteq 0 .. 255
    /\ IrqLines \subseteq {0, 1, 12, 14}

TimerIrq == 0
Irq == 0 .. 15

(* The eax slot of a process's saved frame: a pid, 0 or -1 as the kernel   *)
(* stored it, or NoResult while the process is still inside its call.      *)
NoResult == -2
Eax == Pid \cup {-1, NoResult}

(* A message is abstracted to its kind, the process (or interrupt line) it *)
(* comes from and the process it was composed for.  UserBuf is a message   *)
(* buffer whose contents the program itself wrote.                         *)
Message == [kind : {"user", "send", "notify", "reply", "irq"},
            from : Pid \cup Irq, to : Pid]
UserBuf == [kind |-> "user", from |-> 0, to |-> 0]
Msg(kind, from, to) == [kind |-> kind, from |-> from, to |-> to]

VARIABLES
    nextPid,        \* ProcessManager::nextPid
    tickCount,      \* Scheduler::tickCount
    sendQueue,      \* Process::sendQueue: pids waiting to send
    notifyQueue,    \* Process::notifyQueue: senders of queued notifications
    msg,            \* Process::msg: whom the outgoing message is for
    waitPid,        \* Process::waitPid
    eax,            \* eax of the frame at Process::esp
    buf,            \* the user buffer at Process::msgPtr
    forwardPid,     \* IrqManager::forwardPid
    pendingIrq      \* IrqManager::pendingIrq

ipcVars == <<sendQueue, notifyQueue>>
irqVars == <<forwardPid, pendingIrq>>
vars == <<nextPid, state, current, tickCount, sendQueue, notifyQueue, msg,
          waitPid, eax, buf, forwardPid, pendingIrq>>

-----------------------------------------------------------------------------
(* Scheduler.                                                              *)

(* Mutation: the state of the process is not looked at. *)
Present(p) == Alive(p)

(* p exists and is not waiting in receive: a message for it must be kept. *)
Busy(p) == Alive(p) /\ state[p] # "ReceiveBlocked"

(* Scheduler::switchTo: next becomes the running process. *)
SwitchTo(st, next) ==
    /\ state' = Resumed(st, next)
    /\ current' = next

(* Scheduler::reschedule, with the process states st its caller has set. *)
Reschedule(st) ==
    IF OnlyKernelTask(st)
    THEN state' = st /\ UNCHANGED <<current, tickCount>>
    ELSE SwitchTo(st, FindNextReady(st, current)) /\ tickCount' = 0

(* Mutation: the slice ends one tick late. *)
SliceOverrun == tickCount + 1 > TimeSlice

(* The tick that Scheduler::schedule counts is the last of the time slice. *)
SliceOver == tickCount + 1 >= TimeSlice

(* Scheduler::schedule, run by the timer: a switch when the slice is over. *)
Schedule ==
    IF OnlyKernelTask(state)
    THEN [state |-> state, current |-> current, tickCount |-> tickCount]
    ELSE IF ~SliceOver
    THEN [state |-> state, current |-> current, tickCount |-> tickCount + 1]
    ELSE LET ready == Demoted(state, current)
             next == FindNextReady(ready, current)
         IN  [state |-> Resumed(ready, next), current |-> next, tickCount |-> 0]

-----------------------------------------------------------------------------
(* System calls of the running process.  The kernel task makes none.       *)

UserRunning == current # KernelTask

(* handleSyscall stores result in the caller's frame and returns to it. *)
Return(result) ==
    /\ eax' = [eax EXCEPT ![current] = result]
    /\ buf' = [buf EXCEPT ![current] = UserBuf]
    /\ UNCHANGED <<state, current, tickCount>>

(* The same, with a message written to the caller's buffer. *)
ReturnMessage(result, m) ==
    /\ eax' = [eax EXCEPT ![current] = result]
    /\ buf' = [buf EXCEPT ![current] = m]
    /\ UNCHANGED <<state, current, tickCount>>

(* SyscallHandler::send to no process or to itself. *)
SendError(t) ==
    /\ UserRunning
    /\ ~Alive(t) \/ t = current
    /\ Return(-1)
    /\ UNCHANGED <<nextPid, ipcVars, msg, waitPid, irqVars>>

(* send to a process blocked in receive: it gets the message at once. *)
SendDeliver(t) ==
    /\ UserRunning
    /\ t # current
    /\ state[t] = "ReceiveBlocked"
    /\ msg' = [msg EXCEPT ![current] = t]
    /\ eax' = [eax EXCEPT ![t] = current, ![current] = NoResult]
    /\ buf' = [buf EXCEPT ![t] = Msg("send", current, t), ![current] = UserBuf]
    /\ Reschedule([state EXCEPT ![t] = "Ready", ![current] = "SendBlocked"])
    /\ UNCHANGED <<nextPid, ipcVars, waitPid, irqVars>>

(* send to a busy process: the sender is queued. *)
SendEnqueue(t) ==
    /\ UserRunning
    /\ t # current
    /\ Busy(t)
    /\ Len(sendQueue[t]) < QueueBound
    /\ sendQueue' = [sendQueue EXCEPT ![t] = Append(@, current)]
    /\ msg' = [msg EXCEPT ![current] = t]
    /\ eax' = [eax EXCEPT ![current] = NoResult]
    /\ buf' = [buf EXCEPT ![current] = UserBuf]
    /\ Reschedule([state EXCEPT ![current] = "SendBlocked"])
    /\ UNCHANGED <<nextPid, notifyQueue, waitPid, irqVars>>

(* send to a busy process when the heap has no room for the queue node:    *)
(* the outgoing message has been overwritten by then.                      *)
SendNoMemory(t) ==
    /\ UserRunning
    /\ t # current
    /\ Busy(t)
    /\ msg' = [msg EXCEPT ![current] = t]
    /\ Return(-1)
    /\ UNCHANGED <<nextPid, ipcVars, waitPid, irqVars>>

Send(t) == SendError(t) \/ SendDeliver(t) \/ SendEnqueue(t) \/ SendNoMemory(t)

(* IrqManager::deliverPending: lines p has claimed with the flag set. *)
PendingFor(p) == {i \in Irq : forwardPid[i] = p /\ pendingIrq[i]}

(* SyscallHandler::receive, in the order the code looks for work. *)
ReceiveIrq ==
    /\ UserRunning
    /\ PendingFor(current) # {}
    /\ LET i == Min(PendingFor(current))
       IN  /\ pendingIrq' = [pendingIrq EXCEPT ![i] = FALSE]
           /\ ReturnMessage(0, Msg("irq", i, current))
    /\ UNCHANGED <<nextPid, ipcVars, msg, waitPid, forwardPid>>

ReceiveNotification ==
    /\ UserRunning
    /\ PendingFor(current) = {}
    /\ notifyQueue[current] # <<>>
    /\ notifyQueue' = [notifyQueue EXCEPT ![current] = Tail(@)]
    /\ ReturnMessage(0, Msg("notify", Head(notifyQueue[current]), current))
    /\ UNCHANGED <<nextPid, sendQueue, msg, waitPid, irqVars>>

(* Mutation: receive looks at the send queue before the notifications. *)
ReceiveSenderFirst ==
    /\ UserRunning
    /\ PendingFor(current) = {}
    /\ sendQueue[current] # <<>>
    /\ sendQueue' = [sendQueue EXCEPT ![current] = Tail(@)]
    /\ LET s == Head(sendQueue[current])
       IN  IF Alive(s) THEN ReturnMessage(s, Msg("send", s, msg[s]))
           ELSE Return(-1)
    /\ UNCHANGED <<nextPid, notifyQueue, msg, waitPid, irqVars>>

(* Mutation: receive takes the newest sender. *)
ReceiveNewestSender ==
    /\ UserRunning
    /\ PendingFor(current) = {}
    /\ notifyQueue[current] = <<>>
    /\ sendQueue[current] # <<>>
    /\ sendQueue' = [sendQueue EXCEPT ![current] = SubSeq(@, 1, Len(@) - 1)]
    /\ LET s == sendQueue[current][Len(sendQueue[current])]
       IN  IF Alive(s) THEN ReturnMessage(s, Msg("send", s, msg[s]))
           ELSE Return(-1)
    /\ UNCHANGED <<nextPid, notifyQueue, msg, waitPid, irqVars>>

(* The first queued sender; -1 when that process no longer exists. *)
ReceiveSender ==
    /\ UserRunning
    /\ PendingFor(current) = {}
    /\ notifyQueue[current] = <<>>
    /\ sendQueue[current] # <<>>
    /\ sendQueue' = [sendQueue EXCEPT ![current] = Tail(@)]
    /\ LET s == Head(sendQueue[current])
       IN  IF Alive(s) THEN ReturnMessage(s, Msg("send", s, msg[s]))
           ELSE Return(-1)
    /\ UNCHANGED <<nextPid, notifyQueue, msg, waitPid, irqVars>>

ReceiveBlock ==
    /\ UserRunning
    /\ PendingFor(current) = {}
    /\ notifyQueue[current] = <<>>
    /\ sendQueue[current] = <<>>
    /\ eax' = [eax EXCEPT ![current] = NoResult]
    /\ buf' = [buf EXCEPT ![current] = UserBuf]
    /\ Reschedule([state EXCEPT ![current] = "ReceiveBlocked"])
    /\ UNCHANGED <<nextPid, ipcVars, msg, waitPid, irqVars>>

Receive == ReceiveIrq \/ ReceiveNotification \/ ReceiveSender \/ ReceiveBlock

(* SyscallHandler::reply.  The code asks that the target is blocked in a   *)
(* send, not that it is blocked in a send to the caller.                   *)
ReplyError(t) ==
    /\ UserRunning
    /\ state[t] # "SendBlocked"
    /\ Return(-1)
    /\ UNCHANGED <<nextPid, ipcVars, msg, waitPid, irqVars>>

ReplyDeliver(t) ==
    /\ UserRunning
    /\ state[t] = "SendBlocked"
    /\ eax' = [eax EXCEPT ![t] = 0, ![current] = 0]
    /\ buf' = [buf EXCEPT ![t] = Msg("reply", current, t), ![current] = UserBuf]
    /\ state' = [state EXCEPT ![t] = "Ready"]
    /\ UNCHANGED <<nextPid, current, tickCount, ipcVars, msg, waitPid, irqVars>>

Reply(t) == ReplyError(t) \/ ReplyDeliver(t)

(* SyscallHandler::notify never blocks its caller. *)
NotifyError(t) ==
    /\ UserRunning
    /\ ~Alive(t) \/ t = current
    /\ Return(-1)
    /\ UNCHANGED <<nextPid, ipcVars, msg, waitPid, irqVars>>

NotifyDeliver(t) ==
    /\ UserRunning
    /\ t # current
    /\ state[t] = "ReceiveBlocked"
    /\ eax' = [eax EXCEPT ![t] = 0, ![current] = 0]
    /\ buf' = [buf EXCEPT ![t] = Msg("notify", current, t), ![current] = UserBuf]
    /\ state' = [state EXCEPT ![t] = "Ready"]
    /\ UNCHANGED <<nextPid, current, tickCount, ipcVars, msg, waitPid, irqVars>>

NotifyEnqueue(t) ==
    /\ UserRunning
    /\ t # current
    /\ Busy(t)
    /\ Len(notifyQueue[t]) < QueueBound
    /\ notifyQueue' = [notifyQueue EXCEPT ![t] = Append(@, current)]
    /\ Return(0)
    /\ UNCHANGED <<nextPid, sendQueue, msg, waitPid, irqVars>>

NotifyNoMemory(t) ==
    /\ UserRunning
    /\ t # current
    /\ Busy(t)
    /\ Return(-1)
    /\ UNCHANGED <<nextPid, ipcVars, msg, waitPid, irqVars>>

Notify(t) ==
    NotifyError(t) \/ NotifyDeliver(t) \/ NotifyEnqueue(t) \/ NotifyNoMemory(t)

(* SyscallHandler::waitpid. *)
WaitPidError(t) ==
    /\ UserRunning
    /\ ~Alive(t) \/ t = current
    /\ Return(-1)
    /\ UNCHANGED <<nextPid, ipcVars, msg, waitPid, irqVars>>

WaitPidBlock(t) ==
    /\ UserRunning
    /\ Alive(t)
    /\ t # current
    /\ waitPid' = [waitPid EXCEPT ![current] = t]
    /\ eax' = [eax EXCEPT ![current] = NoResult]
    /\ buf' = [buf EXCEPT ![current] = UserBuf]
    /\ Reschedule([state EXCEPT ![current] = "WaitBlocked"])
    /\ UNCHANGED <<nextPid, ipcVars, msg, irqVars>>

WaitPid(t) == WaitPidError(t) \/ WaitPidBlock(t)

(* Mutation: create does not advance nextPid. *)
SamePid == nextPid

(* The nextPid++ of ProcessManager::create. *)
PidAfter == nextPid + 1

(* SyscallHandler::exec, ProcessManager::spawn and create: the child is    *)
(* appended to the list, Ready, with empty queues.                         *)
Exec ==
    /\ UserRunning
    /\ nextPid <= MaxPid
    /\ nextPid' = PidAfter
    /\ state' = [state EXCEPT ![nextPid] = "Ready"]
    /\ eax' = [eax EXCEPT ![nextPid] = 0, ![current] = nextPid]
    /\ buf' = [buf EXCEPT ![nextPid] = UserBuf, ![current] = UserBuf]
    /\ msg' = [msg EXCEPT ![nextPid] = 0]
    /\ waitPid' = [waitPid EXCEPT ![nextPid] = 0]
    /\ sendQueue' = [sendQueue EXCEPT ![nextPid] = <<>>]
    /\ notifyQueue' = [notifyQueue EXCEPT ![nextPid] = <<>>]
    /\ UNCHANGED <<current, tickCount, irqVars>>

(* exec gives up: bad arguments, no memory or not an ELF file. *)
ExecError ==
    /\ UserRunning
    /\ Return(0)
    /\ UNCHANGED <<nextPid, ipcVars, msg, waitPid, irqVars>>

(* ProcessManager::destroy: senders found in the queue of d return -1,     *)
(* processes waiting for d return 0, and d leaves the list.                *)
(* Mutations: destroy wakes every blocked sender, or none of them; it      *)
(* forgets the waiters.                                                    *)
EverySender(d) == {p \in Pid : state[p] = "SendBlocked"}
NoSenders(d) == {}
NoWaiters(d) == {}

RemovedSenders(d) ==
    {p \in Pid : state[p] = "SendBlocked" /\ \E i \in 1 .. Len(sendQueue[d]) :
                                                 sendQueue[d][i] = p}
RemovedWaiters(d) ==
    {p \in Pid : state[p] = "WaitBlocked" /\ waitPid[p] = d}

Destroyed(d) ==
    [p \in Pid |-> IF p = d THEN "Empty"
                   ELSE IF p \in RemovedSenders(d) \cup RemovedWaiters(d)
                   THEN "Ready" ELSE state[p]]

(* Mutation: destroy wakes processes without setting their results. *)
NoResults(d) == [eax EXCEPT ![d] = NoResult]

DestroyResults(d) ==
    [p \in Pid |-> IF p = d THEN NoResult
                   ELSE IF p \in RemovedSenders(d) THEN -1
                   ELSE IF p \in RemovedWaiters(d) THEN 0
                   ELSE eax[p]]

Destroy(d) ==
    /\ eax' = DestroyResults(d)
    /\ buf' = [buf EXCEPT ![d] = UserBuf]
    /\ sendQueue' = [sendQueue EXCEPT ![d] = <<>>]
    /\ notifyQueue' = [notifyQueue EXCEPT ![d] = <<>>]
    /\ msg' = [msg EXCEPT ![d] = 0]
    /\ waitPid' = [waitPid EXCEPT ![d] = 0]

(* Scheduler::exitCurrent. *)
Exit ==
    /\ UserRunning
    /\ Destroy(current)
    /\ SwitchTo(Destroyed(current), Successor(state, current))
    /\ tickCount' = 0
    /\ UNCHANGED <<nextPid, irqVars>>

(* The IrqRegister system call; registerForward overwrites any claim. *)
IrqRegister(irq) ==
    /\ UserRunning
    /\ IF irq >= 16 THEN Return(-1) /\ UNCHANGED forwardPid
       ELSE Return(0) /\ forwardPid' = [forwardPid EXCEPT ![irq] = current]
    /\ UNCHANGED <<nextPid, ipcVars, msg, waitPid, pendingIrq>>

-----------------------------------------------------------------------------
(* IrqManager::handleIrq.  The in-kernel handler, which only the timer has,*)
(* runs first; then the interrupt goes to the driver that claimed the line.*)

(* The scheduler's variables once the handler of the line has returned. *)
Scheduled(irq) ==
    IF irq = TimerIrq THEN Schedule
    ELSE [state |-> state, current |-> current, tickCount |-> tickCount]

(* A program that is switched out has taken its last result and message:   *)
(* the frame and the buffer are its own again.                             *)
Preempted(f, irq, own) ==
    IF Scheduled(irq).current # current THEN [f EXCEPT ![current] = own] ELSE f
SavedEax(irq) == Preempted(eax, irq, NoResult)
SavedBuf(irq) == Preempted(buf, irq, UserBuf)

(* The driver waits in receive: it gets an IrqNotify message. *)
IrqDeliver(irq) ==
    LET t == forwardPid[irq]
    IN  /\ t # 0
        /\ state[t] = "ReceiveBlocked"
        /\ state' = [Scheduled(irq).state EXCEPT ![t] = "Ready"]
        /\ eax' = [SavedEax(irq) EXCEPT ![t] = 0]
        /\ buf' = [SavedBuf(irq) EXCEPT ![t] = Msg("irq", irq, t)]
        /\ UNCHANGED pendingIrq

(* The driver is busy: the line is flagged until its next receive. *)
IrqPend(irq) ==
    /\ forwardPid[irq] # 0
    /\ Busy(forwardPid[irq])
    /\ state' = Scheduled(irq).state
    /\ pendingIrq' = [pendingIrq EXCEPT ![irq] = TRUE]
    /\ eax' = SavedEax(irq)
    /\ buf' = SavedBuf(irq)

(* No driver, or it has exited. *)
IrqDrop(irq) ==
    /\ forwardPid[irq] = 0 \/ ~Alive(forwardPid[irq])
    /\ state' = Scheduled(irq).state
    /\ eax' = SavedEax(irq)
    /\ buf' = SavedBuf(irq)
    /\ UNCHANGED pendingIrq

HandleIrq(irq) ==
    /\ IrqDeliver(irq) \/ IrqPend(irq) \/ IrqDrop(irq)
    /\ current' = Scheduled(irq).current
    /\ tickCount' = Scheduled(irq).tickCount
    /\ UNCHANGED <<nextPid, ipcVars, msg, waitPid, forwardPid>>

-----------------------------------------------------------------------------
(* Boot: start() spawns the modules it can load before it enables          *)
(* interrupts and becomes the idle task.                                   *)
Init ==
    /\ nextPid \in 1 .. BootModules + 1
    /\ state = [p \in Pid |-> IF p = KernelTask THEN "Running"
                              ELSE IF p < nextPid THEN "Ready" ELSE "Empty"]
    /\ current = KernelTask
    /\ tickCount = 0
    /\ sendQueue = [p \in Pid |-> <<>>]
    /\ notifyQueue = [p \in Pid |-> <<>>]
    /\ msg = [p \in Pid |-> 0]
    /\ waitPid = [p \in Pid |-> 0]
    /\ eax = [p \in Pid |-> IF p \in 1 .. nextPid - 1 THEN 0 ELSE NoResult]
    /\ buf = [p \in Pid |-> UserBuf]
    /\ forwardPid = [i \in Irq |-> 0]
    /\ pendingIrq = [i \in Irq |-> FALSE]

(* SyscallHandler::handleSyscall: the running process makes a call. *)
(* The system calls but reply, to which module Rpc gives a discipline. *)
OtherSyscall ==
    \/ "Send" \in Calls /\ \E t \in Pid : Send(t)
    \/ "Receive" \in Calls /\ Receive
    \/ "Notify" \in Calls /\ \E t \in Pid : Notify(t)
    \/ "WaitPid" \in Calls /\ \E t \in Pid : WaitPid(t)
    \/ "Exec" \in Calls /\ (Exec \/ ExecError)
    \/ "Exit" \in Calls /\ Exit
    \/ "IrqRegister" \in Calls /\ \E irq \in IrqArgs : IrqRegister(irq)

Syscall ==
    \/ OtherSyscall
    \/ "Reply" \in Calls /\ \E t \in Pid : Reply(t)

Interrupt == \E irq \in IrqLines : HandleIrq(irq)

Next == Syscall \/ Interrupt

Spec == Init /\ [][Next]_vars

-----------------------------------------------------------------------------
(* Properties.                                                             *)

(* Every variable holds values of the type the code declares for it. *)
TypeOK ==
    /\ nextPid \in 1 .. MaxPid + 1
    /\ state \in [Pid -> ProcessState]
    /\ current \in Pid
    /\ tickCount \in 0 .. TimeSlice - 1
    /\ sendQueue \in [Pid -> Seq(Pid)]
    /\ notifyQueue \in [Pid -> Seq(Pid)]
    /\ msg \in [Pid -> Pid]
    /\ waitPid \in [Pid -> Pid]
    /\ eax \in [Pid -> Eax]
    /\ buf \in [Pid -> Message]
    /\ forwardPid \in [Irq -> Pid]
    /\ pendingIrq \in [Irq -> BOOLEAN]

(* The scheduler and the IPC calls agree on who runs: the process that     *)
(* currentProcess points to is the only Running one, so no switch ever     *)
(* resumes a process that is still blocked or drops one that is not, and   *)
(* the idle task can always be switched to.                                *)
OneRunning ==
    /\ \A p \in Pid : state[p] = "Running" <=> p = current
    /\ state[KernelTask] \in {"Ready", "Running"}

(* No wake-up is lost: a process blocked in receive has no queued sender,  *)
(* no queued notification and no pending interrupt it has claimed.         *)
BlockedReceiverHasNoWork ==
    \A p \in Pid : state[p] = "ReceiveBlocked" =>
        /\ sendQueue[p] = <<>>
        /\ notifyQueue[p] = <<>>
        /\ PendingFor(p) = {}

(* waitpid never waits for a process that is gone: destroy finds every     *)
(* waiter, and a pid is never handed out again.                            *)
WaitersHaveTarget ==
    \A p \in Pid : state[p] = "WaitBlocked" =>
        Alive(waitPid[p]) /\ waitPid[p] # p

(* A pid that has not been handed out belongs to no process, and the ones  *)
(* of destroyed processes lie below nextPid: a pid never names two         *)
(* processes in a row, so a stale pid is never taken for a live one.       *)
PidsAreFresh ==
    /\ nextPid > KernelTask
    /\ \A p \in Pid : p >= nextPid => ~Alive(p)

(* A blocked call ends only when what it waits for has happened: receive   *)
(* with a message in the buffer and its sender (0 for the kernel and for   *)
(* notifications) in eax, send with a reply or with -1, waitpid when the   *)
(* process it names has exited.                                            *)
BlockedCallsEndWithTheirResult ==
    [][\A p \in Pid :
        /\ state[p] = "ReceiveBlocked" /\ state'[p] # "ReceiveBlocked" =>
              /\ buf'[p].kind \in {"send", "notify", "irq"} /\ buf'[p].to = p
              /\ eax'[p] = IF buf'[p].kind = "send" THEN buf'[p].from ELSE 0
        /\ state[p] = "SendBlocked" /\ state'[p] # "SendBlocked" =>
              (buf'[p].kind = "reply" /\ eax'[p] = 0) \/ eax'[p] = -1
        /\ state[p] = "WaitBlocked" /\ state'[p] # "WaitBlocked" =>
              state'[waitPid[p]] = "Empty" /\ eax'[p] = 0]_vars

(* Round robin: under the timer every Ready process gets the processor,    *)
(* whatever system calls the other processes make.                         *)
ReadyRuns == \A p \in Pid : state[p] = "Ready" ~> state[p] = "Running"

=============================================================================
