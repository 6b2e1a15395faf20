--------------------------- MODULE KernelPreempt ----------------------------
(***************************************************************************)
(* System calls with the interrupts the hardware can take inside them.     *)
(* SyscallHandler::load installs vector 0x80 as a trap gate, which leaves  *)
(* the interrupt flag set, so the timer and the devices interrupt send,    *)
(* receive, waitpid and exit between any two of their steps; the interrupt *)
(* handlers themselves run behind interrupt gates and are not interrupted. *)
(*                                                                         *)
(* pc says where inside its call a process is.  A process that the timer   *)
(* switches out in the middle of a call keeps its pc and continues there   *)
(* when it is resumed.  Results, message contents and notifications are    *)
(* left to module Kernel: here only who is blocked, queued and waiting.    *)
(***************************************************************************)
EXTENDS Scheduler, Sequences

CONSTANTS
    BootModules,    \* processes that start() spawned
    QueueBound      \* bound: nodes the kernel heap can give to one send queue

ASSUME PreemptAssumption ==
    /\ BootModules \in 1 .. MaxPid
    /\ QueueBound \in Nat

(* The driver that has claimed the device's interrupt line. *)
Driver == 1

(* Where an interrupt may find a process (the values of pc):               *)
(*   user        in user mode                                              *)
(*   deliver     send has seen a ReceiveBlocked target                     *)
(*   enqueue     send has seen a busy target                               *)
(*   block       send is about to mark the sender SendBlocked              *)
(*   queues      receive has found no pending interrupt                    *)
(*   sleep       receive has found its queues empty                        *)
(*   wait        waitpid has found its target                              *)
(*   leave       exitCurrent has chosen the successor                      *)
(*   reschedule  the call is about to run the scheduler                    *)

VARIABLES
    sendQueue,      \* Process::sendQueue
    waitPid,        \* Process::waitPid
    pendingIrq,     \* IrqManager::pendingIrq of the driver's line
    pc,             \* where in its system call a process is
    target          \* the Process* a call holds across its steps

vars == <<state, current, sendQueue, waitPid, pendingIrq, pc, target>>

(* The heap has a node left for the send queue of p. *)
RoomFor(p) == Len(sendQueue[p]) < QueueBound

(* The running process is at point l of the code. *)
At(l) == current # KernelTask /\ pc[current] = l
Goto(l) == pc' = [pc EXCEPT ![current] = l]
SetState(p, s) == state' = [state EXCEPT ![p] = s]

-----------------------------------------------------------------------------
(* SyscallHandler::send.  The target is looked up and its state tested;    *)
(* the delivery or the push into the queue follows, then the sender is     *)
(* marked SendBlocked.  Steps that follow a pointer to a process that has  *)
(* been freed meanwhile are not modelled.                                  *)
SendLookup(t) ==
    /\ At("user")
    /\ Alive(t) /\ t # current
    /\ target' = [target EXCEPT ![current] = t]
    /\ Goto(IF state[t] = "ReceiveBlocked" THEN "deliver" ELSE "enqueue")
    /\ UNCHANGED <<state, current, sendQueue, waitPid, pendingIrq>>

SendDeliver ==
    /\ At("deliver")
    /\ Alive(target[current])
    /\ SetState(target[current], "Ready")
    /\ Goto("block")
    /\ UNCHANGED <<current, sendQueue, waitPid, pendingIrq, target>>

SendEnqueue ==
    /\ At("enqueue")
    /\ Alive(target[current])
    /\ RoomFor(target[current])
    /\ sendQueue' = [sendQueue EXCEPT ![target[current]] = Append(@, current)]
    /\ Goto("block")
    /\ UNCHANGED <<state, current, waitPid, pendingIrq, target>>

(* The heap has no room for the queue node: send returns -1. *)
SendNoMemory ==
    /\ At("enqueue")
    /\ Alive(target[current])
    /\ Goto("user")
    /\ UNCHANGED <<state, current, sendQueue, waitPid, pendingIrq, target>>

SendBlock ==
    /\ At("block")
    /\ SetState(current, "SendBlocked")
    /\ Goto("reschedule")
    /\ UNCHANGED <<current, sendQueue, waitPid, pendingIrq, target>>

(* SyscallHandler::receive: the pending interrupt, the send queue, then    *)
(* the process is marked ReceiveBlocked.                                   *)
ReceiveIrq ==
    /\ At("user")
    /\ IF current = Driver /\ pendingIrq
       THEN pendingIrq' = FALSE /\ UNCHANGED pc
       ELSE Goto("queues") /\ UNCHANGED pendingIrq
    /\ UNCHANGED <<state, current, sendQueue, waitPid, target>>

ReceiveSender ==
    /\ At("queues")
    /\ IF sendQueue[current] # <<>>
       THEN /\ sendQueue' = [sendQueue EXCEPT ![current] = Tail(@)]
            /\ Goto("user")
       ELSE Goto("sleep") /\ UNCHANGED sendQueue
    /\ UNCHANGED <<state, current, waitPid, pendingIrq, target>>

ReceiveBlock ==
    /\ At("sleep")
    /\ SetState(current, "ReceiveBlocked")
    /\ Goto("reschedule")
    /\ UNCHANGED <<current, sendQueue, waitPid, pendingIrq, target>>

(* SyscallHandler::reply, taken as one step. *)
Reply(t) ==
    /\ At("user")
    /\ state[t] = "SendBlocked"
    /\ SetState(t, "Ready")
    /\ UNCHANGED <<current, sendQueue, waitPid, pendingIrq, pc, target>>

(* SyscallHandler::waitpid. *)
WaitLookup(t) ==
    /\ At("user")
    /\ Alive(t) /\ t # current
    /\ target' = [target EXCEPT ![current] = t]
    /\ Goto("wait")
    /\ UNCHANGED <<state, current, sendQueue, waitPid, pendingIrq>>

WaitBlock ==
    /\ At("wait")
    /\ waitPid' = [waitPid EXCEPT ![current] = target[current]]
    /\ SetState(current, "WaitBlocked")
    /\ Goto("reschedule")
    /\ UNCHANGED <<current, sendQueue, pendingIrq, target>>

(* handleSyscall runs Scheduler::reschedule once a call has blocked: the   *)
(* frame of the call is saved and its process resumes in user mode.        *)
Reschedule ==
    /\ At("reschedule")
    /\ LET next == FindNextReady(state, current)
       IN  state' = Resumed(state, next) /\ current' = next
    /\ Goto("user")
    /\ UNCHANGED <<sendQueue, waitPid, pendingIrq, target>>

(* Scheduler::exitCurrent chooses the successor, then destroys the caller  *)
(* and switches; the destruction and the switch are one step.              *)
ExitChoose ==
    /\ At("user")
    /\ target' = [target EXCEPT ![current] = Successor(state, current)]
    /\ Goto("leave")
    /\ UNCHANGED <<state, current, sendQueue, waitPid, pendingIrq>>

Destroyed(d) ==
    [p \in Pid |->
        IF p = d THEN "Empty"
        ELSE IF \/ state[p] = "WaitBlocked" /\ waitPid[p] = d
                \/ /\ state[p] = "SendBlocked"
                   /\ \E i \in 1 .. Len(sendQueue[d]) : sendQueue[d][i] = p
        THEN "Ready" ELSE state[p]]

(* Mutation: exitCurrent does not call setCurrent. *)
ExitKeepsCurrent ==
    /\ At("leave")
    /\ Alive(target[current])
    /\ state' = Resumed(Destroyed(current), target[current])
    /\ sendQueue' = [sendQueue EXCEPT ![current] = <<>>]
    /\ Goto("user")
    /\ UNCHANGED <<current, waitPid, pendingIrq, target>>

ExitDestroy ==
    /\ At("leave")
    /\ Alive(target[current])
    /\ state' = Resumed(Destroyed(current), target[current])
    /\ current' = target[current]
    /\ sendQueue' = [sendQueue EXCEPT ![current] = <<>>]
    /\ Goto("user")
    /\ UNCHANGED <<waitPid, pendingIrq, target>>

-----------------------------------------------------------------------------
(* Interrupts, at any point.                                               *)

(* Scheduler::schedule at the end of a time slice. *)
Timer ==
    /\ LET ready == Demoted(state, current)
           next == FindNextReady(ready, current)
       IN  IF OnlyKernelTask(state) THEN UNCHANGED <<state, current>>
           ELSE state' = Resumed(ready, next) /\ current' = next
    /\ UNCHANGED <<sendQueue, waitPid, pendingIrq, pc, target>>

(* IrqManager::handleIrq for the driver's line. *)
DeviceIrq ==
    /\ Alive(Driver)
    /\ IF state[Driver] = "ReceiveBlocked"
       THEN SetState(Driver, "Ready") /\ UNCHANGED pendingIrq
       ELSE pendingIrq' = TRUE /\ UNCHANGED state
    /\ UNCHANGED <<current, sendQueue, waitPid, pc, target>>

-----------------------------------------------------------------------------
Init ==
    /\ state = [p \in Pid |-> IF p = KernelTask THEN "Running"
                              ELSE IF p <= BootModules THEN "Ready" ELSE "Empty"]
    /\ current = KernelTask
    /\ sendQueue = [p \in Pid |-> <<>>]
    /\ waitPid = [p \in Pid |-> 0]
    /\ pendingIrq = FALSE
    /\ pc = [p \in Pid |-> "user"]
    /\ target = [p \in Pid |-> 0]

Next ==
    \/ \E t \in Pid : SendLookup(t) \/ Reply(t) \/ WaitLookup(t)
    \/ SendDeliver \/ SendEnqueue \/ SendNoMemory \/ SendBlock
    \/ ReceiveIrq \/ ReceiveSender \/ ReceiveBlock
    \/ WaitBlock \/ Reschedule \/ ExitChoose \/ ExitDestroy
    \/ Timer \/ DeviceIrq

Spec == Init /\ [][Next]_vars

(* The PIT interrupts periodically whatever runs. *)
FairSpec == Spec /\ WF_vars(Timer)

-----------------------------------------------------------------------------
(* Properties.                                                             *)

(* Every Ready process gets the processor, also when the others are        *)
(* interrupted inside their calls.                                         *)
ReadyRuns == \A p \in Pid : state[p] = "Ready" ~> state[p] = "Running"

(* Nobody sleeps while what it waits for is there or can no longer come:   *)
(* a driver blocked in receive has got its pending interrupt, a receiver   *)
(* has no sender queued, and waitpid waits for a process that exists.      *)
(* With atomic system calls this is a theorem (module KernelProofs).       *)
SleepersHaveNoWork ==
    /\ state[Driver] = "ReceiveBlocked" => ~pendingIrq
    /\ \A p \in Pid : state[p] = "ReceiveBlocked" => sendQueue[p] = <<>>
    /\ \A p \in Pid : state[p] = "WaitBlocked" => Alive(waitPid[p])

=============================================================================
