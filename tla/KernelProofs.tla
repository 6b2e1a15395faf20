---------------------------- MODULE KernelProofs ----------------------------
(***************************************************************************)
(* What the scheduler chooses and the invariants of module Kernel, for     *)
(* every number of processes, every time slice and every set of interrupt  *)
(* lines; and, for programs that reply only to the callers they serve      *)
(* (module Rpc), what send, receive and reply guarantee with all other     *)
(* calls and interrupts in between.  The last part is about system calls   *)
(* that are interrupted themselves (module KernelPreempt).                 *)
(***************************************************************************)
EXTENDS Rpc, LoopTheorems

(* findNextReady never names a process that cannot run: it returns a Ready *)
(* process other than c, or c when there is none.                          *)
THEOREM NextIsReady ==
    ASSUME NEW st \in [Pid -> ProcessState], NEW c \in Pid
    PROVE  /\ FindNextReady(st, c) \in Pid
           /\ FindNextReady(st, c) # c => st[FindNextReady(st, c)] = "Ready"
           /\ FindNextReady(st, c) = c => \A p \in Pid \ {c} : st[p] # "Ready"
<1> DEFINE ready == {p \in Pid \ {c} : st[p] = "Ready"}
           after == {p \in ready : p > c}
<1>1. ready \in SUBSET Nat /\ after \in SUBSET Nat
  BY MaxPidAssumption DEF Pid
<1>2. CASE ready = {}
  BY <1>2 DEF FindNextReady
<1>3. CASE ready # {} /\ after # {}
  <2>1. Min(after) \in after
    BY <1>1, <1>3, MinInSet
  <2>2. FindNextReady(st, c) = Min(after)
    BY <1>3 DEF FindNextReady
  <2>3. QED
    BY <2>1, <2>2
<1>4. CASE ready # {} /\ after = {}
  <2>1. Min(ready) \in ready
    BY <1>1, <1>4, MinInSet
  <2>2. FindNextReady(st, c) = Min(ready)
    BY <1>4 DEF FindNextReady
  <2>3. QED
    BY <2>1, <2>2
<1>5. QED
  BY <1>2, <1>3, <1>4

(* Round robin: no Ready process is passed over.  Counting from c and      *)
(* wrapping at the end of the list, the process findNextReady returns      *)
(* comes no later than any other Ready process p.                          *)
THEOREM NextIsNearest ==
    ASSUME NEW st \in [Pid -> ProcessState], NEW c \in Pid,
           NEW p \in Pid \ {c}, st[p] = "Ready"
    PROVE  /\ p > c => FindNextReady(st, c) \in c + 1 .. p
           /\ p < c => FindNextReady(st, c) > c \/ FindNextReady(st, c) <= p
<1> DEFINE ready == {q \in Pid \ {c} : st[q] = "Ready"}
           after == {q \in ready : q > c}
<1>1. ready \in SUBSET Nat /\ after \in SUBSET Nat /\ p \in ready /\ ready # {}
  BY MaxPidAssumption DEF Pid
<1>2. CASE after # {}
  <2>1. Min(after) \in after /\ \A y \in after : Min(after) <= y
    BY <1>1, <1>2, MinInSet
  <2>2. FindNextReady(st, c) = Min(after)
    BY <1>1, <1>2 DEF FindNextReady
  <2> HIDE DEF ready
  <2>3. p > c => p \in after
    BY <1>1
  <2>4. Min(after) \in Nat /\ Min(after) > c /\ p \in Nat /\ c \in Nat
    BY <1>1, <2>1, MaxPidAssumption DEF Pid
  <2>5. p > c => Min(after) <= p
    BY <2>1, <2>3
  <2>6. QED
    BY <2>2, <2>4, <2>5
<1>3. CASE after = {}
  <2>1. Min(ready) \in ready /\ \A y \in ready : Min(ready) <= y
    BY <1>1, MinInSet
  <2>2. FindNextReady(st, c) = Min(ready)
    BY <1>1, <1>3 DEF FindNextReady
  <2>3. ~(p > c)
    BY <1>1, <1>3
  <2>4. QED
    BY <1>1, <2>1, <2>2, <2>3
<1>4. QED
  BY <1>2, <1>3

-----------------------------------------------------------------------------
(* The inductive invariant. *)
IInv ==
    /\ TypeOK
    /\ OneRunning
    /\ PidsAreFresh
    /\ BlockedReceiverHasNoWork
    /\ WaitersHaveTarget

(* Some Ready process n of st becomes the running one. *)
SwitchesFrom(st) ==
    \E n \in Pid : /\ st[n] = "Ready"
                   /\ state' = [st EXCEPT ![n] = "Running"]
                   /\ current' = n
                   /\ tickCount' = 0

(* reschedule always finds a process to run: the idle task is Ready as     *)
(* soon as the caller, a user process, has blocked.                        *)
LEMMA RescheduleSwitches ==
    ASSUME TypeOK, OneRunning, current # KernelTask,
           NEW st \in [Pid -> ProcessState],
           st[KernelTask] = state[KernelTask],
           st[current] # "Empty",
           Reschedule(st)
    PROVE  SwitchesFrom(st)
<1>1. current \in Pid /\ KernelTask \in Pid
  BY MaxPidAssumption DEF TypeOK, Pid, KernelTask
<1>2. st[KernelTask] = "Ready"
  BY <1>1 DEF OneRunning
<1>3. ~OnlyKernelTask(st)
  BY <1>1 DEF OnlyKernelTask
<1> DEFINE n == FindNextReady(st, current)
<1>4. n \in Pid /\ st[n] = "Ready"
  BY <1>1, <1>2, NextIsReady
<1>5. SwitchTo(st, n) /\ tickCount' = 0
  BY <1>3 DEF Reschedule
<1> HIDE DEF n
<1>6. QED
  BY <1>4, <1>5 DEF SwitchTo, Resumed, SwitchesFrom

(* What the timer's handler can do: count a tick, or give the processor to *)
(* a process n that is Ready once the current one is demoted.              *)
KeepsRunning(irq) ==
    /\ Scheduled(irq).state = state
    /\ Scheduled(irq).current = current
    /\ Scheduled(irq).tickCount \in 0 .. TimeSlice - 1
GivesWayTo(irq, n) ==
    LET ready == [state EXCEPT ![current] = "Ready"]
    IN  /\ ready[n] = "Ready"
        /\ Scheduled(irq).state = [ready EXCEPT ![n] = "Running"]
        /\ Scheduled(irq).current = n
        /\ Scheduled(irq).tickCount = 0

(* A tick keeps the current process or gives way to a Ready one. *)
LEMMA ScheduledCases ==
    ASSUME TypeOK, OneRunning, NEW irq \in IrqLines
    PROVE  KeepsRunning(irq) \/ \E n \in Pid : GivesWayTo(irq, n)
<1>1. current \in Pid /\ state[current] = "Running"
  BY DEF TypeOK, OneRunning
<1>2. CASE irq # TimerIrq \/ OnlyKernelTask(state) \/ ~SliceOver
  BY <1>2, BoundsAssumption DEF Scheduled, Schedule, SliceOver, TypeOK, KeepsRunning
<1>3. CASE irq = TimerIrq /\ ~OnlyKernelTask(state) /\ SliceOver
  <2> DEFINE ready == [state EXCEPT ![current] = "Ready"]
             n == FindNextReady(ready, current)
  <2>1. ready \in [Pid -> ProcessState] /\ ready[current] = "Ready"
    BY <1>1 DEF TypeOK, ProcessState
  <2>2. Demoted(state, current) = ready
    BY <1>1 DEF Demoted
  <2>3. n \in Pid /\ ready[n] = "Ready"
    <3> HIDE DEF ready
    <3> QED BY <1>1, <2>1, NextIsReady
  <2>4. Scheduled(irq) = [state |-> Resumed(ready, n), current |-> n, tickCount |-> 0]
    BY <1>3, <2>2 DEF Scheduled, Schedule
  <2>5. /\ Scheduled(irq).state = [ready EXCEPT ![n] = "Running"]
        /\ Scheduled(irq).current = n
        /\ Scheduled(irq).tickCount = 0
    <3> HIDE DEF n, ready
    <3> QED BY <2>4 DEF Resumed
  <2>6. QED
    <3> HIDE DEF n
    <3> QED BY <2>3, <2>5 DEF GivesWayTo
<1>4. QED
  BY <1>2, <1>3

-----------------------------------------------------------------------------
(* Type correctness.                                                       *)

LEMMA InitType == Init => TypeOK
<1>1. KernelTask \in Pid /\ UserBuf \in Message /\ 0 \in Eax /\ NoResult \in Eax
  BY MaxPidAssumption DEF KernelTask, Pid, UserBuf, Message, Eax, NoResult, Irq
<1>2. QED
  BY <1>1, MaxPidAssumption, BoundsAssumption
  DEF Init, TypeOK, ProcessState, Pid, KernelTask, Irq

(* The scheduler's variables keep their types across a switch. *)
LEMMA SwitchType ==
    ASSUME NEW st \in [Pid -> ProcessState], SwitchesFrom(st)
    PROVE  /\ state' \in [Pid -> ProcessState]
           /\ current' \in Pid
           /\ tickCount' \in 0 .. TimeSlice - 1
BY BoundsAssumption DEF SwitchesFrom, ProcessState

(* A tick leaves states, current process and tick count in their types. *)
LEMMA ScheduledType ==
    ASSUME TypeOK, OneRunning, NEW irq \in IrqLines
    PROVE  /\ Scheduled(irq).state \in [Pid -> ProcessState]
           /\ Scheduled(irq).current \in Pid
           /\ Scheduled(irq).tickCount \in 0 .. TimeSlice - 1
<1>1. CASE KeepsRunning(irq)
  BY <1>1 DEF KeepsRunning, TypeOK
<1>2. ASSUME NEW n \in Pid, GivesWayTo(irq, n)
      PROVE  /\ Scheduled(irq).state \in [Pid -> ProcessState]
             /\ Scheduled(irq).current \in Pid
             /\ Scheduled(irq).tickCount \in 0 .. TimeSlice - 1
  <2> DEFINE ready == [state EXCEPT ![current] = "Ready"]
  <2>1. ready \in [Pid -> ProcessState]
    BY DEF TypeOK, ProcessState
  <2>2. Scheduled(irq).state = [ready EXCEPT ![n] = "Running"]
    BY <1>2 DEF GivesWayTo
  <2> HIDE DEF ready
  <2>3. Scheduled(irq).state \in [Pid -> ProcessState]
    BY <2>1, <2>2 DEF ProcessState
  <2>4. QED
    BY <1>2, <2>3, BoundsAssumption DEF GivesWayTo
<1>3. QED
  BY <1>1, <1>2, ScheduledCases

-----------------------------------------------------------------------------
(* The three shapes of a kernel entry.                                     *)

(* Values the kernel stores in frames and buffers. *)
LEMMA Values ==
    ASSUME TypeOK
    PROVE  /\ KernelTask \in Pid
           /\ {-1, 0, NoResult} \subseteq Eax /\ Pid \subseteq Eax
           /\ UserBuf \in Message
           /\ \A k \in {"send", "notify", "reply"}, p, q \in Pid : Msg(k, p, q) \in Message
           /\ \A i \in Irq, q \in Pid : Msg("irq", i, q) \in Message
BY MaxPidAssumption DEF KernelTask, Eax, NoResult, UserBuf, Msg, Message, Pid, Irq

(* The caller continues and nobody is woken. *)
LEMMA QuietStep ==
    ASSUME IInv, TypeOK', UNCHANGED <<nextPid, state, current, waitPid>>,
           \A p \in Pid : state[p] = "ReceiveBlocked" =>
               /\ sendQueue'[p] = sendQueue[p]
               /\ notifyQueue'[p] = notifyQueue[p]
               /\ PendingFor(p)' \subseteq PendingFor(p)
    PROVE  IInv'
<1>1. OneRunning' /\ PidsAreFresh' /\ WaitersHaveTarget'
  BY DEF IInv, OneRunning, PidsAreFresh, WaitersHaveTarget, Alive
<1>2. BlockedReceiverHasNoWork'
  BY DEF IInv, BlockedReceiverHasNoWork
<1>3. QED
  BY <1>1, <1>2 DEF IInv

(* The caller continues and t, which was blocked, is woken. *)
LEMMA WakeStep ==
    ASSUME IInv, NEW t \in Pid,
           state[t] \in {"SendBlocked", "ReceiveBlocked"},
           state' = [state EXCEPT ![t] = "Ready"],
           eax' \in [Pid -> Eax], buf' \in [Pid -> Message],
           UNCHANGED <<nextPid, current, tickCount, ipcVars, msg, waitPid, irqVars>>
    PROVE  IInv'
<1> USE DEF IInv
<1>1. TypeOK'
  BY DEF TypeOK, ProcessState, ipcVars, irqVars
<1>2. OneRunning'
  BY Values DEF OneRunning, TypeOK
<1>3. PidsAreFresh' /\ WaitersHaveTarget'
  BY DEF PidsAreFresh, WaitersHaveTarget, Alive, TypeOK
<1>4. BlockedReceiverHasNoWork'
  BY DEF BlockedReceiverHasNoWork, PendingFor, TypeOK, ipcVars, irqVars
<1>5. QED
  BY <1>1, <1>2, <1>3, <1>4

(* The caller blocks, perhaps after waking a receiver, and the scheduler   *)
(* gives the processor to another process.                                 *)
LEMMA BlockStep ==
    ASSUME IInv, UserRunning, NEW st \in [Pid -> ProcessState], Reschedule(st),
           st[current] \in {"SendBlocked", "ReceiveBlocked", "WaitBlocked"},
           \A p \in Pid \ {current} :
               st[p] = state[p] \/ (state[p] = "ReceiveBlocked" /\ st[p] = "Ready"),
           eax' \in [Pid -> Eax], buf' \in [Pid -> Message],
           msg' \in [Pid -> Pid], waitPid' \in [Pid -> Pid],
           sendQueue' \in [Pid -> Seq(Pid)], notifyQueue' \in [Pid -> Seq(Pid)],
           UNCHANGED <<nextPid, irqVars>>,
           \A p \in Pid : st[p] = "ReceiveBlocked" =>
               sendQueue'[p] = <<>> /\ notifyQueue'[p] = <<>> /\ PendingFor(p) = {},
           \A p \in Pid : st[p] = "WaitBlocked" =>
               st[waitPid'[p]] # "Empty" /\ waitPid'[p] # p
    PROVE  IInv'
<1> USE DEF IInv
<1>1. /\ current \in Pid /\ KernelTask \in Pid /\ current # KernelTask
      /\ state[current] = "Running"
  BY Values DEF UserRunning, TypeOK, OneRunning
<1>2. SwitchesFrom(st)
  <2>1. st[KernelTask] = state[KernelTask] /\ st[current] # "Empty"
    BY <1>1 DEF OneRunning
  <2>2. QED
    BY <1>1, <2>1, RescheduleSwitches
<1>3. PICK n \in Pid : /\ st[n] = "Ready"
                       /\ state' = [st EXCEPT ![n] = "Running"]
                       /\ current' = n
  BY <1>2 DEF SwitchesFrom
<1>4. TypeOK'
  <2>1. /\ state' \in [Pid -> ProcessState] /\ current' \in Pid
        /\ tickCount' \in 0 .. TimeSlice - 1
    BY <1>2, SwitchType
  <2>2. QED
    BY <2>1 DEF TypeOK, irqVars
<1>5. OneRunning'
  BY <1>1, <1>3 DEF OneRunning
<1>6. PidsAreFresh'
  BY <1>1, <1>3 DEF PidsAreFresh, Alive
<1>7. BlockedReceiverHasNoWork'
  BY <1>3 DEF BlockedReceiverHasNoWork, PendingFor, irqVars
<1>8. WaitersHaveTarget'
  BY <1>3 DEF WaitersHaveTarget, Alive
<1>9. QED
  BY <1>4, <1>5, <1>6, <1>7, <1>8

-----------------------------------------------------------------------------
(* One lemma per system call.                                              *)

(* A call that returns a result and changes nothing but the caller's       *)
(* frame, buffer and outgoing message.                                     *)
LEMMA ReturnStep ==
    ASSUME IInv, NEW v \in Eax, Return(v), msg' \in [Pid -> Pid],
           UNCHANGED <<nextPid, ipcVars, waitPid, irqVars>>
    PROVE  IInv'
<1>1. TypeOK'
  BY Values DEF IInv, TypeOK, Return, ipcVars, irqVars
<1>2. QED
  BY <1>1, QuietStep DEF Return, PendingFor, ipcVars, irqVars

(* send, on each of its paths. *)
LEMMA SendStep ==
    ASSUME IInv, NEW t \in Pid, Send(t)
    PROVE  IInv'
<1> USE DEF IInv
<1>1. CASE SendError(t)
  BY <1>1, Values, ReturnStep DEF SendError, TypeOK
<1>2. CASE SendNoMemory(t)
  <2>1. msg' \in [Pid -> Pid]
    BY <1>2 DEF SendNoMemory, TypeOK
  <2>2. QED
    BY <1>2, <2>1, Values, ReturnStep DEF SendNoMemory
<1>3. CASE SendDeliver(t)
  <2> DEFINE st == [state EXCEPT ![t] = "Ready", ![current] = "SendBlocked"]
  <2>1. /\ st \in [Pid -> ProcessState] /\ st[current] = "SendBlocked"
        /\ Reschedule(st) /\ UserRunning
    BY <1>3 DEF SendDeliver, TypeOK, ProcessState
  <2>2. \A p \in Pid \ {current} :
           st[p] = state[p] \/ (state[p] = "ReceiveBlocked" /\ st[p] = "Ready")
    BY <1>3 DEF SendDeliver, TypeOK
  <2>3. /\ eax' \in [Pid -> Eax] /\ buf' \in [Pid -> Message]
        /\ msg' \in [Pid -> Pid]
    BY <1>3, Values DEF SendDeliver, TypeOK
  <2>4. \A p \in Pid : st[p] = "ReceiveBlocked" =>
           sendQueue'[p] = <<>> /\ notifyQueue'[p] = <<>> /\ PendingFor(p) = {}
    BY <1>3, <2>1 DEF SendDeliver, BlockedReceiverHasNoWork, ipcVars, TypeOK
  <2>5. \A p \in Pid : st[p] = "WaitBlocked" =>
           st[waitPid'[p]] # "Empty" /\ waitPid'[p] # p
    BY <1>3 DEF SendDeliver, WaitersHaveTarget, Alive, TypeOK
  <2>6. /\ waitPid' \in [Pid -> Pid] /\ sendQueue' \in [Pid -> Seq(Pid)]
        /\ notifyQueue' \in [Pid -> Seq(Pid)] /\ UNCHANGED <<nextPid, irqVars>>
    BY <1>3 DEF SendDeliver, TypeOK, ipcVars
  <2> HIDE DEF st
  <2>7. QED
    BY <2>1, <2>2, <2>3, <2>4, <2>5, <2>6, BlockStep
<1>4. CASE SendEnqueue(t)
  <2> DEFINE st == [state EXCEPT ![current] = "SendBlocked"]
  <2>1. /\ st \in [Pid -> ProcessState] /\ st[current] = "SendBlocked"
        /\ Reschedule(st) /\ UserRunning
    BY <1>4 DEF SendEnqueue, TypeOK, ProcessState
  <2>2. \A p \in Pid \ {current} : st[p] = state[p]
    BY <1>4 DEF TypeOK
  <2>3. /\ eax' \in [Pid -> Eax] /\ buf' \in [Pid -> Message]
        /\ msg' \in [Pid -> Pid]
    BY <1>4, Values DEF SendEnqueue, TypeOK
  <2>4. sendQueue' \in [Pid -> Seq(Pid)]
    BY <1>4 DEF SendEnqueue, TypeOK
  <2>5. \A p \in Pid : st[p] = "ReceiveBlocked" =>
           sendQueue'[p] = <<>> /\ notifyQueue'[p] = <<>> /\ PendingFor(p) = {}
    BY <1>4, <2>1, <2>2 DEF SendEnqueue, Busy, BlockedReceiverHasNoWork, TypeOK
  <2>6. \A p \in Pid : st[p] = "WaitBlocked" =>
           st[waitPid'[p]] # "Empty" /\ waitPid'[p] # p
    BY <1>4 DEF SendEnqueue, WaitersHaveTarget, Alive, TypeOK
  <2>7. /\ waitPid' \in [Pid -> Pid] /\ notifyQueue' \in [Pid -> Seq(Pid)]
        /\ UNCHANGED <<nextPid, irqVars>>
    BY <1>4 DEF SendEnqueue, TypeOK
  <2> HIDE DEF st
  <2>8. QED
    BY <2>1, <2>2, <2>3, <2>4, <2>5, <2>6, <2>7, BlockStep
<1>5. QED
  BY <1>1, <1>2, <1>3, <1>4 DEF Send

(* receive, on each of its paths. *)
LEMMA ReceiveStep ==
    ASSUME IInv, Receive
    PROVE  IInv'
<1> USE DEF IInv
<1>0. current \in Pid /\ state[current] = "Running"
  BY DEF TypeOK, OneRunning
<1>1. CASE ReceiveIrq
  <2> DEFINE i == Min(PendingFor(current))
  <2>1. i \in Irq
    <3>1. PendingFor(current) \in SUBSET Nat /\ PendingFor(current) \subseteq Irq
      BY DEF PendingFor, Irq
    <3>2. QED
      BY <1>1, <3>1, MinInSet DEF ReceiveIrq
  <2>2. /\ pendingIrq' = [pendingIrq EXCEPT ![i] = FALSE]
        /\ ReturnMessage(0, Msg("irq", i, current))
        /\ UNCHANGED <<nextPid, ipcVars, msg, waitPid, forwardPid>>
    BY <1>1 DEF ReceiveIrq
  <2> HIDE DEF i
  <2>3. TypeOK'
    BY <1>0, <2>1, <2>2, Values DEF TypeOK, ReturnMessage, ipcVars
  <2>4. \A p \in Pid : PendingFor(p)' \subseteq PendingFor(p)
    BY <2>1, <2>2 DEF PendingFor, TypeOK
  <2>5. QED
    BY <2>2, <2>3, <2>4, QuietStep DEF ReturnMessage, ipcVars
<1>2. CASE ReceiveNotification
  <2>1. Head(notifyQueue[current]) \in Pid /\ Tail(notifyQueue[current]) \in Seq(Pid)
    BY <1>0, <1>2 DEF ReceiveNotification, TypeOK
  <2>2. TypeOK'
    BY <1>0, <1>2, <2>1, Values DEF ReceiveNotification, ReturnMessage, TypeOK, irqVars
  <2>3. QED
    BY <1>0, <1>2, <2>2, QuietStep
    DEF ReceiveNotification, ReturnMessage, PendingFor, irqVars, TypeOK
<1>3. CASE ReceiveSender
  <2> DEFINE s == Head(sendQueue[current])
  <2>1. s \in Pid /\ Tail(sendQueue[current]) \in Seq(Pid)
    BY <1>0, <1>3 DEF ReceiveSender, TypeOK
  <2>2. /\ eax' \in [Pid -> Eax] /\ buf' \in [Pid -> Message]
        /\ UNCHANGED <<state, current, tickCount>>
    <3>1. CASE Alive(s)
      <4>1. ReturnMessage(s, Msg("send", s, msg[s]))
        BY <1>3, <3>1 DEF ReceiveSender
      <4>2. QED
        <5>1. msg[s] \in Pid
          BY <2>1 DEF TypeOK
        <5>2. s \in Eax /\ Msg("send", s, msg[s]) \in Message
          BY <2>1, <5>1, Values
        <5> HIDE DEF s
        <5>3. QED
          BY <4>1, <5>2 DEF ReturnMessage, TypeOK
    <3>2. CASE ~Alive(s)
      <4>1. Return(-1)
        BY <1>3, <3>2 DEF ReceiveSender
      <4>2. QED
        BY <4>1, Values DEF Return, TypeOK
    <3>3. QED
      BY <3>1, <3>2
  <2>3. TypeOK'
    BY <1>0, <1>3, <2>1, <2>2 DEF ReceiveSender, TypeOK, irqVars
  <2>4. QED
    BY <1>0, <1>3, <2>2, <2>3, QuietStep DEF ReceiveSender, PendingFor, irqVars, TypeOK
<1>4. CASE ReceiveBlock
  <2> DEFINE st == [state EXCEPT ![current] = "ReceiveBlocked"]
  <2>1. /\ st \in [Pid -> ProcessState] /\ st[current] = "ReceiveBlocked"
        /\ Reschedule(st) /\ UserRunning
    BY <1>4 DEF ReceiveBlock, TypeOK, ProcessState
  <2>2. \A p \in Pid \ {current} : st[p] = state[p]
    BY DEF TypeOK
  <2>3. eax' \in [Pid -> Eax] /\ buf' \in [Pid -> Message]
    BY <1>4, Values DEF ReceiveBlock, TypeOK
  <2>4. \A p \in Pid : st[p] = "ReceiveBlocked" =>
           sendQueue'[p] = <<>> /\ notifyQueue'[p] = <<>> /\ PendingFor(p) = {}
    BY <1>4, <2>2 DEF ReceiveBlock, BlockedReceiverHasNoWork, ipcVars
  <2>5. \A p \in Pid : st[p] = "WaitBlocked" =>
           st[waitPid'[p]] # "Empty" /\ waitPid'[p] # p
    BY <1>4 DEF ReceiveBlock, WaitersHaveTarget, Alive, TypeOK
  <2>6. /\ msg' \in [Pid -> Pid] /\ waitPid' \in [Pid -> Pid]
        /\ sendQueue' \in [Pid -> Seq(Pid)] /\ notifyQueue' \in [Pid -> Seq(Pid)]
        /\ UNCHANGED <<nextPid, irqVars>>
    BY <1>4 DEF ReceiveBlock, TypeOK, ipcVars
  <2> HIDE DEF st
  <2>7. QED
    BY <2>1, <2>2, <2>3, <2>4, <2>5, <2>6, BlockStep
<1>5. QED
  BY <1>1, <1>2, <1>3, <1>4 DEF Receive

(* reply, accepted or refused. *)
LEMMA ReplyStep ==
    ASSUME IInv, NEW t \in Pid, Reply(t)
    PROVE  IInv'
<1> USE DEF IInv
<1>1. CASE ReplyError(t)
  BY <1>1, Values, ReturnStep DEF ReplyError, TypeOK
<1>2. CASE ReplyDeliver(t)
  <2>1. current \in Pid
    BY DEF TypeOK
  <2>2. eax' \in [Pid -> Eax] /\ buf' \in [Pid -> Message]
    BY <1>2, <2>1, Values DEF ReplyDeliver, TypeOK
  <2>3. QED
    BY <1>2, <2>2, WakeStep DEF ReplyDeliver
<1>3. QED
  BY <1>1, <1>2 DEF Reply

(* notify, delivered, queued or failed. *)
LEMMA NotifyStep ==
    ASSUME IInv, NEW t \in Pid, Notify(t)
    PROVE  IInv'
<1> USE DEF IInv
<1>0. current \in Pid /\ state[current] = "Running"
  BY DEF TypeOK, OneRunning
<1>1. CASE NotifyError(t)
  BY <1>1, Values, ReturnStep DEF NotifyError, TypeOK
<1>2. CASE NotifyNoMemory(t)
  BY <1>2, Values, ReturnStep DEF NotifyNoMemory, TypeOK
<1>3. CASE NotifyDeliver(t)
  <2>1. eax' \in [Pid -> Eax] /\ buf' \in [Pid -> Message]
    BY <1>0, <1>3, Values DEF NotifyDeliver, TypeOK
  <2>2. QED
    BY <1>3, <2>1, WakeStep DEF NotifyDeliver
<1>4. CASE NotifyEnqueue(t)
  <2>1. notifyQueue' \in [Pid -> Seq(Pid)]
    BY <1>0, <1>4 DEF NotifyEnqueue, TypeOK
  <2>2. TypeOK'
    BY <1>4, <2>1, Values DEF NotifyEnqueue, Return, TypeOK, irqVars
  <2>3. QED
    BY <1>4, <2>2, QuietStep DEF NotifyEnqueue, Busy, Return, PendingFor, irqVars, TypeOK
<1>5. QED
  BY <1>1, <1>2, <1>3, <1>4 DEF Notify

(* waitpid, blocking or refused. *)
LEMMA WaitPidStep ==
    ASSUME IInv, NEW t \in Pid, WaitPid(t)
    PROVE  IInv'
<1> USE DEF IInv
<1>1. CASE WaitPidError(t)
  BY <1>1, Values, ReturnStep DEF WaitPidError, TypeOK
<1>2. CASE WaitPidBlock(t)
  <2> DEFINE st == [state EXCEPT ![current] = "WaitBlocked"]
  <2>1. /\ st \in [Pid -> ProcessState] /\ st[current] = "WaitBlocked"
        /\ Reschedule(st) /\ UserRunning
    BY <1>2 DEF WaitPidBlock, TypeOK, ProcessState
  <2>2. \A p \in Pid \ {current} : st[p] = state[p]
    BY DEF TypeOK
  <2>3. /\ eax' \in [Pid -> Eax] /\ buf' \in [Pid -> Message]
        /\ waitPid' \in [Pid -> Pid]
    BY <1>2, Values DEF WaitPidBlock, TypeOK
  <2>4. \A p \in Pid : st[p] = "ReceiveBlocked" =>
           sendQueue'[p] = <<>> /\ notifyQueue'[p] = <<>> /\ PendingFor(p) = {}
    BY <1>2, <2>1, <2>2 DEF WaitPidBlock, BlockedReceiverHasNoWork, ipcVars
  <2>5. \A p \in Pid : st[p] = "WaitBlocked" =>
           st[waitPid'[p]] # "Empty" /\ waitPid'[p] # p
    BY <1>2 DEF WaitPidBlock, WaitersHaveTarget, Alive, TypeOK
  <2>6. /\ msg' \in [Pid -> Pid]
        /\ sendQueue' \in [Pid -> Seq(Pid)] /\ notifyQueue' \in [Pid -> Seq(Pid)]
        /\ UNCHANGED <<nextPid, irqVars>>
    BY <1>2 DEF WaitPidBlock, TypeOK, ipcVars
  <2> HIDE DEF st
  <2>7. QED
    BY <2>1, <2>2, <2>3, <2>4, <2>5, <2>6, BlockStep
<1>3. QED
  BY <1>1, <1>2 DEF WaitPid

(* registerForward, for a valid line or an invalid one. *)
LEMMA IrqRegisterStep ==
    ASSUME IInv, NEW irq \in IrqArgs, IrqRegister(irq)
    PROVE  IInv'
<1> USE DEF IInv
<1>0. current \in Pid /\ state[current] = "Running"
  BY DEF TypeOK, OneRunning
<1>1. CASE irq >= 16
  BY <1>1, Values, ReturnStep DEF IrqRegister, TypeOK, irqVars
<1>2. CASE ~(irq >= 16)
  <2>1. irq \in Irq
    BY <1>2, IrqAssumption DEF Irq
  <2>2. /\ forwardPid' = [forwardPid EXCEPT ![irq] = current] /\ Return(0)
        /\ UNCHANGED <<nextPid, ipcVars, msg, waitPid, pendingIrq>>
    BY <1>2 DEF IrqRegister
  <2>3. TypeOK'
    BY <1>0, <2>1, <2>2, Values DEF Return, TypeOK, ipcVars
  <2>4. \A p \in Pid : p # current => PendingFor(p)' \subseteq PendingFor(p)
    BY <2>1, <2>2 DEF PendingFor, TypeOK
  <2>5. QED
    BY <1>0, <2>2, <2>3, <2>4, QuietStep DEF Return, ipcVars
<1>3. QED
  BY <1>1, <1>2

(* The child of exec takes the first pid that names no process. *)
LEMMA ExecStep ==
    ASSUME IInv, Exec
    PROVE  IInv'
<1> USE DEF IInv
<1>1. /\ current \in Pid /\ state[current] = "Running"
      /\ nextPid \in Pid /\ state[nextPid] = "Empty" /\ nextPid # KernelTask
      /\ current # nextPid
  <2>1. nextPid \in Pid /\ nextPid # KernelTask
    BY MaxPidAssumption DEF Exec, TypeOK, Pid, KernelTask
  <2>2. current \in Pid /\ state[current] = "Running"
    BY DEF TypeOK, OneRunning
  <2>3. state[nextPid] = "Empty"
    BY <2>1, MaxPidAssumption DEF PidsAreFresh, Alive, Pid
  <2>4. QED
    BY <2>1, <2>2, <2>3
<1>2. state' = [state EXCEPT ![nextPid] = "Ready"] /\ nextPid' = nextPid + 1
  BY DEF Exec, PidAfter
<1>3. TypeOK'
  <2>1. nextPid' \in 1 .. MaxPid + 1
    BY <1>2, MaxPidAssumption DEF Exec, TypeOK
  <2>2. state' \in [Pid -> ProcessState]
    BY <1>2 DEF TypeOK, ProcessState
  <2>3. eax' \in [Pid -> Eax] /\ buf' \in [Pid -> Message]
    BY <1>1, Values DEF Exec, TypeOK
  <2>4. /\ msg' \in [Pid -> Pid] /\ waitPid' \in [Pid -> Pid]
        /\ sendQueue' \in [Pid -> Seq(Pid)] /\ notifyQueue' \in [Pid -> Seq(Pid)]
    <3>1. 0 \in Pid /\ <<>> \in Seq(Pid)
      BY Values DEF KernelTask
    <3>2. QED
      BY <3>1 DEF Exec, TypeOK
  <2>5. QED
    BY <2>1, <2>2, <2>3, <2>4 DEF Exec, TypeOK, irqVars
<1>4. OneRunning'
  BY <1>1, <1>2, Values DEF Exec, OneRunning, TypeOK
<1>5. PidsAreFresh'
  BY <1>1, <1>2, MaxPidAssumption DEF PidsAreFresh, Alive, TypeOK, Pid, KernelTask
<1>6. BlockedReceiverHasNoWork'
  BY <1>1, <1>2 DEF Exec, BlockedReceiverHasNoWork, PendingFor, irqVars, TypeOK
<1>7. WaitersHaveTarget'
  BY <1>1, <1>2 DEF Exec, WaitersHaveTarget, Alive, TypeOK
<1>8. QED
  BY <1>3, <1>4, <1>5, <1>6, <1>7

(* exitCurrent picks its successor before destroy runs; the pick survives  *)
(* it because destroy only removes the caller and wakes blocked processes. *)
LEMMA ExitStep ==
    ASSUME IInv, Exit
    PROVE  IInv'
<1> USE DEF IInv
<1>1. /\ current \in Pid /\ state[current] = "Running" /\ current # KernelTask
      /\ KernelTask \in Pid /\ state[KernelTask] = "Ready"
  BY Values DEF Exit, UserRunning, TypeOK, OneRunning
<1> DEFINE n == Successor(state, current)
           st == Destroyed(current)
<1>2. n \in Pid /\ n # current /\ state[n] = "Ready"
  <2>1. /\ FindNextReady(state, current) \in Pid
        /\ FindNextReady(state, current) # current =>
              state[FindNextReady(state, current)] = "Ready"
    BY <1>1, NextIsReady DEF TypeOK
  <2>2. QED
    BY <1>1, <2>1 DEF Successor
<1>3. /\ st \in [Pid -> ProcessState] /\ st[current] = "Empty"
      /\ \A p \in Pid \ {current} :
            \/ st[p] = state[p] /\ p \notin RemovedWaiters(current)
            \/ state[p] \in {"SendBlocked", "WaitBlocked"} /\ st[p] = "Ready"
  BY <1>1 DEF Destroyed, RemovedSenders, RemovedWaiters, TypeOK, ProcessState
<1>4. state' = [st EXCEPT ![n] = "Running"] /\ current' = n
  BY DEF Exit, SwitchTo, Resumed
<1>5. /\ waitPid' = [waitPid EXCEPT ![current] = 0]
      /\ sendQueue' = [sendQueue EXCEPT ![current] = <<>>]
      /\ notifyQueue' = [notifyQueue EXCEPT ![current] = <<>>]
      /\ msg' = [msg EXCEPT ![current] = 0]
      /\ buf' = [buf EXCEPT ![current] = UserBuf]
      /\ UNCHANGED <<nextPid, irqVars>> /\ tickCount' = 0
  BY DEF Exit, Destroy
<1>6. eax' \in [Pid -> Eax]
  BY Values DEF Exit, Destroy, DestroyResults, TypeOK
<1>7. \A p \in Pid : p \in RemovedWaiters(current) <=>
         state[p] = "WaitBlocked" /\ waitPid[p] = current
  BY DEF RemovedWaiters
<1> HIDE DEF n, st
<1>8. TypeOK'
  <2>1. state' \in [Pid -> ProcessState]
    BY <1>2, <1>3, <1>4 DEF ProcessState
  <2>2. /\ waitPid' \in [Pid -> Pid] /\ msg' \in [Pid -> Pid]
        /\ sendQueue' \in [Pid -> Seq(Pid)] /\ notifyQueue' \in [Pid -> Seq(Pid)]
        /\ buf' \in [Pid -> Message]
    BY <1>5, Values DEF TypeOK, KernelTask
  <2>3. QED
    BY <1>2, <1>4, <1>5, <1>6, <2>1, <2>2, BoundsAssumption DEF TypeOK, irqVars
<1>9. OneRunning'
  BY <1>1, <1>2, <1>3, <1>4 DEF OneRunning, TypeOK
<1>10. PidsAreFresh'
  BY <1>1, <1>2, <1>3, <1>4, <1>5 DEF PidsAreFresh, Alive, TypeOK
<1>11. BlockedReceiverHasNoWork'
  <2>1. \A p \in Pid : state'[p] = "ReceiveBlocked" =>
           p # current /\ state[p] = "ReceiveBlocked"
    BY <1>2, <1>3, <1>4
  <2>2. QED
    BY <1>5, <2>1 DEF BlockedReceiverHasNoWork, PendingFor, irqVars, TypeOK
<1>12. WaitersHaveTarget'
  <2> SUFFICES ASSUME NEW p \in Pid, state'[p] = "WaitBlocked"
               PROVE  state'[waitPid'[p]] # "Empty" /\ waitPid'[p] # p
    BY DEF WaitersHaveTarget, Alive
  <2>1. p # current /\ state[p] = "WaitBlocked" /\ p \notin RemovedWaiters(current)
    BY <1>2, <1>3, <1>4
  <2>2. waitPid'[p] = waitPid[p] /\ waitPid[p] \in Pid /\ waitPid[p] # current
    BY <1>5, <1>7, <2>1 DEF TypeOK
  <2>3. state[waitPid[p]] # "Empty" /\ waitPid[p] # p
    BY <2>1 DEF WaitersHaveTarget, Alive
  <2>4. st[waitPid[p]] # "Empty"
    BY <1>3, <2>2, <2>3
  <2>5. QED
    BY <1>2, <1>3, <1>4, <2>2, <2>3, <2>4
<1>13. QED
  BY <1>8, <1>9, <1>10, <1>11, <1>12

-----------------------------------------------------------------------------
(* Interrupts.                                                             *)

LEMMA HandleIrqStep ==
    ASSUME IInv, NEW irq \in IrqLines, HandleIrq(irq)
    PROVE  IInv'
<1> USE DEF IInv
<1> DEFINE st == Scheduled(irq).state
<1>1. irq \in Irq
  BY IrqAssumption DEF Irq
<1>2. /\ st \in [Pid -> ProcessState]
      /\ current' \in Pid
      /\ tickCount' \in 0 .. TimeSlice - 1
  BY ScheduledType DEF HandleIrq
(* Neither the tick nor the switch touches a process that is not running   *)
(* or Ready, and after it the process that current' names is Running.      *)
<1> DEFINE OnlySwitched ==
             /\ \A p \in Pid : st[p] = "Running" <=> p = current'
             /\ \A p \in Pid : state[p] \notin {"Ready", "Running"} => st[p] = state[p]
             /\ \A p \in Pid : st[p] \notin {"Ready", "Running"} => st[p] = state[p]
<1>3. OnlySwitched
  <2>1. current' = Scheduled(irq).current /\ current \in Pid
    BY DEF HandleIrq, TypeOK
  <2>2. CASE KeepsRunning(irq)
    BY <2>1, <2>2 DEF KeepsRunning, OneRunning, TypeOK
  <2>3. ASSUME NEW n \in Pid, GivesWayTo(irq, n)
        PROVE  OnlySwitched
    <3> DEFINE ready == [state EXCEPT ![current] = "Ready"]
    <3>1. ready[n] = "Ready" /\ st = [ready EXCEPT ![n] = "Running"] /\ current' = n
      BY <2>1, <2>3 DEF GivesWayTo
    <3> HIDE DEF st
    <3>2. QED
      BY <2>1, <3>1 DEF OneRunning, TypeOK
  <2>4. QED
    BY <2>2, <2>3, ScheduledCases
<1>4. SavedEax(irq) \in [Pid -> Eax] /\ SavedBuf(irq) \in [Pid -> Message]
  BY Values DEF SavedEax, SavedBuf, Preempted, TypeOK
<1>5. UNCHANGED <<nextPid, ipcVars, msg, waitPid, forwardPid>>
  BY DEF HandleIrq
<1> HIDE DEF st
<1>6. CASE IrqDeliver(irq)
  <2> DEFINE t == forwardPid[irq]
  <2>1. t \in Pid /\ state[t] = "ReceiveBlocked" /\ st[t] = "ReceiveBlocked"
    BY <1>1, <1>3, <1>6 DEF IrqDeliver, TypeOK
  <2>2. state' = [st EXCEPT ![t] = "Ready"] /\ UNCHANGED pendingIrq
    BY <1>6 DEF IrqDeliver, st
  <2>3. eax' \in [Pid -> Eax] /\ buf' \in [Pid -> Message]
    BY <1>1, <1>4, <1>6, <2>1, Values DEF IrqDeliver
  <2> HIDE DEF t
  <2>4. TypeOK'
    BY <1>2, <1>5, <2>1, <2>2, <2>3 DEF TypeOK, ProcessState, ipcVars
  <2>5. OneRunning'
    BY <1>2, <1>3, <2>1, <2>2, Values DEF OneRunning, TypeOK
  <2>6. PidsAreFresh' /\ WaitersHaveTarget'
    BY <1>2, <1>3, <1>5, <2>1, <2>2
    DEF PidsAreFresh, WaitersHaveTarget, Alive, TypeOK
  <2>7. BlockedReceiverHasNoWork'
    BY <1>2, <1>3, <1>5, <2>1, <2>2
    DEF BlockedReceiverHasNoWork, PendingFor, TypeOK, ipcVars
  <2>8. QED
    BY <2>4, <2>5, <2>6, <2>7
<1>7. CASE IrqPend(irq) \/ IrqDrop(irq)
  <2>1. state' = st /\ eax' = SavedEax(irq) /\ buf' = SavedBuf(irq)
    BY <1>7 DEF IrqPend, IrqDrop, st
  <2>2. \/ UNCHANGED pendingIrq
        \/ /\ pendingIrq' = [pendingIrq EXCEPT ![irq] = TRUE]
           /\ state[forwardPid[irq]] # "ReceiveBlocked"
    BY <1>7 DEF IrqPend, IrqDrop, Busy
  <2>3. TypeOK'
    BY <1>1, <1>2, <1>4, <1>5, <2>1, <2>2 DEF TypeOK, ipcVars
  <2>4. OneRunning'
    BY <1>2, <1>3, <2>1, Values DEF OneRunning, TypeOK
  <2>5. PidsAreFresh' /\ WaitersHaveTarget'
    BY <1>2, <1>3, <1>5, <2>1
    DEF PidsAreFresh, WaitersHaveTarget, Alive, TypeOK
  <2>6. \A p \in Pid : state[p] = "ReceiveBlocked" => PendingFor(p)' \subseteq PendingFor(p)
    BY <1>1, <1>5, <2>2 DEF PendingFor, TypeOK
  <2>7. BlockedReceiverHasNoWork'
    BY <1>2, <1>3, <1>5, <2>1, <2>6 DEF BlockedReceiverHasNoWork, TypeOK, ipcVars
  <2>8. QED
    BY <2>3, <2>4, <2>5, <2>7
<1>8. QED
  BY <1>6, <1>7 DEF HandleIrq

-----------------------------------------------------------------------------
(* The invariant and what follows from it.                                 *)

LEMMA InitInv == Init => IInv
<1> SUFFICES ASSUME Init PROVE IInv
  OBVIOUS
<1>1. TypeOK
  BY InitType
<1>2. OneRunning
  BY Values, <1>1, MaxPidAssumption DEF Init, OneRunning, KernelTask
<1>3. PidsAreFresh
  BY MaxPidAssumption, BoundsAssumption
  DEF Init, PidsAreFresh, Alive, KernelTask, Pid
<1>4. BlockedReceiverHasNoWork /\ WaitersHaveTarget
  BY DEF Init, BlockedReceiverHasNoWork, WaitersHaveTarget
<1>5. QED
  BY <1>1, <1>2, <1>3, <1>4 DEF IInv

(* Every system call and interrupt keeps the invariant. *)
LEMMA NextInv == IInv /\ [Next]_vars => IInv'
<1> SUFFICES ASSUME IInv, [Next]_vars PROVE IInv'
  OBVIOUS
<1>1. CASE Syscall
  <2>1. ASSUME ExecError PROVE IInv'
    BY <2>1, Values, ReturnStep DEF ExecError, IInv, TypeOK
  <2>2. QED
    BY <1>1, <2>1, SendStep, ReceiveStep, ReplyStep, NotifyStep, WaitPidStep,
       ExecStep, ExitStep, IrqRegisterStep DEF Syscall, OtherSyscall
<1>2. CASE Interrupt
  BY <1>2, HandleIrqStep DEF Interrupt
<1>3. CASE UNCHANGED vars
  BY <1>3 DEF vars, IInv, TypeOK, OneRunning, PidsAreFresh, BlockedReceiverHasNoWork,
     WaitersHaveTarget, PendingFor, Alive
<1>4. QED
  BY <1>1, <1>2, <1>3 DEF Next

(* The strengthened invariant holds in every reachable state. *)
THEOREM Invariance == Spec => []IInv
BY InitInv, NextInv, PTL DEF Spec

(* Every field of the process list, the scheduler and the interrupt tables *)
(* keeps its type under all system calls and interrupts.                   *)
THEOREM TypeCorrect == Spec => []TypeOK
<1>1. IInv => TypeOK
  BY DEF IInv
<1>2. QED
  BY <1>1, Invariance, PTL

(* switchTo, reschedule and exitCurrent never leave two processes Running, *)
(* never leave the processor with a blocked or destroyed process, and the  *)
(* idle task never blocks.                                                 *)
THEOREM OneRunningProcess == Spec => []OneRunning
<1>1. IInv => OneRunning
  BY DEF IInv
<1>2. QED
  BY <1>1, Invariance, PTL

(* send, notify and the interrupt handlers never leave work for a process  *)
(* that sleeps in receive: no wake-up is lost between kernel entries.      *)
THEOREM NoLostWakeup == Spec => []BlockedReceiverHasNoWork
<1>1. IInv => BlockedReceiverHasNoWork
  BY DEF IInv
<1>2. QED
  BY <1>1, Invariance, PTL

(* waitpid and destroy agree: whoever waits waits for another process that *)
(* is still in the list.                                                   *)
THEOREM NoWaitForTheDead == Spec => []WaitersHaveTarget
<1>1. IInv => WaitersHaveTarget
  BY DEF IInv
<1>2. QED
  BY <1>1, Invariance, PTL

(* create never hands out a pid that names a process. *)
THEOREM FreshPids == Spec => []PidsAreFresh
<1>1. IInv => PidsAreFresh
  BY DEF IInv
<1>2. QED
  BY <1>1, Invariance, PTL

-----------------------------------------------------------------------------
(* How blocked calls end.                                                  *)

BlockedStates == {"SendBlocked", "ReceiveBlocked", "WaitBlocked"}

(* What BlockedCallsEndWithTheirResult asks of process p in one step. *)
EndsWithResult(p) ==
    /\ state[p] = "ReceiveBlocked" /\ state'[p] # "ReceiveBlocked" =>
          /\ buf'[p].kind \in {"send", "notify", "irq"} /\ buf'[p].to = p
          /\ eax'[p] = IF buf'[p].kind = "send" THEN buf'[p].from ELSE 0
    /\ state[p] = "SendBlocked" /\ state'[p] # "SendBlocked" =>
          (buf'[p].kind = "reply" /\ eax'[p] = 0) \/ eax'[p] = -1
    /\ state[p] = "WaitBlocked" /\ state'[p] # "WaitBlocked" =>
          state'[waitPid[p]] = "Empty" /\ eax'[p] = 0

(* reschedule resumes only a Ready process. *)
LEMMA RescheduleKeepsBlocked ==
    ASSUME IInv, UserRunning, NEW st \in [Pid -> ProcessState], Reschedule(st),
           st[KernelTask] = state[KernelTask], st[current] # "Empty",
           NEW p \in Pid, st[p] \in BlockedStates
    PROVE  state'[p] = st[p]
<1>1. SwitchesFrom(st)
  BY RescheduleSwitches DEF IInv, UserRunning
<1>2. QED
  BY <1>1 DEF SwitchesFrom, BlockedStates

(* The timer's handler touches no blocked process. *)
LEMMA TimerKeepsBlocked ==
    ASSUME IInv, NEW irq \in IrqLines, NEW p \in Pid, state[p] \in BlockedStates
    PROVE  Scheduled(irq).state[p] = state[p] /\ p # current
<1>1. current \in Pid /\ p # current
  BY DEF IInv, TypeOK, OneRunning, BlockedStates
<1>2. CASE KeepsRunning(irq)
  BY <1>1, <1>2 DEF KeepsRunning
<1>3. ASSUME NEW n \in Pid, GivesWayTo(irq, n)
      PROVE  Scheduled(irq).state[p] = state[p]
  <2> DEFINE ready == [state EXCEPT ![current] = "Ready"]
  <2>1. ready \in [Pid -> ProcessState] /\ ready[p] = state[p]
    BY <1>1 DEF IInv, TypeOK, ProcessState
  <2>2. ready[n] = "Ready" /\ Scheduled(irq).state = [ready EXCEPT ![n] = "Running"]
    BY <1>3 DEF GivesWayTo
  <2> HIDE DEF ready
  <2>3. QED
    BY <2>1, <2>2 DEF BlockedStates
<1>4. QED
  BY <1>1, <1>2, <1>3, ScheduledCases DEF IInv

(* A step that leaves the state of p alone ends no call of p. *)
LEMMA StillBlocked ==
    ASSUME NEW p \in Pid, state[p] \in BlockedStates => state'[p] = state[p]
    PROVE  EndsWithResult(p)
BY DEF EndsWithResult, BlockedStates

(* Messages have the fields that Msg gives them. *)
LEMMA MsgFields ==
    ASSUME NEW k, NEW f, NEW t
    PROVE  Msg(k, f, t).kind = k /\ Msg(k, f, t).from = f /\ Msg(k, f, t).to = t
BY DEF Msg

(* send ends the receive of a waiting target and no other call. *)
LEMMA SendEnds ==
    ASSUME IInv, NEW t \in Pid, Send(t), NEW p \in Pid
    PROVE  EndsWithResult(p)
<1> USE DEF IInv
<1>0. /\ current \in Pid /\ KernelTask \in Pid /\ state[current] = "Running"
      /\ state[KernelTask] # "ReceiveBlocked"
  BY Values DEF TypeOK, OneRunning
<1>1. CASE SendError(t) \/ SendNoMemory(t)
  BY <1>1, StillBlocked DEF SendError, SendNoMemory, Return
<1>2. CASE SendDeliver(t)
  <2> DEFINE st == [state EXCEPT ![t] = "Ready", ![current] = "SendBlocked"]
  <2>1. /\ st \in [Pid -> ProcessState] /\ st[current] = "SendBlocked"
        /\ Reschedule(st) /\ UserRunning
        /\ \A q \in Pid \ {current, t} : st[q] = state[q]
        /\ KernelTask \notin {current, t}
    BY <1>0, <1>2 DEF SendDeliver, TypeOK, ProcessState, UserRunning
  <2>2. CASE p = t
    <3>1. buf'[p] = Msg("send", current, p) /\ eax'[p] = current /\ state[p] = "ReceiveBlocked"
      BY <1>0, <1>2, <2>2 DEF SendDeliver, TypeOK
    <3>2. QED
      BY <3>1, MsgFields DEF EndsWithResult
  <2>3. CASE p = current
    BY <1>0, <2>3 DEF EndsWithResult
  <2>4. CASE p \notin {t, current}
    <3> HIDE DEF st
    <3>1. state[p] \in BlockedStates => state'[p] = state[p]
      BY <1>0, <2>1, <2>4, RescheduleKeepsBlocked
    <3>2. QED
      BY <3>1, StillBlocked
  <2>5. QED
    BY <2>2, <2>3, <2>4
<1>3. CASE SendEnqueue(t)
  <2> DEFINE st == [state EXCEPT ![current] = "SendBlocked"]
  <2>1. /\ st \in [Pid -> ProcessState] /\ st[current] = "SendBlocked"
        /\ Reschedule(st) /\ UserRunning
        /\ \A q \in Pid \ {current} : st[q] = state[q]
        /\ KernelTask # current
    BY <1>0, <1>3 DEF SendEnqueue, TypeOK, ProcessState, UserRunning
  <2> HIDE DEF st
  <2>2. CASE p = current
    BY <1>0, <2>2 DEF EndsWithResult
  <2>3. CASE p # current
    <3>1. state[p] \in BlockedStates => state'[p] = state[p]
      BY <1>0, <2>1, <2>3, RescheduleKeepsBlocked
    <3>2. QED
      BY <3>1, StillBlocked
  <2>4. QED
    BY <2>2, <2>3
<1>4. QED
  BY <1>1, <1>2, <1>3 DEF Send

(* receive and waitpid block their caller and end nobody else's call. *)
LEMMA CallerBlocksEnds ==
    ASSUME IInv, UserRunning, NEW s \in BlockedStates,
           Reschedule([state EXCEPT ![current] = s]), NEW p \in Pid
    PROVE  EndsWithResult(p)
<1> USE DEF IInv
<1> DEFINE st == [state EXCEPT ![current] = s]
<1>1. /\ current \in Pid /\ KernelTask \in Pid /\ state[current] = "Running"
      /\ KernelTask # current
  BY Values DEF TypeOK, OneRunning, UserRunning
<1>2. /\ st \in [Pid -> ProcessState] /\ st[current] = s
      /\ \A q \in Pid \ {current} : st[q] = state[q]
  BY <1>1 DEF TypeOK, ProcessState, BlockedStates
<1>3. st[current] # "Empty" /\ Reschedule(st)
  BY <1>2 DEF BlockedStates
<1> HIDE DEF st
<1>4. CASE p = current
  BY <1>1, <1>4 DEF EndsWithResult
<1>5. CASE p # current
  <2>1. state[p] \in BlockedStates => state'[p] = state[p]
    BY <1>1, <1>2, <1>3, <1>5, RescheduleKeepsBlocked
  <2>2. QED
    BY <2>1, StillBlocked
<1>6. QED
  BY <1>4, <1>5

(* receive ends no blocked call. *)
LEMMA ReceiveEnds ==
    ASSUME IInv, Receive, NEW p \in Pid
    PROVE  EndsWithResult(p)
<1>1. CASE ReceiveIrq \/ ReceiveNotification \/ ReceiveSender
  <2>1. UNCHANGED state
    BY <1>1 DEF ReceiveIrq, ReceiveNotification, ReceiveSender, ReturnMessage, Return
  <2>2. QED
    BY <2>1, StillBlocked
<1>2. CASE ReceiveBlock
  <2>1. "ReceiveBlocked" \in BlockedStates
    BY DEF BlockedStates
  <2>2. UserRunning /\ Reschedule([state EXCEPT ![current] = "ReceiveBlocked"])
    BY <1>2 DEF ReceiveBlock
  <2>3. QED
    BY <2>1, <2>2, CallerBlocksEnds
<1>3. QED
  BY <1>1, <1>2 DEF Receive

(* waitpid ends no blocked call. *)
LEMMA WaitPidEnds ==
    ASSUME IInv, NEW t \in Pid, WaitPid(t), NEW p \in Pid
    PROVE  EndsWithResult(p)
<1>1. CASE WaitPidError(t)
  BY <1>1, StillBlocked DEF WaitPidError, Return
<1>2. CASE WaitPidBlock(t)
  <2>1. "WaitBlocked" \in BlockedStates
    BY DEF BlockedStates
  <2>2. UserRunning /\ Reschedule([state EXCEPT ![current] = "WaitBlocked"])
    BY <1>2 DEF WaitPidBlock
  <2>3. QED
    BY <2>1, <2>2, CallerBlocksEnds
<1>3. QED
  BY <1>1, <1>2 DEF WaitPid

(* reply ends the send of its target. *)
LEMMA ReplyEnds ==
    ASSUME IInv, NEW t \in Pid, Reply(t), NEW p \in Pid
    PROVE  EndsWithResult(p)
<1> USE DEF IInv
<1>0. current \in Pid /\ state[current] = "Running"
  BY DEF TypeOK, OneRunning
<1>1. CASE ReplyError(t)
  BY <1>1, StillBlocked DEF ReplyError, Return
<1>2. CASE ReplyDeliver(t) /\ p = t
  <2>1. buf'[p] = Msg("reply", current, p) /\ eax'[p] = 0 /\ state[p] = "SendBlocked"
    BY <1>0, <1>2 DEF ReplyDeliver, TypeOK
  <2>2. QED
    BY <2>1, MsgFields DEF EndsWithResult
<1>3. CASE ReplyDeliver(t) /\ p # t
  BY <1>3, StillBlocked DEF ReplyDeliver, TypeOK
<1>4. QED
  BY <1>1, <1>2, <1>3 DEF Reply

(* notify ends the receive of a waiting target. *)
LEMMA NotifyEnds ==
    ASSUME IInv, NEW t \in Pid, Notify(t), NEW p \in Pid
    PROVE  EndsWithResult(p)
<1> USE DEF IInv
<1>0. current \in Pid /\ state[current] = "Running"
  BY DEF TypeOK, OneRunning
<1>1. CASE NotifyError(t) \/ NotifyEnqueue(t) \/ NotifyNoMemory(t)
  BY <1>1, StillBlocked DEF NotifyError, NotifyEnqueue, NotifyNoMemory, Return
<1>2. CASE NotifyDeliver(t) /\ p = t
  <2>1. buf'[p] = Msg("notify", current, p) /\ eax'[p] = 0 /\ state[p] = "ReceiveBlocked"
    BY <1>0, <1>2 DEF NotifyDeliver, TypeOK
  <2>2. QED
    BY <2>1, MsgFields DEF EndsWithResult
<1>3. CASE NotifyDeliver(t) /\ p # t
  BY <1>3, StillBlocked DEF NotifyDeliver, TypeOK
<1>4. QED
  BY <1>1, <1>2, <1>3 DEF Notify

(* Exit ends the sends queued at the dying process and the waits for it. *)
LEMMA ExitEnds ==
    ASSUME IInv, Exit, NEW p \in Pid
    PROVE  EndsWithResult(p)
<1> USE DEF IInv
<1>1. /\ current \in Pid /\ state[current] = "Running" /\ current # KernelTask
      /\ KernelTask \in Pid /\ state[KernelTask] = "Ready"
  BY Values DEF Exit, UserRunning, TypeOK, OneRunning
<1> DEFINE n == Successor(state, current)
           st == Destroyed(current)
<1>2. n \in Pid /\ n # current /\ state[n] = "Ready"
  <2>1. /\ FindNextReady(state, current) \in Pid
        /\ FindNextReady(state, current) # current =>
              state[FindNextReady(state, current)] = "Ready"
    BY <1>1, NextIsReady DEF TypeOK
  <2>2. QED
    BY <1>1, <2>1 DEF Successor
<1>3. /\ st \in [Pid -> ProcessState] /\ st[current] = "Empty"
      /\ p # current =>
            st[p] = IF p \in RemovedSenders(current) \cup RemovedWaiters(current)
                    THEN "Ready" ELSE state[p]
  BY <1>1 DEF Destroyed, TypeOK, ProcessState
<1>4. state' = [st EXCEPT ![n] = "Running"]
  BY DEF Exit, SwitchTo, Resumed
<1>5. p # current =>
         eax'[p] = IF p \in RemovedSenders(current) THEN -1
                   ELSE IF p \in RemovedWaiters(current) THEN 0 ELSE eax[p]
  BY DEF Exit, Destroy, DestroyResults
<1>6. /\ p \in RemovedSenders(current) => state[p] = "SendBlocked"
      /\ p \in RemovedWaiters(current) => state[p] = "WaitBlocked" /\ waitPid[p] = current
  BY DEF RemovedSenders, RemovedWaiters
<1> HIDE DEF n, st
<1>7. state'[current] = "Empty"
  BY <1>1, <1>2, <1>3, <1>4
<1>8. CASE p = current
  BY <1>1, <1>8 DEF EndsWithResult
<1>9. CASE p # current /\ p \in RemovedSenders(current)
  BY <1>5, <1>6, <1>9 DEF EndsWithResult
<1>10. CASE p # current /\ p \notin RemovedSenders(current) /\ p \in RemovedWaiters(current)
  BY <1>5, <1>6, <1>7, <1>10 DEF EndsWithResult
<1>11. CASE p # current /\ p \notin RemovedSenders(current) /\ p \notin RemovedWaiters(current)
  <2>1. state[p] \in BlockedStates => state'[p] = state[p]
    BY <1>2, <1>3, <1>4, <1>11 DEF BlockedStates
  <2>2. QED
    BY <2>1, StillBlocked
<1>12. QED
  BY <1>8, <1>9, <1>10, <1>11

(* An interrupt ends the receive of the driver that claimed its line. *)
LEMMA HandleIrqEnds ==
    ASSUME IInv, NEW irq \in IrqLines, HandleIrq(irq), NEW p \in Pid
    PROVE  EndsWithResult(p)
<1> DEFINE st == Scheduled(irq).state
<1>1. irq \in Irq /\ st \in [Pid -> ProcessState]
  BY IrqAssumption, ScheduledType DEF Irq, IInv
<1>2. state[p] \in BlockedStates => st[p] = state[p]
  BY TimerKeepsBlocked
<1>3. SavedEax(irq) \in [Pid -> Eax] /\ SavedBuf(irq) \in [Pid -> Message]
  BY Values DEF SavedEax, SavedBuf, Preempted, IInv, TypeOK
<1>4. CASE IrqDeliver(irq)
  <2> DEFINE t == forwardPid[irq]
  <2>1. /\ t \in Pid /\ state[t] = "ReceiveBlocked"
        /\ state' = [st EXCEPT ![t] = "Ready"]
        /\ eax' = [SavedEax(irq) EXCEPT ![t] = 0]
        /\ buf' = [SavedBuf(irq) EXCEPT ![t] = Msg("irq", irq, t)]
    BY <1>1, <1>4 DEF IrqDeliver, IInv, TypeOK
  <2> HIDE DEF t, st
  <2>2. CASE p = t
    <3>1. buf'[p] = Msg("irq", irq, p) /\ eax'[p] = 0 /\ state[p] = "ReceiveBlocked"
      BY <1>3, <2>1, <2>2
    <3>2. QED
      BY <3>1, MsgFields DEF EndsWithResult
  <2>3. CASE p # t
    <3>1. state'[p] = st[p]
      BY <1>1, <2>1, <2>3
    <3>2. QED
      BY <1>2, <3>1, StillBlocked
  <2>4. QED
    BY <2>2, <2>3
<1>5. CASE IrqPend(irq) \/ IrqDrop(irq)
  <2>1. state' = st
    BY <1>5 DEF IrqPend, IrqDrop
  <2>2. QED
    BY <1>2, <2>1, StillBlocked
<1>6. QED
  BY <1>4, <1>5 DEF HandleIrq

(* Every step that ends a blocked call ends it with its result. *)
LEMMA NextEnds ==
    ASSUME IInv, [Next]_vars, NEW p \in Pid
    PROVE  EndsWithResult(p)
<1>1. ASSUME Exec PROVE EndsWithResult(p)
  <2>1. state[nextPid] = "Empty" /\ state' = [state EXCEPT ![nextPid] = "Ready"]
    BY <1>1, MaxPidAssumption DEF Exec, IInv, PidsAreFresh, Alive, TypeOK, Pid
  <2>2. state[p] \in BlockedStates => state'[p] = state[p]
    BY <2>1 DEF BlockedStates, IInv, TypeOK
  <2>3. QED
    BY <2>2, StillBlocked
<1>2. ASSUME NEW irq \in IrqArgs, IrqRegister(irq) PROVE EndsWithResult(p)
  BY <1>2, StillBlocked DEF IrqRegister, Return
<1>3. CASE ExecError \/ UNCHANGED vars
  BY <1>3, StillBlocked DEF ExecError, Return, vars
<1>4. CASE Syscall
  BY <1>1, <1>2, <1>3, <1>4, SendEnds, ReceiveEnds, ReplyEnds, NotifyEnds, WaitPidEnds,
     ExitEnds DEF Syscall, OtherSyscall
<1>5. CASE Interrupt
  BY <1>5, HandleIrqEnds DEF Interrupt
<1>6. QED
  BY <1>3, <1>4, <1>5 DEF Next

(* send, receive and waitpid never return early: whatever the other        *)
(* processes do, a blocked call ends only with the message, the reply, the *)
(* error or the exit it waits for, and eax says which.                     *)
THEOREM BlockedCallsEnd == Spec => BlockedCallsEndWithTheirResult
<1>1. IInv /\ [Next]_vars => \A p \in Pid : EndsWithResult(p)
  BY NextEnds
<1>2. QED
  BY <1>1, Invariance, PTL DEF Spec, BlockedCallsEndWithTheirResult, EndsWithResult

-----------------------------------------------------------------------------
(* Remote calls: the inductive invariant. *)
RpcInv == IInv /\ QueuedSendersWait /\ MessageIsForReceiver

(* What a step has to do: keep the invariant, let nobody but the callee    *)
(* release a caller, and hand over no call before its notifications.       *)
OnlyCalleeReleases ==
    \A p \in Pid : state[p] = "SendBlocked" /\ state'[p] # "SendBlocked" =>
        current = msg[p]
CallsComeLast ==
    \A p \in Pid : buf'[p].kind = "send" /\ buf'[p] # buf[p] =>
        \A i \in 1 .. Len(notifyQueue[p]) : notifyQueue[p][i] # buf'[p].from
RpcStep ==
    QueuedSendersWait' /\ MessageIsForReceiver' /\ OnlyCalleeReleases /\ CallsComeLast

-----------------------------------------------------------------------------
(* The shapes that the steps have.                                         *)

(* Senders stay blocked with their messages, and nobody gets a call. *)
SendersWait ==
    \A p \in Pid : state[p] = "SendBlocked" =>
        state'[p] = "SendBlocked" /\ msg'[p] = msg[p]
NoCallDelivered ==
    \A p \in Pid : buf'[p] = buf[p] \/ buf'[p].kind # "send"

(* A process that leaves its send, or whose message changes, is queued     *)
(* nowhere afterwards, and a queue only loses entries.                     *)
QueueShrinks(t) ==
    \/ sendQueue'[t] = sendQueue[t]
    \/ sendQueue'[t] = <<>>
    \/ sendQueue[t] # <<>> /\ sendQueue'[t] = Tail(sendQueue[t])
QueuedStillWait(t) ==
    \A i \in 1 .. Len(sendQueue'[t]) :
        LET q == sendQueue'[t][i]
        IN  state[q] = "SendBlocked" /\ msg[q] = t =>
               state'[q] = "SendBlocked" /\ msg'[q] = t

(* The queues stay exact when entries only leave them. *)
LEMMA QueuesShrink ==
    ASSUME RpcInv, \A t \in Pid : QueueShrinks(t) /\ QueuedStillWait(t)
    PROVE  QueuedSendersWait'
<1> SUFFICES ASSUME NEW t \in Pid
             PROVE  /\ \A i \in 1 .. Len(sendQueue'[t]) :
                          /\ state'[sendQueue'[t][i]] = "SendBlocked"
                          /\ msg'[sendQueue'[t][i]] = t
                    /\ \A i, j \in 1 .. Len(sendQueue'[t]) :
                          sendQueue'[t][i] = sendQueue'[t][j] => i = j
  BY DEF QueuedSendersWait
<1> DEFINE old == sendQueue[t]
           new == sendQueue'[t]
<1>1. old \in Seq(Pid)
  BY DEF RpcInv, IInv, TypeOK
<1>2. /\ \A i \in 1 .. Len(old) : state[old[i]] = "SendBlocked" /\ msg[old[i]] = t
      /\ \A i, j \in 1 .. Len(old) : old[i] = old[j] => i = j
  BY DEF RpcInv, QueuedSendersWait
<1>3. new = old \/ new = <<>> \/ (old # <<>> /\ new = Tail(old))
  BY DEF QueueShrinks
<1>4. \A i \in 1 .. Len(new) :
         state[new[i]] = "SendBlocked" /\ msg[new[i]] = t =>
            state'[new[i]] = "SendBlocked" /\ msg'[new[i]] = t
  BY DEF QueuedStillWait
<1> HIDE DEF old, new
<1>5. CASE new = old
  BY <1>2, <1>4, <1>5 DEF old, new
<1>6. CASE new = <<>>
  BY <1>6 DEF new
<1>7. CASE old # <<>> /\ new = Tail(old)
  <2>1. /\ Len(new) = Len(old) - 1 /\ Len(old) \in Nat
        /\ \A i \in 1 .. Len(new) : new[i] = old[i + 1]
    BY <1>1, <1>7
  <2>2. \A i \in 1 .. Len(new) : i + 1 \in 1 .. Len(old)
    BY <2>1
  <2>3. /\ \A i \in 1 .. Len(new) : state[new[i]] = "SendBlocked" /\ msg[new[i]] = t
        /\ \A i, j \in 1 .. Len(new) : new[i] = new[j] => i = j
    BY <1>2, <2>1, <2>2
  <2>4. QED
    BY <1>4, <2>3 DEF new
<1>8. QED
  BY <1>3, <1>5, <1>6, <1>7

(* Most entries into the kernel leave the callers and their messages. *)
LEMMA GentleStep ==
    ASSUME RpcInv, UNCHANGED sendQueue, SendersWait, NoCallDelivered
    PROVE  RpcStep
<1>1. \A t \in Pid : QueueShrinks(t) /\ QueuedStillWait(t)
  <2> SUFFICES ASSUME NEW t \in Pid PROVE QueueShrinks(t) /\ QueuedStillWait(t)
    OBVIOUS
  <2>1. \A i \in 1 .. Len(sendQueue[t]) : sendQueue[t][i] \in Pid
    BY DEF RpcInv, IInv, TypeOK
  <2>2. QED
    BY <2>1 DEF QueueShrinks, QueuedStillWait, SendersWait
<1>2. QueuedSendersWait'
  BY <1>1, QueuesShrink
<1>3. MessageIsForReceiver' /\ OnlyCalleeReleases /\ CallsComeLast
  BY DEF NoCallDelivered, SendersWait, RpcInv, MessageIsForReceiver, OnlyCalleeReleases,
     CallsComeLast
<1>4. QED
  BY <1>2, <1>3 DEF RpcStep

(* A call that returns a result to its caller. *)
LEMMA ReturnIsGentle ==
    ASSUME RpcInv, NEW v, Return(v), UNCHANGED sendQueue,
           \A p \in Pid \ {current} : msg'[p] = msg[p]
    PROVE  RpcStep
<1>1. current \in Pid /\ state[current] = "Running"
  BY DEF RpcInv, IInv, TypeOK, OneRunning
<1>2. SendersWait
  BY <1>1 DEF Return, SendersWait
<1>3. NoCallDelivered
  BY <1>1 DEF Return, NoCallDelivered, UserBuf, RpcInv, IInv, TypeOK
<1>4. QED
  BY <1>2, <1>3, GentleStep

(* A call that blocks its caller. *)
LEMMA BlockIsGentle ==
    ASSUME RpcInv, UserRunning, NEW s \in BlockedStates,
           Reschedule([state EXCEPT ![current] = s]),
           buf' = [buf EXCEPT ![current] = UserBuf], UNCHANGED <<sendQueue, msg>>
    PROVE  RpcStep
<1> USE DEF RpcInv, IInv
<1> DEFINE st == [state EXCEPT ![current] = s]
<1>1. /\ current \in Pid /\ KernelTask \in Pid /\ state[current] = "Running"
      /\ KernelTask # current
  BY Values DEF TypeOK, OneRunning, UserRunning
<1>2. /\ st \in [Pid -> ProcessState] /\ st[current] # "Empty" /\ Reschedule(st)
      /\ \A q \in Pid \ {current} : st[q] = state[q]
  BY <1>1 DEF TypeOK, ProcessState, BlockedStates
<1> HIDE DEF st
<1>3. SendersWait
  <2> SUFFICES ASSUME NEW p \in Pid, state[p] = "SendBlocked"
               PROVE  state'[p] = "SendBlocked"
    BY DEF SendersWait
  <2>1. st[p] = "SendBlocked" /\ st[p] \in BlockedStates
    BY <1>1, <1>2 DEF BlockedStates
  <2>2. QED
    BY <1>1, <1>2, <2>1, RescheduleKeepsBlocked
<1>4. NoCallDelivered
  BY <1>1 DEF NoCallDelivered, UserBuf, TypeOK
<1>5. QED
  BY <1>3, <1>4, GentleStep

-----------------------------------------------------------------------------
(* One lemma per system call.                                              *)

LEMMA SendRpc ==
    ASSUME RpcInv, NEW t \in Pid, Send(t)
    PROVE  RpcStep
<1> USE DEF RpcInv, IInv
<1>0. /\ current \in Pid /\ KernelTask \in Pid /\ state[current] = "Running"
      /\ state[KernelTask] # "ReceiveBlocked"
  BY Values DEF TypeOK, OneRunning
<1>1. CASE SendError(t) \/ SendNoMemory(t)
  <2>1. Return(-1) /\ UNCHANGED sendQueue
    BY <1>1 DEF SendError, SendNoMemory, ipcVars
  <2>2. \A p \in Pid \ {current} : msg'[p] = msg[p]
    BY <1>1 DEF SendError, SendNoMemory, TypeOK
  <2>3. QED
    BY <2>1, <2>2, ReturnIsGentle
<1>2. CASE SendDeliver(t)
  <2> DEFINE st == [state EXCEPT ![t] = "Ready", ![current] = "SendBlocked"]
  <2>1. /\ st \in [Pid -> ProcessState] /\ st[current] = "SendBlocked"
        /\ Reschedule(st) /\ UserRunning
        /\ \A q \in Pid \ {current, t} : st[q] = state[q]
        /\ KernelTask \notin {current, t}
        /\ state[t] = "ReceiveBlocked" /\ t # current
    BY <1>0, <1>2 DEF SendDeliver, TypeOK, ProcessState, UserRunning
  <2>2. SendersWait
    <3> SUFFICES ASSUME NEW p \in Pid, state[p] = "SendBlocked"
                 PROVE  state'[p] = "SendBlocked" /\ msg'[p] = msg[p]
      BY DEF SendersWait
    <3>1. st[p] = "SendBlocked" /\ st[p] \in BlockedStates /\ p # current
      BY <1>0, <2>1 DEF BlockedStates
    <3>2. state'[p] = "SendBlocked"
      <4> HIDE DEF st
      <4> QED BY <1>0, <2>1, <3>1, RescheduleKeepsBlocked
    <3>3. msg'[p] = msg[p]
      BY <1>2, <3>1 DEF SendDeliver, TypeOK
    <3>4. QED
      BY <3>2, <3>3
  <2>3. QueuedSendersWait' /\ OnlyCalleeReleases
    <3>1. UNCHANGED sendQueue
      BY <1>2 DEF SendDeliver, ipcVars
    <3>2. \A q \in Pid : QueueShrinks(q) /\ QueuedStillWait(q)
      <4> SUFFICES ASSUME NEW q \in Pid PROVE QueueShrinks(q) /\ QueuedStillWait(q)
        OBVIOUS
      <4>1. \A i \in 1 .. Len(sendQueue[q]) : sendQueue[q][i] \in Pid
        BY DEF TypeOK
      <4>2. QED
        BY <2>2, <3>1, <4>1 DEF QueueShrinks, QueuedStillWait, SendersWait
    <3>3. QED
      BY <2>2, <3>2, QueuesShrink DEF OnlyCalleeReleases, SendersWait
  <2>4. /\ buf'[t] = Msg("send", current, t) /\ buf'[current] = UserBuf
        /\ \A p \in Pid \ {current, t} : buf'[p] = buf[p]
    BY <1>0, <1>2 DEF SendDeliver, TypeOK
  <2>5. MessageIsForReceiver'
    BY <2>4, MsgFields DEF MessageIsForReceiver, UserBuf
  <2>6. CallsComeLast
    <3>1. notifyQueue[t] = <<>>
      BY <2>1 DEF BlockedReceiverHasNoWork
    <3>2. \A p \in Pid : buf'[p].kind = "send" /\ buf'[p] # buf[p] => p = t
      BY <2>4 DEF UserBuf
    <3>3. QED
      BY <3>1, <3>2 DEF CallsComeLast
  <2>7. QED
    BY <2>3, <2>5, <2>6 DEF RpcStep
<1>3. CASE SendEnqueue(t)
  <2> DEFINE st == [state EXCEPT ![current] = "SendBlocked"]
  <2>1. /\ st \in [Pid -> ProcessState] /\ st[current] = "SendBlocked"
        /\ Reschedule(st) /\ UserRunning
        /\ \A q \in Pid \ {current} : st[q] = state[q]
        /\ KernelTask # current
    BY <1>0, <1>3 DEF SendEnqueue, TypeOK, ProcessState, UserRunning
  <2>2. /\ SendersWait
        /\ state'[current] = "SendBlocked" /\ msg'[current] = t
    <3>1. state'[current] = "SendBlocked"
      <4> HIDE DEF st
      <4> QED BY <1>0, <2>1, RescheduleKeepsBlocked DEF BlockedStates
    <3>2. ASSUME NEW p \in Pid, state[p] = "SendBlocked"
          PROVE  state'[p] = "SendBlocked" /\ msg'[p] = msg[p]
      <4>1. st[p] = "SendBlocked" /\ st[p] \in BlockedStates /\ p # current
        BY <1>0, <2>1, <3>2 DEF BlockedStates
      <4>2. state'[p] = "SendBlocked"
        <5> HIDE DEF st
        <5> QED BY <1>0, <2>1, <4>1, RescheduleKeepsBlocked
      <4>3. msg'[p] = msg[p]
        BY <1>3, <4>1 DEF SendEnqueue, TypeOK
      <4>4. QED
        BY <4>2, <4>3
    <3>3. msg'[current] = t
      BY <1>0, <1>3 DEF SendEnqueue, TypeOK
    <3>4. QED
      BY <3>1, <3>2, <3>3 DEF SendersWait
  <2>3. QueuedSendersWait'
    <3> SUFFICES ASSUME NEW q \in Pid
                 PROVE  /\ \A i \in 1 .. Len(sendQueue'[q]) :
                              /\ state'[sendQueue'[q][i]] = "SendBlocked"
                              /\ msg'[sendQueue'[q][i]] = q
                        /\ \A i, j \in 1 .. Len(sendQueue'[q]) :
                              sendQueue'[q][i] = sendQueue'[q][j] => i = j
      BY DEF QueuedSendersWait
    <3> DEFINE old == sendQueue[q]
               new == sendQueue'[q]
    <3>1. /\ old \in Seq(Pid)
          /\ \A i \in 1 .. Len(old) : state[old[i]] = "SendBlocked" /\ msg[old[i]] = q
          /\ \A i, j \in 1 .. Len(old) : old[i] = old[j] => i = j
      BY DEF QueuedSendersWait, TypeOK
    <3>2. new = IF q = t THEN Append(old, current) ELSE old
      BY <1>3 DEF SendEnqueue, TypeOK
    <3> HIDE DEF old, new
    <3>3. \A i \in 1 .. Len(old) : old[i] \in Pid /\ old[i] # current
      BY <1>0, <3>1
    <3>4. \A i \in 1 .. Len(old) : state'[old[i]] = "SendBlocked" /\ msg'[old[i]] = q
      BY <2>2, <3>1, <3>3 DEF SendersWait
    <3>5. CASE q # t
      BY <3>1, <3>2, <3>4, <3>5 DEF new
    <3>6. CASE q = t
      <4>1. /\ Len(new) = Len(old) + 1 /\ Len(old) \in Nat
            /\ \A i \in 1 .. Len(old) : new[i] = old[i]
            /\ new[Len(old) + 1] = current
        BY <1>0, <3>1, <3>2, <3>6
      <4>2. \A i \in 1 .. Len(new) : i \in 1 .. Len(old) \/ i = Len(old) + 1
        BY <4>1
      <4>3. \A i \in 1 .. Len(new) : state'[new[i]] = "SendBlocked" /\ msg'[new[i]] = q
        BY <2>2, <3>4, <3>6, <4>1, <4>2
      <4>4. \A i, j \in 1 .. Len(new) : new[i] = new[j] => i = j
        BY <3>1, <3>3, <4>1, <4>2
      <4>5. QED
        BY <4>3, <4>4 DEF new
    <3>7. QED
      BY <3>5, <3>6
  <2>4. MessageIsForReceiver' /\ CallsComeLast
    BY <1>0, <1>3 DEF SendEnqueue, MessageIsForReceiver, CallsComeLast, UserBuf, TypeOK
  <2>5. QED
    BY <2>2, <2>3, <2>4 DEF RpcStep, OnlyCalleeReleases, SendersWait
<1>4. QED
  BY <1>1, <1>2, <1>3 DEF Send

(* receive, on each of its paths. *)
LEMMA ReceiveRpc ==
    ASSUME RpcInv, Receive
    PROVE  RpcStep
<1> USE DEF RpcInv, IInv
<1>0. current \in Pid /\ state[current] = "Running"
  BY DEF TypeOK, OneRunning
<1>1. CASE ReceiveIrq \/ ReceiveNotification
  <2>1. PICK m, f : m \in {"irq", "notify"} /\ ReturnMessage(0, Msg(m, f, current))
    BY <1>1 DEF ReceiveIrq, ReceiveNotification
  <2>2. UNCHANGED <<sendQueue, msg, state>>
    BY <1>1 DEF ReceiveIrq, ReceiveNotification, ReturnMessage, ipcVars
  <2>3. buf' = [buf EXCEPT ![current] = Msg(m, f, current)]
    BY <2>1 DEF ReturnMessage
  <2>4. NoCallDelivered
    BY <1>0, <2>1, <2>3, MsgFields DEF NoCallDelivered, TypeOK
  <2>5. SendersWait
    BY <2>2 DEF SendersWait
  <2>6. QED
    BY <2>2, <2>4, <2>5, GentleStep
<1>2. CASE ReceiveSender
  <2> DEFINE s == Head(sendQueue[current])
  <2>1. s \in Pid /\ state[s] = "SendBlocked" /\ msg[s] = current /\ Alive(s)
    <3>1. sendQueue[current] \in Seq(Pid) /\ sendQueue[current] # <<>>
      BY <1>0, <1>2 DEF ReceiveSender, TypeOK
    <3>2. 1 \in 1 .. Len(sendQueue[current]) /\ s = sendQueue[current][1] /\ s \in Pid
      BY <3>1
    <3>3. QED
      BY <1>0, <3>2 DEF QueuedSendersWait, Alive
  <2>2. ReturnMessage(s, Msg("send", s, current))
    BY <1>2, <2>1 DEF ReceiveSender
  <2>3. UNCHANGED <<state, msg>> /\ sendQueue' = [sendQueue EXCEPT ![current] = Tail(@)]
        /\ sendQueue[current] # <<>> /\ notifyQueue[current] = <<>>
    BY <1>2, <2>2 DEF ReceiveSender, ReturnMessage
  <2>4. buf' = [buf EXCEPT ![current] = Msg("send", s, current)]
    BY <2>2 DEF ReturnMessage
  <2> HIDE DEF s
  <2>5. \A t \in Pid : QueueShrinks(t) /\ QueuedStillWait(t)
    BY <1>0, <2>3 DEF QueueShrinks, QueuedStillWait, TypeOK
  <2>6. QueuedSendersWait'
    BY <2>5, QueuesShrink
  <2>7. /\ buf'[current].to = current
        /\ \A p \in Pid \ {current} : buf'[p] = buf[p]
    BY <1>0, <2>4, MsgFields DEF TypeOK
  <2>8. MessageIsForReceiver' /\ CallsComeLast
    BY <2>3, <2>7 DEF MessageIsForReceiver, CallsComeLast
  <2>9. QED
    BY <2>3, <2>6, <2>8 DEF RpcStep, OnlyCalleeReleases
<1>3. CASE ReceiveBlock
  <2>1. /\ UserRunning /\ Reschedule([state EXCEPT ![current] = "ReceiveBlocked"])
        /\ buf' = [buf EXCEPT ![current] = UserBuf] /\ UNCHANGED <<sendQueue, msg>>
        /\ "ReceiveBlocked" \in BlockedStates
    BY <1>3 DEF ReceiveBlock, ipcVars, BlockedStates
  <2>2. QED
    BY <2>1, BlockIsGentle
<1>4. QED
  BY <1>1, <1>2, <1>3 DEF Receive

(* waitpid, blocking or refused. *)
LEMMA WaitPidRpc ==
    ASSUME RpcInv, NEW t \in Pid, WaitPid(t)
    PROVE  RpcStep
<1>1. CASE WaitPidError(t)
  BY <1>1, ReturnIsGentle DEF WaitPidError, ipcVars
<1>2. CASE WaitPidBlock(t)
  <2>1. /\ UserRunning /\ Reschedule([state EXCEPT ![current] = "WaitBlocked"])
        /\ buf' = [buf EXCEPT ![current] = UserBuf] /\ UNCHANGED <<sendQueue, msg>>
        /\ "WaitBlocked" \in BlockedStates
    BY <1>2 DEF WaitPidBlock, ipcVars, BlockedStates
  <2>2. QED
    BY <2>1, BlockIsGentle
<1>3. QED
  BY <1>1, <1>2 DEF WaitPid

(* notify, delivered, queued or failed. *)
LEMMA NotifyRpc ==
    ASSUME RpcInv, NEW t \in Pid, Notify(t)
    PROVE  RpcStep
<1> USE DEF RpcInv, IInv
<1>0. current \in Pid /\ state[current] = "Running"
  BY DEF TypeOK, OneRunning
<1>1. CASE NotifyError(t) \/ NotifyEnqueue(t) \/ NotifyNoMemory(t)
  <2>1. (Return(-1) \/ Return(0)) /\ UNCHANGED <<sendQueue, msg>>
    BY <1>1 DEF NotifyError, NotifyEnqueue, NotifyNoMemory, ipcVars
  <2>2. QED
    BY <2>1, ReturnIsGentle
<1>2. CASE NotifyDeliver(t)
  <2>1. SendersWait /\ UNCHANGED sendQueue
    BY <1>2 DEF NotifyDeliver, SendersWait, TypeOK, ipcVars
  <2>2. /\ buf'[t] = Msg("notify", current, t) /\ buf'[current] = UserBuf
        /\ \A p \in Pid \ {current, t} : buf'[p] = buf[p]
    BY <1>0, <1>2 DEF NotifyDeliver, TypeOK
  <2>3. NoCallDelivered
    BY <2>2, MsgFields DEF NoCallDelivered, UserBuf
  <2>4. QED
    BY <2>1, <2>3, GentleStep
<1>3. QED
  BY <1>1, <1>2 DEF Notify

(* A reply to a caller that is being served: its entry has been taken from *)
(* the queue, so that no queue names it any more.                          *)
LEMMA AnswerRpc ==
    ASSUME RpcInv, AnswerCaller
    PROVE  RpcStep
<1> USE DEF RpcInv, IInv
<1>0. current \in Pid /\ state[current] = "Running"
  BY DEF TypeOK, OneRunning
<1>1. PICK t \in Served(current) : Reply(t)
  BY DEF AnswerCaller
<1>2. t \in Pid /\ state[t] = "SendBlocked" /\ msg[t] = current /\ t \notin Queued(current)
  BY <1>1 DEF Served
<1>3. ReplyDeliver(t)
  BY <1>1, <1>2 DEF Reply, ReplyError
<1>4. \A q \in Pid : \A i \in 1 .. Len(sendQueue[q]) : sendQueue[q][i] \in Pid \ {t}
  <2> SUFFICES ASSUME NEW q \in Pid, NEW i \in 1 .. Len(sendQueue[q])
               PROVE  sendQueue[q][i] \in Pid \ {t}
    OBVIOUS
  <2>1. sendQueue[q][i] \in Pid /\ msg[sendQueue[q][i]] = q
    BY DEF TypeOK, QueuedSendersWait
  <2>2. sendQueue[q][i] = t => q = current /\ t \in Queued(current)
    BY <1>2, <2>1 DEF Queued
  <2>3. QED
    BY <1>2, <2>1, <2>2
<1>5. \A q \in Pid : QueueShrinks(q) /\ QueuedStillWait(q)
  BY <1>3, <1>4 DEF ReplyDeliver, ipcVars, QueueShrinks, QueuedStillWait, TypeOK
<1>6. QueuedSendersWait'
  BY <1>5, QueuesShrink
<1>7. OnlyCalleeReleases
  BY <1>2, <1>3 DEF ReplyDeliver, OnlyCalleeReleases, TypeOK
<1>8. /\ buf'[t] = Msg("reply", current, t) /\ buf'[current] = UserBuf
      /\ \A p \in Pid \ {current, t} : buf'[p] = buf[p]
  BY <1>0, <1>2, <1>3 DEF ReplyDeliver, TypeOK
<1>9. MessageIsForReceiver' /\ CallsComeLast
  BY <1>8, MsgFields DEF MessageIsForReceiver, CallsComeLast, UserBuf
<1>10. QED
  BY <1>6, <1>7, <1>9 DEF RpcStep

(* exec: the new process has an empty queue and a pid in nobody's. *)
LEMMA ExecRpc ==
    ASSUME RpcInv, Exec
    PROVE  RpcStep
<1> USE DEF RpcInv, IInv
<1>1. /\ current \in Pid /\ state[current] = "Running"
      /\ nextPid \in Pid /\ state[nextPid] = "Empty"
  BY MaxPidAssumption DEF Exec, PidsAreFresh, Alive, TypeOK, OneRunning, Pid
<1>2. SendersWait
  BY <1>1 DEF Exec, SendersWait, TypeOK
<1>3. \A t \in Pid : QueueShrinks(t) /\ QueuedStillWait(t)
  <2> SUFFICES ASSUME NEW t \in Pid PROVE QueueShrinks(t) /\ QueuedStillWait(t)
    OBVIOUS
  <2>1. sendQueue'[t] = IF t = nextPid THEN <<>> ELSE sendQueue[t]
    BY DEF Exec, TypeOK
  <2>2. \A i \in 1 .. Len(sendQueue[t]) : sendQueue[t][i] \in Pid
    BY DEF TypeOK
  <2>3. CASE t = nextPid
    BY <2>1, <2>3 DEF QueueShrinks, QueuedStillWait
  <2>4. CASE t # nextPid
    BY <1>2, <2>1, <2>2, <2>4 DEF QueueShrinks, QueuedStillWait, SendersWait
  <2>5. QED
    BY <2>3, <2>4
<1>4. QueuedSendersWait'
  BY <1>3, QueuesShrink
<1>5. MessageIsForReceiver' /\ CallsComeLast
  BY <1>1 DEF Exec, MessageIsForReceiver, CallsComeLast, UserBuf, TypeOK
<1>6. QED
  BY <1>2, <1>4, <1>5 DEF RpcStep, OnlyCalleeReleases, SendersWait

(* destroy wakes exactly the senders in the queue of the process that      *)
(* exits, and drops that queue.                                            *)
LEMMA ExitRpc ==
    ASSUME RpcInv, Exit
    PROVE  RpcStep
<1> USE DEF RpcInv, IInv
<1>1. /\ current \in Pid /\ state[current] = "Running" /\ current # KernelTask
      /\ KernelTask \in Pid /\ state[KernelTask] = "Ready"
  BY Values DEF Exit, UserRunning, TypeOK, OneRunning
<1> DEFINE n == Successor(state, current)
           st == Destroyed(current)
<1>2. n \in Pid /\ n # current /\ state[n] = "Ready"
  <2>1. /\ FindNextReady(state, current) \in Pid
        /\ FindNextReady(state, current) # current =>
              state[FindNextReady(state, current)] = "Ready"
    BY <1>1, NextIsReady DEF TypeOK
  <2>2. QED
    BY <1>1, <2>1 DEF Successor
<1>3. /\ st \in [Pid -> ProcessState]
      /\ \A p \in Pid \ {current} : p \notin RemovedSenders(current) /\ state[p] = "SendBlocked"
            => st[p] = "SendBlocked"
  BY <1>1 DEF Destroyed, RemovedSenders, RemovedWaiters, TypeOK, ProcessState
<1>4. state' = [st EXCEPT ![n] = "Running"]
  BY DEF Exit, SwitchTo, Resumed
<1>5. /\ sendQueue' = [sendQueue EXCEPT ![current] = <<>>]
      /\ msg' = [msg EXCEPT ![current] = 0]
      /\ buf' = [buf EXCEPT ![current] = UserBuf]
  BY DEF Exit, Destroy
<1>6. \A p \in Pid : p \in RemovedSenders(current) => state[p] = "SendBlocked" /\ msg[p] = current
  BY <1>1 DEF RemovedSenders, QueuedSendersWait
<1> HIDE DEF n, st
<1>7. \A p \in Pid : state[p] = "SendBlocked" /\ msg[p] # current =>
         state'[p] = "SendBlocked" /\ msg'[p] = msg[p]
  BY <1>1, <1>2, <1>3, <1>4, <1>5, <1>6 DEF TypeOK
<1>8. \A t \in Pid : QueueShrinks(t) /\ QueuedStillWait(t)
  <2> SUFFICES ASSUME NEW t \in Pid PROVE QueueShrinks(t) /\ QueuedStillWait(t)
    OBVIOUS
  <2>1. sendQueue'[t] = IF t = current THEN <<>> ELSE sendQueue[t]
    BY <1>5 DEF TypeOK
  <2>2. \A i \in 1 .. Len(sendQueue[t]) : sendQueue[t][i] \in Pid
    BY DEF TypeOK
  <2>3. CASE t = current
    BY <2>1, <2>3 DEF QueueShrinks, QueuedStillWait
  <2>4. CASE t # current
    BY <1>7, <2>1, <2>2, <2>4 DEF QueueShrinks, QueuedStillWait
  <2>5. QED
    BY <2>3, <2>4
<1>9. QueuedSendersWait'
  BY <1>8, QueuesShrink
<1>10. OnlyCalleeReleases
  BY <1>7 DEF OnlyCalleeReleases
<1>11. MessageIsForReceiver' /\ CallsComeLast
  BY <1>1, <1>5 DEF MessageIsForReceiver, CallsComeLast, UserBuf, TypeOK
<1>12. QED
  BY <1>9, <1>10, <1>11 DEF RpcStep

(* An interrupt, with the switch that the timer makes. *)
LEMMA HandleIrqRpc ==
    ASSUME RpcInv, NEW irq \in IrqLines, HandleIrq(irq)
    PROVE  RpcStep
<1> USE DEF RpcInv
<1> DEFINE st == Scheduled(irq).state
<1>1. irq \in Irq /\ st \in [Pid -> ProcessState]
  BY IrqAssumption, ScheduledType DEF Irq, IInv
<1>2. \A p \in Pid : state[p] \in BlockedStates => st[p] = state[p]
  BY TimerKeepsBlocked
<1>3. UNCHANGED <<sendQueue, msg>>
  BY DEF HandleIrq, ipcVars
<1>4. /\ SavedBuf(irq) \in [Pid -> Message]
      /\ \A p \in Pid : SavedBuf(irq)[p] = buf[p] \/ SavedBuf(irq)[p] = UserBuf
  BY Values DEF SavedBuf, Preempted, IInv, TypeOK
<1>5. CASE IrqDeliver(irq)
  <2> DEFINE t == forwardPid[irq]
  <2>1. /\ t \in Pid /\ state[t] = "ReceiveBlocked"
        /\ state' = [st EXCEPT ![t] = "Ready"]
        /\ buf' = [SavedBuf(irq) EXCEPT ![t] = Msg("irq", irq, t)]
    BY <1>1, <1>5 DEF IrqDeliver, IInv, TypeOK
  <2> HIDE DEF t, st
  <2>2. SendersWait
    BY <1>1, <1>2, <1>3, <2>1 DEF SendersWait, BlockedStates
  <2>3. NoCallDelivered
    BY <1>4, <2>1, MsgFields DEF NoCallDelivered, UserBuf
  <2>4. QED
    BY <1>3, <2>2, <2>3, GentleStep
<1>6. CASE IrqPend(irq) \/ IrqDrop(irq)
  <2>1. state' = st /\ buf' = SavedBuf(irq)
    BY <1>6 DEF IrqPend, IrqDrop
  <2> HIDE DEF st
  <2>2. SendersWait /\ NoCallDelivered
    BY <1>2, <1>3, <1>4, <2>1 DEF SendersWait, NoCallDelivered, BlockedStates, UserBuf
  <2>3. QED
    BY <1>3, <2>2, GentleStep
<1>7. QED
  BY <1>5, <1>6 DEF HandleIrq

-----------------------------------------------------------------------------
(* The theorems.                                                           *)

LEMMA NextRpc == RpcInv /\ [RpcNext]_vars => RpcStep
<1> SUFFICES ASSUME RpcInv, [RpcNext]_vars PROVE RpcStep
  OBVIOUS
<1>1. ASSUME NEW irq \in IrqArgs, IrqRegister(irq) PROVE RpcStep
  <2>1. (Return(-1) \/ Return(0)) /\ UNCHANGED <<sendQueue, msg>>
    BY <1>1 DEF IrqRegister, ipcVars
  <2>2. QED
    BY <2>1, ReturnIsGentle
<1>2. CASE ExecError
  BY <1>2, ReturnIsGentle DEF ExecError, ipcVars
<1>3. CASE UNCHANGED vars
  BY <1>3, GentleStep DEF vars, SendersWait, NoCallDelivered
<1>4. CASE RpcSyscall
  BY <1>1, <1>2, <1>4, SendRpc, ReceiveRpc, NotifyRpc, WaitPidRpc, ExecRpc, ExitRpc,
     AnswerRpc DEF RpcSyscall, OtherSyscall
<1>5. CASE Interrupt
  BY <1>5, HandleIrqRpc DEF Interrupt
<1>6. QED
  BY <1>3, <1>4, <1>5 DEF RpcNext

(* Programs that reply only to their callers are programs. *)
LEMMA RpcIsKernel == RpcNext => Next
BY DEF RpcNext, RpcSyscall, Next, Syscall, AnswerCaller, Served

(* The strengthened invariant holds in every reachable state. *)
THEOREM RpcInvariance == RpcSpec => []RpcInv
<1>1. Init => RpcInv
  <2> SUFFICES ASSUME Init PROVE RpcInv
    OBVIOUS
  <2>1. QueuedSendersWait
    BY DEF Init, QueuedSendersWait
  <2>2. MessageIsForReceiver
    BY DEF Init, MessageIsForReceiver, UserBuf
  <2>3. QED
    BY <2>1, <2>2, InitInv DEF RpcInv
<1>2. RpcInv /\ [RpcNext]_vars => RpcInv'
  <2> SUFFICES ASSUME RpcInv, [RpcNext]_vars PROVE RpcInv'
    OBVIOUS
  <2>1. IInv'
    BY NextInv, RpcIsKernel DEF RpcInv
  <2>2. QED
    BY <2>1, NextRpc DEF RpcInv, RpcStep
<1>3. QED
  BY <1>1, <1>2, PTL DEF RpcSpec

(* The send queues are exact: send, receive, reply and destroy never leave *)
(* an entry of a process that is gone, that has been answered or that      *)
(* waits for somebody else, and never enter a process twice.               *)
THEOREM QueuesExact == RpcSpec => []QueuedSendersWait
<1>1. RpcInv => QueuedSendersWait
  BY DEF RpcInv
<1>2. QED
  BY <1>1, RpcInvariance, PTL

(* receive never hands a process a message composed for another one, also  *)
(* when the sender's Process::msg is read long after its send.             *)
THEOREM MessagesReachTheirReceiver == RpcSpec => []MessageIsForReceiver
<1>1. RpcInv => MessageIsForReceiver
  BY DEF RpcInv
<1>2. QED
  BY <1>1, RpcInvariance, PTL

-----------------------------------------------------------------------------
(* Who is released when a process exits. *)

(* What a step may do to a caller p: only its callee releases it, and the  *)
(* callee that exits releases it exactly when it is still queued.          *)
ReleasedIfQueued(p) ==
    Alive(msg[p]) /\ state'[msg[p]] = "Empty" =>
        (state'[p] # "SendBlocked" <=> p \in Queued(msg[p]))
Depends(p) ==
    /\ state'[p] # "SendBlocked" => current = msg[p]
    /\ ReleasedIfQueued(p)

(* reschedule removes no process. *)
LEMMA RescheduleKeepsAlive ==
    ASSUME IInv, UserRunning, NEW st \in [Pid -> ProcessState], Reschedule(st),
           st[KernelTask] = state[KernelTask], st[current] # "Empty",
           NEW p \in Pid, st[p] # "Empty"
    PROVE  state'[p] # "Empty"
<1>1. SwitchesFrom(st)
  BY RescheduleSwitches DEF IInv, UserRunning
<1>2. QED
  BY <1>1 DEF SwitchesFrom

(* Nor does the timer. *)
LEMMA TimerKeepsAlive ==
    ASSUME IInv, NEW irq \in IrqLines, NEW p \in Pid, Alive(p)
    PROVE  Scheduled(irq).state[p] # "Empty"
<1>1. current \in Pid /\ state \in [Pid -> ProcessState]
  BY DEF IInv, TypeOK
<1>2. CASE KeepsRunning(irq)
  BY <1>2 DEF KeepsRunning, Alive
<1>3. ASSUME NEW n \in Pid, GivesWayTo(irq, n)
      PROVE  Scheduled(irq).state[p] # "Empty"
  <2> DEFINE ready == [state EXCEPT ![current] = "Ready"]
  <2>1. ready \in [Pid -> ProcessState] /\ ready[p] # "Empty"
    BY <1>1 DEF ProcessState, Alive
  <2>2. Scheduled(irq).state = [ready EXCEPT ![n] = "Running"]
    BY <1>3 DEF GivesWayTo
  <2> HIDE DEF ready
  <2>3. QED
    BY <2>1, <2>2
<1>4. QED
  BY <1>2, <1>3, ScheduledCases DEF IInv

(* A process leaves the list by its own exit only. *)
LEMMA OnlyExitRemoves ==
    ASSUME IInv, [Next]_vars, ~Exit, NEW p \in Pid, Alive(p)
    PROVE  state'[p] # "Empty"
<1> USE DEF IInv, Alive
<1>0. /\ current \in Pid /\ KernelTask \in Pid /\ state \in [Pid -> ProcessState]
      /\ nextPid \in Nat
  BY Values, MaxPidAssumption DEF TypeOK
<1>1. ASSUME UNCHANGED state PROVE state'[p] # "Empty"
  BY <1>1
<1>2. ASSUME NEW t \in Pid, state' = [state EXCEPT ![t] = "Ready"] PROVE state'[p] # "Empty"
  BY <1>0, <1>2
<1>3. ASSUME NEW s \in BlockedStates, UserRunning, Reschedule([state EXCEPT ![current] = s])
      PROVE  state'[p] # "Empty"
  <2> DEFINE st == [state EXCEPT ![current] = s]
  <2>1. /\ st \in [Pid -> ProcessState] /\ Reschedule(st)
        /\ st[KernelTask] = state[KernelTask] /\ st[current] # "Empty" /\ st[p] # "Empty"
    BY <1>0, <1>3 DEF BlockedStates, ProcessState, UserRunning
  <2> HIDE DEF st
  <2>2. QED
    BY <1>3, <2>1, RescheduleKeepsAlive
<1>4. ASSUME NEW t \in Pid, SendDeliver(t) PROVE state'[p] # "Empty"
  <2> DEFINE st == [state EXCEPT ![t] = "Ready", ![current] = "SendBlocked"]
  <2>1. state[KernelTask] # "ReceiveBlocked"
    BY DEF OneRunning
  <2>2. /\ st \in [Pid -> ProcessState] /\ Reschedule(st) /\ UserRunning
        /\ st[KernelTask] = state[KernelTask] /\ st[current] # "Empty" /\ st[p] # "Empty"
    BY <1>0, <1>4, <2>1 DEF SendDeliver, ProcessState, UserRunning
  <2> HIDE DEF st
  <2>3. QED
    BY <2>2, RescheduleKeepsAlive
<1>5. ASSUME NEW t \in Pid, Send(t) PROVE state'[p] # "Empty"
  BY <1>1, <1>3, <1>4, <1>5
     DEF Send, SendError, SendEnqueue, SendNoMemory, Return, BlockedStates
<1>6. ASSUME Receive PROVE state'[p] # "Empty"
  BY <1>1, <1>3, <1>6 DEF Receive, ReceiveIrq, ReceiveNotification, ReceiveSender,
     ReceiveBlock, ReturnMessage, Return, BlockedStates
<1>7. ASSUME NEW t \in Pid, Reply(t) \/ Notify(t) PROVE state'[p] # "Empty"
  BY <1>1, <1>2, <1>7 DEF Reply, ReplyError, ReplyDeliver, Notify, NotifyError,
     NotifyDeliver, NotifyEnqueue, NotifyNoMemory, Return
<1>8. ASSUME NEW t \in Pid, WaitPid(t) PROVE state'[p] # "Empty"
  BY <1>1, <1>3, <1>8 DEF WaitPid, WaitPidError, WaitPidBlock, Return, BlockedStates
<1>9. ASSUME Exec \/ ExecError PROVE state'[p] # "Empty"
  <2>1. CASE ExecError
    BY <1>1, <2>1 DEF ExecError, Return
  <2>2. CASE Exec
    <3>1. nextPid \in Pid
      BY <1>0, <2>2, MaxPidAssumption DEF Exec, Pid
    <3>2. QED
      BY <1>2, <2>2, <3>1 DEF Exec
  <2>3. QED
    BY <1>9, <2>1, <2>2
<1>10. ASSUME NEW irq \in IrqArgs, IrqRegister(irq) PROVE state'[p] # "Empty"
  BY <1>1, <1>10 DEF IrqRegister, Return
<1>11. ASSUME NEW irq \in IrqLines, HandleIrq(irq) PROVE state'[p] # "Empty"
  <2> DEFINE st == Scheduled(irq).state
  <2>1. st \in [Pid -> ProcessState] /\ st[p] # "Empty"
    BY ScheduledType, TimerKeepsAlive
  <2>2. state' = st \/ state' = [st EXCEPT ![forwardPid[irq]] = "Ready"]
    BY <1>11 DEF HandleIrq, IrqDeliver, IrqPend, IrqDrop
  <2> HIDE DEF st
  <2>3. QED
    BY <2>1, <2>2
<1>12. CASE UNCHANGED vars
  BY <1>1, <1>12 DEF vars
<1>13. CASE Syscall
  BY <1>5, <1>6, <1>7, <1>8, <1>9, <1>10, <1>13 DEF Syscall, OtherSyscall
<1>14. QED
  BY <1>11, <1>12, <1>13 DEF Next, Interrupt

(* destroy looks only at the queue of the process that exits. *)
LEMMA ExitReleases ==
    ASSUME RpcInv, [RpcNext]_vars, NEW p \in Pid, state[p] = "SendBlocked"
    PROVE  ReleasedIfQueued(p)
<1> SUFFICES ASSUME Alive(msg[p]), state'[msg[p]] = "Empty"
             PROVE  state'[p] # "SendBlocked" <=> p \in Queued(msg[p])
  BY DEF ReleasedIfQueued
<1> USE DEF RpcInv, IInv
<1>1. msg[p] \in Pid /\ [Next]_vars
  BY RpcIsKernel DEF TypeOK
<1>2. Exit
  BY <1>1, OnlyExitRemoves
<1>3. /\ current \in Pid /\ state[current] = "Running" /\ current # KernelTask
      /\ KernelTask \in Pid /\ state[KernelTask] = "Ready" /\ p # current
  BY <1>2, Values DEF Exit, UserRunning, TypeOK, OneRunning
<1> DEFINE n == Successor(state, current)
           st == Destroyed(current)
<1>4. n \in Pid /\ state[n] = "Ready"
  <2>1. /\ FindNextReady(state, current) \in Pid
        /\ FindNextReady(state, current) # current =>
              state[FindNextReady(state, current)] = "Ready"
    BY <1>3, NextIsReady DEF TypeOK
  <2>2. QED
    BY <1>3, <2>1 DEF Successor
<1>5. state' = [st EXCEPT ![n] = "Running"] /\ st \in [Pid -> ProcessState]
  BY <1>2 DEF Exit, SwitchTo, Resumed, Destroyed, TypeOK, ProcessState
<1>6. \A q \in Pid \ {current} : state[q] # "Empty" => st[q] # "Empty"
  BY DEF Destroyed
<1>7. st[p] = IF p \in RemovedSenders(current) THEN "Ready" ELSE "SendBlocked"
  BY <1>3 DEF Destroyed, RemovedWaiters
<1> HIDE DEF n, st
<1>8. msg[p] = current
  BY <1>1, <1>5, <1>6 DEF Alive
<1>9. p \in RemovedSenders(current) <=> p \in Queued(current)
  BY DEF RemovedSenders, Queued
<1>10. state'[p] # "SendBlocked" <=> p \in RemovedSenders(current)
  BY <1>3, <1>4, <1>5, <1>7
<1>11. QED
  BY <1>8, <1>9, <1>10

(* A caller is released by the process it called, by its reply or by its   *)
(* exit, and by nobody else; the exit releases the callers still queued    *)
(* and leaves those whose message was received blocked.                    *)
THEOREM CallersReleasedByCallee == RpcSpec => CalleeReleasesCaller
<1>1. RpcInv /\ [RpcNext]_vars => \A p \in Pid : state[p] = "SendBlocked" => Depends(p)
  BY NextRpc, ExitReleases DEF RpcStep, OnlyCalleeReleases, Depends
<1>2. QED
  BY <1>1, RpcInvariance, PTL DEF RpcSpec, CalleeReleasesCaller, Depends,
     ReleasedIfQueued

(* receive hands over a process's call only after its notifications. *)
THEOREM NotificationsComeFirst == RpcSpec => NotificationsBeforeCall
<1>1. RpcInv /\ [RpcNext]_vars => CallsComeLast
  BY NextRpc DEF RpcStep
<1>2. QED
  BY <1>1, RpcInvariance, PTL DEF RpcSpec, NotificationsBeforeCall, CallsComeLast

-----------------------------------------------------------------------------
(* What survives when system calls are interrupted between any two of      *)
(* their steps (module KernelPreempt).                                     *)

VARIABLES
    pc,         \* where in its system call a process is
    target      \* the Process* a call holds across its steps

Preempt == INSTANCE KernelPreempt

(* findNextReady names a process. *)
LEMMA PreemptChooses ==
    ASSUME NEW st \in [Preempt!Pid -> Preempt!ProcessState], NEW c \in Preempt!Pid
    PROVE  Preempt!FindNextReady(st, c) \in Preempt!Pid
<1> DEFINE ready == {p \in Preempt!Pid \ {c} : st[p] = "Ready"}
           after == {p \in ready : p > c}
<1>1. ready \in SUBSET Nat /\ after \in SUBSET Nat /\ ready \subseteq Preempt!Pid /\ after \subseteq Preempt!Pid
  BY MaxPidAssumption DEF Preempt!Pid
<1>2. ready # {} => Min(ready) \in ready
  BY <1>1, MinInSet
<1>3. after # {} => Min(after) \in after
  BY <1>1, MinInSet
<1>4. QED
  BY <1>1, <1>2, <1>3 DEF Preempt!FindNextReady, Preempt!Min, Min

(* The types of the variables on which the scheduler depends. *)
PreemptTypes ==
    /\ state \in [Preempt!Pid -> Preempt!ProcessState]
    /\ current \in Preempt!Pid
    /\ target \in [Preempt!Pid -> Preempt!Pid]

(* The inductive invariant. *)
PreemptInv == PreemptTypes /\ IdleTaskRunnable

(* A switch to next, from process states in which the idle task can run:   *)
(* next is alive afterwards, whatever happened to it since it was chosen.  *)
LEMMA PreemptSwitch ==
    ASSUME NEW st \in [Preempt!Pid -> Preempt!ProcessState], NEW next \in Preempt!Pid,
           st[Preempt!KernelTask] \in {"Ready", "Running"},
           state' = Preempt!Resumed(st, next), current' = next, target' \in [Preempt!Pid -> Preempt!Pid]
    PROVE  PreemptInv'
<1>1. Preempt!KernelTask \in Preempt!Pid
  BY MaxPidAssumption DEF Preempt!Pid, Preempt!KernelTask
<1>2. PreemptTypes'
  BY DEF PreemptTypes, Preempt!Resumed, Preempt!ProcessState
<1>3. IdleTaskRunnable'
  BY <1>1 DEF IdleTaskRunnable, Preempt!Resumed, Alive, KernelTask, Preempt!KernelTask
<1>4. QED
  BY <1>2, <1>3 DEF PreemptInv

(* A step of the running process that gives p the state s. *)
LEMMA PreemptSetState ==
    ASSUME PreemptInv, NEW p \in Preempt!Pid, NEW s \in Preempt!ProcessState \ {"Empty"},
           Preempt!SetState(p, s), p = Preempt!KernelTask => s = "Ready",
           UNCHANGED current, target' \in [Preempt!Pid -> Preempt!Pid]
    PROVE  PreemptInv'
<1>1. Preempt!KernelTask \in Preempt!Pid
  BY MaxPidAssumption DEF Preempt!Pid, Preempt!KernelTask
<1>2. PreemptTypes'
  BY DEF PreemptInv, PreemptTypes, Preempt!SetState
<1>3. IdleTaskRunnable'
  BY <1>1 DEF PreemptInv, PreemptTypes, Preempt!SetState, IdleTaskRunnable, Alive, KernelTask, Preempt!KernelTask
<1>4. QED
  BY <1>2, <1>3 DEF PreemptInv

(* A step that changes no process state. *)
LEMMA PreemptQuiet ==
    ASSUME PreemptInv, UNCHANGED <<state, current>>, target' \in [Preempt!Pid -> Preempt!Pid]
    PROVE  PreemptInv'
BY DEF PreemptInv, PreemptTypes, IdleTaskRunnable, Alive, KernelTask, Preempt!KernelTask

(* The timer, at any point of the running process's call. *)
LEMMA PreemptTimer ==
    ASSUME PreemptInv, Preempt!Timer
    PROVE  PreemptInv'
<1> USE DEF PreemptInv
<1> DEFINE st == Preempt!Demoted(state, current)
           next == Preempt!FindNextReady(st, current)
<1>1. Preempt!KernelTask \in Preempt!Pid /\ target' \in [Preempt!Pid -> Preempt!Pid]
  BY MaxPidAssumption DEF Preempt!Pid, Preempt!KernelTask, PreemptTypes, Preempt!Timer
<1>2. CASE Preempt!OnlyKernelTask(state)
  BY <1>1, <1>2, PreemptQuiet DEF Preempt!Timer
<1>3. CASE ~Preempt!OnlyKernelTask(state)
  <2>1. st \in [Preempt!Pid -> Preempt!ProcessState] /\ st[Preempt!KernelTask] \in {"Ready", "Running"}
    BY <1>1 DEF Preempt!Demoted, PreemptTypes, IdleTaskRunnable, KernelTask, Preempt!KernelTask, Preempt!ProcessState
  <2>2. state' = Preempt!Resumed(st, next) /\ current' = next
    BY <1>3 DEF Preempt!Timer
  <2> HIDE DEF st
  <2>3. next \in Preempt!Pid
    BY <2>1, PreemptChooses DEF PreemptTypes
  <2> HIDE DEF next
  <2>4. QED
    BY <1>1, <2>1, <2>2, <2>3, PreemptSwitch
<1>4. QED
  BY <1>2, <1>3

(* The reschedule at the end of a call, however long after the call marked *)
(* its process blocked.                                                    *)
LEMMA PreemptReschedule ==
    ASSUME PreemptInv, Preempt!Reschedule
    PROVE  PreemptInv'
<1> DEFINE next == Preempt!FindNextReady(state, current)
<1>1. next \in Preempt!Pid /\ target' \in [Preempt!Pid -> Preempt!Pid]
  BY PreemptChooses DEF PreemptInv, PreemptTypes, Preempt!Reschedule
<1>2. state' = Preempt!Resumed(state, next) /\ current' = next
  BY DEF Preempt!Reschedule
<1> HIDE DEF next
<1>3. QED
  BY <1>1, <1>2, PreemptSwitch DEF PreemptInv, PreemptTypes, IdleTaskRunnable, KernelTask, Preempt!KernelTask

(* exitCurrent, with the successor that it chose before it was interrupted. *)
LEMMA PreemptExit ==
    ASSUME PreemptInv, Preempt!ExitDestroy
    PROVE  PreemptInv'
<1> USE DEF PreemptInv
<1> DEFINE st == Preempt!Destroyed(current)
           next == target[current]
<1>1. Preempt!KernelTask \in Preempt!Pid /\ Preempt!KernelTask # current /\ next \in Preempt!Pid /\ target' \in [Preempt!Pid -> Preempt!Pid]
  BY MaxPidAssumption DEF Preempt!Pid, Preempt!KernelTask, PreemptTypes, Preempt!ExitDestroy, Preempt!At
<1>2. st \in [Preempt!Pid -> Preempt!ProcessState] /\ st[Preempt!KernelTask] \in {"Ready", "Running"}
  BY <1>1 DEF Preempt!Destroyed, PreemptTypes, IdleTaskRunnable, KernelTask, Preempt!KernelTask, Preempt!ProcessState
<1>3. state' = Preempt!Resumed(st, next) /\ current' = next
  BY DEF Preempt!ExitDestroy
<1> HIDE DEF st, next
<1>4. QED
  BY <1>1, <1>2, <1>3, PreemptSwitch

LEMMA PreemptNext == PreemptInv /\ [Preempt!Next]_(Preempt!vars) => PreemptInv'
<1> SUFFICES ASSUME PreemptInv, [Preempt!Next]_(Preempt!vars) PROVE PreemptInv'
  OBVIOUS
<1> USE DEF PreemptInv
<1>0. Preempt!KernelTask \in Preempt!Pid /\ Preempt!Driver \in Preempt!Pid /\ Preempt!Driver # Preempt!KernelTask
  BY MaxPidAssumption DEF Preempt!Pid, Preempt!KernelTask, Preempt!Driver
<1>1. ASSUME NEW t \in Preempt!Pid, Preempt!SendLookup(t) \/ Preempt!WaitLookup(t) PROVE PreemptInv'
  BY <1>1, PreemptQuiet DEF Preempt!SendLookup, Preempt!WaitLookup, PreemptTypes
<1>2. ASSUME NEW t \in Preempt!Pid, Preempt!Reply(t) PROVE PreemptInv'
  BY <1>2, PreemptSetState DEF Preempt!Reply, PreemptTypes, Preempt!ProcessState
<1>3. CASE Preempt!SendDeliver
  BY <1>3, PreemptSetState DEF Preempt!SendDeliver, Preempt!At, PreemptTypes, Preempt!ProcessState
<1>4. CASE Preempt!SendEnqueue \/ Preempt!SendNoMemory \/ Preempt!ReceiveIrq \/ Preempt!ReceiveSender
  BY <1>4, PreemptQuiet DEF Preempt!SendEnqueue, Preempt!SendNoMemory, Preempt!ReceiveIrq, Preempt!ReceiveSender, PreemptTypes
<1>5. CASE Preempt!SendBlock \/ Preempt!ReceiveBlock \/ Preempt!WaitBlock
  <2>1. PICK s \in {"SendBlocked", "ReceiveBlocked", "WaitBlocked"} : Preempt!SetState(current, s)
    BY <1>5 DEF Preempt!SendBlock, Preempt!ReceiveBlock, Preempt!WaitBlock
  <2>2. UNCHANGED <<current, target>> /\ current # Preempt!KernelTask
    BY <1>5 DEF Preempt!SendBlock, Preempt!ReceiveBlock, Preempt!WaitBlock, Preempt!At
  <2>3. QED
    BY <2>1, <2>2, PreemptSetState DEF PreemptTypes, Preempt!ProcessState
<1>6. CASE Preempt!ExitChoose
  <2>1. Preempt!FindNextReady(state, current) \in Preempt!Pid
    BY PreemptChooses DEF PreemptTypes
  <2>2. Preempt!Successor(state, current) \in Preempt!Pid
    BY <1>0, <2>1 DEF Preempt!Successor
  <2>3. QED
    BY <1>6, <2>2, PreemptQuiet DEF Preempt!ExitChoose, PreemptTypes
<1>7. CASE Preempt!DeviceIrq
  <2>1. CASE state[Preempt!Driver] = "ReceiveBlocked"
    BY <1>0, <1>7, <2>1, PreemptSetState DEF Preempt!DeviceIrq, PreemptTypes, Preempt!ProcessState
  <2>2. CASE state[Preempt!Driver] # "ReceiveBlocked"
    BY <1>7, <2>2, PreemptQuiet DEF Preempt!DeviceIrq, PreemptTypes
  <2>3. QED
    BY <2>1, <2>2
<1>8. CASE UNCHANGED Preempt!vars
  BY <1>8, PreemptQuiet DEF Preempt!vars, PreemptTypes
<1>9. QED
  BY <1>1, <1>2, <1>3, <1>4, <1>5, <1>6, <1>7, <1>8, PreemptTimer, PreemptReschedule, PreemptExit
  DEF Preempt!Next

(* Preempted system calls cannot crash the scheduler: the idle task can    *)
(* always be switched to, and neither the timer nor reschedule nor         *)
(* exitCurrent, with the successor it chose before it was interrupted,     *)
(* gives the processor to a process that has left the list.                *)
THEOREM SchedulerSurvivesPreemption == Preempt!Spec => []IdleTaskRunnable
<1>1. Preempt!Init => PreemptInv
  <2> SUFFICES ASSUME Preempt!Init PROVE PreemptInv
    OBVIOUS
  <2>1. Preempt!KernelTask \in Preempt!Pid
    BY MaxPidAssumption DEF Preempt!Pid, Preempt!KernelTask
  <2>2. PreemptTypes
    BY <2>1 DEF Preempt!Init, PreemptTypes, Preempt!ProcessState, Preempt!KernelTask
  <2>3. IdleTaskRunnable
    BY <2>1 DEF Preempt!Init, IdleTaskRunnable, Alive, KernelTask, Preempt!KernelTask
  <2>4. QED
    BY <2>2, <2>3 DEF PreemptInv
<1>2. PreemptInv => IdleTaskRunnable
  BY DEF PreemptInv
<1>3. QED
  BY <1>1, <1>2, PreemptNext, PTL DEF Preempt!Spec

=============================================================================
