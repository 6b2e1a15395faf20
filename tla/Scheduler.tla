----------------------------- MODULE Scheduler ------------------------------
(***************************************************************************)
(* The process list and the running process, and the choices of the       *)
(* round-robin scheduler (core/scheduler.cpp) as operators on them.  A     *)
(* process is its pid; pids are handed out in increasing order and created *)
(* processes are appended to the process list, so the order of the list is *)
(* the order of the pids and the list is the set of pids whose state is    *)
(* not "Empty".                                                            *)
(***************************************************************************)
EXTENDS Integers, FiniteSetsExt

CONSTANT MaxPid     \* bound: the last pid ProcessManager::create hands out

ASSUME MaxPidAssumption == MaxPid \in Nat \ {0}

VARIABLES
    state,      \* Process::state, "Empty" for pids not in the list
    current     \* ProcessManager::currentProcess

Pid == 0 .. MaxPid
KernelTask == 0

ProcessState ==
    {"Empty", "Ready", "Running", "SendBlocked", "ReceiveBlocked", "WaitBlocked"}

(* ProcessManager::get succeeds. *)
Alive(p) == state[p] # "Empty"

(* ProcessManager::getProcessCount() <= 1: only the kernel task is left. *)
OnlyKernelTask(st) == \A p \in Pid \ {KernelTask} : st[p] = "Empty"

(* Mutation: the search starts at the head of the list every time. *)
FirstReady(st, c) ==
    LET ready == {p \in Pid \ {c} : st[p] = "Ready"}
    IN  IF ready = {} THEN c ELSE Min(ready)

(* Scheduler::findNextReady: the first Ready process after c in the list,  *)
(* wrapping to its head, or c itself when no other process is Ready.       *)
FindNextReady(st, c) ==
    LET ready == {p \in Pid \ {c} : st[p] = "Ready"}
        after == {p \in ready : p > c}
    IN  IF ready = {} THEN c
        ELSE IF after # {} THEN Min(after) ELSE Min(ready)

(* Mutation: the outgoing process stays Running. *)
NotDemoted(st, c) == st

(* Scheduler::schedule demotes only a Running process before it looks for  *)
(* the next one.                                                           *)
Demoted(st, c) ==
    IF st[c] = "Running" THEN [st EXCEPT ![c] = "Ready"] ELSE st

(* The process states once Scheduler::switchTo has made next the running   *)
(* process.                                                                *)
Resumed(st, next) == [st EXCEPT ![next] = "Running"]

(* Scheduler::exitCurrent: the successor of d is chosen before d is        *)
(* destroyed; the head of the list, the kernel task, when nobody is Ready. *)
Successor(st, d) ==
    LET n == FindNextReady(st, d) IN IF n = d THEN KernelTask ELSE n

(* The idle task can always be switched to, and the processor is never     *)
(* given to a process that has left the list (switchTo, exitCurrent).      *)
IdleTaskRunnable == state[KernelTask] \in {"Ready", "Running"} /\ Alive(current)

=============================================================================
