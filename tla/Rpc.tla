-------------------------------- MODULE Rpc ---------------------------------
(***************************************************************************)
(* The kernel's IPC as the services use it.  The programs of the           *)
(* repository reply only to a sender whose message they have received and  *)
(* not answered yet; what send and receive then guarantee is stated here   *)
(* on top of module Kernel, which lets a program reply to anyone.          *)
(***************************************************************************)
EXTENDS Kernel

CONSTANTS
    Servers,    \* pids of the processes that run a service loop
    Uses        \* <<s, t>>: server s calls server t while it serves a request

ASSUME ServersAssumption ==
    /\ Servers \subseteq Pid \ {KernelTask}
    /\ Uses \subseteq Servers \X Servers

(* The processes in the send queue of p. *)
Queued(p) == {sendQueue[p][i] : i \in 1 .. Len(sendQueue[p])}

(* Callers whose message p has received and that still wait for an answer. *)
Served(p) ==
    {q \in Pid : state[q] = "SendBlocked" /\ msg[q] = p /\ q \notin Queued(p)}

(* Mutation: a service replies to any blocked process. *)
AnswerAnyone == \E t \in Pid : Reply(t)

(* A service replies to a caller it is serving. *)
AnswerCaller == \E t \in Served(current) : Reply(t)

RpcSyscall ==
    \/ OtherSyscall
    \/ "Reply" \in Calls /\ AnswerCaller

RpcNext == RpcSyscall \/ Interrupt

RpcSpec == Init /\ [][RpcNext]_vars

-----------------------------------------------------------------------------
(* Processes that follow the service loops: a server receives a request,   *)
(* may call the servers it uses (vfs calls ata, terminal calls display)    *)
(* and replies.  Every other process calls servers.                        *)

ServerReceive(s) == current = s /\ Served(s) = {} /\ Receive
ServerCall(s) ==
    /\ current = s
    /\ Served(s) # {}
    /\ \E t \in Servers : <<s, t>> \in Uses /\ (SendDeliver(t) \/ SendEnqueue(t))
ServerReply(s) == current = s /\ AnswerCaller
ClientCall(c) ==
    current = c /\ \E t \in Servers : SendDeliver(t) \/ SendEnqueue(t)

Clients == Pid \ (Servers \cup {KernelTask})

ServeNext ==
    \/ \E s \in Servers : ServerReceive(s) \/ ServerCall(s) \/ ServerReply(s)
    \/ \E c \in Clients : ClientCall(c)
    \/ Interrupt

(* The timer never stops, and a server that is given the processor again   *)
(* and again eventually gets through its receive or its reply.             *)
ServeSpec ==
    /\ Init /\ [][ServeNext]_vars
    /\ WF_vars(HandleIrq(TimerIrq))
    /\ \A s \in Servers : SF_vars(ServerReceive(s)) /\ SF_vars(ServerReply(s))

-----------------------------------------------------------------------------
(* Properties.                                                             *)

(* The send queues are exact: an entry is a process that is blocked in a   *)
(* send to the owner of the queue, and no process is queued twice, so a    *)
(* receive that pops an entry always finds a live sender and its message.  *)
QueuedSendersWait ==
    \A t \in Pid :
        /\ \A i \in 1 .. Len(sendQueue[t]) :
              /\ state[sendQueue[t][i]] = "SendBlocked"
              /\ msg[sendQueue[t][i]] = t
        /\ \A i, j \in 1 .. Len(sendQueue[t]) :
              sendQueue[t][i] = sendQueue[t][j] => i = j

(* A process never receives a message that was composed for another one. *)
MessageIsForReceiver ==
    \A p \in Pid : buf[p].kind = "send" => buf[p].to = p

(* A caller depends on its callee alone.  A process blocked in a send to t *)
(* is released by a reply of t or by t's exit, never by another process;   *)
(* and the exit of t releases exactly the callers still in t's queue: one  *)
(* whose message t has received and not answered stays blocked, since      *)
(* destroy looks only at the queue.                                        *)
CalleeReleasesCaller ==
    [][\A p \in Pid : state[p] = "SendBlocked" =>
        /\ state'[p] # "SendBlocked" => current = msg[p]
        /\ Alive(msg[p]) /\ state'[msg[p]] = "Empty" =>
              (state'[p] # "SendBlocked" <=> p \in Queued(msg[p]))]_vars

(* Notifications are processed in order relative to the blocking sends of  *)
(* the same source: when p gets q's call, no notification of q is left.    *)
NotificationsBeforeCall ==
    [][\A p \in Pid : buf'[p].kind = "send" /\ buf'[p] # buf[p] =>
            \A i \in 1 .. Len(notifyQueue[p]) : notifyQueue[p][i] # buf'[p].from]_vars

(* Every call to a server that keeps serving is answered. *)
CallsAnswered == \A p \in Pid : state[p] = "SendBlocked" ~> state[p] = "Ready"

=============================================================================
