------------------------------- MODULE MCRpc --------------------------------
(* Instances of Rpc for TLC. *)
EXTENDS Rpc

OrderCalls == {"Send", "Receive", "Reply", "Notify"}
RpcCalls == OrderCalls \cup {"Exit"}

(* The nameserver (1), vfs (2) and ata (3); vfs calls the other two, and   *)
(* the remaining processes are clients.                                    *)
MCServers == {1, 2, 3}
MCUses == {<<2, 1>>, <<2, 3>>}
NoUses == {}
=============================================================================
