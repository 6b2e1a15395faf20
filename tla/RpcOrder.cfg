SPECIFICATION RpcSpec
CONSTANTS
    Calls <- RpcCalls
    MaxPid = 3
    BootModules = 3
    TimeSlice = 1
    IrqArgs = {1}
    IrqLines = {0}
    QueueBound = 1
    Servers = {}
    Uses <- NoUses
INVARIANTS QueuedSendersWait MessageIsForReceiver
PROPERTIES  NotificationsBeforeCall
