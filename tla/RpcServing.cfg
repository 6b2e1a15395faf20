SPECIFICATION ServeSpec
CONSTANTS
    Calls <- OrderCalls
    MaxPid = 5
    BootModules = 5
    TimeSlice = 2
    IrqArgs = {1}
    IrqLines = {0}
    QueueBound = 4
    Servers <- MCServers
    Uses <- MCUses
PROPERTIES CallsAnswered ReadyRuns
