SPECIFICATION Spec
CONSTANTS
    Calls <- AllCalls
    MaxPid = 2
    BootModules = 1
    TimeSlice = 1
    IrqArgs = {1, 16}
    IrqLines = {0, 1}
    QueueBound = 1
INVARIANTS TypeOK OneRunning BlockedReceiverHasNoWork WaitersHaveTarget PidsAreFresh
PROPERTY BlockedCallsEndWithTheirResult
