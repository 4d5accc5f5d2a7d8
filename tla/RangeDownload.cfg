SPECIFICATION Spec
CONSTANTS
    Content = 4
    MB = 1
    Faults = {"open", "write", "create", "timeout", "reset", "close", "redirect", "crash"}
    MaxFaults = 2
    MaxHeader = 1
    MaxRuns = 2
INVARIANTS
    WaitedForAll
    PartsInOrder
    CompleteIsWhole
PROPERTIES
    DownloadReturns
CHECK_DEADLOCK FALSE
