\* A thread and an observer that calls back into the client; every fault.
CONSTANTS
    u1 = u1
    Users <- ThreadAndObserver
    MaxWrites = 2
    MaxLen = 2
    MaxRx = 1
    MaxFills = 0
    Faults = {"close", "error", "interrupt"}
SPECIFICATION Spec
INVARIANTS NoStaleSleep OnWroteTruthful WaitMeansQuiet
CHECK_DEADLOCK FALSE
