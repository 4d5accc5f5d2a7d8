\* Two threads start and stop one server; everything may fail.
CONSTANTS
    Users = {u1, u2}
    MaxStarts = 3
    MaxClients = 2
    Faults = {"create", "listen", "interrupt", "accept", "spurious"}
SPECIFICATION FairSpec
INVARIANTS NoStaleBreak StopMeansOver
PROPERTY CallsReturn
CHECK_DEADLOCK FALSE
