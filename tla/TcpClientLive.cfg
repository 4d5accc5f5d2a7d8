\* One thread; a full send buffer drains in the end.
CONSTANTS
    u1 = u1
    Users <- OneThread
    MaxWrites = 1
    MaxLen = 1
    MaxRx = 2
    MaxFills = 1
    Faults = {"close"}
SPECIFICATION FairSpec
PROPERTIES DisconnectEnds WriteServed
CHECK_DEADLOCK FALSE
