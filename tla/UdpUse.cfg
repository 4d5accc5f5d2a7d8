\* Three datagrams to send, two that arrive, two failures of any kind.
CONSTANTS
    MaxSends = 3
    MaxArrivals = 2
    MaxErrors = 2
    Faults = {"create", "poll", "io"}
SPECIFICATION Spec
PROPERTIES QueuedIsSent DestructorReturns
CHECK_DEADLOCK FALSE
