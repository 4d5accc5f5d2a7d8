SPECIFICATION Spec
CONSTANTS
    Clients = {c1, c2}
    Sends <- SendsDispatch
    MaxMsgs = 4
    MaxHandlers = 2
    Broadcast = {0, 1}
    MaxNow = 2
    Ops = {"send", "cancel", "add_handler", "remove_handler"}
INVARIANTS
    KeptPointersNeedRemoval
    HandledOnce
    DueInOrder
    NoIdleSleepOnWork
PROPERTIES
    ImplementsTimerQueue
SYMMETRY ClientSymmetry
CHECK_DEADLOCK FALSE
