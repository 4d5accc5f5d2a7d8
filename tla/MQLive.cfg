SPECIFICATION FairSpec
CONSTANTS
    Clients = {c1, c2}
    Sends <- SendsLive
    MaxMsgs = 3
    MaxHandlers = 1
    Broadcast = {}
    MaxNow = 1
    Ops = {"send", "wait", "quit"}
INVARIANTS
    QuitStopsHandlers
PROPERTIES
    WaitReturnMeansDone
    CallsReturn
CHECK_DEADLOCK FALSE
