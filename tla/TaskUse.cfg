SPECIFICATION Spec
CONSTANTS
    Tasks = {t1, t2, t3}
    Awaited = {t1, t2}
    MaxThreads = 2
    Backlog = 1
    MaxCommits = 3
    MaxCancels = 1
    Repeats = TRUE
INVARIANTS
    UnitsServed
    OwnResult
    RoomIsAwaited
    WaitHasCause
SYMMETRY AwaitedAlike
CHECK_DEADLOCK FALSE
