\* Two scopes with deadlines of one and three ticks, rounds of two; one tick of deviation; two cores.
CONSTANTS
    Ptrs = {p1, p2}
    Timeouts = {0, 1, 3}
    Cores = 2
    RoundSleep = 2
    Deviation = 1
    MaxNow = 4
SPECIFICATION Spec
INVARIANTS SleepCoversAll
PROPERTIES OverdueIsReported EarlyAlarmIsCharged
CHECK_DEADLOCK FALSE
