\* Two users call the object at the same time.
CONSTANTS
    Users = {u1, u2}
    MaxStarts = 3
SPECIFICATION FairSpec
INVARIANTS FreedIffUnused OneThread CancelWorks
PROPERTY JoinReturns
CHECK_DEADLOCK FALSE
