\* Three addresses, two at a time, one of them verified.
CONSTANTS
    N = 3
    Verify = {0}
    Timeout = 3
    RwFloor = 1
    SendLen = 1
    Interval = 2
    ErrorInterval = 1
    MaxConnect = 2
    MaxInstant = 1
    MaxAgain = 1
SPECIFICATION FairSpec
INVARIANTS NoSocketLost WinnerIsGood NoOversleep
PROPERTY Returns
CHECK_DEADLOCK FALSE
