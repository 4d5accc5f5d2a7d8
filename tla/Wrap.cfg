\* Two clients, two resets and so three queues: everything may race with everything.
CONSTANTS
    Clients = {c1, c2}
    MaxResets = 2
    MaxIds = 1
SPECIFICATION FairSpec
INVARIANTS OneWorker SettledWorkerSafe
PROPERTIES ResetReturns
CHECK_DEADLOCK FALSE
