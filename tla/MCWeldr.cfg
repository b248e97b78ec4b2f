SPECIFICATION FairSpec
CONSTANTS
    Server = {a, b}
    BadHealthUrl = {b}
    Hung = {}
    Failures = 2
    Passes = 2
    MaxBackends = 2
    MaxChecks = 1
    Worker = {w1}
    MaxInFlight = 2
    MaxPublished = 4
    MaxCounted = 1
INVARIANTS ManagerIsLog WorkerIsLog Agreement DuplicateNeedsReAdd
PROPERTY DownArrives
CHECK_DEADLOCK FALSE
