SPECIFICATION Spec
CONSTANTS
    Server = {a}
    BadHealthUrl = {}
    Hung = {}
    Failures = 3
    Passes = 2
    MaxBackends = 2
    MaxChecks = 1
    Worker = {w1}
    MaxInFlight = 5
    MaxPublished = 3
    MaxCounted = 1
INVARIANT DownEverywhere
CHECK_DEADLOCK FALSE
