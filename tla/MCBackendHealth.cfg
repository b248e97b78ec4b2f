SPECIFICATION FairSpec
CONSTANTS
    Server = {a, b, c}
    BadHealthUrl = {c}
    Hung = {}
    Failures = 3
    Passes = 2
    MaxBackends = 2
    MaxChecks = 3
INVARIANTS HealthInv BelowThreshold
PROPERTIES CountsConsecutive FailingEndsDown PassingEndsActive
