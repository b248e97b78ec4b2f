SPECIFICATION FairSpec
CONSTANTS
    Server = {a}
    BadHealthUrl = {}
    Hung = {a}
    Failures = 3
    Passes = 2
    MaxBackends = 1
    MaxChecks = 2
PROPERTY ActiveNeedsPasses
