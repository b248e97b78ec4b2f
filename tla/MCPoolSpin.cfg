SPECIFICATION LibFairSpec
CONSTANTS
    Server = {a, b}
    Request = {r1, r2}
    MaxBackends = 2
PROPERTY GetReturns
CHECK_DEADLOCK FALSE
