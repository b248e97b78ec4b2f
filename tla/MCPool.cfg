SPECIFICATION FairSpec
CONSTANTS
    Server = {a, b}
    Request = {r1, r2, r3}
    MaxBackends = 3
INVARIANTS CursorInRange StatsExact PoolInv
PROPERTIES GetProgress ExhaustedOnlyWhenAllDown FairRotation DownNotServed GetReturns ImplementsRoundRobin
