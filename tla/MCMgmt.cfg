SPECIFICATION FairSpec
CONSTANTS
    Conn = {c1, c2, c3}
    Server = {a, b}
    MaxBackends = 3
INVARIANTS AtMostOneOvertakes ListedIsAnnounced
PROPERTIES TickComes ListingsExtend
CHECK_DEADLOCK FALSE
