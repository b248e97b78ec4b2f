SPECIFICATION Spec
CONSTANTS
    Worker = {w1}
    MaxInFlight = 5
    MaxPublished = 6
INVARIANT NothingSkipped
CHECK_DEADLOCK FALSE
