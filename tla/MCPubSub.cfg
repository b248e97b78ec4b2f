SPECIFICATION FairSpec
CONSTANTS
    Worker = {w1, w2}
    MaxInFlight = 2
    MaxPublished = 3
INVARIANTS PubSubInv InFlightExact AllAccounted FeedComplete
PROPERTIES ImplementsBroadcast DeadForgotten Drains Delivered
CHECK_DEADLOCK FALSE
