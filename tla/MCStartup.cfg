SPECIFICATION FairSpec
CONSTANTS
    Manager = {m1, m2}
    Count = 2
    NoManager = NoManager
INVARIANTS FollowsOwnManager OneVoice
PROPERTY EveryWorkerSettles
CHECK_DEADLOCK FALSE
