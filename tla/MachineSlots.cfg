\* Two pids and a limit that changes between one and two.
CONSTANTS
    Pids = {p1, p2}
    Limits = {1, 2}
    MaxStarts = 2
    MaxTakes = 2
    MaxDeaths = 2
SPECIFICATION FairSpec
INVARIANTS
    EarlierHoldersCount
PROPERTIES
    ReclaimSparesEarlierHolders
    WaitersAreServed
CHECK_DEADLOCK FALSE
