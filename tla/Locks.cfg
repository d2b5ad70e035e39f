SPECIFICATION FairSpec
CONSTANTS
    Procs = {p1, p2}
    WorkPanics = TRUE
    MaxLaunches = 3
    MaxKills = 2
INVARIANTS
    NoLockPanic
    MarkerMeansUngraceful
PROPERTIES
    StaleLockDoesNotBlock
    EveryProcessEnds
CHECK_DEADLOCK FALSE
