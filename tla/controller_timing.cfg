SPECIFICATION FairSpec
CONSTANTS
    Axes <- MCAxes
    Ranges <- FixedRanges
    Velocities <- OneVelocity
    Zooms = {1}
    Lease = 2
    Interval = 1
    Cap = 2
    Horizon = 4
    MaxTime = 7
INVARIANTS
    DeadManTravel
    AtMostOneLateWrite
    AtMostOneWriteAfterStop
    ErrorMeansStopped
PROPERTIES
    LeaseEnds
    StopCompletes
CHECK_DEADLOCK FALSE
