SPECIFICATION Spec
CONSTANTS
    Axes <- MCAxes
    Ranges <- FixedRanges
    Velocities <- OneVelocity
    Zooms = {1}
    Lease = 2
    Interval = 1
    Cap = 2
    Horizon = 3
    MaxTime = 6
INVARIANTS
    NoWriteAfterLease
CHECK_DEADLOCK FALSE
