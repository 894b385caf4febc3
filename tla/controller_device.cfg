SPECIFICATION Spec
CONSTANTS
    Axes <- MCAxes
    Ranges <- MCRanges
    Velocities <- MCVelocities
    Zooms = {1, 2}
    Lease = 1
    Interval = 1
    Cap = 1
    Horizon = 1
    MaxTime = 2
INVARIANTS
    TypeOK
    CopyIsCurrent
PROPERTIES
    MotionOnlyWhenGranted
    StartEndsTracking
    NoLeap
    KeepsPromise
    ImplementsCore
CHECK_DEADLOCK FALSE
