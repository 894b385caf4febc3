SPECIFICATION PadFairSpec
CONSTANTS
    Axes <- MCAxes
    Ranges <- FixedRanges
    Velocities <- StillVelocities
    Zooms = {1, 2, 3, 4}
    Pads <- TriggerPads
    Waits = {1}
    FullAxis = 20
    Mapping <- MCMapping
    One = 1
    MinZoom = 1
    MaxZoom = 4
PROPERTY
    TriggerFollowsSign
CHECK_DEADLOCK FALSE
