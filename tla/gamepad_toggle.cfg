SPECIFICATION PadFairSpec
CONSTANTS
    Axes <- MCAxes
    Ranges <- FixedRanges
    Velocities <- StillVelocities
    Zooms = {1}
    Pads <- NorthPads
    Waits = {1}
    FullAxis = 20
    Mapping <- MCMapping
    One = 1
    MinZoom = 1
    MaxZoom = 1
PROPERTY
    PressTogglesOnce
CHECK_DEADLOCK FALSE
