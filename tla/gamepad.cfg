SPECIFICATION PadFairSpec
CONSTANTS
    Axes <- MCAxes
    Ranges <- FixedRanges
    Velocities <- MCVelocities
    Zooms = {2, 3}
    Pads <- MCPads
    Waits = {1}
    FullAxis = 20
    Mapping <- MCMapping
    One = 1
    MinZoom = 2
    MaxZoom = 3
INVARIANTS
    PadTypeOK
    ReleasedStickStops
    StickWithinSpeed
    CenterOncePerPress
    ToggleOncePerPress
PROPERTIES
    LegalCaller
    ToggleInverts
    Reconnects
CHECK_DEADLOCK FALSE
