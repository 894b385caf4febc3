SPECIFICATION ServiceFairSpec
CONSTANTS
    Axes <- MCAxes
    Ranges <- FixedRanges
    Velocities <- MCVelocities
    Zooms = {1}
    Workers = {w1}
    Subscribers = {s1}
    AskedPositions <- PanPositions
    AskedVelocities <- PanVelocities
    AskedZooms = {0, 1, 2}
    AskedIntervals = {0, 49}
    MaxSpeed = 1
    MinZoom = 1
    MaxZoom = 1
    SupportsTracking = TRUE
    Interval <- MCInterval
INVARIANTS
    ServiceTypeOK
    ReplyShowsCommand
PROPERTIES
    LegalService
    RequestsAnswered
    StreamCatchesUp
