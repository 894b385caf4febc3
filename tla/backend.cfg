SPECIFICATION BackendFairSpec
CONSTANTS
    Byte = 4
    Scale = 4
    Ranges <- MCRanges
    Zooms = {4, 7, 8}
    Velocities <- MCVelocities
    Targets <- MCTargets
    Shots <- MCShots
    Limit = 2
INVARIANTS
    BackendTypeOK
    CopyWithinHalfUnit
    PrintsItsCommand
PROPERTIES
    SectionsImplementCore
    MovesUntracked
    CallsEnd
CHECK_DEADLOCK FALSE
