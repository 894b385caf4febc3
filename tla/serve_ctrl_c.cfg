SPECIFICATION ServeFairSpec
CONSTANTS
    r1 = r1
    r2 = r2
    c1 = c1
    Requests <- MCRequests
    Streams <- MCStreams
PROPERTY
    CtrlCAlwaysStops
CHECK_DEADLOCK FALSE
