SPECIFICATION DiscoverySpec
CONSTANTS
    LastNode = 3
    Products = 2
INVARIANTS
    FindsTheFirst
    HeldAtTheEnd
CHECK_DEADLOCK FALSE
