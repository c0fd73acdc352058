SPECIFICATION FairSpec
CONSTANTS
    Offices = {o1}
    Requests = {r1, r2, r3}
    Main = Main
    Free = Free
    Spurious = TRUE
CHECK_DEADLOCK FALSE
INVARIANTS
    InOrderOnce
    Drained
PROPERTIES
    RequestsServed
    ShutdownEnds
