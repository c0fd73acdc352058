SPECIFICATION Spec
CONSTANTS
    Offices = {o1, o2}
    Requests = {r1, r2, r3}
    Main = Main
    Free = Free
    Spurious = TRUE
SYMMETRY Symmetry
CHECK_DEADLOCK FALSE
INVARIANTS
    TypeOK
    ActiveCount
    ExclusiveBeforeShutdown
    LockHolder
    InOrderBeforeShutdown
    SomeoneAwake
