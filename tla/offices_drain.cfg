SPECIFICATION Spec
CONSTANTS
    Offices = {o1, o2}
    Requests = {r1, r2}
    Main = Main
    Free = Free
    Spurious = FALSE
SYMMETRY Symmetry
CHECK_DEADLOCK FALSE
INVARIANTS
    Drained
