SPECIFICATION FairSpec
CONSTANTS
    Offices = {o1, o2}
    Requests = {r1, r2}
    Main = Main
    Free = Free
    Spurious = FALSE
CHECK_DEADLOCK FALSE
PROPERTIES
    ServedWhileOpen
