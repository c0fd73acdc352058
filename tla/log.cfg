SPECIFICATION Spec
CONSTANTS
    Threads = {"main", "office", "u1", "u2"}
    getpid <- MCgetpid
    logfile <- MClogfile
    Calls <- MCCalls
    PIPE_BUF = 6
CHECK_DEADLOCK FALSE
INVARIANTS
    TypeOK
    WholeUnlessOverlapped
    OneWritePerCall
