SPECIFICATION FairSpec
CONSTANTS
    Dirs = {"dir", "sub", "ola", "sub2", "lost"}
    Files = {"f1", "f2", "f3", "f4", "f5", "f6", "f7", "link", "out", "md5", "bad", "-o"}
    Missing = {"out", "md5", "bad", "-o"}
    Entries <- MCEntries
    Broken = {"link"}
    Locked = {"lost"}
    ForkFails = {"ola"}
    Argvs <- MCArgvs
    Hashes = {"md5"}
    BUFSIZ = 3
    Main = "main"
CHECK_DEADLOCK FALSE
INVARIANTS
    TypeOK
    ParsedAsUsage
    SuccessIsComplete
    CopiesByForkOnly
    LogExact
    Counted
    StopsAfterLine
PROPERTIES
    EveryoneEnds
