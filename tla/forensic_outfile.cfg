SPECIFICATION Spec
CONSTANTS
    Dirs = {"dir", "sub", "ola", "sub2", "lost"}
    Files = {"f1", "f2", "f3", "f4", "f5", "f6", "f7", "link", "out"}
    Missing = {"out"}
    Entries <- MCEntries
    Broken = {}
    Locked = {}
    ForkFails = {}
    Argvs <- Allowed
    Hashes = {"md5"}
    BUFSIZ = 3
    Main = "main"
CHECK_DEADLOCK FALSE
INVARIANT LogOnlyWithV
