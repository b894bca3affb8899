SPECIFICATION Spec
CONSTANTS
    Threads = {t1, t2, t3}
    NoThread = NoThread
    Builds = {"pthread", "win32"}
    MaxDepth = 2
INVARIANTS
    TypeOK
    Consistent
    FlagClearWhenFree
PROPERTIES
    LockRefined
