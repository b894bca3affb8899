SPECIFICATION FairSpec
CHECK_DEADLOCK FALSE
CONSTANTS
    Objects = {o1, o2}
    Sloppy = {o2}
    NoObject = NoObject
    Tids = {t1, t2}
    NoTid = NoTid
    Builds = {"pthread", "win32"}
INVARIANTS
    TypeOK
    OwnThread
    NoZombie
    CancelVerdict
    CancelIsOwn
PROPERTIES
    StopReturns
