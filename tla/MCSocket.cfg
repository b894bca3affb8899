SPECIFICATION FairSpec
CONSTANTS
    o1 = o1
    o2 = o2
    Objects <- MCObjects
    Retriers <- MCRetriers
    MaxFd = 2
    AppFiles = 1
    ULONG = 6
    Tick = 2
    Timeouts <- MCTimeouts
    Kernels <- MCKernels
INVARIANTS
    TypeOK
    NobodyRobbed
    NoLeak
    ConnectTellsTruth
    ConnectOnTime
PROPERTIES
    ConnectReturns
    ConnectAdvances
