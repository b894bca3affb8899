SPECIFICATION Spec
CONSTANTS
    Threads = {t1, t2}
    NoThread = NoThread
    Builds = {"pthread"}
    MaxDepth = 2
INVARIANTS
    IsLockedTellsTruth
