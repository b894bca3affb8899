SPECIFICATION Spec
CONSTANTS
    UINT = 8
    BufLens <- MCBufLens
    Millis <- MCMillis
    MaxStall = 1
INVARIANTS
    TimeoutTakesTime
