SPECIFICATION SFairSpec
CONSTANTS
    UINT = 1048576
    BufLens <- MCBufLens
    Millis <- MCMillis
    MaxStall = 0
    MaxBack = 2
INVARIANT
    CountExact
