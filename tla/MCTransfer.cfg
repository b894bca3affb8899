SPECIFICATION FairSpec
CONSTANTS
    UINT = 8
    BufLens <- MCBufLens
    Millis <- MCMillis
    MaxStall = 1
INVARIANTS
    TypeOK
    CountExact
    Prompt
PROPERTIES
    TransferContract
    DisconnectIsFinal
    CallReturns
    CallAdvances
