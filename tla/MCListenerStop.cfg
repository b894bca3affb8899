SPECIFICATION FairSpec
CHECK_DEADLOCK FALSE
CONSTANTS
    c1 = c1
    c2 = c2
    Clients <- MCClients
    Modes <- MCModes
    MaxFd = 3
    AppFiles = 2
    BindTries = 1
    MaxStarts = 1
PROPERTIES
    StopAlwaysEnds
