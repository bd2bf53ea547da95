SPECIFICATION FairLifecycleSpec
CONSTANTS
    Key = {a}
    Writer = {}
    PoolMax = 2
    Initializer = {k}
    Controller = {k}
    GiveUp = 3
    MaxFaults = 0
PROPERTY DeletedIsTerminated
CHECK_DEADLOCK FALSE
