SPECIFICATION FairLifecycleSpec
CONSTANTS
    Key = {a}
    Writer = {w}
    PoolMax = 2
    Initializer = {k, api}
    Controller = {k}
    GiveUp = 2
    MaxFaults = 2
INVARIANT LifecycleTypeOK
PROPERTY ReadyKeepsFolder
PROPERTY ServedInTheEnd
PROPERTY TerminatedIsCollected
CHECK_DEADLOCK FALSE
