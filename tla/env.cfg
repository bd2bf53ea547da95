SPECIFICATION FairEnvSpec
CONSTANTS
    Key = {a, b}
    Writer = {w1, w2}
    PoolMax = 2
    Initializer = {i}
INVARIANT EnvTypeOK
PROPERTY SaveKeepsOthers
PROPERTY EveryWriteEnds
CHECK_DEADLOCK FALSE
