SPECIFICATION FairSpec
CONSTANTS
    Deployment = {1, 2, 3}
    Poison = {3}
    Relay = {r1, r2}
    Consumer = {c1, c2}
    Batch = 2
    ReadCount = 2
    MaxLen = 2
    MaxFaults = 2
INVARIANT TypeOK
INVARIANT NoLostDeploy
INVARIANT DuplicatesNeedFaults
PROPERTY SettlesWhatWasRecorded
PROPERTY EveryDeploySettles
CHECK_DEADLOCK FALSE
