SPECIFICATION FairBuildsSpec
CONSTANTS
    Deployment = {1, 2}
    Request = {}
    Handler = {h1, h2}
    Malformed = {}
    Nixpacks = {}
    MaxFaults = 1
PROPERTY EveryMessageSettles
PROPERTY EveryDeployEnds
CHECK_DEADLOCK FALSE
