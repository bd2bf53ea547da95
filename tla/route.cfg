SPECIFICATION FairReleaseSpec
CONSTANTS
    Deployment = {1, 2}
    Request = {}
    Controller = {k}
    KeepReleases = 1
    HasVanity = TRUE
    Flaky = {}
    MaxCuts = 1
PROPERTY RouteFollowsLive
CHECK_DEADLOCK FALSE
