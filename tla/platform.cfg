SPECIFICATION PlatformSpec
CONSTANTS
    Deployment = {1, 2, 3}
    Request = {q}
    Handler = {h}
    Malformed = {}
    Nixpacks = {}
    MaxFaults = 1
    Controller = {k}
    KeepReleases = 1
    HasVanity = TRUE
    Flaky = {}
    MaxCuts = 1
CONSTRAINT OneDisruption
INVARIANT ReleaseTypeOK
INVARIANT GitIsPinned
INVARIANT RollbacksNeverBuild
INVARIANT RouteNeverGone
PROPERTY NotRebuiltWithoutFaults
PROPERTY FilesStayWithoutFaults
PROPERTY NoGapOnSwitch
CHECK_DEADLOCK FALSE
