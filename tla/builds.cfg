SPECIFICATION MCSpec
CONSTANTS
    Deployment = {1, 2, 3}
    Request = {}
    Handler = {h1, h2}
    Malformed = {2}
    Nixpacks = {1}
    MaxFaults = 1
SYMMETRY Symmetry
INVARIANT BuildsTypeOK
INVARIANT OneActive
INVARIANT QueuedHasMessage
INVARIANT ReleasesArePinned
INVARIANT NoUnattendedBuild
CHECK_DEADLOCK FALSE
