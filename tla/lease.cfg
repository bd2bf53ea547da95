SPECIFICATION FairLeaseSpec
CONSTANTS
    Process = {p1, p2, p3}
    Nobody = Nobody
    NoLease = NoLease
    Lease = 3
    Renew = 1
    Slow = 2
    MaxFaults = 3
INVARIANT LeaseTypeOK
INVARIANT BriefOverlap
PROPERTY TakeoverAfterExpiry
PROPERTY SomeoneLeads
