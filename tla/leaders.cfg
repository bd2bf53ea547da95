SPECIFICATION LeaseSpec
CONSTANTS
    Process = {p1, p2}
    Nobody = Nobody
    NoLease = NoLease
    Lease = 3
    Renew = 1
    Slow = 2
    MaxFaults = 0
INVARIANT OneLeader
