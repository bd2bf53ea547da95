SPECIFICATION AccessSpec
CONSTANTS
    Process = {p1, p2}
    Socket = {s1, s2}
    Ticket = {t}
    CacheTTL = 1
    TicketTTL = 1
    MaxSeconds = 1
    MaxPerUser = 1
    Prompt = 1
    MaxFaults = 1
SYMMETRY Symmetry
INVARIANT AccessTypeOK
INVARIANT StaleIsBounded
INVARIANT EvictedMeansFresh
INVARIANT SignedOutAtLast
INVARIANT CapHolds
