SPECIFICATION FairSpec
CONSTANTS
    Readers = {r1, r2}
    d1 = d1
    d2 = d2
    n1 = n1
    n2 = n2
    Docs = {d1, d2}
    NamesOf <- MCNamesOf
    None = None
    Unusable = {}
    MaxConsidered = 1
    Limit = 1
    WriterFaults = TRUE
    MaxRequests = 2
INVARIANTS PoolFollowsIndex DeletedNeverSuggested
PROPERTIES MinedOncePerVersion NobodyWaitsForever
CHECK_DEADLOCK FALSE
