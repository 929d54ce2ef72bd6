SPECIFICATION FairSpec
CONSTANTS
    Requests = {r1, r2}
    MaxDocs = 2
    Names = {n1}
    Sums = {c1}
    None = None
    Operations = {"upload", "delete"}
    FailureKinds = {"failed", "failed_indexing"}
    DatabaseFaults = FALSE
    MaxRestarts = 1
    BootLimit = 1
PROPERTY UploadsAndStartsEnd
CHECK_DEADLOCK FALSE
