SPECIFICATION Spec
CONSTANTS
    Requests = {r1, r2}
    MaxDocs = 2
    Names = {n1, n2}
    Sums = {c1, c2}
    None = None
    Operations = {"upload", "delete"}
    FailureKinds = {"failed", "failed_indexing"}
    DatabaseFaults = FALSE
    MaxRestarts = 0
    BootLimit = 2
INVARIANT DeletedIsUnsearchable
CHECK_DEADLOCK FALSE
