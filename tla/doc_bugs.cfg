SPECIFICATION Spec
CONSTANTS
    Requests = {r1}
    MaxDocs = 2
    Names = {n1, n2}
    Sums = {c1, c2}
    None = None
    Operations = {"upload", "delete", "retry"}
    FailureKinds = {"failed", "failed_indexing"}
    DatabaseFaults = FALSE
    MaxRestarts = 0
    BootLimit = 2
INVARIANTS DeletedHasNoFile RetryFindsContent
CHECK_DEADLOCK FALSE
