SPECIFICATION Spec
CONSTANTS
    Requests = {r1, r2, r3}
    MaxDocs = 2
    Names = {n1}
    Sums = {c1, c2}
    None = None
    Operations = {"upload", "delete", "retry"}
    FailureKinds = {"failed"}
    DatabaseFaults = TRUE
    MaxRestarts = 1
    BootLimit = 1
SYMMETRY Symmetry
INVARIANTS UniqueContent IndexedHasFile RetryFindsNoContent DeletedIsGone SearchableIsIndexed
PROPERTY StaysDeleted
CHECK_DEADLOCK FALSE
