SPECIFICATION Spec
CONSTANTS
    Users = {root, ann}
    Supers = {root}
    Requests = {r1}
    None = None
INVARIANTS NoLockout
CHECK_DEADLOCK FALSE
