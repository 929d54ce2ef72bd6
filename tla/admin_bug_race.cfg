SPECIFICATION Spec
CONSTANTS
    Users = {ann, bob}
    Supers = {}
    Requests = {r1, r2}
    None = None
INVARIANTS AdministratorRemains
CHECK_DEADLOCK FALSE
