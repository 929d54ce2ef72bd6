SPECIFICATION SafetySpec
CONSTANTS
    Users = {root, ann, bob}
    Supers = {root}
    Requests = {r1}
    None = None
    Callers = {c1, c2}
    MaxCalls = 2
    Window = 3
    MaxTime = 6
    Blocks <- MCBlocks
    MaxBlocks = 5
    Least = 80
    Preferred = 1200
    Soft = 1500
    Absolute = 1800
    MaxMerge = 2
    TableHead = 30
    Conversations = {v1, v2}
    MaxAsks = 2
SYMMETRY Symmetry
INVARIANTS AdministratorRemains Budget NothingLost HeadingKeepsText ShownIsStored
CHECK_DEADLOCK FALSE
