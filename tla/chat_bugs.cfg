SPECIFICATION Spec
CONSTANTS
    Requests = {r1, r2}
    Conversations = {c1, c2}
    None = None
    Window = 3
    Imported = 2
    MaxOps = 4
    MaxRestarts = 1
INVARIANT ListedByActivity
PROPERTY UpdatedOnlyGrows
CHECK_DEADLOCK FALSE
