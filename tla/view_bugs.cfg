SPECIFICATION Spec
CONSTANTS
    Conversations = {v1, v2}
    None = None
    MaxAsks = 2
INVARIANTS StreamIsOfShown AlwaysShownIsStored
CHECK_DEADLOCK FALSE
