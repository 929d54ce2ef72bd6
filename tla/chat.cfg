SPECIFICATION FairSpec
CONSTANTS
    Requests = {r1, r2}
    Conversations = {c1}
    None = None
    Window = 3
    Imported = 2
    MaxOps = 4
    MaxRestarts = 1
INVARIANTS TurnOrder UnansweredExplained ContextIsEarlier
PROPERTIES UserTitleKept TitledInTheEnd
CHECK_DEADLOCK FALSE
