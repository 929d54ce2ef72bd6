SPECIFICATION Spec
CONSTANTS
    Conversations = {v1, v2}
    None = None
    MaxAsks = 1
INVARIANT QuestionIsHandedOver
CHECK_DEADLOCK FALSE
