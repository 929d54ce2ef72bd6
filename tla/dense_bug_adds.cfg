SPECIFICATION Spec
CONSTANTS
    Writers = {w1, w2}
    Readers = {}
    Docs = {d1, d2}
    Null = Null
INVARIANTS ListsAgree
CHECK_DEADLOCK FALSE
