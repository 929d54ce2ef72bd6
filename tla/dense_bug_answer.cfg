SPECIFICATION Spec
CONSTANTS
    Writers = {w1}
    Readers = {r1}
    Docs = {d1, d2}
    Null = Null
INVARIANTS AnswerAlwaysMatches
CHECK_DEADLOCK FALSE
