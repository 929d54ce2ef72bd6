SPECIFICATION IndexesSpec
CONSTANTS
    Writers = {w1}
    Readers = {r1}
    Crew = {c1, c2}
    Askers = {q1}
    Docs = {d1, d2, d3}
    HybridDocs = {e1, e2}
    Null = Null
    Live = Live
    Missing = Missing
    Torn = Torn
    DiskFaults = TRUE
    MaxRestarts = 1
    MaxRepairs = 2
SYMMETRY Symmetry
INVARIANTS ListsAgree SearchSound OverlapLosesNothing InSync LoneQuestionRepairs FileIsCurrent
PROPERTY ImplementsChunkIndex
CHECK_DEADLOCK FALSE
