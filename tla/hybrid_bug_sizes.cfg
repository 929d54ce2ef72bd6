SPECIFICATION Spec
CONSTANTS
    Writers = {w1}
    Askers = {q1}
    Docs = {d1, d2}
    Nobody = Nobody
    Live = Live
    Missing = Missing
    Torn = Torn
    DiskFaults = FALSE
    MaxRestarts = 0
    MaxRepairs = 2
INVARIANTS DivergenceAlwaysShows
CHECK_DEADLOCK FALSE
