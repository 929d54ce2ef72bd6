SPECIFICATION Spec
CONSTANTS
    Writers = {t1}
    Askers = {t1}
    Docs = {d1, d2}
    Nobody = Nobody
    Live = Live
    Missing = Missing
    Torn = Torn
    DiskFaults = FALSE
    MaxRestarts = 1
    MaxRepairs = 2
INVARIANTS StartsAgain
CHECK_DEADLOCK FALSE
