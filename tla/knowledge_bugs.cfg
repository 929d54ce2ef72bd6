SPECIFICATION Spec
CONSTANTS
    d1 = d1
    d2 = d2
    d3 = d3
    group = group
    Docs = {d1, d2, d3}
    Questions = {q}
    Labels = {seed, group}
    Seed = seed
    LabelsOf <- MCLabelsOf
    Related <- MCRelated
    Similar <- MCSimilar
    Newer <- MCNewer
    RowLimit = 2
    EdgeLimit = 2
    MayFail = {}
    MaxUploads = 3
    MaxAtOnce = 2
    MaxRestarts = 1
INVARIANTS DuplicatesMarked GraphComplete AlwaysLinked
CHECK_DEADLOCK FALSE
