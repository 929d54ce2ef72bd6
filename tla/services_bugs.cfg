SPECIFICATION ServicesSpec
CONSTANTS
    Requests = {q1, q2, q3}
    Boot = boot
    NoOne = NoOne
    Wirings = 2
    DatabaseUp = TRUE
    MayFail = TRUE
    MaxBuilds = 4
    metadata = metadata
    keyword = keyword
    graph = graph
    Workers = {metadata, keyword, graph, topic}
    PoolSize = 2
    NoResult = NoResult
    Graphs <- MCGraphs
    Calls = {c1, c2}
    MaxLogins = 2
    MaxTicks = 2
INVARIANTS EngineOnSharedStore AlwaysOneLogin
CHECK_DEADLOCK FALSE
