\* Liveness under weak fairness of handlers and engines, the database failing at will.
SPECIFICATION FairSpec
CONSTANTS
    c1 = c1
    c2 = c2
    NoEdit = NoEdit
    Conns = {c1, c2}
    EditScopes = {}
    MaxMsgs = 2
    MaxMainLoopIterations = 2
    MaxToolCalls = 1
    DbMayFail = TRUE
INVARIANTS
    IInv
PROPERTIES
    RunResolves
