\* A stop leaves the session cancelling for ever.
SPECIFICATION FairSpec
CONSTANTS
    c1 = c1
    NoEdit = NoEdit
    Conns = {c1}
    EditScopes = {}
    MaxMsgs = 1
    MaxMainLoopIterations = 1
    MaxToolCalls = 1
    DbMayFail = FALSE
PROPERTIES
    StopEventuallyIdle
