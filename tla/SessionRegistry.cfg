\* A connection and a deletion around a restart of the server.
SPECIFICATION Spec
CONSTANTS
    Conns = {c}
    Readers = {}
    Deleters = {d}
    Cleaners = {}
    MaxObjs = 2
    MaxRuns = 2
    MaxCrashes = 1
    MaxAges = 0
INVARIANTS
    
    EngineHoldsSlot
PROPERTIES
    DeletedRunsStayDeleted
