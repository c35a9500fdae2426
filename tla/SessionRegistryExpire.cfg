\* Clean-up by age against a connection and a request that open the session again,
\* around a restart of the server.
SPECIFICATION FairSpec
CONSTANTS
    Conns = {c}
    Readers = {q}
    Deleters = {}
    Cleaners = {k}
    MaxObjs = 2
    MaxRuns = 2
    MaxCrashes = 1
    MaxAges = 1
INVARIANTS LiveHasRow ReportReadable
PROPERTIES RecoveryComplete DeletionEnds
