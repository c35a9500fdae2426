\* Safety of one session: two connections, three messages.
SPECIFICATION Spec
CONSTANTS
    c1 = c1
    c2 = c2
    e1 = e1
    NoEdit = NoEdit
    Conns = {c1, c2}
    EditScopes = {e1}
    MaxMsgs = 3
    MaxMainLoopIterations = 1
    MaxToolCalls = 1
    DbMayFail = FALSE
SYMMETRY ConnSymmetry
INVARIANTS
    SingleOwner
    SuspensionRecorded
    NoGhostRunning
PROPERTIES
    KeepsOneSlot
