\* Two senders, a channel of one and one overflow slot.
SPECIFICATION FairSpec
CONSTANTS
    s1 = s1
    s2 = s2
    Senders = {s1, s2}
    MaxEvents = 2
    QueueCap = 1
    MaxOverflow = 1
INVARIANTS
    IInv
    QueuedInOrder
PROPERTIES
    QueuedIsWritten
    ShutdownReturns
CHECK_DEADLOCK FALSE
