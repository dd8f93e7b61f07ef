SPECIFICATION FairClientSpec
CONSTANTS
    None = None
    Connections = {c1, c2}
    e1 = e1
    e2 = e2
    Events <- MCEvents
    Histories <- MCHistories
    QueueSize = 2
    MaxMessages = 3
INVARIANTS TypeOK ClientTypeOK KeepsNewest NoOrphanSender ViewCurrent
PROPERTIES ImplementsStream HandlersEnd ViewCatchesUp
CHECK_DEADLOCK FALSE
