SPECIFICATION FairSpec
CONSTANTS
    Clients = {c1, c2}
    Devices = {d1}
    Monitors = {m1, m2}
    NoMonitor = NoMonitor
    Overlap = FALSE
    MaxSubs = 3
    MaxEvents = 3
INVARIANTS
    TypeOK
    OneMonitor
    QuietIsInformed
    JoinedEnds
PROPERTIES
    KeepsTheFeed
    AttachIsTold
    UnsubscribeReturns
CHECK_DEADLOCK FALSE
