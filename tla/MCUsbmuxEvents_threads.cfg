SPECIFICATION Spec
CONSTANTS
    Clients = {c1, c2}
    Devices = {d1}
    Monitors = {m1, m2}
    NoMonitor = NoMonitor
    Overlap = TRUE
    MaxSubs = 2
    MaxEvents = 0
INVARIANTS
    SubscribersAreServed
CHECK_DEADLOCK FALSE
