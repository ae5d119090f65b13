SPECIFICATION FairSpec
CONSTANTS
    Clients = {c1, c2}
    HostIds = {h1, h2}
    NoHost = NoHost
    MaxHandshakes = 2
    MaxResets = 1
INVARIANTS
    TypeOK
    SessionIsTrusted
PROPERTIES
    KeepsTheTrust
    HandshakeReturns
CHECK_DEADLOCK FALSE
