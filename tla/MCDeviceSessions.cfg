SPECIFICATION FairSessionsSpec
CONSTANTS
    Callers = {c1, c2}
    Files = {f1}
    Tunnels = {t1, t2}
    NoCaller = NoCaller
    NoFile = NoFile
    NoTunnel = NoTunnel
    MaxCalls = 3
    MaxSessions = 2
INVARIANTS
    SessionsTypeOK
    ImageIsMountedOnce
    StagedIsWhole
    HaltedIsReported
PROPERTIES
    EveryCallAnswers
CHECK_DEADLOCK FALSE
