SPECIFICATION Spec
CONSTANTS
    Callers = {c1, c2, c3}
    Files = {f1, f2}
    Tunnels = {t1, t2, t3}
    NoCaller = NoCaller
    NoFile = NoFile
    NoTunnel = NoTunnel
    MaxCalls = 2
SYMMETRY Symmetry
INVARIANTS
    TypeOK
    OneConnection
PROPERTIES
    KeepsPromise
