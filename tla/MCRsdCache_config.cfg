SPECIFICATION Spec
CONSTANTS
    Callers = {c1}
    Files = {f1, f2}
    Tunnels = {t1}
    NoCaller = NoCaller
    NoFile = NoFile
    NoTunnel = NoTunnel
    MaxCalls = 1
INVARIANTS
    ConfiguredFileIsUsed
