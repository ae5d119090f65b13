SPECIFICATION Spec
CONSTANTS
    Bundles = {b1, b2}
    Seconds = {s1, s2}
    Runs = {r1, r2}
    NoRun = NoRun
    NoDir = NoDir
SYMMETRY Symmetry
INVARIANTS
    TypeOK
    OneBackupAtATime
    ListedIsWhole
    NoGhostRows
    UnbrokenIsWhole
PROPERTIES
    KeepsBackups
