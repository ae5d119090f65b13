SPECIFICATION Spec
CONSTANTS
    Bundles = {b1}
    Seconds = {s1}
    Runs = {r1}
    NoRun = NoRun
    NoDir = NoDir
INVARIANTS
    ShownIsExtracted
