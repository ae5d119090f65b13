SPECIFICATION Spec
CONSTANTS
    Files <- MCFiles
    Content <- MCContent
    Tests = {t1}
    MaxPicks = 1
    None = None
INVARIANTS
    MissingKeysAreReported
CHECK_DEADLOCK FALSE
