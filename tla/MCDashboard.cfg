SPECIFICATION FairSpec
CONSTANTS
    Files <- MCFiles
    Content <- MCContent
    Tests = {t1, t2}
    MaxPicks = 3
    None = None
INVARIANTS
    TypeOK
    SettledIsTheFile
    FreeButtonIsIdle
    ListIsOfTheLatest
PROPERTIES
    ButtonComesBack
CHECK_DEADLOCK FALSE
