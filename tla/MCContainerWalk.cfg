SPECIFICATION FairSpec
CONSTANTS
    Paths <- MCPaths
    Size <- MCSize
    MaxDenied = 1
    MaxChanges = 2
INVARIANTS
    TypeOK
    ArchiveIsATree
    StableIsArchived
    SizesAddUp
PROPERTIES
    KeepsTheJob
    WalkEnds
CHECK_DEADLOCK FALSE
