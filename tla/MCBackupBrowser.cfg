SPECIFICATION FairBrowserSpec
CONSTANTS
    Bundles = {b1}
    Seconds = {s1}
    Runs = {r1, r2}
    NoRun = NoRun
    NoDir = NoDir
    Nodes <- TreeNodes
    Folders <- TreeFolders
    Root = "extracted"
    Parent <- TreeParent
    BackupDir = "backup"
    Backups = "Backups"
    Elsewhere = "elsewhere"
    NoPlace = "none"
INVARIANTS
    BrowserTypeOK
    BrowserShowsBackup
PROPERTIES
    BackupEnds
    SelectionIsAnswered
