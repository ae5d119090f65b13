---------------------------- MODULE BackupBrowser ----------------------------
(***************************************************************************)
(* The file browser of the backups tab, on top of BackupStore: the         *)
(* directory it is in and the listing it shows (BackupViewModel's          *)
(* currentDirectory and directoryContents), while backups are made,        *)
(* extracted and deleted.                                                  *)
(*                                                                         *)
(* URLs are places: the directories of the archived container, with        *)
(* `extracted' as their root, the backup's own directory above it, the     *)
(* directory of the backups, and whatever is around that.  goBack compares *)
(* URLs by their spelling, and those of a directory listing need not be    *)
(* spelled like the URL that was listed: on a device they begin with       *)
(* /private/var, and the ones the comparison is with with /var.            *)
(***************************************************************************)
EXTENDS BackupStore

CONSTANTS
    Nodes,      \* the files and directories of the archive
    Folders,    \* those that are directories
    Root,       \* <backup>/extracted
    Parent,     \* the directory a node is in
    BackupDir,  \* <backup>, which holds `extracted', the archive, the metadata
    Backups,    \* the directory of all the backups
    Elsewhere,  \* the other backups in it, and everything around it
    NoPlace

ASSUME TreeAssumption ==
    /\ Folders \subseteq Nodes
    /\ Parent \in [Nodes -> Folders \cup {Root}]
ASSUME PlaceAssumption ==
    /\ Root \notin Nodes
    /\ BackupDir \notin Nodes \cup {Root}
    /\ Backups \notin Nodes \cup {Root, BackupDir}
    /\ Elsewhere \notin Nodes \cup {Root, BackupDir, Backups}
    /\ NoPlace \notin Nodes \cup {Root, BackupDir, Backups, Elsewhere}

VARIABLES
    there,    \* the nodes that are on the disk in `extracted', while it is shown
    cwd,      \* currentDirectory
    alike,    \* whether it is spelled like backupsDirectoryURL
    listing   \* directoryContents; outside `extracted', the directories of it

browser == <<there, cwd, alike, listing>>
allVars == <<vars, browser>>

\* The directories that belong to the backup, and all that can be listed.
Inside == Folders \cup {Root, BackupDir}
Places == Inside \cup {Backups, Elsewhere}

BrowserTypeOK ==
    /\ there \in SUBSET Nodes
    /\ cwd \in Places \cup {NoPlace}
    /\ alike \in BOOLEAN
    /\ listing \in SUBSET (Nodes \cup Places)

BrowserInit ==
    Init /\ there = {} /\ cwd = NoPlace /\ alike = TRUE /\ listing = {}

\* What an extraction can have left: an entry comes with the directories it is
\* in.  Nothing changes it while it is shown: what is selected is not deleted.
Unpacked(d) ==
    IF exWhole[d] # NoRun THEN {Nodes}
    ELSE {S \in SUBSET Nodes : \A n \in S : Parent[n] \in S \cup {Root}}

\* contentsOfDirectory; what cannot be read is shown as empty.
Contents(p, S) ==
    CASE p = BackupDir -> {{Root}}
      [] p = Backups   -> {{BackupDir}, {BackupDir, Elsewhere}}
      [] p = Elsewhere -> SUBSET {Backups, Elsewhere}
      [] OTHER         -> {{n \in S : Parent[n] = p}}

LoadContents(p) ==
    /\ cwd' = p
    /\ listing' \in Contents(p, there')

\* The block of selectBackup that opens the browser, at a URL that is made
\* from backupsDirectoryURL.
Open ==
    /\ ShowExtracted
    /\ there' \in Unpacked(selected)
    /\ alike' = TRUE
    /\ LoadContents(Root)

\* A variant that TLC must refuse: the row of a file can be tapped as well.
EnterAnything(p) ==
    /\ MainThreadIsFree
    /\ shown # NoDir
    /\ there' = there
    /\ \E q \in listing : (q = p \/ q \notin Places) /\ LoadContents(q)
    /\ alike' \in {alike, FALSE}
    /\ UNCHANGED vars

\* enterDirectory, for a directory of the listing that is tapped; its URL is
\* the one contentsOfDirectory has made.
EnterDirectory(p) ==
    /\ MainThreadIsFree
    /\ shown # NoDir
    /\ p \in listing
    /\ there' = there
    /\ alike' \in {alike, FALSE}
    /\ LoadContents(p)
    /\ UNCHANGED vars

\* The browser closes.
Closed == there' = {} /\ cwd' = NoPlace /\ alike' = TRUE /\ listing' = {}

\* clearExtraction
ClearExtraction == Leave /\ Closed

\* deletingLastPathComponent, which keeps the spelling.
Above(p) ==
    CASE p = Root      -> {BackupDir}
      [] p = BackupDir -> {Backups}
      [] p = Backups   -> {Elsewhere}
      [] p = Elsewhere -> {Backups, Elsewhere}
      [] OTHER         -> {Parent[p]}

\* A variant that TLC must refuse: goBack without loadContents.
GoBackKeepsListing ==
    /\ MainThreadIsFree
    /\ cwd # NoPlace
    /\ \E p \in Above(cwd) :
           IF alike /\ p \in {Root, Backups}
             THEN ClearExtraction
             ELSE cwd' = p /\ UNCHANGED <<vars, there, alike, listing>>

\* goBack: one level up, but out of the browser from the backup's own
\* directory, and also from a directory that is directly in `extracted', if
\* the URL is spelled like the ones it is compared with.
GoBack ==
    /\ MainThreadIsFree
    /\ cwd # NoPlace
    /\ \E p \in Above(cwd) :
           IF alike /\ p \in {Root, Backups}
             THEN ClearExtraction
             ELSE UNCHANGED <<vars, there, alike>> /\ LoadContents(p)

\* The button of the error view.
LeaveError == ext = "error" /\ ClearExtraction

Restart == Kill /\ Closed

\* The steps of BackupStore that the browser does not see.
Unseen ==
    \/ \E r \in Runs : Start(r) \/ BackupStep(r)
    \/ CheckExtracted \/ OpenZip \/ CopyEntries \/ ExtractFails \/ ShowError
    \/ DeleteStep
    \/ Appear
    \/ \E e \in list : Select(e) \/ Delete(e)
    \/ \E s \in Seconds : Tick(s)

BrowserNext ==
    \/ Unseen /\ UNCHANGED browser
    \/ Open
    \/ \E p \in Places : EnterDirectory(p)
    \/ GoBack \/ LeaveError
    \/ Restart

BrowserSpec == BrowserInit /\ [][BrowserNext]_allVars

\* Tasks are scheduled, awaits on the device end, and removeItem returns.  What
\* is queued for the main thread is served in turn, however often the user
\* makes it do something else: hence strong fairness.  The user need not do
\* anything.
BrowserFairness ==
    /\ \A r \in Runs :
           /\ WF_allVars(BackupStep(r) /\ UNCHANGED browser)
           /\ SF_allVars(Report(r) /\ UNCHANGED browser)
    /\ WF_allVars((ExtractStep /\ ~ShowExtracted /\ UNCHANGED browser) \/ Open)
    /\ SF_allVars((ShowError /\ UNCHANGED browser) \/ Open)
    /\ WF_allVars(DeleteStep /\ UNCHANGED browser)

FairBrowserSpec == BrowserSpec /\ BrowserFairness

-----------------------------------------------------------------------------
(* Properties *)

\* Whatever is extracted, deleted, killed or shown again: the browser is open
\* exactly while a backup is shown, it is inside that backup as long as its URL
\* is spelled like the backups directory, lists what is in the directory it
\* names and nothing of an earlier one, and when the backup's extraction never
\* broke off, every file of it is there to be found
\* (BackupViewModel.swift:39-51, 84-127, BackupEngine.swift:55-66).
BrowserShowsBackup ==
    /\ shown # NoDir <=> cwd # NoPlace
    /\ shown # NoDir => shown = selected /\ shown \in extracted
    /\ alike /\ cwd # NoPlace => cwd \in Inside
    /\ cwd \in Folders \cup {Root} =>
           /\ \A n \in listing : Parent[n] = cwd
           /\ (/\ shown \notin exBroken \cup deleteTried
               /\ \E r \in Runs : uses[shown] = {r})
              => listing = {n \in Nodes : Parent[n] = cwd}
=============================================================================
