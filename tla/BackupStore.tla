----------------------------- MODULE BackupStore -----------------------------
(***************************************************************************)
(* The backups on disk: how one is made (BackupEngine.backupApp, which     *)
(* calls try_backup in the Rust bridge), listed, extracted for browsing    *)
(* (ensureExtracted and try_extract) and deleted, with the application     *)
(* killed at any moment.                                                   *)
(*                                                                         *)
(* A backup lives in a directory named after the bundle and the second it  *)
(* was started in.  It holds the archive, metadata.json, which is written  *)
(* last and makes the backup appear in the list, and later `extracted'.    *)
(* The archive is written by the task of the dashboard, `extracted' by the *)
(* task of the browser, and the deletion runs on the main thread.          *)
(***************************************************************************)
CONSTANTS
    Bundles,    \* applications
    Seconds,    \* values of the clock, as the time stamp shows them (a bound)
    Runs,       \* backups that are started (a bound)
    NoRun, NoDir

ASSUME RunAssumption == NoRun \notin Runs
ASSUME DirAssumption == NoDir \notin Bundles \X Seconds

\* relPath: bundle identifier and time stamp.
Dirs == Bundles \X Seconds

VARIABLES
    \* the disk
    dirs,        \* directories that exist
    zips,        \* those with a file <bundle>.zip
    whole,       \* the run whose archive is complete there, else NoRun
    partial,     \* those whose archive opens although its run gave it up
    meta,        \* the run a readable metadata.json describes, else NoRun
    extracted,   \* those with a directory `extracted'
    exWhole,     \* the run whose files are all in it, else NoRun
    \* the tasks that make backups
    pc, bundleOf, dirOf, outcome,
    isBackingUp, \* DashboardViewModel.isBackingUp
    \* the backups tab
    list,        \* BackupViewModel.backups: directory and run of each row
    selected,    \* the directory of selectedBackup, NoDir if nil
    ext,         \* where the extraction is; "error" shows extractError
    exSrc,       \* the run whose archive the extraction has opened
    shown,       \* the directory whose files the browser shows
    deleting,    \* the directory removeItem is working on
    \* the world, and what has happened
    now,         \* the second the clock shows
    uses,        \* the runs that were given a directory
    deleteTried, \* directories the user has asked to delete
    exBroken     \* directories in which an extraction stopped half-way

disk    == <<dirs, zips, whole, partial, meta, extracted, exWhole>>
tasks   == <<pc, bundleOf, dirOf, outcome, isBackingUp>>
tab     == <<list, selected, ext, exSrc, shown, deleting>>
history == <<uses, deleteTried, exBroken>>
vars    == <<dirs, zips, whole, partial, meta, extracted, exWhole,
             pc, bundleOf, dirOf, outcome, isBackingUp,
             list, selected, ext, exSrc, shown, deleting,
             now, uses, deleteTried, exBroken>>

\* A task between performBackup and the report of its result.
Live == {"mkdir", "vend", "create", "walk", "meta", "metaWrite",
         "saved", "failed"}
\* The points at which it can still throw.
Working == Live \ {"saved", "failed"}
Extracting == {"check", "open", "copy", "ok", "err"}

TypeOK ==
    /\ dirs \in SUBSET Dirs
    /\ zips \in SUBSET Dirs
    /\ extracted \in SUBSET Dirs
    /\ whole \in [Dirs -> Runs \cup {NoRun}]
    /\ partial \in SUBSET Dirs
    /\ meta \in [Dirs -> Runs \cup {NoRun}]
    /\ exWhole \in [Dirs -> Runs \cup {NoRun}]
    /\ pc \in [Runs -> Live \cup {"new", "done", "dead"}]
    /\ bundleOf \in [Runs -> Bundles]
    /\ dirOf \in [Runs -> Dirs \cup {NoDir}]
    /\ outcome \in [Runs -> {"none", "ok", "error"}]
    /\ isBackingUp \in BOOLEAN
    /\ list \in SUBSET [dir : Dirs, run : Runs]
    /\ selected \in Dirs \cup {NoDir}
    /\ ext \in Extracting \cup {"idle", "error"}
    /\ exSrc \in Runs \cup {NoRun}
    /\ shown \in Dirs \cup {NoDir}
    /\ deleting \in Dirs \cup {NoDir}
    /\ now \in Seconds
    /\ uses \in [Dirs -> SUBSET Runs]
    /\ deleteTried \in SUBSET Dirs
    /\ exBroken \in SUBSET Dirs

Init ==
    /\ dirs = {} /\ zips = {} /\ partial = {} /\ extracted = {}
    /\ whole = [d \in Dirs |-> NoRun]
    /\ meta = [d \in Dirs |-> NoRun]
    /\ exWhole = [d \in Dirs |-> NoRun]
    /\ pc = [r \in Runs |-> "new"]
    /\ bundleOf \in [Runs -> Bundles]
    /\ dirOf = [r \in Runs |-> NoDir]
    /\ outcome = [r \in Runs |-> "none"]
    /\ isBackingUp = FALSE
    /\ list = {}
    /\ selected = NoDir /\ shown = NoDir /\ deleting = NoDir
    /\ ext = "idle" /\ exSrc = NoRun
    /\ now \in Seconds
    /\ uses = [d \in Dirs |-> {}]
    /\ deleteTried = {} /\ exBroken = {}

Goto(r, p) == pc' = [pc EXCEPT ![r] = p]

\* removeItem is called on the main thread, which does nothing else meanwhile.
MainThreadIsFree == deleting = NoDir

-----------------------------------------------------------------------------
(* Making a backup: run r *)

\* A variant that TLC must refuse: without the guard !isBackingUp.
StartUnguarded(r) ==
    /\ MainThreadIsFree
    /\ pc[r] = "new"
    /\ isBackingUp' = TRUE
    /\ Goto(r, "mkdir")
    /\ UNCHANGED <<disk, bundleOf, dirOf, outcome, tab, now, history>>

\* performBackup, for the bundle of the tapped row.  (Which bundle run r is
\* for is chosen at the start of the behaviour.)
Start(r) ==
    /\ MainThreadIsFree
    /\ ~isBackingUp
    /\ pc[r] = "new"
    /\ isBackingUp' = TRUE
    /\ Goto(r, "mkdir")
    /\ UNCHANGED <<disk, bundleOf, dirOf, outcome, tab, now, history>>

\* The time stamp is taken and the directory is made, or found: it may exist.
MakeDir(r) ==
    /\ pc[r] = "mkdir"
    /\ LET d == <<bundleOf[r], now>>
       IN  /\ dirOf' = [dirOf EXCEPT ![r] = d]
           /\ dirs' = dirs \cup {d}
           /\ uses' = [uses EXCEPT ![d] = @ \cup {r}]
    /\ Goto(r, "vend")
    /\ UNCHANGED <<zips, whole, partial, meta, extracted, exWhole, bundleOf,
                   outcome, isBackingUp, tab, now, deleteTried, exBroken>>

\* A variant that TLC must refuse: the metadata is written before the archive.
VendAfterMetadata(r) ==
    /\ pc[r] = "vend"
    /\ meta' = [meta EXCEPT ![dirOf[r]] = r]
    /\ Goto(r, "create")
    /\ UNCHANGED <<dirs, zips, whole, partial, extracted, exWhole, bundleOf,
                   dirOf, outcome, isBackingUp, tab, now, history>>

\* try_backup: house_arrest vends the container or the documents.
Vend(r) ==
    /\ pc[r] = "vend"
    /\ Goto(r, "create")
    /\ UNCHANGED <<disk, bundleOf, dirOf, outcome, isBackingUp, tab, now,
                   history>>

\* create_dir_all and File::create, which truncates what is there.
CreateZip(r) ==
    /\ pc[r] = "create"
    /\ dirs' = dirs \cup {dirOf[r]}
    /\ zips' = zips \cup {dirOf[r]}
    /\ whole' = [whole EXCEPT ![dirOf[r]] = NoRun]
    /\ partial' = partial \ {dirOf[r]}
    /\ Goto(r, "walk")
    /\ UNCHANGED <<meta, extracted, exWhole, bundleOf, dirOf, outcome,
                   isBackingUp, tab, now, history>>

\* The container has been walked and zip.finish() wrote the central directory.
\* If the file has been unlinked meanwhile nobody will find it.
FinishZip(r) ==
    /\ pc[r] = "walk"
    /\ whole' = IF dirOf[r] \in zips THEN [whole EXCEPT ![dirOf[r]] = r]
                                     ELSE whole
    /\ Goto(r, "meta")
    /\ UNCHANGED <<dirs, zips, partial, meta, extracted, exWhole, bundleOf,
                   dirOf, outcome, isBackingUp, tab, now, history>>

\* A variant that TLC must refuse: try? on the write.
BeginMetadataQuietly(r) ==
    /\ pc[r] = "meta"
    /\ \/ /\ meta' = [meta EXCEPT ![dirOf[r]] = NoRun]
          /\ Goto(r, "metaWrite")
       \/ meta' = meta /\ Goto(r, "saved")
    /\ UNCHANGED <<dirs, zips, whole, partial, extracted, exWhole, bundleOf,
                   dirOf, outcome, isBackingUp, tab, now, history>>

\* metaData.write(to:), which is not atomic: the file is opened and emptied,
\* which needs the directory ...
BeginMetadata(r) ==
    /\ pc[r] = "meta"
    /\ dirOf[r] \in dirs
    /\ meta' = [meta EXCEPT ![dirOf[r]] = NoRun]
    /\ Goto(r, "metaWrite")
    /\ UNCHANGED <<dirs, zips, whole, partial, extracted, exWhole, bundleOf,
                   dirOf, outcome, isBackingUp, tab, now, history>>

\* ... and filled.
EndMetadata(r) ==
    /\ pc[r] = "metaWrite"
    /\ meta' = IF dirOf[r] \in dirs THEN [meta EXCEPT ![dirOf[r]] = r]
                                    ELSE meta
    /\ Goto(r, "saved")
    /\ UNCHANGED <<dirs, zips, whole, partial, extracted, exWhole, bundleOf,
                   dirOf, outcome, isBackingUp, tab, now, history>>

\* A variant that TLC must refuse: unwrap() where the code returns the error.
FailPanics(r) ==
    /\ pc[r] \in Working
    /\ Goto(r, "panicked")
    /\ UNCHANGED <<disk, bundleOf, dirOf, outcome, isBackingUp, tab, now,
                   history>>

\* Any step can throw: no directory, no connection, no space, a container that
\* cannot be read.  What is on the disk stays there, and the ZipWriter that a
\* walk drops on its way out closes the archive if it still can.
Fail(r) ==
    /\ pc[r] \in Working
    /\ Goto(r, "failed")
    /\ \/ partial' = partial
       \/ /\ pc[r] = "walk" /\ dirOf[r] \in zips
          /\ partial' = partial \cup {dirOf[r]}
    /\ UNCHANGED <<dirs, zips, whole, meta, extracted, exWhole, bundleOf,
                   dirOf, outcome, isBackingUp, tab, now, history>>

\* A variant that TLC must refuse: the flag is not reset after an error.
ReportKeepsFlag(r) ==
    /\ MainThreadIsFree
    /\ \/ /\ pc[r] = "saved"
          /\ outcome' = [outcome EXCEPT ![r] = "ok"]
          /\ isBackingUp' = FALSE
       \/ /\ pc[r] = "failed"
          /\ outcome' = [outcome EXCEPT ![r] = "error"]
          /\ isBackingUp' = isBackingUp
    /\ Goto(r, "done")
    /\ UNCHANGED <<disk, bundleOf, dirOf, tab, now, history>>

\* MainActor.run after success, and after an error.
Report(r) ==
    /\ MainThreadIsFree
    /\ \/ pc[r] = "saved"  /\ outcome' = [outcome EXCEPT ![r] = "ok"]
       \/ pc[r] = "failed" /\ outcome' = [outcome EXCEPT ![r] = "error"]
    /\ isBackingUp' = FALSE
    /\ Goto(r, "done")
    /\ UNCHANGED <<disk, bundleOf, dirOf, tab, now, history>>

-----------------------------------------------------------------------------
(* The backups tab *)

\* loadBackups: the directories with a metadata.json that can be decoded.
Listable ==
    {e \in [dir : Dirs, run : Runs] : e.dir \in dirs /\ meta[e.dir] = e.run}

\* onAppear
Appear ==
    /\ MainThreadIsFree
    /\ list' = Listable
    /\ UNCHANGED <<disk, tasks, selected, ext, exSrc, shown, deleting, now,
                   history>>

\* selectBackup: a row can be tapped while the list is shown.
Select(e) ==
    /\ MainThreadIsFree
    /\ selected = NoDir
    /\ e \in list
    /\ selected' = e.dir
    /\ ext' = "check"
    /\ UNCHANGED <<disk, tasks, list, exSrc, shown, deleting, now, history>>

\* ensureExtracted: a directory `extracted' that exists is taken as it is.
CheckExtracted ==
    /\ ext = "check"
    /\ IF selected \in extracted
         THEN ext' = "ok" /\ UNCHANGED <<dirs, extracted>>
         ELSE /\ ext' = "open"
              /\ dirs' = dirs \cup {selected}
              /\ extracted' = extracted \cup {selected}
    /\ UNCHANGED <<zips, whole, partial, meta, exWhole, tasks, list,
                   selected, exSrc, shown, deleting, now, history>>

\* try_extract opens the archive; one without its central directory is refused.
\* What a failed walk has closed opens as well: it is the archive of no run.
OpenZip ==
    /\ ext = "open"
    /\ selected \in zips
    /\ whole[selected] # NoRun \/ selected \in partial
    /\ exSrc' = whole[selected]
    /\ ext' = "copy"
    /\ UNCHANGED <<disk, tasks, list, selected, shown, deleting, now, history>>

\* A variant that TLC must refuse: entries that fail are passed over.
CopyEntriesSkips ==
    /\ ext = "copy"
    /\ exWhole' \in {exWhole, [exWhole EXCEPT ![selected] = exSrc]}
    /\ ext' = "ok"
    /\ exSrc' = NoRun
    /\ UNCHANGED <<dirs, zips, whole, partial, meta, extracted, tasks, list,
                   selected, shown, deleting, now, history>>

\* Every entry has been written.  If another run has rewritten the archive
\* under it, the files are not those of any backup.
CopyEntries ==
    /\ ext = "copy"
    /\ exWhole' = [exWhole EXCEPT ![selected] =
                     IF whole[selected] = exSrc THEN exSrc ELSE NoRun]
    /\ ext' = "ok"
    /\ exSrc' = NoRun
    /\ UNCHANGED <<dirs, zips, whole, partial, meta, extracted, tasks, list,
                   selected, shown, deleting, now, history>>

\* An archive or an entry that cannot be read, a file that cannot be written.
ExtractFails ==
    /\ ext \in {"check", "open", "copy"}
    /\ ext = "check" => selected \notin extracted
    /\ ext' = "err"
    /\ exSrc' = NoRun
    /\ exBroken' = IF ext = "check" THEN exBroken ELSE exBroken \cup {selected}
    /\ UNCHANGED <<disk, tasks, list, selected, shown, deleting, now, uses,
                   deleteTried>>

\* MainActor.run: the browser opens, or the error is shown.
ShowExtracted ==
    /\ MainThreadIsFree
    /\ ext = "ok"
    /\ ext' = "idle"
    /\ shown' = selected
    /\ UNCHANGED <<disk, tasks, list, selected, exSrc, deleting, now, history>>

\* A variant that TLC must refuse: isExtracting is not reset after an error.
ShowErrorKeepsSpinner ==
    /\ MainThreadIsFree
    /\ ext = "err"
    /\ UNCHANGED vars

ShowError ==
    /\ MainThreadIsFree
    /\ ext = "err"
    /\ ext' = "error"
    /\ UNCHANGED <<disk, tasks, list, selected, exSrc, shown, deleting, now,
                   history>>

\* clearExtraction, from the error view or out of the browser.
Leave ==
    /\ MainThreadIsFree
    /\ ext = "error" \/ shown # NoDir
    /\ ext' = "idle"
    /\ selected' = NoDir
    /\ shown' = NoDir
    /\ UNCHANGED <<disk, tasks, list, exSrc, deleting, now, history>>

\* deleteBackup, confirmed for a row of the list.  The list is shown while
\* nothing is selected, so clearExtraction has nothing to do.
Delete(e) ==
    /\ MainThreadIsFree
    /\ selected = NoDir
    /\ e \in list
    /\ deleting' = e.dir
    /\ deleteTried' = deleteTried \cup {e.dir}
    /\ UNCHANGED <<disk, tasks, list, selected, ext, exSrc, shown, now, uses,
                   exBroken>>

\* removeItem removes one thing after the other, in no particular order.
RemoveZip ==
    /\ deleting \in zips
    /\ zips' = zips \ {deleting}
    /\ whole' = [whole EXCEPT ![deleting] = NoRun]
    /\ partial' = partial \ {deleting}
    /\ UNCHANGED <<dirs, meta, extracted, exWhole, tasks, tab, now, history>>

RemoveMetadata ==
    /\ deleting # NoDir
    /\ meta[deleting] # NoRun
    /\ meta' = [meta EXCEPT ![deleting] = NoRun]
    /\ UNCHANGED <<dirs, zips, whole, partial, extracted, exWhole, tasks,
                   tab, now, history>>

\* `extracted' file by file, and then itself.
RemoveExtracted ==
    /\ deleting \in extracted
    /\ IF exWhole[deleting] # NoRun
         THEN /\ exWhole' = [exWhole EXCEPT ![deleting] = NoRun]
              /\ extracted' = extracted
         ELSE /\ extracted' = extracted \ {deleting}
              /\ exWhole' = exWhole
    /\ UNCHANGED <<dirs, zips, whole, partial, meta, tasks, tab, now, history>>

\* A variant that TLC must refuse: without loadBackups() at the end.
EndDeleteKeepsRows ==
    /\ deleting # NoDir
    /\ \/ /\ deleting \notin zips \cup extracted
          /\ meta[deleting] = NoRun
          /\ dirs' = dirs \ {deleting}
       \/ dirs' = dirs
    /\ deleting' = NoDir
    /\ UNCHANGED <<zips, whole, partial, meta, extracted, exWhole, tasks,
                   list, selected, ext, exSrc, shown, now, history>>

\* The empty directory goes, or something went wrong, which try? ignores: in
\* both cases the list is loaded again.
EndDelete ==
    /\ deleting # NoDir
    /\ \/ /\ deleting \notin zips \cup extracted
          /\ meta[deleting] = NoRun
          /\ dirs' = dirs \ {deleting}
       \/ dirs' = dirs
    /\ list' = {e \in Listable : e.dir \in dirs'}
    /\ deleting' = NoDir
    /\ UNCHANGED <<zips, whole, partial, meta, extracted, exWhole, tasks,
                   selected, ext, exSrc, shown, now, history>>

-----------------------------------------------------------------------------
(* The world *)

\* The clock is the wall clock: it can also be set back.
Tick(s) ==
    /\ now' = s
    /\ UNCHANGED <<disk, tasks, tab, history>>

\* The application is killed (by the system, the user, a crash) and launched
\* again: the disk is all that is left.
Kill ==
    /\ pc' = [r \in Runs |-> IF pc[r] \in Live THEN "dead" ELSE pc[r]]
    /\ isBackingUp' = FALSE
    /\ list' = {}
    /\ selected' = NoDir /\ shown' = NoDir /\ deleting' = NoDir
    /\ ext' = "idle" /\ exSrc' = NoRun
    /\ exBroken' = IF ext \in {"open", "copy"} THEN exBroken \cup {selected}
                                               ELSE exBroken
    /\ UNCHANGED <<disk, bundleOf, dirOf, outcome, now, uses, deleteTried>>

BackupStep(r) ==
    \/ MakeDir(r) \/ Vend(r) \/ CreateZip(r) \/ FinishZip(r)
    \/ BeginMetadata(r) \/ EndMetadata(r) \/ Fail(r) \/ Report(r)

ExtractStep ==
    \/ CheckExtracted \/ OpenZip \/ CopyEntries \/ ExtractFails
    \/ ShowExtracted \/ ShowError

DeleteStep == RemoveZip \/ RemoveMetadata \/ RemoveExtracted \/ EndDelete

Next ==
    \/ \E r \in Runs : Start(r) \/ BackupStep(r)
    \/ ExtractStep
    \/ DeleteStep
    \/ Appear \/ Leave
    \/ \E e \in list : Select(e) \/ Delete(e)
    \/ \E s \in Seconds : Tick(s)
    \/ Kill

Spec == Init /\ [][Next]_vars

-----------------------------------------------------------------------------
(* Properties *)

\* The flag that performBackup reads and sets without a lock admits one task at
\* a time, whichever way the task before ended, and a killed application never
\* comes back with the flag up (DashboardViewModel.swift:76-77, 90, 97).
OneBackupAtATime ==
    /\ \A r, s \in Runs : pc[r] \in Live /\ pc[s] \in Live => r = s
    /\ isBackingUp <=> \E r \in Runs : pc[r] \in Live

\* A backup that can be listed has a complete archive, the one of the run that
\* metadata.json describes, whatever failed or was killed on the way: the
\* metadata is written last (BackupEngine.swift:26-50).  Two cases are left
\* out, and nothing in the code excludes them: a directory that a second run
\* got, in the same second of the clock, and one whose deletion was started.
OnlyUse(d, r) == uses[d] = {r} /\ d \notin deleteTried
ListedIsWhole ==
    \A d \in Dirs, r \in Runs :
        meta[d] = r /\ OnlyUse(d, r) => d \in zips /\ whole[d] = r

\* Nothing that happens later, extraction, other backups, a crash, touches
\* the archive or the metadata of a listed backup, with the same two
\* exceptions (BackupEngine.swift:20-22, backup.rs:47-54).
ListedIsImmutable ==
    [][\A d \in Dirs, r \in Runs :
          meta[d] = r /\ OnlyUse(d, r)' => meta'[d] = r /\ whole'[d] = whole[d]
      ]_vars

\* When the dashboard is about to announce success the backup can be listed
\* and its archive is the one just made, also in a directory that was used
\* before (BackupEngine.swift:30-52, DashboardViewModel.swift:84-93).
SuccessIsStored ==
    \A r \in Runs :
        pc[r] = "saved" /\ dirOf[r] \notin deleteTried =>
            /\ [dir |-> dirOf[r], run |-> r] \in Listable
            /\ dirOf[r] \in zips
            /\ whole[dirOf[r]] = r

\* A row of the list, which is a copy that is only refreshed now and then,
\* stands for a backup that exists, unless it is being deleted or its
\* directory has had a second run (BackupViewModel.swift:27-37, 129-136).
NoGhostRows ==
    \A e \in list :
        e.dir # deleting /\ uses[e.dir] = {e.run} => e \in Listable

\* An extraction that was never interrupted shows all the files of the backup
\* that was selected (BackupEngine.swift:55-66, backup.rs:137-169).
UnbrokenIsWhole ==
    shown # NoDir /\ shown \notin exBroken /\ shown \notin deleteTried =>
        \A r \in Runs : uses[shown] = {r} => exWhole[shown] = r

\* What the browser shows is the whole backup.  ensureExtracted says that it
\* ensures the extraction, and a failed one is reported as "Extraction Failed"
\* (BackupEngine.swift:55-66, BackupsView.swift:117-143).
ShownIsExtracted == shown # NoDir => exWhole[shown] # NoRun

\* The store as a shelf: a run is kept when the metadata describe it and its
\* archive is complete, in a directory it has for itself.
DirGivenUp(d, r) == d # NoDir /\ ~OnlyUse(d, r)
KeptRuns ==
    {r \in Runs : LET d == dirOf[r] IN
         /\ d # NoDir /\ OnlyUse(d, r)
         /\ [dir |-> d, run |-> r] \in Listable
         /\ d \in zips /\ whole[d] = r}
Shelf == INSTANCE BackupShelf
    WITH Backups   <- Runs,
         kept      <- KeptRuns,
         givenUp   <- {r \in Runs : DirGivenUp(dirOf[r], r)},
         announced <- {r \in Runs : outcome[r] = "ok"}

\* The store keeps the promise of BackupShelf: a backup becomes whole and
\* listed in one step, leaves that state only when its directory is used again
\* or deleted, and success is announced after it and not again, through every
\* failure, extraction and kill (BackupEngine.swift:17-66,
\* DashboardViewModel.swift:75-104, BackupViewModel.swift:129-136).
KeepsBackups == Shelf!Spec

\* A backup that was started ends, and the dashboard can start another one
\* (DashboardViewModel.swift:82-103).
BackupEnds == isBackingUp ~> ~isBackingUp

\* A tapped row leads to the files or to an error (BackupViewModel.swift:39-59).
SelectionIsAnswered == ext = "check" ~> ext \in {"idle", "error"}
=============================================================================
