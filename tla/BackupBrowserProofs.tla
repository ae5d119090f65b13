------------------------- MODULE BackupBrowserProofs -------------------------
(***************************************************************************)
(* Theorems about BackupBrowser, for any tree of files, applications,      *)
(* clock and number of backups.  What is proved of the store is carried    *)
(* over: the browser's specification implies the store's.                  *)
(***************************************************************************)
EXTENDS BackupBrowser, BackupStoreProofs

\* The browser is open exactly while a backup is shown.
OpenFits == shown # NoDir <=> cwd # NoPlace

\* The listing is one of the directory the browser is in.
ListingFits == cwd # NoPlace => listing \in Contents(cwd, there)

\* While the comparisons of goBack compare places, it closes the browser before
\* it leaves the backup.
AlikeIsInside ==
    alike /\ cwd # NoPlace =>
        cwd \in Inside /\ listing \cap Places \subseteq Inside

\* Of a complete extraction every file is there.
ThereFits == shown # NoDir /\ exWhole[shown] # NoRun => there = Nodes

\* The inductive invariant.
BrowserInv ==
    /\ ShownInv
    /\ BrowserTypeOK
    /\ OpenFits
    /\ ListingFits
    /\ AlikeIsInside
    /\ ThereFits

-----------------------------------------------------------------------------
(* The browser and the store *)

LEMMA BrowserStepIsStoreStep == [BrowserNext]_allVars => [Next]_vars
<1> SUFFICES ASSUME [BrowserNext]_allVars
             PROVE  [Next]_vars
  OBVIOUS
<1>1. CASE Unseen
  BY <1>1 DEF Unseen, Next, ExtractStep
<1>2. CASE Open
  BY <1>2 DEF Open, Next, ExtractStep
<1>3. CASE \E p \in Places : EnterDirectory(p)
  BY <1>3 DEF EnterDirectory
<1>4. CASE GoBack \/ LeaveError
  BY <1>4 DEF GoBack, LeaveError, ClearExtraction, Next
<1>5. CASE Restart
  BY <1>5 DEF Restart, Next
<1>6. CASE UNCHANGED allVars
  BY <1>6 DEF allVars
<1> QED
  BY <1>1, <1>2, <1>3, <1>4, <1>5, <1>6 DEF BrowserNext

\* Whatever is proved of the store holds under the browser.
THEOREM BrowserKeepsStore == BrowserSpec => Spec
<1>1. BrowserInit => Init
  BY DEF BrowserInit
<1> QED
  BY <1>1, BrowserStepIsStoreStep, PTL DEF BrowserSpec, Spec

-----------------------------------------------------------------------------
(* The inductive invariant *)

\* What is listed are nodes of the archive and places, and inside the backup
\* nothing else of the disk.
LEMMA ContentsType ==
    ASSUME NEW p \in Places, NEW S \in SUBSET Nodes, NEW L \in Contents(p, S)
    PROVE  /\ L \in SUBSET (Nodes \cup Places)
           /\ p \in Inside => L \cap Places \subseteq Inside
<1>1. CASE p = BackupDir \/ p = Backups \/ p = Elsewhere
  BY <1>1, PlaceAssumption, TreeAssumption DEF Contents, Places, Inside
<1>2. CASE p # BackupDir /\ p # Backups /\ p # Elsewhere
  <2>1. L \subseteq Nodes
    BY <1>2 DEF Contents
  <2> QED
    BY <2>1, PlaceAssumption DEF Places, Inside
<1> QED
  BY <1>1, <1>2

LEMMA BrowserInitInv == BrowserInit => BrowserInv
BY InitShownInv DEF BrowserInit, Init, BrowserInv, BrowserTypeOK, OpenFits,
   ListingFits, ThereFits, AlikeIsInside

\* A step that the browser does not see changes neither what is shown nor its
\* files.
LEMMA UnseenKeepsShown ==
    ASSUME ShownInv, Unseen
    PROVE  /\ shown' = shown
           /\ shown # NoDir => exWhole'[shown] = exWhole[shown]
<1>1. IInv /\ TypeOK /\ TabFits
  BY DEF ShownInv, RowInv, IInv
<1> USE DEF disk, tasks, tab, history
<1>2. ASSUME NEW r \in Runs, Start(r) \/ BackupStep(r)
      PROVE  shown' = shown /\ exWhole' = exWhole
  BY <1>1, <1>2, BackupKeepsTab
<1>3. CASE \/ CheckExtracted \/ OpenZip \/ CopyEntries \/ ExtractFails
           \/ ShowError
  BY <1>1, <1>3 DEF TabFits, CheckExtracted, OpenZip, CopyEntries,
     ExtractFails, ShowError
<1>4. CASE DeleteStep
  <2>1. deleting # NoDir
    BY <1>1, <1>4, DirAssumption DEF DeleteStep, RemoveZip, RemoveMetadata,
       RemoveExtracted, EndDelete, TypeOK, Dirs
  <2>2. shown = NoDir
    BY <1>1, <2>1 DEF TabFits
  <2> QED
    BY <1>4, <2>2 DEF DeleteStep, RemoveZip, RemoveMetadata, RemoveExtracted,
       EndDelete
<1>5. CASE \/ Appear
           \/ \E e \in list : Select(e) \/ Delete(e)
           \/ \E s \in Seconds : Tick(s)
  BY <1>5 DEF Appear, Select, Delete, Tick
<1> QED
  BY <1>2, <1>3, <1>4, <1>5 DEF Unseen

LEMMA UnseenInv ==
    ASSUME BrowserInv, ShownInv', Unseen, UNCHANGED browser
    PROVE  BrowserInv'
<1>1. shown' = shown /\ (shown # NoDir => exWhole'[shown] = exWhole[shown])
  BY UnseenKeepsShown DEF BrowserInv
<1> QED
  BY <1>1 DEF BrowserInv, browser, BrowserTypeOK, OpenFits, ListingFits,
     ThereFits, AlikeIsInside

LEMMA OpenInv ==
    ASSUME BrowserInv, ShownInv', Open
    PROVE  BrowserInv'
<1>1. /\ shown' = selected /\ exWhole' = exWhole
      /\ there' \in Unpacked(selected)
      /\ cwd' = Root /\ listing' \in Contents(Root, there')
  BY DEF Open, ShowExtracted, LoadContents, disk
<1>2. selected # NoDir
  BY DEF BrowserInv, ShownInv, TabFits, Open, ShowExtracted
<1>3. /\ there' \in SUBSET Nodes
      /\ exWhole[selected] # NoRun => there' = Nodes
  BY <1>1 DEF Unpacked
<1>4. Root # NoPlace /\ Root \in Places
  BY PlaceAssumption DEF Places, Inside
<1>5. BrowserTypeOK'
  BY <1>1, <1>3, <1>4, ContentsType DEF BrowserTypeOK, Open
<1>6. OpenFits' /\ ListingFits' /\ ThereFits'
  BY <1>1, <1>2, <1>3, <1>4 DEF OpenFits, ListingFits, ThereFits
<1>7. AlikeIsInside'
  BY <1>1, <1>3, <1>4, ContentsType DEF AlikeIsInside, Inside
<1> QED
  BY <1>5, <1>6, <1>7 DEF BrowserInv

\* Another directory is loaded, and nothing else happens.
LEMMA LoadInv ==
    ASSUME BrowserInv, ShownInv', NEW p \in Places, shown # NoDir,
           there' = there, LoadContents(p), UNCHANGED vars,
           alike' \in BOOLEAN, alike' => p \in Inside
    PROVE  BrowserInv'
<1>1. p # NoPlace
  BY PlaceAssumption, TreeAssumption DEF Places, Inside
<1>2. /\ cwd' = p /\ listing' \in Contents(p, there)
      /\ shown' = shown /\ exWhole' = exWhole
      /\ there \in SUBSET Nodes
  BY DEF LoadContents, vars, BrowserInv, BrowserTypeOK
<1>3. BrowserTypeOK'
  BY <1>2, ContentsType DEF BrowserTypeOK
<1>4. OpenFits' /\ ListingFits' /\ ThereFits'
  BY <1>1, <1>2 DEF BrowserInv, OpenFits, ListingFits, ThereFits
<1>5. AlikeIsInside'
  BY <1>2, ContentsType DEF AlikeIsInside
<1> QED
  BY <1>3, <1>4, <1>5 DEF BrowserInv

\* The browser closes together with what is shown.
LEMMA CloseInv ==
    ASSUME BrowserInv, ShownInv', shown' = NoDir, Closed
    PROVE  BrowserInv'
BY DEF Closed, BrowserInv, BrowserTypeOK, OpenFits, ListingFits, ThereFits,
   AlikeIsInside

\* Upwards it goes to a place, and not out of the backup before `extracted' or
\* the directory of the backups is reached.
LEMMA AboveIsPlace ==
    ASSUME NEW p \in Places, NEW q \in Above(p)
    PROVE  /\ q \in Places
           /\ p \in Inside /\ q # Backups => q \in Inside
<1>1. CASE p \in {Root, BackupDir, Backups, Elsewhere}
  <2>1. /\ Above(Root) = {BackupDir} /\ Above(BackupDir) = {Backups}
        /\ Above(Backups) = {Elsewhere}
        /\ Above(Elsewhere) = {Backups, Elsewhere}
    BY PlaceAssumption DEF Above
  <2>2. Backups \notin Inside /\ Elsewhere \notin Inside
    BY PlaceAssumption, TreeAssumption DEF Inside
  <2> QED
    BY <1>1, <2>1, <2>2 DEF Places, Inside
<1>2. CASE p \notin {Root, BackupDir, Backups, Elsewhere}
  <2>1. p \in Nodes /\ q = Parent[p]
    BY <1>2, TreeAssumption DEF Above, Places, Inside
  <2> QED
    BY <2>1, TreeAssumption DEF Places, Inside
<1> QED
  BY <1>1, <1>2

LEMMA BrowserNextInv == BrowserInv /\ [BrowserNext]_allVars => BrowserInv'
<1> SUFFICES ASSUME BrowserInv, [BrowserNext]_allVars
             PROVE  BrowserInv'
  OBVIOUS
<1>1. ShownInv'
  BY BrowserStepIsStoreStep, NextShownInv DEF BrowserInv
<1>2. CASE Unseen /\ UNCHANGED browser
  BY <1>1, <1>2, UnseenInv
<1>3. CASE Open
  BY <1>1, <1>3, OpenInv
<1>4. ASSUME NEW p \in Places, EnterDirectory(p)
      PROVE  BrowserInv'
  <2>1. cwd # NoPlace
    BY <1>4 DEF EnterDirectory, BrowserInv, OpenFits
  <2>2. /\ alike \in BOOLEAN /\ p \in listing
        /\ alike' = alike \/ alike' = FALSE
    BY <1>4 DEF EnterDirectory, BrowserInv, BrowserTypeOK
  <2>3. alike => p \in Inside
    BY <2>1, <2>2 DEF BrowserInv, AlikeIsInside
  <2>4. alike' \in BOOLEAN /\ (alike' => p \in Inside)
    <3>1. CASE alike' = FALSE
      BY <3>1
    <3>2. CASE alike' = alike
      BY <2>2, <2>3, <3>2, Zenon
    <3> QED
      BY <2>2, <3>1, <3>2
  <2> QED
    BY <1>1, <1>4, <2>4, LoadInv DEF EnterDirectory
<1>5. CASE ClearExtraction
  BY <1>1, <1>5, CloseInv DEF ClearExtraction, Leave
<1>6. CASE GoBack /\ ~ClearExtraction
  <2>1. /\ cwd \in Places /\ shown # NoDir /\ alike \in BOOLEAN
        /\ alike => cwd \in Inside
    BY <1>6 DEF GoBack, BrowserInv, BrowserTypeOK, OpenFits, AlikeIsInside
  <2>2. PICK p \in Above(cwd) :
            /\ ~(alike /\ p \in {Root, Backups})
            /\ UNCHANGED <<vars, there, alike>> /\ LoadContents(p)
    BY <1>6 DEF GoBack
  <2>3. p \in Places /\ (alike => p \in Inside)
    BY <2>1, <2>2, AboveIsPlace
  <2> QED
    BY <1>1, <2>1, <2>2, <2>3, LoadInv
<1>7. CASE Restart
  BY <1>1, <1>7, CloseInv DEF Restart, Kill
<1>8. CASE UNCHANGED allVars
  BY <1>1, <1>8 DEF allVars, vars, browser, BrowserInv, BrowserTypeOK,
     OpenFits, ListingFits, ThereFits, AlikeIsInside
<1> QED
  BY <1>2, <1>3, <1>4, <1>5, <1>6, <1>7, <1>8 DEF BrowserNext, GoBack,
     LeaveError

\* BrowserInv holds in every reachable state.
THEOREM BrowserInvariance == BrowserSpec => []BrowserInv
BY BrowserInitInv, BrowserNextInv, PTL DEF BrowserSpec

-----------------------------------------------------------------------------
(* What follows from it *)

\* The variables of the browser keep their types.
THEOREM BrowserTypeCorrect == BrowserSpec => []BrowserTypeOK
BY BrowserInvariance, PTL DEF BrowserInv

\* The browser is open exactly while a backup is shown, stays inside it as long
\* as its URL is spelled like the backups directory, lists the directory it
\* names, and every file of a backup whose extraction never broke off.
THEOREM BrowserIsOfTheBackup == BrowserSpec => []BrowserShowsBackup
<1>1. BrowserInv => BrowserShowsBackup
  <2> SUFFICES ASSUME BrowserInv
               PROVE  BrowserShowsBackup
    OBVIOUS
  <2>1. shown # NoDir <=> cwd # NoPlace
    BY DEF BrowserInv, OpenFits
  <2>2. shown # NoDir => shown = selected /\ shown \in extracted
    BY DEF BrowserInv, ShownInv, TabFits
  <2>3. ASSUME cwd \in Folders \cup {Root}
        PROVE  shown # NoDir /\ listing = {n \in there : Parent[n] = cwd}
    BY <2>1, <2>3, PlaceAssumption, TreeAssumption DEF BrowserInv,
       ListingFits, Contents
  <2>5. alike /\ cwd # NoPlace => cwd \in Inside
    BY DEF BrowserInv, AlikeIsInside
  <2>4. ASSUME cwd \in Folders \cup {Root}, NEW r \in Runs,
               shown \notin exBroken \cup deleteTried, uses[shown] = {r}
        PROVE  there = Nodes
    <3>1. shown # NoDir /\ exWhole[shown] = r
      BY <2>3, <2>4, ShownIsExtractedWhole DEF BrowserInv, UnbrokenIsWhole
    <3> QED
      BY <3>1, RunAssumption DEF BrowserInv, ThereFits
  <2> QED
    BY <2>1, <2>2, <2>3, <2>4, <2>5 DEF BrowserShowsBackup
<1> QED
  BY <1>1, BrowserInvariance, PTL
=============================================================================
