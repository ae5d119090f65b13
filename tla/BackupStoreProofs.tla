-------------------------- MODULE BackupStoreProofs --------------------------
(***************************************************************************)
(* Theorems about BackupStore, for any applications, clock and number of   *)
(* backups.                                                                *)
(***************************************************************************)
EXTENDS BackupStore, TLAPS

\* A run has a directory from the moment it has taken its time stamp.
HasDir ==
    \A r \in Runs :
        pc[r] \in Live \ {"mkdir", "failed"} =>
            dirOf[r] \in Dirs /\ r \in uses[dirOf[r]]

\* What a directory contains was put there by a run that was given it, and
\* metadata is what a run leaves when it has no more to write.
Provenance ==
    \A d \in Dirs, r \in Runs :
        /\ whole[d] = r => r \in uses[d]
        /\ meta[d] = r => /\ r \in uses[d]
                          /\ pc[r] \in {"saved", "done", "dead"}

\* Between the end of the archive and the end of the run the archive stays.
ArchiveStays ==
    \A r \in Runs :
        pc[r] \in {"meta", "metaWrite", "saved"} /\ dirOf[r] \notin deleteTried
          => dirOf[r] \in dirs /\ dirOf[r] \in zips /\ whole[dirOf[r]] = r

\* As long as the archive is being written its directory is there.
WalkHasFile ==
    \A r \in Runs :
        pc[r] = "walk" /\ dirOf[r] \notin deleteTried
          => dirOf[r] \in dirs /\ dirOf[r] \in zips

SavedIsDescribed ==
    \A r \in Runs :
        pc[r] = "saved" /\ dirOf[r] \notin deleteTried => meta[dirOf[r]] = r

DeletionWasAsked == deleting # NoDir => deleting \in deleteTried

\* An extraction works on the selected backup.
ExtractsSelected == ext \in Extracting => selected # NoDir

\* The inductive invariant.
IInv ==
    /\ TypeOK
    /\ OneBackupAtATime
    /\ HasDir
    /\ Provenance
    /\ WalkHasFile
    /\ ArchiveStays
    /\ SavedIsDescribed
    /\ DeletionWasAsked
    /\ ExtractsSelected
    /\ ListedIsWhole

USE RunAssumption, DirAssumption

\* The variables the other conjuncts of IInv are about.
kept == <<dirs, zips, whole, meta, pc, dirOf, isBackingUp, uses,
          deleteTried, deleting>>

-----------------------------------------------------------------------------
(* Type correctness *)

LEMMA InitTypeOK == Init => TypeOK
<1> SUFFICES ASSUME Init PROVE TypeOK
  OBVIOUS
<1> USE DEF Init
<1>1. /\ dirs \in SUBSET Dirs /\ zips \in SUBSET Dirs
      /\ extracted \in SUBSET Dirs
      /\ deleteTried \in SUBSET Dirs /\ exBroken \in SUBSET Dirs
      /\ list \in SUBSET [dir : Dirs, run : Runs]
  OBVIOUS
<1>2. /\ whole \in [Dirs -> Runs \cup {NoRun}]
      /\ meta \in [Dirs -> Runs \cup {NoRun}]
      /\ exWhole \in [Dirs -> Runs \cup {NoRun}]
      /\ uses \in [Dirs -> SUBSET Runs]
  OBVIOUS
<1>3. /\ pc \in [Runs -> Live \cup {"new", "done", "dead"}]
      /\ bundleOf \in [Runs -> Bundles]
      /\ dirOf \in [Runs -> Dirs \cup {NoDir}]
      /\ outcome \in [Runs -> {"none", "ok", "error"}]
  OBVIOUS
<1>4. /\ ext \in Extracting \cup {"idle", "error"}
      /\ isBackingUp \in BOOLEAN
      /\ exSrc \in Runs \cup {NoRun} /\ now \in Seconds
      /\ selected \in Dirs \cup {NoDir} /\ shown \in Dirs \cup {NoDir}
      /\ deleting \in Dirs \cup {NoDir}
  OBVIOUS
<1> QED
  BY <1>1, <1>2, <1>3, <1>4 DEF TypeOK

LEMMA BackupTypeOK ==
    ASSUME TypeOK, HasDir, NEW r \in Runs, Start(r) \/ BackupStep(r)
    PROVE  TypeOK'
<1> USE DEF TypeOK, Live, Working, Goto, disk, tab, history
<1>1. CASE Start(r)
  BY <1>1 DEF Start
<1>2. CASE MakeDir(r)
  <2>1. <<bundleOf[r], now>> \in Dirs
    BY DEF Dirs
  <2> QED
    BY <1>2, <2>1 DEF MakeDir
<1>3. CASE Vend(r)
  BY <1>3 DEF Vend
<1>4. CASE CreateZip(r)
  <2>1. dirOf[r] \in Dirs
    BY <1>4 DEF HasDir, CreateZip
  <2> QED
    BY <1>4, <2>1 DEF CreateZip
<1>5. CASE FinishZip(r)
  BY <1>5 DEF FinishZip
<1>6. CASE BeginMetadata(r)
  BY <1>6 DEF BeginMetadata
<1>7. CASE EndMetadata(r)
  BY <1>7 DEF EndMetadata
<1>8. CASE Fail(r)
  BY <1>8 DEF Fail
<1>9. CASE Report(r)
  BY <1>9 DEF Report
<1> QED
  BY <1>1, <1>2, <1>3, <1>4, <1>5, <1>6, <1>7, <1>8, <1>9 DEF BackupStep

LEMMA ExtractTypeOK ==
    ASSUME TypeOK, ExtractsSelected, ExtractStep
    PROVE  TypeOK'
<1> USE DEF TypeOK, Extracting, ExtractsSelected, disk, tasks, history
<1>1. CASE CheckExtracted
  BY <1>1 DEF CheckExtracted
<1>2. CASE OpenZip
  BY <1>2 DEF OpenZip
<1>3. CASE CopyEntries
  BY <1>3 DEF CopyEntries
<1>4. CASE ExtractFails
  BY <1>4 DEF ExtractFails
<1>5. CASE ShowExtracted \/ ShowError
  BY <1>5 DEF ShowExtracted, ShowError
<1> QED
  BY <1>1, <1>2, <1>3, <1>4, <1>5 DEF ExtractStep

LEMMA DeleteTypeOK ==
    ASSUME TypeOK, DeleteStep
    PROVE  TypeOK'
<1> USE DEF TypeOK, Extracting, tasks, tab, history
<1>1. CASE RemoveZip
  BY <1>1 DEF RemoveZip
<1>2. CASE RemoveMetadata
  BY <1>2 DEF RemoveMetadata
<1>3. CASE RemoveExtracted
  BY <1>3 DEF RemoveExtracted
<1>4. CASE EndDelete
  BY <1>4 DEF EndDelete, Listable
<1> QED
  BY <1>1, <1>2, <1>3, <1>4 DEF DeleteStep

LEMMA UserTypeOK ==
    ASSUME TypeOK, ExtractsSelected,
           \/ Appear \/ Leave \/ Kill
           \/ \E e \in list : Select(e) \/ Delete(e)
           \/ \E s \in Seconds : Tick(s)
    PROVE  TypeOK'
<1> USE DEF TypeOK, Extracting, Live, disk, tasks, tab, history
<1>1. CASE Appear
  BY <1>1 DEF Appear, Listable
<1>2. CASE Leave
  BY <1>2 DEF Leave
<1>3. CASE Kill
  BY <1>3 DEF Kill, ExtractsSelected
<1>4. ASSUME NEW e \in list, Select(e) \/ Delete(e)
      PROVE  TypeOK'
  <2>1. e.dir \in Dirs
    OBVIOUS
  <2> QED
    BY <1>4, <2>1 DEF Select, Delete
<1>5. ASSUME NEW s \in Seconds, Tick(s)
      PROVE  TypeOK'
  BY <1>5 DEF Tick
<1> QED
  BY <1>1, <1>2, <1>3, <1>4, <1>5

LEMMA NextTypeOK ==
    TypeOK /\ HasDir /\ ExtractsSelected /\ [Next]_vars => TypeOK'
<1> SUFFICES ASSUME TypeOK, HasDir, ExtractsSelected, [Next]_vars
             PROVE  TypeOK'
  OBVIOUS
<1>1. CASE UNCHANGED vars
  BY <1>1 DEF vars, TypeOK
<1>2. CASE Next
  BY <1>2, BackupTypeOK, ExtractTypeOK, DeleteTypeOK, UserTypeOK DEF Next
<1> QED
  BY <1>1, <1>2

-----------------------------------------------------------------------------
(* The inductive invariant *)

LEMMA InitIInv == Init => IInv
<1> SUFFICES ASSUME Init PROVE IInv
  OBVIOUS
<1> USE DEF Init, Live
<1>1. TypeOK
  BY InitTypeOK
<1>2. OneBackupAtATime /\ HasDir /\ WalkHasFile /\ ArchiveStays
      /\ SavedIsDescribed
  BY DEF OneBackupAtATime, HasDir, WalkHasFile, ArchiveStays, SavedIsDescribed
<1>3. Provenance /\ ListedIsWhole
  BY DEF Provenance, ListedIsWhole
<1>4. DeletionWasAsked /\ ExtractsSelected
  BY DEF DeletionWasAsked, ExtractsSelected, Extracting
<1> QED
  BY <1>1, <1>2, <1>3, <1>4 DEF IInv

LEMMA StartIInv ==
    ASSUME IInv, TypeOK', NEW r \in Runs, Start(r)
    PROVE  IInv'
<1> USE DEF IInv, TypeOK, Start, Goto, Live, Working, disk, tab, history
<1>1. OneBackupAtATime'
  BY DEF OneBackupAtATime
<1>2. HasDir'
  BY DEF HasDir
<1>3. Provenance'
  BY DEF Provenance, HasDir
<1>4. WalkHasFile'
  BY DEF WalkHasFile, HasDir, OneBackupAtATime, ArchiveStays, DeletionWasAsked
<1>5. ArchiveStays'
  BY DEF ArchiveStays, HasDir, OneBackupAtATime, WalkHasFile, DeletionWasAsked
<1>6. SavedIsDescribed'
  BY DEF SavedIsDescribed, HasDir, OneBackupAtATime, WalkHasFile,
     ArchiveStays, DeletionWasAsked
<1>7. DeletionWasAsked'
  BY DEF DeletionWasAsked
<1>8. ListedIsWhole'
  BY DEF ListedIsWhole, OnlyUse, Provenance, ArchiveStays, DeletionWasAsked
<1>9. ExtractsSelected'
  BY DEF ExtractsSelected, Extracting
<1> QED
  BY <1>1, <1>2, <1>3, <1>4, <1>5, <1>6, <1>7, <1>8, <1>9

LEMMA MakeDirIInv ==
    ASSUME IInv, TypeOK', NEW r \in Runs, MakeDir(r)
    PROVE  IInv'
<1> USE DEF IInv, TypeOK, MakeDir, Goto, Live, Working, disk, tab, history
<1>1. OneBackupAtATime'
  BY DEF OneBackupAtATime
<1>2. HasDir'
  BY DEF HasDir
<1>3. Provenance'
  <2>1. /\ whole' = whole /\ meta' = meta
        /\ \A d \in Dirs : uses[d] \subseteq uses'[d]
        /\ \A s \in Runs : pc[s] # "mkdir" => pc'[s] = pc[s]
    OBVIOUS
  <2>2. Provenance
    OBVIOUS
  <2> HIDE DEF IInv, TypeOK, MakeDir, Goto
  <2> QED
    BY <2>1, <2>2 DEF Provenance
<1>4. WalkHasFile'
  BY DEF WalkHasFile, HasDir, OneBackupAtATime, ArchiveStays, DeletionWasAsked
<1>5. ArchiveStays'
  BY DEF ArchiveStays, HasDir, OneBackupAtATime, WalkHasFile, DeletionWasAsked
<1>6. SavedIsDescribed'
  BY DEF SavedIsDescribed, HasDir, OneBackupAtATime, WalkHasFile,
     ArchiveStays, DeletionWasAsked
<1>7. DeletionWasAsked'
  BY DEF DeletionWasAsked
<1>8. ListedIsWhole'
  <2>1. /\ whole' = whole /\ meta' = meta /\ zips' = zips
        /\ deleteTried' = deleteTried
        /\ \A d \in Dirs : uses[d] \subseteq uses'[d]
    OBVIOUS
  <2>2. Provenance /\ ListedIsWhole
    OBVIOUS
  <2> HIDE DEF IInv, TypeOK, MakeDir, Goto
  <2>3. SUFFICES ASSUME NEW d \in Dirs, NEW s \in Runs,
                        meta'[d] = s, OnlyUse(d, s)'
                 PROVE  d \in zips /\ whole[d] = s
    BY <2>1 DEF ListedIsWhole
  <2>4. s \in uses[d] /\ uses[d] \subseteq {s} /\ d \notin deleteTried
    BY <2>1, <2>2, <2>3 DEF Provenance, OnlyUse
  <2>5. uses[d] = {s}
    BY <2>4
  <2> QED
    BY <2>1, <2>2, <2>3, <2>4, <2>5 DEF ListedIsWhole, OnlyUse
<1>9. ExtractsSelected'
  BY DEF ExtractsSelected, Extracting
<1> QED
  BY <1>1, <1>2, <1>3, <1>4, <1>5, <1>6, <1>7, <1>8, <1>9

LEMMA VendIInv ==
    ASSUME IInv, TypeOK', NEW r \in Runs, Vend(r)
    PROVE  IInv'
<1> USE DEF IInv, TypeOK, Vend, Goto, Live, Working, disk, tab, history
<1>1. OneBackupAtATime'
  BY DEF OneBackupAtATime
<1>2. HasDir'
  BY DEF HasDir
<1>3. Provenance'
  BY DEF Provenance, HasDir
<1>4. WalkHasFile'
  BY DEF WalkHasFile, HasDir, OneBackupAtATime, ArchiveStays, DeletionWasAsked
<1>5. ArchiveStays'
  BY DEF ArchiveStays, HasDir, OneBackupAtATime, WalkHasFile, DeletionWasAsked
<1>6. SavedIsDescribed'
  BY DEF SavedIsDescribed, HasDir, OneBackupAtATime, WalkHasFile,
     ArchiveStays, DeletionWasAsked
<1>7. DeletionWasAsked'
  BY DEF DeletionWasAsked
<1>8. ListedIsWhole'
  BY DEF ListedIsWhole, OnlyUse, Provenance, ArchiveStays, DeletionWasAsked
<1>9. ExtractsSelected'
  BY DEF ExtractsSelected, Extracting
<1> QED
  BY <1>1, <1>2, <1>3, <1>4, <1>5, <1>6, <1>7, <1>8, <1>9

LEMMA CreateZipIInv ==
    ASSUME IInv, TypeOK', NEW r \in Runs, CreateZip(r)
    PROVE  IInv'
<1> USE DEF IInv, TypeOK, CreateZip, Goto, Live, Working, disk, tab, history
<1>1. OneBackupAtATime'
  BY DEF OneBackupAtATime
<1>2. HasDir'
  BY DEF HasDir
<1>3. Provenance'
  BY DEF Provenance, HasDir
<1>4. WalkHasFile'
  BY DEF WalkHasFile, HasDir, OneBackupAtATime, ArchiveStays, DeletionWasAsked
<1>5. ArchiveStays'
  BY DEF ArchiveStays, HasDir, OneBackupAtATime, WalkHasFile, DeletionWasAsked
<1>6. SavedIsDescribed'
  BY DEF SavedIsDescribed, HasDir, OneBackupAtATime, WalkHasFile,
     ArchiveStays, DeletionWasAsked
<1>7. DeletionWasAsked'
  BY DEF DeletionWasAsked
<1>8. ListedIsWhole'
  <2> SUFFICES ASSUME NEW d \in Dirs, NEW q \in Runs, meta[d] = q, OnlyUse(d, q)
               PROVE  d \in zips' /\ whole'[d] = q
    BY DEF ListedIsWhole, OnlyUse
  <2>1. q # r
    BY DEF Provenance
  <2>2. d # dirOf[r]
    BY <2>1 DEF HasDir, OnlyUse
  <2>3. d \in zips /\ whole[d] = q
    BY DEF ListedIsWhole
  <2> QED
    BY <2>2, <2>3
<1>9. ExtractsSelected'
  BY DEF ExtractsSelected, Extracting
<1> QED
  BY <1>1, <1>2, <1>3, <1>4, <1>5, <1>6, <1>7, <1>8, <1>9

LEMMA FinishZipIInv ==
    ASSUME IInv, TypeOK', NEW r \in Runs, FinishZip(r)
    PROVE  IInv'
<1> USE DEF IInv, TypeOK, FinishZip, Goto, Live, Working, disk, tab, history
<1>1. OneBackupAtATime'
  BY DEF OneBackupAtATime
<1>2. HasDir'
  BY DEF HasDir
<1>3. Provenance'
  BY DEF Provenance, HasDir
<1>4. WalkHasFile'
  BY DEF WalkHasFile, HasDir, OneBackupAtATime, ArchiveStays, DeletionWasAsked
<1>5. ArchiveStays'
  BY DEF ArchiveStays, HasDir, OneBackupAtATime, WalkHasFile, DeletionWasAsked
<1>6. SavedIsDescribed'
  BY DEF SavedIsDescribed, HasDir, OneBackupAtATime, WalkHasFile,
     ArchiveStays, DeletionWasAsked
<1>7. DeletionWasAsked'
  BY DEF DeletionWasAsked
<1>8. ListedIsWhole'
  <2> SUFFICES ASSUME NEW d \in Dirs, NEW q \in Runs, meta[d] = q, OnlyUse(d, q)
               PROVE  d \in zips' /\ whole'[d] = q
    BY DEF ListedIsWhole, OnlyUse
  <2>1. q # r
    BY DEF Provenance
  <2>2. d # dirOf[r]
    BY <2>1 DEF HasDir, OnlyUse
  <2>3. d \in zips /\ whole[d] = q
    BY DEF ListedIsWhole
  <2> QED
    BY <2>2, <2>3
<1>9. ExtractsSelected'
  BY DEF ExtractsSelected, Extracting
<1> QED
  BY <1>1, <1>2, <1>3, <1>4, <1>5, <1>6, <1>7, <1>8, <1>9

LEMMA BeginMetadataIInv ==
    ASSUME IInv, TypeOK', NEW r \in Runs, BeginMetadata(r)
    PROVE  IInv'
<1> USE DEF IInv, TypeOK, BeginMetadata, Goto, Live, Working, disk, tab,
    history
<1>1. OneBackupAtATime'
  BY DEF OneBackupAtATime
<1>2. HasDir'
  BY DEF HasDir
<1>3. Provenance'
  BY DEF Provenance, HasDir
<1>4. WalkHasFile'
  BY DEF WalkHasFile, HasDir, OneBackupAtATime, ArchiveStays, DeletionWasAsked
<1>5. ArchiveStays'
  BY DEF ArchiveStays, HasDir, OneBackupAtATime, WalkHasFile, DeletionWasAsked
<1>6. SavedIsDescribed'
  BY DEF SavedIsDescribed, HasDir, OneBackupAtATime, WalkHasFile,
     ArchiveStays, DeletionWasAsked
<1>7. DeletionWasAsked'
  BY DEF DeletionWasAsked
<1>8. ListedIsWhole'
  BY DEF ListedIsWhole, OnlyUse, Provenance, ArchiveStays, DeletionWasAsked
<1>9. ExtractsSelected'
  BY DEF ExtractsSelected, Extracting
<1> QED
  BY <1>1, <1>2, <1>3, <1>4, <1>5, <1>6, <1>7, <1>8, <1>9

LEMMA EndMetadataIInv ==
    ASSUME IInv, TypeOK', NEW r \in Runs, EndMetadata(r)
    PROVE  IInv'
<1> USE DEF IInv, TypeOK, EndMetadata, Goto, Live, Working, disk, tab, history
<1>1. OneBackupAtATime'
  BY DEF OneBackupAtATime
<1>2. HasDir'
  BY DEF HasDir
<1>3. Provenance'
  BY DEF Provenance, HasDir
<1>4. WalkHasFile'
  BY DEF WalkHasFile, HasDir, OneBackupAtATime, ArchiveStays, DeletionWasAsked
<1>5. ArchiveStays'
  BY DEF ArchiveStays, HasDir, OneBackupAtATime, WalkHasFile, DeletionWasAsked
<1>6. SavedIsDescribed'
  BY DEF SavedIsDescribed, HasDir, OneBackupAtATime, WalkHasFile,
     ArchiveStays, DeletionWasAsked
<1>7. DeletionWasAsked'
  BY DEF DeletionWasAsked
<1>8. ListedIsWhole'
  BY DEF ListedIsWhole, OnlyUse, Provenance, ArchiveStays, DeletionWasAsked
<1>9. ExtractsSelected'
  BY DEF ExtractsSelected, Extracting
<1> QED
  BY <1>1, <1>2, <1>3, <1>4, <1>5, <1>6, <1>7, <1>8, <1>9

LEMMA FailIInv ==
    ASSUME IInv, TypeOK', NEW r \in Runs, Fail(r)
    PROVE  IInv'
<1> USE DEF IInv, TypeOK, Fail, Goto, Live, Working, disk, tab, history
<1>1. OneBackupAtATime'
  BY DEF OneBackupAtATime
<1>2. HasDir'
  BY DEF HasDir
<1>3. Provenance'
  BY DEF Provenance, HasDir
<1>4. WalkHasFile'
  BY DEF WalkHasFile, HasDir, OneBackupAtATime, ArchiveStays, DeletionWasAsked
<1>5. ArchiveStays'
  BY DEF ArchiveStays, HasDir, OneBackupAtATime, WalkHasFile, DeletionWasAsked
<1>6. SavedIsDescribed'
  BY DEF SavedIsDescribed, HasDir, OneBackupAtATime, WalkHasFile,
     ArchiveStays, DeletionWasAsked
<1>7. DeletionWasAsked'
  BY DEF DeletionWasAsked
<1>8. ListedIsWhole'
  BY DEF ListedIsWhole, OnlyUse, Provenance, ArchiveStays, DeletionWasAsked
<1>9. ExtractsSelected'
  BY DEF ExtractsSelected, Extracting
<1> QED
  BY <1>1, <1>2, <1>3, <1>4, <1>5, <1>6, <1>7, <1>8, <1>9

LEMMA ReportIInv ==
    ASSUME IInv, TypeOK', NEW r \in Runs, Report(r)
    PROVE  IInv'
<1> USE DEF IInv, TypeOK, Report, Goto, Live, Working, disk, tab, history
<1>1. OneBackupAtATime'
  BY DEF OneBackupAtATime
<1>2. HasDir'
  BY DEF HasDir
<1>3. Provenance'
  BY DEF Provenance, HasDir
<1>4. WalkHasFile'
  BY DEF WalkHasFile, HasDir, OneBackupAtATime, ArchiveStays, DeletionWasAsked
<1>5. ArchiveStays'
  BY DEF ArchiveStays, HasDir, OneBackupAtATime, WalkHasFile, DeletionWasAsked
<1>6. SavedIsDescribed'
  BY DEF SavedIsDescribed, HasDir, OneBackupAtATime, WalkHasFile,
     ArchiveStays, DeletionWasAsked
<1>7. DeletionWasAsked'
  BY DEF DeletionWasAsked
<1>8. ListedIsWhole'
  BY DEF ListedIsWhole, OnlyUse, Provenance, ArchiveStays, DeletionWasAsked
<1>9. ExtractsSelected'
  BY DEF ExtractsSelected, Extracting
<1> QED
  BY <1>1, <1>2, <1>3, <1>4, <1>5, <1>6, <1>7, <1>8, <1>9

LEMMA CheckExtractedIInv ==
    ASSUME IInv, TypeOK', CheckExtracted
    PROVE  IInv'
<1> USE DEF IInv, TypeOK, CheckExtracted, Live, disk, tasks, tab, history
<1>1. OneBackupAtATime'
  BY DEF OneBackupAtATime
<1>2. HasDir'
  BY DEF HasDir
<1>3. Provenance'
  BY DEF Provenance, HasDir
<1>4. WalkHasFile'
  BY DEF WalkHasFile, HasDir, OneBackupAtATime, ArchiveStays, DeletionWasAsked
<1>5. ArchiveStays'
  BY DEF ArchiveStays, HasDir, OneBackupAtATime, WalkHasFile, DeletionWasAsked
<1>6. SavedIsDescribed'
  BY DEF SavedIsDescribed, HasDir, OneBackupAtATime, WalkHasFile,
     ArchiveStays, DeletionWasAsked
<1>7. DeletionWasAsked'
  BY DEF DeletionWasAsked
<1>8. ListedIsWhole'
  BY DEF ListedIsWhole, OnlyUse, Provenance, ArchiveStays, DeletionWasAsked
<1>9. ExtractsSelected'
  BY DEF ExtractsSelected, Extracting
<1> QED
  BY <1>1, <1>2, <1>3, <1>4, <1>5, <1>6, <1>7, <1>8, <1>9

LEMMA RemoveZipIInv ==
    ASSUME IInv, TypeOK', RemoveZip
    PROVE  IInv'
<1> USE DEF IInv, TypeOK, RemoveZip, Live, disk, tasks, tab, history
<1>d. deleting # NoDir /\ deleting \in deleteTried
  BY DirAssumption DEF Dirs, DeletionWasAsked
<1>1. OneBackupAtATime'
  BY DEF OneBackupAtATime
<1>2. HasDir'
  BY DEF HasDir
<1>3. Provenance'
  BY DEF Provenance, HasDir
<1>4. WalkHasFile'
  BY <1>d DEF WalkHasFile, HasDir, OneBackupAtATime, ArchiveStays,
     DeletionWasAsked
<1>5. ArchiveStays'
  BY <1>d DEF ArchiveStays, HasDir, OneBackupAtATime, WalkHasFile,
     DeletionWasAsked
<1>6. SavedIsDescribed'
  BY DEF SavedIsDescribed, HasDir, OneBackupAtATime, WalkHasFile,
     ArchiveStays, DeletionWasAsked
<1>7. DeletionWasAsked'
  BY DEF DeletionWasAsked
<1>8. ListedIsWhole'
  BY <1>d DEF ListedIsWhole, OnlyUse, Provenance, ArchiveStays,
     DeletionWasAsked
<1>9. ExtractsSelected'
  BY DEF ExtractsSelected, Extracting
<1> QED
  BY <1>1, <1>2, <1>3, <1>4, <1>5, <1>6, <1>7, <1>8, <1>9

LEMMA RemoveMetadataIInv ==
    ASSUME IInv, TypeOK', RemoveMetadata
    PROVE  IInv'
<1> USE DEF IInv, TypeOK, RemoveMetadata, Live, disk, tasks, tab, history
<1>1. OneBackupAtATime'
  BY DEF OneBackupAtATime
<1>2. HasDir'
  BY DEF HasDir
<1>3. Provenance'
  BY DEF Provenance, HasDir
<1>4. WalkHasFile'
  BY DEF WalkHasFile, HasDir, OneBackupAtATime, ArchiveStays, DeletionWasAsked
<1>5. ArchiveStays'
  BY DEF ArchiveStays, HasDir, OneBackupAtATime, WalkHasFile, DeletionWasAsked
<1>6. SavedIsDescribed'
  BY DEF SavedIsDescribed, HasDir, OneBackupAtATime, WalkHasFile,
     ArchiveStays, DeletionWasAsked
<1>7. DeletionWasAsked'
  BY DEF DeletionWasAsked
<1>8. ListedIsWhole'
  BY DEF ListedIsWhole, OnlyUse, Provenance, ArchiveStays, DeletionWasAsked
<1>9. ExtractsSelected'
  BY DEF ExtractsSelected, Extracting
<1> QED
  BY <1>1, <1>2, <1>3, <1>4, <1>5, <1>6, <1>7, <1>8, <1>9

LEMMA EndDeleteIInv ==
    ASSUME IInv, TypeOK', EndDelete
    PROVE  IInv'
<1> USE DEF IInv, TypeOK, EndDelete, Live, disk, tasks, tab, history
<1>1. OneBackupAtATime'
  BY DEF OneBackupAtATime
<1>2. HasDir'
  BY DEF HasDir
<1>3. Provenance'
  BY DEF Provenance, HasDir
<1>4. WalkHasFile'
  BY DEF WalkHasFile, HasDir, OneBackupAtATime, ArchiveStays, DeletionWasAsked
<1>5. ArchiveStays'
  BY DEF ArchiveStays, HasDir, OneBackupAtATime, WalkHasFile, DeletionWasAsked
<1>6. SavedIsDescribed'
  BY DEF SavedIsDescribed, HasDir, OneBackupAtATime, WalkHasFile,
     ArchiveStays, DeletionWasAsked
<1>7. DeletionWasAsked'
  BY DEF DeletionWasAsked
<1>8. ListedIsWhole'
  BY DEF ListedIsWhole, OnlyUse, Provenance, ArchiveStays, DeletionWasAsked
<1>9. ExtractsSelected'
  BY DEF ExtractsSelected, Extracting
<1> QED
  BY <1>1, <1>2, <1>3, <1>4, <1>5, <1>6, <1>7, <1>8, <1>9

LEMMA KillIInv ==
    ASSUME IInv, TypeOK', Kill
    PROVE  IInv'
<1> USE DEF IInv, TypeOK, Kill, Live, disk, tasks, tab, history
<1>1. OneBackupAtATime'
  BY DEF OneBackupAtATime
<1>2. HasDir'
  BY DEF HasDir
<1>3. Provenance'
  BY DEF Provenance, HasDir
<1>4. WalkHasFile'
  BY DEF WalkHasFile, HasDir, OneBackupAtATime, ArchiveStays, DeletionWasAsked
<1>5. ArchiveStays'
  BY DEF ArchiveStays, HasDir, OneBackupAtATime, WalkHasFile, DeletionWasAsked
<1>6. SavedIsDescribed'
  BY DEF SavedIsDescribed, HasDir, OneBackupAtATime, WalkHasFile,
     ArchiveStays, DeletionWasAsked
<1>7. DeletionWasAsked'
  BY DEF DeletionWasAsked
<1>8. ListedIsWhole'
  BY DEF ListedIsWhole, OnlyUse, Provenance, ArchiveStays, DeletionWasAsked
<1>9. ExtractsSelected'
  BY DEF ExtractsSelected, Extracting
<1> QED
  BY <1>1, <1>2, <1>3, <1>4, <1>5, <1>6, <1>7, <1>8, <1>9

LEMMA DeleteIInv ==
    ASSUME IInv, TypeOK', NEW e \in list, Delete(e)
    PROVE  IInv'
<1> USE DEF IInv, TypeOK, Delete, Live, disk, tasks, tab, history
<1>1. OneBackupAtATime'
  BY DEF OneBackupAtATime
<1>2. HasDir'
  BY DEF HasDir
<1>3. Provenance'
  BY DEF Provenance, HasDir
<1>4. WalkHasFile'
  BY DEF WalkHasFile, HasDir, OneBackupAtATime, ArchiveStays, DeletionWasAsked
<1>5. ArchiveStays'
  BY DEF ArchiveStays, HasDir, OneBackupAtATime, WalkHasFile, DeletionWasAsked
<1>6. SavedIsDescribed'
  BY DEF SavedIsDescribed, HasDir, OneBackupAtATime, WalkHasFile,
     ArchiveStays, DeletionWasAsked
<1>7. DeletionWasAsked'
  BY DEF DeletionWasAsked
<1>8. ListedIsWhole'
  BY DEF ListedIsWhole, OnlyUse, Provenance, ArchiveStays, DeletionWasAsked
<1>9. ExtractsSelected'
  BY DEF ExtractsSelected, Extracting
<1> QED
  BY <1>1, <1>2, <1>3, <1>4, <1>5, <1>6, <1>7, <1>8, <1>9

\* The other actions change none of the variables in `kept'.
LEMMA KeptIInv ==
    ASSUME IInv, TypeOK', ExtractsSelected', UNCHANGED kept
    PROVE  IInv'
<1> USE DEF IInv, kept
<1>1. OneBackupAtATime' /\ HasDir' /\ Provenance'
  BY DEF OneBackupAtATime, HasDir, Provenance
<1>2. WalkHasFile' /\ ArchiveStays' /\ SavedIsDescribed'
  BY DEF WalkHasFile, ArchiveStays, SavedIsDescribed
<1>3. DeletionWasAsked' /\ ListedIsWhole'
  BY DEF DeletionWasAsked, ListedIsWhole, OnlyUse
<1> QED
  BY <1>1, <1>2, <1>3

LEMMA OthersKeep ==
    ASSUME IInv,
           \/ OpenZip \/ CopyEntries \/ ExtractFails
           \/ ShowExtracted \/ ShowError \/ RemoveExtracted
           \/ Appear \/ Leave
           \/ \E e \in list : Select(e)
           \/ \E s \in Seconds : Tick(s)
           \/ UNCHANGED vars
    PROVE  UNCHANGED kept /\ ExtractsSelected'
<1> USE DEF kept, ExtractsSelected, Extracting, disk, tasks, tab, history
<1>1. CASE OpenZip \/ CopyEntries \/ ExtractFails
  BY <1>1 DEF IInv, OpenZip, CopyEntries, ExtractFails
<1>2. CASE ShowExtracted \/ ShowError \/ RemoveExtracted
  BY <1>2 DEF IInv, ShowExtracted, ShowError, RemoveExtracted
<1>3. CASE Appear \/ Leave \/ UNCHANGED vars
  BY <1>3 DEF IInv, Appear, Leave, vars
<1>4. ASSUME NEW e \in list, Select(e)
      PROVE  UNCHANGED kept /\ ExtractsSelected'
  <2>1. e.dir # NoDir
    BY DirAssumption DEF IInv, TypeOK, Dirs
  <2> QED
    BY <1>4, <2>1 DEF Select
<1>5. ASSUME NEW s \in Seconds, Tick(s)
      PROVE  UNCHANGED kept /\ ExtractsSelected'
  BY <1>5 DEF IInv, Tick
<1> QED
  BY <1>1, <1>2, <1>3, <1>4, <1>5

LEMMA NextIInv == IInv /\ [Next]_vars => IInv'
<1> SUFFICES ASSUME IInv, [Next]_vars
             PROVE  IInv'
  OBVIOUS
<1>t. TypeOK'
  BY NextTypeOK DEF IInv
<1>1. ASSUME NEW r \in Runs, Start(r) \/ BackupStep(r)
      PROVE  IInv'
  BY <1>1, <1>t, StartIInv, MakeDirIInv, VendIInv, CreateZipIInv,
     FinishZipIInv, BeginMetadataIInv, EndMetadataIInv, FailIInv, ReportIInv
     DEF BackupStep
<1>2. CASE ExtractStep
  BY <1>2, <1>t, CheckExtractedIInv, OthersKeep, KeptIInv DEF ExtractStep
<1>3. CASE DeleteStep
  BY <1>3, <1>t, RemoveZipIInv, RemoveMetadataIInv, EndDeleteIInv,
     OthersKeep, KeptIInv DEF DeleteStep
<1>4. ASSUME NEW e \in list, Select(e) \/ Delete(e)
      PROVE  IInv'
  BY <1>4, <1>t, DeleteIInv, OthersKeep, KeptIInv
<1>5. CASE Kill
  BY <1>5, <1>t, KillIInv
<1>6. CASE \/ Appear \/ Leave
           \/ \E s \in Seconds : Tick(s)
           \/ UNCHANGED vars
  BY <1>6, <1>t, OthersKeep, KeptIInv
<1> QED
  BY <1>1, <1>2, <1>3, <1>4, <1>5, <1>6 DEF Next

\* IInv holds in every reachable state.
THEOREM Invariance == Spec => []IInv
<1>1. Init => IInv
  BY InitIInv
<1>2. IInv /\ [Next]_vars => IInv'
  BY NextIInv
<1> QED
  BY <1>1, <1>2, PTL DEF Spec

-----------------------------------------------------------------------------
(* What follows from it *)

\* Every variable keeps its type.
THEOREM TypeCorrect == Spec => []TypeOK
BY Invariance, PTL DEF IInv

\* The flag admits one backup at a time.
THEOREM OneAtATime == Spec => []OneBackupAtATime
BY Invariance, PTL DEF IInv

\* A backup that can be listed has the complete archive of its own run.
THEOREM ListedBackupsAreWhole == Spec => []ListedIsWhole
BY Invariance, PTL DEF IInv

\* Success is only announced for a backup that is on the disk.
THEOREM SuccessMeansStored == Spec => []SuccessIsStored
<1>1. IInv => SuccessIsStored
  BY DEF IInv, TypeOK, HasDir, Live, ArchiveStays, SavedIsDescribed,
     SuccessIsStored, Listable
<1> QED
  BY <1>1, Invariance, PTL

\* No step changes the archive or the metadata of a listed backup.
LEMMA ListedStays ==
    ASSUME IInv, [Next]_vars, NEW d \in Dirs, NEW r \in Runs,
           meta[d] = r, OnlyUse(d, r)'
    PROVE  meta'[d] = r /\ whole'[d] = whole[d]
<1> USE DEF IInv, OnlyUse
<1>1. ASSUME NEW s \in Runs, Start(s) \/ BackupStep(s)
      PROVE  meta'[d] = r /\ whole'[d] = whole[d]
  <2>1. CASE \/ Start(s) \/ MakeDir(s) \/ Vend(s)
             \/ Fail(s) \/ Report(s)
    BY <2>1 DEF Start, MakeDir, Vend, Fail, Report, disk
  <2>2. ASSUME \/ CreateZip(s) \/ FinishZip(s)
               \/ BeginMetadata(s) \/ EndMetadata(s)
        PROVE  meta'[d] = r /\ whole'[d] = whole[d]
    <3>1. /\ pc[s] \in {"create", "walk", "meta", "metaWrite"}
          /\ uses' = uses
      BY <2>2 DEF CreateZip, FinishZip, BeginMetadata, EndMetadata, history
    <3>2. s # r
      BY <3>1 DEF Provenance
    <3>3. d # dirOf[s]
      BY <3>1, <3>2 DEF HasDir, Live
    <3> QED
      BY <2>2, <3>3 DEF TypeOK, CreateZip, FinishZip, BeginMetadata,
         EndMetadata
  <2> QED
    BY <1>1, <2>1, <2>2 DEF BackupStep
<1>2. CASE ExtractStep
  BY <1>2 DEF ExtractStep, CheckExtracted, OpenZip, CopyEntries,
     ExtractFails, ShowExtracted, ShowError, disk
<1>3. CASE DeleteStep
  <2>1. d # NoDir /\ deleteTried' = deleteTried
    BY <1>3, DirAssumption DEF Dirs, DeleteStep, RemoveZip, RemoveMetadata,
       RemoveExtracted, EndDelete, history
  <2>2. d # deleting
    BY <2>1 DEF DeletionWasAsked
  <2> QED
    BY <1>3, <2>2 DEF DeleteStep, RemoveZip, RemoveMetadata,
       RemoveExtracted, EndDelete, TypeOK
<1>4. ASSUME \/ Appear \/ Leave \/ Kill
             \/ \E e \in list : Select(e) \/ Delete(e)
             \/ \E s \in Seconds : Tick(s)
      PROVE  meta'[d] = r /\ whole'[d] = whole[d]
  BY <1>4 DEF Appear, Leave, Kill, Select, Delete, Tick, disk
<1>5. CASE UNCHANGED vars
  BY <1>5 DEF vars
<1> QED
  BY <1>1, <1>2, <1>3, <1>4, <1>5 DEF Next

\* The archive and the metadata of a listed backup do not change.
THEOREM ListedBackupsAreImmutable == Spec => ListedIsImmutable
<1> DEFINE Same ==
      \A d \in Dirs, r \in Runs :
          meta[d] = r /\ OnlyUse(d, r)' => meta'[d] = r /\ whole'[d] = whole[d]
<1>1. IInv /\ [Next]_vars => [Same]_vars
  BY ListedStays
<1> QED
  BY <1>1, Invariance, PTL DEF Spec, ListedIsImmutable

-----------------------------------------------------------------------------
(* The rows of the list *)

\* A row was loaded from the metadata of a run that was given the directory.
RowsAreRuns == \A e \in list : e.run \in uses[e.dir]

RowInv == IInv /\ NoGhostRows /\ RowsAreRuns

\* Reloading the list makes it true whatever it was.
LEMMA ListableIsSound ==
    ASSUME IInv, NEW e \in Listable
    PROVE  e.run \in uses[e.dir]
BY DEF IInv, Provenance, Listable

\* A step that neither loads the list nor takes a backup away from the disk.
LEMMA RowsStay ==
    ASSUME RowInv, list' = list, dirs \subseteq dirs',
           \A d \in Dirs : uses[d] \subseteq uses'[d],
           deleting' = deleting \/ deleting = NoDir,
           \A d \in Dirs, r \in Runs :
               meta[d] = r /\ uses[d] = {r} /\ uses'[d] = {r} /\ d # deleting
                 => meta'[d] = r
    PROVE  NoGhostRows' /\ RowsAreRuns'
<1> USE DEF RowInv
<1>1. list \subseteq [dir : Dirs, run : Runs]
  BY DEF IInv, TypeOK
<1>2. RowsAreRuns'
  BY <1>1 DEF RowsAreRuns
<1>3. ASSUME NEW e \in list, e.dir # deleting', uses'[e.dir] = {e.run}
      PROVE  e \in Listable'
  <2>1. e.dir \in Dirs /\ e.run \in Runs /\ e \in [dir : Dirs, run : Runs]
    BY <1>1
  <2>2. uses[e.dir] = {e.run}
    BY <1>3, <2>1 DEF RowsAreRuns
  <2>3. e.dir # deleting
    BY <1>3, <2>1, DirAssumption DEF Dirs
  <2>4. e \in Listable
    BY <2>2, <2>3 DEF NoGhostRows
  <2>5. e.dir \in dirs' /\ meta'[e.dir] = e.run
    BY <1>3, <2>1, <2>2, <2>3, <2>4 DEF Listable
  <2> QED
    BY <2>1, <2>5 DEF Listable
<1> QED
  BY <1>2, <1>3 DEF NoGhostRows

LEMMA BackupRows ==
    ASSUME RowInv, NEW r \in Runs, Start(r) \/ BackupStep(r)
    PROVE  NoGhostRows' /\ RowsAreRuns'
<1> USE DEF RowInv, IInv
<1>1. /\ list' = list /\ deleting' = deleting
      /\ dirs \subseteq dirs'
  BY DEF BackupStep, Start, MakeDir, Vend, CreateZip, FinishZip,
     BeginMetadata, EndMetadata, Fail, Report, tab, disk
<1>2. \A d \in Dirs : uses[d] \subseteq uses'[d]
  BY DEF TypeOK, BackupStep, Start, MakeDir, Vend, CreateZip, FinishZip,
     BeginMetadata, EndMetadata, Fail, Report, history
<1>3. ASSUME NEW d \in Dirs, NEW q \in Runs, meta[d] = q, uses[d] = {q}
      PROVE  meta'[d] = q
  <2>1. ASSUME BeginMetadata(r) \/ EndMetadata(r)
        PROVE  meta'[d] = q
    <3>1. r # q
      BY <1>3, <2>1 DEF Provenance, BeginMetadata, EndMetadata
    <3>2. d # dirOf[r]
      BY <1>3, <2>1, <3>1 DEF HasDir, Live, BeginMetadata, EndMetadata
    <3> QED
      BY <1>3, <2>1, <3>2 DEF TypeOK, BeginMetadata, EndMetadata
  <2> QED
    BY <1>3, <2>1 DEF BackupStep, Start, MakeDir, Vend, CreateZip, FinishZip,
       Fail, Report, disk
<1> QED
  BY <1>1, <1>2, <1>3, RowsStay

LEMMA TabRows ==
    ASSUME RowInv,
           \/ ExtractStep \/ Leave
           \/ RemoveZip \/ RemoveMetadata \/ RemoveExtracted
           \/ \E e \in list : Select(e) \/ Delete(e)
           \/ \E s \in Seconds : Tick(s)
           \/ UNCHANGED vars
    PROVE  NoGhostRows' /\ RowsAreRuns'
<1> USE DEF RowInv, IInv, disk, tab, history
<1>1. CASE ExtractStep
  <2>1. /\ list' = list /\ dirs \subseteq dirs' /\ uses' = uses
        /\ deleting' = deleting /\ meta' = meta
    BY <1>1 DEF ExtractStep, CheckExtracted, OpenZip, CopyEntries,
       ExtractFails, ShowExtracted, ShowError
  <2> QED
    BY <2>1, RowsStay
<1>2. CASE RemoveZip \/ RemoveMetadata \/ RemoveExtracted
  <2>1. /\ list' = list /\ dirs' = dirs /\ uses' = uses
        /\ deleting' = deleting
        /\ \A d \in Dirs : d # deleting => meta'[d] = meta[d]
    BY <1>2 DEF TypeOK, RemoveZip, RemoveMetadata, RemoveExtracted
  <2> QED
    BY <2>1, RowsStay
<1>3. CASE \/ Leave \/ UNCHANGED vars
           \/ \E e \in list : Select(e) \/ Delete(e)
           \/ \E s \in Seconds : Tick(s)
  <2>1. /\ list' = list /\ dirs' = dirs /\ uses' = uses /\ meta' = meta
        /\ deleting' = deleting \/ deleting = NoDir
    BY <1>3 DEF Leave, Select, Delete, Tick, vars, MainThreadIsFree
  <2> QED
    BY <2>1, RowsStay
<1> QED
  BY <1>1, <1>2, <1>3

LEMMA LoadRows ==
    ASSUME RowInv, Appear \/ EndDelete \/ Kill
    PROVE  NoGhostRows' /\ RowsAreRuns'
<1> USE DEF RowInv, disk, history
<1>1. CASE Appear
  BY <1>1, ListableIsSound DEF Appear, NoGhostRows, RowsAreRuns, Listable
<1>2. CASE EndDelete
  <2>1. /\ list' = {e \in Listable : e.dir \in dirs'}
        /\ meta' = meta /\ uses' = uses
    BY <1>2 DEF EndDelete
  <2>2. list' \subseteq Listable'
    BY <2>1 DEF Listable
  <2> QED
    BY <2>1, <2>2, ListableIsSound DEF NoGhostRows, RowsAreRuns
<1>3. CASE Kill
  BY <1>3 DEF Kill, NoGhostRows, RowsAreRuns
<1> QED
  BY <1>1, <1>2, <1>3

LEMMA InitRowInv == Init => RowInv
<1>1. Init => NoGhostRows /\ RowsAreRuns
  BY DEF Init, NoGhostRows, RowsAreRuns
<1> QED
  BY <1>1, InitIInv DEF RowInv

LEMMA NextRowInv == RowInv /\ [Next]_vars => RowInv'
<1> SUFFICES ASSUME RowInv, [Next]_vars
             PROVE  NoGhostRows' /\ RowsAreRuns'
  BY NextIInv DEF RowInv
<1>1. ASSUME NEW r \in Runs, Start(r) \/ BackupStep(r)
      PROVE  NoGhostRows' /\ RowsAreRuns'
  BY <1>1, BackupRows
<1>2. CASE Appear \/ EndDelete \/ Kill
  BY <1>2, LoadRows
<1>3. CASE \/ ExtractStep \/ Leave
           \/ RemoveZip \/ RemoveMetadata \/ RemoveExtracted
           \/ \E e \in list : Select(e) \/ Delete(e)
           \/ \E s \in Seconds : Tick(s)
           \/ UNCHANGED vars
  BY <1>3, TabRows
<1> QED
  BY <1>1, <1>2, <1>3 DEF Next, DeleteStep

\* A row of the list stands for a backup on the disk.
THEOREM RowsAreNotGhosts == Spec => []NoGhostRows
<1>1. Spec => []RowInv
  BY InitRowInv, NextRowInv, PTL DEF Spec
<1> QED
  BY <1>1, PTL DEF RowInv

-----------------------------------------------------------------------------
(* The store and the shelf *)

\* A run has no directory before it has taken its time stamp.
NoDirYet == \A r \in Runs : pc[r] \in {"new", "mkdir"} => dirOf[r] = NoDir

\* A directory never forgets the runs that got it.
DirRemembers ==
    \A r \in Runs : dirOf[r] # NoDir => r \in uses[dirOf[r]]

ToldAtTheEnd == \A r \in Runs : outcome[r] = "ok" => pc[r] = "done"

ZipHasDir == \A d \in Dirs : d \in zips /\ d \notin deleteTried => d \in dirs

\* What the refinement needs beside IInv.
ShelfInv ==
    /\ IInv
    /\ NoDirYet
    /\ DirRemembers
    /\ ToldAtTheEnd
    /\ ZipHasDir

-----------------------------------------------------------------------------
(* The invariant of the refinement *)

LEMMA ShelfInvInit == Init => ShelfInv
<1> SUFFICES ASSUME Init PROVE ShelfInv
  OBVIOUS
<1>1. IInv
  BY InitIInv
<1>2. NoDirYet /\ DirRemembers /\ ToldAtTheEnd /\ ZipHasDir
  BY DEF Init, NoDirYet, DirRemembers, ToldAtTheEnd, ZipHasDir
<1> QED
  BY <1>1, <1>2 DEF ShelfInv

\* A step that makes no backup keeps what is known of the tasks: only a kill
\* moves them, and it moves the living.
LEMMA OthersKeepTasks ==
    ASSUME TypeOK, ExtractStep \/ DeleteStep \/ Appear \/ Leave \/ Kill
                   \/ (\E e \in list : Select(e) \/ Delete(e))
                   \/ (\E s \in Seconds : Tick(s)) \/ UNCHANGED vars
    PROVE  /\ UNCHANGED <<dirOf, outcome, uses>>
           /\ \A r \in Runs : pc'[r] = pc[r]
                              \/ (pc[r] \in Live /\ pc'[r] = "dead")
<1> USE DEF disk, tasks, tab, history
<1>1. CASE ExtractStep
  BY <1>1 DEF ExtractStep, CheckExtracted, OpenZip, CopyEntries, ExtractFails,
     ShowExtracted, ShowError
<1>2. CASE DeleteStep
  BY <1>2 DEF DeleteStep, RemoveZip, RemoveMetadata, RemoveExtracted,
     EndDelete
<1>3. CASE Appear \/ Leave \/ (\E s \in Seconds : Tick(s)) \/ UNCHANGED vars
  BY <1>3 DEF Appear, Leave, Tick, vars
<1>4. CASE \E e \in list : Select(e) \/ Delete(e)
  BY <1>4 DEF Select, Delete
<1>5. CASE Kill
  BY <1>5 DEF TypeOK, Kill
<1> QED
  BY <1>1, <1>2, <1>3, <1>4, <1>5

\* A step of a backup takes its own run further, and only Report tells.
LEMMA BackupKeepsTasks ==
    ASSUME TypeOK, NEW s \in Runs, Start(s) \/ BackupStep(s)
    PROVE  /\ \A r \in Runs \ {s} : pc'[r] = pc[r]
           /\ pc'[s] \in {"new", "mkdir"} => pc'[s] = "mkdir" /\ pc[s] = "new"
           /\ pc[s] # "done"
           /\ MakeDir(s) \/ UNCHANGED <<dirOf, uses>>
           /\ Report(s) \/ outcome' = outcome
<1> USE DEF TypeOK, Goto, Working, Live, disk, history
<1>1. CASE Start(s)
  BY <1>1 DEF Start
<1>2. CASE MakeDir(s) \/ Report(s)
  BY <1>2 DEF MakeDir, Report
<1>3. CASE Vend(s) \/ CreateZip(s) \/ FinishZip(s)
  BY <1>3 DEF Vend, CreateZip, FinishZip
<1>4. CASE BeginMetadata(s) \/ EndMetadata(s) \/ Fail(s)
  BY <1>4 DEF BeginMetadata, EndMetadata, Fail
<1> QED
  BY <1>1, <1>2, <1>3, <1>4 DEF BackupStep

LEMMA ZipHasDirStep ==
    ASSUME IInv, ZipHasDir, Next
    PROVE  ZipHasDir'
<1> USE DEF ZipHasDir, IInv, TypeOK
<1>1. ASSUME NEW s \in Runs, Start(s) \/ BackupStep(s)
      PROVE  ZipHasDir'
  <2> USE DEF disk, history
  <2>1. CASE Start(s) \/ Vend(s) \/ Fail(s) \/ Report(s)
    BY <2>1 DEF Start, Vend, Fail, Report
  <2>2. CASE MakeDir(s) \/ CreateZip(s) \/ FinishZip(s)
    BY <2>2 DEF MakeDir, CreateZip, FinishZip
  <2>3. CASE BeginMetadata(s) \/ EndMetadata(s)
    BY <2>3 DEF BeginMetadata, EndMetadata
  <2> QED
    BY <1>1, <2>1, <2>2, <2>3 DEF BackupStep
<1>2. CASE ExtractStep
  BY <1>2 DEF ExtractStep, CheckExtracted, OpenZip, CopyEntries, ExtractFails,
     ShowExtracted, ShowError, disk, history
<1>3. CASE DeleteStep
  BY <1>3 DEF DeleteStep, RemoveZip, RemoveMetadata, RemoveExtracted,
     EndDelete, DeletionWasAsked, history
<1>4. CASE \/ Appear \/ Leave \/ Kill
           \/ \E e \in list : Select(e) \/ Delete(e)
           \/ \E s \in Seconds : Tick(s)
  BY <1>4 DEF Appear, Leave, Kill, Select, Delete, Tick, disk, history
<1> QED
  BY <1>1, <1>2, <1>3, <1>4 DEF Next

LEMMA ShelfInvNext == ShelfInv /\ [Next]_vars => ShelfInv'
<1> SUFFICES ASSUME ShelfInv, [Next]_vars
             PROVE  ShelfInv'
  OBVIOUS
<1>1. IInv' /\ TypeOK
  BY NextIInv DEF ShelfInv, IInv
<1>2. ZipHasDir'
  BY ZipHasDirStep DEF ShelfInv, ZipHasDir, vars
<1>3. ASSUME NEW s \in Runs, Start(s) \/ BackupStep(s)
      PROVE  NoDirYet' /\ DirRemembers' /\ ToldAtTheEnd'
  <2>1. NoDirYet'
    BY <1>1, <1>3, BackupKeepsTasks DEF ShelfInv, NoDirYet, MakeDir, TypeOK,
       Goto
  <2>2. DirRemembers'
    <3>1. CASE MakeDir(s)
      <4> DEFINE d == <<bundleOf[s], now>>
      <4>1. d \in Dirs /\ dirOf'[s] = d /\ uses'[d] = uses[d] \cup {s}
        BY <1>1, <3>1 DEF MakeDir, TypeOK, Dirs
      <4>2. /\ \A r \in Runs \ {s} : dirOf'[r] = dirOf[r]
            /\ \A e \in Dirs : uses[e] \subseteq uses'[e]
        BY <1>1, <3>1 DEF MakeDir, TypeOK, Dirs
      <4>3. \A r \in Runs : dirOf[r] # NoDir => dirOf[r] \in Dirs
        BY <1>1 DEF TypeOK
      <4> QED
        BY <4>1, <4>2, <4>3 DEF ShelfInv, DirRemembers
    <3>2. CASE UNCHANGED <<dirOf, uses>>
      BY <3>2 DEF ShelfInv, DirRemembers
    <3> QED
      BY <1>1, <1>3, <3>1, <3>2, BackupKeepsTasks
  <2>3. ToldAtTheEnd'
    BY <1>1, <1>3, BackupKeepsTasks DEF ShelfInv, ToldAtTheEnd, Report,
       TypeOK, Goto
  <2> QED
    BY <2>1, <2>2, <2>3
<1>4. CASE ExtractStep \/ DeleteStep \/ Appear \/ Leave \/ Kill
           \/ (\E e \in list : Select(e) \/ Delete(e))
           \/ (\E s \in Seconds : Tick(s)) \/ UNCHANGED vars
  <2>1. NoDirYet' /\ DirRemembers' /\ ToldAtTheEnd'
    BY <1>1, <1>4, OthersKeepTasks DEF ShelfInv, NoDirYet, DirRemembers,
       ToldAtTheEnd, Live
  <2> QED
    BY <1>1, <1>2, <2>1 DEF ShelfInv
<1> QED
  BY <1>1, <1>2, <1>3, <1>4 DEF ShelfInv, Next

\* ShelfInv holds in every reachable state.
THEOREM ShelfInvariance == Spec => []ShelfInv
BY ShelfInvInit, ShelfInvNext, PTL DEF Spec

-----------------------------------------------------------------------------
(* The refinement *)

\* With the invariant, a run is kept as soon as the metadata describe it.
Described ==
    {r \in Runs : /\ dirOf[r] # NoDir
                  /\ OnlyUse(dirOf[r], r)
                  /\ meta[dirOf[r]] = r}
KeptIsDescribed == KeptRuns = Described

LEMMA KeptByMetadata == ShelfInv => KeptIsDescribed
<1> SUFFICES ASSUME ShelfInv, NEW r \in Runs
             PROVE  r \in KeptRuns <=> r \in Described
  BY DEF KeptIsDescribed, KeptRuns, Described
<1>1. ASSUME r \in Described
      PROVE  r \in KeptRuns
  <2> DEFINE d == dirOf[r]
  <2>1. d \in Dirs /\ OnlyUse(d, r) /\ meta[d] = r
    BY <1>1 DEF Described, ShelfInv, IInv, TypeOK
  <2>2. d \in zips /\ whole[d] = r
    BY <2>1 DEF ShelfInv, IInv, ListedIsWhole
  <2>3. d \in dirs
    BY <2>1, <2>2 DEF ShelfInv, ZipHasDir, OnlyUse
  <2> QED
    BY <1>1, <2>1, <2>2, <2>3 DEF Described, KeptRuns, Listable
<1>2. ASSUME r \in KeptRuns
      PROVE  r \in Described
  BY <1>2 DEF KeptRuns, Described, Listable
<1> QED
  BY <1>1, <1>2

GivenUp == {r \in Runs : DirGivenUp(dirOf[r], r)}
Told    == {r \in Runs : outcome[r] = "ok"}

\* The steps that the shelf does not see.
LEMMA UnseenByShelf ==
    ASSUME KeptIsDescribed, KeptIsDescribed', Described' = Described,
           UNCHANGED <<dirOf, uses, deleteTried, outcome>>
    PROVE  UNCHANGED Shelf!vars
BY DEF KeptIsDescribed, Shelf!vars, DirGivenUp, OnlyUse

\* Two runs that have a directory to themselves, at the same place, are one.
LEMMA OneOwner ==
    ASSUME ShelfInv, NEW r \in Runs, NEW s \in Runs,
           dirOf[s] # NoDir, dirOf[r] = dirOf[s], OnlyUse(dirOf[r], r)
    PROVE  r = s
BY DEF ShelfInv, DirRemembers, OnlyUse

\* EndMetadata keeps the backup, unless its directory has been given up.
LEMMA EndMetadataKeeps ==
    ASSUME ShelfInv, ShelfInv', KeptIsDescribed, KeptIsDescribed',
           NEW s \in Runs, EndMetadata(s)
    PROVE  Shelf!Keep(s) \/ UNCHANGED Shelf!vars
<1> USE DEF Shelf!Keep, Shelf!vars, KeptIsDescribed
<1> DEFINE d == dirOf[s]
<1>1. /\ pc[s] = "metaWrite" /\ pc'[s] = "saved"
      /\ UNCHANGED <<dirOf, uses, deleteTried, outcome>>
      /\ d \in Dirs /\ d # NoDir
  <2>1. /\ pc[s] = "metaWrite" /\ pc'[s] = "saved"
        /\ UNCHANGED <<dirOf, uses, deleteTried, outcome>>
    BY DEF ShelfInv, IInv, TypeOK, EndMetadata, Goto, history
  <2> QED
    BY <2>1, DirAssumption DEF ShelfInv, IInv, HasDir, Live, Dirs
<1>2. UNCHANGED <<GivenUp, Told>>
  BY <1>1 DEF GivenUp, Told, DirGivenUp, OnlyUse
<1>3. \A r \in Described : r # s /\ dirOf[r] # d
  BY <1>1, OneOwner DEF Described, ShelfInv, IInv, Provenance
<1>4. \A r \in Runs : dirOf[r] # NoDir /\ dirOf[r] # d =>
          meta'[dirOf[r]] = meta[dirOf[r]]
  BY DEF ShelfInv, IInv, TypeOK, EndMetadata
<1>5. CASE OnlyUse(d, s)
  <2>1. meta'[d] = s
    BY <1>1, <1>5 DEF ShelfInv, IInv, TypeOK, ArchiveStays, OnlyUse,
       EndMetadata
  <2>2. Described' = Described \cup {s}
    <3>1. ASSUME NEW r \in Runs
          PROVE  r \in Described' <=> r \in Described \cup {s}
      <4>1. CASE r = s
        BY <1>1, <1>5, <2>1, <4>1 DEF Described, OnlyUse
      <4>2. CASE r # s /\ dirOf[r] = d
        BY <1>1, <1>3, <1>5, <4>2, OneOwner DEF Described, OnlyUse
      <4>3. CASE dirOf[r] # d
        BY <1>1, <1>4, <4>3 DEF Described, OnlyUse
      <4> QED
        BY <4>1, <4>2, <4>3
    <3> QED
      BY <3>1 DEF Described
  <2>3. s \notin Described \cup GivenUp \cup Told
    BY <1>1, <1>3, <1>5 DEF GivenUp, DirGivenUp, Told, ShelfInv, ToldAtTheEnd
  <2> QED
    BY <1>2, <2>2, <2>3 DEF GivenUp, Told
<1>6. CASE ~OnlyUse(d, s)
  <2>1. Described' = Described
    <3>1. ASSUME NEW r \in Runs
          PROVE  r \in Described' <=> r \in Described
      <4>1. CASE dirOf[r] = d
        BY <1>1, <1>3, <1>6, <4>1, OneOwner DEF Described, OnlyUse
      <4>2. CASE dirOf[r] # d
        BY <1>1, <1>4, <4>2 DEF Described, OnlyUse
      <4> QED
        BY <4>1, <4>2
    <3> QED
      BY <3>1 DEF Described
  <2> QED
    BY <1>1, <2>1, UnseenByShelf
<1> QED
  BY <1>5, <1>6

\* MakeDir gives up what was in the directory.
LEMMA MakeDirGivesUp ==
    ASSUME ShelfInv, ShelfInv', KeptIsDescribed, KeptIsDescribed',
           NEW s \in Runs, MakeDir(s)
    PROVE  [Shelf!Next]_Shelf!vars
<1> USE DEF Shelf!GiveUp, Shelf!vars, KeptIsDescribed
<1> DEFINE d == <<bundleOf[s], now>>
           B == GivenUp' \ GivenUp
<1>1. /\ d \in Dirs /\ d # NoDir
      /\ dirOf[s] = NoDir /\ dirOf'[s] = d
      /\ uses'[d] = uses[d] \cup {s}
      /\ pc'[s] = "vend"
      /\ UNCHANGED <<meta, deleteTried, outcome>>
  BY DirAssumption DEF ShelfInv, IInv, TypeOK, NoDirYet, MakeDir, Goto, Dirs
<1>2. /\ \A r \in Runs \ {s} : dirOf'[r] = dirOf[r]
      /\ \A e \in Dirs \ {d} : uses'[e] = uses[e]
      /\ \A r \in Runs : dirOf[r] # NoDir => dirOf[r] \in Dirs
  BY DEF ShelfInv, IInv, TypeOK, MakeDir
<1>3. s \notin Described /\ s \notin Described' /\ s \notin GivenUp
  BY <1>1 DEF Described, GivenUp, DirGivenUp, ShelfInv, IInv, Provenance
<1>4. ASSUME NEW r \in Runs, r # s, dirOf[r] # d
      PROVE  /\ r \in Described' <=> r \in Described
             /\ r \in GivenUp' <=> r \in GivenUp
  BY <1>1, <1>2, <1>4 DEF Described, GivenUp, DirGivenUp, OnlyUse
<1>5. ASSUME NEW r \in Runs, r # s, dirOf[r] = d
      PROVE  r \notin Described' /\ r \in GivenUp'
  BY <1>1, <1>2, <1>5 DEF Described, GivenUp, DirGivenUp, OnlyUse
<1>6. \A r \in Described : r \notin GivenUp
  BY DEF Described, GivenUp, DirGivenUp
<1>7. Described' = Described \ B
  <2>1. ASSUME NEW r \in Runs
        PROVE  r \in Described' <=> r \in Described \ B
    BY <1>3, <1>4, <1>5, <1>6
  <2> QED
    BY <2>1 DEF Described
<1>8. GivenUp' = GivenUp \cup B
  <2>1. ASSUME NEW r \in GivenUp
        PROVE  r \in GivenUp'
    BY <1>3, <1>4, <1>5, <2>1 DEF GivenUp
  <2> QED
    BY <2>1
<1>9. Told' = Told
  BY <1>1 DEF Told
<1>10. CASE B = {}
  BY <1>7, <1>8, <1>9, <1>10 DEF GivenUp, Told
<1>11. CASE B # {}
  <2>1. Shelf!GiveUp(B)
    BY <1>7, <1>8, <1>9, <1>11 DEF GivenUp, Told
  <2>2. B \in SUBSET Runs
    BY DEF GivenUp
  <2> QED
    BY <2>1, <2>2 DEF Shelf!Next
<1> QED
  BY <1>10, <1>11

\* And so does a deletion that is asked for.
LEMMA DeleteGivesUp ==
    ASSUME ShelfInv, ShelfInv', KeptIsDescribed, KeptIsDescribed',
           NEW e \in list, Delete(e)
    PROVE  [Shelf!Next]_Shelf!vars
<1> USE DEF Shelf!GiveUp, Shelf!vars, KeptIsDescribed
<1> DEFINE B == GivenUp' \ GivenUp
<1>1. /\ deleteTried' = deleteTried \cup {e.dir}
      /\ UNCHANGED <<meta, uses, dirOf, outcome>>
  BY DEF Delete, disk, tasks
<1>2. ASSUME NEW r \in Runs, dirOf[r] # e.dir
      PROVE  /\ r \in Described' <=> r \in Described
             /\ r \in GivenUp' <=> r \in GivenUp
  BY <1>1, <1>2 DEF Described, GivenUp, DirGivenUp, OnlyUse
<1>3. ASSUME NEW r \in Runs, dirOf[r] = e.dir
      PROVE  r \notin Described' /\ (r \in GivenUp => r \in GivenUp')
             /\ (r \in Described => r \in GivenUp')
  BY <1>1, <1>3 DEF Described, GivenUp, DirGivenUp, OnlyUse
<1>4. \A r \in Described : r \notin GivenUp
  BY DEF Described, GivenUp, DirGivenUp
<1>5. Described' = Described \ B
  <2>1. ASSUME NEW r \in Runs
        PROVE  r \in Described' <=> r \in Described \ B
    BY <1>2, <1>3, <1>4
  <2> QED
    BY <2>1 DEF Described
<1>6. GivenUp' = GivenUp \cup B
  <2>1. ASSUME NEW r \in GivenUp
        PROVE  r \in GivenUp'
    BY <1>2, <1>3 DEF GivenUp
  <2> QED
    BY <2>1
<1>7. Told' = Told
  BY <1>1 DEF Told
<1>8. CASE B = {}
  BY <1>5, <1>6, <1>7, <1>8 DEF GivenUp, Told
<1>9. CASE B # {}
  <2>1. Shelf!GiveUp(B)
    BY <1>5, <1>6, <1>7, <1>9 DEF GivenUp, Told
  <2>2. B \in SUBSET Runs
    BY DEF GivenUp
  <2> QED
    BY <2>1, <2>2 DEF Shelf!Next
<1> QED
  BY <1>8, <1>9

\* Report announces what is stored.
LEMMA ReportAnnounces ==
    ASSUME ShelfInv, ShelfInv', KeptIsDescribed, KeptIsDescribed',
           NEW s \in Runs, Report(s)
    PROVE  [Shelf!Next]_Shelf!vars
<1> USE DEF KeptIsDescribed
<1>1. UNCHANGED <<dirOf, uses, deleteTried, meta>>
  BY DEF Report, disk, history
<1>2. Described' = Described /\ GivenUp' = GivenUp
  BY <1>1 DEF Described, GivenUp, DirGivenUp, OnlyUse
<1>3. outcome[s] # "ok"
  BY DEF ShelfInv, ToldAtTheEnd, Report
<1>4. CASE pc[s] = "saved"
  <2>1. Told' = Told \cup {s}
    BY <1>4 DEF Told, ShelfInv, IInv, TypeOK, Report
  <2>2. dirOf[s] \in Dirs /\ dirOf[s] # NoDir
    BY <1>4, DirAssumption DEF ShelfInv, IInv, HasDir, Live, Dirs
  <2>3. s \in Described \cup GivenUp
    BY <1>4, <2>2 DEF Described, GivenUp, DirGivenUp, OnlyUse, ShelfInv, IInv,
       SavedIsDescribed
  <2>4. s \notin Told
    BY <1>3 DEF Told
  <2>5. Shelf!Announce(s)
    BY <1>2, <2>1, <2>3, <2>4 DEF Shelf!Announce, GivenUp, Told
  <2> QED
    BY <2>5 DEF Shelf!Next
<1>5. CASE pc[s] = "failed"
  <2>1. Told' = Told
    BY <1>3, <1>5 DEF Told, ShelfInv, IInv, TypeOK, Report
  <2> QED
    BY <1>2, <2>1 DEF GivenUp, Told, Shelf!vars
<1> QED
  BY <1>4, <1>5 DEF Report

\* No other step is seen on the shelf.
LEMMA OthersAreUnseen ==
    ASSUME ShelfInv,
           \/ \E s \in Runs : \/ Start(s) \/ Vend(s) \/ CreateZip(s)
                              \/ FinishZip(s) \/ BeginMetadata(s) \/ Fail(s)
           \/ ExtractStep \/ DeleteStep \/ Appear \/ Leave \/ Kill
           \/ \E e \in list : Select(e)
           \/ \E s \in Seconds : Tick(s)
           \/ UNCHANGED vars
    PROVE  /\ UNCHANGED <<dirOf, uses, deleteTried, outcome>>
           /\ Described' = Described
<1> USE DEF disk, tasks, tab, history
<1>1. ASSUME NEW s \in Runs, BeginMetadata(s)
      PROVE  /\ UNCHANGED <<dirOf, uses, deleteTried, outcome>>
             /\ Described' = Described
  <2>1. pc[s] = "meta" /\ UNCHANGED <<dirOf, uses, deleteTried, outcome>>
    BY <1>1 DEF BeginMetadata
  <2>2. dirOf[s] \in Dirs /\ dirOf[s] # NoDir
    BY <2>1, DirAssumption DEF ShelfInv, IInv, HasDir, Live, Dirs
  <2>3. \A r \in Described : r # s /\ dirOf[r] # dirOf[s]
    BY <2>1, <2>2, OneOwner DEF Described, ShelfInv, IInv, TypeOK, Provenance
  <2>4. /\ meta'[dirOf[s]] = NoRun
        /\ \A d \in Dirs \ {dirOf[s]} : meta'[d] = meta[d]
    BY <1>1, <2>2 DEF ShelfInv, IInv, TypeOK, BeginMetadata
  <2>5. \A r \in Runs : dirOf[r] # NoDir => dirOf[r] \in Dirs
    BY DEF ShelfInv, IInv, TypeOK
  <2>6. ASSUME NEW r \in Runs
        PROVE  r \in Described' <=> r \in Described
    BY <2>1, <2>3, <2>4, <2>5, RunAssumption DEF Described, OnlyUse
  <2> QED
    BY <2>1, <2>6 DEF Described
<1>2. CASE RemoveMetadata
  <2>1. /\ UNCHANGED <<dirOf, uses, deleteTried, outcome>>
        /\ deleting \in deleteTried
        /\ \A d \in Dirs \ {deleting} : meta'[d] = meta[d]
    BY <1>2 DEF RemoveMetadata, ShelfInv, IInv, TypeOK, DeletionWasAsked
  <2>2. \A r \in Runs : dirOf[r] # NoDir => dirOf[r] \in Dirs
    BY DEF ShelfInv, IInv, TypeOK
  <2>3. ASSUME NEW r \in Runs
        PROVE  r \in Described' <=> r \in Described
    BY <2>1, <2>2 DEF Described, OnlyUse
  <2> QED
    BY <2>1, <2>3 DEF Described
<1>3. ASSUME UNCHANGED <<dirOf, uses, deleteTried, outcome, meta>>
      PROVE  /\ UNCHANGED <<dirOf, uses, deleteTried, outcome>>
             /\ Described' = Described
  BY <1>3 DEF Described, OnlyUse
<1>4. CASE \E s \in Runs : \/ Start(s) \/ Vend(s) \/ CreateZip(s)
                           \/ FinishZip(s) \/ Fail(s)
  BY <1>3, <1>4 DEF Start, Vend, CreateZip, FinishZip, Fail
<1>5. CASE ExtractStep
  BY <1>3, <1>5 DEF ExtractStep, CheckExtracted, OpenZip, CopyEntries,
     ExtractFails, ShowExtracted, ShowError
<1>6. CASE RemoveZip \/ RemoveExtracted \/ EndDelete
  BY <1>3, <1>6 DEF RemoveZip, RemoveExtracted, EndDelete
<1>7. CASE Appear \/ Leave \/ Kill \/ UNCHANGED vars
  BY <1>3, <1>7 DEF Appear, Leave, Kill, vars
<1>8. CASE \/ \E e \in list : Select(e)
           \/ \E s \in Seconds : Tick(s)
  BY <1>3, <1>8 DEF Select, Tick
<1> QED
  BY <1>1, <1>2, <1>4, <1>5, <1>6, <1>7, <1>8 DEF DeleteStep

LEMMA StepRefines ==
    ShelfInv /\ ShelfInv' /\ KeptIsDescribed /\ KeptIsDescribed' /\ [Next]_vars
        => [Shelf!Next]_Shelf!vars
<1> SUFFICES ASSUME ShelfInv, ShelfInv', KeptIsDescribed, KeptIsDescribed',
                    [Next]_vars
             PROVE  [Shelf!Next]_Shelf!vars
  OBVIOUS
<1>1. ASSUME NEW s \in Runs, EndMetadata(s)
      PROVE  [Shelf!Next]_Shelf!vars
  BY <1>1, EndMetadataKeeps DEF Shelf!Next
<1>2. ASSUME NEW s \in Runs, MakeDir(s) \/ Report(s)
      PROVE  [Shelf!Next]_Shelf!vars
  BY <1>2, MakeDirGivesUp, ReportAnnounces
<1>3. ASSUME NEW e \in list, Delete(e)
      PROVE  [Shelf!Next]_Shelf!vars
  BY <1>3, DeleteGivesUp
<1>4. CASE \/ \E s \in Runs : \/ Start(s) \/ Vend(s) \/ CreateZip(s)
                              \/ FinishZip(s) \/ BeginMetadata(s) \/ Fail(s)
           \/ ExtractStep \/ DeleteStep \/ Appear \/ Leave \/ Kill
           \/ \E e \in list : Select(e)
           \/ \E s \in Seconds : Tick(s)
           \/ UNCHANGED vars
  BY <1>4, OthersAreUnseen, UnseenByShelf
<1> QED
  BY <1>1, <1>2, <1>3, <1>4 DEF Next, BackupStep

\* The store keeps the promise of BackupShelf.
THEOREM ShelfRefinement == Spec => KeepsBackups
<1>1. Init => Shelf!Init
  BY DEF Init, Shelf!Init, KeptRuns, DirGivenUp
<1> QED
  BY <1>1, KeptByMetadata, StepRefines, ShelfInvariance, PTL
     DEF Spec, KeepsBackups, Shelf!Spec
-----------------------------------------------------------------------------
(* What the browser shows *)

\* Something is selected while it is looked at or shown, and nothing is while
\* something is deleted.
TabFits ==
    /\ deleting # NoDir => selected = NoDir
    /\ selected = NoDir => ext = "idle" /\ shown = NoDir
    /\ shown # NoDir => shown = selected /\ ext = "idle" /\ shown \in extracted
    /\ ext \in {"open", "copy", "ok"} => selected \in extracted

\* What can be looked at is a directory that a run was given.
SelectedWasUsed ==
    /\ selected # NoDir => uses[selected] # {}
    /\ \A d \in extracted : uses[d] # {}

\* As long as nobody else was given the directory, what is selected is the
\* backup of its run.
SelectedIsDescribed ==
    \A r \in Runs :
        selected # NoDir /\ OnlyUse(selected, r) => meta[selected] = r

\* Then the archive that is being unpacked is that run's, and not one that a
\* failed run has left.
CopyFits ==
    \A r \in Runs : ext = "copy" /\ OnlyUse(selected, r) => exSrc = r

\* An extraction that did not break off is complete or still under way.
ExtractedFits ==
    \A d \in extracted \ (exBroken \cup deleteTried), r \in Runs :
        uses[d] = {r} =>
            \/ exWhole[d] = r
            \/ selected = d /\ ext \in {"open", "copy"}

\* What UnbrokenIsWhole needs beside the rest.
ShownInv ==
    /\ RowInv
    /\ TabFits
    /\ SelectedWasUsed
    /\ SelectedIsDescribed
    /\ CopyFits
    /\ ExtractedFits

LEMMA InitShownInv == Init => ShownInv
<1> SUFFICES ASSUME Init PROVE ShownInv
  OBVIOUS
<1>1. RowInv
  BY InitRowInv
<1>2. TabFits /\ SelectedWasUsed /\ SelectedIsDescribed /\ CopyFits
      /\ ExtractedFits
  BY DEF Init, TabFits, SelectedWasUsed, SelectedIsDescribed, CopyFits,
     ExtractedFits
<1> QED
  BY <1>1, <1>2 DEF ShownInv

\* A backup step does not touch the tab or what is extracted, and forgets no
\* run of a directory.
LEMMA BackupKeepsTab ==
    ASSUME IInv, NEW s \in Runs, Start(s) \/ BackupStep(s)
    PROVE  /\ UNCHANGED <<tab, extracted, exWhole, deleteTried, exBroken>>
           /\ \A d \in Dirs : uses[d] \subseteq uses'[d]
<1> USE DEF IInv, TypeOK, disk, history
<1>1. CASE Start(s) \/ Vend(s) \/ Fail(s) \/ Report(s)
  BY <1>1 DEF Start, Vend, Fail, Report
<1>2. CASE MakeDir(s)
  BY <1>2 DEF MakeDir
<1>3. CASE CreateZip(s) \/ FinishZip(s)
  BY <1>3 DEF CreateZip, FinishZip
<1>4. CASE BeginMetadata(s) \/ EndMetadata(s)
  BY <1>4 DEF BeginMetadata, EndMetadata
<1> QED
  BY <1>1, <1>2, <1>3, <1>4 DEF BackupStep

\* The runs of a directory and the deletions are not forgotten.
LEMMA HistoryGrows ==
    ASSUME IInv, [Next]_vars
    PROVE  /\ \A d \in Dirs : uses[d] \subseteq uses'[d]
           /\ deleteTried \subseteq deleteTried'
<1> USE DEF history
<1>1. ASSUME NEW s \in Runs, Start(s) \/ BackupStep(s)
      PROVE  /\ \A d \in Dirs : uses[d] \subseteq uses'[d]
             /\ deleteTried \subseteq deleteTried'
  BY <1>1, BackupKeepsTab
<1>2. CASE ExtractStep
  BY <1>2 DEF ExtractStep, CheckExtracted, OpenZip, CopyEntries,
     ExtractFails, ShowExtracted, ShowError
<1>3. CASE DeleteStep
  BY <1>3 DEF DeleteStep, RemoveZip, RemoveMetadata, RemoveExtracted,
     EndDelete
<1>4. CASE Appear \/ Leave \/ Kill \/ UNCHANGED vars
  BY <1>4 DEF Appear, Leave, Kill, vars
<1>5. CASE \/ \E e \in list : Select(e) \/ Delete(e)
           \/ \E s \in Seconds : Tick(s)
  BY <1>5 DEF Select, Delete, Tick
<1> QED
  BY <1>1, <1>2, <1>3, <1>4, <1>5 DEF Next

LEMMA SelectionStays ==
    ASSUME ShownInv, [Next]_vars, selected' \in {selected, NoDir}
    PROVE  SelectedIsDescribed'
<1> SUFFICES ASSUME NEW r \in Runs, selected' # NoDir, OnlyUse(selected, r)'
             PROVE  meta'[selected] = r
  BY DEF SelectedIsDescribed
<1>1. IInv /\ SelectedWasUsed /\ SelectedIsDescribed
  BY DEF ShownInv, RowInv
<1>2. selected \in Dirs /\ selected' = selected
  BY <1>1 DEF IInv, TypeOK
<1>3. OnlyUse(selected, r)
  BY <1>1, <1>2, HistoryGrows DEF OnlyUse, SelectedWasUsed
<1>4. meta[selected] = r
  BY <1>1, <1>2, <1>3 DEF SelectedIsDescribed
<1>5. uses'[selected] = {r} /\ selected \notin deleteTried'
  BY <1>2 DEF OnlyUse
<1> QED
  BY <1>1, <1>2, <1>4, <1>5, ListedStays DEF OnlyUse

\* What is unpacked stays the same archive.
LEMMA CopyStays ==
    ASSUME ShownInv, [Next]_vars, ext' = "copy", ext = "copy",
           UNCHANGED <<selected, exSrc>>
    PROVE  CopyFits'
<1> SUFFICES ASSUME NEW r \in Runs, OnlyUse(selected, r)'
             PROVE  exSrc = r
  BY DEF CopyFits
<1>1. IInv /\ TabFits /\ SelectedWasUsed /\ CopyFits
  BY DEF ShownInv, RowInv
<1>2. selected \in Dirs /\ selected # NoDir
  BY <1>1 DEF IInv, TypeOK, TabFits
<1>3. OnlyUse(selected, r)
  BY <1>1, <1>2, HistoryGrows DEF OnlyUse, SelectedWasUsed
<1> QED
  BY <1>1, <1>3 DEF CopyFits

LEMMA BackupShown ==
    ASSUME ShownInv, RowInv', NEW s \in Runs, Start(s) \/ BackupStep(s)
    PROVE  ShownInv'
<1>1. /\ UNCHANGED <<list, selected, ext, exSrc, shown, deleting>>
      /\ UNCHANGED <<extracted, exWhole, deleteTried, exBroken>>
      /\ \A d \in Dirs : uses[d] \subseteq uses'[d]
  BY BackupKeepsTab DEF ShownInv, RowInv, tab
<1>2. /\ TabFits /\ SelectedWasUsed /\ ExtractedFits
      /\ selected \in Dirs \cup {NoDir} /\ extracted \in SUBSET Dirs
  BY DEF ShownInv, RowInv, IInv, TypeOK
<1>3. TabFits'
  BY <1>1, <1>2 DEF TabFits
<1>4. SelectedWasUsed'
  BY <1>1, <1>2 DEF SelectedWasUsed
<1>5. SelectedIsDescribed'
  BY <1>1, SelectionStays DEF Next
<1>6. CopyFits'
  <2>1. CASE ext = "copy"
    BY <1>1, <2>1, CopyStays DEF Next
  <2>2. CASE ext # "copy"
    BY <1>1, <2>2 DEF CopyFits
  <2> QED
    BY <2>1, <2>2
<1>7. ExtractedFits'
  <2> SUFFICES ASSUME NEW d \in extracted \ (exBroken \cup deleteTried),
                      NEW r \in Runs, uses'[d] = {r}
               PROVE  \/ exWhole[d] = r
                      \/ selected = d /\ ext \in {"open", "copy"}
    BY <1>1 DEF ExtractedFits
  <2>1. uses[d] # {} /\ uses[d] \subseteq {r}
    BY <1>1, <1>2 DEF SelectedWasUsed
  <2>2. uses[d] = {r}
    BY <2>1
  <2> QED
    BY <1>2, <2>2 DEF ExtractedFits
<1> QED
  BY <1>3, <1>4, <1>5, <1>6, <1>7 DEF ShownInv

LEMMA ExtractShown ==
    ASSUME ShownInv, RowInv', ExtractStep
    PROVE  ShownInv'
<1>1. [Next]_vars
  BY DEF Next
<1>2. /\ TabFits /\ SelectedWasUsed /\ SelectedIsDescribed /\ CopyFits
      /\ ExtractedFits /\ TypeOK /\ ListedIsWhole
  BY DEF ShownInv, RowInv, IInv
<1> USE DEF disk, tasks, history
<1>3. TabFits' /\ SelectedWasUsed'
  <2> USE DEF TabFits, SelectedWasUsed
  <2>1. CASE CheckExtracted
    BY <1>2, <2>1 DEF CheckExtracted
  <2>2. CASE OpenZip
    BY <1>2, <2>2 DEF OpenZip
  <2>3. CASE CopyEntries
    BY <1>2, <2>3 DEF CopyEntries
  <2>4. CASE ExtractFails
    BY <1>2, <2>4 DEF ExtractFails
  <2>5. CASE ShowExtracted
    BY <1>2, <2>5 DEF ShowExtracted
  <2>6. CASE ShowError
    BY <1>2, <2>6 DEF ShowError
  <2> QED
    BY <2>1, <2>2, <2>3, <2>4, <2>5, <2>6 DEF ExtractStep
<1>4. SelectedIsDescribed'
  <2>1. selected' = selected
    BY DEF ExtractStep, CheckExtracted, OpenZip, CopyEntries, ExtractFails,
       ShowExtracted, ShowError
  <2> QED
    BY <1>1, <2>1, SelectionStays
<1>5. CopyFits'
  <2>1. CASE OpenZip
    <3> SUFFICES ASSUME NEW r \in Runs, OnlyUse(selected, r)
                 PROVE  exSrc' = r
      BY <2>1 DEF OpenZip, CopyFits, OnlyUse
    <3>1. selected \in Dirs
      BY <1>2, <2>1 DEF OpenZip, TabFits, TypeOK
    <3>2. meta[selected] = r
      BY <1>2, <3>1, DirAssumption DEF SelectedIsDescribed, Dirs
    <3>3. whole[selected] = r
      BY <1>2, <3>1, <3>2 DEF ListedIsWhole
    <3> QED
      BY <2>1, <3>3 DEF OpenZip
  <2>2. CASE CheckExtracted \/ CopyEntries \/ ExtractFails \/ ShowExtracted
             \/ ShowError
    <3>1. ext' # "copy"
      BY <2>2 DEF CheckExtracted, CopyEntries, ExtractFails, ShowExtracted,
         ShowError
    <3> QED
      BY <3>1 DEF CopyFits
  <2> QED
    BY <2>1, <2>2 DEF ExtractStep
<1>6. ExtractedFits'
  <2> USE DEF ExtractedFits
  <2>1. CASE CheckExtracted
    BY <1>2, <2>1 DEF CheckExtracted
  <2>2. CASE OpenZip
    BY <1>2, <2>2 DEF OpenZip
  <2>3. CASE CopyEntries
    <3> SUFFICES ASSUME NEW d \in extracted \ (exBroken \cup deleteTried),
                        NEW r \in Runs, uses[d] = {r}
                 PROVE  exWhole'[d] = r
      BY <2>3 DEF CopyEntries
    <3>1. d \in Dirs
      BY <1>2 DEF TypeOK
    <3>2. CASE d = selected
      <4>1. OnlyUse(selected, r) /\ selected # NoDir
        BY <3>1, <3>2, DirAssumption DEF OnlyUse, Dirs
      <4>2. exSrc = r /\ meta[selected] = r
        BY <1>2, <2>3, <4>1 DEF CopyFits, CopyEntries, SelectedIsDescribed
      <4>3. whole[selected] = r
        BY <1>2, <3>1, <3>2, <4>1, <4>2 DEF ListedIsWhole
      <4> QED
        BY <1>2, <2>3, <3>1, <3>2, <4>2, <4>3 DEF CopyEntries, TypeOK
    <3>3. CASE d # selected
      <4>1. exWhole[d] = r
        BY <1>2, <3>3
      <4> QED
        BY <1>2, <2>3, <3>1, <3>3, <4>1 DEF CopyEntries, TypeOK
    <3> QED
      BY <3>2, <3>3
  <2>4. CASE ExtractFails
    BY <1>2, <2>4 DEF ExtractFails
  <2>5. CASE ShowExtracted \/ ShowError
    BY <1>2, <2>5 DEF ShowExtracted, ShowError
  <2> QED
    BY <2>1, <2>2, <2>3, <2>4, <2>5 DEF ExtractStep
<1> QED
  BY <1>3, <1>4, <1>5, <1>6 DEF ShownInv

LEMMA DeleteShown ==
    ASSUME ShownInv, RowInv', DeleteStep
    PROVE  ShownInv'
<1>2. /\ TabFits /\ SelectedWasUsed /\ ExtractedFits /\ TypeOK
      /\ DeletionWasAsked
  BY DEF ShownInv, RowInv, IInv
<1>3. deleting # NoDir /\ selected = NoDir /\ ext = "idle" /\ shown = NoDir
  BY <1>2, DirAssumption DEF DeleteStep, RemoveZip, RemoveMetadata,
     RemoveExtracted, EndDelete, TypeOK, Dirs, TabFits
<1>4. /\ UNCHANGED <<selected, ext, exSrc, shown, uses, deleteTried, exBroken>>
      /\ extracted' \subseteq extracted
      /\ \A d \in Dirs \ {deleting} : exWhole'[d] = exWhole[d]
  BY <1>2 DEF TypeOK, DeleteStep, RemoveZip, RemoveMetadata, RemoveExtracted,
     EndDelete, tab, history
<1>5. TabFits' /\ SelectedWasUsed' /\ SelectedIsDescribed' /\ CopyFits'
  BY <1>2, <1>3, <1>4 DEF TabFits, SelectedWasUsed, SelectedIsDescribed,
     CopyFits
<1>6. ExtractedFits'
  BY <1>2, <1>3, <1>4 DEF ExtractedFits, DeletionWasAsked, TypeOK
<1> QED
  BY <1>5, <1>6 DEF ShownInv

LEMMA UserShown ==
    ASSUME ShownInv, RowInv',
           \/ Appear \/ Leave \/ Kill
           \/ \E e \in list : Select(e) \/ Delete(e)
           \/ \E s \in Seconds : Tick(s)
           \/ UNCHANGED vars
    PROVE  ShownInv'
<1>1. [Next]_vars
  BY DEF Next
<1>2. /\ TabFits /\ SelectedWasUsed /\ CopyFits /\ ExtractedFits /\ TypeOK
      /\ RowsAreRuns /\ NoGhostRows /\ SelectedIsDescribed
  BY DEF ShownInv, RowInv, IInv
<1> DEFINE Rest == TabFits /\ SelectedWasUsed /\ SelectedIsDescribed
                   /\ CopyFits /\ ExtractedFits
<1> USE DEF disk, tasks, tab, history
<1>3. ASSUME Appear \/ UNCHANGED vars \/ \E s \in Seconds : Tick(s)
      PROVE  Rest'
  BY <1>2, <1>3 DEF Appear, Tick, vars, TabFits, SelectedWasUsed, CopyFits,
     ExtractedFits, SelectedIsDescribed, OnlyUse
<1>4. ASSUME Leave
      PROVE  Rest'
  <2>1. ext # "open" /\ ext # "copy"
    BY <1>2, <1>4 DEF Leave, TabFits
  <2> QED
    BY <1>2, <1>4, <2>1 DEF Leave, MainThreadIsFree, TabFits,
       SelectedWasUsed, SelectedIsDescribed, CopyFits, ExtractedFits
<1>5. ASSUME Kill
      PROVE  Rest'
  BY <1>2, <1>5 DEF Kill, TabFits, SelectedWasUsed, SelectedIsDescribed,
     CopyFits, ExtractedFits
<1>6. ASSUME NEW e \in list, Select(e)
      PROVE  Rest'
  <2>1. e.dir \in Dirs /\ e.dir # NoDir /\ e.run \in uses[e.dir]
    BY <1>2, DirAssumption DEF TypeOK, RowsAreRuns, Dirs
  <2>2. TabFits' /\ SelectedWasUsed' /\ CopyFits' /\ ExtractedFits'
    BY <1>2, <1>6, <2>1 DEF Select, MainThreadIsFree, TabFits,
       SelectedWasUsed, CopyFits, ExtractedFits
  <2>3. SelectedIsDescribed'
    <3> SUFFICES ASSUME NEW r \in Runs, uses[e.dir] = {r}
                 PROVE  meta[e.dir] = r
      BY <1>6 DEF Select, SelectedIsDescribed, OnlyUse
    <3>1. e.run = r /\ e.dir # deleting
      BY <1>6, <2>1 DEF Select, MainThreadIsFree
    <3> QED
      BY <1>2, <3>1 DEF NoGhostRows, Listable
  <2> QED
    BY <2>2, <2>3
<1>7. ASSUME NEW e \in list, Delete(e)
      PROVE  Rest'
  BY <1>2, <1>7 DEF Delete, TabFits, SelectedWasUsed, SelectedIsDescribed,
     CopyFits, ExtractedFits
<1> QED
  BY <1>1, <1>3, <1>4, <1>5, <1>6, <1>7 DEF ShownInv

LEMMA NextShownInv == ShownInv /\ [Next]_vars => ShownInv'
<1> SUFFICES ASSUME ShownInv, [Next]_vars
             PROVE  ShownInv'
  OBVIOUS
<1>1. RowInv'
  BY NextRowInv DEF ShownInv
<1> QED
  BY <1>1, BackupShown, ExtractShown, DeleteShown, UserShown DEF Next

\* ShownInv holds in every reachable state.
THEOREM ShownInvariance == Spec => []ShownInv
BY InitShownInv, NextShownInv, PTL DEF Spec

LEMMA ShownIsExtractedWhole == ShownInv => UnbrokenIsWhole
BY DEF ShownInv, TabFits, ExtractedFits, UnbrokenIsWhole

\* What the browser shows is the whole backup, unless its extraction has once
\* broken off, whatever else was made, deleted or killed meanwhile.
THEOREM UnbrokenExtractionsAreWhole == Spec => []UnbrokenIsWhole
BY ShownInvariance, ShownIsExtractedWhole, PTL

=============================================================================
