---------------------------- MODULE ContainerWalk ----------------------------
(***************************************************************************)
(* How the Rust bridge archives the container of an application            *)
(* (try_backup) and unpacks the archive again (try_extract).               *)
(*                                                                         *)
(* The container is a tree of files on the device, read over AFC, one      *)
(* request at a time, while the application it belongs to may be running:  *)
(* files appear and disappear between two requests.  Requests can be       *)
(* denied, which the walk passes over, or fail, which ends the backup.     *)
(* A path is the sequence of its components, the root is <<>>, and the     *)
(* contents of a file are counted in pieces, one per read().               *)
(***************************************************************************)
EXTENDS Integers, Sequences, FiniteSets, SequencesExt, Functions

CONSTANTS
    Paths,      \* the paths that can exist, with every prefix but the root
    Size,       \* number of read()s with data that each file takes
    MaxDenied,  \* paths that refuse a request (a bound)
    MaxChanges  \* changes the application makes during the walk (a bound)

Root == <<>>
Parent(p) == Front(p)
Ancestors(p) == {SubSeq(p, 1, i) : i \in 0..(Len(p) - 1)}
Children(d) == {p \in Paths : Parent(p) = d}

\* list_dir also returns these two.
Special == {".", ".."}
Listed == Paths \cup {Append(d, n) : d \in Paths \cup {Root}, n \in Special}

NoPath == <<"(none)">>

\* No file or directory has one of the two names for its own.
ASSUME PathsAssumption ==
    \A p \in Paths :
        /\ p \in Seq(STRING) /\ p \notin {Root, NoPath}
        /\ Ancestors(p) \subseteq Paths \cup {Root}
        /\ Last(p) \notin Special
ASSUME SizeAssumption == Size \in [Paths -> Nat]
ASSUME BoundAssumption == MaxDenied \in Nat /\ MaxChanges \in Nat

VARIABLES
    kind,      \* st_ifmt of each path: "dir", "file" or something else
    denied,    \* the request that is refused: "info", "use" (list or open)
    present,   \* what exists in the container
    stable,    \* what has existed since the walk began
    changes,
    status,    \* how far the backup, and then the extraction, is
    backupType,\* "full" or "documents"
    stack,     \* directories still to be listed
    todo,      \* entries of the current directory still to be looked at
    reading, left, \* the file that is open and the reads it still has
    archive,   \* the entries of the ZIP file, in order
    written,   \* pieces of each file in it
    total,     \* total_bytes
    next, outDirs, outFiles \* extraction: entry to unpack, what is unpacked

container == <<kind, denied, present, stable, changes>>
walk == <<stack, todo, reading, left, archive, written, total>>
unpacking == <<next, outDirs, outFiles>>
vars == <<kind, denied, present, stable, changes, status, backupType, stack,
          todo, reading, left, archive, written, total, next, outDirs,
          outFiles>>

Archived == {e.path : e \in ToSet(archive)}
FilesIn == {e.path : e \in {x \in ToSet(archive) : ~x.isDir}}
DirsIn == Archived \ FilesIn

TypeOK ==
    /\ kind \in [Paths -> {"dir", "file", "other"}]
    /\ denied \in [Paths \cup {Root} -> {"no", "info", "use"}]
    /\ present \subseteq Paths /\ stable \subseteq present
    /\ changes \in 0..MaxChanges
    /\ status \in {"connect", "vend", "reconnect", "vendDocuments", "create",
                   "walk", "success", "error", "unpack", "unpacked",
                   "unpackError"}
    /\ backupType \in {"none", "full", "documents"}
    /\ stack \in Seq(Listed \cup {Root})
    /\ todo \subseteq Listed
    /\ reading \in Paths \cup {NoPath}
    /\ left \in Nat
    /\ archive \in Seq([path : Listed, isDir : BOOLEAN])
    /\ written \in [Paths -> Nat]
    /\ total \in Nat
    /\ next \in Nat
    /\ outDirs \subseteq Listed \cup {Root}
    /\ outFiles \subseteq Paths

\* A path with something below it is a directory.
Init ==
    /\ kind \in {k \in [Paths -> {"dir", "file", "other"}] :
                   \A p \in Paths : Children(p) # {} => k[p] = "dir"}
    /\ denied \in {f \in [Paths \cup {Root} -> {"no", "info", "use"}] :
                     /\ f[Root] # "info"
                     /\ Cardinality({p \in DOMAIN f : f[p] # "no"})
                          <= MaxDenied}
    /\ present \in {S \in SUBSET Paths :
                      \A p \in S : Ancestors(p) \subseteq S \cup {Root}}
    /\ stable = present
    /\ changes = 0
    /\ status = "connect" /\ backupType = "none"
    /\ stack = <<>> /\ todo = {}
    /\ reading = NoPath /\ left = 0
    /\ archive = <<>>
    /\ written = [p \in Paths |-> 0] /\ total = 0
    /\ next = 1 /\ outDirs = {} /\ outFiles = {}

-----------------------------------------------------------------------------
(* try_backup *)

\* The house_arrest service, and what it vends: the container or, over a new
\* connection, only the documents.
Advance(from, to, type) ==
    /\ status = from
    /\ status' = to
    /\ backupType' = type
    /\ UNCHANGED <<container, walk, unpacking>>

Connect == Advance("connect", "vend", "none")
VendContainer == Advance("vend", "create", "full")
ContainerRefused == Advance("vend", "reconnect", "none")
Reconnect == Advance("reconnect", "vendDocuments", "none")
VendDocuments == Advance("vendDocuments", "create", "documents")

\* create_dir_all, File::create; the walk starts at the root.
CreateZip ==
    /\ status = "create"
    /\ status' = "walk"
    /\ stack' = <<Root>>
    /\ UNCHANGED <<container, backupType, todo, reading, left, archive,
                   written, total, unpacking>>

\* while let Some(dir) = stack.pop(), and list_dir.
ListDir ==
    /\ status = "walk"
    /\ todo = {} /\ reading = NoPath
    /\ stack # <<>>
    /\ LET d == Last(stack)
       IN  IF denied[d] = "use"
             THEN todo' = {}
             ELSE /\ d = Root \/ d \in present
                  /\ todo' = (Children(d) \cap present)
                               \cup {Append(d, n) : n \in Special}
    /\ stack' = Front(stack)
    /\ UNCHANGED <<container, status, backupType, reading, left, archive,
                   written, total, unpacking>>

AtEntry(p) ==
    /\ status = "walk"
    /\ reading = NoPath
    /\ p \in todo

\* What the device answers about an entry; "." and ".." are directories.
Refused(p, request) == p \in Paths /\ denied[p] = request
Is(p, k) ==
    IF p \in Paths THEN p \in present /\ kind[p] = k ELSE k = "dir"

\* Mutant of Skips: the test for "." and ".." is left out.
SkipsNotSpecial(p) ==
    \/ Refused(p, "info")
    \/ Is(p, "file") /\ Refused(p, "use")
    \/ Is(p, "other")

\* Entries that add nothing: "." and "..", a denied get_file_info or open,
\* and what is neither a directory nor a file.
Skips(p) ==
    \/ Last(p) \in Special
    \/ Refused(p, "info")
    \/ Is(p, "file") /\ Refused(p, "use")
    \/ Is(p, "other")

\* Mutant of SkipEntry: a denied get_file_info leaves the loop (break).
SkipEntryBreaks(p) ==
    /\ AtEntry(p)
    /\ Skips(p)
    /\ todo' = IF Last(p) \notin Special /\ denied[p] = "info"
                 THEN {} ELSE todo \ {p}
    /\ UNCHANGED <<container, status, backupType, stack, reading, left,
                   archive, written, total, unpacking>>

\* Mutant of SkipEntry: an entry that is skipped is asked for again.
SkipEntryRetries(p) ==
    /\ AtEntry(p)
    /\ Skips(p)
    /\ UNCHANGED vars

SkipEntry(p) ==
    /\ AtEntry(p)
    /\ Skips(p)
    /\ todo' = todo \ {p}
    /\ UNCHANGED <<container, status, backupType, stack, reading, left,
                   archive, written, total, unpacking>>

Add(p, isDir) == archive' = Append(archive, [path |-> p, isDir |-> isDir])

\* S_IFDIR
AddDir(p) ==
    /\ AtEntry(p)
    /\ ~Skips(p)
    /\ Is(p, "dir")
    /\ Add(p, TRUE)
    /\ stack' = Append(stack, p)
    /\ todo' = todo \ {p}
    /\ UNCHANGED <<container, status, backupType, reading, left, written,
                   total, unpacking>>

\* S_IFREG: open succeeds and the entry is begun.
OpenFile(p) ==
    /\ AtEntry(p)
    /\ ~Skips(p)
    /\ Is(p, "file")
    /\ Add(p, FALSE)
    /\ reading' = p
    /\ left' = Size[p]
    /\ todo' = todo \ {p}
    /\ UNCHANGED <<container, status, backupType, stack, written, total,
                   unpacking>>

\* Mutant of ReadData: the loop is not left when read() returns nothing.
ReadDataPastTheEnd ==
    /\ status = "walk" /\ reading # NoPath
    /\ left' = left - 1
    /\ written' = [written EXCEPT ![reading] = @ + 1]
    /\ total' = total + 1
    /\ UNCHANGED <<container, status, backupType, stack, todo, reading,
                   archive, unpacking>>

\* Mutant of ReadData: one read() takes the buffer for the whole file.
ReadDataOnce ==
    /\ status = "walk" /\ reading # NoPath
    /\ left > 0
    /\ left' = 0
    /\ written' = [written EXCEPT ![reading] = @ + 1]
    /\ total' = total + 1
    /\ UNCHANGED <<container, status, backupType, stack, todo, reading,
                   archive, unpacking>>

\* read() returns data, which is counted and written ...
ReadData ==
    /\ status = "walk" /\ reading # NoPath
    /\ left > 0
    /\ left' = left - 1
    /\ written' = [written EXCEPT ![reading] = @ + 1]
    /\ total' = total + 1
    /\ UNCHANGED <<container, status, backupType, stack, todo, reading,
                   archive, unpacking>>

\* ... or nothing, and the loop ends.
ReadEnd ==
    /\ status = "walk" /\ reading # NoPath
    /\ left = 0
    /\ reading' = NoPath
    /\ UNCHANGED <<container, status, backupType, stack, todo, left,
                   archive, written, total, unpacking>>

\* zip.finish() and the answer.
Finish ==
    /\ status = "walk"
    /\ stack = <<>> /\ todo = {} /\ reading = NoPath
    /\ status' = "success"
    /\ UNCHANGED <<container, backupType, walk, unpacking>>

EndInError ==
    /\ status' = "error"
    /\ UNCHANGED <<container, backupType, walk, unpacking>>

\* The directory or the entry has gone since its parent was listed.
PathIsGone ==
    /\ status = "walk" /\ reading = NoPath
    /\ \/ /\ todo = {} /\ stack # <<>>
          /\ Last(stack) \notin present \cup {Root}
          /\ denied[Last(stack)] # "use"
       \/ \E p \in todo : ~Skips(p) /\ p \notin present
    /\ EndInError

\* Any other request or write fails.
BackupFails ==
    /\ status \in {"connect", "reconnect", "vendDocuments", "create", "walk"}
    /\ EndInError

-----------------------------------------------------------------------------
(* try_extract *)

\* The output directory is made and the archive is opened.
StartUnpack ==
    /\ status = "success"
    /\ status' = "unpack"
    /\ outDirs' = {Root}
    /\ UNCHANGED <<container, backupType, walk, next, outFiles>>

AtZipEntry(isDir) ==
    /\ status = "unpack"
    /\ next <= Len(archive)
    /\ archive[next].isDir = isDir
    /\ next' = next + 1

\* create_dir_all(&target).ok(): a directory that cannot be made is ignored.
UnpackDir ==
    /\ AtZipEntry(TRUE)
    /\ LET p == archive[next].path
       IN  outDirs' \in {outDirs, outDirs \cup {p} \cup Ancestors(p)}
    /\ UNCHANGED <<container, status, backupType, walk, outFiles>>

\* Mutant of UnpackFile: the errors of a file are ignored as well.
UnpackFileIgnoresErrors ==
    /\ AtZipEntry(FALSE)
    /\ LET p == archive[next].path
       IN  /\ outDirs' = outDirs \cup Ancestors(p)
           /\ outFiles' \in {outFiles, outFiles \cup {p}}
    /\ UNCHANGED <<container, status, backupType, walk>>

\* The parent is made if need be, and the file is written.
UnpackFile ==
    /\ AtZipEntry(FALSE)
    /\ LET p == archive[next].path
       IN  /\ outDirs' = outDirs \cup Ancestors(p)
           /\ outFiles' = outFiles \cup {p}
    /\ UNCHANGED <<container, status, backupType, walk>>

UnpackEnd ==
    /\ status = "unpack"
    /\ next > Len(archive)
    /\ status' = "unpacked"
    /\ UNCHANGED <<container, backupType, walk, unpacking>>

UnpackFails ==
    /\ status = "unpack"
    /\ status' = "unpackError"
    /\ UNCHANGED <<container, backupType, walk, unpacking>>

-----------------------------------------------------------------------------
(* The application on the device *)

Creates(p) ==
    /\ changes < MaxChanges
    /\ p \notin present
    /\ Parent(p) \in present \cup {Root}
    /\ present' = present \cup {p}
    /\ changes' = changes + 1
    /\ UNCHANGED <<kind, denied, stable, status, backupType, walk, unpacking>>

Deletes(p) ==
    /\ changes < MaxChanges
    /\ p \in present
    /\ present' = {q \in present : ~IsPrefix(p, q)}
    /\ stable' = stable \cap present'
    /\ changes' = changes + 1
    /\ UNCHANGED <<kind, denied, status, backupType, walk, unpacking>>

WalkStep ==
    \/ ListDir \/ (\E p \in todo : SkipEntry(p) \/ AddDir(p) \/ OpenFile(p))
    \/ ReadData \/ ReadEnd \/ Finish

Next ==
    \/ Connect \/ VendContainer \/ ContainerRefused \/ Reconnect
    \/ VendDocuments \/ CreateZip \/ WalkStep \/ PathIsGone \/ BackupFails
    \/ StartUnpack \/ UnpackDir \/ UnpackFile \/ UnpackEnd \/ UnpackFails
    \/ \E p \in Paths : status = "walk" /\ (Creates(p) \/ Deletes(p))

Spec == Init /\ [][Next]_vars

\* The device answers every request: with what was asked for, a refusal or,
\* when the path has gone, an error.
FairSpec == Spec /\ WF_vars(WalkStep \/ PathIsGone)

-----------------------------------------------------------------------------
(* Properties *)

\* What a backup owes the user: a file or a directory that can be looked at
\* and opened, below directories that can be looked at and listed.
Reachable(d) == d = Root \/ (denied[d] # "info" /\ kind[d] = "dir")
Archivable(p) ==
    /\ \A d \in Ancestors(p) : Reachable(d) /\ denied[d] # "use"
    /\ denied[p] # "info"
    /\ kind[p] = "dir" \/ (kind[p] = "file" /\ denied[p] # "use")

\* The archive is a tree at every moment: it has each path once, only what
\* may be there and as what it is, and a directory before what is in it.
ArchiveIsATree ==
    /\ IsInjective([i \in DOMAIN archive |-> archive[i].path])
    /\ \A i \in DOMAIN archive :
         LET p == archive[i].path
         IN  /\ p \in Paths /\ Archivable(p)
             /\ archive[i].isDir = (kind[p] = "dir")
             /\ Parent(p) \in {archive[j].path : j \in 1..(i - 1)} \cup {Root}

\* A backup that reports success has everything that was there all along,
\* whatever was denied or changed next to it.
StableIsArchived ==
    status = "success" => {p \in stable : Archivable(p)} \subseteq Archived

\* At success every file in the archive is complete.
FilesAreComplete ==
    status = "success" =>
        written = [p \in Paths |-> IF p \in FilesIn THEN Size[p] ELSE 0]

\* The pieces that have been written, each told by its file and its place.
Pieces == UNION {{p} \X (1..written[p]) : p \in Paths}

\* total_bytes counts what was written into the archive, and what is in it at
\* the end is whole.
SizesAddUp == total = Cardinality(Pieces) /\ FilesAreComplete

\* An extraction that reports success has made every file of the archive and
\* the directories it is in, and nothing the archive does not have; what it
\* may lack are directories without files, which create_dir_all(..).ok()
\* gives up on.
UnpackedIsTheArchive ==
    status = "unpacked" =>
        /\ outFiles = FilesIn
        /\ UNION {Ancestors(p) : p \in outFiles} \subseteq outDirs
        /\ outDirs \subseteq DirsIn \cup {Root}

\* The walk as one job: nothing of the archive counts before success is
\* reported, and nothing of what was unpacked before that is.
Promised == {p \in Paths : Archivable(p)}
Phase ==
    CASE status = "error" -> "failed"
      [] status \in {"success", "unpack"} -> "archived"
      [] status = "unpacked" -> "unpacked"
      [] status = "unpackError" -> "unpackFailed"
      [] OTHER -> "running"
HasArchive == Phase \in {"archived", "unpacked", "unpackFailed"}
Job == INSTANCE ArchiveJob
    WITH Above   <- [p \in Paths |-> Ancestors(p) \ {Root}],
         dirs    <- {p \in Promised : kind[p] = "dir"},
         files   <- {p \in Promised : kind[p] = "file"},
         lasting <- stable \cap Promised,
         phase   <- Phase,
         content <- IF HasArchive THEN Archived ELSE {},
         pieces  <- IF HasArchive THEN written ELSE [p \in Paths |-> 0],
         copy    <- IF Phase = "unpacked" THEN outFiles \cup (outDirs \ {Root})
                    ELSE {}

\* The walk keeps the promise of ArchiveJob: whatever is denied, whatever the
\* application creates and deletes between two requests, the backup fails or
\* has in one step what was there all along, whole and in its directories, and
\* the extraction fails or makes what the archive has (backup.rs:44-169).
KeepsTheJob == Job!Spec

\* The walk ends, though the application goes on changing its container.
WalkEnds == status = "walk" ~> status # "walk"
=============================================================================
