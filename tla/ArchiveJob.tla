----------------------------- MODULE ArchiveJob -----------------------------
(***************************************************************************)
(* What the bridge promises of the backup of a container and of its        *)
(* extraction, without saying how the container is walked.                 *)
(*                                                                         *)
(* A backup runs while the application changes its container.  It fails,   *)
(* or it succeeds in one step with an archive that has all that was        *)
(* there from the beginning to the end, nothing the device does not let    *)
(* be read, each file whole and nothing without the directories it is in.  *)
(* An extraction fails, or it makes the files of the archive and their     *)
(* directories.                                                            *)
(***************************************************************************)
CONSTANTS
    Paths,
    Size,   \* the size of each file
    Above   \* the directories each path is in

VARIABLES
    dirs, files, \* what the device lets be read
    lasting,     \* what of it has been there all along
    phase,
    content,     \* the paths in the archive of a backup that succeeded
    pieces,      \* how much of each file is in it
    copy         \* what a successful extraction has made

vars == <<dirs, files, lasting, phase, content, pieces, copy>>

Init ==
    /\ dirs \subseteq Paths /\ files \subseteq Paths \ dirs
    /\ lasting \subseteq dirs \cup files
    /\ phase = "running"
    /\ content = {} /\ pieces = [p \in Paths |-> 0]
    /\ copy = {}

\* Something is deleted while the backup runs.
Lose ==
    /\ phase = "running"
    /\ lasting' \subseteq lasting
    /\ UNCHANGED <<dirs, files, phase, content, pieces, copy>>

Fail ==
    /\ phase = "running"
    /\ phase' = "failed"
    /\ UNCHANGED <<dirs, files, lasting, content, pieces, copy>>

Succeed ==
    /\ phase = "running"
    /\ phase' = "archived"
    /\ lasting \subseteq content' /\ content' \subseteq dirs \cup files
    /\ \A p \in content' : Above[p] \subseteq content' \cap dirs
    /\ pieces' = [p \in Paths |->
                    IF p \in content' \cap files THEN Size[p] ELSE 0]
    /\ UNCHANGED <<dirs, files, lasting, copy>>

FailToUnpack ==
    /\ phase = "archived"
    /\ phase' = "unpackFailed"
    /\ UNCHANGED <<dirs, files, lasting, content, pieces, copy>>

\* Directories without files may be lacking.
Unpack ==
    /\ phase = "archived"
    /\ phase' = "unpacked"
    /\ copy' \subseteq content
    /\ copy' \cap files = content \cap files
    /\ \A p \in copy' \cap files : Above[p] \subseteq copy'
    /\ UNCHANGED <<dirs, files, lasting, content, pieces>>

Next == Lose \/ Fail \/ Succeed \/ FailToUnpack \/ Unpack

Spec == Init /\ [][Next]_vars
=============================================================================
