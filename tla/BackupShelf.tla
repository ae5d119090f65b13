----------------------------- MODULE BackupShelf -----------------------------
(***************************************************************************)
(* What the application promises of the backups it makes, without saying   *)
(* how they are written, browsed and deleted.                              *)
(*                                                                         *)
(* A backup that is kept is whole and can be found, and stays so until the *)
(* user gives its place up: by deleting what is there, or by starting      *)
(* another backup of the application in the same second.  Success is       *)
(* announced for a backup only after it has been kept, and once.           *)
(***************************************************************************)
CONSTANT Backups

VARIABLES
    kept,      \* the backups that are whole and can be found
    givenUp,   \* those whose place has been given up
    announced  \* those whose success the user was told of

vars == <<kept, givenUp, announced>>

Init == kept = {} /\ givenUp = {} /\ announced = {}

Keep(b) ==
    /\ b \notin kept \cup givenUp \cup announced
    /\ kept' = kept \cup {b}
    /\ UNCHANGED <<givenUp, announced>>

\* A place that is given up may be that of several backups.
GiveUp(B) ==
    /\ B # {}
    /\ B \cap givenUp = {}
    /\ givenUp' = givenUp \cup B
    /\ kept' = kept \ B
    /\ UNCHANGED announced

\* Nobody knows what has become of a backup that was given up.
Announce(b) ==
    /\ b \in kept \cup givenUp
    /\ b \notin announced
    /\ announced' = announced \cup {b}
    /\ UNCHANGED <<kept, givenUp>>

Next ==
    \/ \E b \in Backups : Keep(b) \/ Announce(b)
    \/ \E B \in SUBSET Backups : GiveUp(B)

Spec == Init /\ [][Next]_vars
=============================================================================
