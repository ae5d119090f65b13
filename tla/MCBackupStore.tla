---------------------------- MODULE MCBackupStore ----------------------------
(* BackupStore on small instances: see the .cfg files. *)
EXTENDS BackupStore, TLC

Symmetry ==
    Permutations(Bundles) \cup Permutations(Seconds) \cup Permutations(Runs)
=============================================================================
