-------------------------- MODULE MCLockdownClient --------------------------
(* LockdownClient on a small instance: see the .cfg file. *)
EXTENDS LockdownClient
=============================================================================
