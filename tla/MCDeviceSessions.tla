-------------------------- MODULE MCDeviceSessions --------------------------
(* DeviceSessions on a small instance: see the .cfg file. *)
EXTENDS DeviceSessions
=============================================================================
