--------------------------- MODULE MCUsbmuxEvents ---------------------------
(* UsbmuxEvents on small instances: see the .cfg files. *)
EXTENDS UsbmuxEvents
=============================================================================
