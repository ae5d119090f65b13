----------------------------- MODULE MCDashboard -----------------------------
(* Dashboard with every kind of pairing file: see the .cfg files. *)
EXTENDS Dashboard

Plist(parses, dict, host, buid, text, known, rp) ==
    [parses |-> parses, dict |-> dict, hostID |-> host, systemBUID |-> buid,
     text |-> text, known |-> known, rp |-> rp]

MCFiles == {"lockdown", "remote", "binary", "list", "garbage"}
MCContent ==
    [f \in MCFiles |->
       CASE f = "lockdown" -> Plist(TRUE, TRUE, TRUE, TRUE, TRUE, TRUE, FALSE)
         [] f = "remote"   -> Plist(TRUE, TRUE, TRUE, FALSE, TRUE, TRUE, TRUE)
         [] f = "binary"   -> Plist(TRUE, TRUE, TRUE, TRUE, FALSE, TRUE, FALSE)
         [] f = "list"     -> Plist(TRUE, FALSE, FALSE, FALSE, TRUE, FALSE, FALSE)
         [] f = "garbage"  -> Plist(FALSE, FALSE, FALSE, FALSE, TRUE, FALSE, FALSE)]
=============================================================================
