----------------------------- MODULE DeviceFeed -----------------------------
(***************************************************************************)
(* What the device monitor of libusbmuxd promises to its subscribers,      *)
(* without saying how it learns of devices or which threads it has.        *)
(*                                                                         *)
(* There is one board of devices.  A device that comes is posted once, and *)
(* one that goes was on the board: all subscribers are told in the same    *)
(* step.  A new subscriber is told what is on the board, and may be told   *)
(* of the device that is about to be posted, of which it then hears twice; *)
(* one that leaves is told that all has gone.                              *)
(***************************************************************************)
CONSTANTS Clients, Devices

VARIABLES
    board,       \* the devices that have been announced
    coming,      \* the one that is about to be, if any
    subscribed,
    told         \* the devices each client believes in

vars == <<board, coming, subscribed, told>>

Init ==
    /\ board = {} /\ coming = {}
    /\ subscribed = {}
    /\ told = [c \in Clients |-> {}]

Arrive(d) ==
    /\ d \notin board /\ coming = {}
    /\ coming' = {d}
    /\ UNCHANGED <<board, subscribed, told>>

Post ==
    /\ board' = board \cup coming
    /\ coming' = {}
    /\ told' = [c \in Clients |-> IF c \in subscribed THEN told[c] \cup coming
                                                      ELSE told[c]]
    /\ UNCHANGED subscribed

Withdraw(d) ==
    /\ d \in board /\ coming = {}
    /\ board' = board \ {d}
    /\ told' = [c \in Clients |-> IF c \in subscribed THEN told[c] \ {d}
                                                      ELSE told[c]]
    /\ UNCHANGED <<coming, subscribed>>

Join(c) ==
    /\ c \notin subscribed
    /\ subscribed' = subscribed \cup {c}
    /\ told' = [told EXCEPT ![c] = board \cup coming]
    /\ UNCHANGED <<board, coming>>

Leave(c) ==
    /\ c \in subscribed
    /\ subscribed' = subscribed \ {c}
    /\ told' = [told EXCEPT ![c] = {}]
    /\ UNCHANGED <<board, coming>>

\* Nobody is left to be told.
Clear ==
    /\ subscribed = {}
    /\ board' = {} /\ coming' = {}
    /\ UNCHANGED <<subscribed, told>>

Next ==
    \/ \E d \in Devices : Arrive(d) \/ Withdraw(d)
    \/ \E c \in Clients : Join(c) \/ Leave(c)
    \/ Post \/ Clear

Spec == Init /\ [][Next]_vars
=============================================================================
