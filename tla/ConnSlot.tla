------------------------------ MODULE ConnSlot ------------------------------
(***************************************************************************)
(* What the connection cache of the Rust bridge promises to the functions  *)
(* that talk to the device, without saying how it is programmed.           *)
(*                                                                         *)
(* There is one slot.  Once a connection has been published in it, the     *)
(* slot is never empty again; it can only be given another connection,     *)
(* and only in the step in which a caller takes the slot for itself.  The  *)
(* connection in the slot is open, every other connection that was opened  *)
(* is either discarded or still waiting to be put in the slot, and at most *)
(* one caller holds the slot.                                              *)
(***************************************************************************)
CONSTANTS Callers, Tunnels, NoCaller, NoTunnel

VARIABLES
    slot,    \* the published connection, or NoTunnel before the first one
    holder,  \* the caller the slot belongs to, or NoCaller
    open     \* the connections that have not been dropped

vars == <<slot, holder, open>>

Init ==
    /\ slot = NoTunnel
    /\ holder = NoCaller
    /\ open = {}

\* A connection is made, outside the slot.
Establish(t) ==
    /\ t \notin open
    /\ open' = open \cup {t}
    /\ UNCHANGED <<slot, holder>>

\* The first connection goes into the empty slot.
Publish(t) ==
    /\ slot = NoTunnel
    /\ t \in open
    /\ slot' = t
    /\ UNCHANGED <<holder, open>>

\* A connection that is not in the slot is dropped.
Discard(t) ==
    /\ t \in open
    /\ t # slot
    /\ open' = open \ {t}
    /\ UNCHANGED <<slot, holder>>

\* A caller takes the slot as it is.
Acquire(c) ==
    /\ slot # NoTunnel
    /\ holder = NoCaller
    /\ holder' = c
    /\ UNCHANGED <<slot, open>>

\* A caller takes the slot, puts its own connection in and drops the old one.
AcquireAndReplace(c, t) ==
    /\ slot # NoTunnel
    /\ holder = NoCaller
    /\ holder' = c
    /\ t \in open
    /\ t # slot
    /\ slot' = t
    /\ open' = open \ {slot}

Release(c) ==
    /\ holder = c
    /\ holder' = NoCaller
    /\ UNCHANGED <<slot, open>>

Next ==
    \/ \E t \in Tunnels : Establish(t) \/ Publish(t) \/ Discard(t)
    \/ \E c \in Callers : Acquire(c) \/ Release(c)
    \/ \E c \in Callers, t \in Tunnels : AcquireAndReplace(c, t)

Spec == Init /\ [][Next]_vars
=============================================================================
