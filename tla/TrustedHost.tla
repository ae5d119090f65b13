----------------------------- MODULE TrustedHost -----------------------------
(***************************************************************************)
(* What the handshake of libimobiledevice promises to the clients of a     *)
(* host, without saying which requests and answers it takes.               *)
(*                                                                         *)
(* The device accepts hosts.  The host stores the record of one that has   *)
(* been accepted and never loses it again.  The device runs sessions for   *)
(* accepted hosts only, and a client holds one that the device runs on its *)
(* connection: it is not ended and no other takes its place while the      *)
(* client holds it, which is until it gives it back or the connection is   *)
(* lost.                                                                   *)
(***************************************************************************)
CONSTANTS Clients, HostIds, NoHost

VARIABLES
    accepted, \* the hosts the device has ever accepted
    record,   \* the host of the stored record, or NoHost
    running,  \* the host whose session the device runs for each client
    held      \* the host whose session each client has been given

vars == <<accepted, record, running, held>>

Init ==
    /\ accepted = {}
    /\ record = NoHost
    /\ running = [c \in Clients |-> NoHost]
    /\ held = [c \in Clients |-> NoHost]

Accept(id) ==
    /\ accepted' = accepted \cup {id}
    /\ UNCHANGED <<record, running, held>>

Store(id) ==
    /\ id \in accepted
    /\ record' = id
    /\ UNCHANGED <<accepted, running, held>>

Run(c, id) ==
    /\ id \in accepted
    /\ held[c] = NoHost
    /\ running' = [running EXCEPT ![c] = id]
    /\ UNCHANGED <<accepted, record, held>>

\* The device ends a session that nobody holds.
End(c) ==
    /\ held[c] = NoHost
    /\ running' = [running EXCEPT ![c] = NoHost]
    /\ UNCHANGED <<accepted, record, held>>

Give(c) ==
    /\ held[c] = NoHost
    /\ running[c] # NoHost
    /\ held' = [held EXCEPT ![c] = running[c]]
    /\ UNCHANGED <<accepted, record, running>>

\* The client gives its session up, before the device ends it or with it, or
\* both lose it with the connection.
GiveBack(c) ==
    /\ held' = [held EXCEPT ![c] = NoHost]
    /\ running' \in {running, [running EXCEPT ![c] = NoHost]}
    /\ UNCHANGED <<accepted, record>>

Next ==
    \/ \E id \in HostIds : Accept(id) \/ Store(id)
    \/ \E c \in Clients : End(c) \/ Give(c) \/ GiveBack(c)
    \/ \E c \in Clients, id \in HostIds : Run(c, id)

Spec == Init /\ [][Next]_vars
=============================================================================
