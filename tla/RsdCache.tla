------------------------------ MODULE RsdCache ------------------------------
(***************************************************************************)
(* The connection cache of the Rust bridge (idevice_support/rsd.rs).       *)
(*                                                                         *)
(* Every call of the bridge runs on the thread that made it               *)
(* (RUNTIME.block_on), so several calls run at the same time.  They share  *)
(* two process-wide cells, each of which is written at most once:          *)
(*   RPPAIRING_FILE            the pairing file tunnels are opened with;   *)
(*   RPPAIRING_RSD_CONNECTION  a mutex around the adapter and handshake of *)
(*                             the current tunnel.                         *)
(* A call is connect_to_rsd_services ("connect"), which answers with a     *)
(* service, or get_or_create_rppairing_rsd_connection ("borrow"), which    *)
(* answers with the mutex guard itself.  The model takes one step between  *)
(* two points where another thread can run: an access of a cell, a lock,   *)
(* an await.                                                               *)
(***************************************************************************)
EXTENDS Naturals

CONSTANTS
    Callers,     \* threads that call into the bridge
    Files,       \* contents of pairing files
    Tunnels,     \* identities of the tunnels that can be opened (a bound)
    NoCaller, NoFile, NoTunnel,
    MaxCalls     \* calls made by one thread (a bound)

ASSUME CallerAssumption == NoCaller \notin Callers
ASSUME FileAssumption == NoFile \notin Files
ASSUME TunnelAssumption == NoTunnel \notin Tunnels
ASSUME MaxCallsAssumption == MaxCalls \in Nat

VARIABLES
    pairingFile, \* RPPAIRING_FILE, NoFile while it is not set
    configured,  \* the last file for which set_rppairing_file returned Ok
    slot,        \* the tunnel in RPPAIRING_RSD_CONNECTION, NoTunnel if unset
    holder,      \* the thread whose MutexGuard on it is alive
    open,        \* tunnels whose CachedRsdConnection has not been dropped
    status,      \* "unused" before a tunnel is opened, then "up", then "down"
    pairedWith,  \* the pairing file a tunnel was opened with
    pc,          \* where each thread is
    op,          \* which of the two functions it runs
    clone,       \* create_rppairing_rsd_connection's copy of the file
    made,        \* the tunnel it has opened and not yet given away
    reply,       \* "ok" or "err" once the call has an answer, else "none"
    calls        \* calls the thread has made

shared == <<pairingFile, configured, slot, holder, open>>
world  == <<status, pairedWith>>
vars   == <<pairingFile, configured, slot, holder, open, status, pairedWith,
            pc, op, clone, made, reply, calls>>

\* The points of a call at which it has the mutex guard.
Locked == {"probe", "serve", "borrowed"}
\* The points at which it has a new tunnel in a local variable.
Carrying == {"publish", "set", "swap"}
Points == Locked \cup Carrying \cup
          {"idle", "get", "lock", "file", "create", "lockSet"}

TypeOK ==
    /\ pairingFile \in Files \cup {NoFile}
    /\ configured \in Files \cup {NoFile}
    /\ slot \in Tunnels \cup {NoTunnel}
    /\ holder \in Callers \cup {NoCaller}
    /\ open \in SUBSET Tunnels
    /\ status \in [Tunnels -> {"unused", "up", "down"}]
    /\ pairedWith \in [Tunnels -> Files \cup {NoFile}]
    /\ pc \in [Callers -> Points]
    /\ op \in [Callers -> {"connect", "borrow"}]
    /\ clone \in [Callers -> Files \cup {NoFile}]
    /\ made \in [Callers -> Tunnels \cup {NoTunnel}]
    /\ reply \in [Callers -> {"none", "ok", "err"}]
    /\ calls \in [Callers -> 0..MaxCalls]

Init ==
    /\ pairingFile = NoFile
    /\ configured = NoFile
    /\ slot = NoTunnel
    /\ holder = NoCaller
    /\ open = {}
    /\ status = [t \in Tunnels |-> "unused"]
    /\ pairedWith = [t \in Tunnels |-> NoFile]
    /\ pc = [c \in Callers |-> "idle"]
    /\ op = [c \in Callers |-> "connect"]
    /\ clone = [c \in Callers |-> NoFile]
    /\ made = [c \in Callers |-> NoTunnel]
    /\ reply = [c \in Callers |-> "none"]
    /\ calls = [c \in Callers |-> 0]

-----------------------------------------------------------------------------
(* Steps of a thread *)

Goto(c, p) == pc' = [pc EXCEPT ![c] = p]

\* The call answers with an error and every local variable is dropped.
AnswerErr(c) ==
    /\ Goto(c, "idle")
    /\ reply' = [reply EXCEPT ![c] = "err"]

\* The call answers with a service, or with the guard.
AnswerOk(c) == reply' = [reply EXCEPT ![c] = "ok"]

\* A thread enters one of the two functions.
Call(c, o) ==
    /\ pc[c] = "idle"
    /\ calls[c] < MaxCalls
    /\ calls' = [calls EXCEPT ![c] = @ + 1]
    /\ op' = [op EXCEPT ![c] = o]
    /\ reply' = [reply EXCEPT ![c] = "none"]
    /\ Goto(c, "get")
    /\ UNCHANGED <<shared, world, clone, made>>

\* if let Some(connection) = RPPAIRING_RSD_CONNECTION.get()
GetCached(c) ==
    /\ pc[c] = "get"
    /\ Goto(c, IF slot = NoTunnel THEN "file" ELSE "lock")
    /\ UNCHANGED <<shared, world, op, clone, made, reply, calls>>

\* let mut guard = connection.lock().unwrap()
LockCached(c) ==
    /\ pc[c] = "lock"
    /\ holder = NoCaller
    /\ holder' = c
    /\ Goto(c, "probe")
    /\ UNCHANGED <<pairingFile, configured, slot, open, world,
                   op, clone, made, reply, calls>>

\* The cached tunnel answers: connect returns the service and drops the
\* guard, borrow returns the guard.
ProbeOk(c) ==
    /\ pc[c] = "probe"
    /\ status[slot] = "up"
    /\ AnswerOk(c)
    /\ IF op[c] = "borrow"
         THEN Goto(c, "borrowed") /\ holder' = holder
         ELSE Goto(c, "idle") /\ holder' = NoCaller
    /\ UNCHANGED <<pairingFile, configured, slot, open, world,
                   op, clone, made, calls>>

\* Variants that TLC must refuse: the dead connection is taken out of the cell,
\* or the guard stays alive while the new tunnel is opened.
ProbeReconnectEvicts(c) ==
    /\ pc[c] = "probe"
    /\ holder' = NoCaller
    /\ slot' = NoTunnel
    /\ open' = open \ {slot}
    /\ Goto(c, "file")
    /\ UNCHANGED <<pairingFile, configured, world,
                   op, clone, made, reply, calls>>
ProbeReconnectLocked(c) ==
    /\ pc[c] = "probe"
    /\ Goto(c, "file")
    /\ UNCHANGED <<shared, world, op, clone, made, reply, calls>>

\* A socket error, or for borrow any error: the guard is dropped at the end
\* of the block and the call goes on to open a tunnel of its own.  A tunnel
\* that is up can fail like this too, when the port of the service refuses.
ProbeReconnect(c) ==
    /\ pc[c] = "probe"
    /\ holder' = NoCaller
    /\ Goto(c, "file")
    /\ UNCHANGED <<pairingFile, configured, slot, open, world,
                   op, clone, made, reply, calls>>

\* Any other error is the answer of connect; the cached tunnel stays.
ProbeFail(c) ==
    /\ pc[c] = "probe"
    /\ op[c] = "connect"
    /\ holder' = NoCaller
    /\ AnswerErr(c)
    /\ UNCHANGED <<pairingFile, configured, slot, open, world,
                   op, clone, made, calls>>

\* create_rppairing_rsd_connection: no pairing file is an error, else clone it.
CloneFile(c) ==
    /\ pc[c] = "file"
    /\ IF pairingFile = NoFile
         THEN AnswerErr(c) /\ clone' = clone
         ELSE /\ clone' = [clone EXCEPT ![c] = pairingFile]
              /\ Goto(c, "create")
              /\ reply' = reply
    /\ UNCHANGED <<shared, world, op, made, calls>>

\* Dialling, pairing, the tunnel and the handshake all succeed.
CreateOk(c, t) ==
    /\ pc[c] = "create"
    /\ status[t] = "unused"
    /\ status' = [status EXCEPT ![t] = "up"]
    /\ pairedWith' = [pairedWith EXCEPT ![t] = clone[c]]
    /\ open' = open \cup {t}
    /\ made' = [made EXCEPT ![c] = t]
    /\ clone' = [clone EXCEPT ![c] = NoFile]
    /\ Goto(c, "publish")
    /\ UNCHANGED <<pairingFile, configured, slot, holder,
                   op, reply, calls>>

\* One of them fails; what had been opened is dropped.
CreateFail(c) ==
    /\ pc[c] = "create"
    /\ clone' = [clone EXCEPT ![c] = NoFile]
    /\ AnswerErr(c)
    /\ UNCHANGED <<shared, world, op, made, calls>>

\* if let Some(old_connection) = RPPAIRING_RSD_CONNECTION.get(), once more.
GetAgain(c) ==
    /\ pc[c] = "publish"
    /\ Goto(c, IF slot = NoTunnel THEN "set" ELSE "swap")
    /\ UNCHANGED <<shared, world, op, clone, made, reply, calls>>

\* A variant that TLC must refuse: the second thread overwrites the cell.
SetOnceOverwrites(c) ==
    /\ pc[c] = "set"
    /\ slot' = made[c]
    /\ made' = [made EXCEPT ![c] = NoTunnel]
    /\ Goto(c, "lockSet")
    /\ UNCHANGED <<pairingFile, configured, holder, open, world,
                   op, clone, reply, calls>>

\* RPPAIRING_RSD_CONNECTION.set(Mutex::new(conn)).ok(): of two threads that
\* saw the cell empty, the second one's tunnel is dropped.
SetOnce(c) ==
    /\ pc[c] = "set"
    /\ IF slot = NoTunnel
         THEN slot' = made[c] /\ open' = open
         ELSE slot' = slot /\ open' = open \ {made[c]}
    /\ made' = [made EXCEPT ![c] = NoTunnel]
    /\ Goto(c, "lockSet")
    /\ UNCHANGED <<pairingFile, configured, holder, world,
                   op, clone, reply, calls>>

\* With the guard, connect asks for the service and borrow answers Ok(guard).
UseNew(c) ==
    /\ holder = NoCaller
    /\ holder' = c
    /\ IF op[c] = "borrow"
         THEN Goto(c, "borrowed") /\ AnswerOk(c)
         ELSE Goto(c, "serve") /\ reply' = reply

\* RPPAIRING_RSD_CONNECTION.get().unwrap().lock().unwrap()
LockSet(c) ==
    /\ pc[c] = "lockSet"
    /\ UseNew(c)
    /\ UNCHANGED <<pairingFile, configured, slot, open, world,
                   op, clone, made, calls>>

\* guard = old_connection.lock(); guard.adapter = ...; guard.handshake = ...
Swap(c) ==
    /\ pc[c] = "swap"
    /\ UseNew(c)
    /\ slot' = made[c]
    /\ open' = open \ {slot}
    /\ made' = [made EXCEPT ![c] = NoTunnel]
    /\ UNCHANGED <<pairingFile, configured, world, op, clone, calls>>

\* connect's second attempt goes through the guard, whoever's tunnel is in it.
ServeOk(c) ==
    /\ pc[c] = "serve"
    /\ status[slot] = "up"
    /\ AnswerOk(c)
    /\ Goto(c, "idle")
    /\ holder' = NoCaller
    /\ UNCHANGED <<pairingFile, configured, slot, open, world,
                   op, clone, made, calls>>

\* A variant that TLC must refuse: unwrap() of the second attempt's error.
ServeFailPanics(c) ==
    /\ pc[c] = "serve"
    /\ Goto(c, "panicked")
    /\ holder' = NoCaller
    /\ UNCHANGED <<pairingFile, configured, slot, open, world,
                   op, clone, made, reply, calls>>

\* If that fails too the call fails, and the tunnel stays cached.
ServeFail(c) ==
    /\ pc[c] = "serve"
    /\ AnswerErr(c)
    /\ holder' = NoCaller
    /\ UNCHANGED <<pairingFile, configured, slot, open, world,
                   op, clone, made, calls>>

\* The borrower is done, well or badly, and drops the guard.
Release(c) ==
    /\ pc[c] = "borrowed"
    /\ holder' = NoCaller
    /\ Goto(c, "idle")
    /\ UNCHANGED <<pairingFile, configured, slot, open, world,
                   op, clone, made, reply, calls>>

-----------------------------------------------------------------------------
(* Steps of the rest of the program and of the device *)

\* set_rppairing_file with a file that parses: the first one stays for the
\* life of the process, and every call returns Ok.  (One that does not parse
\* returns the error and changes nothing.)
SetRpPairingFile(f) ==
    /\ pairingFile' = IF pairingFile = NoFile THEN f ELSE pairingFile
    /\ configured' = f
    /\ UNCHANGED <<slot, holder, open, world,
                   pc, op, clone, made, reply, calls>>

\* A tunnel dies: the device sleeps, the VPN goes away, the peer closes it.
TunnelDown(t) ==
    /\ status[t] = "up"
    /\ status' = [status EXCEPT ![t] = "down"]
    /\ UNCHANGED <<shared, pairedWith,
                   pc, op, clone, made, reply, calls>>

Step(c) ==
    \/ GetCached(c) \/ LockCached(c)
    \/ ProbeOk(c) \/ ProbeReconnect(c) \/ ProbeFail(c)
    \/ CloneFile(c) \/ (\E t \in Tunnels : CreateOk(c, t)) \/ CreateFail(c)
    \/ GetAgain(c) \/ SetOnce(c) \/ LockSet(c) \/ Swap(c)
    \/ ServeOk(c) \/ ServeFail(c) \/ Release(c)

Next ==
    \/ \E c \in Callers, o \in {"connect", "borrow"} : Call(c, o)
    \/ \E c \in Callers : Step(c)
    \/ \E f \in Files : SetRpPairingFile(f)
    \/ \E t \in Tunnels : TunnelDown(t)

Spec == Init /\ [][Next]_vars

\* A thread in the middle of a call is scheduled again, every await ends (well
\* or badly), and a borrower gives the guard back.
Fairness == \A c \in Callers : WF_vars(Step(c))

FairSpec == Spec /\ Fairness

-----------------------------------------------------------------------------
(* Properties *)

\* The guard is alive in exactly the calls that are between lock() and the end
\* of its scope: two threads never talk through the cached adapter at the same
\* time, and no way out of a call, error or answer, leaves the mutex locked
\* (rsd.rs:38-56, 60-75, 84-104).
GuardOwnership == \A c \in Callers : holder = c <=> pc[c] \in Locked

\* Wherever the code locks or unwraps the cell without looking again, the cell
\* is set, so RPPAIRING_RSD_CONNECTION.get().unwrap() cannot panic, although
\* set() may have lost its race (rsd.rs:38, 61-67, 84, 97-104).
CellFilledBeforeUse ==
    \A c \in Callers :
        pc[c] \in Locked \cup {"lock", "swap", "lockSet"} => slot # NoTunnel

\* The tunnels that are still open are the cached one and the ones a thread
\* has just opened and not yet handed over, one per thread: neither the loser
\* of the race on set() nor a replaced connection is leaked, and the cached
\* one is never dropped (rsd.rs:61-67, 97-104).
OneConnection ==
    /\ open = {t \in Tunnels : t = slot \/ \E c \in Callers : made[c] = t}
    /\ \A c, d \in Callers : made[c] = made[d] /\ made[c] # NoTunnel => c = d
    /\ \A c \in Callers : made[c] = slot => slot = NoTunnel

\* Every open tunnel was opened with the pairing file the process has, also
\* when the file is set, or set again, while a call is under way
\* (rsd.rs:29, 115-121).
PairedWithTheFile ==
    \A t \in open : pairedWith[t] = pairingFile /\ pairingFile # NoFile

\* The connection a borrower works through (an image being mounted) is not
\* exchanged under it by another thread's reconnect (rsd.rs:62-64, 98-101).
BorrowedIsStable ==
    [][\A c \in Callers : pc[c] = "borrowed" /\ pc'[c] = "borrowed"
                            => slot' = slot]_vars

\* The cache keeps the promise of ConnSlot.
Promise == INSTANCE ConnSlot
    WITH Callers <- Callers, Tunnels <- Tunnels,
         NoCaller <- NoCaller, NoTunnel <- NoTunnel,
         slot <- slot, holder <- holder, open <- open
KeepsPromise == Promise!Spec

\* Every call is answered: nobody waits for a guard that is not given back,
\* and no thread waits for itself (rsd.rs:36-112).
EveryCallAnswers == \A c \in Callers : pc[c] = "get" ~> reply[c] # "none"

\* The file the engine has just "configured" is the file tunnels are opened
\* with (LockdownEngine.swift:43-46).
ConfiguredFileIsUsed == configured # NoFile => pairingFile = configured
=============================================================================
