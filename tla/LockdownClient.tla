--------------------------- MODULE LockdownClient ---------------------------
(***************************************************************************)
(* How a host that uses libimobiledevice comes to a trusted session with a *)
(* device: lockdownd_client_new_with_handshake (lockdown.c) and            *)
(* lockdownd_client_free.                                                  *)
(*                                                                         *)
(* A client sends one request after the other over a connection of its own *)
(* and waits 30 seconds for each answer.  An answer that comes later stays *)
(* in the connection and is what the next request reads: answers carry the *)
(* name of the request, no number.  The clients share the pair record,     *)
(* which the usbmuxd daemon stores, and the device's list of trusted       *)
(* hosts.  A step is the receipt of an answer, or its timeout, together    *)
(* with the sending of the next request; or an access of the record.       *)
(***************************************************************************)
EXTENDS Naturals, Sequences

CONSTANTS
    Clients,
    HostIds,    \* host identifiers that can be generated (a bound)
    NoHost,
    MaxHandshakes, \* handshakes that are started (a bound)
    MaxResets   \* times the user or a restore revokes the trust (a bound)

ASSUME HostAssumption == NoHost \notin HostIds
ASSUME LockdownBoundAssumption == MaxHandshakes \in Nat /\ MaxResets \in Nat

VARIABLES
    \* a client
    pc,
    typed,      \* whether QueryType was answered, until the record is read
    asOld,      \* device->version < 7.0.0, as is a version that is not known
    hostId,     \* the local variable host_id, NoHost for NULL
    newId,      \* the identifier of the pair record it has generated
    second,     \* whether it pairs because ValidatePair knew no host
    session,    \* whether client->session_id is set
    bare,       \* whether the device asked for TLS that is not enabled yet
    \* the host
    record,     \* the identifier in the stored pair record, NoHost if none
    used,       \* identifiers that have been generated
    handshakes,
    \* the connections
    link,       \* "none", "up", or "lost"
    requests, answers,
    \* the device
    old,        \* its version is below 7.0
    trusted,
    serves,     \* the host whose session runs on the connection of a client
    revoked,    \* hosts that were trusted once
    resets

local  == <<typed, asOld, hostId, newId, second, session, bare>>
host   == <<record, used, handshakes>>
device == <<old, trusted, serves, revoked, resets>>
vars   == <<pc, typed, asOld, hostId, newId, second, session, bare,
            record, used, handshakes, link, requests, answers,
            old, trusted, serves, revoked, resets>>

\* The points at which an answer is awaited, and the request of each.
Asked ==
    [type |-> "QueryType", version |-> "GetValue", class |-> "GetValue",
     key |-> "GetValue", wifi |-> "GetValue", pair |-> "Pair",
     validate |-> "ValidatePair", start |-> "StartSession",
     stop |-> "StopSession"]
Waiting == DOMAIN Asked
Points  == Waiting \cup
           {"idle", "record", "save", "reread", "host", "tls", "ready", "free"}
Request == [of : Waiting, id : HostIds \cup {NoHost}]
Answer  == [of : Waiting, ok : BOOLEAN]

TypeOK ==
    /\ pc \in [Clients -> Points]
    /\ typed \in [Clients -> BOOLEAN] /\ asOld \in [Clients -> BOOLEAN]
    /\ hostId \in [Clients -> HostIds \cup {NoHost}]
    /\ newId \in [Clients -> HostIds \cup {NoHost}]
    /\ second \in [Clients -> BOOLEAN]
    /\ session \in [Clients -> BOOLEAN]
    /\ bare \in [Clients -> BOOLEAN]
    /\ record \in HostIds \cup {NoHost} /\ used \in SUBSET HostIds
    /\ handshakes \in 0..MaxHandshakes
    /\ link \in [Clients -> {"none", "up", "lost"}]
    /\ requests \in [Clients -> Seq(Request)]
    /\ answers \in [Clients -> Seq(Answer)]
    /\ old \in BOOLEAN
    /\ trusted \in SUBSET HostIds /\ revoked \in SUBSET HostIds
    /\ serves \in [Clients -> HostIds \cup {NoHost}]
    /\ resets \in 0..MaxResets
    /\ \A c \in Clients : pc[c] = "idle" <=> link[c] = "none"

Init ==
    /\ pc = [c \in Clients |-> "idle"]
    /\ typed = [c \in Clients |-> FALSE]
    /\ asOld = [c \in Clients |-> TRUE]
    /\ hostId = [c \in Clients |-> NoHost]
    /\ newId = [c \in Clients |-> NoHost]
    /\ second = [c \in Clients |-> FALSE]
    /\ session = [c \in Clients |-> FALSE]
    /\ bare = [c \in Clients |-> FALSE]
    /\ record = NoHost /\ used = {} /\ handshakes = 0
    /\ link = [c \in Clients |-> "none"]
    /\ requests = [c \in Clients |-> <<>>]
    /\ answers = [c \in Clients |-> <<>>]
    /\ old \in BOOLEAN
    /\ trusted = {} /\ revoked = {} /\ resets = 0
    /\ serves = [c \in Clients |-> NoHost]

-----------------------------------------------------------------------------
(* Sending and receiving *)

At(c, p) == pc' = [pc EXCEPT ![c] = p]

\* lockdownd_send; on a connection that is lost nothing arrives.
Ask(c, p, id) ==
    /\ At(c, p)
    /\ requests' = IF link[c] = "up"
                     THEN [requests EXCEPT ![c] = Append(@, [of |-> p, id |-> id])]
                     ELSE requests

Proceed(c, p) == At(c, p) /\ requests' = requests

\* A timeout, or an error of the connection.
NoAnswer == [of |-> "none", ok |-> FALSE]

\* lockdownd_receive: the oldest answer there is, or none within 30 seconds.
Received(c) == IF answers[c] = <<>> THEN NoAnswer ELSE Head(answers[c])

Awaits(c, p) ==
    /\ pc[c] = p
    /\ answers' = IF answers[c] = <<>> THEN answers
                                       ELSE [answers EXCEPT ![c] = Tail(@)]

\* A variant that TLC must refuse: the name of the request is not compared.
AcceptsAny(c, p) == Received(c).ok

\* lockdown_check_result: the answer is one to a request of this name.  (Only
\* the answer to QueryType has a type.)
Accepts(c, p) ==
    /\ Received(c).of \in Waiting
    /\ Asked[Received(c).of] = Asked[p]
    /\ Received(c).ok

-----------------------------------------------------------------------------
(* lockdownd_client_new_with_handshake *)

\* lockdownd_client_new, and QueryType.
Connect(c) ==
    /\ pc[c] = "idle"
    /\ handshakes < MaxHandshakes
    /\ handshakes' = handshakes + 1
    /\ link' = [link EXCEPT ![c] = "up"]
    /\ At(c, "type")
    /\ requests' = [requests EXCEPT ![c] = <<[of |-> "type", id |-> NoHost]>>]
    /\ UNCHANGED <<local, record, used, answers, device>>

GotType(c) ==
    /\ Awaits(c, "type")
    /\ typed' = [typed EXCEPT ![c] = Accepts(c, "type")]
    /\ Ask(c, "version", NoHost)
    /\ UNCHANGED <<asOld, hostId, newId, second, session, bare, host, link,
                   device>>

GotVersion(c) ==
    /\ Awaits(c, "version")
    /\ asOld' = [asOld EXCEPT ![c] =
                   old \/ Received(c) # [of |-> "version", ok |-> TRUE]]
    /\ Ask(c, "class", NoHost)
    /\ UNCHANGED <<typed, hostId, newId, second, session, bare, host, link,
                   device>>

\* Any string is a class that is not "Watch", also a version that comes late.
GotClass(c) ==
    /\ Awaits(c, "class")
    /\ Proceed(c, "record")
    /\ UNCHANGED <<local, host, link, device>>

\* From line 733 on, after a result ok.
AfterPairing(c, ok) ==
    IF asOld[c] THEN Proceed(c, "reread")
                       ELSE Proceed(c, IF ok THEN "host" ELSE "free")

\* userpref_read_pair_record, the first time.  A timeout of the daemon ends the
\* handshake; a record that cannot be read otherwise is none.
ReadRecord(c) ==
    /\ pc[c] = "record"
    /\ \/ Proceed(c, "free") /\ hostId' = hostId
       \/ \E id \in {record, NoHost} :
              /\ hostId' = [hostId EXCEPT ![c] = id]
              /\ IF typed[c] /\ id = NoHost THEN Ask(c, "key", NoHost)
                                            ELSE AfterPairing(c, typed[c])
    /\ typed' = [typed EXCEPT ![c] = FALSE]
    /\ UNCHANGED <<asOld, newId, second, session, bare, host, link,
                   answers, device>>

\* lockdownd_pair returns: to line 733, or to line 742.
PairReturns(c, ok) ==
    /\ IF second[c] THEN Proceed(c, IF ok THEN "reread" ELSE "free")
                    ELSE AfterPairing(c, ok)
    /\ newId' = [newId EXCEPT ![c] = NoHost]

\* pair_record_generate, for which the device's public key is needed.  Which
\* of the identifiers that are not in use is generated does not matter.
GotKey(c) ==
    /\ Awaits(c, "key")
    /\ \/ /\ Received(c) = [of |-> "key", ok |-> TRUE] /\ used # HostIds
          /\ newId' = [newId EXCEPT ![c] = CHOOSE id \in HostIds : id \notin used]
          /\ used' = used \cup {newId'[c]}
          /\ Ask(c, "wifi", NoHost)
       \/ /\ Received(c) # [of |-> "key", ok |-> TRUE] \/ used = HostIds
          /\ PairReturns(c, FALSE)
          /\ used' = used
    /\ UNCHANGED <<typed, asOld, hostId, second, session, bare, record,
                   handshakes, link, device>>

\* The address is not needed, whatever is answered.
GotWifi(c) ==
    /\ Awaits(c, "wifi")
    /\ Ask(c, "pair", newId[c])
    /\ UNCHANGED <<local, host, link, device>>

\* A variant that TLC must refuse: no timeout while the user decides.
GotPairInTheEnd(c) ==
    /\ Awaits(c, "pair")
    /\ answers[c] # <<>>
    /\ IF Accepts(c, "pair") THEN Proceed(c, "save") /\ newId' = newId
                             ELSE PairReturns(c, FALSE)
    /\ UNCHANGED <<typed, asOld, hostId, second, session, bare, host, link,
                   device>>

GotPair(c) ==
    /\ Awaits(c, "pair")
    /\ IF Accepts(c, "pair") THEN Proceed(c, "save") /\ newId' = newId
                             ELSE PairReturns(c, FALSE)
    /\ UNCHANGED <<typed, asOld, hostId, second, session, bare, host, link,
                   device>>

\* userpref_save_pair_record, whose result is not looked at.
SaveRecord(c) ==
    /\ pc[c] = "save"
    /\ record' \in {record, newId[c]}
    /\ PairReturns(c, TRUE)
    /\ UNCHANGED <<typed, asOld, hostId, second, session, bare,
                   used, handshakes, link, answers, device>>

\* lockdownd_validate_pair sends the stored record, if it can be read.
ReadAgain(c) ==
    /\ pc[c] = "reread"
    /\ \/ Proceed(c, "free")
       \/ record # NoHost /\ Ask(c, "validate", record)
    /\ UNCHANGED <<local, host, link, answers, device>>

\* An unknown host pairs again, once.
GotValidate(c) ==
    /\ Awaits(c, "validate")
    /\ IF Accepts(c, "validate")
         THEN Proceed(c, "host") /\ UNCHANGED <<second, hostId>>
         ELSE IF Received(c).of = "validate" /\ ~second[c]
         THEN /\ Ask(c, "key", NoHost)
              /\ second' = [second EXCEPT ![c] = TRUE]
              /\ hostId' = [hostId EXCEPT ![c] = NoHost]
         ELSE Proceed(c, "free") /\ UNCHANGED <<second, hostId>>
    /\ UNCHANGED <<typed, asOld, newId, session, bare, host, link, device>>

\* The host id that was read first, or else the one that is stored now.
StartSession(c) ==
    /\ pc[c] = "host"
    /\ \/ /\ hostId[c] # NoHost
          /\ Ask(c, "start", hostId[c])
          /\ hostId' = hostId
       \/ /\ hostId[c] = NoHost
          /\ \/ Proceed(c, "free") /\ hostId' = hostId
             \/ /\ record # NoHost
                /\ Ask(c, "start", record)
                /\ hostId' = [hostId EXCEPT ![c] = record]
    /\ UNCHANGED <<typed, asOld, newId, second, session, bare, host, link,
                   answers, device>>

\* A result ok is a success, whether the answer has a SessionID or not; its
\* EnableSessionSSL says whether the device asks for TLS.
GotStart(c) ==
    /\ Awaits(c, "start")
    /\ \/ /\ Accepts(c, "start")
          /\ \E sid \in BOOLEAN : session' = [session EXCEPT ![c] = sid]
          /\ \E use \in BOOLEAN : bare' = [bare EXCEPT ![c] = use]
          /\ Proceed(c, "tls")
       \/ /\ ~Accepts(c, "start")
          /\ UNCHANGED <<session, bare>>
          /\ Proceed(c, "free")
    /\ UNCHANGED <<typed, asOld, hostId, newId, second, host, link, device>>

\* A variant that TLC must refuse: the error of enable_ssl is lost.
EnableSSLOrNot(c) ==
    /\ pc[c] = "tls"
    /\ Proceed(c, "ready")
    /\ bare' = [bare EXCEPT ![c] = @ /\ (link[c] # "up" \/ serves[c] = NoHost)]
    /\ UNCHANGED <<typed, asOld, hostId, newId, second, session, host, link,
                   answers, device>>

\* property_list_service_enable_ssl, if it is asked for, and the handshake
\* returns.
EnableSSL(c) ==
    /\ pc[c] = "tls"
    /\ \/ /\ bare[c] /\ link[c] = "up" /\ serves[c] # NoHost
          /\ bare' = [bare EXCEPT ![c] = FALSE]
          /\ Proceed(c, "ready")
       \/ bare[c]  /\ bare' = bare /\ Proceed(c, "free")
       \/ ~bare[c] /\ bare' = bare /\ Proceed(c, "ready")
    /\ UNCHANGED <<typed, asOld, hostId, newId, second, session, host, link,
                   answers, device>>

-----------------------------------------------------------------------------
(* lockdownd_client_free: the application is done, or the handshake failed *)

Done(c) ==
    /\ pc[c] = "ready"
    /\ Proceed(c, "free")
    /\ UNCHANGED <<local, host, link, answers, device>>

\* A session is stopped first, and the answer is awaited.
Free(c) ==
    /\ pc[c] = "free" /\ session[c]
    /\ Ask(c, "stop", NoHost)
    /\ UNCHANGED <<local, host, link, answers, device>>

\* The connection is closed, which ends the session on the device as well.
Closed(c) ==
    /\ At(c, "idle")
    /\ link' = [link EXCEPT ![c] = "none"]
    /\ requests' = [requests EXCEPT ![c] = <<>>]
    /\ answers' = [answers EXCEPT ![c] = <<>>]
    /\ serves' = [serves EXCEPT ![c] = NoHost]
    /\ hostId' = [hostId EXCEPT ![c] = NoHost]
    /\ newId' = [newId EXCEPT ![c] = NoHost]
    /\ second' = [second EXCEPT ![c] = FALSE]
    /\ session' = [session EXCEPT ![c] = FALSE]
    /\ bare' = [bare EXCEPT ![c] = FALSE]
    /\ typed' = [typed EXCEPT ![c] = FALSE]
    /\ asOld' = [asOld EXCEPT ![c] = TRUE]
    /\ UNCHANGED <<host, old, trusted, revoked, resets>>

\* A variant that TLC must refuse: the connection is not closed.
CloseKeepsLink(c) ==
    /\ pc[c] = "stop" \/ (pc[c] = "free" /\ ~session[c])
    /\ At(c, "idle")
    /\ UNCHANGED <<local, host, link, requests, answers, device>>

Close(c) ==
    /\ pc[c] = "stop" \/ (pc[c] = "free" /\ ~session[c])
    /\ Closed(c)

\* The host's process ends.
Crash(c) ==
    /\ pc[c] # "idle"
    /\ Closed(c)

-----------------------------------------------------------------------------
(* The device *)

\* It takes the oldest request of a connection and answers it, at any time
\* after it was sent; the user may refuse to pair.  In a session for which it
\* has asked for TLS a connection that goes on without it is dropped.
Handle(c) ==
    /\ link[c] = "up" /\ requests[c] # <<>>
    /\ serves[c] = NoHost \/ ~bare[c]
    /\ requests' = [requests EXCEPT ![c] = Tail(@)]
    /\ LET q == Head(requests[c])
           Answers(ok) == answers' = [answers EXCEPT ![c] =
                                        Append(@, [of |-> q.of, ok |-> ok])]
       IN  CASE q.of = "pair" ->
                  \E ok \in BOOLEAN :
                      /\ Answers(ok)
                      /\ trusted' = IF ok THEN trusted \cup {q.id} ELSE trusted
                      /\ serves' = serves
             [] q.of = "start" ->
                  /\ Answers(q.id \in trusted)
                  /\ serves' = IF q.id \in trusted
                                 THEN [serves EXCEPT ![c] = q.id] ELSE serves
                  /\ trusted' = trusted
             [] q.of = "validate" ->
                  /\ Answers(q.id \in trusted)
                  /\ UNCHANGED <<trusted, serves>>
             [] q.of = "stop" ->
                  /\ Answers(TRUE)
                  /\ serves' = [serves EXCEPT ![c] = NoHost]
                  /\ trusted' = trusted
             [] OTHER ->
                  /\ Answers(TRUE)
                  /\ UNCHANGED <<trusted, serves>>
    /\ UNCHANGED <<pc, local, host, link, old, revoked, resets>>

\* The cable is pulled, the device drops the connection.
Lost(c) ==
    /\ link[c] = "up"
    /\ link' = [link EXCEPT ![c] = "lost"]
    /\ requests' = [requests EXCEPT ![c] = <<>>]
    /\ serves' = [serves EXCEPT ![c] = NoHost]
    /\ UNCHANGED <<pc, local, host, answers, old, trusted, revoked, resets>>

Reset ==
    /\ resets < MaxResets /\ trusted # {}
    /\ resets' = resets + 1
    /\ revoked' = revoked \cup trusted
    /\ trusted' = {}
    /\ UNCHANGED <<pc, local, host, link, requests, answers, old, serves>>

ClientStep(c) ==
    \/ GotType(c) \/ GotVersion(c) \/ GotClass(c) \/ ReadRecord(c)
    \/ GotKey(c) \/ GotWifi(c) \/ GotPair(c) \/ SaveRecord(c)
    \/ ReadAgain(c) \/ GotValidate(c) \/ StartSession(c) \/ GotStart(c)
    \/ EnableSSL(c) \/ Free(c) \/ Close(c)

Next ==
    \/ \E c \in Clients :
           \/ Connect(c) \/ ClientStep(c) \/ Done(c) \/ Crash(c)
           \/ Handle(c) \/ Lost(c)
    \/ Reset

Spec == Init /\ [][Next]_vars

\* A client is scheduled, and 30 seconds pass.  The device need not answer.
FairSpec == Spec /\ \A c \in Clients : WF_vars(ClientStep(c))

-----------------------------------------------------------------------------
(* Properties *)

\* A handshake that succeeded has its session: encrypted if the device asked
\* for that, and, as long as the connection stands, running on the device for
\* the host id the client used, one the device trusted; and the client never
\* has a session id for a session the device does not have.  This holds
\* whichever answers came late, were lost or belonged to another request
\* (lockdown.c:155-212, 748-782, 1151-1239).
HasSession(c) == pc[c] = "ready" \/ (session[c] /\ pc[c] # "stop")
SessionIsTrusted ==
    \A c \in Clients :
        /\ pc[c] = "ready" => ~bare[c]
        /\ HasSession(c) /\ link[c] = "up" =>
               serves[c] = hostId[c] /\ hostId[c] \in trusted \cup revoked

\* The stored pair record is one the device accepted, also when an answer to
\* an earlier request is read in place of the answer to Pair, two clients pair
\* at once, or one is killed between the two steps; only the user can have
\* revoked it since (lockdown.c:971-1019).
RecordIsTrusted == record # NoHost => record \in trusted \cup revoked

\* The sessions that callers of the handshake have, over connections that
\* stand, and the hosts the device has accepted.
Trust == INSTANCE TrustedHost
    WITH accepted <- trusted \cup revoked,
         running  <- serves,
         held     <- [c \in Clients |->
                        IF pc[c] = "ready" /\ link[c] = "up"
                          THEN hostId[c] ELSE NoHost]

\* The handshake keeps the promise of TrustedHost, whichever answers are late
\* or lost, whoever else pairs and whenever a client is killed: the record only
\* ever changes to that of an accepted host and is never lost, and a caller is
\* given the session that the device runs for it, which stays the one it has as
\* long as the connection stands (lockdown.c:646-784, 971-1019, 1151-1239).
KeepsTheTrust == Trust!Spec

\* A handshake, and lockdownd_client_free, return, whatever the device does
\* (lockdown.c:646-784, property_list_service.c:183-273).
HandshakeReturns ==
    \A c \in Clients :
        pc[c] \notin {"idle", "ready"} ~> pc[c] \in {"idle", "ready"}
=============================================================================
