------------------------ MODULE LockdownClientProofs ------------------------
(***************************************************************************)
(* Theorems about LockdownClient, for any number of clients, host          *)
(* identifiers and handshakes.                                             *)
(***************************************************************************)
EXTENDS LockdownClient, SequenceTheorems, TLAPS

\* The hosts the device trusts or has trusted; they never become fewer.
Accepted == trusted \cup revoked

\* What is under way on the connection of a client: the answers it has not
\* read, and behind them the requests the device has not taken.
NoneOf(c, p) ==
    /\ \A i \in 1..Len(answers[c]) : answers[c][i].of # p
    /\ \A i \in 1..Len(requests[c]) : requests[c][i].of # p
LastOf(c, p) ==
    /\ \A i \in 1..Len(answers[c]) :
           answers[c][i].of = p => i = Len(answers[c]) /\ requests[c] = <<>>
    /\ \A i \in 1..Len(requests[c]) :
           requests[c][i].of = p => i = Len(requests[c])

\* The points of a handshake before Pair, ValidatePair and StartSession.
Ending      == {"free", "stop"}
BeforePair  == {"idle", "type", "version", "class", "record", "key", "wifi"}
PastStart   == {"start", "tls", "ready"} \cup Ending
PastPairing == {"validate", "host"} \cup PastStart

\* A late answer is to a request that was sent: none to Pair while a pairing
\* is being prepared, none to ValidatePair before it is first sent.
Unasked(c) ==
    /\ pc[c] \in BeforePair => NoneOf(c, "pair")
    /\ ~second[c] /\ pc[c] \notin PastPairing => NoneOf(c, "validate")
    /\ pc[c] \notin PastStart => NoneOf(c, "start")
    /\ pc[c] # "stop" => NoneOf(c, "stop")

\* What is sent once is the last thing on the connection while its answer is
\* awaited: who reads that answer has read every earlier one.
AskedLast(c) ==
    /\ pc[c] = "validate" /\ ~second[c] => LastOf(c, "validate")
    /\ pc[c] = "start" => LastOf(c, "start")

\* A record that is generated has an identifier, and the answer to Pair that is
\* read is about the record that is then saved.
PairFits(c) ==
    /\ pc[c] \in {"wifi", "pair", "save"} => newId[c] \in HostIds
    /\ \A i \in 1..Len(requests[c]) :
           requests[c][i].of = "pair" => requests[c][i].id \in HostIds
    /\ pc[c] = "pair" =>
         /\ \A i \in 1..Len(requests[c]) :
                requests[c][i].of = "pair" => requests[c][i].id = newId[c]
         /\ \A i \in 1..Len(answers[c]) :
                answers[c][i] = [of |-> "pair", ok |-> TRUE]
                    => newId[c] \in Accepted
    /\ pc[c] = "save" => newId[c] \in Accepted

Serving(c) == serves[c] = hostId[c] /\ hostId[c] \in Accepted

\* From the answer to StartSession on, and with an identifier for the session,
\* until it is stopped.
InSession(c) == pc[c] \in {"tls", "ready"} \/ (session[c] /\ pc[c] # "stop")

\* The session of the client is the one the device serves, and it has sent
\* nothing else.
SessionFits(c) ==
    /\ pc[c] = "start" =>
         /\ \A i \in 1..Len(requests[c]) :
                requests[c][i].of = "start" => requests[c][i].id = hostId[c]
         /\ \A i \in 1..Len(answers[c]) :
                answers[c][i] = [of |-> "start", ok |-> TRUE] /\ link[c] = "up"
                    => Serving(c)
    /\ pc[c] = "ready" => ~bare[c]
    /\ session[c] => pc[c] \in {"tls", "ready", "free", "stop"}
    /\ InSession(c) => requests[c] = <<>> /\ (link[c] = "up" => Serving(c))

ClientInv(c) == Unasked(c) /\ AskedLast(c) /\ PairFits(c) /\ SessionFits(c)

\* The inductive invariant.
IInv ==
    /\ TypeOK
    /\ \A c \in Clients : ClientInv(c)
    /\ RecordIsTrusted

-----------------------------------------------------------------------------
(* Type correctness *)

LEMMA WaitingPoints ==
    Waiting = {"type", "version", "class", "key", "wifi", "pair", "validate",
               "start", "stop"}
BY DEF Waiting, Asked

\* A client goes to another point of its handshake, perhaps with a request.
Moves(c) ==
    /\ pc' \in [Clients -> Points]
    /\ requests' \in [Clients -> Seq(Request)]
    /\ \A d \in Clients : pc'[d] = "idle" <=> pc[d] = "idle"

LEMMA AskMoves ==
    ASSUME TypeOK, NEW c \in Clients, pc[c] # "idle", NEW p \in Waiting,
           NEW id \in HostIds \cup {NoHost}, Ask(c, p, id)
    PROVE  Moves(c)
<1>1. [of |-> p, id |-> id] \in Request
  BY DEF Request
<1>2. pc' \in [Clients -> Points] /\ requests' \in [Clients -> Seq(Request)]
  BY <1>1 DEF TypeOK, Ask, At, Points
<1>3. \A d \in Clients : pc'[d] = "idle" <=> pc[d] = "idle"
  BY WaitingPoints DEF TypeOK, Ask, At
<1> QED
  BY <1>2, <1>3 DEF Moves

LEMMA ProceedMoves ==
    ASSUME TypeOK, NEW c \in Clients, pc[c] # "idle",
           NEW p \in Points \ {"idle"}, Proceed(c, p)
    PROVE  Moves(c)
BY DEF TypeOK, Proceed, At, Moves

LEMMA AfterPairingMoves ==
    ASSUME TypeOK, NEW c \in Clients, pc[c] # "idle", NEW ok, AfterPairing(c, ok)
    PROVE  Moves(c)
BY ProceedMoves DEF AfterPairing, Points

LEMMA PairReturnsMoves ==
    ASSUME TypeOK, NEW c \in Clients, pc[c] # "idle", NEW ok, PairReturns(c, ok)
    PROVE  Moves(c) /\ newId' \in [Clients -> HostIds \cup {NoHost}]
BY ProceedMoves, AfterPairingMoves DEF PairReturns, Points, TypeOK

LEMMA AwaitsType ==
    ASSUME TypeOK, NEW c \in Clients, NEW p, Awaits(c, p)
    PROVE  answers' \in [Clients -> Seq(Answer)]
BY DEF TypeOK, Awaits

LEMMA GeneratedId ==
    ASSUME TypeOK, used # HostIds
    PROVE  (CHOOSE id \in HostIds : id \notin used) \in HostIds
BY DEF TypeOK

\* Actions that move a client and change nothing of another type.
LEMMA MovesTypeOK ==
    ASSUME TypeOK, NEW c \in Clients, Moves(c),
           answers' \in [Clients -> Seq(Answer)],
           typed' \in [Clients -> BOOLEAN], asOld' \in [Clients -> BOOLEAN],
           hostId' \in [Clients -> HostIds \cup {NoHost}],
           newId' \in [Clients -> HostIds \cup {NoHost}],
           second' \in [Clients -> BOOLEAN],
           session' \in [Clients -> BOOLEAN], bare' \in [Clients -> BOOLEAN],
           record' \in HostIds \cup {NoHost}, used' \in SUBSET HostIds,
           UNCHANGED <<handshakes, link, device>>
    PROVE  TypeOK'
BY DEF TypeOK, Moves, device

LEMMA GotTypeTypeOK ==
    ASSUME TypeOK, NEW c \in Clients, GotType(c)
    PROVE  TypeOK'
<1>1. pc[c] # "idle" /\ Moves(c)
  BY AskMoves, AwaitsType, WaitingPoints DEF GotType, Awaits, Accepts, host,
     TypeOK
<1> QED
  BY <1>1, MovesTypeOK, AwaitsType DEF GotType, Awaits, Accepts, host, TypeOK

LEMMA GotVersionTypeOK ==
    ASSUME TypeOK, NEW c \in Clients, GotVersion(c)
    PROVE  TypeOK'
<1>1. pc[c] # "idle" /\ Moves(c)
  BY AskMoves, AwaitsType, WaitingPoints DEF GotVersion, Awaits, host, TypeOK
<1> QED
  BY <1>1, MovesTypeOK, AwaitsType DEF GotVersion, Awaits, host, TypeOK

LEMMA GotClassTypeOK ==
    ASSUME TypeOK, NEW c \in Clients, GotClass(c)
    PROVE  TypeOK'
<1>1. pc[c] # "idle" /\ Moves(c)
  BY ProceedMoves, AwaitsType DEF GotClass, Awaits, Points, local, host,
     TypeOK
<1> QED
  BY <1>1, MovesTypeOK, AwaitsType DEF GotClass, Awaits, Points, local, host,
     TypeOK

LEMMA ReadRecordTypeOK ==
    ASSUME TypeOK, NEW c \in Clients, ReadRecord(c)
    PROVE  TypeOK'
<1>1. pc[c] # "idle" /\ Moves(c)
  BY AskMoves, ProceedMoves, AfterPairingMoves, WaitingPoints DEF ReadRecord,
     host, Points, TypeOK
<1>2. hostId' \in [Clients -> HostIds \cup {NoHost}]
  BY <1>1 DEF ReadRecord, TypeOK
<1> QED
  BY <1>1, <1>2, MovesTypeOK DEF ReadRecord, host, Points, TypeOK

LEMMA GotKeyTypeOK ==
    ASSUME TypeOK, NEW c \in Clients, GotKey(c)
    PROVE  TypeOK'
<1>1. pc[c] = "key" /\ answers' \in [Clients -> Seq(Answer)]
  BY AwaitsType DEF GotKey, Awaits
<1>2. CASE Received(c) = [of |-> "key", ok |-> TRUE] /\ used # HostIds
  <2> DEFINE id == CHOOSE id \in HostIds : id \notin used
  <2>1. id \in HostIds
    BY <1>2, GeneratedId
  <2>2. newId' = [newId EXCEPT ![c] = id] /\ used' = used \cup {newId'[c]}
    BY <1>2 DEF GotKey
  <2>3. Moves(c)
    BY <1>1, <1>2, AskMoves, WaitingPoints DEF GotKey
  <2> HIDE DEF id
  <2> QED
    BY <1>1, <2>1, <2>2, <2>3, MovesTypeOK DEF GotKey, TypeOK
<1>3. CASE PairReturns(c, FALSE) /\ used' = used
  BY <1>1, <1>3, PairReturnsMoves, MovesTypeOK DEF GotKey, TypeOK
<1> QED
  BY <1>2, <1>3 DEF GotKey

LEMMA GotWifiTypeOK ==
    ASSUME TypeOK, NEW c \in Clients, GotWifi(c)
    PROVE  TypeOK'
<1>1. pc[c] # "idle" /\ Moves(c)
  BY AskMoves, AwaitsType, WaitingPoints DEF GotWifi, Awaits, local, host,
     TypeOK
<1> QED
  BY <1>1, MovesTypeOK, AwaitsType DEF GotWifi, Awaits, local, host, TypeOK

LEMMA GotPairTypeOK ==
    ASSUME TypeOK, NEW c \in Clients, GotPair(c)
    PROVE  TypeOK'
<1>1. pc[c] # "idle" /\ Moves(c)
  BY ProceedMoves, PairReturnsMoves, AwaitsType DEF GotPair, Awaits, Points,
     host, TypeOK
<1>2. newId' \in [Clients -> HostIds \cup {NoHost}]
  BY <1>1, PairReturnsMoves DEF GotPair, TypeOK
<1> QED
  BY <1>1, <1>2, MovesTypeOK, AwaitsType DEF GotPair, Awaits, Points, host,
     TypeOK

LEMMA SaveRecordTypeOK ==
    ASSUME TypeOK, NEW c \in Clients, SaveRecord(c)
    PROVE  TypeOK'
<1>1. pc[c] # "idle" /\ Moves(c)
  BY PairReturnsMoves DEF SaveRecord, TypeOK
<1>2. newId' \in [Clients -> HostIds \cup {NoHost}]
  BY <1>1, PairReturnsMoves DEF SaveRecord, TypeOK
<1> QED
  BY <1>1, <1>2, MovesTypeOK DEF SaveRecord, TypeOK

LEMMA ReadAgainTypeOK ==
    ASSUME TypeOK, NEW c \in Clients, ReadAgain(c)
    PROVE  TypeOK'
<1>1. pc[c] # "idle" /\ Moves(c)
  BY AskMoves, ProceedMoves, WaitingPoints DEF ReadAgain, Points, local,
     host, TypeOK
<1> QED
  BY <1>1, MovesTypeOK DEF ReadAgain, Points, local, host, TypeOK

LEMMA GotValidateTypeOK ==
    ASSUME TypeOK, NEW c \in Clients, GotValidate(c)
    PROVE  TypeOK'
<1>1. pc[c] # "idle" /\ Moves(c)
  BY AskMoves, ProceedMoves, AwaitsType, WaitingPoints DEF GotValidate,
     Awaits, Points, host, TypeOK
<1> QED
  BY <1>1, MovesTypeOK, AwaitsType DEF GotValidate, Awaits, Points, host,
     TypeOK

LEMMA StartSessionTypeOK ==
    ASSUME TypeOK, NEW c \in Clients, StartSession(c)
    PROVE  TypeOK'
<1>1. pc[c] # "idle" /\ Moves(c)
  BY AskMoves, ProceedMoves, WaitingPoints DEF StartSession, Points, host,
     TypeOK
<1>2. hostId' \in [Clients -> HostIds \cup {NoHost}]
  BY <1>1 DEF StartSession, TypeOK
<1> QED
  BY <1>1, <1>2, MovesTypeOK DEF StartSession, Points, host, TypeOK

LEMMA GotStartTypeOK ==
    ASSUME TypeOK, NEW c \in Clients, GotStart(c)
    PROVE  TypeOK'
<1>1. pc[c] # "idle" /\ Moves(c)
  BY ProceedMoves, AwaitsType DEF GotStart, Awaits, Accepts, Points, host,
     TypeOK
<1>2. session' \in [Clients -> BOOLEAN]
  <2>1. CASE Accepts(c, "start")
    <3>1. PICK sid \in BOOLEAN : session' = [session EXCEPT ![c] = sid]
      BY <2>1 DEF GotStart
    <3> QED
      BY <3>1 DEF TypeOK
  <2> QED
    BY <2>1 DEF GotStart, TypeOK
<1>3. bare' \in [Clients -> BOOLEAN]
  <2>1. CASE Accepts(c, "start")
    <3>1. PICK use \in BOOLEAN : bare' = [bare EXCEPT ![c] = use]
      BY <2>1 DEF GotStart
    <3> QED
      BY <3>1 DEF TypeOK
  <2> QED
    BY <2>1 DEF GotStart, TypeOK
<1> QED
  BY <1>1, <1>2, <1>3, MovesTypeOK, AwaitsType DEF GotStart, host, TypeOK

LEMMA EnableSSLTypeOK ==
    ASSUME TypeOK, NEW c \in Clients, EnableSSL(c)
    PROVE  TypeOK'
<1>1. pc[c] # "idle" /\ Moves(c)
  BY ProceedMoves DEF EnableSSL, Points, host, TypeOK
<1>2. bare' \in [Clients -> BOOLEAN]
  BY DEF EnableSSL, TypeOK
<1> QED
  BY <1>1, <1>2, MovesTypeOK DEF EnableSSL, host, TypeOK

LEMMA DoneTypeOK ==
    ASSUME TypeOK, NEW c \in Clients, Done(c)
    PROVE  TypeOK'
<1>1. pc[c] # "idle" /\ Moves(c)
  BY ProceedMoves DEF Done, Points, local, host, TypeOK
<1> QED
  BY <1>1, MovesTypeOK DEF Done, Points, local, host, TypeOK

LEMMA FreeTypeOK ==
    ASSUME TypeOK, NEW c \in Clients, Free(c)
    PROVE  TypeOK'
<1>1. pc[c] # "idle" /\ Moves(c)
  BY AskMoves, WaitingPoints DEF Free, local, host, TypeOK
<1> QED
  BY <1>1, MovesTypeOK DEF Free, local, host, TypeOK


LEMMA ConnectTypeOK ==
    ASSUME TypeOK, NEW c \in Clients, Connect(c)
    PROVE  TypeOK'
<1>1. [of |-> "type", id |-> NoHost] \in Request
  BY WaitingPoints DEF Request
<1>2. requests' \in [Clients -> Seq(Request)]
  BY <1>1 DEF Connect, TypeOK
<1>3. handshakes' \in 0..MaxHandshakes
  BY LockdownBoundAssumption DEF Connect, TypeOK
<1>4. /\ pc' \in [Clients -> Points]
      /\ link' \in [Clients -> {"none", "up", "lost"}]
      /\ \A d \in Clients : pc'[d] = "idle" <=> link'[d] = "none"
  BY WaitingPoints DEF Connect, At, Points, TypeOK
<1> QED
  BY <1>2, <1>3, <1>4 DEF Connect, TypeOK, local, device

LEMMA CloseTypeOK ==
    ASSUME TypeOK, NEW c \in Clients, Closed(c)
    PROVE  TypeOK'
BY DEF TypeOK, Closed, At, Points, host

LEMMA HandleTypeOK ==
    ASSUME TypeOK, NEW c \in Clients, PairFits(c), Handle(c)
    PROVE  TypeOK'
<1> DEFINE q == Head(requests[c])
<1>1. q \in Request /\ requests[c] \in Seq(Request)
  BY DEF Handle, TypeOK
<1>2. requests' \in [Clients -> Seq(Request)]
  BY <1>1 DEF Handle, TypeOK
<1>3. \A ok \in BOOLEAN : [of |-> q.of, ok |-> ok] \in Answer
  BY <1>1 DEF Request, Answer
<1>4. q.id \in HostIds \cup {NoHost} /\ (q.of = "pair" => q.id \in HostIds)
  <2>1. q = requests[c][1] /\ 1 \in 1..Len(requests[c])
    BY <1>1, HeadTailProperties, LenProperties, EmptySeq DEF Handle
  <2> QED
    BY <1>1, <2>1 DEF Request, PairFits
<1> DEFINE Ans(ok) == [answers EXCEPT ![c] = Append(@, [of |-> q.of, ok |-> ok])]
<1>5. \A ok \in BOOLEAN : Ans(ok) \in [Clients -> Seq(Answer)]
  BY <1>3 DEF TypeOK
<1>6. CASE q.of = "pair"
  <2>1. PICK ok \in BOOLEAN :
          /\ answers' = Ans(ok)
          /\ trusted' = IF ok THEN trusted \cup {q.id} ELSE trusted
          /\ serves' = serves
    BY <1>6 DEF Handle
  <2> HIDE DEF Ans
  <2> QED
    BY <1>2, <1>4, <1>5, <1>6, <2>1 DEF Handle, TypeOK, local, host
<1>7. CASE q.of \in {"start", "validate"}
  <2>1. answers' = Ans(q.id \in trusted) /\ trusted' = trusted
    BY <1>7 DEF Handle
  <2>2. serves' \in [Clients -> HostIds \cup {NoHost}]
    BY <1>4, <1>7 DEF Handle, TypeOK
  <2>3. (q.id \in trusted) \in BOOLEAN
    OBVIOUS
  <2> HIDE DEF Ans
  <2> QED
    BY <1>2, <1>5, <2>1, <2>2, <2>3 DEF Handle, TypeOK, local, host
<1>8. CASE q.of \notin {"pair", "start", "validate"}
  <2>1. answers' = Ans(TRUE) /\ trusted' = trusted
    BY <1>8 DEF Handle
  <2>2. serves' \in [Clients -> HostIds \cup {NoHost}]
    BY <1>8 DEF Handle, TypeOK
  <2> HIDE DEF Ans
  <2> QED
    BY <1>2, <1>5, <2>1, <2>2 DEF Handle, TypeOK, local, host
<1> QED
  BY <1>6, <1>7, <1>8

LEMMA LostTypeOK ==
    ASSUME TypeOK, NEW c \in Clients, Lost(c)
    PROVE  TypeOK'
BY DEF TypeOK, Lost, local, host

-----------------------------------------------------------------------------
(* Messages *)

LEMMA Popped ==
    ASSUME NEW S, NEW s \in Seq(S), s # <<>>
    PROVE  /\ Head(s) = s[1] /\ 1 \in 1..Len(s)
           /\ Len(Tail(s)) = Len(s) - 1
           /\ \A i \in 1..Len(Tail(s)) : i + 1 \in 1..Len(s) /\ Tail(s)[i] = s[i + 1]
BY HeadTailProperties, LenProperties, EmptySeq

LEMMA Pushed ==
    ASSUME NEW S, NEW s \in Seq(S), NEW e \in S
    PROVE  /\ Len(Append(s, e)) = Len(s) + 1
           /\ \A i \in 1..Len(Append(s, e)) :
                  \/ i \in 1..Len(s) /\ Append(s, e)[i] = s[i]
                  \/ i = Len(Append(s, e)) /\ Append(s, e)[i] = e
BY AppendProperties, LenProperties

\* A client goes to point p: it may have read an answer, and sent the request
\* of that point.
Reads(c) ==
    \/ answers'[c] = answers[c]
    \/ answers[c] # <<>> /\ answers'[c] = Tail(answers[c])
Sends(c, p) ==
    \/ requests'[c] = requests[c]
    \/ \E r \in Request : r.of = p /\ requests'[c] = Append(requests[c], r)
Steps(c, p) == pc'[c] = p /\ Reads(c) /\ Sends(c, p)

LEMMA AskSends ==
    ASSUME TypeOK, NEW c \in Clients, NEW p \in Waiting,
           NEW id \in HostIds \cup {NoHost}, Ask(c, p, id)
    PROVE  pc'[c] = p /\ Sends(c, p)
<1>1. [of |-> p, id |-> id] \in Request
  BY DEF Request
<1> QED
  BY <1>1 DEF TypeOK, Ask, At, Sends

LEMMA ProceedSends ==
    ASSUME TypeOK, NEW c \in Clients, NEW p, Proceed(c, p)
    PROVE  pc'[c] = p /\ requests'[c] = requests[c] /\ Sends(c, p)
BY DEF TypeOK, Proceed, At, Sends

LEMMA AwaitsReads ==
    ASSUME TypeOK, NEW c \in Clients, NEW p, Awaits(c, p)
    PROVE  pc[c] = p /\ Reads(c)
BY DEF TypeOK, Awaits, Reads

LEMMA NoneRead ==
    ASSUME TypeOK, NEW c \in Clients, Reads(c), NEW k,
           \A i \in 1..Len(answers[c]) : answers[c][i].of # k
    PROVE  \A i \in 1..Len(answers'[c]) : answers'[c][i].of # k
<1>1. answers[c] \in Seq(Answer)
  BY DEF TypeOK
<1>2. CASE answers[c] # <<>> /\ answers'[c] = Tail(answers[c])
  BY <1>1, <1>2, Popped
<1> QED
  BY <1>2 DEF Reads

LEMMA NoneStays ==
    ASSUME TypeOK, NEW c \in Clients, NEW p, Steps(c, p), NEW k, k # p,
           NoneOf(c, k)
    PROVE  NoneOf(c, k)'
<1>1. \A i \in 1..Len(answers'[c]) : answers'[c][i].of # k
  BY NoneRead DEF Steps, NoneOf
<1>2. requests[c] \in Seq(Request)
  BY DEF TypeOK
<1>3. ASSUME NEW r \in Request, r.of = p, requests'[c] = Append(requests[c], r)
      PROVE  \A i \in 1..Len(requests'[c]) : requests'[c][i].of # k
  BY <1>2, <1>3, Pushed DEF NoneOf
<1> QED
  BY <1>1, <1>3 DEF NoneOf, Steps, Sends

\* The first request of its name is the last message of the connection.
LEMMA LastSent ==
    ASSUME TypeOK, NEW c \in Clients, NEW p, Steps(c, p), NoneOf(c, p)
    PROVE  LastOf(c, p)'
<1>1. \A i \in 1..Len(answers'[c]) : answers'[c][i].of # p
  BY NoneRead DEF Steps, NoneOf
<1>2. requests[c] \in Seq(Request)
  BY DEF TypeOK
<1>3. ASSUME NEW r \in Request, r.of = p, requests'[c] = Append(requests[c], r)
      PROVE  \A i \in 1..Len(requests'[c]) :
                 requests'[c][i].of = p => i = Len(requests'[c])
  BY <1>2, <1>3, Pushed DEF NoneOf
<1> QED
  BY <1>1, <1>3 DEF NoneOf, LastOf, Steps, Sends

\* Who reads it has read everything.
LEMMA LastRead ==
    ASSUME TypeOK, NEW c \in Clients, NEW q, Awaits(c, q), NEW p,
           LastOf(c, p), Received(c).of = p, p \in Waiting,
           requests'[c] = requests[c]
    PROVE  answers'[c] = <<>> /\ requests[c] = <<>>
<1>1. answers[c] \in Seq(Answer)
  BY DEF TypeOK
<1>2. answers[c] # <<>>
  BY WaitingPoints DEF Received, NoAnswer
<1>3. answers[c][1].of = p /\ 1 \in 1..Len(answers[c])
  BY <1>1, <1>2 DEF Received
<1>4. Len(answers[c]) = 1 /\ requests[c] = <<>>
  BY <1>3 DEF LastOf
<1>5. answers'[c] = Tail(answers[c])
  BY <1>2 DEF Awaits, TypeOK
<1>6. Tail(answers[c]) \in Seq(Answer) /\ Len(Tail(answers[c])) = 0
  BY <1>1, <1>2, <1>4, HeadTailProperties
<1> QED
  BY <1>4, <1>5, <1>6, EmptySeq

LEMMA SentAlone ==
    ASSUME TypeOK, NEW c \in Clients, NEW r \in Request, NoneOf(c, r.of),
           \/ requests'[c] = requests[c]
           \/ requests'[c] = Append(requests[c], r)
    PROVE  \A i \in 1..Len(requests'[c]) :
               requests'[c][i].of = r.of => requests'[c][i] = r
<1>1. requests[c] \in Seq(Request)
  BY DEF TypeOK
<1>2. CASE requests'[c] = requests[c]
  BY <1>2 DEF NoneOf
<1>3. CASE requests'[c] = Append(requests[c], r)
  BY <1>1, <1>3, Pushed DEF NoneOf
<1> QED
  BY <1>2, <1>3

LEMMA UnaskedStep ==
    ASSUME TypeOK, NEW c \in Clients, NEW p, Steps(c, p),
           p \in BeforePair => NoneOf(c, "pair"),
           ~second'[c] /\ p \notin PastPairing => NoneOf(c, "validate"),
           p \notin PastStart => NoneOf(c, "start"),
           p # "stop" => NoneOf(c, "stop")
    PROVE  Unasked(c)'
<1>1. p \in BeforePair => NoneOf(c, "pair")'
  BY NoneStays DEF BeforePair
<1>2. ~second'[c] /\ p \notin PastPairing => NoneOf(c, "validate")'
  BY NoneStays DEF PastPairing
<1>3. p \notin PastStart => NoneOf(c, "start")'
  BY NoneStays DEF PastStart
<1>4. p # "stop" => NoneOf(c, "stop")'
  BY NoneStays
<1> QED
  BY <1>1, <1>2, <1>3, <1>4 DEF Unasked, Steps

LEMMA PairRequests ==
    ASSUME TypeOK, NEW c \in Clients, PairFits(c), NEW p, Steps(c, p),
           p # "pair"
    PROVE  \A i \in 1..Len(requests'[c]) :
               requests'[c][i].of = "pair" => requests'[c][i].id \in HostIds
<1>1. requests[c] \in Seq(Request)
  BY DEF TypeOK
<1>2. ASSUME NEW r \in Request, r.of = p, requests'[c] = Append(requests[c], r),
             NEW i \in 1..Len(requests'[c]), requests'[c][i].of = "pair"
      PROVE  requests'[c][i].id \in HostIds
  BY <1>1, <1>2, Pushed DEF PairFits
<1> QED
  BY <1>2 DEF Steps, Sends, PairFits

LEMMA PairFitsStep ==
    ASSUME TypeOK, NEW c \in Clients, PairFits(c), NEW p, Steps(c, p),
           p \notin {"wifi", "pair", "save"}
    PROVE  PairFits(c)'
BY PairRequests DEF PairFits, Steps

LEMMA NoSessionStep ==
    ASSUME NEW c \in Clients, NEW p, Steps(c, p),
           p \notin {"start", "tls", "ready"}, ~session'[c]
    PROVE  SessionFits(c)'
BY DEF SessionFits, InSession, Steps

\* The points before a session, but for Pair and the points around it.
LEMMA PlainStep ==
    ASSUME TypeOK, NEW c \in Clients, ClientInv(c), NEW p, Steps(c, p),
           p \notin {"wifi", "pair", "save", "start", "tls", "ready", "stop"},
           p = "validate" => second'[c] \/ NoneOf(c, "validate"),
           p \in BeforePair => NoneOf(c, "pair"),
           ~second'[c] /\ p \notin PastPairing => NoneOf(c, "validate"),
           p \notin PastStart => NoneOf(c, "start"),
           pc[c] # "stop", session'[c] = FALSE
    PROVE  ClientInv(c)'
<1>1. NoneOf(c, "stop")
  BY DEF ClientInv, Unasked
<1>2. Unasked(c)'
  BY <1>1, UnaskedStep
<1>3. AskedLast(c)'
  BY LastSent DEF AskedLast, Steps
<1>4. PairFits(c)'
  BY PairFitsStep DEF ClientInv
<1>5. SessionFits(c)'
  BY NoSessionStep
<1> QED
  BY <1>2, <1>3, <1>4, <1>5 DEF ClientInv

-----------------------------------------------------------------------------
(* One lemma per action: what it leaves true of its client *)

\* The steps before a session from one of the points of S to p.
LEMMA EarlyStep ==
    ASSUME TypeOK, NEW c \in Clients, ClientInv(c), NEW p, Steps(c, p),
           pc[c] \in {"type", "version", "class", "record", "key", "wifi",
                      "pair", "save"},
           p \in {"version", "class", "record", "key", "reread", "host", "free"},
           p \in BeforePair => pc[c] \in BeforePair,
           UNCHANGED <<second, session>>
    PROVE  ClientInv(c)'
<1>1. /\ p \in BeforePair => NoneOf(c, "pair")
      /\ ~second[c] => NoneOf(c, "validate")
      /\ NoneOf(c, "start")
      /\ ~session[c]
  BY DEF ClientInv, Unasked, SessionFits, BeforePair, PastPairing, PastStart,
         Ending
<1>2. session[c] \in BOOLEAN
  BY DEF TypeOK
<1> QED
  BY <1>1, <1>2, PlainStep

LEMMA GotTypeInv ==
    ASSUME IInv, NEW c \in Clients, GotType(c)
    PROVE  ClientInv(c)'
<1>1. pc[c] = "type" /\ Steps(c, "version")
  BY AskSends, AwaitsReads, WaitingPoints DEF GotType, Steps, IInv
<1> QED
  BY <1>1, EarlyStep DEF GotType, IInv, BeforePair

LEMMA GotVersionInv ==
    ASSUME IInv, NEW c \in Clients, GotVersion(c)
    PROVE  ClientInv(c)'
<1>1. pc[c] = "version" /\ Steps(c, "class")
  BY AskSends, AwaitsReads, WaitingPoints DEF GotVersion, Steps, IInv
<1> QED
  BY <1>1, EarlyStep DEF GotVersion, IInv, BeforePair

LEMMA GotClassInv ==
    ASSUME IInv, NEW c \in Clients, GotClass(c)
    PROVE  ClientInv(c)'
<1>1. pc[c] = "class" /\ Steps(c, "record")
  BY ProceedSends, AwaitsReads DEF GotClass, Steps, IInv
<1> QED
  BY <1>1, EarlyStep DEF GotClass, local, IInv, BeforePair

LEMMA ReadRecordInv ==
    ASSUME IInv, NEW c \in Clients, ReadRecord(c)
    PROVE  ClientInv(c)'
<1>1. Reads(c)
  BY DEF ReadRecord, Reads
<1>2. PICK p \in {"free", "key", "reread", "host"} : Steps(c, p)
  <2>1. CASE Proceed(c, "free") \/ Ask(c, "key", NoHost)
    BY <1>1, <2>1, AskSends, ProceedSends, WaitingPoints DEF Steps, IInv
  <2>2. CASE AfterPairing(c, typed[c])
    BY <1>1, <2>2, ProceedSends DEF AfterPairing, Steps, IInv
  <2> QED
    BY <2>1, <2>2 DEF ReadRecord
<1> QED
  BY <1>2, EarlyStep DEF ReadRecord, IInv, BeforePair

\* A pairing that ends, well or badly.
LEMMA PairReturnsInv ==
    ASSUME IInv, NEW c \in Clients, NEW ok, PairReturns(c, ok), Reads(c),
           pc[c] \in {"key", "pair", "save"}, UNCHANGED <<second, session>>
    PROVE  ClientInv(c)'
<1>1. PICK p \in {"free", "reread", "host"} : Steps(c, p)
  BY ProceedSends DEF PairReturns, AfterPairing, Steps, IInv
<1> QED
  BY <1>1, EarlyStep DEF IInv, BeforePair

LEMMA GotKeyInv ==
    ASSUME IInv, NEW c \in Clients, GotKey(c)
    PROVE  ClientInv(c)'
<1>1. pc[c] = "key" /\ Reads(c) /\ ClientInv(c) /\ TypeOK
  BY AwaitsReads DEF GotKey, IInv
<1>2. CASE PairReturns(c, FALSE)
  BY <1>1, <1>2, PairReturnsInv DEF GotKey
<1>3. CASE Received(c) = [of |-> "key", ok |-> TRUE] /\ used # HostIds
  <2>1. newId'[c] \in HostIds /\ Steps(c, "wifi")
    BY <1>1, <1>3, GeneratedId, AskSends, WaitingPoints
       DEF GotKey, Steps, TypeOK
  <2>2. Unasked(c)'
    BY <1>1, <2>1, UnaskedStep
       DEF GotKey, ClientInv, Unasked, BeforePair, PastPairing, PastStart,
       Ending
  <2>3. AskedLast(c)'
    BY <2>1 DEF AskedLast, Steps
  <2>4. PairFits(c)'
    BY <1>1, <2>1, PairRequests DEF ClientInv, PairFits, Steps
  <2>5. SessionFits(c)'
    BY <1>1, <2>1, NoSessionStep DEF GotKey, ClientInv, SessionFits
  <2> QED
    BY <2>2, <2>3, <2>4, <2>5 DEF ClientInv
<1> QED
  BY <1>2, <1>3 DEF GotKey

LEMMA GotWifiInv ==
    ASSUME IInv, NEW c \in Clients, GotWifi(c)
    PROVE  ClientInv(c)'
<1>1. pc[c] = "wifi" /\ Reads(c) /\ ClientInv(c) /\ TypeOK
  BY AwaitsReads DEF GotWifi, IInv
<1>2. newId[c] \in HostIds
  BY <1>1 DEF ClientInv, PairFits
<1>3. Steps(c, "pair")
  BY <1>1, <1>2, AskSends, WaitingPoints DEF GotWifi, Steps
<1>4. Unasked(c)'
  BY <1>1, <1>3, UnaskedStep
     DEF GotWifi, local, ClientInv, Unasked, BeforePair, PastPairing,
     PastStart,
         Ending
<1>5. AskedLast(c)'
  BY <1>3 DEF AskedLast, Steps
<1>6. PairFits(c)'
  <2>1. NoneOf(c, "pair")
    BY <1>1 DEF ClientInv, Unasked, BeforePair
  <2>2. \A i \in 1..Len(answers'[c]) : answers'[c][i].of # "pair"
    BY <1>1, <2>1, NoneRead DEF NoneOf
  <2>3. \A i \in 1..Len(requests'[c]) :
          requests'[c][i].of = "pair" => requests'[c][i].id = newId[c]
    <3>1. [of |-> "pair", id |-> newId[c]] \in Request
      BY <1>2, WaitingPoints DEF Request
    <3>2. \/ requests'[c] = requests[c]
          \/ requests'[c] = Append(requests[c], [of |-> "pair", id |-> newId[c]])
      BY <1>1 DEF GotWifi, Ask, TypeOK
    <3> QED
      BY <1>1, <2>1, <3>1, <3>2, SentAlone
  <2>4. newId' = newId /\ pc'[c] = "pair"
    BY <1>3 DEF GotWifi, local, Steps
  <2> QED
    BY <1>2, <2>2, <2>3, <2>4 DEF PairFits
<1>7. SessionFits(c)'
  BY <1>1, <1>3, NoSessionStep DEF GotWifi, local, ClientInv, SessionFits
<1> QED
  BY <1>4, <1>5, <1>6, <1>7 DEF ClientInv

LEMMA GotPairInv ==
    ASSUME IInv, NEW c \in Clients, GotPair(c)
    PROVE  ClientInv(c)'
<1>1. pc[c] = "pair" /\ Reads(c) /\ ClientInv(c) /\ TypeOK
  BY AwaitsReads DEF GotPair, IInv
<1>2. CASE PairReturns(c, FALSE)
  BY <1>1, <1>2, PairReturnsInv DEF GotPair
<1>3. CASE Accepts(c, "pair") /\ Proceed(c, "save") /\ newId' = newId
  <2>1. Steps(c, "save")
    BY <1>1, <1>3, ProceedSends DEF Steps
  <2>2. newId[c] \in Accepted
    <3>1. answers[c] \in Seq(Answer)
      BY <1>1 DEF TypeOK
    <3>2. answers[c] # <<>>
      BY <1>3, WaitingPoints DEF Accepts, Received, NoAnswer
    <3>3. answers[c][1] \in Answer /\ 1 \in 1..Len(answers[c])
      BY <3>1, <3>2, Popped, HeadTailProperties
    <3>4. answers[c][1].of \in Waiting /\ answers[c][1].ok
          /\ Asked[answers[c][1].of] = Asked["pair"]
      BY <1>3, <3>1, <3>2, Popped DEF Accepts, Received
    <3>5. answers[c][1].of = "pair"
      BY <3>4, WaitingPoints DEF Asked
    <3>6. answers[c][1] = [of |-> "pair", ok |-> TRUE]
      BY <3>3, <3>4, <3>5 DEF Answer
    <3> QED
      BY <1>1, <3>3, <3>6 DEF ClientInv, PairFits
  <2>3. Unasked(c)'
    BY <1>1, <2>1, UnaskedStep
       DEF GotPair, ClientInv, Unasked, BeforePair, PastPairing, PastStart,
       Ending
  <2>4. AskedLast(c)'
    BY <2>1 DEF AskedLast, Steps
  <2>5. PairFits(c)'
    <3>1. Accepted' = Accepted
      BY DEF GotPair, device, Accepted
    <3> QED
      BY <1>1, <1>3, <2>1, <2>2, <3>1, PairRequests DEF ClientInv, PairFits,
         Steps
  <2>6. SessionFits(c)'
    BY <1>1, <2>1, NoSessionStep DEF GotPair, ClientInv, SessionFits
  <2> QED
    BY <2>3, <2>4, <2>5, <2>6 DEF ClientInv
<1> QED
  BY <1>2, <1>3 DEF GotPair

LEMMA SaveRecordInv ==
    ASSUME IInv, NEW c \in Clients, SaveRecord(c)
    PROVE  ClientInv(c)'
BY PairReturnsInv DEF SaveRecord, Reads

LEMMA ReadAgainInv ==
    ASSUME IInv, NEW c \in Clients, ReadAgain(c)
    PROVE  ClientInv(c)'
<1>1. pc[c] = "reread" /\ Reads(c) /\ ClientInv(c) /\ TypeOK
  BY DEF ReadAgain, Reads, IInv
<1>2. PICK p \in {"free", "validate"} : Steps(c, p)
  BY <1>1, AskSends, ProceedSends, WaitingPoints DEF ReadAgain, Steps, TypeOK
<1>3. /\ ~second[c] => NoneOf(c, "validate")
      /\ NoneOf(c, "start")
      /\ session[c] = FALSE
  BY <1>1 DEF ClientInv, Unasked, SessionFits, PastPairing, PastStart, Ending,
              TypeOK
<1>4. second' = second /\ session' = session
  BY DEF ReadAgain, local
<1> QED
  BY <1>1, <1>2, <1>3, <1>4, PlainStep DEF BeforePair, TypeOK

LEMMA GotValidateInv ==
    ASSUME IInv, NEW c \in Clients, GotValidate(c)
    PROVE  ClientInv(c)'
<1>1. pc[c] = "validate" /\ Reads(c) /\ ClientInv(c) /\ TypeOK
  BY AwaitsReads DEF GotValidate, IInv
<1>2. NoneOf(c, "start") /\ session[c] = FALSE
  BY <1>1 DEF ClientInv, Unasked, SessionFits, PastStart, Ending, TypeOK
<1>3. session' = session
  BY DEF GotValidate
<1>4. CASE /\ Received(c).of = "validate" /\ ~second[c]
           /\ Ask(c, "key", NoHost)
           /\ second' = [second EXCEPT ![c] = TRUE]
  <2>1. Steps(c, "key") /\ second'[c] = TRUE
    BY <1>1, <1>4, AskSends, WaitingPoints DEF Steps, TypeOK
  <2>2. LastOf(c, "validate")
    BY <1>1, <1>4 DEF ClientInv, AskedLast
  <2>3. NoneOf(c, "pair")
    <3>1. answers[c] \in Seq(Answer)
      BY <1>1 DEF TypeOK
    <3>2. answers[c] # <<>>
      BY <1>4 DEF Received, NoAnswer
    <3>3. answers[c][1].of = "validate" /\ 1 \in 1..Len(answers[c])
      BY <1>4, <3>1, <3>2, Popped DEF Received
    <3>4. Len(answers[c]) = 1 /\ requests[c] = <<>>
      BY <2>2, <3>3 DEF LastOf
    <3> QED
      BY <3>3, <3>4 DEF NoneOf
  <2> QED
    BY <1>1, <1>2, <1>3, <2>1, <2>3, PlainStep DEF PastPairing
<1>5. ASSUME NEW p \in {"host", "free"}, Proceed(c, p), second' = second
      PROVE  ClientInv(c)'
  <2>1. Steps(c, p)
    BY <1>1, <1>5, ProceedSends DEF Steps
  <2> QED
    BY <1>1, <1>2, <1>3, <2>1, PlainStep
       DEF BeforePair, PastPairing, PastStart, Ending
<1> QED
  BY <1>4, <1>5 DEF GotValidate

LEMMA StartSessionInv ==
    ASSUME IInv, NEW c \in Clients, StartSession(c)
    PROVE  ClientInv(c)'
<1>1. pc[c] = "host" /\ Reads(c) /\ ClientInv(c) /\ TypeOK
  BY DEF StartSession, Reads, IInv
<1>2. /\ NoneOf(c, "start") /\ NoneOf(c, "stop")
      /\ session[c] = FALSE
  BY <1>1 DEF ClientInv, Unasked, SessionFits, PastStart, Ending, TypeOK
<1>3. second' = second /\ session' = session
  BY DEF StartSession
<1>4. CASE Proceed(c, "free")
  <2>1. Steps(c, "free")
    BY <1>1, <1>4, ProceedSends DEF Steps
  <2> QED
    BY <1>1, <1>2, <1>3, <2>1, PlainStep
       DEF BeforePair, PastPairing, PastStart, Ending
<1>5. CASE Ask(c, "start", hostId'[c]) /\ hostId'[c] \in HostIds
  <2>1. Steps(c, "start")
    BY <1>1, <1>5, AskSends, WaitingPoints DEF Steps
  <2>2. Unasked(c)'
    BY <1>1, <1>2, <2>1, UnaskedStep
       DEF BeforePair, PastPairing, PastStart, Ending
  <2>3. AskedLast(c)'
    BY <1>1, <1>2, <2>1, LastSent DEF AskedLast, Steps
  <2>4. PairFits(c)'
    BY <1>1, <2>1, PairFitsStep DEF ClientInv
  <2>5. SessionFits(c)'
    <3>1. [of |-> "start", id |-> hostId'[c]] \in Request
      BY <1>5, WaitingPoints DEF Request
    <3>2. \/ requests'[c] = requests[c]
          \/ requests'[c] = Append(requests[c], [of |-> "start", id |-> hostId'[c]])
      BY <1>1, <1>5 DEF Ask, TypeOK
    <3>3. \A i \in 1..Len(requests'[c]) :
              requests'[c][i].of = "start" => requests'[c][i].id = hostId'[c]
      BY <1>1, <1>2, <3>1, <3>2, SentAlone
    <3>4. \A i \in 1..Len(answers'[c]) : answers'[c][i].of # "start"
      BY <1>1, <1>2, NoneRead DEF NoneOf
    <3> QED
      BY <1>2, <1>3, <2>1, <3>3, <3>4 DEF SessionFits, InSession, Steps
  <2> QED
    BY <2>2, <2>3, <2>4, <2>5 DEF ClientInv
<1> QED
  BY <1>1, <1>4, <1>5 DEF StartSession, TypeOK

LEMMA GotStartInv ==
    ASSUME IInv, NEW c \in Clients, GotStart(c)
    PROVE  ClientInv(c)'
<1>1. pc[c] = "start" /\ Reads(c) /\ ClientInv(c) /\ TypeOK
  BY AwaitsReads DEF GotStart, IInv
<1>2. NoneOf(c, "stop") /\ session[c] = FALSE
  BY <1>1 DEF ClientInv, Unasked, SessionFits, TypeOK
<1>3. UNCHANGED <<hostId, second, link, serves, trusted, revoked>>
  BY DEF GotStart, device
<1>4. CASE ~Accepts(c, "start")
  <2>1. Steps(c, "free") /\ session'[c] = FALSE
    BY <1>1, <1>2, <1>4, ProceedSends DEF Steps, GotStart
  <2> QED
    BY <1>1, <1>2, <1>3, <2>1, PlainStep
       DEF BeforePair, PastPairing, PastStart, Ending
<1>5. CASE Accepts(c, "start")
  <2>1. Steps(c, "tls") /\ requests'[c] = requests[c]
    BY <1>1, <1>5, ProceedSends DEF Steps, GotStart
  <2>2. answers[c] # <<>>
    BY <1>5, WaitingPoints DEF Accepts, Received, NoAnswer
  <2>3. answers[c] \in Seq(Answer)
    BY <1>1 DEF TypeOK
  <2>4. answers[c][1] \in Answer /\ 1 \in 1..Len(answers[c])
    BY <2>2, <2>3, Popped, HeadTailProperties
  <2>5. /\ Received(c) = answers[c][1]
        /\ answers[c][1] = [of |-> "start", ok |-> TRUE]
    <3>1. Received(c) = answers[c][1]
      BY <2>2, <2>3, Popped DEF Received
    <3>2. /\ answers[c][1].of \in Waiting /\ answers[c][1].ok
          /\ Asked[answers[c][1].of] = Asked["start"]
      BY <1>5, <3>1 DEF Accepts
    <3>3. answers[c][1].of = "start"
      BY <3>2, WaitingPoints DEF Asked
    <3> QED
      BY <2>4, <3>1, <3>2, <3>3 DEF Answer
  <2>6. LastOf(c, "start") /\ Awaits(c, "start")
    BY <1>1 DEF ClientInv, AskedLast, GotStart
  <2>7. answers'[c] = <<>> /\ requests[c] = <<>>
    BY <1>1, <2>1, <2>5, <2>6, LastRead, WaitingPoints
  <2>8. link[c] = "up" => Serving(c)
    BY <1>1, <2>4, <2>5 DEF ClientInv, SessionFits
  <2>9. Unasked(c)'
    BY <1>1, <1>2, <2>1, UnaskedStep
       DEF BeforePair, PastPairing, PastStart, Ending
  <2>10. AskedLast(c)'
    BY <2>1 DEF AskedLast, Steps
  <2>11. PairFits(c)'
    BY <1>1, <2>1, PairFitsStep DEF ClientInv
  <2>12. SessionFits(c)'
    BY <1>3, <2>1, <2>7, <2>8 DEF SessionFits, InSession, Steps, Serving,
       Accepted
  <2> QED
    BY <2>9, <2>10, <2>11, <2>12 DEF ClientInv
<1> QED
  BY <1>4, <1>5

\* In a session nothing is sent before it is stopped.
LEMMA SessionStep ==
    ASSUME TypeOK, NEW c \in Clients, ClientInv(c), NEW p \in {"ready", "free"},
           Steps(c, p), requests'[c] = requests[c],
           pc[c] \in {"tls", "ready"}, p = "ready" => ~bare'[c],
           UNCHANGED <<hostId, second, session, link, serves, trusted,
           revoked>>
    PROVE  ClientInv(c)'
<1>1. NoneOf(c, "stop") /\ InSession(c)
  BY DEF ClientInv, Unasked, InSession
<1>2. Unasked(c)'
  BY <1>1, UnaskedStep DEF BeforePair, PastPairing, PastStart, Ending
<1>3. AskedLast(c)'
  BY DEF AskedLast, Steps
<1>4. PairFits(c)'
  BY PairFitsStep DEF ClientInv
<1>5. SessionFits(c)'
  BY <1>1 DEF ClientInv, SessionFits, InSession, Steps, Serving, Accepted
<1> QED
  BY <1>2, <1>3, <1>4, <1>5 DEF ClientInv

LEMMA EnableSSLInv ==
    ASSUME IInv, NEW c \in Clients, EnableSSL(c)
    PROVE  ClientInv(c)'
<1>1. pc[c] = "tls" /\ Reads(c) /\ ClientInv(c) /\ TypeOK
  BY DEF EnableSSL, Reads, IInv
<1>2. PICK p \in {"ready", "free"} :
          Proceed(c, p) /\ (p = "ready" => ~bare'[c])
  BY <1>1 DEF EnableSSL, TypeOK
<1> QED
  BY <1>1, <1>2, ProceedSends, SessionStep DEF EnableSSL, Steps, device

LEMMA DoneInv ==
    ASSUME IInv, NEW c \in Clients, Done(c)
    PROVE  ClientInv(c)'
<1>1. pc[c] = "ready" /\ Reads(c) /\ ClientInv(c) /\ TypeOK
  BY DEF Done, Reads, IInv
<1> QED
  BY <1>1, ProceedSends, SessionStep DEF Done, Steps, local, device

LEMMA FreeInv ==
    ASSUME IInv, NEW c \in Clients, Free(c)
    PROVE  ClientInv(c)'
<1>1. pc[c] = "free" /\ Reads(c) /\ ClientInv(c) /\ TypeOK
  BY DEF Free, Reads, IInv
<1>2. Steps(c, "stop")
  BY <1>1, AskSends, WaitingPoints DEF Free, Steps
<1>3. Unasked(c)'
  BY <1>1, <1>2, UnaskedStep DEF BeforePair, PastPairing, PastStart, Ending
<1>4. AskedLast(c)'
  BY <1>2 DEF AskedLast, Steps
<1>5. PairFits(c)'
  BY <1>1, <1>2, PairFitsStep DEF ClientInv
<1>6. SessionFits(c)'
  BY <1>2 DEF SessionFits, InSession, Steps
<1> QED
  BY <1>3, <1>4, <1>5, <1>6 DEF ClientInv

LEMMA ClosedInv ==
    ASSUME IInv, NEW c \in Clients, Closed(c)
    PROVE  ClientInv(c)'
<1>1. /\ pc'[c] = "idle" /\ answers'[c] = <<>> /\ requests'[c] = <<>>
      /\ session'[c] = FALSE
  BY DEF Closed, At, IInv, TypeOK
<1> QED
  BY <1>1, EmptySeq DEF ClientInv, Unasked, NoneOf, AskedLast, PairFits,
     SessionFits, InSession

LEMMA ConnectInv ==
    ASSUME IInv, NEW c \in Clients, Connect(c)
    PROVE  ClientInv(c)'
<1>1. ClientInv(c) /\ TypeOK /\ pc[c] = "idle"
  BY DEF IInv, Connect
<1>2. /\ pc'[c] = "type" /\ answers'[c] = answers[c]
      /\ second'[c] = second[c] /\ session'[c] = session[c]
  BY <1>1 DEF Connect, At, TypeOK, local
<1>3. requests'[c] = <<[of |-> "type", id |-> NoHost]>>
  BY <1>1 DEF Connect, TypeOK
<1>4. \A i \in 1..Len(requests'[c]) : requests'[c][i].of = "type"
  BY <1>3
<1>5. ~session[c]
  BY <1>1 DEF ClientInv, SessionFits
<1>6. Unasked(c)'
  BY <1>1, <1>2, <1>4 DEF ClientInv, Unasked, NoneOf, BeforePair, PastPairing,
                          PastStart, Ending
<1>7. AskedLast(c)'
  BY <1>2 DEF AskedLast
<1>8. PairFits(c)'
  BY <1>2, <1>4 DEF PairFits
<1>9. SessionFits(c)'
  BY <1>2, <1>5 DEF SessionFits, InSession
<1> QED
  BY <1>6, <1>7, <1>8, <1>9 DEF ClientInv

\* What the device does with the oldest request, whichever it is.
LEMMA Handled ==
    ASSUME TypeOK, NEW c \in Clients, Handle(c)
    PROVE  /\ requests[c] # <<>> /\ requests'[c] = Tail(requests[c])
           /\ trusted \subseteq trusted'
           /\ UNCHANGED <<pc, local, host, link, revoked>>
           /\ \E ok \in BOOLEAN :
                /\ answers'[c] = Append(answers[c],
                                        [of |-> Head(requests[c]).of, ok |-> ok])
                /\ ok /\ Head(requests[c]).of = "pair" =>
                       Head(requests[c]).id \in trusted'
                /\ ok /\ Head(requests[c]).of = "start" =>
                       /\ Head(requests[c]).id \in trusted'
                       /\ serves'[c] = Head(requests[c]).id
<1> DEFINE q == Head(requests[c])
           Ans(ok) == [answers EXCEPT ![c] = Append(@, [of |-> q.of, ok |-> ok])]
<1>1. requests[c] # <<>> /\ requests'[c] = Tail(requests[c])
  BY DEF Handle, TypeOK
<1>2. UNCHANGED <<pc, local, host, link, revoked>>
  BY DEF Handle
<1>3. \A ok : Ans(ok)[c] = Append(answers[c], [of |-> q.of, ok |-> ok])
  BY DEF TypeOK
<1>4. CASE q.of = "pair"
  <2>1. PICK ok \in BOOLEAN :
          /\ answers' = Ans(ok)
          /\ trusted' = IF ok THEN trusted \cup {q.id} ELSE trusted
    BY <1>4 DEF Handle
  <2> HIDE DEF Ans
  <2>2. trusted \subseteq trusted' /\ (ok => q.id \in trusted')
    BY <2>1
  <2> QED
    BY <1>1, <1>2, <1>3, <1>4, <2>1, <2>2
<1>5. CASE q.of \in {"start", "validate"}
  <2>1. /\ answers' = Ans(q.id \in trusted) /\ trusted' = trusted
        /\ q.id \in trusted /\ q.of = "start" => serves'[c] = q.id
    BY <1>5 DEF Handle, TypeOK
  <2>2. (q.id \in trusted) \in BOOLEAN
    OBVIOUS
  <2> HIDE DEF Ans
  <2> QED
    BY <1>1, <1>2, <1>3, <1>5, <2>1, <2>2
<1>6. CASE q.of \notin {"pair", "start", "validate"}
  <2>1. answers' = Ans(TRUE) /\ trusted' = trusted
    BY <1>6 DEF Handle
  <2> HIDE DEF Ans
  <2> QED
    BY <1>1, <1>2, <1>3, <1>6, <2>1
<1> QED
  BY <1>4, <1>5, <1>6

LEMMA HandleInv ==
    ASSUME IInv, NEW c \in Clients, Handle(c)
    PROVE  ClientInv(c)'
<1> DEFINE q == Head(requests[c])
<1>1. TypeOK /\ ClientInv(c)
  BY DEF IInv
<1>2. /\ requests[c] # <<>> /\ requests'[c] = Tail(requests[c])
      /\ Accepted \subseteq Accepted'
      /\ UNCHANGED <<pc, local, host, link>>
  BY <1>1, Handled DEF Accepted
<1>3. PICK ok \in BOOLEAN :
          /\ answers'[c] = Append(answers[c], [of |-> q.of, ok |-> ok])
          /\ ok /\ q.of = "pair" => q.id \in trusted'
          /\ ok /\ q.of = "start" => q.id \in trusted' /\ serves'[c] = q.id
  BY <1>1, Handled
<1> DEFINE a == [of |-> q.of, ok |-> ok]
<1>4. requests[c] \in Seq(Request) /\ answers[c] \in Seq(Answer) /\ q \in Request
  BY <1>1, <1>2 DEF TypeOK
<1>5. a \in Answer
  BY <1>4 DEF Request, Answer
<1>6. q = requests[c][1] /\ 1 \in 1..Len(requests[c])
  BY <1>2, <1>4, Popped
<1>7. /\ Len(requests'[c]) = Len(requests[c]) - 1
      /\ \A i \in 1..Len(requests'[c]) : /\ i + 1 \in 1..Len(requests[c])
                                         /\ requests'[c][i] = requests[c][i + 1]
  BY <1>2, <1>4, Popped
<1>8. \A i \in 1..Len(answers'[c]) :
          \/ i \in 1..Len(answers[c]) /\ answers'[c][i] = answers[c][i]
          \/ i = Len(answers'[c]) /\ answers'[c][i] = a
  <2>1. answers'[c] = Append(answers[c], a)
    BY <1>3
  <2> HIDE DEF a
  <2> QED
    BY <1>4, <1>5, <2>1, Pushed
<1>9. ASSUME NEW p, NoneOf(c, p)
      PROVE  NoneOf(c, p)'
  <2>1. \A i \in 1..Len(requests'[c]) : requests'[c][i].of # p
    BY <1>7, <1>9 DEF NoneOf
  <2>2. a.of # p
    BY <1>6, <1>9 DEF NoneOf
  <2> HIDE DEF a
  <2>3. \A i \in 1..Len(answers'[c]) : answers'[c][i].of # p
    BY <1>8, <1>9, <2>2 DEF NoneOf
  <2> QED
    BY <2>1, <2>3 DEF NoneOf
<1>10. ASSUME NEW p, LastOf(c, p)
       PROVE  LastOf(c, p)'
  <2>1. Len(requests[c]) \in Nat /\ requests'[c] \in Seq(Request)
    BY <1>2, <1>4, HeadTailProperties, LenProperties
  <2>2. ASSUME NEW i \in 1..Len(answers'[c]), answers'[c][i].of = p
        PROVE  i = Len(answers'[c]) /\ requests'[c] = <<>>
    <3>1. i \notin 1..Len(answers[c]) \/ answers'[c][i] # answers[c][i]
      BY <1>2, <1>10, <2>2 DEF LastOf
    <3>2. i = Len(answers'[c]) /\ q.of = p
      BY <1>8, <2>2, <3>1
    <3>3. Len(requests[c]) = 1
      BY <1>6, <1>10, <3>2 DEF LastOf
    <3> QED
      BY <1>7, <2>1, <3>2, <3>3, EmptySeq
  <2>3. ASSUME NEW i \in 1..Len(requests'[c]), requests'[c][i].of = p
        PROVE  i = Len(requests'[c])
    BY <1>7, <1>10, <2>1, <2>3 DEF LastOf
  <2> QED
    BY <2>2, <2>3 DEF LastOf
<1>11. Unasked(c)'
  BY <1>1, <1>2, <1>9 DEF ClientInv, Unasked, local
<1>12. AskedLast(c)'
  BY <1>1, <1>2, <1>10 DEF ClientInv, AskedLast, local
<1>13. PairFits(c)'
  <2>1. ASSUME NEW i \in 1..Len(answers'[c]), pc[c] = "pair",
               answers'[c][i] = [of |-> "pair", ok |-> TRUE]
        PROVE  newId[c] \in Accepted'
    <3>1. CASE i \in 1..Len(answers[c]) /\ answers'[c][i] = answers[c][i]
      BY <1>1, <1>2, <2>1, <3>1 DEF ClientInv, PairFits
    <3>2. CASE answers'[c][i] = a
      <4>1. q.of = "pair" /\ ok = TRUE
        BY <2>1, <3>2
      <4> QED
        BY <1>1, <1>3, <1>6, <2>1, <4>1 DEF ClientInv, PairFits, Accepted
    <3> QED
      BY <1>8, <3>1, <3>2
  <2> QED
    BY <1>1, <1>2, <1>7, <2>1 DEF ClientInv, PairFits, local
<1>14. SessionFits(c)'
  <2>1. ASSUME NEW i \in 1..Len(answers'[c]), pc[c] = "start",
               answers'[c][i] = [of |-> "start", ok |-> TRUE]
        PROVE  Serving(c)'
    <3>1. LastOf(c, "start")
      BY <1>1, <2>1 DEF ClientInv, AskedLast
    <3>2. answers'[c][i] = a
      BY <1>2, <1>8, <2>1, <3>1 DEF LastOf
    <3>3. q.of = "start" /\ ok = TRUE
      BY <2>1, <3>2
    <3>4. q.id = hostId[c]
      BY <1>1, <1>6, <2>1, <3>3 DEF ClientInv, SessionFits
    <3> QED
      BY <1>2, <1>3, <3>3, <3>4 DEF Serving, Accepted, local
  <2>2. ~InSession(c)
    BY <1>1, <1>2 DEF ClientInv, SessionFits
  <2> QED
    BY <1>1, <1>2, <1>7, <2>1, <2>2 DEF ClientInv, SessionFits, InSession,
       local
<1> QED
  BY <1>11, <1>12, <1>13, <1>14 DEF ClientInv

LEMMA LostInv ==
    ASSUME IInv, NEW c \in Clients, Lost(c)
    PROVE  ClientInv(c)'
<1>1. TypeOK /\ ClientInv(c)
  BY DEF IInv
<1>2. /\ UNCHANGED <<pc, local, answers, trusted, revoked>>
      /\ link'[c] = "lost" /\ requests'[c] = <<>>
  BY <1>1 DEF Lost, TypeOK
<1>3. \A i : i \notin 1..Len(requests'[c])
  BY <1>2, EmptySeq
<1>4. Unasked(c)'
  BY <1>1, <1>2, <1>3 DEF ClientInv, Unasked, NoneOf, local
<1>5. AskedLast(c)'
  BY <1>1, <1>2, <1>3 DEF ClientInv, AskedLast, LastOf, local
<1>6. PairFits(c)'
  BY <1>1, <1>2, <1>3 DEF ClientInv, PairFits, local, Accepted
<1>7. SessionFits(c)'
  BY <1>1, <1>2, <1>3 DEF ClientInv, SessionFits, InSession, local
<1> QED
  BY <1>4, <1>5, <1>6, <1>7 DEF ClientInv

-----------------------------------------------------------------------------
(* The other clients *)

Same(d) ==
    /\ pc'[d] = pc[d] /\ second'[d] = second[d]
    /\ hostId'[d] = hostId[d] /\ newId'[d] = newId[d]
    /\ session'[d] = session[d] /\ bare'[d] = bare[d] /\ link'[d] = link[d]
    /\ requests'[d] = requests[d] /\ answers'[d] = answers[d]
    /\ serves'[d] = serves[d]

LEMMA SameInv ==
    ASSUME NEW d \in Clients, ClientInv(d), Same(d), Accepted \subseteq Accepted'
    PROVE  ClientInv(d)'
<1>1. Unasked(d)'
  BY DEF ClientInv, Unasked, NoneOf, Same
<1>2. AskedLast(d)'
  BY DEF ClientInv, AskedLast, LastOf, Same
<1>3. PairFits(d)'
  BY DEF ClientInv, PairFits, Same
<1>4. SessionFits(d)'
  BY DEF ClientInv, SessionFits, InSession, Serving, Same
<1> QED
  BY <1>1, <1>2, <1>3, <1>4 DEF ClientInv

\* What a client does, and what the device does with its connection, concerns
\* no other client.
LEMMA ClientStepSame ==
    ASSUME TypeOK, NEW c \in Clients, NEW d \in Clients, d # c, ClientStep(c)
    PROVE  Same(d) /\ Accepted' = Accepted
<1>1. CASE GotType(c) \/ GotVersion(c) \/ GotClass(c) \/ ReadRecord(c)
  BY <1>1 DEF GotType, GotVersion, GotClass, ReadRecord, AfterPairing, Awaits,
      Ask, Proceed, At, Same, TypeOK, local, host, device, Accepted
<1>2. CASE GotKey(c) \/ GotWifi(c) \/ GotPair(c) \/ SaveRecord(c)
  BY <1>2 DEF GotKey, GotWifi, GotPair, SaveRecord, PairReturns, AfterPairing,
      Awaits, Ask, Proceed, At, Same, TypeOK, local, host, device, Accepted
<1>3. CASE ReadAgain(c) \/ GotValidate(c) \/ StartSession(c) \/ GotStart(c)
  BY <1>3 DEF ReadAgain, GotValidate, StartSession, GotStart, Awaits,
      Ask, Proceed, At, Same, TypeOK, local, host, device, Accepted
<1>4. CASE EnableSSL(c) \/ Free(c)
  BY <1>4 DEF EnableSSL, Free, Ask, Proceed, At, Same, TypeOK, local, host,
      device, Accepted
<1>5. CASE Close(c)
  BY <1>5 DEF Close, Closed, At, Same, TypeOK, Accepted
<1> QED
  BY <1>1, <1>2, <1>3, <1>4, <1>5 DEF ClientStep

LEMMA HandleSame ==
    ASSUME TypeOK, NEW c \in Clients, NEW d \in Clients, d # c, Handle(c)
    PROVE  Same(d) /\ Accepted \subseteq Accepted'
<1>1. Accepted \subseteq Accepted' /\ UNCHANGED <<pc, local, link>>
  BY Handled DEF Accepted
<1>2. requests'[d] = requests[d]
  BY DEF Handle, TypeOK
<1>3. serves'[d] = serves[d]
  BY DEF Handle, TypeOK
<1>4. answers'[d] = answers[d]
  BY DEF Handle, TypeOK
<1> QED
  BY <1>1, <1>2, <1>3, <1>4 DEF Same, local

-----------------------------------------------------------------------------
(* The theorems *)

LEMMA ClientStepInv ==
    ASSUME IInv, NEW c \in Clients, ClientStep(c)
    PROVE  ClientInv(c)'
BY GotTypeInv, GotVersionInv, GotClassInv, ReadRecordInv, GotKeyInv,
   GotWifiInv,
   GotPairInv, SaveRecordInv, ReadAgainInv, GotValidateInv, StartSessionInv,
   GotStartInv, EnableSSLInv, FreeInv, ClosedInv
   DEF ClientStep, Close

LEMMA ClientStepTypeOK ==
    ASSUME IInv, NEW c \in Clients, ClientStep(c)
    PROVE  TypeOK'
BY GotTypeTypeOK, GotVersionTypeOK, GotClassTypeOK, ReadRecordTypeOK,
   GotKeyTypeOK, GotWifiTypeOK, GotPairTypeOK, SaveRecordTypeOK,
   ReadAgainTypeOK, GotValidateTypeOK, StartSessionTypeOK, GotStartTypeOK,
   EnableSSLTypeOK, FreeTypeOK, CloseTypeOK
   DEF ClientStep, Close, IInv

\* Only a client that has its answer to Pair stores a record.
LEMMA ClientStepRecord ==
    ASSUME IInv, NEW c \in Clients, ClientStep(c)
    PROVE  RecordIsTrusted'
<1>1. TypeOK /\ PairFits(c) /\ RecordIsTrusted
  BY DEF IInv, ClientInv
<1>2. CASE SaveRecord(c)
  <2>1. newId[c] \in Accepted /\ UNCHANGED <<trusted, revoked>>
    BY <1>1, <1>2 DEF SaveRecord, PairFits, device
  <2> QED
    BY <1>1, <1>2, <2>1 DEF SaveRecord, RecordIsTrusted, Accepted
<1>3. CASE ~SaveRecord(c)
  <2>1. UNCHANGED <<record, trusted, revoked>>
    BY <1>3 DEF ClientStep, GotType, GotVersion, GotClass, ReadRecord, GotKey,
        GotWifi, GotPair, ReadAgain, GotValidate, StartSession, GotStart,
        EnableSSL, Free, Close, Closed, host, device
  <2> QED
    BY <1>1, <2>1 DEF RecordIsTrusted
<1> QED
  BY <1>2, <1>3

LEMMA InitIInv == Init => IInv
<1> SUFFICES ASSUME Init
             PROVE  IInv
  OBVIOUS
<1>1. TypeOK
  <2>1. /\ 0 \in 0..MaxHandshakes /\ 0 \in 0..MaxResets
        /\ \A S : <<>> \in Seq(S)
    BY LockdownBoundAssumption, EmptySeq
  <2> QED
    BY <2>1 DEF Init, TypeOK, Points
<1>2. ASSUME NEW c \in Clients
      PROVE  ClientInv(c)
  BY <1>2, EmptySeq DEF Init, ClientInv, Unasked, NoneOf, AskedLast, PairFits,
                        SessionFits, InSession
<1>3. RecordIsTrusted
  BY DEF Init, RecordIsTrusted
<1> QED
  BY <1>1, <1>2, <1>3 DEF IInv

LEMMA NextIInv == IInv /\ [Next]_vars => IInv'
<1> SUFFICES ASSUME IInv, [Next]_vars
             PROVE  IInv'
  OBVIOUS
<1>1. TypeOK /\ RecordIsTrusted /\ \A d \in Clients : ClientInv(d)
  BY DEF IInv
<1>2. ASSUME TypeOK', RecordIsTrusted', Accepted \subseteq Accepted',
             NEW c \in Clients, ClientInv(c)',
             \A d \in Clients \ {c} : Same(d)
      PROVE  IInv'
  BY <1>1, <1>2, SameInv DEF IInv
<1>3. ASSUME NEW c \in Clients, ClientStep(c)
      PROVE  IInv'
  <2>1. UNCHANGED <<trusted, revoked>>
    BY <1>3 DEF ClientStep, GotType, GotVersion, GotClass, ReadRecord, GotKey,
        GotWifi, GotPair, SaveRecord, ReadAgain, GotValidate, StartSession,
        GotStart, EnableSSL, Free, Close, Closed, device
  <2>2. Accepted \subseteq Accepted'
    BY <2>1 DEF Accepted
  <2>3. \A d \in Clients \ {c} : Same(d)
    BY <1>1, <1>3, ClientStepSame
  <2> QED
    BY <1>2, <1>3, <2>2, <2>3, ClientStepInv, ClientStepTypeOK,
       ClientStepRecord
<1>4. ASSUME NEW c \in Clients, Connect(c)
      PROVE  IInv'
  <2>1. \A d \in Clients \ {c} : Same(d)
    BY <1>1, <1>4 DEF Connect, At, Same, TypeOK, local, device
  <2>2. RecordIsTrusted' /\ Accepted \subseteq Accepted'
    BY <1>1, <1>4 DEF Connect, RecordIsTrusted, Accepted, device
  <2> QED
    BY <1>1, <1>2, <1>4, <2>1, <2>2, ConnectInv, ConnectTypeOK
<1>5. ASSUME NEW c \in Clients, Done(c)
      PROVE  IInv'
  <2>1. \A d \in Clients \ {c} : Same(d)
    BY <1>1, <1>5 DEF Done, Proceed, At, Same, TypeOK, local, device
  <2>2. RecordIsTrusted' /\ Accepted \subseteq Accepted'
    BY <1>1, <1>5 DEF Done, RecordIsTrusted, Accepted, host, device
  <2> QED
    BY <1>1, <1>2, <1>5, <2>1, <2>2, DoneInv, DoneTypeOK
<1>6. ASSUME NEW c \in Clients, Crash(c)
      PROVE  IInv'
  <2>1. \A d \in Clients \ {c} : Same(d)
    BY <1>1, <1>6 DEF Crash, Closed, At, Same, TypeOK
  <2>2. RecordIsTrusted' /\ Accepted \subseteq Accepted'
    BY <1>1, <1>6 DEF Crash, Closed, RecordIsTrusted, Accepted, host
  <2> QED
    BY <1>1, <1>2, <1>6, <2>1, <2>2, ClosedInv, CloseTypeOK DEF Crash
<1>7. ASSUME NEW c \in Clients, Handle(c)
      PROVE  IInv'
  <2>1. Accepted \subseteq Accepted' /\ record' = record
    BY <1>1, <1>7, Handled DEF Accepted, host
  <2>2. RecordIsTrusted'
    BY <1>1, <2>1 DEF RecordIsTrusted, Accepted
  <2>3. \A d \in Clients \ {c} : Same(d)
    BY <1>1, <1>7, HandleSame
  <2>4. TypeOK'
    BY <1>1, <1>7, HandleTypeOK DEF ClientInv
  <2> QED
    BY <1>2, <1>7, <2>1, <2>2, <2>3, <2>4, HandleInv
<1>8. ASSUME NEW c \in Clients, Lost(c)
      PROVE  IInv'
  <2>1. \A d \in Clients \ {c} : Same(d)
    BY <1>1, <1>8 DEF Lost, Same, TypeOK, local
  <2>2. RecordIsTrusted' /\ Accepted \subseteq Accepted'
    BY <1>1, <1>8 DEF Lost, RecordIsTrusted, Accepted, host
  <2> QED
    BY <1>1, <1>2, <1>8, <2>1, <2>2, LostInv, LostTypeOK
<1>9. CASE Reset
  <2>1. Accepted' = Accepted /\ \A d \in Clients : Same(d)
    BY <1>9 DEF Reset, Accepted, Same, local
  <2>2. TypeOK'
    BY <1>1, <1>9, LockdownBoundAssumption DEF Reset, TypeOK, local, host
  <2>3. RecordIsTrusted'
    BY <1>1, <1>9, <2>1 DEF Reset, RecordIsTrusted, Accepted, host
  <2> QED
    BY <1>1, <2>1, <2>2, <2>3, SameInv DEF IInv
<1>10. CASE UNCHANGED vars
  <2>1. Accepted' = Accepted /\ \A d \in Clients : Same(d)
    BY <1>10 DEF vars, Accepted, Same
  <2>2. TypeOK'
    BY <1>1, <1>10 DEF vars, TypeOK
  <2>3. RecordIsTrusted'
    BY <1>1, <1>10 DEF vars, RecordIsTrusted
  <2> QED
    BY <1>1, <2>1, <2>2, <2>3, SameInv DEF IInv
<1> QED
  BY <1>3, <1>4, <1>5, <1>6, <1>7, <1>8, <1>9, <1>10 DEF Next

\* IInv holds in every state.
THEOREM Invariance == Spec => []IInv
BY InitIInv, NextIInv, PTL DEF Spec

\* The variables have their types; a client is idle exactly while it has no
\* connection (lockdown.c:646-784).
THEOREM TypeCorrect == Spec => []TypeOK
<1>1. IInv => TypeOK
  BY DEF IInv
<1> QED
  BY <1>1, Invariance, PTL

\* A handshake that succeeded has its session, encrypted if the device asked for
\* that; and while the connection stands, that session, and any the client has
\* an identifier for, is one the device serves, for the host id the client used
\* and the device accepted, whichever answers come late, are lost or belong to
\* another request (lockdown.c:155-212, 748-782, 1151-1239).
THEOREM SessionsAreTrusted == Spec => []SessionIsTrusted
<1>1. IInv => SessionIsTrusted
  BY DEF IInv, ClientInv, SessionFits, InSession, HasSession, Serving,
         Accepted, SessionIsTrusted
<1> QED
  BY <1>1, Invariance, PTL

\* The stored pair record is one the device has accepted, also when two clients
\* pair at once, one is killed between the answer and the saving, or an answer
\* to an earlier request is read in place of the one to Pair
\* (lockdown.c:971-1019).
THEOREM RecordsAreTrusted == Spec => []RecordIsTrusted
<1>1. IInv => RecordIsTrusted
  BY DEF IInv
<1> QED
  BY <1>1, Invariance, PTL

-----------------------------------------------------------------------------
(* The handshake implements TrustedHost *)

Held == [c \in Clients |->
           IF pc[c] = "ready" /\ link[c] = "up" THEN hostId[c] ELSE NoHost]

\* What a client holds is what the others hold and what has become of its own.
LEMMA HeldStep ==
    ASSUME NEW c \in Clients, \A d \in Clients \ {c} : Same(d)
    PROVE  Held' = [Held EXCEPT ![c] = Held'[c]]
<1>1. \A d \in Clients \ {c} : Held'[d] = Held[d]
  BY DEF Held, Same
<1> QED
  BY <1>1 DEF Held

LEMMA HeldStays ==
    ASSUME NEW c \in Clients, \A d \in Clients \ {c} : Same(d),
           pc[c] # "ready", pc'[c] # "ready"
    PROVE  Held' = Held
BY DEF Held, Same

LEMMA UnseenByTrust ==
    ASSUME UNCHANGED <<trusted, revoked, record, serves>>, Held' = Held
    PROVE  UNCHANGED Trust!vars
BY DEF Trust!vars, Held

LEMMA TrustInit == Init => Trust!Init
BY DEF Init, Trust!Init

\* The requests and answers before the session: only a record that is stored is
\* seen.
LEMMA EarlySteps ==
    ASSUME IInv, NEW c \in Clients,
           \/ GotType(c) \/ GotVersion(c) \/ GotClass(c) \/ ReadRecord(c)
           \/ GotKey(c) \/ GotWifi(c) \/ GotPair(c) \/ ReadAgain(c)
           \/ GotValidate(c) \/ StartSession(c) \/ GotStart(c) \/ Free(c)
    PROVE  UNCHANGED Trust!vars
<1>1. TypeOK
  BY DEF IInv
<1>2. \A d \in Clients \ {c} : Same(d)
  BY <1>1, ClientStepSame DEF ClientStep
<1>3. UNCHANGED <<trusted, revoked, record, serves>>
  BY DEF GotType, GotVersion, GotClass, ReadRecord, GotKey, GotWifi, GotPair,
     ReadAgain, GotValidate, StartSession, GotStart, Free, host, device
<1>4. pc[c] # "ready" /\ pc'[c] # "ready"
  <2>1. CASE GotType(c) \/ GotVersion(c) \/ GotClass(c) \/ ReadRecord(c)
    BY <1>1, <2>1 DEF GotType, GotVersion, GotClass, ReadRecord, AfterPairing,
       Awaits, Ask, Proceed, At, TypeOK
  <2>2. CASE GotKey(c) \/ GotWifi(c) \/ GotPair(c)
    BY <1>1, <2>2 DEF GotKey, GotWifi, GotPair, PairReturns, AfterPairing,
       Awaits, Ask, Proceed, At, TypeOK
  <2>3. CASE ReadAgain(c) \/ GotValidate(c) \/ StartSession(c) \/ GotStart(c) \/ Free(c)
    BY <1>1, <2>3 DEF ReadAgain, GotValidate, StartSession, GotStart, Free,
       Awaits, Ask, Proceed, At, TypeOK
  <2> QED
    BY <2>1, <2>2, <2>3
<1>5. Held' = Held
  BY <1>2, <1>4, HeldStays
<1> QED
  BY <1>3, <1>5, UnseenByTrust

LEMMA SaveStores ==
    ASSUME IInv, NEW c \in Clients, SaveRecord(c)
    PROVE  Trust!Store(newId[c]) \/ UNCHANGED Trust!vars
<1>1. TypeOK /\ PairFits(c) /\ pc[c] = "save"
  BY DEF IInv, ClientInv, SaveRecord
<1>2. \A d \in Clients \ {c} : Same(d)
  BY <1>1, ClientStepSame DEF ClientStep
<1>3. pc'[c] # "ready"
  BY <1>1 DEF SaveRecord, PairReturns, AfterPairing, Proceed, At, TypeOK
<1>4. Held' = Held
  BY <1>1, <1>2, <1>3, HeldStays
<1>5. newId[c] \in Accepted /\ UNCHANGED <<trusted, revoked, serves>>
      /\ record' \in {record, newId[c]}
  BY <1>1 DEF PairFits, SaveRecord, device
<1> QED
  BY <1>4, <1>5 DEF Trust!Store, Trust!vars, Held, Accepted

\* A caller is given the session the device runs for the host id it asked for.
LEMMA EnableSSLGives ==
    ASSUME IInv, NEW c \in Clients, EnableSSL(c)
    PROVE  Trust!Give(c) \/ UNCHANGED Trust!vars
<1>1. TypeOK /\ SessionFits(c) /\ pc[c] = "tls"
  BY DEF IInv, ClientInv, EnableSSL
<1>2. \A d \in Clients \ {c} : Same(d)
  BY <1>1, ClientStepSame DEF ClientStep
<1>3. UNCHANGED <<trusted, revoked, record, serves, hostId>>
  BY DEF EnableSSL, host, device
<1>4. Held[c] = NoHost
  BY <1>1 DEF Held
<1>5. CASE pc'[c] = "ready" /\ link[c] = "up"
  <2>1. serves[c] = hostId[c] /\ serves[c] # NoHost
    BY <1>1, <1>5, HostAssumption
       DEF SessionFits, InSession, Serving, Accepted, TypeOK
  <2>2. link' = link
    BY DEF EnableSSL
  <2>3. Held'[c] = serves[c]
    BY <1>3, <1>5, <2>1, <2>2 DEF Held
  <2>4. Held' = [Held EXCEPT ![c] = serves[c]]
    BY <1>2, <2>3, HeldStep
  <2> QED
    BY <1>3, <1>4, <2>1, <2>4 DEF Trust!Give, Held
<1>6. CASE ~(pc'[c] = "ready" /\ link[c] = "up")
  <2>1. Held'[c] = NoHost
    BY <1>6 DEF Held, EnableSSL
  <2>2. Held' = [Held EXCEPT ![c] = NoHost]
    BY <1>2, <2>1, HeldStep
  <2>3. Held' = Held
    BY <1>4, <2>2 DEF Held
  <2> QED
    BY <1>3, <2>3, UnseenByTrust
<1> QED
  BY <1>5, <1>6

\* A client that has gone, that is about to stop its session, or whose
\* connection is lost.
LEMMA LeaveGivesBack ==
    ASSUME NEW c \in Clients, \A d \in Clients \ {c} : Same(d),
           pc'[c] # "ready" \/ link'[c] # "up",
           UNCHANGED <<trusted, revoked, record>>,
           serves' \in {serves, [serves EXCEPT ![c] = NoHost]}
    PROVE  Trust!GiveBack(c)
<1>1. Held'[c] = NoHost
  BY DEF Held
<1>2. Held' = [Held EXCEPT ![c] = NoHost]
  BY <1>1, HeldStep
<1> QED
  BY <1>2 DEF Trust!GiveBack, Held

LEMMA ClosedGivesBack ==
    ASSUME TypeOK, NEW c \in Clients, Closed(c)
    PROVE  Trust!GiveBack(c)
<1>1. \A d \in Clients \ {c} : Same(d)
  BY DEF Closed, At, Same, TypeOK
<1>2. /\ pc'[c] # "ready" /\ UNCHANGED <<trusted, revoked, record>>
      /\ serves' = [serves EXCEPT ![c] = NoHost]
  BY DEF Closed, At, TypeOK, host
<1> QED
  BY <1>1, <1>2, LeaveGivesBack

\* The device accepts a host, runs a session or ends one.
LEMMA HandleIsSeen ==
    ASSUME IInv, NEW c \in Clients, Handle(c)
    PROVE  [Trust!Next]_(Trust!vars)
<1>1. TypeOK /\ SessionFits(c) /\ PairFits(c)
  BY DEF IInv, ClientInv
<1>2. UNCHANGED <<pc, hostId, record, revoked, link>> /\ requests[c] # <<>>
  BY DEF Handle, local, host
<1>3. Held' = Held
  BY <1>2 DEF Held
<1>4. Held[c] = NoHost
  BY <1>1, <1>2 DEF Held, SessionFits, InSession
<1> DEFINE q == Head(requests[c])
<1>5. /\ requests[c] \in Seq(Request) /\ q = requests[c][1]
      /\ 1 \in 1..Len(requests[c]) /\ q \in Request
  BY <1>1, <1>2, HeadTailProperties, EmptySeq DEF TypeOK
<1>6. CASE q.of = "pair"
  <2>1. q.id \in HostIds
    BY <1>1, <1>5, <1>6 DEF PairFits
  <2>2. serves' = serves /\ trusted' \in {trusted, trusted \cup {q.id}}
    BY <1>6 DEF Handle
  <2>3. Trust!Accept(q.id) \/ UNCHANGED Trust!vars
    BY <1>2, <1>3, <2>2 DEF Trust!Accept, Trust!vars, Held
  <2> QED
    BY <2>1, <2>3 DEF Trust!Next
<1>7. CASE q.of = "start"
  <2>1. /\ trusted' = trusted
        /\ \/ serves' = serves
           \/ q.id \in trusted /\ serves' = [serves EXCEPT ![c] = q.id]
    BY <1>7 DEF Handle
  <2>2. q.id \in trusted => q.id \in HostIds
    BY <1>1 DEF TypeOK
  <2>3. (q.id \in HostIds /\ Trust!Run(c, q.id)) \/ UNCHANGED Trust!vars
    BY <1>2, <1>3, <1>4, <2>1, <2>2 DEF Trust!Run, Trust!vars, Held
  <2> QED
    BY <2>3 DEF Trust!Next
<1>8. CASE q.of \notin {"pair", "start"}
  <2>1. trusted' = trusted /\ (serves' = serves \/ serves' = [serves EXCEPT ![c] = NoHost])
    BY <1>8 DEF Handle
  <2>2. Trust!End(c) \/ UNCHANGED Trust!vars
    BY <1>2, <1>3, <1>4, <2>1 DEF Trust!End, Trust!vars, Held
  <2> QED
    BY <2>2 DEF Trust!Next
<1> QED
  BY <1>6, <1>7, <1>8

LEMMA TrustStep == IInv /\ [Next]_vars => [Trust!Next]_(Trust!vars)
<1> SUFFICES ASSUME IInv, [Next]_vars PROVE [Trust!Next]_(Trust!vars)
  OBVIOUS
<1>1. TypeOK
  BY DEF IInv
<1>2. ASSUME NEW c \in Clients, ClientStep(c)
      PROVE  [Trust!Next]_(Trust!vars)
  <2>1. CASE SaveRecord(c)
    <3>1. newId[c] \in HostIds
      BY <2>1 DEF IInv, ClientInv, PairFits, SaveRecord
    <3> QED
      BY <2>1, <3>1, SaveStores DEF Trust!Next
  <2>2. CASE EnableSSL(c)
    BY <2>2, EnableSSLGives DEF Trust!Next
  <2>3. CASE Close(c)
    BY <1>1, <2>3, ClosedGivesBack DEF Close, Trust!Next
  <2> QED
    BY <1>2, <2>1, <2>2, <2>3, EarlySteps DEF ClientStep
<1>3. ASSUME NEW c \in Clients, Connect(c)
      PROVE  [Trust!Next]_(Trust!vars)
  <2>1. \A d \in Clients \ {c} : Same(d)
    BY <1>1, <1>3 DEF Connect, At, Same, TypeOK, local, device
  <2>2. /\ pc[c] # "ready" /\ pc'[c] # "ready"
        /\ UNCHANGED <<trusted, revoked, record, serves>>
    BY <1>1, <1>3 DEF Connect, At, TypeOK, device
  <2> QED
    BY <2>1, <2>2, HeldStays, UnseenByTrust
<1>4. ASSUME NEW c \in Clients, Done(c)
      PROVE  [Trust!Next]_(Trust!vars)
  <2>1. \A d \in Clients \ {c} : Same(d)
    BY <1>1, <1>4 DEF Done, Proceed, At, Same, TypeOK, local, device
  <2>2. pc'[c] # "ready" /\ UNCHANGED <<trusted, revoked, record, serves>>
    BY <1>1, <1>4 DEF Done, Proceed, At, TypeOK, host, device
  <2> QED
    BY <2>1, <2>2, LeaveGivesBack DEF Trust!Next
<1>5. ASSUME NEW c \in Clients, Crash(c)
      PROVE  [Trust!Next]_(Trust!vars)
  BY <1>1, <1>5, ClosedGivesBack DEF Crash, Trust!Next
<1>6. ASSUME NEW c \in Clients, Handle(c)
      PROVE  [Trust!Next]_(Trust!vars)
  BY <1>6, HandleIsSeen
<1>7. ASSUME NEW c \in Clients, Lost(c)
      PROVE  [Trust!Next]_(Trust!vars)
  <2>1. \A d \in Clients \ {c} : Same(d)
    BY <1>1, <1>7 DEF Lost, Same, TypeOK, local
  <2>2. /\ link'[c] # "up" /\ UNCHANGED <<trusted, revoked, record>>
        /\ serves' = [serves EXCEPT ![c] = NoHost]
    BY <1>1, <1>7 DEF Lost, TypeOK, host
  <2> QED
    BY <2>1, <2>2, LeaveGivesBack DEF Trust!Next
<1>8. CASE Reset
  <2>1. /\ trusted' \cup revoked' = trusted \cup revoked
        /\ UNCHANGED <<record, serves, pc, hostId, link>>
    BY <1>8 DEF Reset, host, local
  <2> QED
    BY <2>1 DEF Trust!vars
<1>9. CASE UNCHANGED vars
  BY <1>9 DEF vars, Trust!vars
<1> QED
  BY <1>2, <1>3, <1>4, <1>5, <1>6, <1>7, <1>8, <1>9 DEF Next

\* The handshake keeps the promise of TrustedHost for any number of clients and
\* hosts: the record is never lost and is always an accepted host's, and a
\* caller is given the session that the device runs for it, as long as the
\* connection stands (lockdown.c:646-784, 971-1019, 1151-1239).
THEOREM ImplementsTrustedHost == Spec => KeepsTheTrust
BY TrustInit, TrustStep, Invariance, PTL DEF Spec, KeepsTheTrust, Trust!Spec

=============================================================================
