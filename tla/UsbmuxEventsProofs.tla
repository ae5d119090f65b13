------------------------- MODULE UsbmuxEventsProofs -------------------------
(***************************************************************************)
(* Theorems about UsbmuxEvents, for any number of clients, devices and     *)
(* events.  But for the types they hold of calls that do not overlap: the  *)
(* run of MCUsbmuxEvents_threads.cfg shows what goes wrong when they do.   *)
(***************************************************************************)
EXTENDS UsbmuxEvents, SequenceTheorems, FiniteSetTheorems, TLAPS

\* There is a sequence that lists what is attached.
FiniteInv == TypeOK /\ IsFiniteSet(attached)

-----------------------------------------------------------------------------
(* One monitor *)

AllDead == \A m \in Monitors : mon[m] = "dead"

\* At most one call is between two sections: it is of the first subscriber,
\* or of the last one, which has gone.
CallsFit ==
    /\ \A c, d \in Clients : pc[c] # "idle" /\ pc[d] # "idle" => c = d
    /\ \A c \in Clients :
         /\ pc[c] = "spawn" => listeners = {c} /\ AllDead
         /\ pc[c] \in {"stop", "flag", "join"} => listeners = {}
         /\ pc[c] = "join" => joining[c] = devmon

\* The monitor is devmon's; between calls it runs or not, as is needed, and a
\* handle that is left behind is not taken for a thread.
MonitorFits ==
    /\ \A m \in Monitors : mon[m] \in Alive => m = devmon
    /\ ~BetweenSections =>
         IF listeners = {}
           THEN AllDead /\ (devmon # NoMonitor => ~lingers)
           ELSE /\ devmon \in Monitors
                /\ mon[devmon] \in Alive \ {"cleanup"}
                /\ running \/ mon[devmon] = "start"

-----------------------------------------------------------------------------
(* What the monitor knows where *)

\* The list is empty when a connection is made, and when it is left alone.
\* An event in hand is about the list, or about a lost connection.
PlacesFit ==
    /\ AllDead => devices = {}
    /\ \A m \in Monitors :
         /\ mon[m] \in {"start", "listen", "greet", "assign"} => devices = {}
         /\ mon[m] \in {"check", "again"} /\ running => devices = {}
         /\ mon[m] \in {"loop", "recv", "tell", "forget", "drain"} =>
                listenfd = m
         /\ mon[m] = "drain" => conn[m] # "listening"
         /\ mon[m] \in {"tell", "forget"} /\ event[m][1] = "lost" =>
                conn[m] # "listening"
         /\ mon[m] = "forget" => event[m][1] # "add"
         /\ mon[m] = "tell" => event[m][2] \in devices

\* The device of the event in hand.
InHand(m) == IF mon[m] \in {"tell", "forget"} THEN {event[m][2]} ELSE {}

\* A subscriber knows the list, but for the event in hand.
KnownFits ==
    \A c \in Clients :
        /\ c \notin raced => known[c] \subseteq (IF c \in listeners THEN devices
                                                                   ELSE {})
        /\ \A m \in Monitors : mon[m] \in Alive /\ c \in listeners =>
             /\ devices \ InHand(m) \subseteq known[c]
             /\ c \notin raced /\ mon[m] = "forget" => event[m][2] \notin known[c]

\* What the list will be once the event in hand is done with.
Listed(m) ==
    IF mon[m] \in {"tell", "forget"} /\ event[m][1] # "add"
      THEN devices \ {event[m][2]} ELSE devices

\* The last word about a device in what is to be read, or the list if there is
\* none, is what the daemon sees.
Word(seen, d) == <<IF d \in seen THEN "Attached" ELSE "Detached", d>>
LastWord(q, seen, list, d) ==
    \/ \E i \in 1..Len(q) :
         q[i] = Word(seen, d) /\ \A j \in 1..Len(q) : j > i => q[j][2] # d
    \/ /\ \A i \in 1..Len(q) : q[i][2] # d
       /\ d \in seen <=> d \in list

Reading == {"assign", "loop", "recv", "tell", "forget"}
QueueFits ==
    \A m \in Monitors : mon[m] \in Reading /\ conn[m] = "listening" =>
        \A d \in Devices : LastWord(queue[m], attached, Listed(m), d)

\* The words about a device alternate, and the first one is news to the list.
Alternates(q, list) ==
    /\ \A j \in 1..Len(q) :
         (\A i \in 1..(j - 1) : q[i][2] # q[j][2]) =>
             (q[j][1] = "Attached" <=> q[j][2] \notin list)
    /\ \A i, j \in 1..Len(q) :
         i < j /\ q[i][2] = q[j][2]
               /\ (\A k \in (i + 1)..(j - 1) : q[k][2] # q[j][2]) =>
             q[i][1] # q[j][1]

\* The monitor reads, or announces what it has read.
InTurn(m) == \/ mon[m] \in {"assign", "loop", "recv"}
             \/ mon[m] \in {"tell", "forget"} /\ event[m][1] # "lost"
OrderFits ==
    \A m \in Monitors :
        /\ mon[m] = "greet" => conn[m] # "listening" /\ queue[m] = <<>>
        /\ InTurn(m) => Alternates(queue[m], Listed(m))

\* The inductive invariant.
IInv == /\ FiniteInv /\ CallsFit /\ MonitorFits /\ PlacesFit
        /\ KnownFits /\ QueueFits /\ OrderFits

-----------------------------------------------------------------------------
(* Types *)

LEMMA EventTypes ==
    /\ \A k \in Kinds, d \in Devices : <<k, d>> # NoEvent /\ <<k, d>> \in Kinds \X Devices
    /\ "tell" \in Alive /\ "forget" \in Alive /\ "dead" \notin Alive
BY DEF Kinds, NoEvent, Alive

LEMMA ListingsType ==
    ASSUME NEW S \in SUBSET Devices, IsFiniteSet(S), NEW s \in Listings(S)
    PROVE  s \in Seq(Messages) /\ Len(s) = Cardinality(S)
<1>1. Cardinality(S) \in Nat
  BY FS_CardinalityType
<1>2. s \in [1..Cardinality(S) -> {"Attached"} \X S]
  BY DEF Listings
<1>3. {"Attached"} \X S \subseteq Messages
  BY DEF Messages
<1>4. s \in [1..Cardinality(S) -> Messages]
  BY <1>2, <1>3
<1> QED
  BY <1>1, <1>4

LEMMA SubscribeTypeOK ==
    ASSUME FiniteInv, NEW c \in Clients, Subscribe(c)
    PROVE  FiniteInv'
<1>1. subs' \in 0..MaxSubs
  BY BoundAssumption DEF FiniteInv, TypeOK, Subscribe, MaySubscribe
<1>2. known' \in [Clients -> SUBSET Devices] /\ raced' \in SUBSET Clients
  <2>1. /\ known \in [Clients -> SUBSET Devices] /\ devices \in SUBSET Devices
        /\ raced \in SUBSET Clients
    BY DEF FiniteInv, TypeOK
  <2>2. CASE ThreadAlive(devmon)
    BY <2>1, <2>2 DEF Subscribe
  <2>3. CASE ~ThreadAlive(devmon)
    BY <2>1, <2>3 DEF Subscribe
  <2> QED
    BY <2>2, <2>3
<1>3. pc' \in [Clients -> Calls \cup {"idle"}]
      /\ \A d \in Clients : pc'[d] = "join" => pc[d] = "join"
  BY DEF FiniteInv, TypeOK, Subscribe, Calls
<1> QED
  BY <1>1, <1>2, <1>3 DEF FiniteInv, TypeOK, Subscribe, threads, daemon

LEMMA UnsubscribeTypeOK ==
    ASSUME FiniteInv, NEW c \in Clients, Unsubscribe(c)
    PROVE  FiniteInv'
<1>1. pc' \in [Clients -> Calls \cup {"idle"}]
      /\ \A d \in Clients : pc'[d] = "join" => pc[d] = "join"
  BY DEF FiniteInv, TypeOK, Unsubscribe, Calls
<1>2. known' \in [Clients -> SUBSET Devices]
  BY DEF FiniteInv, TypeOK, Unsubscribe
<1> QED
  BY <1>1, <1>2 DEF FiniteInv, TypeOK, Unsubscribe, threads, daemon, history

LEMMA ClientStepTypeOK ==
    ASSUME FiniteInv, NEW c \in Clients, ClientStep(c)
    PROVE  FiniteInv'
<1>1. ASSUME NEW m \in Monitors, Spawn(c, m)
      PROVE  FiniteInv'
  <2>1. <<>> \in Seq(Messages)
    OBVIOUS
  <2>2. mon' \in [Monitors -> Alive \cup {"dead"}]
        /\ \A n \in Monitors : event'[n] # NoEvent <=> mon'[n] \in {"tell", "forget"}
    BY <1>1 DEF FiniteInv, TypeOK, Spawn, Goto, Alive
  <2> QED
    BY <1>1, <2>1, <2>2 DEF FiniteInv, TypeOK, Spawn, history
<1>2. CASE Shutdown(c)
  <2>1. conn' \in [Monitors -> {"none", "open", "listening", "shut", "lost"}]
    BY <1>2 DEF FiniteInv, TypeOK, Shutdown
  <2>2. hasty' \in BOOLEAN
    BY <1>2 DEF FiniteInv, TypeOK, Shutdown
  <2>3. pc' \in [Clients -> Calls \cup {"idle"}]
        /\ \A d \in Clients : pc'[d] = "join" => pc[d] = "join"
    BY <1>2 DEF FiniteInv, TypeOK, Shutdown, Calls
  <2> QED
    BY <1>2, <2>1, <2>2, <2>3 DEF FiniteInv, TypeOK, Shutdown, globals,
       threads
<1>3. CASE Flag(c)
  <2>1. /\ pc' \in [Clients -> Calls \cup {"idle"}]
        /\ joining' \in [Clients -> Monitors \cup {NoMonitor}]
        /\ running' \in BOOLEAN
        /\ \A d \in Clients : pc'[d] = "join" => joining'[d] \in Monitors
    BY <1>3 DEF FiniteInv, TypeOK, Flag, Calls, ThreadAlive
  <2> QED
    BY <1>3, <2>1 DEF FiniteInv, TypeOK, Flag, threads, daemon, history
<1>4. CASE Join(c)
  BY <1>4 DEF FiniteInv, TypeOK, Join, threads, daemon, history
<1> QED
  BY <1>1, <1>2, <1>3, <1>4 DEF ClientStep

\* A monitor goes on without an event in hand.
LEMMA GoesTypeOK ==
    ASSUME FiniteInv, NEW m \in Monitors, NEW p \in Alive \cup {"dead"},
           mon[m] \notin {"tell", "forget"}, p \notin {"tell", "forget"},
           Goto(m, p), event' = event
    PROVE  /\ mon' \in [Monitors -> Alive \cup {"dead"}]
           /\ event' \in [Monitors -> {NoEvent} \cup Kinds \X Devices]
           /\ \A n \in Monitors : event'[n] # NoEvent <=> mon'[n] \in {"tell", "forget"}
BY DEF FiniteInv, TypeOK, Goto

LEMMA MonitorStepTypeOK ==
    ASSUME FiniteInv, NEW m \in Monitors, MonitorStep(m)
    PROVE  FiniteInv'
<1>1. CASE Start(m)
  BY <1>1, GoesTypeOK DEF FiniteInv, TypeOK, Start, Alive, clients, daemon,
     history
<1>2. CASE Dial(m)
  <2>1. PICK p \in {"greet", "again"} : Goto(m, p)
    BY <1>2 DEF Dial
  <2>2. /\ conn' \in [Monitors -> {"none", "open", "listening", "shut", "lost"}]
        /\ queue' \in [Monitors -> Seq(Messages)]
        /\ listenfd' \in Monitors \cup {NoMonitor}
    <3>1. CASE up /\ Goto(m, "greet")
      <4>1. /\ conn' = [conn EXCEPT ![m] = "open"] /\ listenfd' = listenfd
            /\ queue' = [queue EXCEPT ![m] = <<>>]
        BY <1>2, <3>1 DEF Dial
      <4>2. <<>> \in Seq(Messages)
        OBVIOUS
      <4> QED
        BY <4>1, <4>2 DEF FiniteInv, TypeOK
    <3>2. CASE ~up /\ listenfd' = NoMonitor
      BY <1>2, <3>2 DEF FiniteInv, TypeOK, Dial
    <3> QED
      BY <1>2, <3>1, <3>2 DEF Dial
  <2> QED
    BY <1>2, <2>1, <2>2, GoesTypeOK DEF FiniteInv, TypeOK, Dial, Alive,
       clients, history
<1>3. CASE Greet(m)
  <2>1. PICK p \in {"assign", "again"} : Goto(m, p)
    BY <1>3 DEF Greet
  <2>2. /\ conn' \in [Monitors -> {"none", "open", "listening", "shut", "lost"}]
        /\ listenfd' \in Monitors \cup {NoMonitor}
    BY <1>3 DEF FiniteInv, TypeOK, Greet
  <2>3. queue' \in [Monitors -> Seq(Messages)]
    <3>1. ASSUME NEW s \in Listings(attached), queue' = [queue EXCEPT ![m] = s]
          PROVE  queue' \in [Monitors -> Seq(Messages)]
      BY <3>1, ListingsType DEF FiniteInv, TypeOK
    <3> QED
      BY <1>3, <3>1 DEF FiniteInv, TypeOK, Greet
  <2> QED
    BY <1>3, <2>1, <2>2, <2>3, GoesTypeOK
       DEF FiniteInv, TypeOK, Greet, Alive, clients, history
<1>4. CASE Assign(m)
  BY <1>4, GoesTypeOK DEF FiniteInv, TypeOK, Assign, Alive, clients, daemon,
     history
<1>5. CASE Loop(m)
  <2>1. PICK p \in {"recv", "check"} : Goto(m, p)
    BY <1>5 DEF Loop
  <2> QED
    BY <1>5, <2>1, GoesTypeOK
       DEF FiniteInv, TypeOK, Loop, Alive, globals, clients, daemon, history
<1>6. ASSUME NEW fd \in Monitors, Receive(m, fd)
      PROVE  FiniteInv'
  <2> DEFINE kind == Head(queue[fd])[1]
             d    == Head(queue[fd])[2]
  <2>1. queue[fd] \in Seq(Messages) /\ queue[fd] # <<>>
    BY <1>6 DEF FiniteInv, TypeOK, Receive
  <2>2. Head(queue[fd]) \in Messages /\ Tail(queue[fd]) \in Seq(Messages)
    BY <2>1, HeadTailProperties
  <2>3. d \in Devices
    BY <2>2 DEF Messages
  <2>4. queue' \in [Monitors -> Seq(Messages)]
    BY <1>6, <2>2 DEF FiniteInv, TypeOK, Receive
  <2>5. /\ mon' \in [Monitors -> Alive \cup {"dead"}]
        /\ event' \in [Monitors -> {NoEvent} \cup Kinds \X Devices]
        /\ \A n \in Monitors : event'[n] # NoEvent <=> mon'[n] \in {"tell", "forget"}
        /\ devices' \in SUBSET Devices
    <3> HIDE DEF d
    <3>1. CASE kind = "Attached"
      <4>1. /\ devices' = devices \cup {d} /\ Goto(m, "tell")
            /\ event' = [event EXCEPT ![m] = <<"add", d>>]
        BY <1>6, <3>1 DEF Receive, d
      <4> QED
        BY <2>3, <4>1, EventTypes DEF FiniteInv, TypeOK, Goto, Kinds
    <3>2. CASE kind = "Detached" /\ d \in devices
      <4>1. /\ devices' = devices /\ Goto(m, "tell")
            /\ event' = [event EXCEPT ![m] = <<"remove", d>>]
        BY <1>6, <3>2 DEF Receive, d
      <4> QED
        BY <2>3, <4>1, EventTypes DEF FiniteInv, TypeOK, Goto, Kinds
    <3>3. CASE kind # "Attached" /\ ~(kind = "Detached" /\ d \in devices)
      <4>1. devices' = devices /\ Goto(m, "loop") /\ event' = event
        BY <1>6, <3>3 DEF Receive, d
      <4> QED
        BY <1>6, <4>1, GoesTypeOK DEF FiniteInv, TypeOK, Alive, Receive
    <3> QED
      BY <3>1, <3>2, <3>3
  <2> QED
    BY <1>6, <2>4, <2>5 DEF FiniteInv, TypeOK, Receive, clients, history
<1>7. CASE ReceiveFails(m)
  BY <1>7, GoesTypeOK
     DEF FiniteInv, TypeOK, ReceiveFails, Alive, globals, clients, daemon,
     history
<1>8. CASE Drain(m)
  <2>1. CASE devices = {}
    BY <1>8, <2>1, GoesTypeOK
       DEF FiniteInv, TypeOK, Drain, Alive, globals, clients, daemon, history
  <2>2. CASE devices # {}
    <3>1. PICK d \in devices : Goto(m, "tell") /\ event' = [event EXCEPT ![m] = <<"lost", d>>]
      BY <1>8, <2>2 DEF Drain
    <3>2. /\ mon' \in [Monitors -> Alive \cup {"dead"}]
          /\ event' \in [Monitors -> {NoEvent} \cup Kinds \X Devices]
          /\ \A n \in Monitors :
                 event'[n] # NoEvent <=> mon'[n] \in {"tell", "forget"}
      BY <3>1, EventTypes DEF FiniteInv, TypeOK, Goto, Kinds
    <3> QED
      BY <1>8, <3>2 DEF FiniteInv, TypeOK, Drain, globals, clients, daemon,
         history
  <2> QED
    BY <2>1, <2>2
<1>9. CASE Tell(m)
  <2> DEFINE add == event[m][1] = "add"
  <2>1. event[m] \in Kinds \X Devices
    BY <1>9 DEF FiniteInv, TypeOK, Tell
  <2>2. known' \in [Clients -> SUBSET Devices]
    BY <1>9, <2>1 DEF FiniteInv, TypeOK, Tell
  <2>3. /\ mon' \in [Monitors -> Alive \cup {"dead"}]
        /\ event' \in [Monitors -> {NoEvent} \cup Kinds \X Devices]
        /\ \A n \in Monitors : event'[n] # NoEvent <=> mon'[n] \in {"tell", "forget"}
    BY <1>9 DEF FiniteInv, TypeOK, Tell, Goto, Alive
  <2> QED
    BY <1>9, <2>2, <2>3 DEF FiniteInv, TypeOK, Tell, globals, clients,
       daemon, history
<1>10. CASE Forget(m)
  <2>1. /\ mon' \in [Monitors -> Alive \cup {"dead"}]
        /\ event' \in [Monitors -> {NoEvent} \cup Kinds \X Devices]
        /\ \A n \in Monitors : event'[n] # NoEvent <=> mon'[n] \in {"tell", "forget"}
    BY <1>10 DEF FiniteInv, TypeOK, Forget, Goto, Alive
  <2> QED
    BY <1>10, <2>1 DEF FiniteInv, TypeOK, Forget, clients, daemon, history
<1>11. CASE Check(m)
  BY <1>11, GoesTypeOK DEF FiniteInv, TypeOK, Check, Alive, clients, daemon,
     history
<1>12. CASE Again(m)
  <2>1. PICK p \in {"listen", "cleanup"} : Goto(m, p)
    BY <1>12 DEF Again
  <2> QED
    BY <1>12, <2>1, GoesTypeOK
       DEF FiniteInv, TypeOK, Again, Alive, globals, clients, daemon, history
<1>13. CASE Cleanup(m)
  <2>1. /\ conn' \in [Monitors -> {"none", "open", "listening", "shut", "lost"}]
        /\ queue' \in [Monitors -> Seq(Messages)]
    BY <1>13 DEF FiniteInv, TypeOK, Cleanup
  <2> QED
    BY <1>13, <2>1, GoesTypeOK DEF FiniteInv, TypeOK, Cleanup, Alive,
       clients, history
<1> QED
  BY <1>1, <1>2, <1>3, <1>4, <1>5, <1>6, <1>7, <1>8, <1>9, <1>10, <1>11,
     <1>12,
     <1>13 DEF MonitorStep

LEMMA DeviceStepTypeOK ==
    ASSUME FiniteInv, NEW d \in Devices, Attach(d) \/ Detach(d)
    PROVE  FiniteInv'
<1>1. PICK kind \in {"Attached", "Detached"} : Report(kind, d)
  BY DEF Attach, Detach
<1>2. queue' \in [Monitors -> Seq(Messages)]
  <2>1. <<kind, d>> \in Messages
    BY DEF Messages
  <2> QED
    BY <1>1, <2>1 DEF FiniteInv, TypeOK, Report
<1>3. attached' \in SUBSET Devices /\ IsFiniteSet(attached')
  BY FS_AddElement, FS_RemoveElement DEF FiniteInv, TypeOK, Attach, Detach
<1>4. events' \in 0..MaxEvents
  BY BoundAssumption DEF FiniteInv, TypeOK, Attach, Detach, Happens
<1> QED
  BY <1>2, <1>3, <1>4
     DEF FiniteInv, TypeOK, Attach, Detach, globals, clients, threads, history

LEMMA DaemonStepTypeOK ==
    ASSUME FiniteInv, Stop \/ Restart
    PROVE  FiniteInv'
<1>1. events' \in 0..MaxEvents
  BY BoundAssumption DEF FiniteInv, TypeOK, Stop, Restart, Happens
<1>2. conn' \in [Monitors -> {"none", "open", "listening", "shut", "lost"}]
  BY DEF FiniteInv, TypeOK, Stop, Restart
<1> QED
  BY <1>1, <1>2
     DEF FiniteInv, TypeOK, Stop, Restart, globals, clients, threads, history

LEMMA InitTypeOK == Init => FiniteInv
<1> SUFFICES ASSUME Init
             PROVE  FiniteInv
  OBVIOUS
<1>1. 0 \in 0..MaxSubs /\ 0 \in 0..MaxEvents
  BY BoundAssumption
<1>2. IsFiniteSet(attached)
  BY FS_EmptySet DEF Init
<1>3. queue \in [Monitors -> Seq(Messages)]
  BY DEF Init
<1> QED
  BY <1>1, <1>2, <1>3 DEF Init, FiniteInv, TypeOK

LEMMA NextTypeOK == FiniteInv /\ [Next]_vars => FiniteInv'
<1>1. FiniteInv /\ UNCHANGED vars => FiniteInv'
  BY DEF FiniteInv, TypeOK, vars
<1> QED
  BY <1>1, SubscribeTypeOK, UnsubscribeTypeOK, ClientStepTypeOK,
     MonitorStepTypeOK,
     DeviceStepTypeOK, DaemonStepTypeOK DEF Next

\* The variables have their types, also when calls overlap: a monitor has an
\* event in hand exactly while it announces or removes one, and a join is of a
\* thread (libusbmuxd.c:854-1240).
THEOREM TypeCorrect == Spec => []TypeOK
<1>1. FiniteInv => TypeOK
  BY DEF FiniteInv
<1>2. Spec => []FiniteInv
  BY InitTypeOK, NextTypeOK, PTL DEF Spec
<1> QED
  BY <1>1, <1>2, PTL

-----------------------------------------------------------------------------
(* One monitor *)

\* What a step of a monitor does to the flag, to itself and to nobody else.
LEMMA MonitorMoves ==
    ASSUME FiniteInv, NEW m \in Monitors, MonitorStep(m)
    PROVE  /\ UNCHANGED <<listeners, devmon, pc, joining, subs, lingers, raced>>
           /\ mon[m] \in Alive
           /\ \E p \in Alive \cup {"dead"} : Goto(m, p)
           /\ mon'[m] = "dead" <=> mon[m] = "cleanup"
           /\ mon'[m] = "cleanup" => mon[m] = "again" /\ ~running
           /\ (running /\ listeners # {}) \/ mon[m] = "start" => running'
           /\ mon'[m] # "start"
<1> DEFINE Facts ==
           /\ UNCHANGED <<listeners, devmon, pc, joining, subs, lingers, raced>>
           /\ mon[m] \in Alive
           /\ \E p \in Alive \cup {"dead"} : Goto(m, p)
           /\ mon'[m] = "dead" <=> mon[m] = "cleanup"
           /\ mon'[m] = "cleanup" => mon[m] = "again" /\ ~running
           /\ (running /\ listeners # {}) \/ mon[m] = "start" => running'
           /\ mon'[m] # "start"
<1> USE DEF FiniteInv, TypeOK, Goto, Alive, globals, clients, history
<1>1. CASE Start(m)
  BY <1>1 DEF Start
<1>2. CASE Dial(m)
  BY <1>2 DEF Dial
<1>3. CASE Greet(m)
  <2>1. Goto(m, "assign") \/ Goto(m, "again")
    BY <1>3 DEF Greet
  <2> QED
    BY <1>3, <2>1 DEF Greet
<1>4. CASE Assign(m)
  BY <1>4 DEF Assign
<1>5. CASE Loop(m)
  BY <1>5 DEF Loop
<1>6. ASSUME NEW fd \in Monitors, Receive(m, fd)
      PROVE  Facts
  <2>1. Goto(m, "tell") \/ Goto(m, "loop")
    BY <1>6 DEF Receive
  <2> QED
    BY <1>6, <2>1 DEF Receive
<1>7. CASE ReceiveFails(m)
  BY <1>7 DEF ReceiveFails
<1>8. CASE Drain(m)
  <2>1. Goto(m, "tell") \/ Goto(m, "check")
    BY <1>8 DEF Drain
  <2> QED
    BY <1>8, <2>1 DEF Drain
<1>9. CASE Tell(m)
  <2>1. Goto(m, "loop") \/ Goto(m, "forget")
    BY <1>9 DEF Tell
  <2> QED
    BY <1>9, <2>1 DEF Tell
<1>10. CASE Forget(m)
  BY <1>10 DEF Forget
<1>11. CASE Check(m)
  BY <1>11 DEF Check
<1>12. CASE Again(m)
  BY <1>12 DEF Again
<1>13. CASE Cleanup(m)
  BY <1>13 DEF Cleanup
<1> QED
  BY <1>1, <1>2, <1>3, <1>4, <1>5, <1>6, <1>7, <1>8, <1>9, <1>10, <1>11,
     <1>12,
     <1>13 DEF MonitorStep

\* No other monitor is there, before or after.
LEMMA OthersAreDead ==
    ASSUME FiniteInv, MonitorFits, NEW m \in Monitors, MonitorStep(m),
           NEW n \in Monitors, n # m
    PROVE  mon[n] = "dead" /\ mon'[n] = "dead"
<1>1. mon[n] = "dead"
  BY MonitorMoves DEF MonitorFits, FiniteInv, TypeOK
<1> QED
  BY <1>1, MonitorMoves DEF Goto, FiniteInv, TypeOK

\* A monitor that is about to end has been told to: a call waits for it.
LEMMA CleanupIsAsked ==
    ASSUME FiniteInv, CallsFit, MonitorFits, NEW m \in Monitors, mon[m] = "cleanup"
    PROVE  BetweenSections /\ listeners = {}
<1>1. m = devmon /\ ~AllDead
  BY DEF MonitorFits, AllDead, Alive
<1>2. BetweenSections
  BY <1>1 DEF MonitorFits
<1>3. PICK c \in Clients : pc[c] # "idle"
  BY <1>2 DEF BetweenSections
<1>4. pc[c] \in {"stop", "flag", "join"}
  BY <1>1, <1>3 DEF CallsFit, FiniteInv, TypeOK, Calls
<1> QED
  BY <1>2, <1>4 DEF CallsFit

\* Who subscribes finds either nobody and no thread, or the monitor at work.
LEMMA SubscriberFinds ==
    ASSUME FiniteInv, CallsFit, MonitorFits, ~BetweenSections
    PROVE  IF ThreadAlive(devmon)
             THEN listeners # {} /\ devmon \in Monitors /\ mon[devmon] \in Alive
             ELSE listeners = {} /\ AllDead
<1>1. CASE listeners = {}
  <2>1. AllDead /\ (devmon # NoMonitor => ~lingers)
    BY <1>1 DEF MonitorFits
  <2>2. devmon # NoMonitor => mon[devmon] = "dead"
    BY <2>1 DEF AllDead, FiniteInv, TypeOK
  <2> QED
    BY <1>1, <2>1, <2>2 DEF ThreadAlive, Alive
<1>2. CASE listeners # {}
  BY <1>2, MonitorAssumption DEF MonitorFits, ThreadAlive
<1> QED
  BY <1>1, <1>2

\* The last subscriber finds no other call under way.
LEMMA UnsubscriberIsAlone ==
    ASSUME FiniteInv, CallsFit, NEW c \in Clients, Unsubscribe(c)
    PROVE  ~BetweenSections
<1> SUFFICES ASSUME NEW d \in Clients, pc[d] # "idle"
             PROVE  FALSE
  BY DEF BetweenSections
<1>1. pc[d] \in Calls /\ c \in listeners /\ c # d
  BY DEF FiniteInv, TypeOK, Unsubscribe
<1> QED
  BY <1>1 DEF CallsFit, Calls

LEMMA SubscribeFits ==
    ASSUME ~Overlap, FiniteInv, CallsFit, MonitorFits, NEW c \in Clients, Subscribe(c)
    PROVE  CallsFit' /\ MonitorFits'
<1>1. ~BetweenSections
  BY DEF Subscribe, MaySubscribe
<1>2. UNCHANGED <<mon, devmon, running, joining, lingers>>
  BY DEF Subscribe, threads
<1>3. CASE ThreadAlive(devmon)
  <2>1. pc' = pc /\ listeners # {} /\ listeners' # {}
    BY <1>1, <1>3, SubscriberFinds DEF Subscribe
  <2> QED
    BY <1>1, <1>2, <2>1 DEF CallsFit, MonitorFits, BetweenSections, AllDead
<1>4. CASE ~ThreadAlive(devmon)
  <2>1. pc' = [pc EXCEPT ![c] = "spawn"] /\ listeners' = {c} /\ AllDead
    BY <1>1, <1>4, SubscriberFinds DEF Subscribe
  <2>2. pc'[c] = "spawn" /\ \A d \in Clients : d # c => pc'[d] = "idle"
    BY <1>1, <2>1 DEF FiniteInv, TypeOK, BetweenSections
  <2>3. BetweenSections'
    BY <2>2 DEF BetweenSections
  <2>4. MonitorFits'
    BY <1>2, <2>3 DEF MonitorFits
  <2>5. CallsFit'
    BY <1>2, <2>1, <2>2 DEF CallsFit, AllDead
  <2> QED
    BY <2>4, <2>5
<1> QED
  BY <1>3, <1>4

LEMMA UnsubscribeFits ==
    ASSUME FiniteInv, CallsFit, MonitorFits, NEW c \in Clients, Unsubscribe(c)
    PROVE  CallsFit' /\ MonitorFits'
<1>1. ~BetweenSections
  BY UnsubscriberIsAlone
<1>2. UNCHANGED <<mon, devmon, running, joining, lingers>> /\ listeners # {}
  BY DEF Unsubscribe, threads
<1>3. CASE listeners' = {}
  <2>1. pc'[c] = "stop" /\ \A d \in Clients : d # c => pc'[d] = "idle"
    BY <1>1, <1>3 DEF FiniteInv, TypeOK, BetweenSections, Unsubscribe
  <2>2. BetweenSections'
    BY <2>1 DEF BetweenSections
  <2>3. MonitorFits'
    BY <1>2, <2>2 DEF MonitorFits
  <2>4. CallsFit'
    BY <1>3, <2>1 DEF CallsFit
  <2> QED
    BY <2>3, <2>4
<1>4. CASE listeners' # {}
  <2>1. pc' = pc
    BY <1>4 DEF Unsubscribe
  <2> QED
    BY <1>1, <1>2, <1>4, <2>1 DEF CallsFit, MonitorFits, BetweenSections,
       AllDead
<1> QED
  BY <1>3, <1>4

\* While a call is under way no other one is.
LEMMA CallIsAlone ==
    ASSUME FiniteInv, CallsFit, NEW c \in Clients, pc[c] # "idle",
           NEW p \in Calls \cup {"idle"}, pc' = [pc EXCEPT ![c] = p]
    PROVE  /\ pc'[c] = p /\ \A d \in Clients : d # c => pc[d] = "idle" /\ pc'[d] = "idle"
           /\ BetweenSections' <=> p # "idle"
BY DEF FiniteInv, TypeOK, CallsFit, BetweenSections

LEMMA ClientStepFits ==
    ASSUME FiniteInv, CallsFit, MonitorFits, NEW c \in Clients, ClientStep(c)
    PROVE  CallsFit' /\ MonitorFits'
<1>1. ASSUME NEW m \in Monitors, Spawn(c, m)
      PROVE  CallsFit' /\ MonitorFits'
  <2>1. pc[c] = "spawn" /\ listeners = {c} /\ AllDead
    BY <1>1 DEF Spawn, CallsFit
  <2>2. /\ mon' = [mon EXCEPT ![m] = "start"] /\ devmon' = m
        /\ pc' = [pc EXCEPT ![c] = "idle"] /\ listeners' = listeners
    BY <1>1 DEF Spawn, Goto
  <2>3. (\A d \in Clients : pc'[d] = "idle") /\ ~BetweenSections'
    BY <2>1, <2>2, CallIsAlone
  <2>4. CallsFit'
    BY <2>3 DEF CallsFit
  <2>5. mon'[m] = "start" /\ \A n \in Monitors : n # m => mon'[n] = "dead"
    BY <2>1, <2>2 DEF FiniteInv, TypeOK, AllDead
  <2>6. MonitorFits'
    BY <2>1, <2>2, <2>3, <2>5 DEF MonitorFits, Alive
  <2> QED
    BY <2>4, <2>6
<1>2. CASE Shutdown(c)
  <2>1. /\ pc[c] = "stop" /\ pc' = [pc EXCEPT ![c] = "flag"]
        /\ UNCHANGED <<listeners, devmon, running, joining, mon, lingers>>
    BY <1>2 DEF Shutdown, globals, threads
  <2>2. pc'[c] = "flag" /\ BetweenSections' /\ \A d \in Clients : d # c => pc'[d] = "idle"
    BY <2>1, CallIsAlone DEF Calls
  <2> QED
    BY <2>1, <2>2 DEF CallsFit, MonitorFits
<1>3. CASE Flag(c)
  <2>1. /\ pc[c] = "flag" /\ listeners = {}
        /\ UNCHANGED <<listeners, devmon, mon, lingers>>
    BY <1>3 DEF Flag, globals, threads, CallsFit
  <2>2. CASE ThreadAlive(devmon)
    <3>1. pc' = [pc EXCEPT ![c] = "join"] /\ joining' = [joining EXCEPT ![c] = devmon]
      BY <1>3, <2>2 DEF Flag
    <3>2. pc'[c] = "join" /\ BetweenSections' /\ \A d \in Clients : d # c => pc'[d] = "idle"
      BY <2>1, <3>1, CallIsAlone DEF Calls
    <3>3. joining'[c] = devmon
      BY <3>1 DEF FiniteInv, TypeOK
    <3> QED
      BY <2>1, <3>2, <3>3 DEF CallsFit, MonitorFits
  <2>3. CASE ~ThreadAlive(devmon)
    <3>1. pc' = [pc EXCEPT ![c] = "idle"]
      BY <1>3, <2>3 DEF Flag
    <3>2. (\A d \in Clients : pc'[d] = "idle") /\ ~BetweenSections'
      BY <2>1, <3>1, CallIsAlone
    <3>3. AllDead /\ (devmon # NoMonitor => ~lingers)
      <4>1. \A m \in Monitors : mon[m] \in Alive => ThreadAlive(devmon)
        BY MonitorAssumption DEF ThreadAlive, MonitorFits
      <4>2. AllDead
        BY <2>3, <4>1 DEF AllDead, FiniteInv, TypeOK
      <4> QED
        BY <2>3, <4>2 DEF ThreadAlive
    <3> QED
      BY <2>1, <3>2, <3>3 DEF CallsFit, MonitorFits, AllDead
  <2> QED
    BY <2>2, <2>3
<1>4. CASE Join(c)
  <2>1. /\ pc[c] = "join" /\ listeners = {} /\ joining[c] = devmon
        /\ mon[joining[c]] = "dead" /\ devmon' = NoMonitor
        /\ pc' = [pc EXCEPT ![c] = "idle"]
        /\ UNCHANGED <<listeners, mon, lingers>>
    BY <1>4 DEF Join, CallsFit, threads
  <2>2. (\A d \in Clients : pc'[d] = "idle") /\ ~BetweenSections'
    BY <2>1, CallIsAlone
  <2>3. AllDead
    BY <2>1 DEF AllDead, MonitorFits, Alive, FiniteInv, TypeOK
  <2> QED
    BY <2>1, <2>2, <2>3 DEF CallsFit, MonitorFits, AllDead, Alive
<1> QED
  BY <1>1, <1>2, <1>3, <1>4 DEF ClientStep

LEMMA MonitorStepFits ==
    ASSUME FiniteInv, CallsFit, MonitorFits, NEW m \in Monitors, MonitorStep(m)
    PROVE  CallsFit' /\ MonitorFits'
<1>1. PICK p \in Alive \cup {"dead"} : Goto(m, p)
  BY MonitorMoves
<1>2. /\ UNCHANGED <<listeners, devmon, pc, joining, lingers>>
      /\ mon[m] \in Alive /\ m = devmon /\ ~AllDead
  BY MonitorMoves DEF MonitorFits, AllDead, Alive
<1>3. mon'[m] = p /\ \A n \in Monitors : n # m => mon'[n] = mon[n]
  BY <1>1 DEF Goto, FiniteInv, TypeOK
<1>4. CallsFit'
  BY <1>2 DEF CallsFit
<1>5. BetweenSections' = BetweenSections
  BY <1>2 DEF BetweenSections
<1>6. ASSUME ~BetweenSections
      PROVE  /\ listeners # {} /\ p \in Alive \ {"cleanup"}
             /\ running'
  <2>1. /\ listeners # {} /\ mon[m] # "cleanup"
        /\ running \/ mon[m] = "start"
    BY <1>2, <1>6 DEF MonitorFits
  <2>2. p # "dead" /\ running'
    BY <1>3, <2>1, MonitorMoves
  <2>3. p # "cleanup"
    BY <1>3, <2>1, MonitorMoves
  <2> QED
    BY <2>1, <2>2, <2>3
<1> QED
  BY <1>2, <1>3, <1>4, <1>5, <1>6 DEF MonitorFits

-----------------------------------------------------------------------------
(* What the monitor knows where *)

\* The parts of PlacesFit that are about one monitor.
PlaceFits(m) ==
    /\ mon[m] \in {"start", "listen", "greet", "assign"} => devices = {}
    /\ mon[m] \in {"check", "again"} /\ running => devices = {}
    /\ mon[m] \in {"loop", "recv", "tell", "forget", "drain"} => listenfd = m
    /\ mon[m] = "drain" => conn[m] # "listening"
    /\ mon[m] \in {"tell", "forget"} /\ event[m][1] = "lost" => conn[m] # "listening"
    /\ mon[m] = "forget" => event[m][1] # "add"
    /\ mon[m] = "tell" => event[m][2] \in devices

LEMMA PlacesByMonitor ==
    PlacesFit <=> (AllDead => devices = {}) /\ \A m \in Monitors : PlaceFits(m)
BY DEF PlacesFit, PlaceFits

LEMMA PlacesByMonitorNext ==
    PlacesFit' <=> (AllDead' => devices' = {}) /\ \A m \in Monitors : PlaceFits(m)'
BY DEF PlacesFit, PlaceFits

LEMMA DeadFits ==
    ASSUME NEW m \in Monitors
    PROVE  mon[m] = "dead" => PlaceFits(m)
BY DEF PlaceFits

LEMMA DeadFitsNext ==
    ASSUME NEW m \in Monitors
    PROVE  mon'[m] = "dead" => PlaceFits(m)'
BY DEF PlaceFits

\* The application does not move a monitor that is there.
LEMMA ClientPlaces ==
    ASSUME FiniteInv, CallsFit, PlacesFit, NEW c \in Clients,
           Subscribe(c) \/ Unsubscribe(c) \/ ClientStep(c)
    PROVE  PlacesFit'
<1>1. ASSUME NEW m \in Monitors, Spawn(c, m)
      PROVE  PlacesFit'
  <2>1. AllDead /\ devices = {} /\ devices' = {}
    BY <1>1 DEF Spawn, CallsFit, PlacesFit
  <2>2. mon'[m] = "start" /\ \A n \in Monitors : n # m => mon'[n] = "dead"
    BY <1>1, <2>1 DEF Spawn, Goto, FiniteInv, TypeOK, AllDead
  <2>3. PlaceFits(m)'
    BY <2>1, <2>2 DEF PlaceFits
  <2> QED
    BY <2>1, <2>2, <2>3, DeadFitsNext, PlacesByMonitorNext
<1>2. CASE Shutdown(c)
  <2>1. UNCHANGED <<devices, mon, event, running, listenfd>>
    BY <1>2 DEF Shutdown, globals, threads
  <2>2. \A m \in Monitors : conn'[m] = conn[m] \/ conn'[m] = "shut"
    BY <1>2 DEF Shutdown, FiniteInv, TypeOK
  <2> QED
    BY <2>1, <2>2 DEF PlacesFit, AllDead
<1>3. CASE Flag(c)
  <2>1. UNCHANGED <<devices, mon, event, conn, listenfd>> /\ (running' => running)
    BY <1>3 DEF Flag, threads, daemon
  <2> QED
    BY <2>1 DEF PlacesFit, AllDead
<1>4. CASE Subscribe(c) \/ Unsubscribe(c) \/ Join(c)
  <2>1. UNCHANGED <<devices, mon, event, conn, listenfd, running>>
    BY <1>4 DEF Subscribe, Unsubscribe, Join, threads, daemon
  <2> QED
    BY <2>1 DEF PlacesFit, AllDead
<1> QED
  BY <1>1, <1>2, <1>3, <1>4 DEF ClientStep

LEMMA MonitorPlace ==
    ASSUME FiniteInv, PlacesFit, NEW m \in Monitors, MonitorStep(m)
    PROVE  PlaceFits(m)'
<1>1. PlaceFits(m)
  BY PlacesByMonitor
<1> USE DEF FiniteInv, TypeOK, Goto, globals, clients, daemon, history
<1>2. CASE Start(m)
  BY <1>1, <1>2 DEF Start, PlaceFits
<1>3. CASE Dial(m)
  <2>1. mon'[m] = "greet" \/ mon'[m] = "again"
    BY <1>3 DEF Dial
  <2>2. devices' = {}
    BY <1>1, <1>3 DEF Dial, PlaceFits
  <2> QED
    BY <2>1, <2>2 DEF PlaceFits
<1>4. CASE Greet(m)
  <2>1. mon'[m] = "assign" \/ mon'[m] = "again"
    BY <1>4 DEF Greet
  <2>2. devices' = {}
    BY <1>1, <1>4 DEF Greet, PlaceFits
  <2> QED
    BY <2>1, <2>2 DEF PlaceFits
<1>5. CASE Assign(m)
  BY <1>1, <1>5 DEF Assign, PlaceFits
<1>6. CASE Loop(m)
  <2>1. UNCHANGED <<devices, listenfd, running>> /\ listenfd = m
    BY <1>1, <1>6 DEF Loop, PlaceFits
  <2>2. CASE running /\ mon'[m] = "recv"
    BY <2>1, <2>2 DEF PlaceFits
  <2>3. CASE ~running /\ mon'[m] = "check"
    BY <2>1, <2>3 DEF PlaceFits
  <2> QED
    BY <1>6, <2>2, <2>3 DEF Loop
<1>7. ASSUME NEW fd \in Monitors, Receive(m, fd)
      PROVE  PlaceFits(m)'
  <2> DEFINE kind == Head(queue[fd])[1]
             d    == Head(queue[fd])[2]
  <2>1. listenfd' = m
    BY <1>1, <1>7 DEF Receive, PlaceFits
  <2>2. CASE kind = "Attached"
    <3>1. devices' = devices \cup {d} /\ mon'[m] = "tell" /\ event'[m] = <<"add", d>>
      BY <1>7, <2>2 DEF Receive
    <3> HIDE DEF d
    <3> QED
      BY <2>1, <3>1 DEF PlaceFits
  <2>3. CASE kind = "Detached" /\ d \in devices
    <3>1. mon'[m] = "tell" /\ event'[m] = <<"remove", d>> /\ devices' = devices
      BY <1>7, <2>3 DEF Receive
    <3> HIDE DEF d
    <3> QED
      BY <2>1, <2>3, <3>1 DEF PlaceFits
  <2>4. CASE kind # "Attached" /\ ~(kind = "Detached" /\ d \in devices)
    <3>1. mon'[m] = "loop"
      BY <1>7, <2>4 DEF Receive
    <3> QED
      BY <2>1, <3>1 DEF PlaceFits
  <2> QED
    BY <2>2, <2>3, <2>4
<1>8. CASE ReceiveFails(m)
  <2>1. listenfd = m /\ listenfd' = m /\ mon'[m] = "drain" /\ conn' = conn
    BY <1>1, <1>8 DEF ReceiveFails, PlaceFits
  <2>2. conn[m] # "listening"
    BY <1>8, <2>1, MonitorAssumption DEF ReceiveFails, ConnectionOver
  <2> QED
    BY <2>1, <2>2 DEF PlaceFits
<1>9. CASE Drain(m)
  <2>1. listenfd' = m /\ conn'[m] # "listening" /\ devices' = devices
    BY <1>1, <1>9 DEF Drain, PlaceFits
  <2>2. CASE devices = {}
    BY <1>9, <2>1, <2>2 DEF Drain, PlaceFits
  <2>3. CASE devices # {}
    <3>1. PICK d \in devices : mon'[m] = "tell" /\ event'[m] = <<"lost", d>>
      BY <1>9, <2>3 DEF Drain
    <3> QED
      BY <2>1, <3>1 DEF PlaceFits
  <2> QED
    BY <2>2, <2>3
<1>10. CASE Tell(m)
  <2>1. listenfd' = m /\ conn' = conn
    BY <1>1, <1>10 DEF Tell, PlaceFits
  <2>2. CASE event[m][1] = "add"
    <3>1. mon'[m] = "loop"
      BY <1>10, <2>2 DEF Tell
    <3> QED
      BY <2>1, <3>1 DEF PlaceFits
  <2>3. CASE event[m][1] # "add"
    <3>1. mon'[m] = "forget" /\ event' = event
      BY <1>10, <2>3 DEF Tell
    <3>2. event[m][1] = "lost" => conn[m] # "listening"
      BY <1>1, <1>10 DEF Tell, PlaceFits
    <3> QED
      BY <2>1, <2>3, <3>1, <3>2 DEF PlaceFits
  <2> QED
    BY <2>2, <2>3
<1>11. CASE Forget(m)
  <2>1. listenfd' = m /\ conn' = conn
    BY <1>1, <1>11 DEF Forget, PlaceFits
  <2>2. event[m][1] = "lost" => conn[m] # "listening"
    BY <1>1, <1>11 DEF Forget, PlaceFits
  <2> QED
    BY <1>11, <2>1, <2>2 DEF Forget, PlaceFits
<1>12. CASE Check(m)
  BY <1>1, <1>12 DEF Check, PlaceFits
<1>13. CASE Again(m)
  BY <1>1, <1>13 DEF Again, PlaceFits
<1>14. CASE Cleanup(m)
  BY <1>14 DEF Cleanup, PlaceFits
<1> QED
  BY <1>2, <1>3, <1>4, <1>5, <1>6, <1>7, <1>8, <1>9, <1>10, <1>11, <1>12,
     <1>13,
     <1>14 DEF MonitorStep

LEMMA MonitorPlaces ==
    ASSUME FiniteInv, MonitorFits, PlacesFit, NEW m \in Monitors, MonitorStep(m)
    PROVE  PlacesFit'
<1>1. PICK p \in Alive \cup {"dead"} : Goto(m, p)
  BY MonitorMoves
<1>2. mon'[m] = p /\ \A n \in Monitors : n # m => mon'[n] = "dead"
  BY <1>1, OthersAreDead DEF Goto, FiniteInv, TypeOK
<1>3. AllDead' => devices' = {}
  <2>1. SUFFICES ASSUME mon'[m] = "dead"
                 PROVE  devices' = {}
    BY DEF AllDead
  <2>2. mon[m] = "cleanup"
    BY <2>1, MonitorMoves
  <2>3. Cleanup(m)
    BY <2>2 DEF MonitorStep, Start, Dial, Greet, Assign, Loop, Receive,
       ReceiveFails,
                Drain, Tell, Forget, Check, Again
  <2> QED
    BY <2>3 DEF Cleanup
<1> QED
  BY <1>2, <1>3, MonitorPlace, DeadFitsNext, PlacesByMonitorNext

LEMMA WorldPlaces ==
    ASSUME FiniteInv, PlacesFit,
           (\E d \in Devices : Attach(d) \/ Detach(d)) \/ Stop \/ Restart
    PROVE  PlacesFit'
<1>1. UNCHANGED <<devices, mon, event, running, listenfd>>
  BY DEF Attach, Detach, Stop, Restart, globals, threads
<1>2. \A m \in Monitors : conn'[m] = conn[m] \/ conn'[m] = "lost"
  BY DEF Attach, Detach, Stop, Restart, FiniteInv, TypeOK
<1> QED
  BY <1>1, <1>2 DEF PlacesFit, AllDead

-----------------------------------------------------------------------------
(* What a subscriber knows *)

\* The parts of KnownFits: of a client, and of a client and the monitor.
KnowsNoGhost(c) ==
    c \notin raced => known[c] \subseteq (IF c \in listeners THEN devices ELSE {})
KnowsList(c, m) ==
    mon[m] \in Alive /\ c \in listeners =>
        /\ devices \ InHand(m) \subseteq known[c]
        /\ c \notin raced /\ mon[m] = "forget" => event[m][2] \notin known[c]

LEMMA KnownByClient ==
    KnownFits <=> \A c \in Clients :
                      KnowsNoGhost(c) /\ \A m \in Monitors : KnowsList(c, m)
BY DEF KnownFits, KnowsNoGhost, KnowsList

LEMMA KnownByClientNext ==
    KnownFits' <=> \A c \in Clients :
                       KnowsNoGhost(c)' /\ \A m \in Monitors : KnowsList(c, m)'
BY DEF KnownFits, KnowsNoGhost, KnowsList, InHand

LEMMA KnownFrame ==
    ASSUME KnownFits, UNCHANGED <<listeners, devices, known, raced, mon,
    event>>
    PROVE  KnownFits'
BY DEF KnownFits, InHand

LEMMA SubscribeKnown ==
    ASSUME ~Overlap, FiniteInv, CallsFit, MonitorFits, KnownFits,
           NEW c \in Clients, Subscribe(c)
    PROVE  KnownFits'
<1> SUFFICES ASSUME NEW b \in Clients
             PROVE  KnowsNoGhost(b)' /\ \A m \in Monitors : KnowsList(b, m)'
  BY KnownByClientNext
<1>1. ~BetweenSections /\ c \notin listeners /\ listeners' = listeners \cup {c}
  BY DEF Subscribe, MaySubscribe
<1>2. UNCHANGED <<devices, mon, event>>
  BY DEF Subscribe, threads
<1>3. KnowsNoGhost(b) /\ \A m \in Monitors : KnowsList(b, m)
  BY KnownByClient
<1>4. CASE ThreadAlive(devmon)
  <2>1. /\ known' = [known EXCEPT ![c] = @ \cup devices]
        /\ raced' = IF \E m \in Monitors : mon[m] = "forget"
                      THEN raced \cup {c} ELSE raced
    BY <1>4 DEF Subscribe
  <2>2. CASE b = c
    <3>1. known'[c] = known[c] \cup devices
      BY <2>1 DEF FiniteInv, TypeOK
    <3>2. c \notin raced' => c \notin raced /\ \A m \in Monitors : mon[m] # "forget"
      BY <2>1
    <3>3. KnowsNoGhost(c)'
      BY <1>1, <1>2, <1>3, <2>2, <3>1, <3>2 DEF KnowsNoGhost
    <3>4. \A m \in Monitors : KnowsList(c, m)'
      BY <1>2, <3>1, <3>2 DEF KnowsList
    <3> QED
      BY <2>2, <3>3, <3>4
  <2>3. CASE b # c
    <3>1. known'[b] = known[b] /\ (b \in raced' <=> b \in raced)
      BY <2>1, <2>3 DEF FiniteInv, TypeOK
    <3> QED
      BY <1>1, <1>2, <1>3, <2>3, <3>1 DEF KnowsNoGhost, KnowsList, InHand
  <2> QED
    BY <2>2, <2>3
<1>5. CASE ~ThreadAlive(devmon)
  <2>1. known' = known /\ raced' = raced
    BY <1>5 DEF Subscribe
  <2>2. listeners = {} /\ \A m \in Monitors : mon'[m] \notin Alive
    BY <1>1, <1>2, <1>5, SubscriberFinds DEF AllDead, Alive
  <2>3. KnowsNoGhost(b)'
    BY <1>1, <1>2, <1>3, <2>1, <2>2 DEF KnowsNoGhost
  <2>4. \A m \in Monitors : KnowsList(b, m)'
    BY <2>2 DEF KnowsList
  <2> QED
    BY <2>3, <2>4
<1> QED
  BY <1>4, <1>5

LEMMA UnsubscribeKnown ==
    ASSUME FiniteInv, KnownFits, NEW c \in Clients, Unsubscribe(c)
    PROVE  KnownFits'
<1> SUFFICES ASSUME NEW b \in Clients
             PROVE  KnowsNoGhost(b)' /\ \A m \in Monitors : KnowsList(b, m)'
  BY KnownByClientNext
<1>1. /\ UNCHANGED <<devices, mon, event, raced>>
      /\ c \in listeners /\ listeners' = listeners \ {c}
      /\ known' = [known EXCEPT ![c] = @ \ devices]
  BY DEF Unsubscribe, threads, history
<1>2. KnowsNoGhost(b) /\ \A m \in Monitors : KnowsList(b, m)
  BY KnownByClient
<1>3. CASE b = c
  <2>1. known'[c] = known[c] \ devices
    BY <1>1 DEF FiniteInv, TypeOK
  <2> QED
    BY <1>1, <1>2, <1>3, <2>1 DEF KnowsNoGhost, KnowsList
<1>4. CASE b # c
  <2>1. known'[b] = known[b]
    BY <1>1, <1>4 DEF FiniteInv, TypeOK
  <2> QED
    BY <1>1, <1>2, <1>4, <2>1 DEF KnowsNoGhost, KnowsList, InHand
<1> QED
  BY <1>3, <1>4

LEMMA ClientKnown ==
    ASSUME FiniteInv, CallsFit, PlacesFit, KnownFits, NEW c \in Clients, ClientStep(c)
    PROVE  KnownFits'
<1>1. ASSUME NEW m \in Monitors, Spawn(c, m)
      PROVE  KnownFits'
  <2>1. AllDead /\ devices = {} /\ UNCHANGED <<listeners, devices, known, raced, event>>
    BY <1>1 DEF Spawn, CallsFit, PlacesFit, history
  <2>2. \A b \in Clients : KnowsNoGhost(b)'
    BY <2>1, KnownByClient DEF KnowsNoGhost
  <2>3. mon'[m] = "start" /\ \A n \in Monitors : n # m => mon'[n] = "dead"
    BY <1>1, <2>1 DEF Spawn, Goto, FiniteInv, TypeOK, AllDead
  <2>4. \A b \in Clients, n \in Monitors : KnowsList(b, n)'
    BY <2>1, <2>3 DEF KnowsList, Alive
  <2> QED
    BY <2>2, <2>4, KnownByClientNext
<1>2. CASE Shutdown(c) \/ Flag(c) \/ Join(c)
  BY <1>2, KnownFrame DEF Shutdown, Flag, Join, globals, threads, history
<1> QED
  BY <1>1, <1>2 DEF ClientStep

LEMMA MonitorKnown ==
    ASSUME FiniteInv, CallsFit, MonitorFits, PlacesFit, KnownFits,
           NEW m \in Monitors, MonitorStep(m)
    PROVE  KnownFits'
<1>1. UNCHANGED <<listeners, raced>> /\ mon[m] \in Alive
  BY MonitorMoves
<1>2. \A n \in Monitors : n # m => mon'[n] = "dead"
  BY OthersAreDead
<1> SUFFICES ASSUME NEW c \in Clients
             PROVE  KnowsNoGhost(c)' /\ KnowsList(c, m)'
  <2>1. \A c \in Clients, n \in Monitors : n # m => KnowsList(c, n)'
    BY <1>2 DEF KnowsList, Alive
  <2> QED
    BY <2>1, KnownByClientNext
<1>3. KnowsNoGhost(c) /\ KnowsList(c, m) /\ PlaceFits(m)
  BY KnownByClient, PlacesByMonitor
<1> USE DEF FiniteInv, TypeOK, Goto
\* The list and what is known stay, and there was and is no event in hand.
<1>4. ASSUME UNCHANGED <<devices, known>>, InHand(m) = {}, mon'[m] # "forget"
      PROVE  KnowsNoGhost(c)' /\ KnowsList(c, m)'
  BY <1>1, <1>3, <1>4 DEF KnowsNoGhost, KnowsList
<1>5. CASE Start(m)
  <2>1. devices = {} /\ devices' = {} /\ known' = known /\ mon'[m] = "listen"
    BY <1>3, <1>5 DEF Start, PlaceFits
  <2> QED
    BY <1>1, <1>3, <2>1 DEF KnowsNoGhost, KnowsList
<1>6. CASE Dial(m) \/ Greet(m) \/ Assign(m) \/ Loop(m) \/ ReceiveFails(m) \/ Check(m)
           \/ Again(m)
  <2>1. UNCHANGED <<devices, known>> /\ mon[m] \notin {"tell", "forget"}
    BY <1>6 DEF Dial, Greet, Assign, Loop, ReceiveFails, Check, Again, globals
  <2>2. mon'[m] # "forget"
    BY <1>6 DEF Dial, Greet, Assign, Loop, ReceiveFails, Check, Again
  <2> QED
    BY <1>4, <2>1, <2>2 DEF InHand
<1>7. ASSUME NEW fd \in Monitors, Receive(m, fd)
      PROVE  KnowsNoGhost(c)' /\ KnowsList(c, m)'
  <2> DEFINE kind == Head(queue[fd])[1]
             d    == Head(queue[fd])[2]
  <2>1. known' = known /\ InHand(m) = {}
    BY <1>7 DEF Receive, InHand
  <2>2. CASE kind = "Attached"
    <3>1. devices' = devices \cup {d} /\ mon'[m] = "tell" /\ event'[m] = <<"add", d>>
      BY <1>7, <2>2 DEF Receive
    <3> HIDE DEF d
    <3>2. InHand(m)' = {d}
      BY <3>1 DEF InHand
    <3> QED
      BY <1>1, <1>3, <2>1, <3>1, <3>2 DEF KnowsNoGhost, KnowsList
  <2>3. CASE kind # "Attached"
    <3>1. devices' = devices /\ mon'[m] # "forget"
      BY <1>7, <2>3 DEF Receive
    <3> QED
      BY <1>4, <2>1, <3>1
  <2> QED
    BY <2>2, <2>3
<1>8. CASE Drain(m)
  <2>1. UNCHANGED <<devices, known>> /\ InHand(m) = {}
    BY <1>8 DEF Drain, globals, InHand
  <2>2. mon'[m] # "forget"
    BY <1>8 DEF Drain
  <2> QED
    BY <1>4, <2>1, <2>2
<1>9. CASE Tell(m)
  <2>1. devices' = devices /\ InHand(m) = {event[m][2]}
    BY <1>9 DEF Tell, globals, InHand
  <2>2. CASE event[m][1] = "add"
    <3>1. mon'[m] = "loop" /\ event[m][2] \in devices
      BY <1>3, <1>9, <2>2 DEF Tell, PlaceFits
    <3>2. known'[c] = IF c \in listeners THEN known[c] \cup {event[m][2]} ELSE known[c]
      BY <1>9, <2>2 DEF Tell
    <3> QED
      BY <1>1, <1>3, <2>1, <3>1, <3>2 DEF KnowsNoGhost, KnowsList
  <2>3. CASE event[m][1] # "add"
    <3>1. mon'[m] = "forget" /\ event' = event
      BY <1>9, <2>3 DEF Tell
    <3>2. known'[c] = IF c \in listeners THEN known[c] \ {event[m][2]} ELSE known[c]
      BY <1>9, <2>3 DEF Tell
    <3>3. InHand(m)' = {event[m][2]}
      BY <3>1 DEF InHand
    <3> QED
      BY <1>1, <1>3, <2>1, <3>1, <3>2, <3>3 DEF KnowsNoGhost, KnowsList
  <2> QED
    BY <2>2, <2>3
<1>10. CASE Forget(m)
  <2>1. /\ devices' = devices \ {event[m][2]} /\ known' = known
        /\ InHand(m) = {event[m][2]} /\ mon[m] = "forget"
    BY <1>10 DEF Forget, InHand
  <2>2. mon'[m] # "forget"
    BY <1>10 DEF Forget
  <2> QED
    BY <1>1, <1>3, <2>1, <2>2 DEF KnowsNoGhost, KnowsList
<1>11. CASE Cleanup(m)
  <2>1. listeners = {} /\ known' = known
    BY <1>11, CleanupIsAsked DEF Cleanup
  <2> QED
    BY <1>1, <1>3, <2>1 DEF KnowsNoGhost, KnowsList
<1> QED
  BY <1>5, <1>6, <1>7, <1>8, <1>9, <1>10, <1>11 DEF MonitorStep

LEMMA WorldKnown ==
    ASSUME KnownFits,
           (\E d \in Devices : Attach(d) \/ Detach(d)) \/ Stop \/ Restart
    PROVE  KnownFits'
BY KnownFrame DEF Attach, Detach, Stop, Restart, globals, threads, history

-----------------------------------------------------------------------------
(* What is on the connection *)

\* A listing of what is attached mentions every device of it.
LEMMA ListingIsOnto ==
    ASSUME NEW S \in SUBSET Devices, IsFiniteSet(S), NEW s \in Listings(S), NEW d \in S
    PROVE  \E i \in 1..Cardinality(S) : s[i] = <<"Attached", d>>
<1> DEFINE n == Cardinality(S)
           f == [i \in 1..n |-> s[i][2]]
<1>1. n \in Nat
  BY FS_CardinalityType
<1>2. \A i \in 1..n : s[i] \in {"Attached"} \X S
  BY DEF Listings
<1>3. \A i \in 1..n : s[i] = <<"Attached", f[i]>> /\ f[i] \in S
  BY <1>2
<1>4. f \in [1..n -> S]
  BY <1>3
<1>5. \A i, j \in 1..n : f[i] = f[j] => i = j
  BY <1>3 DEF Listings
<1>6. f \in Injection(1..n, S)
  BY <1>4, <1>5 DEF Injection, IsInjective
<1>7. Cardinality(1..n) = n
  BY <1>1, FS_Interval
<1>8. f \in Surjection(1..n, S)
  BY <1>6, <1>7, FS_Injection
<1>9. PICK i \in 1..n : f[i] = d
  BY <1>8 DEF Surjection
<1> QED
  BY <1>3, <1>9

LEMMA ListingFits ==
    ASSUME NEW S \in SUBSET Devices, IsFiniteSet(S), NEW s \in Listings(S),
           NEW d \in Devices
    PROVE  LastWord(s, S, {}, d)
<1>1. Len(s) = Cardinality(S)
  BY ListingsType
<1>2. \A i \in 1..Len(s) : s[i] \in {"Attached"} \X S
  BY <1>1 DEF Listings
<1>3. CASE d \in S
  <2>1. PICK i \in 1..Len(s) : s[i] = <<"Attached", d>>
    BY <1>1, <1>3, ListingIsOnto
  <2>2. \A j \in 1..Len(s) : s[j][2] = d => s[j] = s[i]
    BY <1>2, <2>1
  <2>3. \A j \in 1..Len(s) : s[j] = s[i] => j = i
    BY <1>1, <2>1 DEF Listings
  <2>4. Len(s) \in Nat
    BY <1>1, FS_CardinalityType
  <2>5. \A j \in 1..Len(s) : j > i => s[j][2] # d
    BY <2>2, <2>3, <2>4
  <2>6. s[i] = Word(S, d)
    BY <1>3, <2>1 DEF Word
  <2> QED
    BY <2>5, <2>6 DEF LastWord
<1>4. CASE d \notin S
  <2>1. \A i \in 1..Len(s) : s[i][2] # d
    BY <1>2, <1>4
  <2> QED
    BY <1>4, <2>1 DEF LastWord
<1> QED
  BY <1>3, <1>4

\* The list after a message has been taken off.
After(list, e) == IF e[1] = "Attached" THEN list \cup {e[2]} ELSE list \ {e[2]}

LEMMA ReadingFits ==
    ASSUME NEW q \in Seq(Messages), q # <<>>, NEW seen, NEW list, NEW d \in Devices,
           LastWord(q, seen, list, d)
    PROVE  LastWord(Tail(q), seen, After(list, Head(q)), d)
<1> DEFINE t == Tail(q)
<1>1. /\ Len(q) \in Nat \ {0} /\ Len(t) = Len(q) - 1 /\ Head(q) = q[1]
      /\ \A i \in 1..Len(t) : t[i] = q[i + 1]
  BY HeadTailProperties
<1>2. \A i \in 1..Len(t) : i + 1 \in 1..Len(q)
  BY <1>1
<1>3. q[1] \in Messages
  BY <1>1
<1> HIDE DEF t
<1>4. CASE \A i \in 1..Len(q) : q[i][2] # d
  <2>1. (d \in seen <=> d \in list) /\ Head(q)[2] # d
    BY <1>1, <1>4 DEF LastWord, Word
  <2>2. \A i \in 1..Len(t) : t[i][2] # d
    BY <1>1, <1>2, <1>4
  <2>3. d \in After(list, Head(q)) <=> d \in list
    BY <2>1 DEF After
  <2> QED
    BY <2>1, <2>2, <2>3 DEF LastWord, t
<1>5. ASSUME NEW i \in 1..Len(q), q[i] = Word(seen, d),
             \A j \in 1..Len(q) : j > i => q[j][2] # d
      PROVE  LastWord(t, seen, After(list, Head(q)), d)
  <2>1. CASE i = 1
    <3>1. \A k \in 1..Len(t) : t[k][2] # d
      BY <1>1, <1>2, <1>5, <2>1
    <3>2. d \in seen <=> d \in After(list, Head(q))
      BY <1>1, <1>5, <2>1 DEF After, Word
    <3> QED
      BY <3>1, <3>2 DEF LastWord
  <2>2. CASE i # 1
    <3>1. i - 1 \in 1..Len(t) /\ t[i - 1] = Word(seen, d)
      BY <1>1, <1>5, <2>2
    <3>2. \A k \in 1..Len(t) : k > i - 1 => t[k][2] # d
      BY <1>1, <1>2, <1>5
    <3> QED
      BY <3>1, <3>2 DEF LastWord
  <2> QED
    BY <2>1, <2>2
<1> QED
  BY <1>4, <1>5 DEF LastWord, t

LEMMA ReportFits ==
    ASSUME NEW q \in Seq(Messages), NEW seen, NEW now, NEW list,
           NEW d \in Devices, NEW e \in Devices,
           d # e => (d \in now <=> d \in seen),
           LastWord(q, seen, list, d)
    PROVE  LastWord(Append(q, Word(now, e)), now, list, d)
<1> DEFINE a == Append(q, Word(now, e))
<1>1. Word(now, e) \in Messages /\ Word(now, e)[2] = e
  BY DEF Word, Messages
<1>2. /\ Len(q) \in Nat /\ Len(a) = Len(q) + 1 /\ a[Len(q) + 1] = Word(now, e)
      /\ \A i \in 1..Len(q) : a[i] = q[i]
  BY <1>1, AppendProperties
<1> HIDE DEF a
<1>3. \A i \in 1..Len(a) : i \in 1..Len(q) \/ i = Len(q) + 1
  BY <1>2
<1>4. CASE d = e
  <2>1. Len(a) \in 1..Len(a) /\ a[Len(a)] = Word(now, d)
    BY <1>2, <1>4
  <2>2. \A j \in 1..Len(a) : ~(j > Len(a))
    BY <1>2
  <2> QED
    BY <2>1, <2>2 DEF LastWord, a
<1>5. CASE d # e
  <2>1. Word(now, d) = Word(seen, d)
    BY <1>5 DEF Word
  <2>2. CASE \A i \in 1..Len(q) : q[i][2] # d
    <3>1. d \in now <=> d \in list
      BY <1>5, <2>2 DEF LastWord, Word
    <3>2. \A i \in 1..Len(a) : a[i][2] # d
      BY <1>1, <1>2, <1>3, <1>5, <2>2
    <3> QED
      BY <3>1, <3>2 DEF LastWord, a
  <2>3. ASSUME NEW i \in 1..Len(q), q[i] = Word(seen, d),
               \A j \in 1..Len(q) : j > i => q[j][2] # d
        PROVE  LastWord(a, now, list, d)
    <3>1. i \in 1..Len(a) /\ a[i] = Word(now, d)
      BY <1>2, <2>1, <2>3
    <3>2. \A j \in 1..Len(a) : j > i => a[j][2] # d
      BY <1>1, <1>2, <1>3, <1>5, <2>3
    <3> QED
      BY <3>1, <3>2 DEF LastWord
  <2> QED
    BY <2>2, <2>3 DEF LastWord, a
<1> QED
  BY <1>4, <1>5

QueueFitsOf(m) ==
    mon[m] \in Reading /\ conn[m] = "listening" =>
        \A d \in Devices : LastWord(queue[m], attached, Listed(m), d)

LEMMA QueueByMonitorNext == QueueFits' <=> \A m \in Monitors : QueueFitsOf(m)'
BY DEF QueueFits, QueueFitsOf, Listed

LEMMA QueueFrame ==
    ASSUME QueueFits, UNCHANGED <<mon, queue, attached, devices, event>>,
           \A m \in Monitors : conn'[m] = "listening" => conn[m] = "listening"
    PROVE  QueueFits'
BY DEF QueueFits, Listed

LEMMA ClientQueue ==
    ASSUME FiniteInv, CallsFit, QueueFits, NEW c \in Clients,
           Subscribe(c) \/ Unsubscribe(c) \/ ClientStep(c)
    PROVE  QueueFits'
<1>1. ASSUME NEW m \in Monitors, Spawn(c, m)
      PROVE  QueueFits'
  <2>1. AllDead
    BY <1>1 DEF Spawn, CallsFit
  <2>2. \A n \in Monitors : mon'[n] \in {"start", "dead"}
    BY <1>1, <2>1 DEF Spawn, Goto, FiniteInv, TypeOK, AllDead
  <2> QED
    BY <2>2 DEF QueueFits, Reading
<1>2. CASE Shutdown(c)
  <2>1. \A m \in Monitors : conn'[m] = conn[m] \/ conn'[m] = "shut"
    BY <1>2 DEF Shutdown, FiniteInv, TypeOK
  <2> QED
    BY <1>2, <2>1, QueueFrame DEF Shutdown, globals, threads
<1>3. CASE Subscribe(c) \/ Unsubscribe(c) \/ Flag(c) \/ Join(c)
  BY <1>3, QueueFrame DEF Subscribe, Unsubscribe, Flag, Join, threads, daemon
<1> QED
  BY <1>1, <1>2, <1>3 DEF ClientStep

\* What the list will be is the list after the message that is read.
LEMMA ReceivedIsListed ==
    ASSUME FiniteInv, NEW m \in Monitors, Receive(m, m)
    PROVE  Listed(m)' = After(devices, Head(queue[m]))
<1> USE DEF FiniteInv, TypeOK, Goto
<1> DEFINE q    == queue[m]
           kind == Head(q)[1]
           d    == Head(q)[2]
<1>1. q \in Seq(Messages) /\ q # <<>>
  BY DEF Receive
<1>2. Head(q) \in Messages
  BY <1>1, HeadTailProperties
<1>3. CASE kind = "Attached"
  <2>1. devices' = devices \cup {d} /\ mon'[m] = "tell" /\ event'[m] = <<"add", d>>
    BY <1>3 DEF Receive
  <2> HIDE DEF d
  <2>2. Listed(m)' = devices \cup {d}
    BY <2>1 DEF Listed
  <2> QED
    BY <1>3, <2>2 DEF After, d
<1>4. CASE kind = "Detached" /\ d \in devices
  <2>1. devices' = devices /\ mon'[m] = "tell" /\ event'[m] = <<"remove", d>>
    BY <1>4 DEF Receive
  <2> HIDE DEF d
  <2>2. Listed(m)' = devices \ {d}
    BY <2>1 DEF Listed
  <2> QED
    BY <1>4, <2>2 DEF After, d
<1>5. CASE kind = "Detached" /\ d \notin devices
  <2>1. devices' = devices /\ mon'[m] = "loop"
    BY <1>5 DEF Receive
  <2>2. Listed(m)' = devices
    BY <2>1 DEF Listed
  <2>3. devices \ {d} = devices
    BY <1>5
  <2> QED
    BY <1>5, <2>2, <2>3 DEF After
<1> QED
  BY <1>2, <1>3, <1>4, <1>5 DEF Messages

LEMMA MonitorQueue ==
    ASSUME FiniteInv, MonitorFits, PlacesFit, QueueFits, NEW m \in Monitors, MonitorStep(m)
    PROVE  QueueFits'
<1>1. \A n \in Monitors : n # m => mon'[n] = "dead"
  BY OthersAreDead
<1> SUFFICES QueueFitsOf(m)'
  BY <1>1, QueueByMonitorNext DEF QueueFitsOf, Reading
<1>2. QueueFitsOf(m) /\ PlaceFits(m)
  BY PlacesByMonitor DEF QueueFits, QueueFitsOf
<1> USE DEF FiniteInv, TypeOK, Goto
\* Nothing changes that the monitor is about to read or to do.
<1>3. ASSUME mon[m] \in Reading, UNCHANGED <<queue, conn, attached>>, Listed(m)' = Listed(m)
      PROVE  QueueFitsOf(m)'
  BY <1>2, <1>3 DEF QueueFitsOf
<1>4. CASE Start(m) \/ Dial(m) \/ ReceiveFails(m) \/ Check(m) \/ Again(m) \/ Cleanup(m)
  <2>1. mon'[m] \notin Reading
    BY <1>4 DEF Start, Dial, ReceiveFails, Check, Again, Cleanup, Reading
  <2> QED
    BY <2>1 DEF QueueFitsOf
<1>5. CASE Greet(m)
  <2>1. CASE conn[m] = "open"
    <3>1. PICK s \in Listings(attached) : queue' = [queue EXCEPT ![m] = s]
      BY <1>5, <2>1 DEF Greet
    <3>2. mon'[m] = "assign" /\ attached' = attached /\ devices' = {}
      BY <1>2, <1>5, <2>1 DEF Greet, PlaceFits
    <3>3. queue'[m] = s /\ Listed(m)' = {}
      BY <3>1, <3>2 DEF Listed
    <3>4. \A d \in Devices : LastWord(s, attached, {}, d)
      BY ListingFits
    <3> QED
      BY <3>2, <3>3, <3>4 DEF QueueFitsOf
  <2>2. CASE conn[m] = "lost"
    <3>1. conn' = conn
      BY <1>5, <2>2 DEF Greet
    <3> QED
      BY <2>2, <3>1 DEF QueueFitsOf
  <2> QED
    BY <1>5, <2>1, <2>2 DEF Greet
<1>6. CASE Assign(m)
  BY <1>3, <1>6 DEF Assign, daemon, Reading, Listed
<1>7. CASE Loop(m)
  BY <1>3, <1>7 DEF Loop, daemon, globals, Reading, Listed
<1>8. ASSUME NEW fd \in Monitors, Receive(m, fd)
      PROVE  QueueFitsOf(m)'
  <2> DEFINE q    == queue[m]
             kind == Head(q)[1]
             d    == Head(q)[2]
  <2>1. mon[m] = "recv" /\ fd = m /\ q \in Seq(Messages) /\ q # <<>>
    BY <1>2, <1>8 DEF Receive, PlaceFits
  <2>2. Head(q) \in Messages
    BY <2>1, HeadTailProperties
  <2>3. queue'[m] = Tail(q) /\ UNCHANGED <<conn, attached>>
    BY <1>8, <2>1 DEF Receive
  <2>4. Listed(m) = devices
    BY <2>1 DEF Listed
  <2>5. Listed(m)' = After(devices, Head(q))
    BY <1>8, <2>1, ReceivedIsListed
  <2>6. conn[m] = "listening" =>
            \A e \in Devices : LastWord(Tail(q), attached, After(devices, Head(q)), e)
    BY <1>2, <2>1, <2>4, ReadingFits DEF QueueFitsOf, Reading
  <2> QED
    BY <2>3, <2>5, <2>6 DEF QueueFitsOf
<1>9. CASE Drain(m)
  <2>1. conn'[m] # "listening"
    BY <1>2, <1>9 DEF Drain, PlaceFits, daemon
  <2> QED
    BY <2>1 DEF QueueFitsOf
<1>10. CASE Tell(m)
  <2>1. UNCHANGED <<queue, conn, attached, devices>> /\ mon[m] \in Reading
    BY <1>10 DEF Tell, daemon, globals, Reading
  <2>2. Listed(m)' = Listed(m)
    <3>1. CASE event[m][1] = "add"
      BY <1>10, <2>1, <3>1 DEF Tell, Listed
    <3>2. CASE event[m][1] # "add"
      BY <1>10, <2>1, <3>2 DEF Tell, Listed
    <3> QED
      BY <3>1, <3>2
  <2> QED
    BY <1>3, <2>1, <2>2
<1>11. CASE Forget(m)
  <2>1. UNCHANGED <<queue, conn, attached>> /\ mon[m] \in Reading
    BY <1>11 DEF Forget, daemon, Reading
  <2>2. Listed(m)' = Listed(m)
    BY <1>2, <1>11 DEF Forget, Listed, PlaceFits
  <2> QED
    BY <1>3, <2>1, <2>2
<1> QED
  BY <1>4, <1>5, <1>6, <1>7, <1>8, <1>9, <1>10, <1>11 DEF MonitorStep

LEMMA DeviceQueue ==
    ASSUME FiniteInv, QueueFits, NEW e \in Devices, Attach(e) \/ Detach(e)
    PROVE  QueueFits'
<1>1. UNCHANGED <<mon, conn, devices, event>>
  BY DEF Attach, Detach, globals, threads
<1>2. Report(Word(attached', e)[1], e)
  <2>1. CASE Attach(e)
    BY <2>1 DEF Attach, Word
  <2>2. CASE Detach(e)
    BY <2>2 DEF Detach, Word
  <2> QED
    BY <2>1, <2>2
<1>3. \A d \in Devices : d # e => (d \in attached' <=> d \in attached)
  BY DEF Attach, Detach
<1> SUFFICES ASSUME NEW m \in Monitors, mon[m] \in Reading, conn[m] = "listening",
                    NEW d \in Devices
             PROVE  LastWord(queue'[m], attached', Listed(m)', d)
  BY <1>1 DEF QueueFits
<1>4. queue[m] \in Seq(Messages) /\ LastWord(queue[m], attached, Listed(m), d)
  BY DEF QueueFits, FiniteInv, TypeOK
<1>5. Listed(m)' = Listed(m)
  BY <1>1 DEF Listed
<1>6. queue'[m] = Append(queue[m], Word(attached', e))
  BY <1>2 DEF Report, Word
<1> QED
  BY <1>3, <1>4, <1>5, <1>6, ReportFits

LEMMA DaemonQueue ==
    ASSUME FiniteInv, QueueFits, Stop \/ Restart
    PROVE  QueueFits'
BY QueueFrame DEF Stop, Restart, globals, threads, FiniteInv, TypeOK

-----------------------------------------------------------------------------
(* The order of the words *)

LEMMA NothingAlternates == \A list : Alternates(<<>>, list)
BY DEF Alternates

LEMMA ListingAlternates ==
    ASSUME NEW S \in SUBSET Devices, IsFiniteSet(S), NEW s \in Listings(S)
    PROVE  Alternates(s, {})
<1>1. Len(s) = Cardinality(S) /\ Len(s) \in Nat
  BY ListingsType, FS_CardinalityType
<1>2. \A i \in 1..Len(s) : s[i] = <<"Attached", s[i][2]>>
  BY <1>1 DEF Listings
<1>3. \A i, j \in 1..Len(s) : s[i] = s[j] => i = j
  BY <1>1 DEF Listings
<1>4. \A i, j \in 1..Len(s) : s[i][2] = s[j][2] => i = j
  BY <1>2, <1>3
<1>5. \A i, j \in 1..Len(s) : i < j => i # j
  BY <1>1
<1> QED
  BY <1>2, <1>4, <1>5 DEF Alternates

LEMMA ReadingAlternates ==
    ASSUME NEW q \in Seq(Messages), q # <<>>, NEW list, Alternates(q, list)
    PROVE  /\ Head(q)[1] = "Attached" <=> Head(q)[2] \notin list
           /\ Alternates(Tail(q), After(list, Head(q)))
<1> DEFINE t    == Tail(q)
           next == After(list, Head(q))
<1>1. /\ Len(q) \in Nat \ {0} /\ Len(t) = Len(q) - 1 /\ Head(q) = q[1]
      /\ \A i \in 1..Len(t) : t[i] = q[i + 1]
  BY HeadTailProperties
<1>2. \A i \in 1..Len(q) : q[i][1] \in {"Attached", "Detached"}
  BY DEF Messages
<1>3. Head(q)[1] = "Attached" <=> Head(q)[2] \notin list
  <2>1. 1 \in 1..Len(q) /\ \A i \in 1..(1 - 1) : FALSE
    BY <1>1
  <2> QED
    BY <1>1, <2>1 DEF Alternates
<1> HIDE DEF t
<1>4. ASSUME NEW j \in 1..Len(t), \A i \in 1..(j - 1) : t[i][2] # t[j][2]
      PROVE  t[j][1] = "Attached" <=> t[j][2] \notin next
  <2>1. j + 1 \in 1..Len(q) /\ t[j] = q[j + 1] /\ 1 \in 1..Len(q) /\ 1 < j + 1
    BY <1>1
  <2>2. \A k \in 2..j : q[k][2] # q[j + 1][2]
    <3> SUFFICES ASSUME NEW k \in 2..j
                 PROVE  q[k][2] # q[j + 1][2]
      OBVIOUS
    <3>1. k - 1 \in 1..(j - 1) /\ t[k - 1] = q[k]
      BY <1>1
    <3> QED
      BY <1>4, <2>1, <3>1
  <2>3. CASE q[1][2] = q[j + 1][2]
    <3>1. \A k \in (1 + 1)..(j + 1 - 1) : q[k][2] # q[j + 1][2]
      BY <2>2
    <3>2. q[1][1] # q[j + 1][1]
      BY <2>1, <2>3, <3>1 DEF Alternates
    <3>3. q[j + 1][2] \in next <=> q[1][1] = "Attached"
      BY <1>1, <2>3 DEF After
    <3> QED
      BY <1>2, <2>1, <3>2, <3>3
  <2>4. CASE q[1][2] # q[j + 1][2]
    <3>1. \A k \in 1..(j + 1 - 1) : q[k][2] # q[j + 1][2]
      <4>1. \A k \in 1..(j + 1 - 1) : k = 1 \/ k \in 2..j
        OBVIOUS
      <4> QED
        BY <2>2, <2>4, <4>1
    <3>2. q[j + 1][1] = "Attached" <=> q[j + 1][2] \notin list
      BY <2>1, <3>1 DEF Alternates
    <3>3. q[j + 1][2] \in next <=> q[j + 1][2] \in list
      BY <1>1, <2>4 DEF After
    <3> QED
      BY <2>1, <3>2, <3>3
  <2> QED
    BY <2>3, <2>4
<1>5. ASSUME NEW i \in 1..Len(t), NEW j \in 1..Len(t), i < j, t[i][2] = t[j][2],
             \A k \in (i + 1)..(j - 1) : t[k][2] # t[j][2]
      PROVE  t[i][1] # t[j][1]
  <2>1. /\ i + 1 \in 1..Len(q) /\ t[i] = q[i + 1]
        /\ j + 1 \in 1..Len(q) /\ t[j] = q[j + 1] /\ i + 1 < j + 1
    BY <1>1, <1>5
  <2> DEFINE g == i + 1
             h == j + 1
  <2>2. \A k \in (g + 1)..(h - 1) : q[k][2] # q[h][2]
    <3> SUFFICES ASSUME NEW k \in (g + 1)..(h - 1)
                 PROVE  q[k][2] # q[h][2]
      OBVIOUS
    <3>1. k - 1 \in (i + 1)..(j - 1) /\ t[k - 1] = q[k]
      BY <1>1
    <3> QED
      BY <1>5, <2>1, <3>1
  <2>3. g \in 1..Len(q) /\ h \in 1..Len(q) /\ g < h /\ q[g][2] = q[h][2]
    BY <1>5, <2>1
  <2> HIDE DEF g, h
  <2>4. q[g][1] # q[h][1]
    BY <2>2, <2>3 DEF Alternates
  <2> QED
    BY <2>1, <2>4 DEF g, h
<1> QED
  BY <1>3, <1>4, <1>5 DEF Alternates, t

LEMMA ReportAlternates ==
    ASSUME NEW q \in Seq(Messages), NEW seen, NEW now, NEW list, NEW e \in Devices,
           e \in now <=> e \notin seen,
           LastWord(q, seen, list, e), Alternates(q, list)
    PROVE  Alternates(Append(q, Word(now, e)), list)
<1> DEFINE a == Append(q, Word(now, e))
           n == Len(q) + 1
<1>1. /\ Len(q) \in Nat /\ Len(a) = n /\ a[n] = Word(now, e)
      /\ \A i \in 1..Len(q) : a[i] = q[i]
  <2>1. Word(now, e) \in Messages
    BY DEF Word, Messages
  <2> QED
    BY <2>1, AppendProperties
<1>2. Word(now, e)[2] = e /\ (Word(now, e)[1] = "Attached" <=> e \in now)
  BY DEF Word
<1> HIDE DEF a
<1>3. ASSUME NEW j \in 1..Len(a), \A i \in 1..(j - 1) : a[i][2] # a[j][2]
      PROVE  a[j][1] = "Attached" <=> a[j][2] \notin list
  <2>1. CASE j = n
    <3>1. \A i \in 1..Len(q) : q[i][2] # e
      <4>1. \A i \in 1..Len(q) : i \in 1..(j - 1)
        BY <1>1, <2>1
      <4> QED
        BY <1>1, <1>2, <1>3, <2>1, <4>1
    <3>2. e \in seen <=> e \in list
      BY <3>1 DEF LastWord, Word
    <3> QED
      BY <1>1, <1>2, <2>1, <3>2
  <2>2. CASE j # n
    <3>1. j \in 1..Len(q) /\ \A i \in 1..(j - 1) : i \in 1..Len(q)
      BY <1>1, <2>2
    <3>2. \A i \in 1..(j - 1) : q[i][2] # q[j][2]
      BY <1>1, <1>3, <3>1
    <3> QED
      BY <1>1, <3>1, <3>2 DEF Alternates
  <2> QED
    BY <2>1, <2>2
<1>4. ASSUME NEW i \in 1..Len(a), NEW j \in 1..Len(a), i < j, a[i][2] = a[j][2],
             \A k \in (i + 1)..(j - 1) : a[k][2] # a[j][2]
      PROVE  a[i][1] # a[j][1]
  <2>1. i \in 1..Len(q) /\ a[i] = q[i]
    BY <1>1, <1>4
  <2>2. CASE j = n
    <3>1. q[i][2] = e
      BY <1>1, <1>2, <1>4, <2>1, <2>2
    <3>2. \A k \in 1..Len(q) : k > i => q[k][2] # e
      <4> SUFFICES ASSUME NEW k \in 1..Len(q), k > i
                   PROVE  q[k][2] # e
        OBVIOUS
      <4>1. k \in (i + 1)..(j - 1)
        BY <1>1, <2>2
      <4> QED
        BY <1>1, <1>2, <1>4, <2>2, <4>1
    <3>3. PICK k \in 1..Len(q) : q[k] = Word(seen, e)
                                 /\ \A l \in 1..Len(q) : l > k => q[l][2] # e
      BY <2>1, <3>1 DEF LastWord
    <3>4. q[k][2] = e
      BY <3>3 DEF Word
    <3>5. ~(k > i) /\ ~(i > k)
      BY <2>1, <3>1, <3>2, <3>3, <3>4
    <3>6. k = i
      BY <3>5
    <3>7. q[i] = Word(seen, e)
      BY <3>3, <3>6
    <3> QED
      BY <1>1, <2>1, <2>2, <3>7 DEF Word
  <2>3. CASE j # n
    <3>1. j \in 1..Len(q) /\ \A k \in (i + 1)..(j - 1) : k \in 1..Len(q)
      BY <1>1, <2>3
    <3>2. \A k \in (i + 1)..(j - 1) : q[k][2] # q[j][2]
      BY <1>1, <1>4, <3>1
    <3> QED
      BY <1>1, <1>4, <2>1, <3>1, <3>2 DEF Alternates
  <2> QED
    BY <2>2, <2>3
<1> QED
  BY <1>3, <1>4 DEF Alternates, a

OrderFitsOf(m) ==
    /\ mon[m] = "greet" => conn[m] # "listening" /\ queue[m] = <<>>
    /\ InTurn(m) => Alternates(queue[m], Listed(m))

LEMMA OrderByMonitorNext == OrderFits' <=> \A m \in Monitors : OrderFitsOf(m)'
BY DEF OrderFits, OrderFitsOf, InTurn, Listed

LEMMA OrderFrame ==
    ASSUME OrderFits, UNCHANGED <<mon, queue, devices, event>>,
           \A m \in Monitors : conn'[m] = "listening" => conn[m] = "listening"
    PROVE  OrderFits'
BY DEF OrderFits, InTurn, Listed

LEMMA ClientOrder ==
    ASSUME FiniteInv, CallsFit, OrderFits, NEW c \in Clients,
           Subscribe(c) \/ Unsubscribe(c) \/ ClientStep(c)
    PROVE  OrderFits'
<1>1. ASSUME NEW m \in Monitors, Spawn(c, m)
      PROVE  OrderFits'
  <2>1. AllDead
    BY <1>1 DEF Spawn, CallsFit
  <2>2. \A n \in Monitors : mon'[n] \in {"start", "dead"}
    BY <1>1, <2>1 DEF Spawn, Goto, FiniteInv, TypeOK, AllDead
  <2> QED
    BY <2>2 DEF OrderFits, InTurn
<1>2. CASE Shutdown(c)
  <2>1. \A m \in Monitors : conn'[m] = conn[m] \/ conn'[m] = "shut"
    BY <1>2 DEF Shutdown, FiniteInv, TypeOK
  <2> QED
    BY <1>2, <2>1, OrderFrame DEF Shutdown, globals, threads
<1>3. CASE Subscribe(c) \/ Unsubscribe(c) \/ Flag(c) \/ Join(c)
  BY <1>3, OrderFrame DEF Subscribe, Unsubscribe, Flag, Join, threads, daemon
<1> QED
  BY <1>1, <1>2, <1>3 DEF ClientStep

LEMMA MonitorOrder ==
    ASSUME FiniteInv, MonitorFits, PlacesFit, OrderFits,
           NEW m \in Monitors, MonitorStep(m)
    PROVE  OrderFits'
<1>1. \A n \in Monitors : n # m => mon'[n] = "dead"
  BY OthersAreDead
<1> SUFFICES OrderFitsOf(m)'
  BY <1>1, OrderByMonitorNext DEF OrderFitsOf, InTurn
<1>2. OrderFitsOf(m) /\ PlaceFits(m)
  BY PlacesByMonitor DEF OrderFits, OrderFitsOf
<1> USE DEF FiniteInv, TypeOK, Goto
\* Nothing changes that the monitor is about to read or to do.
<1>3. ASSUME InTurn(m), queue' = queue, Listed(m)' = Listed(m), mon'[m] # "greet"
      PROVE  OrderFitsOf(m)'
  BY <1>2, <1>3 DEF OrderFitsOf
<1>4. CASE Start(m) \/ ReceiveFails(m) \/ Check(m) \/ Again(m) \/ Cleanup(m)
  <2>1. mon'[m] \in {"listen", "drain", "again", "cleanup", "dead"}
    BY <1>4 DEF Start, ReceiveFails, Check, Again, Cleanup
  <2> QED
    BY <2>1 DEF OrderFitsOf, InTurn
<1>5. CASE Dial(m)
  <2>1. CASE up
    BY <1>5, <2>1 DEF Dial, OrderFitsOf, InTurn
  <2>2. CASE ~up
    BY <1>5, <2>2 DEF Dial, OrderFitsOf, InTurn
  <2> QED
    BY <2>1, <2>2
<1>6. CASE Greet(m)
  <2>1. CASE conn[m] = "open"
    <3>1. PICK s \in Listings(attached) : queue' = [queue EXCEPT ![m] = s]
      BY <1>6, <2>1 DEF Greet
    <3>2. mon'[m] = "assign" /\ devices' = {}
      BY <1>2, <1>6, <2>1 DEF Greet, PlaceFits
    <3>3. queue'[m] = s /\ Listed(m)' = {}
      BY <3>1, <3>2 DEF Listed
    <3> QED
      BY <3>2, <3>3, ListingAlternates DEF OrderFitsOf
  <2>2. CASE conn[m] = "lost"
    <3>1. queue'[m] = <<>> /\ mon'[m] # "greet"
      BY <1>2, <1>6, <2>2 DEF Greet, OrderFitsOf
    <3> QED
      BY <3>1, NothingAlternates DEF OrderFitsOf
  <2> QED
    BY <1>6, <2>1, <2>2 DEF Greet
<1>7. CASE Assign(m)
  BY <1>3, <1>7 DEF Assign, daemon, InTurn, Listed
<1>8. CASE Loop(m)
  BY <1>3, <1>8 DEF Loop, daemon, globals, InTurn, Listed
<1>9. ASSUME NEW fd \in Monitors, Receive(m, fd)
      PROVE  OrderFitsOf(m)'
  <2> DEFINE q == queue[m]
  <2>1. mon[m] = "recv" /\ fd = m /\ q \in Seq(Messages) /\ q # <<>>
    BY <1>2, <1>9 DEF Receive, PlaceFits
  <2>2. queue'[m] = Tail(q)
    BY <1>9, <2>1 DEF Receive
  <2>3. Listed(m) = devices
    BY <2>1 DEF Listed
  <2>4. Alternates(Tail(q), After(devices, Head(q)))
    BY <1>2, <2>1, <2>3, ReadingAlternates DEF OrderFitsOf, InTurn
  <2>5. Listed(m)' = After(devices, Head(q))
    BY <1>9, <2>1, ReceivedIsListed
  <2>6. mon'[m] # "greet"
    BY <1>9 DEF Receive
  <2> QED
    BY <2>2, <2>4, <2>5, <2>6 DEF OrderFitsOf
<1>10. CASE Drain(m)
  <2>1. mon'[m] = "check" \/ (mon'[m] = "tell" /\ event'[m][1] = "lost")
    BY <1>10 DEF Drain
  <2> QED
    BY <2>1 DEF OrderFitsOf, InTurn
<1>11. CASE Tell(m)
  <2>1. UNCHANGED <<queue, devices>> /\ mon[m] = "tell"
    BY <1>11 DEF Tell, daemon, globals
  <2>2. CASE event[m][1] = "add"
    <3>1. mon'[m] = "loop"
      BY <1>11, <2>2 DEF Tell
    <3>2. InTurn(m) /\ Listed(m)' = Listed(m)
      BY <2>1, <2>2, <3>1 DEF InTurn, Listed
    <3> QED
      BY <1>3, <2>1, <3>1, <3>2
  <2>3. CASE event[m][1] # "add"
    <3>1. mon'[m] = "forget" /\ event' = event
      BY <1>11, <2>3 DEF Tell
    <3>2. Listed(m)' = Listed(m) /\ (InTurn(m)' => InTurn(m))
      BY <2>1, <2>3, <3>1 DEF InTurn, Listed
    <3> QED
      BY <1>3, <2>1, <3>1, <3>2 DEF OrderFitsOf
  <2> QED
    BY <2>2, <2>3
<1>12. CASE Forget(m)
  <2>1. queue' = queue /\ mon[m] = "forget" /\ event[m][1] # "add"
    BY <1>2, <1>12 DEF Forget, daemon, PlaceFits
  <2>2. CASE event[m][1] = "lost"
    BY <1>12, <2>2 DEF Forget, OrderFitsOf, InTurn
  <2>3. CASE event[m][1] # "lost"
    <3>1. mon'[m] = "loop" /\ devices' = devices \ {event[m][2]}
      BY <1>12, <2>3 DEF Forget
    <3>2. InTurn(m) /\ Listed(m)' = Listed(m)
      BY <2>1, <2>3, <3>1 DEF InTurn, Listed
    <3> QED
      BY <1>3, <2>1, <3>1, <3>2
  <2> QED
    BY <2>2, <2>3
<1> QED
  BY <1>4, <1>5, <1>6, <1>7, <1>8, <1>9, <1>10, <1>11, <1>12 DEF MonitorStep

LEMMA DeviceOrder ==
    ASSUME FiniteInv, QueueFits, OrderFits, NEW e \in Devices, Attach(e) \/ Detach(e)
    PROVE  OrderFits'
<1>1. UNCHANGED <<mon, conn, devices, event>>
  BY DEF Attach, Detach, globals, threads
<1>2. Report(Word(attached', e)[1], e) /\ (e \in attached' <=> e \notin attached)
  <2>1. CASE Attach(e)
    BY <2>1 DEF Attach, Word
  <2>2. CASE Detach(e)
    BY <2>2 DEF Detach, Word
  <2> QED
    BY <2>1, <2>2
<1> SUFFICES ASSUME NEW m \in Monitors
             PROVE  OrderFitsOf(m)'
  BY OrderByMonitorNext
<1>3. queue[m] \in Seq(Messages) /\ OrderFitsOf(m)
  BY DEF OrderFits, OrderFitsOf, FiniteInv, TypeOK
<1>4. Listed(m)' = Listed(m) /\ (InTurn(m)' <=> InTurn(m))
  BY <1>1 DEF Listed, InTurn
<1>5. CASE conn[m] = "listening"
  <2>1. queue'[m] = Append(queue[m], Word(attached', e))
    BY <1>2, <1>5 DEF Report, Word
  <2>2. mon'[m] # "greet"
    BY <1>1, <1>3, <1>5 DEF OrderFitsOf
  <2>3. InTurn(m) => LastWord(queue[m], attached, Listed(m), e)
    BY <1>5 DEF QueueFits, InTurn, Reading
  <2>4. InTurn(m) => Alternates(Append(queue[m], Word(attached', e)), Listed(m))
    BY <1>2, <1>3, <2>3, ReportAlternates DEF OrderFitsOf
  <2> QED
    BY <1>4, <2>1, <2>2, <2>4 DEF OrderFitsOf
<1>6. CASE conn[m] # "listening"
  <2>1. queue'[m] = queue[m]
    BY <1>2, <1>6 DEF Report
  <2> QED
    BY <1>1, <1>3, <1>4, <2>1 DEF OrderFitsOf
<1> QED
  BY <1>5, <1>6

LEMMA DaemonOrder ==
    ASSUME FiniteInv, OrderFits, Stop \/ Restart
    PROVE  OrderFits'
BY OrderFrame DEF Stop, Restart, globals, threads, FiniteInv, TypeOK

-----------------------------------------------------------------------------
(* Whom unsubscribe waits for *)

\* A monitor that was told in time is on its way out: what it reads from is over.
Ending(m) ==
    mon[m] \in Alive =>
        /\ mon[m] \notin {"start", "listen", "greet", "assign"}
        /\ mon[m] = "again" => ~running
        /\ mon[m] \in {"loop", "recv", "tell", "forget", "drain"} =>
               conn[m] \notin {"open", "listening"}

\* From the shutdown to the end of the call.
EndsFit ==
    \A c \in Clients : pc[c] \in {"flag", "join"} /\ ~hasty =>
        /\ pc[c] = "join" => ~running
        /\ \A m \in Monitors : Ending(m)

LEMMA EndsFrame ==
    ASSUME EndsFit, UNCHANGED <<mon, running>>, hasty' = hasty,
           \A c \in Clients : pc'[c] \in {"flag", "join"} => pc'[c] = pc[c],
           \A m \in Monitors : conn'[m] \in {"open", "listening"} => conn'[m] = conn[m]
    PROVE  EndsFit'
BY DEF EndsFit, Ending

LEMMA ClientEnds ==
    ASSUME FiniteInv, CallsFit, MonitorFits, PlacesFit, EndsFit, NEW c \in Clients,
           Subscribe(c) \/ Unsubscribe(c) \/ ClientStep(c)
    PROVE  EndsFit'
<1> USE DEF FiniteInv, TypeOK
<1>1. CASE Subscribe(c) \/ Unsubscribe(c) \/ Join(c)
  <2>1. UNCHANGED <<mon, running, conn, hasty>>
    BY <1>1 DEF Subscribe, Unsubscribe, Join, threads, daemon, history
  <2>2. \A b \in Clients : pc'[b] \in {"flag", "join"} => pc'[b] = pc[b]
    BY <1>1 DEF Subscribe, Unsubscribe, Join
  <2> QED
    BY <2>1, <2>2, EndsFrame
<1>2. ASSUME NEW m \in Monitors, Spawn(c, m)
      PROVE  EndsFit'
  <2>1. \A b \in Clients : pc'[b] = "idle"
    BY <1>2, CallIsAlone DEF Spawn
  <2> QED
    BY <2>1 DEF EndsFit
<1>3. CASE Shutdown(c)
  <2>1. /\ pc' = [pc EXCEPT ![c] = "flag"] /\ pc[c] = "stop"
        /\ UNCHANGED <<mon, running, listenfd, devmon>>
    BY <1>3 DEF Shutdown, globals, threads
  <2>2. \A b \in Clients : pc'[b] # "join"
    BY <2>1, CallIsAlone DEF Calls
  <2>3. ASSUME ~hasty', NEW m \in Monitors, mon[m] \in Alive
        PROVE  Ending(m)'
    <3>1. m = devmon /\ m # NoMonitor
      BY <2>3, MonitorAssumption DEF MonitorFits
    <3>2. mon[m] \notin {"start", "listen", "greet", "assign", "again"}
      BY <1>3, <2>3, <3>1 DEF Shutdown
    <3>3. conn'[m] = IF /\ m = listenfd /\ mon[m] \notin {"greet", "assign"}
                        /\ conn[m] \in {"open", "listening"}
                       THEN "shut" ELSE conn[m]
      BY <1>3 DEF Shutdown
    <3>4. mon[m] \in {"loop", "recv", "tell", "forget", "drain"} => listenfd = m
      BY DEF PlacesFit
    <3> QED
      BY <2>1, <3>2, <3>3, <3>4 DEF Ending
  <2> QED
    BY <2>1, <2>2, <2>3 DEF EndsFit, Ending
<1>4. CASE Flag(c)
  <2>1. pc[c] = "flag" /\ UNCHANGED <<mon, conn, hasty>>
    BY <1>4 DEF Flag, threads, daemon, history
  <2>2. running' => running
    BY <1>4 DEF Flag
  <2>3. \A b \in Clients : b # c => pc'[b] = "idle"
    BY <1>4, CallIsAlone DEF Flag, Calls
  <2>4. pc'[c] = "join" => ~running'
    BY <1>4 DEF Flag
  <2>5. ~hasty => \A m \in Monitors : Ending(m)
    BY <2>1 DEF EndsFit
  <2> QED
    BY <2>1, <2>2, <2>3, <2>4, <2>5 DEF EndsFit, Ending
<1> QED
  BY <1>1, <1>2, <1>3, <1>4 DEF ClientStep

LEMMA MonitorEnds ==
    ASSUME FiniteInv, CallsFit, MonitorFits, EndsFit, NEW m \in Monitors, MonitorStep(m)
    PROVE  EndsFit'
<1> SUFFICES ASSUME NEW c \in Clients, pc'[c] \in {"flag", "join"}, ~hasty'
             PROVE  (pc'[c] = "join" => ~running') /\ \A n \in Monitors : Ending(n)'
  BY DEF EndsFit, Ending
<1>1. pc' = pc /\ hasty' = hasty
  BY MonitorMoves DEF MonitorStep, Start, Dial, Greet, Assign, Loop, Receive,
     ReceiveFails, Drain, Tell, Forget, Check, Again, Cleanup, history
<1>2. (pc[c] = "join" => ~running) /\ Ending(m) /\ listeners = {}
  BY <1>1 DEF EndsFit, CallsFit
<1>3. mon[m] \notin {"start", "listen", "greet", "assign"}
      /\ (mon[m] = "again" => ~running)
  BY <1>2, MonitorMoves DEF Ending
<1>4. \A n \in Monitors : n # m => Ending(n)'
  BY OthersAreDead DEF Ending, Alive
<1> SUFFICES (running' => running) /\ Ending(m)'
  BY <1>1, <1>2, <1>4
<1> USE DEF FiniteInv, TypeOK, Goto
<1>5. CASE Loop(m) \/ ReceiveFails(m) \/ Drain(m) \/ Tell(m) \/ Forget(m)
  <2>1. UNCHANGED <<running, conn>>
    BY <1>5 DEF Loop, ReceiveFails, Drain, Tell, Forget, globals, daemon
  <2>2. /\ mon[m] \in {"loop", "recv", "drain", "tell", "forget"}
        /\ mon'[m] \in {"loop", "recv", "drain", "tell", "forget", "check"}
    BY <1>5 DEF Loop, ReceiveFails, Drain, Tell, Forget
  <2>3. conn[m] \notin {"open", "listening"}
    BY <1>2, <2>2 DEF Ending, Alive
  <2> QED
    BY <2>1, <2>2, <2>3 DEF Ending
<1>6. ASSUME NEW fd \in Monitors, Receive(m, fd)
      PROVE  (running' => running) /\ Ending(m)'
  <2>1. UNCHANGED <<running, conn>> /\ mon[m] = "recv" /\ mon'[m] \in {"tell", "loop"}
    BY <1>6 DEF Receive
  <2>2. conn[m] \notin {"open", "listening"}
    BY <1>2, <2>1 DEF Ending, Alive
  <2> QED
    BY <2>1, <2>2 DEF Ending
<1>7. CASE Check(m) \/ Again(m) \/ Cleanup(m)
  <2>1. /\ running' => running
        /\ mon'[m] \in {"again", "cleanup", "dead"}
        /\ mon'[m] = "again" => ~running'
    <3>1. CASE Check(m)
      BY <1>2, <3>1 DEF Check
    <3>2. CASE Again(m)
      BY <1>3, <3>2 DEF Again, globals
    <3>3. CASE Cleanup(m)
      BY <3>3 DEF Cleanup
    <3> QED
      BY <1>7, <3>1, <3>2, <3>3
  <2> QED
    BY <2>1 DEF Ending
<1>8. CASE Start(m) \/ Dial(m) \/ Greet(m) \/ Assign(m)
  BY <1>3, <1>8 DEF Start, Dial, Greet, Assign
<1> QED
  BY <1>5, <1>6, <1>7, <1>8 DEF MonitorStep

LEMMA WorldEnds ==
    ASSUME FiniteInv, EndsFit,
           (\E d \in Devices : Attach(d) \/ Detach(d)) \/ Stop \/ Restart
    PROVE  EndsFit'
<1>1. UNCHANGED <<mon, running, hasty, pc>>
  BY DEF Attach, Detach, Stop, Restart, globals, clients, threads, history
<1>2. \A m \in Monitors : conn'[m] \in {"open", "listening"} => conn'[m] = conn[m]
  BY DEF Attach, Detach, Stop, Restart, FiniteInv, TypeOK
<1> QED
  BY <1>1, <1>2, EndsFrame

-----------------------------------------------------------------------------
(* The theorems *)

LEMMA InitIInv == Init => IInv
<1> SUFFICES ASSUME Init
             PROVE  IInv
  OBVIOUS
<1>1. FiniteInv
  BY InitTypeOK
<1>2. AllDead /\ ~BetweenSections /\ listeners = {} /\ devices = {} /\ devmon = NoMonitor
  BY DEF Init, AllDead, BetweenSections
<1>3. CallsFit
  BY <1>2 DEF CallsFit, BetweenSections
<1>4. MonitorFits
  BY <1>2 DEF MonitorFits, AllDead, Alive
<1>5. PlacesFit
  BY <1>2, PlacesByMonitor, DeadFits DEF AllDead
<1>6. KnownFits
  BY <1>2 DEF KnownFits, Init, AllDead, Alive
<1>7. QueueFits
  BY <1>2 DEF QueueFits, AllDead, Reading
<1>8. OrderFits
  BY <1>2 DEF OrderFits, AllDead, InTurn
<1> QED
  BY <1>1, <1>3, <1>4, <1>5, <1>6, <1>7, <1>8 DEF IInv

LEMMA NextIInv ==
    ASSUME ~Overlap, IInv, [Next]_vars
    PROVE  IInv'
<1> USE DEF IInv
<1>1. FiniteInv'
  BY NextTypeOK
<1>2. ASSUME NEW c \in Clients, Subscribe(c)
      PROVE  IInv'
  BY <1>1, <1>2, SubscribeFits, ClientPlaces, SubscribeKnown, ClientQueue,
     ClientOrder
<1>3. ASSUME NEW c \in Clients, Unsubscribe(c)
      PROVE  IInv'
  BY <1>1, <1>3, UnsubscribeFits, ClientPlaces, UnsubscribeKnown, ClientQueue,
     ClientOrder
<1>4. ASSUME NEW c \in Clients, ClientStep(c)
      PROVE  IInv'
  BY <1>1, <1>4, ClientStepFits, ClientPlaces, ClientKnown, ClientQueue,
     ClientOrder
<1>5. ASSUME NEW m \in Monitors, MonitorStep(m)
      PROVE  IInv'
  BY <1>1, <1>5, MonitorStepFits, MonitorPlaces, MonitorKnown, MonitorQueue,
     MonitorOrder
<1>6. ASSUME (\E d \in Devices : Attach(d) \/ Detach(d)) \/ Stop \/ Restart
      PROVE  IInv'
  <2>1. UNCHANGED <<listeners, devmon, running, pc, joining, mon, lingers>>
    BY <1>6 DEF Attach, Detach, Stop, Restart, globals, clients, threads
  <2>2. CallsFit' /\ MonitorFits'
    BY <2>1 DEF CallsFit, MonitorFits, AllDead, BetweenSections
  <2> QED
    BY <1>1, <1>6, <2>2, WorldPlaces, WorldKnown, DeviceQueue,
       DaemonQueue, DeviceOrder, DaemonOrder
<1>7. CASE UNCHANGED vars
  <2>1. CallsFit' /\ MonitorFits' /\ PlacesFit'
    BY <1>7 DEF vars, CallsFit, MonitorFits, AllDead, BetweenSections,
       PlacesFit
  <2>2. KnownFits' /\ QueueFits' /\ OrderFits'
    BY <1>7, KnownFrame, QueueFrame, OrderFrame DEF vars
  <2> QED
    BY <1>1, <2>1, <2>2
<1> QED
  BY <1>2, <1>3, <1>4, <1>5, <1>6, <1>7 DEF Next

\* The inductive invariant, as long as no subscription comes while another
\* call has given back the mutex: the calls, the thread, the list of devices,
\* what each callback was told and what is still to be read fit together
\* (libusbmuxd.c:854-1240).
THEOREM Invariance == ~Overlap => (Spec => []IInv)
<1> SUFFICES ASSUME ~Overlap
             PROVE  Spec => []IInv
  OBVIOUS
<1>1. IInv /\ [Next]_vars => IInv'
  BY NextIInv
<1> QED
  BY InitIInv, <1>1, PTL DEF Spec

\* There is one monitor at most and whoever is subscribed has it, through every
\* start, stop, lost connection and join (libusbmuxd.c:1120-1140, 1177-1184,
\* 1226-1239).
THEOREM MonitorIsOne == ~Overlap => (Spec => []OneMonitor)
<1> SUFFICES ASSUME ~Overlap
             PROVE  Spec => []OneMonitor
  OBVIOUS
<1>1. IInv => OneMonitor
  <2> SUFFICES ASSUME IInv
               PROVE  OneMonitor
    OBVIOUS
  <2>1. MonitorFits
    BY DEF IInv
  <2> QED
    BY <2>1, MonitorAssumption DEF MonitorFits, OneMonitor
<1> QED
  BY <1>1, Invariance, PTL

\* A subscriber knows every attached device, and but for the race of a
\* subscription with a removal no other, once the monitor has read all there
\* is; who has unsubscribed was told that all has gone (libusbmuxd.c:1036-1048,
\* 1057-1076, 1185-1195, 1209-1219).
THEOREM SubscribersAreInformed == ~Overlap => (Spec => []QuietIsInformed)
<1> SUFFICES ASSUME ~Overlap
             PROVE  Spec => []QuietIsInformed
  OBVIOUS
<1>1. IInv => QuietIsInformed
  <2> SUFFICES ASSUME IInv, NEW c \in Clients
               PROVE  /\ c \in listeners /\ (\E m \in Monitors : Quiet(m)) =>
                             /\ attached \subseteq known[c]
                             /\ c \notin raced => known[c] = attached
                      /\ c \notin listeners /\ c \notin raced => known[c] = {}
    BY DEF QuietIsInformed
  <2>1. KnowsNoGhost(c) /\ \A m \in Monitors : KnowsList(c, m)
    BY KnownByClient DEF IInv
  <2>2. ASSUME c \in listeners, NEW m \in Monitors, Quiet(m)
        PROVE  attached \subseteq known[c] /\ (c \notin raced => known[c] = attached)
    <3>1. mon[m] = "recv" /\ mon[m] \in Alive \cap Reading
      BY <2>2 DEF Quiet, Alive, Reading
    <3>2. \A d \in Devices : LastWord(<<>>, attached, devices, d)
      BY <2>2, <3>1 DEF IInv, QueueFits, Quiet, Listed
    <3>3. \A d \in Devices : d \in attached <=> d \in devices
      BY <3>2 DEF LastWord
    <3>4. attached = devices
      BY <3>3 DEF IInv, FiniteInv, TypeOK
    <3>5. devices \subseteq known[c]
      BY <2>1, <2>2, <3>1 DEF KnowsList, InHand
    <3>6. c \notin raced => known[c] \subseteq devices
      BY <2>1, <2>2 DEF KnowsNoGhost
    <3> QED
      BY <3>4, <3>5, <3>6
  <2>3. c \notin listeners /\ c \notin raced => known[c] = {}
    BY <2>1 DEF KnowsNoGhost
  <2> QED
    BY <2>2, <2>3
<1> QED
  BY <1>1, Invariance, PTL

\* The join of unsubscribe is no deadlock, unless the shutdown came while the
\* monitor had no socket stored: the thread it waits for does not block and has
\* no way back to a connection (libusbmuxd.c:1128-1149, 1226-1239).
THEOREM UnsubscribeIsNotBlocked == ~Overlap => (Spec => []JoinedEnds)
<1> SUFFICES ASSUME ~Overlap
             PROVE  Spec => []JoinedEnds
  OBVIOUS
<1>1. Init => EndsFit
  BY DEF Init, EndsFit
<1>2. IInv /\ EndsFit /\ [Next]_vars => EndsFit'
  <2> SUFFICES ASSUME IInv, EndsFit, [Next]_vars
               PROVE  EndsFit'
    OBVIOUS
  <2>1. CASE UNCHANGED vars
    BY <2>1, EndsFrame DEF vars
  <2> QED
    BY <2>1, ClientEnds, MonitorEnds, WorldEnds DEF Next, IInv
<1>3. IInv /\ EndsFit => JoinedEnds
  <2> SUFFICES ASSUME IInv, EndsFit, NEW c \in Clients, pc[c] = "join", ~hasty
               PROVE  /\ ~running
                      /\ mon[joining[c]] \notin {"start", "listen", "greet", "assign"}
                      /\ mon[joining[c]] = "recv" =>
                             queue[joining[c]] # <<>> \/ ConnectionOver
    BY DEF JoinedEnds
  <2> DEFINE m == joining[c]
  <2>1. m \in Monitors /\ ~running /\ Ending(m)
    BY DEF EndsFit, IInv, FiniteInv, TypeOK
  <2>2. mon[m] \notin {"start", "listen", "greet", "assign"}
    BY <2>1 DEF Ending, Alive
  <2>3. ASSUME mon[m] = "recv", queue[m] = <<>>
        PROVE  ConnectionOver
    <3>1. listenfd = m /\ conn[m] \notin {"open", "listening"}
      BY <2>1, <2>3 DEF Ending, Alive, IInv, PlacesFit
    <3>2. conn[m] \in {"none", "shut", "lost"}
      BY <2>1, <3>1 DEF IInv, FiniteInv, TypeOK
    <3> QED
      BY <2>3, <3>1, <3>2 DEF ConnectionOver
  <2> QED
    BY <2>1, <2>2, <2>3
<1> QED
  BY <1>1, <1>2, <1>3, Invariance, PTL DEF Spec

-----------------------------------------------------------------------------
(* The monitor implements DeviceFeed *)

LEMMA FeedInit == Init => Feed!Init
BY DEF Init, Feed!Init, Board, Coming, Leaving, Announcing, Told

\* What DeviceFeed does not see.
LEMMA UnseenByFeed ==
    ASSUME UNCHANGED <<listeners, devices, known, raced>>,
           Coming' = Coming, Leaving' = Leaving
    PROVE  UNCHANGED Feed!vars
BY DEF Feed!vars, Board, Told

LEMMA StillHand ==
    ASSUME UNCHANGED <<mon, event>>
    PROVE  Coming' = Coming /\ Leaving' = Leaving
BY DEF Coming, Leaving, Announcing

LEMMA NoHand ==
    ASSUME AllDead
    PROVE  Coming = {} /\ Leaving = {}
BY DEF AllDead, Coming, Leaving, Announcing

\* The events of the one monitor are all that are in hand.
LEMMA HandOf ==
    ASSUME NEW m \in Monitors, \A n \in Monitors : n # m => mon[n] = "dead"
    PROVE  /\ Coming = IF Announcing(m, {"add"}) THEN {event[m][2]} ELSE {}
           /\ Leaving = IF mon[m] = "forget" THEN {event[m][2]} ELSE {}
<1>1. \A n \in Monitors : Announcing(n, {"add"}) => n = m
  BY DEF Announcing
<1>2. \A n \in Monitors : mon[n] = "forget" => n = m
  OBVIOUS
<1> QED
  BY <1>1, <1>2 DEF Coming, Leaving

LEMMA HandOfNext ==
    ASSUME NEW m \in Monitors, \A n \in Monitors : n # m => mon'[n] = "dead"
    PROVE  /\ Coming' = IF mon'[m] = "tell" /\ event'[m][1] = "add"
                          THEN {event'[m][2]} ELSE {}
           /\ Leaving' = IF mon'[m] = "forget" THEN {event'[m][2]} ELSE {}
<1>1. \A n \in Monitors : Announcing(n, {"add"})' => n = m
  BY DEF Announcing
<1>2. \A n \in Monitors : mon'[n] = "forget" => n = m
  OBVIOUS
<1>3. Announcing(m, {"add"})' <=> mon'[m] = "tell" /\ event'[m][1] = "add"
  BY DEF Announcing
<1> QED
  BY <1>1, <1>2, <1>3 DEF Coming, Leaving

LEMMA SubscribeJoins ==
    ASSUME ~Overlap, IInv, NEW c \in Clients, Subscribe(c)
    PROVE  Feed!Join(c) \/ UNCHANGED Feed!vars
<1> USE DEF IInv
<1>1. /\ ~BetweenSections /\ c \notin listeners /\ listeners' = listeners \cup {c}
      /\ UNCHANGED <<devices, mon, event>>
  BY DEF Subscribe, MaySubscribe, threads
<1>2. Coming' = Coming /\ Leaving' = Leaving /\ Board' = Board
  BY <1>1, StillHand DEF Board
<1>3. known \in [Clients -> SUBSET Devices] /\ (c \notin raced => known[c] = {})
  BY <1>1, KnownByClient DEF KnowsNoGhost, FiniteInv, TypeOK
\* A client that is raced already, or now, is left out.
<1>4. ASSUME c \in raced', raced' \in {raced, raced \cup {c}},
             \A b \in Clients : b # c => known'[b] = known[b]
      PROVE  UNCHANGED Feed!vars
  <2>1. listeners' \ raced' = listeners \ raced
    BY <1>1, <1>4
  <2>2. Told' = Told
    BY <1>3, <1>4 DEF Told
  <2> QED
    BY <1>2, <2>1, <2>2 DEF Feed!vars
<1>5. ASSUME c \notin raced', raced' = raced, Board \cup Coming = devices,
             known' = [known EXCEPT ![c] = devices]
      PROVE  Feed!Join(c)
  <2>1. c \notin listeners \ raced /\ listeners' \ raced' = (listeners \ raced) \cup {c}
    BY <1>1, <1>5
  <2>2. Told' = [Told EXCEPT ![c] = Board \cup Coming]
    BY <1>3, <1>5 DEF Told
  <2> QED
    BY <1>2, <2>1, <2>2 DEF Feed!Join
<1>6. CASE ThreadAlive(devmon)
  <2>1. /\ known' = [known EXCEPT ![c] = @ \cup devices]
        /\ raced' = IF \E m \in Monitors : mon[m] = "forget"
                      THEN raced \cup {c} ELSE raced
    BY <1>6 DEF Subscribe
  <2>2. CASE c \in raced'
    BY <1>3, <1>4, <2>1, <2>2
  <2>3. CASE c \notin raced'
    <3>1. raced' = raced /\ \A m \in Monitors : mon[m] # "forget"
      BY <2>1, <2>3
    <3>2. known' = [known EXCEPT ![c] = devices]
      BY <1>3, <2>1, <2>3, <3>1
    <3>3. Leaving = {}
      BY <3>1 DEF Leaving
    <3>4. Coming \subseteq devices
      BY PlacesByMonitor DEF Coming, Announcing, PlaceFits
    <3>5. Board \cup Coming = devices
      BY <3>3, <3>4 DEF Board
    <3> QED
      BY <1>5, <2>3, <3>1, <3>2, <3>5
  <2> QED
    BY <2>2, <2>3
<1>7. CASE ~ThreadAlive(devmon)
  <2>1. known' = known /\ raced' = raced
    BY <1>7 DEF Subscribe
  <2>2. AllDead /\ devices = {}
    BY <1>1, <1>7, SubscriberFinds DEF PlacesFit
  <2>3. Board \cup Coming = devices
    BY <2>2, NoHand DEF Board
  <2>4. c \notin raced => known' = [known EXCEPT ![c] = devices]
    BY <1>3, <2>1, <2>2
  <2> QED
    BY <1>4, <1>5, <2>1, <2>3, <2>4
<1> QED
  BY <1>6, <1>7

LEMMA UnsubscribeLeaves ==
    ASSUME IInv, NEW c \in Clients, Unsubscribe(c)
    PROVE  Feed!Leave(c) \/ UNCHANGED Feed!vars
<1> USE DEF IInv
<1>1. /\ c \in listeners /\ listeners' = listeners \ {c}
      /\ known' = [known EXCEPT ![c] = @ \ devices]
      /\ UNCHANGED <<devices, mon, event, raced>>
  BY DEF Unsubscribe, threads, history
<1>2. Coming' = Coming /\ Board' = Board
  BY <1>1, StillHand DEF Board
<1>3. known \in [Clients -> SUBSET Devices] /\ (c \notin raced => known[c] \ devices = {})
  BY <1>1, KnownByClient DEF KnowsNoGhost, FiniteInv, TypeOK
<1>4. CASE c \in raced
  <2>1. Told' = Told /\ listeners' \ raced' = listeners \ raced
    BY <1>1, <1>3, <1>4 DEF Told
  <2> QED
    BY <1>2, <2>1 DEF Feed!vars
<1>5. CASE c \notin raced
  <2>1. known' = [known EXCEPT ![c] = {}]
    BY <1>1, <1>3, <1>5
  <2>2. Told' = [Told EXCEPT ![c] = {}]
    BY <1>1, <1>3, <1>5, <2>1 DEF Told
  <2>3. c \in listeners \ raced /\ listeners' \ raced' = (listeners \ raced) \ {c}
    BY <1>1, <1>5
  <2> QED
    BY <1>2, <2>2, <2>3 DEF Feed!Leave
<1> QED
  BY <1>4, <1>5

\* The calls that start, stop and join the thread are not seen.
LEMMA CallsAreUnseen ==
    ASSUME IInv, NEW c \in Clients, ClientStep(c)
    PROVE  UNCHANGED Feed!vars
<1> USE DEF IInv
<1>1. ASSUME NEW m \in Monitors, Spawn(c, m)
      PROVE  UNCHANGED Feed!vars
  <2>1. AllDead /\ UNCHANGED <<listeners, devices, known, raced>>
    BY <1>1 DEF Spawn, CallsFit, history
  <2>2. \A n \in Monitors : mon'[n] \notin {"tell", "forget"}
    BY <1>1, <2>1 DEF Spawn, Goto, FiniteInv, TypeOK, AllDead
  <2>3. Coming' = {} /\ Leaving' = {}
    BY <2>2 DEF Coming, Leaving, Announcing
  <2> QED
    BY <2>1, <2>3, NoHand, UnseenByFeed
<1>2. CASE Shutdown(c) \/ Flag(c) \/ Join(c)
  <2>1. UNCHANGED <<listeners, devices, known, raced, mon, event>>
    BY <1>2 DEF Shutdown, Flag, Join, globals, threads, history
  <2> QED
    BY <2>1, StillHand, UnseenByFeed
<1> QED
  BY <1>1, <1>2 DEF ClientStep

\* An attached device that is read is on its way to the board, and was not on
\* it; one that was detached stays on it until it is announced.
LEMMA ReceiveArrives ==
    ASSUME IInv, NEW m \in Monitors, NEW fd \in Monitors, Receive(m, fd)
    PROVE  (\E d \in Devices : Feed!Arrive(d)) \/ UNCHANGED Feed!vars
<1> USE DEF IInv, FiniteInv, TypeOK, Goto
<1> DEFINE q    == queue[m]
           kind == Head(q)[1]
           d    == Head(q)[2]
<1>1. MonitorStep(m) /\ mon[m] = "recv" /\ UNCHANGED <<listeners, known, raced>>
  BY DEF MonitorStep, Receive, clients, history
<1>2. fd = m /\ q \in Seq(Messages) /\ q # <<>>
  BY <1>1, PlacesByMonitor DEF Receive, PlaceFits
<1>3. d \in Devices
  BY <1>2, HeadTailProperties DEF Messages
<1>4. \A n \in Monitors : n # m => mon[n] = "dead" /\ mon'[n] = "dead"
  BY <1>1, OthersAreDead
<1>5. Coming = {} /\ Leaving = {} /\ Board = devices
  BY <1>1, <1>4, HandOf DEF Board, Announcing
<1>6. CASE kind = "Attached"
  <2>1. devices' = devices \cup {d} /\ mon'[m] = "tell" /\ event'[m] = <<"add", d>>
    BY <1>2, <1>6 DEF Receive
  <2>2. d \notin devices
    <3>1. Alternates(q, devices)
      BY <1>1 DEF OrderFits, InTurn, Listed
    <3> QED
      BY <1>2, <1>6, <3>1, ReadingAlternates
  <2> HIDE DEF d
  <2>3. Coming' = {d} /\ Leaving' = {}
    <3>1. event'[m][1] = "add" /\ event'[m][2] = d /\ mon'[m] = "tell"
      BY <2>1
    <3> QED
      BY <1>4, <3>1, HandOfNext
  <2>4. Board' = Board
    BY <1>5, <2>1, <2>2, <2>3 DEF Board
  <2>5. Told' = Told
    BY <1>1 DEF Told
  <2>6. Feed!Arrive(d)
    BY <1>1, <1>5, <2>2, <2>3, <2>4, <2>5 DEF Feed!Arrive
  <2> QED
    BY <1>3, <2>6
<1>7. CASE kind # "Attached"
  <2>1. devices' = devices
    BY <1>2, <1>7 DEF Receive
  <2>2. mon'[m] = "loop" \/ (mon'[m] = "tell" /\ event'[m][1] = "remove")
    <3> HIDE DEF d
    <3> QED
      BY <1>2, <1>7 DEF Receive, d
  <2>3. Coming' = {} /\ Leaving' = {}
    BY <1>4, <2>2, HandOfNext
  <2> QED
    BY <1>1, <1>5, <2>1, <2>3, UnseenByFeed
<1> QED
  BY <1>6, <1>7

LEMMA TellPosts ==
    ASSUME IInv, NEW m \in Monitors, Tell(m)
    PROVE  Feed!Post \/ \E d \in Devices : Feed!Withdraw(d)
<1> USE DEF IInv, FiniteInv, TypeOK, Goto
<1> DEFINE d == event[m][2]
<1>1. /\ MonitorStep(m) /\ mon[m] = "tell"
      /\ UNCHANGED <<listeners, devices, raced>>
  BY DEF MonitorStep, Tell, globals, history
<1>2. d \in Devices /\ d \in devices
  BY <1>1, PlacesByMonitor DEF PlaceFits
<1>3. \A n \in Monitors : n # m => mon[n] = "dead" /\ mon'[n] = "dead"
  BY <1>1, OthersAreDead
<1> HIDE DEF d
<1>4. CASE event[m][1] = "add"
  <2>1. Coming = {d} /\ Leaving = {}
    BY <1>1, <1>3, <1>4, HandOf DEF Announcing, d
  <2>2. mon'[m] = "loop"
    BY <1>4 DEF Tell
  <2>3. Coming' = {} /\ Leaving' = {}
    BY <1>3, <2>2, HandOfNext
  <2>4. Board' = Board \cup Coming
    BY <1>1, <1>2, <2>1, <2>3 DEF Board
  <2>5. known' = [c \in Clients |-> IF c \notin listeners THEN known[c]
                                                          ELSE known[c] \cup {d}]
    BY <1>4 DEF Tell, d
  <2>6. Told' = [c \in Clients |-> IF c \in listeners \ raced
                                     THEN Told[c] \cup Coming ELSE Told[c]]
    BY <1>1, <2>1, <2>5 DEF Told
  <2> QED
    BY <1>1, <2>3, <2>4, <2>6 DEF Feed!Post
<1>5. CASE event[m][1] # "add"
  <2>1. Coming = {} /\ Leaving = {}
    BY <1>1, <1>3, <1>5, HandOf DEF Announcing
  <2>2. mon'[m] = "forget" /\ event' = event
    BY <1>5 DEF Tell
  <2>3. Coming' = {} /\ Leaving' = {d}
    BY <1>3, <2>2, HandOfNext DEF d
  <2>4. d \in Board /\ Board' = Board \ {d}
    BY <1>1, <1>2, <2>1, <2>3 DEF Board
  <2>5. known' = [c \in Clients |-> IF c \notin listeners THEN known[c]
                                                          ELSE known[c] \ {d}]
    BY <1>5 DEF Tell, d
  <2>6. Told' = [c \in Clients |-> IF c \in listeners \ raced
                                     THEN Told[c] \ {d} ELSE Told[c]]
    BY <1>1, <2>5 DEF Told
  <2>7. Feed!Withdraw(d)
    BY <1>1, <2>1, <2>3, <2>4, <2>6 DEF Feed!Withdraw
  <2> QED
    BY <1>2, <2>7
<1> QED
  BY <1>4, <1>5

LEMMA MonitorFeeds ==
    ASSUME IInv, NEW m \in Monitors, MonitorStep(m)
    PROVE  [Feed!Next]_(Feed!vars)
<1> USE DEF IInv, FiniteInv, TypeOK, Goto
<1>1. \A n \in Monitors : n # m => mon[n] = "dead" /\ mon'[n] = "dead"
  BY OthersAreDead
<1>2. PlaceFits(m) /\ UNCHANGED <<listeners, raced>>
  BY PlacesByMonitor, MonitorMoves
<1>3. CASE Start(m) \/ Dial(m) \/ Greet(m) \/ Assign(m) \/ Loop(m)
           \/ ReceiveFails(m) \/ Drain(m) \/ Check(m) \/ Again(m)
  <2>1. known' = known /\ mon[m] \notin {"tell", "forget"}
    BY <1>3 DEF Start, Dial, Greet, Assign, Loop, ReceiveFails, Drain, Check,
       Again
  <2>2. devices' = devices
    <3>1. CASE Start(m)
      BY <1>2, <3>1 DEF Start, PlaceFits
    <3> QED
      BY <1>3, <3>1 DEF Dial, Greet, Assign, Loop, ReceiveFails, Drain, Check,
         Again, globals
  <2>3. mon'[m] # "forget" /\ (mon'[m] = "tell" => event'[m][1] = "lost")
    <3>1. CASE Drain(m)
      BY <3>1 DEF Drain
    <3> QED
      BY <1>3, <3>1 DEF Start, Dial, Greet, Assign, Loop, ReceiveFails, Check,
         Again
  <2>4. Coming = {} /\ Leaving = {} /\ Coming' = {} /\ Leaving' = {}
    BY <1>1, <2>1, <2>3, HandOf, HandOfNext DEF Announcing
  <2> QED
    BY <1>2, <2>1, <2>2, <2>4, UnseenByFeed
<1>4. ASSUME NEW fd \in Monitors, Receive(m, fd)
      PROVE  [Feed!Next]_(Feed!vars)
  BY <1>4, ReceiveArrives DEF Feed!Next
<1>5. CASE Tell(m)
  BY <1>5, TellPosts DEF Feed!Next
<1>6. CASE Forget(m)
  <2>1. /\ mon[m] = "forget" /\ mon'[m] \in {"drain", "loop"} /\ known' = known
        /\ devices' = devices \ {event[m][2]}
    BY <1>6 DEF Forget
  <2>2. Coming = {} /\ Leaving = {event[m][2]} /\ Coming' = {} /\ Leaving' = {}
    BY <1>1, <2>1, HandOf, HandOfNext DEF Announcing
  <2>3. Board' = Board
    BY <2>1, <2>2 DEF Board
  <2>4. Told' = Told
    BY <1>2, <2>1 DEF Told
  <2> QED
    BY <1>2, <2>2, <2>3, <2>4 DEF Feed!vars
<1>7. CASE Cleanup(m)
  <2>1. listeners = {} /\ listeners \ raced = {}
    BY <1>7, CleanupIsAsked DEF Cleanup
  <2>2. devices' = {} /\ known' = known /\ mon'[m] = "dead"
    BY <1>7 DEF Cleanup
  <2>3. Coming' = {} /\ Leaving' = {}
    BY <1>1, <2>2, HandOfNext
  <2>4. Board' = {} /\ Told' = Told
    BY <1>2, <2>2 DEF Board, Told
  <2>5. Feed!Clear
    BY <1>2, <2>1, <2>3, <2>4 DEF Feed!Clear
  <2> QED
    BY <2>5 DEF Feed!Next
<1> QED
  BY <1>3, <1>4, <1>5, <1>6, <1>7 DEF MonitorStep

LEMMA FeedStep ==
    ASSUME ~Overlap, IInv, [Next]_vars
    PROVE  [Feed!Next]_(Feed!vars)
<1>1. ASSUME NEW c \in Clients, Subscribe(c) \/ Unsubscribe(c)
      PROVE  [Feed!Next]_(Feed!vars)
  BY <1>1, SubscribeJoins, UnsubscribeLeaves DEF Feed!Next
<1>2. ASSUME NEW c \in Clients, ClientStep(c)
      PROVE  [Feed!Next]_(Feed!vars)
  BY <1>2, CallsAreUnseen
<1>3. ASSUME NEW m \in Monitors, MonitorStep(m)
      PROVE  [Feed!Next]_(Feed!vars)
  BY <1>3, MonitorFeeds
<1>4. CASE (\E d \in Devices : Attach(d) \/ Detach(d)) \/ Stop \/ Restart
           \/ UNCHANGED vars
  <2>1. UNCHANGED <<listeners, devices, known, raced, mon, event>>
    BY <1>4 DEF Attach, Detach, Stop, Restart, vars, globals, threads, history
  <2> QED
    BY <2>1, StillHand, UnseenByFeed
<1> QED
  BY <1>1, <1>2, <1>3, <1>4 DEF Next

\* While calls do not overlap the monitor keeps the promise of DeviceFeed for
\* any number of clients and devices: a device is announced once when it comes
\* and as gone only after that, to all subscribers alike, through lost
\* connections and every start and stop of the thread (libusbmuxd.c:854-875,
\* 1036-1076, 1094-1149, 1185-1219).
THEOREM ImplementsDeviceFeed == ~Overlap => (Spec => KeepsTheFeed)
<1> SUFFICES ASSUME ~Overlap
             PROVE  Spec => KeepsTheFeed
  OBVIOUS
<1>1. IInv /\ [Next]_vars => [Feed!Next]_(Feed!vars)
  BY FeedStep
<1> QED
  BY <1>1, FeedInit, Invariance, PTL DEF Spec, KeepsTheFeed, Feed!Spec

=============================================================================
