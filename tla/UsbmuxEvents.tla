---------------------------- MODULE UsbmuxEvents ----------------------------
(***************************************************************************)
(* The device monitor of libusbmuxd: how an application is told of the     *)
(* devices that are plugged in and out (usbmuxd_events_subscribe).         *)
(*                                                                         *)
(* The first subscription starts a thread that asks the usbmuxd daemon for *)
(* events and passes them on to the callbacks; the end of the last one     *)
(* stops it.  The list of subscriptions is protected by a mutex.  The      *)
(* thread handle, the socket, the flag `running' and the list of devices   *)
(* are globals that several threads read and write without it.             *)
(*                                                                         *)
(* As src/project.yml builds it: no inotify and no pthread_cancel, so the  *)
(* thread waits for the daemon by polling and is told to end by `running'. *)
(* One step is a section under the mutex, a callback round, a blocking     *)
(* call, or an access of the shared globals.                               *)
(***************************************************************************)
EXTENDS Naturals, Sequences, FiniteSets

CONSTANTS
    Clients,    \* threads of the application, one callback each
    Devices,
    Monitors,   \* identities of the monitor threads that can be made (a bound)
    NoMonitor,
    Overlap,    \* whether a subscription may come while another call has
                \* given back the mutex and is starting or stopping the monitor
    MaxSubs,    \* subscriptions that are made (a bound)
    MaxEvents   \* devices plugged in or out, daemon stops (a bound)

ASSUME MonitorAssumption == NoMonitor \notin Monitors
ASSUME OverlapAssumption == Overlap \in BOOLEAN
ASSUME BoundAssumption == MaxSubs \in Nat /\ MaxEvents \in Nat

VARIABLES
    \* the globals of libusbmuxd.c
    listeners,  \* clients whose context is in the collection
    devices,    \* the list the monitor keeps
    devmon,     \* the handle of the thread, NoMonitor for THREAD_T_NULL
    listenfd,   \* whose connection it is, NoMonitor for -1
    running,
    \* the threads of the application
    pc,         \* "idle", or where its call is
    joining,    \* the thread it waits for
    subs,       \* how many subscriptions there have been
    known,      \* the devices its callback has been told of
    \* the monitor threads
    mon,        \* where each one is
    event,      \* the event a thread is passing on
    \* the daemon
    up,         \* it runs
    attached,   \* the devices it sees
    conn,       \* the connection of a monitor
    queue,      \* messages on that connection
    events,     \* how much has happened
    \* what the C library says of a thread that has ended unjoined
    lingers,
    \* history
    hasty,      \* a monitor was stopped while it had no socket stored, at its
                \* start or between two connections
    raced       \* clients that subscribed while a REMOVE was passed on

globals == <<listeners, devices, devmon, listenfd, running>>
clients == <<pc, joining, subs>>
threads == <<mon, event>>
daemon  == <<up, attached, conn, queue, events>>
history == <<hasty, raced>>
vars    == <<listeners, devices, devmon, listenfd, running,
             pc, joining, subs, known, mon, event,
             up, attached, conn, queue, events, lingers,
             hasty, raced>>

Messages == {"Attached", "Detached"} \X Devices
\* "lost" is the REMOVE that the end of the connection generates.
Kinds    == {"add", "remove", "lost"}
NoEvent  == <<>>
Calls    == {"spawn", "stop", "flag", "join"}
Alive    == {"start", "listen", "greet", "assign", "loop", "recv",
             "tell", "forget", "drain", "check", "again", "cleanup"}

TypeOK ==
    /\ listeners \in SUBSET Clients
    /\ devices \in SUBSET Devices
    /\ devmon \in Monitors \cup {NoMonitor}
    /\ listenfd \in Monitors \cup {NoMonitor}
    /\ running \in BOOLEAN
    /\ pc \in [Clients -> Calls \cup {"idle"}]
    /\ joining \in [Clients -> Monitors \cup {NoMonitor}]
    /\ \A c \in Clients : pc[c] = "join" => joining[c] \in Monitors
    /\ subs \in 0..MaxSubs
    /\ known \in [Clients -> SUBSET Devices]
    /\ mon \in [Monitors -> Alive \cup {"dead"}]
    /\ event \in [Monitors -> {NoEvent} \cup Kinds \X Devices]
    /\ \A m \in Monitors : event[m] # NoEvent <=> mon[m] \in {"tell", "forget"}
    /\ up \in BOOLEAN
    /\ attached \in SUBSET Devices
    /\ conn \in [Monitors -> {"none", "open", "listening", "shut", "lost"}]
    /\ queue \in [Monitors -> Seq(Messages)]
    /\ events \in 0..MaxEvents
    /\ lingers \in BOOLEAN
    /\ hasty \in BOOLEAN
    /\ raced \in SUBSET Clients

Init ==
    /\ listeners = {} /\ devices = {}
    /\ devmon = NoMonitor /\ listenfd = NoMonitor
    /\ running = FALSE
    /\ pc = [c \in Clients |-> "idle"]
    /\ joining = [c \in Clients |-> NoMonitor]
    /\ subs = 0
    /\ known = [c \in Clients |-> {}]
    /\ mon = [m \in Monitors |-> "dead"]
    /\ event = [m \in Monitors |-> NoEvent]
    /\ up \in BOOLEAN
    /\ attached = {}
    /\ conn = [m \in Monitors |-> "none"]
    /\ queue = [m \in Monitors |-> <<>>]
    /\ events = 0
    /\ lingers \in BOOLEAN
    /\ hasty = FALSE /\ raced = {}

\* thread_alive: the handle is not null and pthread_kill(thread, 0) succeeds.
ThreadAlive(m) == m # NoMonitor /\ (mon[m] \in Alive \/ lingers)

Goto(m, p) == mon' = [mon EXCEPT ![m] = p]

-----------------------------------------------------------------------------
(* usbmuxd_events_subscribe and usbmuxd_events_unsubscribe *)

\* Some call is between the section in which it saw that it is the first or
\* the last, and its end.
BetweenSections == \E c \in Clients : pc[c] # "idle"

MaySubscribe(c) ==
    /\ pc[c] = "idle" /\ c \notin listeners /\ subs < MaxSubs
    /\ Overlap \/ ~BetweenSections

\* A variant that TLC must refuse: a later subscriber is not told of the
\* devices that are there.
SubscribeSilently(c) ==
    /\ MaySubscribe(c)
    /\ listeners' = listeners \cup {c}
    /\ pc' = IF ThreadAlive(devmon) THEN pc ELSE [pc EXCEPT ![c] = "spawn"]
    /\ subs' = subs + 1
    /\ UNCHANGED <<devices, devmon, listenfd, running, joining, known, threads,
                   daemon, lingers, hasty, raced>>

\* Under the mutex the context is added.  If there is no thread yet the mutex
\* is given back and one is made, otherwise the callback is told of the
\* devices that are there.
Subscribe(c) ==
    /\ MaySubscribe(c)
    /\ listeners' = listeners \cup {c}
    /\ IF ThreadAlive(devmon)
         THEN /\ known' = [known EXCEPT ![c] = @ \cup devices]
              /\ raced' = IF \E m \in Monitors : mon[m] = "forget"
                            THEN raced \cup {c} ELSE raced
              /\ pc' = pc
         ELSE /\ pc' = [pc EXCEPT ![c] = "spawn"]
              /\ UNCHANGED <<known, raced>>
    /\ subs' = subs + 1
    /\ UNCHANGED <<devices, devmon, listenfd, running, joining, threads,
                   daemon, lingers, hasty>>

\* thread_new(&devmon, device_monitor).  Handles of ended threads are used
\* again.
Spawn(c, m) ==
    /\ pc[c] = "spawn"
    /\ mon[m] = "dead" /\ \A b \in Clients : joining[b] # m
    /\ Goto(m, "start")
    /\ conn' = [conn EXCEPT ![m] = "none"]
    /\ queue' = [queue EXCEPT ![m] = <<>>]
    /\ devmon' = m
    /\ pc' = [pc EXCEPT ![c] = "idle"]
    /\ UNCHANGED <<listeners, devices, listenfd, running, joining, subs, known,
                   event, up, attached, events, lingers, history>>

\* Under the mutex the context is taken out and told that every device has
\* gone; whoever leaves nobody behind stops the monitor.
Unsubscribe(c) ==
    /\ pc[c] = "idle" /\ c \in listeners
    /\ listeners' = listeners \ {c}
    /\ known' = [known EXCEPT ![c] = @ \ devices]
    /\ pc' = IF listeners' = {} THEN [pc EXCEPT ![c] = "stop"] ELSE pc
    /\ UNCHANGED <<devices, devmon, listenfd, running, joining, subs, threads,
                   daemon, lingers, history>>

\* A variant that TLC must refuse: the thread is told by the flag alone.
ShutdownSkipped(c) ==
    /\ pc[c] = "stop"
    /\ pc' = [pc EXCEPT ![c] = "flag"]
    /\ UNCHANGED <<globals, joining, subs, known, threads, daemon, lingers,
                   history>>

\* socket_shutdown(listenfd, SHUT_RDWR).  Between two connections that is the
\* socket of the earlier one, until usbmuxd_listen has returned the new one.
Shutdown(c) ==
    /\ pc[c] = "stop"
    /\ pc' = [pc EXCEPT ![c] = "flag"]
    /\ conn' = [m \in Monitors |->
                  IF /\ m = listenfd /\ mon[m] \notin {"greet", "assign"}
                     /\ conn[m] \in {"open", "listening"}
                    THEN "shut" ELSE conn[m]]
    /\ hasty' = (hasty \/ (devmon # NoMonitor /\
                   mon[devmon] \in {"start", "listen", "greet", "assign", "again"}))
    /\ UNCHANGED <<globals, joining, subs, known, threads,
                   up, attached, queue, events, lingers, raced>>

\* A variant that TLC must refuse: thread_cancel is taken to have succeeded.
FlagTrustsCancel(c) ==
    /\ pc[c] = "flag"
    /\ IF ThreadAlive(devmon)
         THEN /\ pc' = [pc EXCEPT ![c] = "join"]
              /\ joining' = [joining EXCEPT ![c] = devmon]
         ELSE /\ pc' = [pc EXCEPT ![c] = "idle"]
              /\ joining' = joining
    /\ UNCHANGED <<globals, subs, known, threads, daemon, lingers, history>>

\* if (thread_alive(devmon)): thread_cancel fails in this build, so the flag
\* is cleared, and thread_join(devmon) begins.
Flag(c) ==
    /\ pc[c] = "flag"
    /\ IF ThreadAlive(devmon)
         THEN /\ running' = FALSE
              /\ pc' = [pc EXCEPT ![c] = "join"]
              /\ joining' = [joining EXCEPT ![c] = devmon]
         ELSE /\ pc' = [pc EXCEPT ![c] = "idle"]
              /\ UNCHANGED <<running, joining>>
    /\ UNCHANGED <<listeners, devices, devmon, listenfd, subs, known, threads,
                   daemon, lingers, history>>

\* The thread has ended; devmon = THREAD_T_NULL.
Join(c) ==
    /\ pc[c] = "join"
    /\ mon[joining[c]] = "dead"
    /\ devmon' = NoMonitor
    /\ pc' = [pc EXCEPT ![c] = "idle"]
    /\ joining' = [joining EXCEPT ![c] = NoMonitor]
    /\ UNCHANGED <<listeners, devices, listenfd, running, subs, known, threads,
                   daemon, lingers, history>>

-----------------------------------------------------------------------------
(* device_monitor: thread m *)

Start(m) ==
    /\ mon[m] = "start"
    /\ running' = TRUE
    /\ devices' = {}
    /\ Goto(m, "listen")
    /\ UNCHANGED <<listeners, devmon, listenfd, clients, known, event, daemon,
                   lingers, history>>

\* usbmuxd_listen_poll: a connection to the daemon, tried until there is one,
\* or until nobody is subscribed.  The socket of an earlier round is forgotten.
Dial(m) ==
    /\ mon[m] = "listen"
    /\ \/ /\ up
          /\ conn' = [conn EXCEPT ![m] = "open"]
          /\ queue' = [queue EXCEPT ![m] = <<>>]
          /\ Goto(m, "greet")
          /\ listenfd' = listenfd
       \/ /\ ~up /\ listeners = {}
          /\ Goto(m, "again")
          /\ listenfd' = NoMonitor
          /\ UNCHANGED <<conn, queue>>
    /\ UNCHANGED <<listeners, devices, devmon, running, clients, known, event,
                   up, attached, events, lingers, history>>

\* The sequences that hold every device of S once.
Listings(S) ==
    {s \in [1..Cardinality(S) -> {"Attached"} \X S] :
        \A i, j \in DOMAIN s : s[i] = s[j] => i = j}

\* The daemon answers the Listen request and reports what is attached.
Greet(m) ==
    /\ mon[m] = "greet"
    /\ \/ /\ conn[m] = "open"
          /\ conn' = [conn EXCEPT ![m] = "listening"]
          /\ \E s \in Listings(attached) : queue' = [queue EXCEPT ![m] = s]
          /\ Goto(m, "assign")
          /\ listenfd' = listenfd
       \* It has gone: the request cannot be sent, or the answer does not come,
       \* which usbmuxd_listen takes for a success.
       \/ /\ conn[m] = "lost"
          /\ \/ Goto(m, "assign") /\ listenfd' = listenfd
             \/ Goto(m, "again")  /\ listenfd' = NoMonitor
          /\ UNCHANGED <<conn, queue>>
    /\ UNCHANGED <<listeners, devices, devmon, running, clients, known, event,
                   up, attached, events, lingers, history>>

\* listenfd = usbmuxd_listen()
Assign(m) ==
    /\ mon[m] = "assign"
    /\ listenfd' = m
    /\ Goto(m, "loop")
    /\ UNCHANGED <<listeners, devices, devmon, running, clients, known, event,
                   daemon, lingers, history>>

\* while (running)
Loop(m) ==
    /\ mon[m] = "loop"
    /\ Goto(m, IF running THEN "recv" ELSE "check")
    /\ UNCHANGED <<globals, clients, known, event, daemon, lingers, history>>

\* get_next_event(listenfd), a packet: an attached device is put on the list
\* and announced; one that is detached is announced if it is on the list.
Receive(m, fd) ==
    /\ mon[m] = "recv"
    /\ fd = listenfd
    /\ queue[fd] # <<>>
    /\ queue' = [queue EXCEPT ![fd] = Tail(@)]
    /\ LET kind == Head(queue[fd])[1]
           d    == Head(queue[fd])[2]
       IN  CASE kind = "Attached" ->
                  /\ devices' = devices \cup {d}
                  /\ event' = [event EXCEPT ![m] = <<"add", d>>]
                  /\ Goto(m, "tell")
             [] kind = "Detached" /\ d \in devices ->
                  /\ event' = [event EXCEPT ![m] = <<"remove", d>>]
                  /\ Goto(m, "tell")
                  /\ devices' = devices
             [] OTHER ->
                  /\ Goto(m, "loop")
                  /\ UNCHANGED <<devices, event>>
    /\ UNCHANGED <<listeners, devmon, listenfd, running, clients, known,
                   up, attached, conn, events, lingers, history>>

\* There is nothing more to read and the other end, or unsubscribe, has closed
\* the connection.  What was still in the buffer of a socket that was shut
\* down may or may not be read.
ConnectionOver ==
    listenfd # NoMonitor =>
        \/ conn[listenfd] = "lost" /\ queue[listenfd] = <<>>
        \/ conn[listenfd] \in {"shut", "none"}

\* A variant that TLC must refuse: the devices stay on the list.
ReceiveFailsKeepsDevices(m) ==
    /\ mon[m] = "recv"
    /\ ConnectionOver
    /\ Goto(m, "check")
    /\ UNCHANGED <<globals, clients, known, event, daemon, lingers, history>>

\* get_next_event, an error.
ReceiveFails(m) ==
    /\ mon[m] = "recv"
    /\ ConnectionOver
    /\ Goto(m, "drain")
    /\ UNCHANGED <<globals, clients, known, event, daemon, lingers, history>>

\* FOREACH(dev, &devices) of the error path.
Drain(m) ==
    /\ mon[m] = "drain"
    /\ IF devices = {}
         THEN Goto(m, "check") /\ event' = event
         ELSE /\ Goto(m, "tell")
              /\ \E d \in devices : event' = [event EXCEPT ![m] = <<"lost", d>>]
    /\ UNCHANGED <<globals, clients, known, daemon, lingers, history>>

\* generate_event, under the mutex.
Tell(m) ==
    /\ mon[m] = "tell"
    /\ LET add == event[m][1] = "add"
           d   == event[m][2]
       IN  /\ known' = [c \in Clients |->
                          IF c \notin listeners THEN known[c]
                          ELSE IF add THEN known[c] \cup {d}
                                      ELSE known[c] \ {d}]
           /\ Goto(m, IF add THEN "loop" ELSE "forget")
           /\ event' = IF add THEN [event EXCEPT ![m] = NoEvent] ELSE event
    /\ UNCHANGED <<globals, clients, daemon, lingers, history>>

\* A variant that TLC must refuse: the freed record is still in use.
ForgetKeepsEvent(m) ==
    /\ mon[m] = "forget"
    /\ devices' = devices \ {event[m][2]}
    /\ Goto(m, IF event[m][1] = "lost" THEN "drain" ELSE "loop")
    /\ UNCHANGED <<listeners, devmon, listenfd, running, clients, known, event,
                   daemon, lingers, history>>

\* collection_remove(&devices, dev)
Forget(m) ==
    /\ mon[m] = "forget"
    /\ devices' = devices \ {event[m][2]}
    /\ Goto(m, IF event[m][1] = "lost" THEN "drain" ELSE "loop")
    /\ event' = [event EXCEPT ![m] = NoEvent]
    /\ UNCHANGED <<listeners, devmon, listenfd, running, clients, known,
                   daemon, lingers, history>>

\* A variant that TLC must refuse: the end of the connection ends the thread.
CheckEnds(m) ==
    /\ mon[m] = "check"
    /\ running' = FALSE
    /\ Goto(m, "again")
    /\ UNCHANGED <<listeners, devices, devmon, listenfd, clients, known, event,
                   daemon, lingers, history>>

\* Under the mutex: if nobody is subscribed, running = 0.
Check(m) ==
    /\ mon[m] = "check"
    /\ running' = (running /\ listeners # {})
    /\ Goto(m, "again")
    /\ UNCHANGED <<listeners, devices, devmon, listenfd, clients, known, event,
                   daemon, lingers, history>>

\* do ... while (running)
Again(m) ==
    /\ mon[m] = "again"
    /\ Goto(m, IF running THEN "listen" ELSE "cleanup")
    /\ UNCHANGED <<globals, clients, known, event, daemon, lingers, history>>

\* device_monitor_cleanup
Cleanup(m) ==
    /\ mon[m] = "cleanup"
    /\ devices' = {}
    /\ conn' = [f \in Monitors |-> IF f = listenfd THEN "none" ELSE conn[f]]
    /\ queue' = [f \in Monitors |-> IF f = listenfd THEN <<>> ELSE queue[f]]
    /\ listenfd' = NoMonitor
    /\ Goto(m, "dead")
    /\ UNCHANGED <<listeners, devmon, running, clients, known, event,
                   up, attached, events, lingers, history>>

-----------------------------------------------------------------------------
(* The daemon and the devices *)

Happens == events < MaxEvents /\ events' = events + 1

Report(kind, d) ==
    queue' = [m \in Monitors |->
                IF conn[m] = "listening" THEN Append(queue[m], <<kind, d>>)
                                         ELSE queue[m]]

Attach(d) ==
    /\ Happens
    /\ d \notin attached
    /\ attached' = attached \cup {d}
    /\ Report("Attached", d)
    /\ UNCHANGED <<globals, clients, known, threads, up, conn, lingers,
                   history>>

Detach(d) ==
    /\ Happens
    /\ d \in attached
    /\ attached' = attached \ {d}
    /\ Report("Detached", d)
    /\ UNCHANGED <<globals, clients, known, threads, up, conn, lingers,
                   history>>

Stop ==
    /\ Happens
    /\ up
    /\ up' = FALSE
    /\ conn' = [m \in Monitors |->
                  IF conn[m] \in {"open", "listening"} THEN "lost"
                                                       ELSE conn[m]]
    /\ UNCHANGED <<globals, clients, known, threads, attached, queue, lingers,
                   history>>

Restart ==
    /\ ~up
    /\ up' = TRUE
    /\ UNCHANGED <<globals, clients, known, threads, attached, conn, queue,
                   events, lingers, history>>

ClientStep(c) ==
    \/ \E m \in Monitors : Spawn(c, m)
    \/ Shutdown(c) \/ Flag(c) \/ Join(c)

MonitorStep(m) ==
    \/ Start(m) \/ Dial(m) \/ Greet(m) \/ Assign(m) \/ Loop(m)
    \/ (\E fd \in Monitors : Receive(m, fd)) \/ ReceiveFails(m) \/ Drain(m)
    \/ Tell(m) \/ Forget(m) \/ Check(m) \/ Again(m) \/ Cleanup(m)

Next ==
    \/ \E c \in Clients : Subscribe(c) \/ Unsubscribe(c) \/ ClientStep(c)
    \/ \E m \in Monitors : MonitorStep(m)
    \/ \E d \in Devices : Attach(d) \/ Detach(d)
    \/ Stop \/ Restart

Spec == Init /\ [][Next]_vars

\* The threads of the application and the monitors are scheduled.  Nothing is
\* assumed of the devices, of the daemon or of who subscribes.
Fairness ==
    /\ \A c \in Clients : WF_vars(ClientStep(c))
    /\ \A m \in Monitors : WF_vars(MonitorStep(m))

FairSpec == Spec /\ Fairness

-----------------------------------------------------------------------------
(* Properties *)

\* While calls do not overlap there is one monitor at most, and whoever is
\* subscribed has it: it is the one devmon names, it is not on its way out,
\* and no lost connection has ended it (libusbmuxd.c:1120-1140, 1177-1184,
\* 1226-1239).
OneMonitor ==
    /\ \A m, n \in Monitors : mon[m] \in Alive /\ mon[n] \in Alive => m = n
    /\ listeners # {} /\ ~BetweenSections =>
           /\ devmon # NoMonitor
           /\ mon[devmon] \in Alive \ {"cleanup"}
           /\ running \/ mon[devmon] = "start"

\* When the monitor has nothing left to read, a subscriber knows every device
\* that is attached, however often the daemon was restarted, and no other
\* one; only a client that subscribed between the announcement of a removal
\* and the removal from the list may keep a ghost.  A client that has
\* unsubscribed was told that everything it knew has gone
\* (libusbmuxd.c:1036-1048, 1057-1076, 1185-1195, 1209-1219).
Quiet(m) ==
    /\ mon[m] = "recv" /\ listenfd = m
    /\ conn[m] = "listening" /\ queue[m] = <<>>
QuietIsInformed ==
    \A c \in Clients :
        /\ c \in listeners /\ (\E m \in Monitors : Quiet(m)) =>
               /\ attached \subseteq known[c]
               /\ c \notin raced => known[c] = attached
        /\ c \notin listeners /\ c \notin raced => known[c] = {}

\* The devices as a board: one that is being announced is not on it yet, one
\* whose removal has been announced no more.  A client that subscribed in
\* between, while the removed device was still on the list, is left out.
Announcing(m, kinds) == mon[m] = "tell" /\ event[m][1] \in kinds
Coming  == {event[m][2] : m \in {n \in Monitors : Announcing(n, {"add"})}}
Leaving == {event[m][2] : m \in {n \in Monitors : mon[n] = "forget"}}
Board   == devices \ (Coming \cup Leaving)
Told    == [c \in Clients |-> IF c \in raced THEN {} ELSE known[c]]
Feed == INSTANCE DeviceFeed
    WITH board      <- Board,
         coming     <- Coming,
         subscribed <- listeners \ raced,
         told       <- Told

\* While calls do not overlap the monitor keeps the promise of DeviceFeed: all
\* subscribers are told the same, a device is announced once when it comes, and
\* as gone only after that, through lost connections, restarts of the daemon
\* and every start and stop of the thread (libusbmuxd.c:854-875, 1036-1076,
\* 1094-1149, 1185-1219).
KeepsTheFeed == Feed!Spec

\* A subscriber is told of a device that stays, as long as the daemon runs:
\* no event is lost between the subscription, the start of the thread, the
\* connection and its loss (libusbmuxd.c:854-875, 1112-1149, 1157-1199).
AttachIsTold ==
    \A c \in Clients, d \in Devices :
        (c \in listeners /\ d \in attached /\ up) ~>
            (d \in known[c] \/ c \notin listeners \/ d \notin attached \/ ~up)

\* unsubscribe returns, unless the monitor was on its way to a connection,
\* the first or a later one: then the shutdown misses the socket, or
\* running = 0 comes before the thread's running = 1, and the join waits for a
\* thread that blocks in recv (libusbmuxd.c:1114, 1123, 1226-1239).
UnsubscribeReturns ==
    \A c \in Clients :
        pc[c] = "stop" ~> (pc[c] = "idle" \/ hasty)

\* What unsubscribe waits for happens by itself, outside that window: a monitor
\* that it joins makes no new connection, does not wait for one that is open,
\* and finds the flag cleared (libusbmuxd.c:1128-1149, 1226-1239).
JoinedEnds ==
    \A c \in Clients : pc[c] = "join" /\ ~hasty =>
        /\ ~running
        /\ mon[joining[c]] \notin {"start", "listen", "greet", "assign"}
        /\ mon[joining[c]] = "recv" =>
               queue[joining[c]] # <<>> \/ ConnectionOver

\* A subscription that has returned is served: while no call is under way and
\* somebody is subscribed, a monitor runs.  ("Add new
\* usbmuxd_events_subscribe/unsubscribe functions with a context so it can be
\* used in different threads", NEWS of libusbmuxd, 2.0.0.)
SubscribersAreServed ==
    listeners # {} /\ ~BetweenSections =>
        \E m \in Monitors : mon[m] \in Alive
=============================================================================
