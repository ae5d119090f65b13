------------------------------ MODULE Dashboard ------------------------------
(***************************************************************************)
(* The main thread of the application: the pairing file and what the views *)
(* know of it (PairingManager), and the engine test that the dashboard     *)
(* starts (DashboardViewModel.establishLockdownConnection, LockdownEngine  *)
(* and AppDiscoveryEngine).  The lines of the terminal are left out.       *)
(*                                                                         *)
(* Nothing here is assigned where it is computed.  Every change of the     *)
(* published properties is a block on the main queue, put there by a       *)
(* handler, by one of the threads the tests run on, or by a timer, and     *)
(* run later, in the order of arrival.                                     *)
(***************************************************************************)
EXTENDS Naturals, Sequences

CONSTANTS
    Files,    \* pairing files the user can choose
    Content,  \* what is in each of them
    Tests,    \* engine tests that are started (a bound)
    MaxPicks, \* files the user chooses or deletes (a bound)
    None

\* parses: a property list; dict: its root is a dictionary; hostID and
\* systemBUID: it has that key; text: it is UTF-8, that is an XML property
\* list; known: it has private_key or UDID; rp: it has private_key.
ASSUME ContentAssumption ==
    /\ Content \in [Files -> [parses : BOOLEAN, dict : BOOLEAN,
                              hostID : BOOLEAN, systemBUID : BOOLEAN,
                              text : BOOLEAN, known : BOOLEAN, rp : BOOLEAN]]
    /\ \A f \in Files :
         /\ Content[f].dict => Content[f].parses
         /\ Content[f].rp => Content[f].known
         /\ Content[f].hostID \/ Content[f].systemBUID \/ Content[f].known
              => Content[f].dict
ASSUME NoneAssumption == None \notin Files \cup Tests
ASSUME BoundAssumption == MaxPicks \in Nat

VARIABLES
    file,      \* pairing_file.plist in the documents directory
    isPaired, hostID, hasMissingKeys, errorMessage, \* PairingManager
    picks,     \* files chosen or deleted so far
    mainQ,     \* DispatchQueue.main
    pc,        \* where the thread of each test is
    isTesting, showAppList, apps, \* DashboardViewModel; whose apps they are
    overlapped, \* history: a test was started while another was under way
    latest     \* history: the test whose first block ran last

pairing == <<file, isPaired, hostID, hasMissingKeys, errorMessage, picks>>
screen == <<isTesting, showAppList, apps>>
history == <<overlapped, latest>>
vars == <<file, isPaired, hostID, hasMissingKeys, errorMessage, picks, mainQ,
          pc, isTesting, showAppList, apps, overlapped, latest>>

Block(do, of) == <<[do |-> do, of |-> of]>>
PairingBlocks == {"host", "unreadable", "paired", "unpaired", "error"}
TestBlocks == {"begin", "apps", "teardown", "stop"}

TypeOK ==
    /\ file \in Files \cup {None}
    /\ isPaired \in BOOLEAN
    /\ hostID \in Files \cup {None}
    /\ hasMissingKeys \in BOOLEAN
    /\ errorMessage \in BOOLEAN
    /\ picks \in 0..MaxPicks
    /\ mainQ \in Seq([do : PairingBlocks, of : Files \cup {None}]
                       \cup [do : TestBlocks, of : Tests])
    /\ pc \in [Tests -> {"new", "starting", "engine", "fetch", "timer", "done"}]
    /\ isTesting \in BOOLEAN
    /\ showAppList \in BOOLEAN
    /\ apps \in Tests \cup {None}
    /\ overlapped \in BOOLEAN
    /\ latest \in Tests \cup {None}

Missing(f) == ~(Content[f].hostID /\ Content[f].systemBUID)
HostIDOf(f) == IF f # None /\ Content[f].hostID THEN f ELSE None

\* parseFile: a file that is read but is not a dictionary leaves no block.
ParseFile(f) ==
    IF ~Content[f].parses THEN Block("unreadable", f)
    ELSE IF Content[f].dict THEN Block("host", f)
    ELSE <<>>

CheckAndLoadFile(f) ==
    IF f = None THEN Block("unpaired", None)
                ELSE ParseFile(f) \o Block("paired", f)

\* Launch: PairingManager.init looks for the file of an earlier launch.
Init ==
    /\ file \in Files \cup {None}
    /\ mainQ = CheckAndLoadFile(file)
    /\ isPaired = FALSE /\ hostID = None
    /\ hasMissingKeys = FALSE /\ errorMessage = FALSE
    /\ picks = 0
    /\ pc = [t \in Tests |-> "new"]
    /\ isTesting = FALSE /\ showAppList = FALSE /\ apps = None
    /\ overlapped = FALSE /\ latest = None

-----------------------------------------------------------------------------
(* PairingManager *)

PicksOne ==
    /\ picks < MaxPicks
    /\ picks' = picks + 1
    /\ UNCHANGED <<isPaired, hostID, hasMissingKeys, errorMessage, pc, screen,
                   history>>

\* importFile.  The dashboard offers it while it shows no pairing, in a sheet
\* that takes turns of the main queue to appear.  A file that is too large or
\* cannot be read only leaves a message; the old file goes before the copy.
Import(f) ==
    /\ PicksOne
    /\ ~isPaired
    /\ \A i \in DOMAIN mainQ : mainQ[i].do \notin PairingBlocks
    /\ \/ file' = f /\ mainQ' = mainQ \o CheckAndLoadFile(f)
       \/ file' \in {file, None} /\ mainQ' = mainQ \o Block("error", None)

\* deleteFile, in the settings, once the device is shown as paired.  When the
\* file cannot be removed nothing changes.
DeleteFile ==
    /\ PicksOne
    /\ isPaired
    /\ file' = None
    /\ mainQ' = mainQ \o CheckAndLoadFile(None)

-----------------------------------------------------------------------------
(* The thread of a test *)

UnderWay == {"starting", "engine", "fetch", "timer"}

\* The button, enabled while isTesting is false and a hostID is known.
StartTest(t) ==
    /\ pc[t] = "new"
    /\ ~isTesting /\ hostID # None
    /\ pc' = [pc EXCEPT ![t] = "starting"]
    /\ mainQ' = mainQ \o Block("begin", t)
    /\ overlapped' = (overlapped \/ \E u \in Tests : pc[u] \in UnderWay)
    /\ UNCHANGED <<pairing, screen, latest>>

Thread(t, from, to, block) ==
    /\ pc[t] = from
    /\ pc' = [pc EXCEPT ![t] = to]
    /\ mainQ' = mainQ \o block
    /\ UNCHANGED <<pairing, screen, history>>

\* executeNativeEngine reads what the file is now.  It returns whether or not
\* the device can be reached, and throws for a file it cannot use.
Usable == file # None /\ Content[file].text /\ Content[file].known
EngineReturns(t) == Usable /\ Thread(t, "engine", "fetch", <<>>)

\* Mutant of EngineThrows: the catch clause returns, without the timer.
EngineThrowsReturns(t) ==
    /\ IF Usable THEN Content[file].rp ELSE TRUE
    /\ Thread(t, "engine", "done", <<>>)

EngineThrows(t) ==
    /\ IF Usable THEN Content[file].rp ELSE TRUE
    /\ Thread(t, "engine", "timer", <<>>)

\* Mutant of AppsFound: the button is freed first, and the list set last.
AppsFoundLate(t) ==
    Thread(t, "fetch", "done", Block("stop", t) \o Block("apps", t))

\* fetchAllApps, and the list it returns or the catch clause.
AppsFound(t) == Thread(t, "fetch", "timer", Block("apps", t))

\* Mutant of NoApps: nothing catches what fetchAllApps throws.
NoAppsTraps(t) == Thread(t, "fetch", "trapped", <<>>)

NoApps(t) == Thread(t, "fetch", "timer", <<>>)

\* A second later.
Timer(t) == Thread(t, "timer", "done", Block("teardown", t))

-----------------------------------------------------------------------------
(* The blocks of the main queue *)

Runs(do) ==
    /\ mainQ # <<>>
    /\ Head(mainQ).do = do
    /\ mainQ' = Tail(mainQ)
Of == Head(mainQ).of

\* Mutant of Begin: the old list stays.
BeginKeepsList ==
    /\ Runs("begin")
    /\ isTesting' = TRUE
    /\ pc' = [pc EXCEPT ![Of] = "engine"]
    /\ latest' = Of
    /\ UNCHANGED <<pairing, showAppList, apps, overlapped>>

\* What the test does to the screen first, and the start of its thread.
Begin ==
    /\ Runs("begin")
    /\ isTesting' = TRUE
    /\ showAppList' = FALSE
    /\ pc' = [pc EXCEPT ![Of] = "engine"]
    /\ latest' = Of
    /\ UNCHANGED <<pairing, apps, overlapped>>

SetApps ==
    /\ Runs("apps")
    /\ apps' = Of
    /\ showAppList' = TRUE
    /\ UNCHANGED <<pairing, pc, isTesting, history>>

\* teardown() puts its own block at the end of the queue.
Teardown ==
    /\ mainQ # <<>>
    /\ Head(mainQ).do = "teardown"
    /\ mainQ' = Tail(mainQ) \o Block("stop", Of)
    /\ UNCHANGED <<pairing, pc, screen, history>>

Stop ==
    /\ Runs("stop")
    /\ isTesting' = FALSE
    /\ UNCHANGED <<pairing, pc, showAppList, apps, history>>

SetHost ==
    /\ Runs("host")
    /\ hostID' = HostIDOf(Of)
    /\ hasMissingKeys' = Missing(Of)
    /\ UNCHANGED <<file, isPaired, errorMessage, picks, pc, screen, history>>

SetUnreadable ==
    /\ Runs("unreadable")
    /\ hasMissingKeys' = TRUE
    /\ UNCHANGED <<file, isPaired, hostID, errorMessage, picks, pc, screen,
                   history>>

SetPaired ==
    /\ Runs("paired")
    /\ isPaired' = TRUE
    /\ errorMessage' = FALSE
    /\ UNCHANGED <<file, hostID, hasMissingKeys, picks, pc, screen, history>>

\* Mutant of SetUnpaired: only isPaired is reset.
SetUnpairedOnly ==
    /\ Runs("unpaired")
    /\ isPaired' = FALSE
    /\ UNCHANGED <<file, hostID, hasMissingKeys, errorMessage, picks, pc,
                   screen, history>>

SetUnpaired ==
    /\ Runs("unpaired")
    /\ isPaired' = FALSE
    /\ hostID' = None
    /\ hasMissingKeys' = FALSE
    /\ UNCHANGED <<file, errorMessage, picks, pc, screen, history>>

SetError ==
    /\ Runs("error")
    /\ errorMessage' = TRUE
    /\ UNCHANGED <<file, isPaired, hostID, hasMissingKeys, picks, pc, screen,
                   history>>

-----------------------------------------------------------------------------

MainThread ==
    \/ Begin \/ SetApps \/ Teardown \/ Stop
    \/ SetHost \/ SetUnreadable \/ SetPaired \/ SetUnpaired \/ SetError
ThreadStep(t) ==
    \/ EngineReturns(t) \/ EngineThrows(t) \/ AppsFound(t) \/ NoApps(t)
    \/ Timer(t)

Next ==
    \/ \E f \in Files : Import(f)
    \/ DeleteFile
    \/ \E t \in Tests : StartTest(t) \/ ThreadStep(t)
    \/ MainThread

Spec == Init /\ [][Next]_vars

\* The main queue is served, and the calls into the bridge return.
Fairness == WF_vars(MainThread) /\ \A t \in Tests : WF_vars(ThreadStep(t))
FairSpec == Spec /\ Fairness

-----------------------------------------------------------------------------
(* Properties *)

\* Nothing of PairingManager is waiting in the main queue.
Settled == \A i \in DOMAIN mainQ : mainQ[i].do \notin PairingBlocks

\* Once its blocks have run, what PairingManager publishes is what is on the
\* disk, whatever was imported, deleted or failed before.
SettledIsTheFile ==
    Settled => /\ isPaired = (file # None)
               /\ hostID = HostIDOf(file)
               /\ hasMissingKeys =>
                    file # None /\ (~Content[file].parses \/ Missing(file))

\* The settings warn of a file without HostID or SystemBUID.
MissingKeysAreReported ==
    Settled /\ file # None /\ Missing(file) => hasMissingKeys

\* While no two tests have been started at once: when the button is free
\* again, the test that had it has ended and left nothing behind.
FreeButtonIsIdle ==
    ~overlapped /\ ~isTesting =>
        \A t \in Tests :
          /\ pc[t] \in {"new", "starting", "done"}
          /\ \A i \in DOMAIN mainQ :
               mainQ[i].do \notin {"apps", "teardown", "stop"}

\* Unless tests overlapped, the list on the screen is never an old one: it is
\* that of the test the user started last.
ListIsOfTheLatest == showAppList /\ ~overlapped => apps = latest

\* The button comes back after every test, whether it failed or not and
\* however many were started.
ButtonComesBack == isTesting ~> ~isTesting
=============================================================================
