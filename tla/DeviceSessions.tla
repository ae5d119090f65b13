--------------------------- MODULE DeviceSessions ---------------------------
(***************************************************************************)
(* What the Rust bridge does on the device through the connection cache:   *)
(* mounting the developer image (mounter.rs), uploading, installing and    *)
(* removing an application (install.rs), starting it under the debugger    *)
(* (jit.rs), and the calls that ask one thing (apps.rs, device.rs,         *)
(* provision.rs).                                                          *)
(*                                                                         *)
(* A session is one call of the bridge.  It obtains its services with      *)
(* calls of RsdCache, one after the other, and sends requests to them;     *)
(* between two requests other sessions run.  All the sessions here are     *)
(* about one application: those about another share only the cache and     *)
(* the image with them.                                                    *)
(***************************************************************************)
EXTENDS RsdCache

CONSTANT MaxSessions  \* sessions that are started (a bound)
ASSUME MaxSessionsAssumption == MaxSessions \in Nat

VARIABLES
    stage,     \* where a session is: in a call of the cache, or before a request
    sessions,  \* how many have been started
    \* the device
    mounted,   \* the developer image is
    ipa,       \* PublicStaging/<bundle>/app.ipa
    app,       \* the application
    \* history
    upload, debug, \* the answer of the last one that ended
    met            \* stages whose sessions overlapped: "mount", "upload", "debug",
                   \* and "refused" once the debug server refused a command

device  == <<mounted, ipa, app>>
answers == <<upload, debug, met>>
all     == <<vars, stage, sessions, mounted, ipa, app, upload, debug, met>>

\* Stages in which the session is in connect_to_rsd_services or in
\* get_or_create_rppairing_rsd_connection, and what it does then.
After == [lockdown  |-> "chip",   mounter  |-> "look",       guard |-> "mount",
          afc       |-> "ensure", proxy    |-> "install",
          remover   |-> "remove", server   |-> "debugger",
          debugger  |-> "launch", attacher |-> "attach",     asker |-> "ask"]
Connecting == DOMAIN After
Requests   == {"chip", "look", "mount", "ensure", "open", "write", "close",
               "install", "remove", "launch", "attach", "detach", "ask"}
\* The first service of each function.
First == {"lockdown", "afc", "proxy", "remover", "server", "attacher", "asker"}

SessionsTypeOK ==
    /\ TypeOK
    /\ stage \in [Callers -> Connecting \cup Requests \cup {"idle"}]
    /\ sessions \in 0..MaxSessions
    /\ mounted \in BOOLEAN
    /\ ipa \in {"none", "partial", "whole"}
    /\ app \in {"absent", "stopped", "suspended", "traced", "running"}
    /\ upload \in {"none", "ok", "err"} /\ debug \in {"none", "ok", "err"}
    /\ met \in SUBSET {"mount", "upload", "debug", "refused"}
    /\ \A c \in Callers : pc[c] = "borrowed" => stage[c] \in {"guard", "mount"}

SessionsInit ==
    /\ Init
    /\ stage = [c \in Callers |-> "idle"]
    /\ sessions = 0
    /\ mounted = FALSE /\ ipa = "none"
    /\ app \in {"absent", "stopped"}
    /\ upload = "none" /\ debug = "none" /\ met = {}

At(c, s) == stage' = [stage EXCEPT ![c] = s]

\* Some other session is at one of these stages.
OtherAt(c, S) == \E d \in Callers \ {c} : stage[d] \in S

Mounting  == {"mounter", "look", "guard", "mount"}
Uploading == {"open", "write", "close"}
Debugging == {"attach", "detach"}

\* Session c comes to stage s: from now on it and the others of its kind meet.
Meets(c, kind, S) ==
    met' = IF OtherAt(c, S) THEN met \cup {kind} ELSE met

Connect(c, s) ==
    /\ Call(c, IF s = "guard" THEN "borrow" ELSE "connect")
    /\ At(c, s)

Begin(c, s) ==
    /\ stage[c] = "idle"
    /\ sessions < MaxSessions
    /\ sessions' = sessions + 1
    /\ Connect(c, s)
    /\ UNCHANGED <<device, answers>>

\* A step inside a call of the cache.  The guard is given back by Mount.
InCache(c) ==
    /\ pc[c] # "borrowed"
    /\ Step(c)
    /\ UNCHANGED <<stage, sessions, device, answers>>

\* The call has returned a service (or the guard), which leads to the next
\* request or the next service ...
Connected(c) ==
    /\ stage[c] \in Connecting
    /\ pc[c] \in {"idle", "borrowed"} /\ reply[c] = "ok"
    /\ IF After[stage[c]] \in Connecting
         THEN Connect(c, After[stage[c]])
         ELSE At(c, After[stage[c]]) /\ UNCHANGED vars
    /\ IF stage[c] = "attacher" THEN Meets(c, "debug", Debugging)
                                ELSE met' = met
    /\ UNCHANGED <<sessions, device, upload, debug>>

\* ... or an error, which ends the session.
NotConnected(c) ==
    /\ stage[c] \in Connecting
    /\ pc[c] = "idle" /\ reply[c] = "err"
    /\ At(c, "idle")
    /\ debug' = IF stage[c] \in {"server", "debugger", "attacher"}
                  THEN "err" ELSE debug
    /\ upload' = IF stage[c] = "afc" THEN "err" ELSE upload
    /\ UNCHANGED <<vars, sessions, device, met>>

-----------------------------------------------------------------------------
(* mount_personalized_ddi_rppairing *)

\* UniqueChipID, and on to the mounter.  4, 5 and 6 are one error here.
Chip(c) ==
    /\ stage[c] = "chip"
    /\ \/ Connect(c, "mounter") /\ Meets(c, "mount", Mounting)
       \/ At(c, "idle") /\ UNCHANGED <<vars, met>>
    /\ UNCHANGED <<sessions, device, upload, debug>>

\* A variant that TLC must refuse: the answer of copy_devices is not looked at.
LookAway(c) ==
    /\ stage[c] = "look"
    /\ Connect(c, "guard")
    /\ UNCHANGED <<sessions, device, answers>>

\* copy_devices: an image that is mounted is success.
Look(c) ==
    /\ stage[c] = "look"
    /\ \/ ~mounted /\ Connect(c, "guard")
       \/ At(c, "idle") /\ UNCHANGED vars
    /\ UNCHANGED <<sessions, device, answers>>

\* A variant that TLC must refuse: an error leaves without dropping the guard.
MountKeepsGuard(c) ==
    /\ stage[c] = "mount"
    /\ Release(c) \/ UNCHANGED vars
    /\ At(c, "idle")
    /\ mounted' \in {mounted, TRUE}
    /\ UNCHANGED <<sessions, ipa, app, answers>>

\* The transfer, under the guard.  An image that is mounted twice is refused or
\* accepted; an answer that is lost is an error too.
Mount(c) ==
    /\ stage[c] = "mount"
    /\ Release(c)
    /\ At(c, "idle")
    /\ mounted' \in {mounted, TRUE}
    /\ UNCHANGED <<sessions, ipa, app, answers>>

-----------------------------------------------------------------------------
(* yeet_app_afc_rppairing, install_ipa_rppairing, remove_app_rppairing *)

UploadEnds(c, answer) ==
    /\ At(c, "idle")
    /\ upload' = answer
    /\ UNCHANGED <<vars, sessions, mounted, app, debug, met>>

\* ensure_afc_directory, twice.
Ensure(c) ==
    /\ stage[c] = "ensure"
    /\ \/ /\ At(c, "open")
          /\ Meets(c, "upload", Uploading)
          /\ UNCHANGED <<vars, sessions, device, upload, debug>>
       \/ UploadEnds(c, "err") /\ ipa' = ipa

\* open(WrOnly) empties the file.
Open(c) ==
    /\ stage[c] = "open"
    /\ \/ /\ At(c, "write")
          /\ ipa' = "partial"
          /\ UNCHANGED <<vars, sessions, mounted, app, answers>>
       \/ UploadEnds(c, "err") /\ ipa' \in {ipa, "partial"}

\* A variant that TLC must refuse: let _ = handle.write_all(..).
WriteIgnoresErrors(c) ==
    /\ stage[c] = "write"
    /\ At(c, "close")
    /\ ipa' \in {"partial", "whole"}
    /\ UNCHANGED <<vars, sessions, mounted, app, answers>>

\* write_all: every byte, or an error after some of them.  Two uploads at once
\* write over each other.
Write(c) ==
    /\ stage[c] = "write"
    /\ \/ /\ At(c, "close")
          /\ ipa' \in IF "upload" \in met THEN {"partial", "whole"} ELSE {"whole"}
          /\ UNCHANGED <<vars, sessions, mounted, app, answers>>
       \/ UploadEnds(c, "err") /\ ipa' = ipa

\* shutdown and close.
Close(c) ==
    /\ stage[c] = "close"
    /\ \E a \in {"ok", "err"} : UploadEnds(c, a)
    /\ ipa' = ipa

\* install: the device checks the package; an answer can be lost.
Install(c) ==
    /\ stage[c] = "install"
    /\ At(c, "idle")
    /\ app' \in {app} \cup IF ipa = "whole" THEN {"stopped"} ELSE {}
    /\ UNCHANGED <<vars, sessions, mounted, ipa, answers>>

\* uninstall
Remove(c) ==
    /\ stage[c] = "remove"
    /\ At(c, "idle")
    /\ app' \in {app, "absent"}
    /\ UNCHANGED <<vars, sessions, mounted, ipa, answers>>

-----------------------------------------------------------------------------
(* debug_app_rppairing, debug_process_rppairing, and single requests *)

DebugEnds(c, answer) ==
    /\ At(c, "idle")
    /\ debug' = answer
    /\ UNCHANGED <<vars, sessions, mounted, ipa, upload>>

\* ProcessControlClient::new and launch_app, suspended, killing the one that
\* runs.  The result of disable_memory_limit is not looked at.
Launch(c) ==
    /\ stage[c] = "launch"
    /\ Meets(c, "debug", Debugging)
    /\ \/ /\ app # "absent"
          /\ At(c, "attach")
          /\ app' = "suspended"
          /\ UNCHANGED <<vars, sessions, mounted, ipa, upload, debug>>
       \/ /\ DebugEnds(c, "err")
          /\ app' \in IF app = "absent" THEN {app} ELSE {app, "suspended"}

\* A variant that TLC must refuse: without the command "D".
AttachOnly(c) ==
    /\ stage[c] = "attach"
    /\ DebugEnds(c, "ok")
    /\ app' = "traced" /\ met' = met

\* vAttach: the process stops under the debugger.  A command that the server
\* refuses is no error of send_command.
Attach(c) ==
    /\ stage[c] = "attach"
    /\ \/ /\ At(c, "detach")
          /\ \/ /\ app \in {"suspended", "running"}
                /\ app' = "traced" /\ met' = met
             \/ app' = app /\ met' = met \cup {"refused"}
          /\ UNCHANGED <<vars, sessions, mounted, ipa, upload, debug>>
       \/ /\ DebugEnds(c, "err")
          /\ app' \in {app} \cup
                 IF app \in {"suspended", "running"} THEN {"traced"} ELSE {}
          /\ met' = met

\* D: the debugger goes, the process runs.
Detach(c) ==
    /\ stage[c] = "detach"
    /\ \/ /\ DebugEnds(c, "ok")
          /\ \/ app' = (IF app = "traced" THEN "running" ELSE app) /\ met' = met
             \/ app' = app /\ met' = met \cup {"refused"}
       \/ /\ DebugEnds(c, "err")
          /\ app' \in {app} \cup IF app = "traced" THEN {"running"} ELSE {}
          /\ met' = met

\* fetch_udid, fetch_all_apps, provisioning profiles: one request.
Ask(c) ==
    /\ stage[c] = "ask"
    /\ At(c, "idle")
    /\ UNCHANGED <<vars, sessions, device, answers>>

-----------------------------------------------------------------------------
(* The device and the rest of the program *)

\* The application ends by itself, or is opened by the user.
AppChanges ==
    /\ \/ app \in {"running", "suspended", "traced"} /\ app' = "stopped"
       \/ app = "stopped" /\ app' = "running"
    /\ UNCHANGED <<vars, stage, sessions, mounted, ipa, answers>>

Elsewhere ==
    /\ \/ \E f \in Files : SetRpPairingFile(f)
       \/ \E t \in Tunnels : TunnelDown(t)
    /\ UNCHANGED <<stage, sessions, device, answers>>

SessionStep(c) ==
    \/ InCache(c) \/ Connected(c) \/ NotConnected(c)
    \/ Chip(c) \/ Look(c) \/ Mount(c)
    \/ Ensure(c) \/ Open(c) \/ Write(c) \/ Close(c) \/ Install(c) \/ Remove(c)
    \/ Launch(c) \/ Attach(c) \/ Detach(c) \/ Ask(c)

SessionsNext ==
    \/ \E c \in Callers, s \in First : Begin(c, s)
    \/ \E c \in Callers : SessionStep(c)
    \/ AppChanges
    \/ Elsewhere

SessionsSpec == SessionsInit /\ [][SessionsNext]_all

\* A thread is scheduled again and every await ends, well or badly.
FairSessionsSpec == SessionsSpec /\ \A c \in Callers : WF_all(SessionStep(c))

-----------------------------------------------------------------------------
(* Properties *)

\* While an image is transferred nobody else uses the connection, and an image
\* is transferred over one that is mounted only by calls that overlapped: both
\* looked before either had the guard (mounter.rs:48-69, rsd.rs:84-104).
ImageIsMountedOnce ==
    \A c \in Callers :
        stage[c] = "mount" => holder = c /\ (mounted => "mount" \in met)

\* A package that is only partly there is never taken for a good one: the last
\* upload says that it failed, or it is still being written, or two uploads
\* wrote over each other (install.rs:24-31).
StagedIsWhole ==
    upload = "ok" /\ "upload" \notin met
        /\ (\A c \in Callers : stage[c] \notin Uploading)
    => ipa = "whole"

\* An application that was started suspended for the debugger and is still
\* halted is still being debugged, or the last call said that it failed,
\* except where two calls debugged it at once or the debug server refused a
\* command, which send_command does not report (jit.rs:19-28, 36-40).
HaltedIsReported ==
    app \in {"suspended", "traced"} =>
        \/ debug = "err" \/ met \cap {"debug", "refused"} # {}
        \/ \E c \in Callers : stage[c] \in Debugging
=============================================================================
