------------------------ MODULE DeviceSessionsProofs ------------------------
(***************************************************************************)
(* Theorems about DeviceSessions, for any number of threads, sessions,     *)
(* files and tunnels.                                                      *)
(***************************************************************************)
EXTENDS DeviceSessions, RsdCacheProofs

\* What a session can conclude from the answer of the cache: a call that has
\* not returned has no answer, and the guard comes with the answer "ok".
ReplyFits ==
    \A c \in Callers :
        /\ pc[c] \notin {"idle", "borrowed"} => reply[c] = "none"
        /\ pc[c] = "borrowed" => reply[c] = "ok" /\ op[c] = "borrow"
        /\ pc[c] = "serve" => op[c] = "connect"

\* A session is in the cache while it waits for a service, and holds the guard
\* afterwards only to mount.
StageFits ==
    \A c \in Callers :
        /\ stage[c] \in Connecting => (op[c] = "borrow" <=> stage[c] = "guard")
        /\ stage[c] \in Connecting /\ pc[c] = "idle" =>
               reply[c] = "err" \/ (reply[c] = "ok" /\ stage[c] # "guard")
        /\ stage[c] = "mount" => pc[c] = "borrowed"
        /\ stage[c] \notin Connecting \cup {"mount"} => pc[c] = "idle"

\* Sessions that are at it at the same time are known to have met.
Met(kind, S) ==
    \A c, d \in Callers :
        c # d /\ stage[c] \in S /\ stage[d] \in S => kind \in met

\* Who is past copy_devices has seen that no image is mounted, and only who met
\* it there can have mounted one since.
ImageInv ==
    /\ Met("mount", Mounting)
    /\ \A c \in Callers :
           stage[c] \in {"guard", "mount"} => (mounted => "mount" \in met)

\* Who is past write_all has written every byte.
UploadInv ==
    /\ Met("upload", Uploading)
    /\ \A c \in Callers : stage[c] = "close" => "upload" \in met \/ ipa = "whole"
    /\ StagedIsWhole

\* Who is past vAttach has the process stopped under the debugger, or it ended.
DebugInv ==
    /\ Met("debug", Debugging)
    /\ \A c \in Callers :
           stage[c] = "detach" =>
               app # "suspended" \/ met \cap {"debug", "refused"} # {}
    /\ HaltedIsReported

\* The inductive invariant, beside that of the cache.
SInv ==
    /\ SessionsTypeOK
    /\ ReplyFits /\ StageFits
    /\ ImageInv /\ UploadInv /\ DebugInv

-----------------------------------------------------------------------------
(* A step of a session is a step of the cache, or none *)

LEMMA ConnectCalls ==
    ASSUME NEW c \in Callers, NEW s, Connect(c, s)
    PROVE  \E o \in {"connect", "borrow"} : Call(c, o)
BY DEF Connect

LEMMA SessionsAreCalls == [SessionsNext]_all => [Next]_vars
<1> SUFFICES ASSUME SessionsNext
             PROVE  Next \/ UNCHANGED vars
  BY DEF all, vars
<1>1. CASE \E c \in Callers, s \in First : Begin(c, s)
  BY <1>1, ConnectCalls DEF Begin, Next
<1>2. ASSUME NEW c \in Callers, SessionStep(c)
      PROVE  Next \/ UNCHANGED vars
  <2>1. CASE InCache(c)
    BY <2>1 DEF InCache, Next
  <2>2. CASE Connected(c) \/ Chip(c) \/ Look(c)
    BY <2>2, ConnectCalls DEF Connected, Chip, Look, Next
  <2>3. CASE Mount(c)
    BY <2>3 DEF Mount, Step, Next
  <2>4. CASE NotConnected(c) \/ Ask(c) \/ Install(c) \/ Remove(c)
    BY <2>4 DEF NotConnected, Ask, Install, Remove
  <2>5. CASE Ensure(c) \/ Open(c) \/ Write(c) \/ Close(c)
    BY <2>5 DEF Ensure, Open, Write, Close, UploadEnds
  <2>6. CASE Launch(c) \/ Attach(c) \/ Detach(c)
    BY <2>6 DEF Launch, Attach, Detach, DebugEnds
  <2> QED
    BY <1>2, <2>1, <2>2, <2>3, <2>4, <2>5, <2>6 DEF SessionStep
<1>3. CASE AppChanges
  BY <1>3 DEF AppChanges
<1>4. CASE Elsewhere
  BY <1>4 DEF Elsewhere, Next
<1> QED
  BY <1>1, <1>2, <1>3, <1>4 DEF SessionsNext

\* Sessions use the cache as it may be used: every behaviour of the sessions is
\* one of the cache, so that all its theorems hold for mount, install and jit.
THEOREM SessionsKeepCache == SessionsSpec => Spec
<1>1. SessionsInit => Init
  BY DEF SessionsInit
<1> QED
  BY <1>1, SessionsAreCalls, PTL DEF SessionsSpec, Spec

-----------------------------------------------------------------------------
(* What leaves a part of the invariant alone *)

LEMMA ConnectingStages ==
    Connecting = {"lockdown", "mounter", "guard", "afc", "proxy", "remover",
                  "server", "debugger", "attacher", "asker"}
BY DEF Connecting, After

LEMMA StagesFit ==
    ASSUME SInv, ReplyFits', StageFits'
    PROVE  \A c \in Callers : pc'[c] = "borrowed" => stage'[c] \in {"guard", "mount"}
BY DEF StageFits, ReplyFits

LEMMA ImageKept ==
    ASSUME SInv, NEW c \in Callers, NEW s, s \notin Mounting,
           stage' = [stage EXCEPT ![c] = s],
           mounted' = mounted, met \subseteq met'
    PROVE  ImageInv'
BY DEF SInv, SessionsTypeOK, ImageInv, Met, Mounting

LEMMA UploadKept ==
    ASSUME SInv, NEW c \in Callers, NEW s,
           stage[c] \notin Uploading, s \notin Uploading,
           stage' = [stage EXCEPT ![c] = s],
           ipa' = ipa, upload' \in {upload, "err"}, met \subseteq met'
    PROVE  UploadInv'
BY DEF SInv, SessionsTypeOK, UploadInv, Met, Uploading, StagedIsWhole

LEMMA DebugKept ==
    ASSUME SInv, NEW c \in Callers, NEW s,
           stage[c] \notin Debugging, s \notin Debugging,
           stage' = [stage EXCEPT ![c] = s],
           app' \in {app, "absent", "stopped"}, debug' \in {debug, "err"},
           met \subseteq met'
    PROVE  DebugInv'
BY DEF SInv, SessionsTypeOK, DebugInv, Met, Debugging, HaltedIsReported

\* A session that is not in the cache, and stays out of it.
LEMMA FitsOutside ==
    ASSUME SInv, NEW c \in Callers, NEW s \in Requests \cup {"idle"}, s # "mount",
           pc[c] = "idle", UNCHANGED vars, stage' = [stage EXCEPT ![c] = s]
    PROVE  ReplyFits' /\ StageFits'
BY ConnectingStages DEF SInv, SessionsTypeOK, TypeOK, ReplyFits, StageFits,
                        vars, Requests

\* A session that calls the cache.
LEMMA FitsInside ==
    ASSUME SInv, NEW c \in Callers, NEW s \in Connecting, Connect(c, s)
    PROVE  ReplyFits' /\ StageFits'
BY ConnectingStages DEF SInv, SessionsTypeOK, TypeOK, ReplyFits, StageFits,
                        Connect, At, Call, Goto, Requests

-----------------------------------------------------------------------------
(* One lemma per action *)

LEMMA ChipSInv ==
    ASSUME SInv, TypeOK', NEW c \in Callers, Chip(c)
    PROVE  SInv'
<1>0. ReplyFits' /\ StageFits'
  BY FitsInside, FitsOutside, ConnectingStages DEF SInv, StageFits, Requests,
     At, Chip
<1>1. SessionsTypeOK'
  BY <1>0, ConnectingStages, StagesFit DEF SInv, SessionsTypeOK, At,
     Requests, Meets, device, answers, Chip, Connect, Call, Goto, shared,
     world
<1>2. PICK s \in {"idle", "mounter"} : stage' = [stage EXCEPT ![c] = s]
  BY DEF Chip, At, Connect
<1>3. ImageInv'
  BY <1>2 DEF SInv, SessionsTypeOK, ImageInv, Met, Mounting, At, Meets,
     OtherAt, Meets, device, answers, Chip, Connect, Call, Goto, shared, world
<1>4. UploadInv'
  BY <1>2, UploadKept DEF Uploading, First, Connecting, After, Meets, device,
     answers, Chip, Connect, Call, Goto, shared, world
<1>5. DebugInv'
  BY <1>2, DebugKept DEF Debugging, First, Connecting, After, Meets, device,
     answers, Chip, Connect, Call, Goto, shared, world
<1> QED
  BY <1>0, <1>1, <1>3, <1>4, <1>5 DEF SInv

LEMMA LookSInv ==
    ASSUME SInv, TypeOK', NEW c \in Callers, Look(c)
    PROVE  SInv'
<1>0. ReplyFits' /\ StageFits'
  BY FitsInside, FitsOutside, ConnectingStages DEF SInv, StageFits, Requests,
     At, Look
<1>1. SessionsTypeOK'
  BY <1>0, ConnectingStages, StagesFit DEF SInv, SessionsTypeOK, At,
     Requests, Meets, device, answers, Look, Connect, Call, Goto, shared,
     world
<1>2. PICK s \in {"idle", "guard"} : stage' = [stage EXCEPT ![c] = s]
  BY DEF Look, At, Connect
<1>3. ImageInv'
  BY <1>2 DEF SInv, SessionsTypeOK, ImageInv, Met, Mounting, At, Meets,
     OtherAt, Meets, device, answers, Look, Connect, Call, Goto, shared, world
<1>4. UploadInv'
  BY <1>2, UploadKept DEF Uploading, First, Connecting, After, Meets, device,
     answers, Look, Connect, Call, Goto, shared, world
<1>5. DebugInv'
  BY <1>2, DebugKept DEF Debugging, First, Connecting, After, Meets, device,
     answers, Look, Connect, Call, Goto, shared, world
<1> QED
  BY <1>0, <1>1, <1>3, <1>4, <1>5 DEF SInv

LEMMA MountSInv ==
    ASSUME SInv, TypeOK', NEW c \in Callers, Mount(c)
    PROVE  SInv'
<1>0. ReplyFits' /\ StageFits'
  BY ConnectingStages DEF SInv, SessionsTypeOK, TypeOK, ReplyFits, StageFits,
     At, Mount, Release, Goto
<1>1. SessionsTypeOK'
  BY <1>0, ConnectingStages, StagesFit DEF SInv, SessionsTypeOK, At,
     Requests, Meets, device, answers, Mount, Release, Goto
<1>2. PICK s \in {"idle"} : stage' = [stage EXCEPT ![c] = s]
  BY DEF Mount, At
<1>3. ImageInv'
  BY <1>2 DEF SInv, SessionsTypeOK, ImageInv, Met, Mounting, At, Meets,
     OtherAt, Meets, device, answers, Mount, Release, Goto
<1>4. UploadInv'
  BY <1>2, UploadKept DEF Uploading, First, Connecting, After, Meets, device,
     answers, Mount, Release, Goto
<1>5. DebugInv'
  BY <1>2, DebugKept DEF Debugging, First, Connecting, After, Meets, device,
     answers, Mount, Release, Goto
<1> QED
  BY <1>0, <1>1, <1>3, <1>4, <1>5 DEF SInv

LEMMA EnsureSInv ==
    ASSUME SInv, TypeOK', NEW c \in Callers, Ensure(c)
    PROVE  SInv'
<1>0. ReplyFits' /\ StageFits'
  BY FitsOutside, ConnectingStages DEF SInv, StageFits, Requests, At, Ensure,
     UploadEnds
<1>1. SessionsTypeOK'
  BY <1>0, ConnectingStages, StagesFit DEF SInv, SessionsTypeOK, At,
     Requests, Meets, device, answers, Ensure, UploadEnds
<1>2. PICK s \in {"idle", "open"} : stage' = [stage EXCEPT ![c] = s]
  BY DEF Ensure, At, UploadEnds
<1>3. ImageInv'
  BY <1>2, ImageKept DEF Mounting, First, Meets, device, answers, Ensure,
     UploadEnds
<1>4. UploadInv'
  BY <1>2 DEF SInv, SessionsTypeOK, UploadInv, Met, Uploading, StagedIsWhole,
     At, Meets, OtherAt, Meets, device, answers, Ensure, UploadEnds
<1>5. DebugInv'
  BY <1>2, DebugKept DEF Debugging, First, Connecting, After, Meets, device,
     answers, Ensure, UploadEnds
<1> QED
  BY <1>0, <1>1, <1>3, <1>4, <1>5 DEF SInv

LEMMA OpenSInv ==
    ASSUME SInv, TypeOK', NEW c \in Callers, Open(c)
    PROVE  SInv'
<1>0. ReplyFits' /\ StageFits'
  BY FitsOutside, ConnectingStages DEF SInv, StageFits, Requests, At, Open,
     UploadEnds
<1>1. SessionsTypeOK'
  BY <1>0, ConnectingStages, StagesFit DEF SInv, SessionsTypeOK, At,
     Requests, Meets, device, answers, Open, UploadEnds
<1>2. PICK s \in {"idle", "write"} : stage' = [stage EXCEPT ![c] = s]
  BY DEF Open, At, UploadEnds
<1>3. ImageInv'
  BY <1>2, ImageKept DEF Mounting, First, Meets, device, answers, Open,
     UploadEnds
<1>4. UploadInv'
  BY <1>2 DEF SInv, SessionsTypeOK, UploadInv, Met, Uploading, StagedIsWhole,
     At, Meets, OtherAt, Meets, device, answers, Open, UploadEnds
<1>5. DebugInv'
  BY <1>2, DebugKept DEF Debugging, First, Connecting, After, Meets, device,
     answers, Open, UploadEnds
<1> QED
  BY <1>0, <1>1, <1>3, <1>4, <1>5 DEF SInv

LEMMA WriteSInv ==
    ASSUME SInv, TypeOK', NEW c \in Callers, Write(c)
    PROVE  SInv'
<1>0. ReplyFits' /\ StageFits'
  BY FitsOutside, ConnectingStages DEF SInv, StageFits, Requests, At, Write,
     UploadEnds
<1>1. SessionsTypeOK'
  BY <1>0, ConnectingStages, StagesFit DEF SInv, SessionsTypeOK, At,
     Requests, Meets, device, answers, Write, UploadEnds
<1>2. PICK s \in {"idle", "close"} : stage' = [stage EXCEPT ![c] = s]
  BY DEF Write, At, UploadEnds
<1>3. ImageInv'
  BY <1>2, ImageKept DEF Mounting, First, Meets, device, answers, Write,
     UploadEnds
<1>4. UploadInv'
  BY <1>2 DEF SInv, SessionsTypeOK, UploadInv, Met, Uploading, StagedIsWhole,
     At, Meets, OtherAt, Meets, device, answers, Write, UploadEnds
<1>5. DebugInv'
  BY <1>2, DebugKept DEF Debugging, First, Connecting, After, Meets, device,
     answers, Write, UploadEnds
<1> QED
  BY <1>0, <1>1, <1>3, <1>4, <1>5 DEF SInv

LEMMA CloseSInv ==
    ASSUME SInv, TypeOK', NEW c \in Callers, Close(c)
    PROVE  SInv'
<1>0. ReplyFits' /\ StageFits'
  BY FitsOutside, ConnectingStages DEF SInv, StageFits, Requests, At, Close,
     UploadEnds
<1>1. SessionsTypeOK'
  BY <1>0, ConnectingStages, StagesFit DEF SInv, SessionsTypeOK, At,
     Requests, Meets, device, answers, Close, UploadEnds
<1>2. PICK s \in {"idle"} : stage' = [stage EXCEPT ![c] = s]
  BY DEF Close, At, UploadEnds
<1>3. ImageInv'
  BY <1>2, ImageKept DEF Mounting, First, Meets, device, answers, Close,
     UploadEnds
<1>4. UploadInv'
  BY <1>2 DEF SInv, SessionsTypeOK, UploadInv, Met, Uploading, StagedIsWhole,
     At, Meets, OtherAt, Meets, device, answers, Close, UploadEnds
<1>5. DebugInv'
  BY <1>2, DebugKept DEF Debugging, First, Connecting, After, Meets, device,
     answers, Close, UploadEnds
<1> QED
  BY <1>0, <1>1, <1>3, <1>4, <1>5 DEF SInv

LEMMA InstallSInv ==
    ASSUME SInv, TypeOK', NEW c \in Callers, Install(c)
    PROVE  SInv'
<1>0. ReplyFits' /\ StageFits'
  BY FitsOutside, ConnectingStages DEF SInv, StageFits, Requests, At, Install
<1>1. SessionsTypeOK'
  BY <1>0, ConnectingStages, StagesFit DEF SInv, SessionsTypeOK, At,
     Requests, Meets, device, answers, Install
<1>2. PICK s \in {"idle"} : stage' = [stage EXCEPT ![c] = s]
  BY DEF Install, At
<1>3. ImageInv'
  BY <1>2, ImageKept DEF Mounting, First, Meets, device, answers, Install
<1>4. UploadInv'
  BY <1>2, UploadKept DEF Uploading, First, Connecting, After, Meets, device,
     answers, Install
<1>5. DebugInv'
  BY <1>2, DebugKept DEF Debugging, First, Connecting, After, Meets, device,
     answers, Install
<1> QED
  BY <1>0, <1>1, <1>3, <1>4, <1>5 DEF SInv

LEMMA RemoveSInv ==
    ASSUME SInv, TypeOK', NEW c \in Callers, Remove(c)
    PROVE  SInv'
<1>0. ReplyFits' /\ StageFits'
  BY FitsOutside, ConnectingStages DEF SInv, StageFits, Requests, At, Remove
<1>1. SessionsTypeOK'
  BY <1>0, ConnectingStages, StagesFit DEF SInv, SessionsTypeOK, At,
     Requests, Meets, device, answers, Remove
<1>2. PICK s \in {"idle"} : stage' = [stage EXCEPT ![c] = s]
  BY DEF Remove, At
<1>3. ImageInv'
  BY <1>2, ImageKept DEF Mounting, First, Meets, device, answers, Remove
<1>4. UploadInv'
  BY <1>2, UploadKept DEF Uploading, First, Connecting, After, Meets, device,
     answers, Remove
<1>5. DebugInv'
  BY <1>2, DebugKept DEF Debugging, First, Connecting, After, Meets, device,
     answers, Remove
<1> QED
  BY <1>0, <1>1, <1>3, <1>4, <1>5 DEF SInv

LEMMA LaunchSInv ==
    ASSUME SInv, TypeOK', NEW c \in Callers, Launch(c)
    PROVE  SInv'
<1>0. ReplyFits' /\ StageFits'
  BY FitsOutside, ConnectingStages DEF SInv, StageFits, Requests, At, Launch,
     DebugEnds
<1>1. SessionsTypeOK'
  BY <1>0, ConnectingStages, StagesFit DEF SInv, SessionsTypeOK, At,
     Requests, Meets, device, answers, Launch, DebugEnds
<1>2. PICK s \in {"idle", "attach"} : stage' = [stage EXCEPT ![c] = s]
  BY DEF Launch, At, DebugEnds
<1>3. ImageInv'
  BY <1>2, ImageKept DEF Mounting, First, Meets, device, answers, Launch,
     DebugEnds
<1>4. UploadInv'
  BY <1>2, UploadKept DEF Uploading, First, Connecting, After, Meets, device,
     answers, Launch, DebugEnds
<1>5. DebugInv'
  BY <1>2 DEF SInv, SessionsTypeOK, DebugInv, Met, Debugging,
     HaltedIsReported, At, Meets, OtherAt, Meets, device, answers, Launch,
     DebugEnds
<1> QED
  BY <1>0, <1>1, <1>3, <1>4, <1>5 DEF SInv

LEMMA AttachSInv ==
    ASSUME SInv, TypeOK', NEW c \in Callers, Attach(c)
    PROVE  SInv'
<1>0. ReplyFits' /\ StageFits'
  BY FitsOutside, ConnectingStages DEF SInv, StageFits, Requests, At, Attach,
     DebugEnds
<1>1. SessionsTypeOK'
  BY <1>0, ConnectingStages, StagesFit DEF SInv, SessionsTypeOK, At,
     Requests, Meets, device, answers, Attach, DebugEnds
<1>2. PICK s \in {"idle", "detach"} : stage' = [stage EXCEPT ![c] = s]
  BY DEF Attach, At, DebugEnds
<1>3. ImageInv'
  BY <1>2, ImageKept DEF Mounting, First, Meets, device, answers, Attach,
     DebugEnds
<1>4. UploadInv'
  BY <1>2, UploadKept DEF Uploading, First, Connecting, After, Meets, device,
     answers, Attach, DebugEnds
<1>5. DebugInv'
  BY <1>2 DEF SInv, SessionsTypeOK, DebugInv, Met, Debugging,
     HaltedIsReported, At, Meets, OtherAt, Meets, device, answers, Attach,
     DebugEnds
<1> QED
  BY <1>0, <1>1, <1>3, <1>4, <1>5 DEF SInv

LEMMA DetachSInv ==
    ASSUME SInv, TypeOK', NEW c \in Callers, Detach(c)
    PROVE  SInv'
<1>0. ReplyFits' /\ StageFits'
  BY FitsOutside, ConnectingStages DEF SInv, StageFits, Requests, At, Detach,
     DebugEnds
<1>1. SessionsTypeOK'
  BY <1>0, ConnectingStages, StagesFit DEF SInv, SessionsTypeOK, At,
     Requests, Meets, device, answers, Detach, DebugEnds
<1>2. PICK s \in {"idle"} : stage' = [stage EXCEPT ![c] = s]
  BY DEF Detach, At, DebugEnds
<1>3. ImageInv'
  BY <1>2, ImageKept DEF Mounting, First, Meets, device, answers, Detach,
     DebugEnds
<1>4. UploadInv'
  BY <1>2, UploadKept DEF Uploading, First, Connecting, After, Meets, device,
     answers, Detach, DebugEnds
<1>5. DebugInv'
  BY <1>2 DEF SInv, SessionsTypeOK, DebugInv, Met, Debugging,
     HaltedIsReported, At, Meets, OtherAt, Meets, device, answers, Detach,
     DebugEnds
<1> QED
  BY <1>0, <1>1, <1>3, <1>4, <1>5 DEF SInv

LEMMA AskSInv ==
    ASSUME SInv, TypeOK', NEW c \in Callers, Ask(c)
    PROVE  SInv'
<1>0. ReplyFits' /\ StageFits'
  BY FitsOutside, ConnectingStages DEF SInv, StageFits, Requests, At, Ask
<1>1. SessionsTypeOK'
  BY <1>0, ConnectingStages, StagesFit DEF SInv, SessionsTypeOK, At,
     Requests, Meets, device, answers, Ask
<1>2. PICK s \in {"idle"} : stage' = [stage EXCEPT ![c] = s]
  BY DEF Ask, At
<1>3. ImageInv'
  BY <1>2, ImageKept DEF Mounting, First, Meets, device, answers, Ask
<1>4. UploadInv'
  BY <1>2, UploadKept DEF Uploading, First, Connecting, After, Meets, device,
     answers, Ask
<1>5. DebugInv'
  BY <1>2, DebugKept DEF Debugging, First, Connecting, After, Meets, device,
     answers, Ask
<1> QED
  BY <1>0, <1>1, <1>3, <1>4, <1>5 DEF SInv

LEMMA NotConnectedSInv ==
    ASSUME SInv, TypeOK', NEW c \in Callers, NotConnected(c)
    PROVE  SInv'
<1>0. ReplyFits' /\ StageFits'
  BY FitsOutside, ConnectingStages DEF SInv, StageFits, Requests, At,
     NotConnected
<1>1. SessionsTypeOK'
  BY <1>0, ConnectingStages, StagesFit DEF SInv, SessionsTypeOK, At,
     Requests, Meets, device, answers, NotConnected
<1>2. PICK s \in {"idle"} : stage' = [stage EXCEPT ![c] = s]
  BY DEF NotConnected, At
<1>3. ImageInv'
  BY <1>2, ImageKept DEF Mounting, First, Meets, device, answers, NotConnected
<1>4. UploadInv'
  BY <1>2, UploadKept DEF Uploading, First, Connecting, After, Meets, device,
     answers, NotConnected
<1>5. DebugInv'
  BY <1>2, DebugKept DEF Debugging, First, Connecting, After, Meets, device,
     answers, NotConnected
<1> QED
  BY <1>0, <1>1, <1>3, <1>4, <1>5 DEF SInv

LEMMA BeginSInv ==
    ASSUME SInv, TypeOK', NEW c \in Callers, NEW f \in First, Begin(c, f)
    PROVE  SInv'
<1>0. ReplyFits' /\ StageFits'
  BY FitsInside, ConnectingStages DEF First, Begin
<1>1. SessionsTypeOK'
  BY <1>0, ConnectingStages, StagesFit, MaxSessionsAssumption DEF SInv,
     SessionsTypeOK, At, Requests, Meets, device, answers, First, Begin,
     Connect, Call, Goto, shared, world
<1>2. PICK s \in First : stage' = [stage EXCEPT ![c] = s]
  BY DEF Begin, At, Connect
<1>3. ImageInv'
  BY <1>2, ImageKept DEF Mounting, First, Meets, device, answers, Begin,
     Connect, Call, Goto, shared, world
<1>4. UploadInv'
  BY <1>2, UploadKept DEF Uploading, First, Connecting, After, Meets, device,
     answers, Begin, Connect, Call, Goto, shared, world
<1>5. DebugInv'
  BY <1>2, DebugKept DEF Debugging, First, Connecting, After, Meets, device,
     answers, Begin, Connect, Call, Goto, shared, world
<1> QED
  BY <1>0, <1>1, <1>3, <1>4, <1>5 DEF SInv

\* The call of the cache returned: the next call, the next request, or Mount.
LEMMA ConnectedSInv ==
    ASSUME SInv, TypeOK', NEW c \in Callers, Connected(c)
    PROVE  SInv'
<1>1. /\ stage[c] \in Connecting
      /\ pc[c] \in {"idle", "borrowed"} /\ reply[c] = "ok"
      /\ stage' = [stage EXCEPT ![c] = After[stage[c]]]
      /\ UNCHANGED <<sessions, mounted, ipa, app, upload, debug>>
      /\ met \subseteq met'
      /\ met' \in SUBSET {"mount", "upload", "debug", "refused"}
  BY DEF Connected, Connect, At, Meets, device, SInv, SessionsTypeOK
<1>2. /\ stage[c] = "guard" => After[stage[c]] = "mount" /\ pc[c] = "borrowed"
      /\ stage[c] # "guard" => pc[c] = "idle"
      /\ After[stage[c]] \in Connecting \cup Requests
      /\ After[stage[c]] \in {"guard", "mount"} => stage[c] = "guard"
      /\ After[stage[c]] \notin Uploading
      /\ stage[c] \notin Uploading \cup Debugging
      /\ After[stage[c]] \in Debugging => stage[c] = "attacher"
      /\ After[stage[c]] \in Mounting => stage[c] \in Mounting
      /\ After[stage[c]] # "detach"
  BY <1>1, ConnectingStages
     DEF SInv, StageFits, ReplyFits, SessionsTypeOK, TypeOK, After, Requests,
         Uploading, Debugging, Mounting
<1>3. ReplyFits' /\ StageFits'
  <2>1. CASE After[stage[c]] \in Connecting
    BY <2>1, FitsInside DEF Connected
  <2>2. CASE After[stage[c]] \notin Connecting /\ stage[c] # "guard"
    BY <1>1, <1>2, <2>2, FitsOutside, ConnectingStages
       DEF Connected, After
  <2>3. CASE stage[c] = "guard"
    <3>1. UNCHANGED vars
      BY <1>2, <2>3, ConnectingStages DEF Connected
    <3> QED
      BY <1>1, <1>2, <2>3, <3>1, ConnectingStages
         DEF SInv, SessionsTypeOK, ReplyFits, StageFits, vars
  <2> QED
    BY <2>1, <2>2, <2>3, ConnectingStages DEF After
<1>4. SessionsTypeOK'
  BY <1>1, <1>2, <1>3, StagesFit DEF SInv, SessionsTypeOK
<1>5. ImageInv'
  BY <1>1, <1>2 DEF SInv, SessionsTypeOK, ImageInv, Met
<1>6. UploadInv'
  BY <1>1, <1>2, UploadKept
<1>7. DebugInv'
  <2>1. CASE stage[c] # "attacher"
    BY <1>1, <1>2, <2>1, DebugKept
  <2>2. CASE stage[c] = "attacher"
    <3>1. met' = IF OtherAt(c, Debugging) THEN met \cup {"debug"} ELSE met
      BY <2>2 DEF Connected, Meets
    <3> QED
      BY <1>1, <1>2, <2>2, <3>1
         DEF SInv, SessionsTypeOK, DebugInv, Met, HaltedIsReported, OtherAt
  <2> QED
    BY <2>1, <2>2
<1> QED
  BY <1>3, <1>4, <1>5, <1>6, <1>7 DEF SInv

\* A step inside the cache touches neither the device nor what was met.
LEMMA InCacheSInv ==
    ASSUME SInv, TypeOK', NEW c \in Callers, InCache(c)
    PROVE  SInv'
<1>1. /\ UNCHANGED <<stage, sessions, device, answers>>
      /\ pc[c] \notin {"idle", "borrowed"}
      /\ Step(c)
  BY DEF InCache, Step, GetCached, LockCached, ProbeOk, ProbeReconnect,
         ProbeFail, CloneFile, CreateOk, CreateFail, GetAgain, SetOnce,
         LockSet, Swap, ServeOk, ServeFail, Release
<1>2. stage[c] \in Connecting /\ reply[c] = "none"
  BY <1>1 DEF SInv, StageFits, ReplyFits
<1>3. /\ op' = op
      /\ \A d \in Callers : d # c => pc'[d] = pc[d] /\ reply'[d] = reply[d]
      /\ pc'[c] \notin {"idle", "borrowed"} => reply'[c] = "none"
      /\ pc'[c] = "borrowed" => reply'[c] = "ok" /\ op[c] = "borrow"
      /\ pc'[c] = "serve" => op[c] = "connect"
      /\ pc'[c] = "idle" =>
             reply'[c] = "err" \/ (reply'[c] = "ok" /\ op[c] = "connect")
  <2> USE <1>1, <1>2 DEF SInv, SessionsTypeOK, TypeOK, ReplyFits, Goto,
                         AnswerOk, AnswerErr
  <2>1. CASE GetCached(c) \/ LockCached(c) \/ GetAgain(c) \/ SetOnce(c)
    BY <2>1 DEF GetCached, LockCached, GetAgain, SetOnce
  <2>2. CASE ProbeOk(c) \/ ProbeReconnect(c) \/ ProbeFail(c)
    BY <2>2 DEF ProbeOk, ProbeReconnect, ProbeFail
  <2>3. CASE CloneFile(c) \/ CreateFail(c)
    BY <2>3 DEF CloneFile, CreateFail
  <2>4. ASSUME NEW t \in Tunnels, CreateOk(c, t)
        PROVE  pc'[c] = "publish" /\ op' = op /\ reply' = reply
               /\ \A d \in Callers : d # c => pc'[d] = pc[d]
    BY <2>4 DEF CreateOk
  <2>5. CASE LockSet(c) \/ Swap(c)
    BY <2>5 DEF LockSet, Swap, UseNew
  <2>6. CASE ServeOk(c) \/ ServeFail(c)
    BY <2>6 DEF ServeOk, ServeFail
  <2>7. ~Release(c)
    BY DEF Release
  <2> QED
    BY <2>1, <2>2, <2>3, <2>4, <2>5, <2>6, <2>7 DEF Step
<1>4. ReplyFits' /\ StageFits'
  BY <1>1, <1>2, <1>3 DEF SInv, ReplyFits, StageFits, Connecting, After
<1>5. SessionsTypeOK' /\ ImageInv' /\ UploadInv' /\ DebugInv'
  BY <1>1, <1>4, StagesFit
     DEF SInv, SessionsTypeOK, ImageInv, UploadInv, DebugInv, Met,
         StagedIsWhole, HaltedIsReported, device, answers
<1> QED
  BY <1>4, <1>5 DEF SInv

\* The application and the tunnels change by themselves.
LEMMA AppChangesSInv ==
    ASSUME SInv, AppChanges
    PROVE  SInv'
BY DEF AppChanges, vars, answers, SInv, SessionsTypeOK, TypeOK, ReplyFits,
       StageFits, ImageInv, UploadInv, DebugInv, Met, StagedIsWhole,
       HaltedIsReported

LEMMA ElsewhereSInv ==
    ASSUME SInv, TypeOK', Elsewhere
    PROVE  SInv'
BY DEF Elsewhere, SetRpPairingFile, TunnelDown, shared, device, answers, SInv,
       SessionsTypeOK, ReplyFits, StageFits, ImageInv, UploadInv, DebugInv,
       Met,
       StagedIsWhole, HaltedIsReported

-----------------------------------------------------------------------------

LEMMA InitSInv == SessionsInit => SInv
<1> SUFFICES ASSUME SessionsInit
             PROVE  SInv
  OBVIOUS
<1>0. TypeOK
  BY InitTypeOK DEF SessionsInit
<1>1. SessionsTypeOK
  <2>1. stage \in [Callers -> Connecting \cup Requests \cup {"idle"}]
    BY DEF SessionsInit
  <2>2. \A c \in Callers : pc[c] # "borrowed"
    BY DEF SessionsInit, Init
  <2>3. sessions \in 0..MaxSessions
    BY MaxSessionsAssumption DEF SessionsInit
  <2>4. met \in SUBSET {"mount", "upload", "debug", "refused"}
    BY DEF SessionsInit
  <2> QED
    BY <1>0, <2>1, <2>2, <2>3, <2>4 DEF SessionsInit, SessionsTypeOK
<1>2. ReplyFits /\ StageFits
  BY ConnectingStages DEF SessionsInit, Init, ReplyFits, StageFits
<1>3. ImageInv /\ UploadInv /\ DebugInv
  BY DEF SessionsInit, ImageInv, UploadInv, DebugInv, Met, StagedIsWhole,
         HaltedIsReported, Mounting, Uploading, Debugging
<1> QED
  BY <1>1, <1>2, <1>3 DEF SInv

LEMMA NextSInv == IInv /\ SInv /\ [SessionsNext]_all => SInv'
<1> SUFFICES ASSUME IInv, SInv, [SessionsNext]_all
             PROVE  SInv'
  OBVIOUS
<1>0. TypeOK'
  BY SessionsAreCalls, NextTypeOK DEF IInv
<1>1. ASSUME NEW c \in Callers, NEW s \in First, Begin(c, s)
      PROVE  SInv'
  BY <1>0, <1>1, BeginSInv
<1>2. ASSUME NEW c \in Callers, SessionStep(c)
      PROVE  SInv'
  BY <1>0, <1>2, InCacheSInv, ConnectedSInv, NotConnectedSInv, ChipSInv,
     LookSInv, MountSInv, EnsureSInv, OpenSInv, WriteSInv, CloseSInv,
     InstallSInv, RemoveSInv, LaunchSInv, AttachSInv, DetachSInv, AskSInv
     DEF SessionStep
<1>3. CASE AppChanges
  BY <1>3, AppChangesSInv
<1>4. CASE Elsewhere
  BY <1>0, <1>4, ElsewhereSInv
<1>5. CASE UNCHANGED all
  BY <1>5 DEF all, vars, SInv, SessionsTypeOK, TypeOK, ReplyFits, StageFits,
              ImageInv, UploadInv, DebugInv, Met, StagedIsWhole,
              HaltedIsReported
<1> QED
  BY <1>1, <1>2, <1>3, <1>4, <1>5 DEF SessionsNext

\* The invariants of the sessions and of the cache hold together.
THEOREM SessionsInvariance == SessionsSpec => [](IInv /\ SInv)
<1>1. SessionsSpec => []IInv
  BY SessionsKeepCache, Invariance, PTL
<1>2. SessionsSpec => []SInv
  BY <1>1, InitSInv, NextSInv, PTL DEF SessionsSpec
<1> QED
  BY <1>1, <1>2, PTL

\* Type correctness of the sessions, the device and the cache together.
THEOREM SessionsTypeCorrect == SessionsSpec => []SessionsTypeOK
BY SessionsInvariance, PTL DEF SInv

\* An image is transferred under the guard, and over another image only after
\* two calls looked at once (mounter.rs:48-69).
THEOREM ImagesAreMountedOnce == SessionsSpec => []ImageIsMountedOnce
<1>1. IInv /\ SInv => ImageIsMountedOnce
  BY DEF IInv, GuardOwnership, Locked, SInv, StageFits, ImageInv,
         ImageIsMountedOnce
<1> QED
  BY <1>1, SessionsInvariance, PTL

\* A package that was reported as uploaded is whole (install.rs:24-31).
THEOREM StagedPackagesAreWhole == SessionsSpec => []StagedIsWhole
BY SessionsInvariance, PTL DEF SInv, UploadInv

\* An application left halted was reported (jit.rs:19-28, 36-40).
THEOREM HaltedApplicationsAreReported == SessionsSpec => []HaltedIsReported
BY SessionsInvariance, PTL DEF SInv, DebugInv

\* Whatever the sessions do, the cache keeps the promise of ConnSlot.
THEOREM SessionsKeepPromise == SessionsSpec => KeepsPromise
BY SessionsKeepCache, Refinement, PTL
=============================================================================
