# UnBoxer: specifications and proofs

TLA+ modules about UnBoxer, an iOS application that connects to a device through a tunnel, lists its
applications, backs up their containers and browses the backups. The application is Swift (views,
view models, services); the work on the device is done by a Rust static library
(`Scripts/RustBridge`) that the Swift code calls through C functions. Paths below are relative to
`src/Unboxer/`, and `idevice_support/` is `Scripts/RustBridge/src/idevice_support/`.

## The system

| Part | State it keeps | Operations | Talks to |
|---|---|---|---|
| Connection cache (`idevice_support/rsd.rs`) | two process-wide `OnceLock`s: the pairing file, and a mutex around the adapter and handshake of the current tunnel | `set_rppairing_file`, `connect_to_rsd_services`, `get_or_create_rppairing_rsd_connection` | every other Rust function; each call runs on the Swift thread that made it (`RUNTIME.block_on`), so calls race |
| Backups (`Services/BackupEngine.swift`, `ViewModels/BackupViewModel.swift`, `performBackup` of `ViewModels/DashboardViewModel.swift`) | directories `Backups/<bundle>_<second>/` with `<bundle>.zip`, `metadata.json` and `extracted/`; flags and list of two view models | back up, list, select (extract), delete, leave | a task per backup and per selection, the main thread for the rest, `try_backup`/`try_extract` |
| Container walk (`idevice_support/backup.rs`) | a stack of directories, an open ZIP file, counters | `try_backup`, `try_extract` | house_arrest and AFC on the device, the file system |
| Dashboard and pairing (`ViewModels/DashboardViewModel.swift`, `Services/PairingManager.swift`, `LockdownEngine.swift`, `AppDiscoveryEngine.swift`) | published properties; `pairing_file.plist` | import, delete, start a test | the main queue, background threads, a timer, the connection cache |
| Mounter (`idevice_support/mounter.rs`) | none of its own | mount the developer image | borrows the guard of the cache for the whole mount |
| Device sessions (`install.rs`, `jit.rs`, `provision.rs`, `apps.rs`, `device.rs`) | none | upload, install, remove, debug, profiles | one service each, through the cache |
| Bridges (`bridge_idevice.rs`, `post17.rs`, `errors.rs`, `MinimuxerBridgeIdevice.swift`; `bridge.rs`, `MinimuxerBridge.swift`) | none but C strings in flight | conversions | Swift on one side, Rust on the other |
| Device monitor of `Dependencies/libusbmuxd` (`libusbmuxd.c`) | listeners (under a mutex); thread handle, socket, `running` and device list (without it) | `usbmuxd_events_subscribe`, `usbmuxd_events_unsubscribe`, the monitor thread | the usbmuxd daemon, callbacks of the application's threads |
| Handshake of `Dependencies/libimobiledevice` (`lockdown.c`) | a connection, session id, TLS; the pair record that the daemon stores | `lockdownd_client_new_with_handshake`, `lockdownd_client_free` | lockdownd on the device, other processes that share the record; called by `bridge.rs` |
| Other vendored libraries | their own | | `bridge.rs` only |

What makes each correct, and hard:

- *Cache.* One tunnel at a time, used by one thread at a time, none leaked, never exchanged under a
  borrower. Hard because a call drops the mutex while it sets up a tunnel, takes it again, and
  `OnceLock::set` can lose a race it ignores.
- *Backups.* What is listed is whole; success means stored; nothing listed is damaged later; one
  backup at a time; every request is answered. Hard because the files are written one after the
  other by tasks that fail or are killed anywhere, names repeat within a second, and nothing cleans
  up.
- *Walk.* The archive is a tree with everything that stayed and may be read. Hard because the
  container belongs to an application that goes on running, and some errors are passed over while
  others end the backup.
- *Dashboard.* What is published settles on what is on the disk, and the button is free only when
  the test has ended. Hard because all changes travel through one queue from several threads and a
  timer.
- *Mounter and sessions.* One image is mounted at a time, what a step that failed left behind is
  never reported as done. Hard because they check, wait for a mutex and then act on a device that
  other threads use too.
- *Device monitor.* There is one monitor while somebody is subscribed, subscribers learn of every
  device that comes and goes, `unsubscribe` returns. Hard because half of the globals are not under
  the mutex and the daemon can go away at any moment.
- *Handshake.* A session is the device's, and encrypted if the device asked for that; the stored
  record is one the device accepted, and the handshake returns. Hard because answers carry a name
  and no number, so that one that is late is read by the next request, and because the record is
  shared.

`PROJECT.json` lists the hazards at their lines.

## The modules

- `ConnSlot` says abstractly what the cache promises: a slot that is empty until it holds an open
  connection, then always holds one, is exchanged only when nobody borrows it, and is borrowed by
  one caller at a time.
- `RsdCache` is `rsd.rs`, one action between two points at which another thread can run: a `get()`,
  a `lock()`, a `set()`, the end of an await. `pc[c]` is the thread's place, `made[c]` the new
  tunnel in its local variable, `holder` the owner of the `MutexGuard`, `open` the
  `CachedRsdConnection`s not yet dropped. `GetCached`, `LockCached`, `Probe*` are lines 37-56 and
  83-93, `CloneFile` and `Create*` lines 114-166, `GetAgain` ... `Swap` lines 61-68 and 97-105,
  `Serve*` lines 70-75, `Release` the end of the mount. Dialling, pairing, TLS and the handshake are
  one step that succeeds or fails: they touch nothing shared. It implements `ConnSlot` (property
  `KeepsPromise`).
- `BackupStore` has the disk as sets of directories and, for the archive, the metadata and the
  extracted files, *which run they are whole for*. A run goes through `MakeDir`, `Vend`,
  `CreateZip`, `FinishZip`, `BeginMetadata`, `EndMetadata`, `Report` and can `Fail` at each; a walk
  that fails drops its `ZipWriter`, which may leave an archive that can be read (`partial`);
  `CheckExtracted` ... `ShowError` is a selection; `Remove*` and `EndDelete` are `removeItem`, which
  goes file by file; `Kill` ends the process and leaves the disk; `Tick` sets the clock to any
  second.
- `BackupShelf` says abstractly what the user is promised: a backup becomes kept in one step, is
  kept until its place is given up, and success is announced after it and once. `BackupStore`
  implements it with the mapping `kept` <- the runs whose metadata and archive are complete in a
  directory of their own, `givenUp` <- those whose directory was used again or deleted, `announced`
  <- those with `outcome` "ok" (property `KeepsBackups`).
- `BackupBrowser` extends the store with `currentDirectory` (`cwd`), `directoryContents` (`listing`)
  and the files and directories that the extraction of the backup on the screen has left (`there`):
  `Open`, `EnterDirectory`, `GoBack`, `LeaveError` are the handlers, every step of the store stays
  possible beside them. `goBack` compares URLs, and `contentsOfDirectory` may return them spelled
  otherwise than `backupsDirectoryURL` (on a device, `/private/var` against `/var`): `alike` is
  whether `cwd` is spelled like it, which `EnterDirectory` may end and a new selection restores. The
  places go on above the backup: its directory, `Backups`, and `Elsewhere` for all the rest.
- `ContainerWalk` opens up the two steps that `BackupStore` takes as one (`CreateZip` to
  `FinishZip`, and `CopyEntries`). One action is one AFC request: `ListDir`, an entry that is
  skipped, a directory, a file that is opened, a read. `Creates` and `Deletes` are the application
  that owns the container. The contents of files are counted in reads.
- `ArchiveJob` says abstractly what the bridge promises of a backup and its extraction: it succeeds
  in one step with an archive of all that lasted, nothing that was denied, every file whole and in
  its directories, or it fails; what is unpacked is what is in the archive. `ContainerWalk`
  implements it (property `KeepsTheJob`) with the mapping `phase` <- how far backup and extraction
  have come, `content` and `pieces` <- the entries and the bytes written once the backup has
  succeeded, `lasting` <- `stable` without what is denied.
- `Dashboard` has the main queue as a sequence of blocks. `Import`, `DeleteFile` and `StartTest` are
  handlers, `EngineReturns` ... `Timer` the thread of a test, and `Begin` ... `SetError` run the
  first block of the queue. The lines of the terminal, the toast and the folding of the log are left
  out.
- `DeviceSessions` extends `RsdCache`: a session is one call of the bridge, `stage` is the service
  it waits for or the request it sends next, and the device keeps what requests have done
  (`mounted`, `ipa`, `app`). `InCache` is any step of the cache, `Connected` and `NotConnected` are
  what the session does with its answer; `met` records which sessions of a kind overlapped.
- `UsbmuxEvents` is the device monitor as `project.yml` builds it (no inotify, no `pthread_cancel`).
  One action is a section under the mutex, a callback round, a blocking call or an access of the
  unprotected globals: `Subscribe`, `Spawn`, `Unsubscribe`, `Shutdown`, `Flag`, `Join` for a client,
  `Start` ... `Cleanup` for the thread; the daemon is stopped and restarted by `Stop` and `Restart`.
  With `Overlap = FALSE` a subscription does not fall between the mutex section of another call and
  its end; finding 4 is what happens with `TRUE`.
- `DeviceFeed` says abstractly what subscribers are promised: one board of devices, on which a
  device is posted once when it comes and from which it is withdrawn once, all subscribers being
  told in the same step. `UsbmuxEvents` implements it (property `KeepsTheFeed`) with the mapping
  `board` <- `devices` without the device of an event in hand that is not announced yet, or whose
  removal has been, `coming` <- that of an "add" in hand, `subscribed` and `told` <- `listeners` and
  `known`, but for the clients of `raced`.
- `LockdownClient` has a client for each process or thread that opens a session. `Got*` is the
  receipt of an answer, or its timeout, with the request that follows; `ReadRecord`, `SaveRecord`
  and `ReadAgain` are the accesses of the record; `Handle`, `Lost` and `Reset` are the device, the
  cable and the user. Requests and answers are two queues for each connection, so an answer can be
  late by any number of requests. The answer to StartSession may lack the SessionID (`session`) and
  may not ask for TLS (`bare` is TRUE from an answer that asks until TLS is enabled); both are a
  success.
- `TrustedHost` says abstractly what the handshake promises: the stored record only changes to that
  of a host the device has accepted, and a client is given the session that the device runs on its
  connection and keeps it until it gives it back or the connection is lost. `LockdownClient`
  implements it (property `KeepsTheTrust`) with the mapping `accepted` <- `trusted` and `revoked`,
  `running` <- `serves`, `held` <- the `hostId` of the clients that are "ready" on a connection that
  stands. (When the connection is lost just as the handshake returns, a client whose device did not
  ask for TLS is "ready" without a session.)
- `MC*` give the constants their values; `*Proofs` hold the theorems about the module of that name,
  those about an abstract specification are with the module that implements it.

Definitions named after what they vary (`SetOnceOverwrites`, `StartUnguarded`, ...) are not part of
any specification: each is a bug that could be made at that place, kept to show that a property
would notice it. Lines are mapped to definitions in `PROJECT.json`.

## The runs

| Run | Bounds | States | Shows |
|---|---|---|---|
| `cache` | 3 threads, 2 calls each, 3 tunnels, 2 files, symmetric | 314 k | cell and tunnels stay consistent under every race; refinement of `ConnSlot` |
| `sessions` | 2 threads, 2 sessions, 2 tunnels, 3 calls of the cache | 647 k | one image is mounted at a time, a staged `app.ipa` that was reported is whole, an application left suspended is reported, every call of the cache is answered |
| `cache_config` | 1 thread, 2 files | | *violated*: see finding 1 |
| `store` | 2 bundles, 2 seconds, 2 runs, symmetric | 198 k | listed is whole, no ghost rows, one backup at a time; refinement of `BackupShelf`, with which a listed backup stays and a success is stored |
| `browser` | 1 bundle, 1 second, 2 runs; a file beside a directory that holds a directory with a file; URLs spelled alike or not | 100 k | the browser is open while a backup is shown, lists what is there and stays in the backup while URLs are spelled alike; a backup ends, a tapped row is answered |
| `store_shown` | 1 bundle, 1 run | | *violated*: see finding 2 |
| `walk` | 4 paths, three levels, 1 denied path, 2 changes, files of 0 or 2 reads | 990 k | the archive is a complete tree with right sizes, the walk ends; refinement of `ArchiveJob`, with which the extraction equals the archive |
| `dashboard` | 2 tests, 5 kinds of pairing file, 3 imports or deletions | 61 k | pairing settles on the file, the button and the list tell the truth, the button comes back |
| `dashboard_keys` | 1 test, 1 import | | *violated*: see finding 3 |
| `usbmux` | 2 clients, 1 device, 2 threads, 3 subscriptions, 3 events of devices and daemon, calls do not overlap | 220 k | one monitor, subscribers informed, the monitor that is joined ends and `unsubscribe` returns outside the window `hasty`; refinement of `DeviceFeed` |
| `usbmux_threads` | the same with overlapping calls | | *violated*: see finding 4 |
| `lockdown` | 2 clients, 2 host identifiers, 2 handshakes, trust revoked once, device older or newer than 7.0, answers to StartSession with or without a session id and a request for TLS | 474 k | sessions are trusted whichever answers are late or lost, handshakes return; refinement of `TrustedHost`, with which the record is an accepted host's |

Why the bounds are enough to be of use: the cache needs two threads that see the cell empty at once
and a third that borrows or reconnects meanwhile, and three tunnels for a first connection, a loser
and a replacement. The store needs two runs to meet in one directory (same bundle, same second) and
to stay apart in two ways. The walk needs a directory in a directory, beside another entry, an empty
file, and two changes for a path that goes and comes back. The dashboard needs two tests to overlap
and a delete, an import and one more to follow each other. The sessions need two of a kind, at
different stages, and a tunnel that dies between two services of one of them. The monitor needs a
client that leaves while another comes, a thread handle that is used again, and a device that goes
while the daemon is away (attach, stop, detach). The handshake needs two clients that pair at once,
one that is killed after the device has answered, a device that forgets a host, and enough requests
in a row for a late answer to meet each of them. The proofs lift the bounds for every safety
property.

`CHECK_DEADLOCK FALSE` is used where the system comes to rest: a walk ends, and the bounded numbers
of tests, imports, sessions, subscriptions and handshakes run out.

### Findings

1. `set_rppairing_file` (`rsd.rs:29`) ignores that a pairing file was already set. A replaced file
   is reported as configured (`LockdownEngine.swift:43-46`), while tunnels use the first one until
   the application is restarted.
2. `ensureExtracted` (`BackupEngine.swift:60`) takes any directory `extracted` as complete, also one
   that a failed or killed extraction left.
3. `parseFile` (`PairingManager.swift:85`) does nothing for a property list whose root is not a
   dictionary, so the settings show an active pairing without the warning they have for missing keys
   (`SettingsView.swift:44`).
4. `usbmuxd_events_unsubscribe` (`libusbmuxd.c:1230`) stops and joins the monitor after it has given
   back the mutex, and `usbmuxd_events_subscribe` decides by `thread_alive(devmon)` whether there is
   one: a client that subscribes in between gets no monitor and is never told of a device. `NEWS`
   (line 34) offers the functions for use in different threads.

Met while modelling and not stated as properties, because nothing in the code says otherwise: two
taps that are handled before the main queue runs start two tests, and the first teardown frees the
button under the second (`DashboardViewModel.swift:23`, excluded by `overlapped` in
`FreeButtonIsIdle`); from a top-level entry of `extracted` `goBack` closes the browser instead of
going up, and from `extracted` it goes up into the backup's own directory
(`BackupViewModel.swift:103`); once a directory whose URL is spelled `/private/var/...` was entered,
neither comparison of `goBack` ever holds, so it goes up through `Backups` and beyond, closes
nothing, and only a restart leaves the browser (`alike` in `BrowserShowsBackup`); two overlapping
mounts both see no image and both transfer it, and two overlapping uploads write one file (`met` in
the properties of `DeviceSessions`); a command that the debug server refuses is not an error
(`jit.rs`, `refused`); `unsubscribe` can wait for a monitor that has no socket stored yet (`hasty`);
a client that subscribes while a removal is passed on keeps the device (`raced`); a pair record that
cannot be read or parsed is taken as none, so the handshake pairs again and overwrites it
(`lockdown.c:710-728`); a backup that ends during the toast of the one before gets no toast
(`DashboardView.swift:288`).

## Fairness

- Cache: a thread in a call is scheduled again, every await ends, a borrower gives the guard back.
  `block_on` on a thread of its own justifies the first; the code has **no timeouts**, so the second
  is an assumption about the device, and where it fails `EveryCallAnswers` fails with it: the mutex
  is held during the await.
- Browser (and store): tasks are scheduled, calls into the bridge return (the same assumption), and
  work for the main thread gets its turn between other events, which is strong fairness for
  `Report`, `Open` and `ShowError`. The main queue is first-in first-out, so repeated user events
  cannot starve a block.
- Sessions: as for the cache; a session goes on with the answer it got.
- Device monitor: the threads of the clients and the monitor are scheduled. Nothing is assumed of
  the daemon, of devices or of who subscribes; `AttachIsTold` holds while the daemon runs, and the
  code polls for a daemon that is away.
- Handshake: clients are scheduled and 30 seconds pass (`property_list_service.c:272`). The device
  need not answer.
- Walk: the device answers each request with data, a refusal or an error. `BackupFails`, the other
  failures, is not assumed to happen.
- Dashboard: the main queue is served and the threads of the tests go on.

## Proofs

Every module that the runs check has a module `*Proofs`, which TLAPS checks for every value of the
constants under the named assumptions of its modules: the "no value" constants are not values, the
bounds (`MaxCalls`, `MaxSessions`, `MaxPicks`, ...) are natural numbers, what is known of a pairing
file is consistent (a root that is a dictionary was parsed, a key is in a dictionary), a path of the
container is a sequence of names whose last is neither `.` nor `..` and whose ancestors are paths
too (`PathsAssumption`), and the tree of the browser has a root. No set is assumed to be finite. TLC
evaluates the assumptions in the runs, and checked each inductive invariant there before it was
proved.

*Cache* (`RsdCacheProofs`). The inductive invariant `IInv` adds to `TypeOK`: who holds the guard
(`GuardOwnership`); that the cell is set at every point after a lock (`CellFilledBeforeUse`); that
exactly the threads in `Carrying` have a tunnel in hand (`CarriesWhatItMade`), pairwise different
and different from the cached one, and that `open` is these and the cached one (`OneConnection`,
`OpenIsUsed`); and that tunnels (`PairedWithTheFile`) and the copies of the pairing file in hand
(`CloneIsTheFile`) are of the file of the process, which never changes once it is set. Each is
needed: `OneConnection` alone is not inductive, because a step from `set` could publish a tunnel
some other thread also has. From it follow the safety properties, the action properties and, step by
step, the refinement of `ConnSlot` (theorem `Refinement`). The runs check that refinement and
`OneConnection`; `GuardOwnership`, `CellFilledBeforeUse`, `PairedWithTheFile` and `BorrowedIsStable`
are proved only.

*Sessions* (`DeviceSessionsProofs`). A step of a session is a step of the cache or none, so
`SessionsSpec` implies `Spec` (`SessionsKeepCache`) and every theorem of the cache holds under the
sessions, the refinement among them (`SessionsKeepPromise`). `SInv` beside the cache's `IInv` says
what an answer of the cache means (`ReplyFits`: there is none while the call is under way, and
`borrowed` comes with "ok"), where the cache is at each stage of a session (`StageFits`), and what
the sessions past a stage have seen on the device: no image unless they `met` (`ImageInv`), every
byte written (`UploadInv`), a process under the debugger (`DebugInv`). The overlap has to be
remembered in `met` at each stage, because the session that spoils another one may be gone when the
damage shows.

*Store* (`BackupStoreProofs`). The inductive invariant `IInv` says where what is on the disk comes
from (`Provenance`: whole files are of a run that got the directory, metadata only from `saved` on);
for a directory that nobody tried to delete, what is on the disk at each `pc` of a run
(`WalkHasFile` while the archive is written, `ArchiveStays` after it, `SavedIsDescribed` at the
end); and that a run between `mkdir` and the report is the only one alive (`OneBackupAtATime`,
`HasDir`). `DeletionWasAsked` and `ExtractsSelected` keep the two view models' other tasks away from
these files. `ListedIsWhole`, `SuccessIsStored`, `ListedIsImmutable` and `NoGhostRows` follow;
`SuccessIsStored` and `ListedIsImmutable` are proved only: the runs check the refinement of
`BackupShelf`, which says the same of the runs it keeps.

*Shelf* (same module). `ShelfInv` adds four facts to `IInv`: a run has no directory before it takes
its time stamp, a directory remembers the runs that got it, success is told at the end only, and an
archive that nobody asked to delete is in a directory that exists. With them a run is kept exactly
when its metadata describe it (`KeptByMetadata`), so `EndMetadata` is the step `Keep`, `MakeDir` and
`Delete` are `GiveUp`, `Report` is `Announce`, and every other step is invisible (theorem
`ShelfRefinement`).

*Extraction and browser* (same module and `BackupBrowserProofs`). For `UnbrokenIsWhole`, `ShownInv`
follows an extraction from the row to the screen: of a directory that one run has used and nobody
tried to delete, what is selected is described by that run's metadata (`SelectedIsDescribed`), so
the archive being unpacked is that run's and not one a failed walk has closed, and stays it
(`CopyFits`, `CopyStays`); an extraction that did not break off is complete or the one under way
(`ExtractedFits`), and the tab never deletes what it shows (`TabFits`). `BrowserSpec` implies `Spec`
(`BrowserKeepsStore`), and `BrowserInv` adds that the listing is the one of the directory the
browser is in (`ListingFits`), that of a complete extraction every file is there (`ThereFits`), and
that while URLs are spelled alike the browser and the directories it lists belong to the backup
(`AlikeIsInside`: with them the second comparison of `goBack` closes the browser before it leaves).
`BrowserShowsBackup` follows for any tree.

*Walk* (`ContainerWalkProofs`). `TreeFits` says that the archive is a tree with all ancestors of
what is in it. For it to stay one, nothing may be met twice: the directories on the stack are
different, archived, and nothing below them is (`StackFits`), what is left of a listing is not
archived and its directory is listed (`TodoFits`). `StableFits` is the argument for completeness:
what has been there all along is archived, or the walk has yet to come to it or to a directory above
it. `ReadFits` gives the bytes written of every file from `reading` and `left`, `UnpackFits` the
files and directories of the entries unpacked so far. `SizesAddUp` counts the bytes as the set
`Pieces` of pairs of a file and a position, which is a finite set that grows by one element with
each read that returns data, so `total` is its cardinality without a sum, which would need an
induction over data.

*The job* (same module). `Finish`, when the stack is empty, is the step `Succeed`: nothing is left
to come to, so `StableFits` says that what lasted is archived (`StableIsMet`) and `ReadFits` that
each file is whole (`FilesAreMet`). `UnpackEnd` is `Unpack` (`UnpackedIsMet`), a deletion in the
container is `Lose`, an error is one of the two failures, and every other step is invisible (theorem
`ImplementsArchiveJob`). `UnpackedIsTheArchive` is proved only: the refinement says it of the mapped
copy.

*Dashboard* (`DashboardProofs`). The invariant is about the main queue. Blocks of the pairing wait
in an order in which the last one wins (`InOrder`), each is about the file that is on the disk now
(`BlockFits`), and what no waiting block will set is right already (`PublishedFits`). While tests
have not overlapped there is one (`OneTest`), what ends it is in the queue once and behind its list
(`EndsFit`, `ListsFit`), and its thread and block agree with `isTesting` and `latest` (`BeginsFit`,
`ThreadsFit`).

*Device monitor* (`UsbmuxEventsProofs`). Types are proved without a condition, the rest under
`~Overlap`: with overlapping calls it is false (finding 4). `CallsFit` and `MonitorFits` say that
one call is between two sections at most, that a thread that lives is `devmon`'s and that it is
needed. `PlacesFit` says what the device list is at each place of the monitor, `KnownFits` that a
subscriber knows the list but for the event in hand, and `QueueFits` that the last word about a
device in what is to be read, or the list if there is none, is what the daemon sees; with an empty
queue these are `QuietIsInformed`.

*The feed* (same module, under `~Overlap` as well). `OrderFits` adds that while the monitor reads,
the words about each device in the queue alternate and the first one is news to the list
(`Alternates`): a listing mentions each device once and comes when the list is empty, a report
differs from the last word (`QueueFits`), and a word that is read leaves the rest in order. So an
"Attached" that is read is about a device that is not on the list, and `Receive` is the step
`Arrive`; `Tell` is `Post` or `Withdraw`, `Subscribe` and `Unsubscribe` are `Join` and `Leave`
unless the client is in `raced`, `Cleanup` is `Clear` because it is asked for by the last
`unsubscribe` (`CleanupIsAsked`), and every other step is invisible (theorem
`ImplementsDeviceFeed`).

*The join* (same module, under `~Overlap`). `JoinedEnds` is the safety part of `UnsubscribeReturns`,
for any number of clients and monitors: outside the window `hasty`, the monitor that `unsubscribe`
joins never waits for an open connection and cannot make another one. `EndsFit` carries that from
the shutdown, which reaches the socket the monitor reads from (`PlacesFit`), over the `Check` that
finds nobody subscribed, to the join.

*Handshake* (`LockdownClientProofs`). The invariant has one part per client and no part about two:
an answer that is late is to a request that was sent (`Unasked`), what is sent once is the last
thing on the connection while its answer is awaited, so whoever reads that answer has read every
earlier one (`AskedLast`), the answer to Pair that is read is about the record that is then saved
(`PairFits`), and from the answer to StartSession on the session of the client is the one the device
serves, as long as the connection stands (`SessionFits`). The clients meet in the record and in the
hosts the device has accepted only, and these never become fewer.

*Trust* (same module). `Handle` of a Pair request is the step `Accept` and of StartSession `Run`,
`SaveRecord` is `Store`: the invariant gives that the record is of an accepted host. `EnableSSL` is
`Give`, if the connection still stands: `SessionFits` gives that the device runs the session of
`hostId` then. A `Crash`, the end of a call and the loss of a connection are `GiveBack`, a session
that is stopped `End`, and every other step is invisible (theorem `ImplementsTrustedHost`).
`RecordIsTrusted` is proved only: the refinement implies it.

Model-checked only: all liveness (`BackupEnds`, `SelectionIsAnswered`, `WalkEnds`,
`ButtonComesBack`, `EveryCallAnswers`, `AttachIsTold`, `UnsubscribeReturns`, `HandshakeReturns`),
which is out of the prover's reach. Every other property of a run that passes is a theorem.

## Not modelled

- Panics while the guard is held (a poisoned mutex would make every later `lock().unwrap()` panic):
  `rsd.rs` has no reachable panic between lock and drop, and `mounter.rs:81` only one on standard
  output.
- Which errors a dead tunnel produces: the `idevice` crate is not in the repository, so both answers
  are possible everywhere.
- The contents of archived files: a file rewritten while it is read is archived as it was read.
- `BackupViewModel.performBackup`: no view calls it.
- Provisioning profiles on the device and in the dump directory: one request each.
- In the device monitor: PAIRED events, the change of the protocol version, packets that are not
  understood.
- In the handshake: the device class Watch, records without a host identifier, a caller's own pair
  record, a message that breaks off in the middle, and the other requests of `lockdown.c`.
- The bridges: every function converts its arguments, calls and converts the result. A C string
  lives between the call and the free in the same Swift function.
- The rest of the C code: it makes up nearly all of the lines of C in the repository (the headers of
  OpenSSL, command line tools that the application does not contain, `libplist`, the service clients
  of `libimobiledevice`, which no view reaches). It is vendored, most of it is declarations,
  conversions and single requests, and modelling a share of it for its size would say nothing about
  UnBoxer. The two parts with concurrency and failures of their own are modelled; the application's
  own code is Swift and Rust.
- Layout and build scripts: see the components in `PROJECT.json`.

## Plan

Done: the cache and the sessions over it, the store with its shelf and the browser, the walk, the
dashboard, the device monitor, the handshake. All of their safety properties are proved, and the
five abstract specifications (`ConnSlot`, `BackupShelf`, `ArchiveJob`, `DeviceFeed`, `TrustedHost`)
are implemented. `ArchiveJob` is what allows `BackupStore` to take the walk and the extraction as
one step each: in between nothing of either can be seen but that it goes on.

What is left is the composition of the two as one specification, in which the archive that
`BackupStore` writes is the content of a job of its own, and the one-shot requests of `libusbmuxd.c`
and the other requests of `lockdown.c`, which keep no state.
