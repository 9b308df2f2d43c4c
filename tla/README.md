# icommunication, specified and checked

icommunication is an Android service that talks to iPhones on the USB port.
Other apps bind to it, get the list of USB devices, ask for permission to use
one, read a phone's details and install packages on it. Inside, every command
runs an embedded `usbmuxd` daemon on a thread of the service's own process and
talks to it through a UNIX socket with libimobiledevice.

This directory models the parts of it where order, failure and concurrency
decide what happens, checks them with TLC on small instances, and proves the
central ones with TLAPS for instances of any size.

Source prefixes used below: `kotlin/` is
`src/libimobiledevice/src/main/kotlin/com/dimkasark/`, `cpp/` is
`src/libimobiledevice/src/main/cpp/`, `service/` is
`src/service_impl/src/main/kotlin/com/dimkasark/icommunication/`.

## 1. Inventory

| Component | State it keeps | Operations | Talks to |
|---|---|---|---|
| usbmuxd daemon (`cpp/external/usbmuxd/android/daemon.c`, `integration.c`, `kotlin/usbmux/UsbMuxDaemon.kt`) | `stateFlow` per instance; process-wide `should_exit`, device list; socket file | prepare, create_socket, loop_main, stop_loop, free | sessions (StateFlow, socket), libusb |
| command processor (`kotlin/UsbCommandProcessor.kt`, `DeviceCommunicationApi.kt`) | `mutex`, open `UsbDeviceConnection`, config directory | execute, runMobileDeviceAction, cancellation | service, daemon |
| USB service (`service/UsbCommunicationService.kt`, `UsbCommunicationReceiver.kt`) | `usbDeviceInfo`, `connectedApp`, `scope` | onCreate, onDestroy, handleMessage, refreshDeviceInfo, onReceive | UsbManager, clients, command processor |
| installer (`cpp/src/ideviceinstaller.c`, `native-lib.c`) | the statics of `ideviceinstaller.c`, pointers of a call | installApp, runAction, status_cb, idevice_event_callback | phone, libimobiledevice's threads |
| install and permission jobs (same service file) | `temp_app.ipa`, a coroutine per job | installIphoneApp, readIphonePermission, ProgressSender | command processor, client |
| AFC upload (`afc_upload_file`, `afc_upload_dir`) | file position, `send_count` | upload, progress callback | phone, JVM |
| permission poll, device info (`kotlin/MobileDeviceApi.kt`, `cpp/src/device_permission.c`, `ideviceinfo.c`) | report file | obtainPermission, obtainDeviceInfo | phone, user |
| service API (`src/service_api`) | none | constants, `toRaw`, the parser | clients |
| vendored libraries, build, resources | - | - | - |

What is hard in it, and what makes each component correct:

* **Daemon.** Nothing in the native code tells two daemons of one process
  apart, and the flag, the file and the device list are shared. A stop request
  must reach the daemon it is meant for, whether that thread is before, in or
  after `ppoll`; a daemon's end must not take down another one's device.
* **Command processor.** One command at a time, in order; the device and the
  lock are kept until the daemon has ended; waiters are served. Failures
  (a device that is gone, a descriptor libusb rejects, an action that throws), a cancelled scope and a
  daemon that fails to create its socket all meet the same straight-line code.
* **Service.** The list must follow devices that come and go between its own
  two reads of `deviceList`, and answers of the user that come late; the client
  must see what the service knows.
* **Installer.** Three threads write plain C statics; every step can fail and
  jumps to one cleanup label; the phone can leave at any moment; statics
  outlive a call. The result has to say what the phone did.
* **Jobs.** Every install goes through one file, `temp_app.ipa`, which is
  written before the mutex is taken and deleted after it is given back; a
  service that is destroyed cancels coroutines that notice it only at their next
  resumption, and not inside native code; the permission poll blocks the main
  thread. What is installed must be the job's own package, nothing may stay
  behind, and every job must come to an end.
* **Upload.** Writes may be short, a failed read looks like the end of the file,
  counters have 32 bits, and a report to a dead client leaves an exception
  pending that native code never looks at. What the phone is told to install
  must be the package, and what the client is told must be true.

`PROJECT.json` lists the hazards line by line, each with the properties that
watch it or with the reason why none does.

## 2. Modules

| Module | What it is |
|---|---|
| `UsbMuxDaemon` | the daemon thread and the operations sessions perform on it; a library of actions, no `Spec` of its own |
| `CommandProcessor` | sessions (calls of `execute`) composed with their daemons; `Spec`, `FairSpec`, properties |
| `DaemonLease` | the abstract specification: an exclusive, first-come lease on the native daemon |
| `CommandRefinement` | the refinement mapping, `LeaseSpec == Lease!Spec` |
| `DeviceRegistry` | the service's device list, permission requests, clients |
| `ServiceJobs` | installs and permission checks of the service, composed with the command processor through `DaemonLease` |
| `Installer` | `installApp`/`runAction`, the status thread, the event thread, the phone |
| `PackageUpload` | the search of an archive and `afc_upload_file`, byte by byte; refines `Installer` |
| `DaemonLeaseProofs`, `CommandProcessorProofs`, `CommandRefinementProofs`, `DeviceRegistryProofs`, `ServiceJobsProofs`, `InstallerProofs`, `PackageUploadProofs`, `UploadRefinementProofs` | TLAPS proofs |
| `MC...` | what TLC needs in addition (a symmetry set) |

```
ServiceJobs ---- DaemonLease <--implements-- CommandProcessor ---- UsbMuxDaemon
     | "upload", "install"
 Installer <--implements-- PackageUpload                      DeviceRegistry
```

Definitions marked "Mutant" are plausible bugs. Each property is checked to
fail when the definition named in `PROJECT.json` is replaced by its mutant;
nothing else refers to them.

### Daemon and command processor

A session `j` and the daemon it launches have the same name. `pc[j]` is the
session (`idle -> queued -> starting -> settling -> acting -> waking -> joining
or unwoken -> done`), `daemonPc[d]` the thread (`prepare`, `socket`, `enter`, `test`,
`poll`, `polled`, `dispatch`, `free`, `end`); the labels of the loop are the
places where `loop_main` reads `should_exit` or blocks. `flow[d]` is the
`StateFlow`: it holds the latest value only, so `SeeStarted` is enabled only
while that value is `Started`. `lockQueue` is the kotlinx `Mutex`, its owner
first. `socketPath` says whose socket the file is bound to, `listening[d]` that
somebody once listened on it (no code closes a listening descriptor), and
`backlog[d]` the connections waiting there. `registered` is usbmuxd's
global device list; besides `freeDaemonResources`, `usb_process` may take an
unplugged device off it (`UsbProcessed`).

Steps of sessions run on the main thread, from one suspension point to the
next; the one native call another thread can see half-way is `stop_loop`, which
is split into `ActionReturns` (set the flag) and `WakeDaemon` (connect). That
connect may fail: nobody listens, or `socket()` or `connect()` returns -1, which
the code logs and forgets. The session is then "unwoken" and waits for
`Terminated` all the same, until `ppoll` times out; every property about waking
the daemon speaks of "joining" sessions, whose `stop_loop` did connect. A
listening socket takes 256 connections, which nothing here comes near.
`CancelScope` is `onDestroy`: a cancelled holder unwinds through `withLock`
without stopping the daemon or closing the device, and its daemon is then an
orphan ("abandoned"). `ProcessDies` is an exception nobody catches (`OpenFails`,
`ActionThrows`) or the read of an uninitialised handle in `prepareDaemon`
(`PrepareCrashes`); the socket file survives it.

Several safety properties carry the premise `NoneAbandoned`. That is not a
convenience: once an `onDestroy` has orphaned a daemon, the properties are
false, because the next command runs beside it (`LiveOnlyUnderHolder` and the
`leaked` of `DaemonLease` say exactly how far).

### Device registry

`attached`, `granted` and the requests belong to other processes and move
between the service's steps, in particular between the two reads of
`deviceList`: a refresh is `Receive`/`Create` (first read, `Prune`) followed by
`FinishRefresh` (second read, `AddNew`, `Override`, send). Broadcasts are a
set, delivered in any order, only while the receiver is registered. A send to a
dead client throws and takes the process with it (`SendFails`). A client is
"up to date" when the last list it was sent equals the service's.

### Installer

`pc` is the caller in `runAction`, one label per step that can fail; every
failure leads to `cleanup`. `ptr` gives the state of each pointer that is freed
somewhere: `null`, `live`, `dangling`; `twice` collects what is freed while
dangling, and what such a free does is left open (go on, or end the process,
then `Restart`). `reply` is what the phone answered, `result` what the caller
got. The status thread sends one last status or loses its connection; it is
joined by `instproxy_client_free` in `Release`. The event thread exists between
`Subscribe` and `Unsubscribe`, unless the subscription failed, which the code
does not look at, and delivers only removals that happen in between.
Option dictionaries, plists and strings are left out; the pieces of the package
(buffers, archive entries or files) are counted. `Crash` is the call of the NULL
callback that `afc_upload_dir` hands to `afc_upload_file`, the call into Java
with an exception pending, and the search that runs off a name.

### Jobs of the service

A job is a coroutine; `pc[j]` is where it stands, and the sets `OnMain` and
`Installing` say which places are native calls that block the main thread or an
IO thread. Between two of them the job waits for `UsbCommandProcessor`, which is
`Processor == INSTANCE DaemonLease`: `Request`, `Grant`, `DaemonEnds`, `Return`,
`Abandon`, `CancelWaiting` and `Crash` are conjuncts of the job's own actions, so what is
shown here rests on the refinement shown for `CommandProcessor`. What the lease
does not say, that a holder may wait for its daemon for ever, is in the places
of a job: "starting" (`waitForStart`) ends with `Begin` or `MissStart`,
"returned" (`stop()`) with `StopDaemon` or `LoseStop`. A job that is "missed" or
"unstopped" (`DeadEnds`) leaves only with its service or its process, or when
its daemon ends by itself (`StopDaemon` of an "unstopped" one).

`tempFile` is the file the name `temp_app.ipa` stands for at the moment. A file
is named by the job that created it; `authors` is whose bytes are in it (`None`
for half a package), `writing` the file a job copies to, `source` the file
`runAction` has open, `inspected` and `uploaded` whose bytes it found the bundle
identifier in and sent. With a name and a file apart, a job that deletes the
name while another one reads the file, or truncates it under the reader, does
what it does on Android. `rivals` is a history variable: the installs that were
between their first and last `delete()` together with another one.

`DestroyService` is `scope.cancel()`: waiters leave, the others are `cancelled`
and leave when they are next resumed. `ProcessDies` collects what throws with
nobody to catch it (`Throws`). Both leave files behind, and both are followed by
a new service on which the jobs still `idle` run.

### Upload of a package

An archive is a sequence of entry kinds, a package a number of bytes that are
numbered, so that `remote` shows what the phone stored and in which order.
`Fill`, `WriteSome` and `ReportBuffer` are `fread`, one `afc_file_write` and the
rest of the outer loop; `Width` stands for 2^32. `late` is ProgressSender's half
second, `pending` the exception of a report to a dead client, and `missed` a
report for which no client was connected (`Tell`).
`Coarse == INSTANCE Installer WITH ...` maps an upload to a call of `Installer`
between its `ReadArchive` and its `CloseArchive`; `ImplementsInstaller` says
that every step is one of `Installer`'s or a stutter.

## 3. Runs

Passing:

| Run | Instance | Shows |
|---|---|---|
| `command_safety` (251,914 states) | 2 sessions, cancellation, 1 pending connection | daemons live only under their holder; the device is open and registered as long as needed; a `stop_loop` that connects is not slept through; connections reach the own socket; whoever holds the mutex can go on but for named cases; refinement of the lease |
| `command_liveness` (17,694) | 2 sessions, no cancellation, 2 pending connections, fair threads | a stop that connected is heard, starts are noticed, waiters served |
| `registry` | 2 devices, 2 clients (1 incompatible), 1 request | the list and the permissions shown, what clients have seen, plugged-in devices are shown |
| `jobs` (395,013) | 2 installs, 1 permission check, cancellation and process death, fair threads | installs send their own package, files and handles are given back, jobs are answered or wait behind a named dead end |
| `install` | 3 calls, all kinds of package, 2 pieces | results, threads, pointers, order of upload and command, end of answered calls |
| `upload` | archives of up to 3 entries, packages of up to 5 bytes, buffers of 2, counters modulo 4 | what the phone has when told to install, what the client was told, files, refinement of the installer, end |

Runs that show a disagreement between the code and what it says of itself; each
checks one property, and TLC's trace is the scenario:

| Run | Says | Does |
|---|---|---|
| `daemon_up` | "Wait for daemon really starts" (`UsbMuxDaemon.kt:35`) | sleeps 300 ms; the action may run before or after the daemon's loop |
| `stop_lost` | "Try to connect to socket for force check daemon dead" (`daemon.c:173`) | a stop that precedes `should_exit = 0` in `loop_main` is forgotten; `stop()` never returns and keeps the mutex |
| `removal_missed` | "subscribe to make sure to exit on device removal" (`ideviceinstaller.c:320`) | a removal before the subscription is never seen; the wait never ends |
| `false_success` | "wait for command to complete" (`ideviceinstaller.c:323`), `DEVICE_INSTALL_RESPONSE_SUCCESS` (`Entities.kt:32`) | returns 0 after the phone was removed in the middle of an installation |
| `stale_udid` | "return default values" (`ideviceinstaller.c:457`) | `udid` keeps the pointer the call before has freed |
| `stray_entry` | "try next entry if not found" (`ideviceinstaller.c:272`) | a plain file in `Payload/` is taken for the application, or the search runs off its name |

What the passing runs say of two hazards is weaker than one would like, and on
purpose. `OwnPackage` and `PackageInPlace` exclude `rivals`: two installs at the
same time do get each other's package, or none, and nothing in the code says
otherwise. `SameLength` promises the length of the copy. `CopyOfPackage` promises its bytes
one by one only if no write was short, because a short write is followed by one
from the start of the buffer; if one was, it promises that every byte the phone
installs is a byte of the same buffer of the package, so the damage is local.

`HolderGoesOn` (`command_safety`) is what can be said of the mutex without
fairness: its holder, or the daemon the holder waits for, can take a step that is
not a timeout. The exceptions are named and are the code's: `MissedStart`,
`LostStop`, an "unwoken" holder, and the daemon of a holder whose connection
went to an orphan's socket. An "unwoken" holder is no dead end: `WaitersServed`
shows that it, and whoever waits behind it, is served once `ppoll` times out.

**Bounds.** Two sessions are enough for every interaction of a holder or an
orphan with its successor; the order of longer queues is proved
(`ImplementsLease`). `MaxPending` bounds connections an action leaves
unaccepted: one is enough to make a socket readable, two to leave one behind
after an accept. In `registry` the answer for one device meets a change of the other,
and the incompatible client comes between any two steps of the compatible one;
one compatible client that replaces another, and several requests, are left to
the theorems (`CopyIsCurrent`, `RefusalsAreReal`), which hold for any number of
both; a device id is not used again after unplug, as Android hands out new ids. In
`jobs` two installs overlap or follow each other, the second after one that
left its file behind, and the check holds the mutex and the main thread against
both; each job is given once. Three calls of the installer show a call after a
process end, or after two earlier ones; two pieces let an upload stop in the
middle. In `upload`, three entries put a stray file before, between and after
applications, five bytes are two whole buffers and a rest, and the counter
overflows at four, so both sides of `size < Width` occur. `MayCancel = FALSE` in
`command_liveness`, `daemon_up` and `stop_lost`: after a cancellation nobody
stops the orphan, which `command_safety` covers. `CHECK_DEADLOCK FALSE`
everywhere: the system comes to rest when every command is over, nothing is plugged in,
or the calls are used up.

**Symmetry** permutes the sessions in `command_safety` only; no definition
treats one of them specially.

**Fairness.** Threads and coroutines that can run do run: `WF` on a daemon's own
steps, on `ppoll` when its listening descriptor is readable, on a session's
steps other than its action, on the caller and the event thread of the
installer, on the caller of the upload. In `ServiceJobs` it is one `WF` for
all: while a job that has begun can go on by itself (`GoesOnAlone`), some job
does, which is less than each thread being scheduled and all that `Answered`
needs. It does not make a native call on the phone return, nor free a job from a
dead end. The main
thread's looper delivers every broadcast eventually, even though the environment may keep it
busy (`SF` per broadcast). `SF` of `StoreSomething` excludes a phone that
answers every `afc_file_write` with "nothing stored, no error" for ever, on which
the code's inner loop would never end. Not assumed: that a user answers, that a
phone answers or stays, that an action returns (in `CommandProcessor`), that
`ppoll` times out. `WaitersServed` and `StopEndsDaemon` state the last two as
premises where they need them. `Answered` has two: the user decides in the end,
since a locked phone is polled for ever, with the mutex held; and the calls on the
phone return (`CallsReturn`), since `runAction` polls for ever when no status
comes, as `removal_missed` shows. Its conclusion leaves out jobs that wait behind
a holder in a dead end, or are one. `WaitersServed` also names the two dead
ends the code has (`MissedStart`, `LostStop`): without them it is false, as
`stop_lost` shows.

## 4. Proofs

`CommandProcessorProofs`, for every set `Sessions`, every `MaxPending` and with
or without cancellation:

* `Invariant`: `Spec => []IInv`
* `TypeCorrect`, `LiveDaemonIsHolders`, `DeviceOpenWhileLive`, `WakeupNotLost`,
  `ConnectionsToOwnSocket`: the invariants of `command_safety`
* `DeviceKept`: the action property `DeviceKeptUntilOwnEnd`
* `NoDeadHolder`: `HolderGoesOn`
* `StopLostAtEntryOnly`: without cancellation a stop request that its session
  still waits for is cleared by the entry of its own daemon into `loop_main`,
  or goes with the process, and by no other step: `stop_lost` shows the one hole
  there is

`DaemonLeaseProofs`, for every set of commands: `LeaseExcludes` (a daemon runs
under its command's lease, or its command was abandoned) and
`DaemonsStartAlone` (one is started only beside daemons of abandoned commands).

`CommandRefinementProofs`: `ImplementsLease`, `Spec => LeaseSpec`, and
`ExclusiveDaemon`, which carries `LeaseExcludes` over to the commands along the
refinement, without another look at their steps.

`DeviceRegistryProofs`, for all sets of devices, clients and requests:
`RegistryInvariant`, `RegistryTypes`, `ListIsCorrected`, `AllowedCanBeOpened`,
`GrantsAreShown`, `RefusalsAreReal`, `CopyIsCurrent`: the invariants of
`registry`. Two more say what they amount to. `RightAtRest`: when no broadcast is
on its way and the main thread is free, the client sees exactly the attached
devices and who may be opened. `NoDeviceForgotten`: a device the client does
not see is in a broadcast or in the refresh at work, and the refresh shows it.

`ServiceJobsProofs`, for any sets of installs and checks: `JobsInvariant`,
`JobsTypes`, `InstallsOwnPackage`, `PackageStays`, `FilesAreRemoved`,
`HandlesAreReleased`: the invariants of `jobs`. `NoCircularWait`: as long as a
job is unfinished, the guards of some job's next step hold, or the job that has
the mutex waits for something outside: the phone, in a native call, or its
daemon, in a dead end. `JobsGoForward`: a job that moves has fewer steps left, but
for the poll of a phone whose user has not decided, and what ended stays ended.

`InstallerProofs`, for every set of package kinds, every number of pieces and
calls: `Invariant`, `TypeCorrect`, `ResultAgrees`, `StatusStaysInCall`,
`ReleasedOnce`, `NothingSkipped`: the invariants of `install`. `AnswerIsSeen`:
what the polling loop tests is what happened in this call, and stays until the
caller has looked. `CallStepsAreCounted`: a call takes at most 13 steps and one
for each piece, and no other thread sets it back.

`PackageUploadProofs`, for every archive, package size, buffer size and counter
width: `UploadInvariant`, `UploadTypes`, `FirstApplicationTaken`,
`InstalledLength`, `AllSentMeansStored`, `EndIsReported`, `FilesAreClosed`,
`ProgressNeverFalls`. `UploadRefinementProofs`, for the same:
`CopyIsFaithful`, so that all safety properties of `upload` are covered;
`StepsAreCounted`, a number that every step lowers, except a write of which the
phone takes nothing and reports no error, and that is 0 only at the end;
`RefinesInstaller`, `Spec => ImplementsInstaller`.

Assumptions: `NoSession` is no session, `MaxPending` a positive natural,
`MayCancel` a Boolean; `None` is no device or client, and `Compatible`
clients are clients (registry); installs and checks are different jobs and
`None` is neither; `Kinds` names kinds of package, `Chunks` and `MaxCalls` are
positive naturals; the four sizes of the upload are naturals, all but the number
of entries positive. TLC evaluates them on every run.

None of the properties is inductive alone. `IInv` adds what they rest on:
`QueueInv` (each session is queued once, only the first may be past the lock)
and `HoldInv` (whoever is past the lock is the first) give mutual exclusion;
`FlowInv` (Terminated exactly when the thread has ended) turns `Finish`'s guard
into "the daemon is dead"; `LiveInv` ties live daemons to holders or orphans
and to open devices; `PathInv` and `FreshInv` say that, without orphans, the
socket file is the holder's own or absent and that nobody listens on a socket yet to
be made, which is why a connection reaches its own daemon; `EventsInv` says a
listening descriptor reported readable has a connection to accept, so that
`Dispatch` takes what is there. `NoLostWakeup` then holds because the flag is
set before the connection is made and only an accept removes a connection,
after which the flag is read again; where the connection could not be made, nothing
is claimed ("unwoken"). There is one lemma per action. For the refinement, `leaseBar` is the
queue's head once it has launched its daemon; each action maps to one abstract
step or to a stutter, and `IInv` supplies the abstract guards. `NoDeadHolder`
needs one more invariant, `LaunchInv`: a holder past the launch has a daemon, and that
daemon has published something exactly when `create_socket` is behind it.

The installer's invariant needs more than its properties say, because they
speak of the end of a call and the reasons lie at its beginning. `FlagsInv`:
inside a call the statics are exactly the phone's answer to it, which holds
because `Call` resets them and `WorkerInv` keeps the status thread inside the
call. `OutcomeInv`: a wait that is over was ended by an answer or, by
`RemovalInv`, by an unplugging during the call; a call that never waited has
`res = 1` and no status thread. `PointerInv` and `ArchiveInv` say which pointers
can be live in which phase. `Release` then combines them: since the status
thread has been joined, nothing changes the statics between the last look at
them and the result. `MovesIInv` is stated once for the nine actions that only
move the caller on and change pointers.

The registry's invariant says what explains a difference between the list and
the attached devices: `ListInv`, a device that is listed and gone has its
"detached" broadcast on the way, and one that is attached and not listed its "attached" one,
unless the main thread is between the two reads of a refresh; `NoticeInv`, a
grant that is not shown has its answer on the way, or the refresh at work
carries it. `RequestInv` and `MessageInv` tie answers to what the user said.

The jobs' invariant begins with `PlaceInv`, which says what each place of a job
has to do with the lease and the main thread: one job is past the mutex, one native call
blocks the main thread. `RivalInv`: two installs at work are rivals. With that,
`FileInv` says what `temp_app.ipa` is to an install without one, from `delete` to
`install`, whatever older jobs have left; `OwnPackage` and `PackageInPlace` are
read off it. A step of one job leaves the others where they are, so the proof
has three frame lemmas, `ResumesJInv`, `OnIOJInv` and `NativeJInv`, for steps on a free
main thread, on an IO thread and in a native call, each asking only what the step
does to the files or the handles; the actions are instances of them.
`NoCircularWait` needs in addition `UseInv`: the lease is held by a job at one of the
places of a holder, the mutex's queue is exactly the queued jobs, and a daemon
runs exactly when its job's place says so. From these the guards follow: a job in
a native call has the mutex and waits for the phone; if there is none, the holder
goes on or is in a dead end; if there is none either, the first of the queue goes
on; if nobody is queued, the job itself. With `JobsGoForward` this is the argument
for `Answered`, up to fairness and to the premises that it names.

The upload's invariant counts: `LengthInv`, the phone's copy is as long as what
was read, less what the current buffer lacks, and `CountInv`: `sendCount` is
what was reported, in the counters' width. `CountOn` is the lemma behind it: a sum
reduced at every step is the reduced sum. `ToldInv` relates the last report to
the counter; `ProgressNeverFalls` then holds because below the width nothing is
reduced. `total` is unbounded in the code's text and at most two buffers by the
invariant: the write that passes `amount` is the last one.

`RefinesInstaller` needs three things of the upload that no run asks for:
all buffers but the last are whole, so that each report is one more piece
(`PieceInv`, with `CountBuffers` and `BuffersLeft` about the division); the
archive is open as long as `Installer` has it open (`ZipInv`); a pending
exception has a report before it, which is `Installer`'s `tried > 0` in `Crash`.
The same whole buffers are behind `CopyIsFaithful` (`DamageInv`: what is
written while a buffer is in memory are bytes of that buffer) and behind the rank of
`StepsAreCounted` (`PerBuffer` bounds the steps one buffer can take).

Left to TLC: liveness (`StopHeard`, `StartNoticed`, `WaitersServed`,
`DeviceShown`, `Answered`, `AnsweredCallEnds`, `UploadEnds`), which is outside
the prover's reach, as is `ENABLED`. `NoDeadHolder`, `NoDeviceForgotten`,
`NoCircularWait`, `JobsGoForward`, `AnswerIsSeen`, `CallStepsAreCounted` and
`StepsAreCounted` are the safety half of these, for every size: what is waited
for is not lost, somebody's guards hold, and a number of steps falls. For want
of `ENABLED` they spell the guards out (`GoesOn`, `ThreadReady`); the step from there to
"it happens", by fairness, is TLC's.

## 5. Not modelled

* The other commands of `runAction` (list, uninstall, archive, restore, ...;
  `ideviceinstaller.c:57-119`, `550-654`, `1004-1276`): no JNI function passes
  them, so no run of the program gets there. The notification proxy branch
  (`use_notifier` is always 0). `is_domain_known` of `ideviceinfo.c`: its
  caller's domain is always NULL.
* The contents of option dictionaries, plists and reports, and of the optional
  metadata and `.sinf` entries: read or not, they change no control that a
  property is about. Logging.
* usbmuxd's client protocol beyond accept: it changes nothing the loop decides by.
* libimobiledevice, libusbmuxd, libusb, Android's UsbManager: external, as
  the code uses them (entries marked external in the map).
* The service API: constants, and `toRaw` and `fromRaw`, which write and read
  the same fields in the same order and keep no state.
* Who reads an answer. Messages carry no identity of the job they answer and go
  to whichever client is connected; the code promises nothing a property could
  say. A command for a device that is gone is dropped without an answer
  (`Decline`).
* Build files, manifests, resources.

## 6. Where it stands

Built in this order: daemon and command processor with the lease, its
refinement and the proofs; device registry; installer; jobs of the service
composed with the lease; upload as a refinement of the installer; the proofs of
the last four. Every part of the program that changes state and that a run can
reach is in a module, and every safety property of a passing run is also a
theorem, with both refinements; the liveness properties of the daemon's holder,
the registry, the jobs, the installer and the upload have their safety half
proved as well.

What could come next: liveness of the command processor with three sessions,
which takes TLC longer than a check should; the daemon's loop with usbmuxd's own
device and client lists, should the submodule's source be brought into the tree.
