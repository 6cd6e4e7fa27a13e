# Verification of the Watchdog service

This directory holds TLA+ models of the program under `src/WatchDogProcess`: a
watchdog that keeps a proctoring application running, packaged as a Windows
service with the Qt Solutions components QtService, QtSingleApplication and
QtLockedFile, which the repository contains in source form. The models are
checked with TLC on small instances; what matters most is proved with TLAPS for
every instance. `PROJECT.json` lists components, runs, mutants (deliberate bugs
that every checked property detects), the source lines of every definition,
findings, hazards and theorems.

Paths below are relative to `src/WatchDogProcess`.

## The system

| component | source | state | operations |
|---|---|---|---|
| program entry | `main.cpp` | – | `main()`: single-instance test, then `exec()` of a `ServiceControl` whose callbacks only log (the calls of the watchdog are commented out) |
| single instance | `QSingleApplication/qtlocalpeer.cpp`, `qtsingleapplication.cpp` | lock file, listening socket (with a file on Unix), pending connections | `isRunning`, `sendMessage`, `receiveConnection`, `ReInit` |
| lock file | `QSingleApplication/qtlockedfile*.cpp` | lock mode, handles on named mutexes (Windows) or an `fcntl` lock (Unix) | `lock`, `unlock`, destructor |
| Windows service process | `service_src/qtservice_win.cpp`, `qtservice.cpp` | the `SERVICE_STATUS` block, two semaphores, mutex and condition variable, event queue, three threads | `start`, `serviceMain`, `handler`, `HandlerThread::run`, `handleCustomEvent` |
| service controller, command line | `service_src/qtservice.cpp`, `qtservice_win.cpp` | registry and SCM database | `install`, `uninstall`, `start`, `stop`, `pause`, `resume`, `sendCommand`, `exec` |
| Unix service | `service_src/qtservice_unix.cpp`, `qtunixsocket.cpp`, `qtunixserversocket.cpp` | command socket, per-connection buffers, settings | `start`, `incomingConnection`, `slotReady`, `sendCmd`, `install`, `uninstall`, `isInstalled` |
| watchdog | `proctoringwatchdog.cpp`, `proctortrackthread.cpp`, `WaitingScreen.cpp` | monitoring thread, what was read at set-up, the two flags about the application, retry and heartbeat counters, time since the last restart, pending timers, waiting screen | `run`, `process`, `OnAppCrash`, `ProcessRecordingThread`, `RestartProctortrack`, `LaunchApp`, `KillOtherApplications`, `QuitWatchDog`, `StartMonitoring`, `StopMonitoring` |
| left aside | logging, macOS helpers, forms, generated headers, build files | | |

How they interact. `main()` creates a `QtSingleApplication`, whose `QtLocalPeer`
takes the **lock file** in write mode; the process that gets it becomes the
running instance. It then runs `QtServiceBase::exec()`, which either executes a
controller command or starts the **service process**: the SCM calls
`serviceMain()` and `handler()` from its own threads, and these post events to
the event loop of the main thread, where the callbacks of the service object
run. The callbacks are meant to start and stop the **watchdog**, whose timer
thread posts `process()` to the same event loop and which reads two JSON files
the supervised application writes.

What is hard, by component, and the property that would notice (the full list,
line by line, is under `hazards` in `PROJECT.json`):

* *Windows service*: wake-ups that come before the wait, threads woken by each
  other's events, a status block read without the mutex, a start that times out
  while `serviceMain()` is late, teardown with a thread still inside.
  Correct means: no lost wake-up, `start()` first, RUNNING only after `start()`,
  STOPPED last, every control answered.
* *Lock file*: slots that appear and vanish while a writer collects them,
  abandoned mutexes, failed calls half-way. Correct means: readers or one
  writer, nothing left over after a failure, no circle of processes that wait for each
  other, every call returns.
* *Single instance*: simultaneous starts, death of the running instance,
  time-outs that race an ack, fragments of messages; on Unix the socket file that a
  dead instance leaves, and the workaround that removes it. Correct means: one
  running instance, one that takes messages, no message twice, out of order or cut
  while its sender believes it arrived, nobody hangs in a call of another.
* *Watchdog*: two causes that ask for a restart in one call, decisions taken on
  values of different ages, a history file that is half written, global flags that
  the monitoring thread and the main thread write, giving up for good. Correct
  means: one instance launched at a time, the exam application comes back or the
  user is told, a healthy one is left alone, an application once seen is no
  stranger, and the watchdog leaves no exam.
* *Program, controller and SCM*: commands, starts and ends of processes that
  overlap, a service that dies with a control in hand, a service process that is
  still leaving when its successor comes. Correct means: the service runs in one
  process, every command ends, nobody is turned away for ever.
* *Unix service*: a socket path that whoever comes removes and binds, calls that
  wait without a time limit, an end in the middle of an answer, settings changed by
  one controller while another asks. Correct means: the service is where its clients
  look, answers tell what happened, calls return.

## Modules

| module | models | state and actions |
|---|---|---|
| `ServiceLifecycle` | abstract: what a service process promises the SCM and the service object | state shown, last callback; a pending state, then the callback, then the final state |
| `WinService` | the Windows service process | one label per statement of `handler()` that touches shared state (`HandlerPc`), of `start()` (`MainPc`), of `serviceMain()` and `HandlerThread::run`; the SCM as environment (`Control`, `Dispatch`, `DispatcherReturns`) |
| `RWLock` | abstract: a reader/writer lock among the processes of a session; also the model of `qtlockedfile_unix.cpp`, whose `lock()` and `unlock()` are one `fcntl()` call each | `held` |
| `MessageDelivery` | abstract: what `sendMessage()` promises: a message is emitted once at most, after those its sender sent before it, and none truncated that `sendMessage()` reported as sent | calls of each sender, messages whose call returned true, messages emitted |
| `LockedFile` | `QtLockedFile` over named kernel mutexes | `lock()`/`unlock()` one kernel call per action; a mutex exists as long as somebody has a handle on it; `Crash` abandons what a process owns |
| `LocalPeer` | `QtSingleApplication` and `QtLocalPeer`, with `main()`'s use of them | composes `RWLock` (`Lock == INSTANCE RWLock`) with servers, connections and messages; `unix` chooses the build, with the socket file on Unix |
| `Watchdog` | `ProctoringWatchDog`, `ProctortrackThread`, `WaitingScreen` | the handlers cut where they read or write a file the application may change in between; timers with their order; the thread's first look, its end and its restart; `KillOtherApplications()` |
| `Program` | `main()`, `exec()` and the controller of the Windows build | processes of users and of the SCM, from `main()` to their end; composes `RWLock` (the lock of the single instance) with the SCM's view of the service: its entry, its state, the control in hand, open handles |
| `UnixService` | `qtservice_unix.cpp` and its two socket classes, under `main()` | the socket file with its owner, connections from the kernel's queue to the answer, `exec()` with its arguments, `sendCmd()`, `start()` and `uninstall()` of controllers, the steps of `run(true)`, whether the settings know the service; composes `RWLock` too |
| `WinServiceProofs`, `WinServiceLifecycleProofs`, `LockedFileProofs`, `LocalPeerProofs`, `LocalPeerMsgProofs`, `WatchdogProofs`, `ProgramProofs`, `UnixServiceProofs` | the TLAPS proofs | |
| `MC...` | constants of the instances | |

`LockedFile` is shown to implement `RWLock` (checked and proved), and
`LocalPeer`, `Program` and `UnixService` use `RWLock` in its place; that none of them
does with the lock what `RWLock` does not allow is proved. `WinService` is shown to
implement `ServiceLifecycle` (checked and proved, for a benign environment), and
`LocalPeer` to implement `MessageDelivery` (checked, and proved for clients that are not
held up for 2 s in the middle of a message).

### Abstractions

* Time appears as choice: a wait with a time limit may end at any moment
  (`StartTimeout`, `Grace`, `TimedOut`). The exception is the watchdog, where a
  restart depends on 10 s having passed since the last one: `elapsed` counts
  periods of the 10 s timer, and after exactly one period both outcomes are
  possible. Its timers of 100 ms and 1 s are taken to end, and its handlers
  (the `taskkill` calls included) to return, within a period.
* Names, paths, arguments and message texts are left out or are model values.
  A message is identified by its sender and number and is complete or not.
* The environment is written as actions and marked external in the map: the SCM
  (delivers one control at a time, by the state and the accepted controls it was
  last told; nothing after SHUTDOWN; its dispatcher returns after STOPPED), the
  proctoring application, the kernel's mutexes, the sockets.
* `WinService` has one `Adversity` constant for what an environment may do
  besides: quit the event loop, stop a service that is starting, expire the
  grace period or the start time-out, fail to resolve or to dispatch. `LocalPeer`
  has one for stalls, unopenable lock files and `ReInit()`, and `Mortals`, the processes
  that may crash;
  `LockedFile` one for the kernel calls that fail.
* In the process list the watchdog sees the application or not; instances it
  launched are counted apart from one the user started. The history file has the
  three values that are read again and again (`step`, `any`, `cover`); the
  application writes it in two steps, between any two reads (each a step of its own,
  `cover` included), and may die on it. A
  half-written file (`torn`) reads as one without values, as `QJsonDocument` yields
  nothing. What is read once, at set-up, is `setup`: whether `app_name` was there and
  is one of the names the thread looks for (`named`), whether other applications are
  to be closed (`closing`), and whether the title of the application's window matches
  the white list (`listed`).
* `Program` reduces the service process to what the SCM sees: it comes up, reports
  RUNNING, takes one control at a time, reports STOPPED and then leaves (`leaving`:
  the second it waits for the handler thread, the end of the application and of
  `main()`), or dies. `WinService` has what happens inside. Commands that the code
  treats alike are one argument; the accepted values of `-c` are left out.
* `UnixService` sends and reads a line as a whole (it is some ten bytes on a local
  socket), so that the per-connection text buffer never keeps a rest. An argument
  such as `-t` of the program itself gets past `main()` only when no service holds
  the lock and then finds nobody at the path; the clients stand for controllers in
  other programs. The argument of a program is chosen where `exec()` looks at it, as
  nothing before depends on it. Of the settings the model has whether the service is
  installed; `isInstalled()` and the write that depends on it are one step, as the
  write only sets what the test found missing. `Flags` is empty in the run so that
  one service gives both answers; `main.cpp:32` sets `CanBeSuspended`. The programs in
  `Failing` may find that `socket()`, `bind()` or `listen()` fails although nothing is in
  the way; `failed` keeps which of them did.
* A client that goes away in the middle of a message leaves what it wrote to the server,
  which emits it (`ReadBody`) or, if its read fails (`got < 0`), drops it (`Discard`).
* Freed memory: once `start()` has deleted the shared object, a thread still in
  `handler()` takes the action `UseAfterFree`, which may do anything the model
  can express by that thread, and nothing is claimed after it.

## Runs

| run | instance | shows |
|---|---|---|
| `win_adverse` | one user command, all adversities, flags switched at run time | `NoLostWakeup`, `ReceiverReady`, `RunningAfterStart`, `CleanFailure`, `StartComesFirst` |
| `win_benign` | no adversity, fair threads | refinement of `ServiceLifecycle`; `OwnEventServed`; every control returns (`ControlReturns`), starts and stops complete (`StartsAndStops`) |
| `lock` | 3 processes, 2 slots, creations and waits fail, crashes, fair | `Exclusion`, `NothingLeftOver`, refinement of `RWLock`; of processes that wait for each other none waits for one that waits (`NoCircularWait`); a non-blocking `lock()` returns, and a writer is not starved (`LockReturns`) |
| `peer_safety` | both builds; 3 processes; one may crash, and send two messages over its lives, one a single message, one none | one running instance (`AtMostOneRunning`); a message reported as sent is not emitted truncated (`TrueMeansWhole`); refinement of `MessageDelivery` (`DeliverySpec`): none twice or out of order; no newcomer removes the socket file of an instance that serves (`SocketFileKept`) |
| `peer_live` | both builds; 2 processes, one message each, fair; stalls, `ReInit()`, lock file not openable, no crashes | server and senders return (`PeersReturn`); one instance takes messages although `ReInit()` may lose the lock (`OneServes`) |
| `dog` | 3 calls between heartbeat checks, 1 retry, 4 contents of the history file and the half-written one, 2 set-ups, fair event loop | launches never pile up (`OneInstance`); an application that was seen is no stranger (`SightingEndsFirstLaunch`); it quits only if the file has asked for no exam since its handler began (`QuitsOutsideExam`); the application returns (`ExamAppReturns`) or the user is told (`NeverAbandoned`); a frozen one is restarted (`FrozenAppRestarts`), a healthy one left alone (`HealthyAppStays`); the screen goes away (`ScreenLifts`) |
| `program` | 2 users in 2 sessions, 2 processes for the SCM to start, 2 polls, crashes, fair | the service runs in one process; commands end; nobody is turned away for ever |
| `unix` | 3 processes of the program with no argument, `-i`, `-u` or `-e`, a client with 2 calls (of stop, pause, start), one program may be killed or fail to get its socket, the client may be killed, fair | a service that serves and whose calls did not fail is at the path (`ServedAtPath`); answers tell the truth (`AnswerIsRight`); calls return (`CallsReturn`) |

The bounds. Two slots give a reader a slot to find, one to create and a third
reader who finds none; a third process is needed for a slot that is owned below
a free one and for a writer between two readers. One user command suffices since
`handler()` treats all alike. Three processes start at once, one of them after
the crash of another; two messages of one sender suffice to tell an order, a
process that may both send and serve takes the place of a running instance that
died, and `MaxSends` bounds nothing else. The process that may crash is the talkative
one, as a client in the middle of a message, as the server of another's, and in between. The watchdog's counters (3 and 1) are smaller than
the code's 7 and 5 and in the same order, so that it gives up between two
heartbeat checks, as in the code. The four contents of the history file differ in
every decision: no exam, an exam in any step with a waiting screen, STEP2 with it,
STEP3 without; one set-up closes strangers and takes the application for one, the
other does not know the application's name. The unbounded retry counter of the watchdog
stops at `MaxRetries + 1`, beyond which the code does not distinguish. `Program`
needs two service processes, the one that leaves and the one that comes, and two
users, one who has sent a control and one who waits for the SCM or holds a handle;
two polls instead of ten have a first and a last. In `UnixService` a third program
is the least with which a start can overlap a service and its child; a service
without flags refuses `pause`, obeys `terminate` and so gives both answers; a
client that was killed leaves a command behind and comes back with a second one,
which also fills the queue of connections (one place instead of six).

Fairness. `WinService`: each of the three threads is scheduled (weak fairness of
its steps); the SCM need not send anything, and no callback hangs. `LockedFile`:
processes run on, and a wait that can succeed need not fail (a failing wait is
allowed, never required); for a writer `LockReturns` assumes besides that every holder gives the
lock up again and again.
`LocalPeer`: processes run on, nobody need start, send or exit. `Watchdog`: the
thread is scheduled, the event loop handles what is posted, timers fire, periods
pass, the process list can be read if it is tried again and again (strong fairness of
`process`, against `processFails`), and a launch that is tried again and again
succeeds once (strong fairness of a successful launch); without the last nothing
could bring an application back. `Program`: processes are
scheduled and callbacks return, and the SCM takes the calls of its clients in turn
(strong fairness of `Call`); a service need never stop, a user never start anything.
`UnixService`: each process is one thread that runs on (weak fairness of `Steps` and
`Caller`); the kernel takes every client that waits to connect (strong fairness of `Connect`).

### Runs that find a violation

Each states what a comment or the documentation of the repository says and is
violated by what the code does (`findings` in `PROJECT.json` has the quotations):

* `win_use_after_free`: `start()` deletes the shared object after waiting for one
  of the two threads that use it (`service_src/qtservice_win.cpp:844`).
* `win_spurious_pause`: `condition.wait()` without a predicate (`:626`) lets the
  wake-up of one event end the wait of another; PAUSED is then reported for a
  service that was stopped.
* `peer_truncated`: a fragment of a message is emitted as a message.

* `program_turned_away`: a service process that the SCM starts while the last one,
  STOPPED already, is still leaving finds the lock taken and ends in `main()`
  (`main.cpp:84`).

Known limits that no run states, because a property is claimed only without them or
does not claim more:

* `PeersReturn` holds without crashes: a client that dies between connecting and
  writing leaves the server in a loop without a way out (`qtlocalpeer.cpp:179`).
* `AtMostOneRunning` holds without `ReInit()`, which gives the lock up and ignores who
  gets it next; `OneServes` holds with it. `ReInit()` also replaces the object that
  `setActivationWindow()` connected, which is then activated by no message, and with
  the default order of connections the window is activated after `messageReceived()`,
  not "just prior" to it (`qtsingleapplication.cpp:293`).
* On Unix a predecessor that has released the lock and closes its server late removes
  the socket file of its successor. The successor runs and listens, and nobody can
  reach it: a failed `sendMessage()` after `isRunning()` returned true does not mean
  that the instance is frozen. `SocketFileKept` names this exception.
* `Exclusion` holds within one Windows session (the mutex names are local to it), and
  if `OpenMutex` does not fail on an existing mutex: 0 then means "no such slot" and
  "cannot open it" alike (`qtlockedfile_win.cpp:157`).
* `sendMessage()` returns true when the message has been read; it is emitted later
  (`qtlocalpeer.cpp:199`), or never if the server dies.
* A controller's `stop()` of the Unix build returns true when the service has been told
  to stop, not when it has stopped; a `start()` right after it finds it alive.
* The detached Unix service may reach `main()` before its parent has left it, and is
  turned away by the parent's lock.
* The watchdog ends in the middle of an exam when the history file is half written, or
  written to between two reads of one `OnAppCrash()`, and the application does not run:
  a half-written file has every value at its default, which is that of no exam, and step
  and flag may come from two files each of which asks for an exam. `QuitsOutsideExam`
  does not exclude either: it says that both have asked for no exam since the handler
  began (`lapses`), so that nothing remembered from earlier calls ends the watchdog.
* A heartbeat written between the watchdog's read of the file and its write is lost
  (`proctoringwatchdog.cpp:430`); `HealthyAppStays` is claimed for an application whose
  heartbeat is there at every check.
* A service whose `socket()`, `bind()` or `listen()` fails (`qtunixserversocket.cpp:68`,
  `:77`) runs on without a path, and no controller can reach it. `ServedAtPath` is
  claimed for the others.
* `app_name` is read once, before the thread starts. If it is missing by then, or is a
  name the thread does not compare with, the application is never found and is
  restarted for ever, as kills and launches read the file anew; `ScreenLifts` and
  `HealthyAppStays` are claimed for `setup.named` only.
* Until the application has been seen, `KillOtherApplications()` may terminate the
  application itself, if the title of its window is in no white list; the built-in
  one (`proctoringwatchdog.cpp:40`) has no "FreshHire". Other applications are closed
  until then and not, as `proctoringwatchdog.cpp:20` says, "when app is not running".
* `StartMonitoring()` right after `StopMonitoring()` does nothing, as the thread has not
  ended, and nobody monitors any more; the liveness of the watchdog is claimed while
  its thread runs.
* `-i` reports success for a service that is marked for deletion; a command given in
  the session of a running instance returns 1 and is not carried out.

## Proofs

All proofs are checked by TLAPS 1.4.5 with its SMT, Zenon and LS4 backends. Every
safety invariant and action property that a passing run checks is the statement of a
theorem, and all three refinements are.

**WinServiceProofs** proves for every set of commands, flags and adversities that
types hold (`TypeCorrect`), no wake-up is lost (`NoWakeupIsLost`), an event always
has a receiver (`ReceiverIsReady`), RUNNING follows `start()` (`RunsAfterStart`),
a failed start leaves nothing (`FailsCleanly`) and `start()` is the first callback
(`StartIsFirst`). None of these is inductive. The invariant `IInv` adds what the
start-up orders: the semaphores put the threads one after the other (`MainOrder`,
`StartOrder`, `RegisterOrder`), nothing happens before the handler is registered
(`Unregistered`), the mutex keeps `handler()` of two threads apart (`Mutex`), the
startup event is the first one posted because its thread holds the mutex before
any control can be accepted (`StartupFirst`), and as long as `start()` has not run
nobody has been woken (`BeforeStart`).

**WinServiceLifecycleProofs** proves for a benign environment (`Adversity = {}`) that
the process implements `ServiceLifecycle` (`ImplementsLifecycle`) and that a thread
leaves its wait only when its own event has been handled (`OwnEventIsServed`). It also
draws the line around two findings: PAUSED is then shown only of a service that has run
`pause()` (`PausedIsPaused`), so that the violation of `win_spurious_pause` needs its STOP
during the start, and the handler thread has ended when the shared object is deleted
(`OnlyServiceMainOutlives`), so that the thread of `win_use_after_free` can only be that
of `serviceMain()`. To
`IInv` it adds what the environment's good behaviour is worth: one event is on its way
at most, so that no thread can be woken by another's (`Flight`); for each place of the
two threads, what the SCM was told last, what the status block holds and which
callback ran last (`Phases`: until `serviceMain()` has reported RUNNING by
`StartPhase`, then by the control in hand, `RunPhase`); and the order in which the
process ends (`Ended`). With that, a step that reports or calls back is a step
of `ServiceLifecycle` (`ReportStep`, `LifecycleStep`) and every other one a stutter.

**LockedFileProofs** proves, for every number of processes, sessions and slots, that
an object owns between calls what its mode says (`LeavesNothing`) whatever fails,
and, unless `OpenMutex` fails on an existing mutex, that readers and writers
exclude each other (`LockExcludes`), that a waiting writer has a handle on every
owned slot (`WriterKnowsReaders`) and that the mutexes implement `RWLock`
(`ImplementsRWLock`). The argument: `wmutex` is owned by one process of a session
from its acquisition on (`OwnsW`), so that no reader can come by a slot while a
writer collects handles; a slot that is owned exists, as its owner has a handle
(`Handles`, `OwnsSlots`); hence the writer has a handle on every owned slot it has
come by (`WriterView`, first part), on all of them when it waits (second part), and
nobody owns one when it has waited (third part). Two more theorems follow. Nobody waits
in a circle (`NobodyWaitsInACircle`), whatever fails: a process waits for the owner of
`wmutex`, or with `wmutex` in hand for readers, and a reader that owns a slot waits for
nothing, as `lock()` gives the other mode up first. And no session has more than
`MaxReaders` readers (`ReadersBounded`), although nothing counts them: each owns a slot
(`SlotsApartAlways`: never that of another), so the readers inject into the slots.

**LocalPeerProofs** proves for every number of processes and messages, through crashes,
stalls and lock files that cannot be opened, that one process at a time runs
(`OneRunningInstance`), unless the running instance calls `ReInit()`: whoever runs has
the lock, and `RWLock` gives it to one. With `ReInit()` too, one process at a time takes
messages (`OneTakesMessages`), as whoever serves has the lock, and the workaround for a
stale socket file spares the file of an instance that serves (`WorkaroundSpares`), as
only a process with the lock gets to it. All they do with the lock is what `RWLock`
allows (`UsesTheLock`), so that what is proved of `LockedFile` may stand for it.

**LocalPeerMsgProofs** proves that the types hold (`TypeCorrect`), that messages are
emitted in the order in which a client sent them and none twice (`MessagesInOrder`), in
every environment of the model, and that a message reported as sent is emitted whole
(`TrueIsWhole`), as long as no client stops for 2 s in the middle of one
(`"stall" \notin Adversity`). The order is carried by `OrderInv`: a client numbers its
messages, so that what it puts into an inbox is newer than all it sent (`Known`); each
inbox is in order; a message is in one inbox; and what was emitted is older than what
the serving instance has still to read. The last fact survives a change of the serving
instance because a predecessor's inbox goes with it (`Placed`). For wholeness,
`WholeInv` says that an ack is only given for a message that is complete in the inbox,
and that a client that still writes has not been acknowledged. Both together
make each step a step of `MessageDelivery` or a stutter (`ImplementsDelivery`, again
without stalls): an ack that is read is `ReturnsTrue` (`AckReturns`), a `messageReceived()` is `Emit`
(`EmitDelivers`), a new call `SendMessage`.

**WatchdogProofs** proves for every `BeatTicks`, `MaxRetries` and set of contents of the
history file that the types hold (`TypeCorrect`), restarts never pile up
(`RestartsOnce`), waiting screen, error page and retry counter stay together
(`ScreensFollow`), an application that was seen is no stranger (`SeenOnceIsKnown`), and
only the history file ends the watchdog (`OnlyTheFileQuits`). The invariant: the 10 s
since the last restart are what keeps a second one out (`OneRestart`: a pending launch
means that no period has passed, and that its kill has run or is pending), and the lapses
of the file are noted: what it says now (`FileNoted`), and the step that `OnAppCrash()`
remembers (`StepNoted`), are among what it has said since the handler began.

**ProgramProofs** proves, for every number of users and services and every division
into sessions, that the types hold (`TypeCorrect`) and that the code of the service
runs in one process at a time (`OneServiceRuns`), although the SCM starts the next
process while its predecessor tears its objects down: whoever is past `isRunning()`
has the lock of its session (`InsideHasLock`), one process has it (`LockExcludes`),
and the services share a session. `UsesTheLock` is proved here too. `ServicePlaces` ties
where the process of the service is to what the SCM shows of it (START_PENDING until it
has reported, STOPPED exactly when it has no process), and gives three more theorems:
whoever is in `StartService()` or `ControlService()` is alone there and is waited on by a
process that is there (`CallersAreAttended`); every handle is closed, and the SCM keeps
the entry until then (`HandlesAreClosed`); and of the processes of the service only one
that has reported STOPPED and is still leaving turns another away
(`OnlyTheLeavingBlocks`), which bounds what `program_turned_away` shows.

**UnixServiceProofs** proves for every number of programs and clients that a service
keeps its socket file while it takes commands (`ServiceKeepsItsPath`), that a client is
never told the opposite of what was done (`ClientsAreToldTheTruth`), and that the
types hold, the length of the queue included (`TypeCorrect`), whoever dies, starts or
ends. For the path the invariant adds to the two facts about the lock what one step of
the service leaves for the next (`PathIsOurs`): no file between `setPath()`'s removal
and `bind()`, its own file afterwards, unless a call failed. For the answers: a call has one connection
(`OneEach`), a command that has not been read has not been carried out (`NotYet`), a
call that is still being made has no command on its way (`InOrder`), and `slotReady()`
answers before anything can close the connection (`Told`). For the wait, which has no
time limit: whoever has sent a line and has no answer is connected to a process that is
up, and that has the line unread (`NobodyWaitsInVain`). This is the part of `CallsReturn`
that does not depend on fairness: there is always somebody whose turn it is. Every step
that ends a connection, or the process at its other end, tells the client in the same
step, which is why no uniqueness of connections is needed. `UsesTheLock` as above.

Assumptions: the named `ASSUME`s on the constants (finite domains are not needed),
and the hypotheses named in the theorems (`"open" \notin Failures`,
`"reinit" \notin Adversity`, `"stall" \notin Adversity`, `Adversity = {}`). Some theorems
state facts that no run checks, to keep the runs short: `WriterKnowsReaders`,
`ReadersBounded`, `ScreensFollow`, `MessagesInOrder`, `UsesTheLock`, `NobodyWaitsInVain`,
`CallersAreAttended`, `HandlesAreClosed`, `OnlyTheLeavingBlocks` and
`OnlyServiceMainOutlives`. TLC agreed with each invariant on the instance of the run of
its module before it was proved. `PausedIsPaused` states, for a benign environment, what
`win_spurious_pause` refutes in an adverse one.

Only model-checked: all liveness properties (fairness is out of the prover's reach).

## Not modelled

Of the Unix service: the description and the startup type in the settings
(`startupType()` reads the key `startupType`, `install()` writes `automaticStartup`,
against the promise of `service_src/qtservice.cpp:285`), how the path of the socket is formed,
and the log. Of the single instance: the activation window, and how the names of the
socket and of the lock file are formed. Of the watchdog: how a window title is matched,
the position of a window (`MoveWindow()`), `CameraGrabberThread()` and
`KillApplication()` (never called), and the macOS branches. Of the Windows service: the
failure of `createApplication()` (`service_src/qtservice_win.cpp:828`), which creates an
application always. Besides: the callbacks of
`ServiceControl` (they log), logging, macOS helpers, forms and build files. None of
these keeps state that another part depends on, or their state is text.

## Plan

Done: 1 `ServiceLifecycle` and `WinService`; 2 `RWLock` and `LockedFile`;
3 `LocalPeer`; 4 `Watchdog`; 5 `Program`; 6 `UnixService`; 7 their first theorems;
8 `WatchdogProofs`, the answers of `UnixService`; 9 the types and messages of
`LocalPeer`, the refinement of `ServiceLifecycle`; 10 the socket file of `LocalPeer`,
the thread, the strangers and the half-written file of `Watchdog`; 11 the settings and
the arguments of `UnixService`; 12 `MessageDelivery` and its refinement, the circles of
`LockedFile`, who waits for whom in `Program` and `UnixService`, the use of the lock.

What could follow:

13. `UnixService`: two clients at once with more calls than the run affords, and
    commands that are cut in two on the way.
14. `Watchdog` under the callbacks of `ServiceControl`, should `main.cpp` call it again:
    `StartMonitoring()` and `StopMonitoring()` then come from the service's commands.
15. `Watchdog`: an abstract cycle of restarts (nobody, killed, launched, seen) that
    `RestartProctortrack()` implements.
