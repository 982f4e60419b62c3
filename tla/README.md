# AstroSystem: a verification development in TLA+

AstroSystem runs an observatory: it points a mount, exposes a cooled camera
behind a filter wheel, focuses, follows a night's plan and processes the images.
Most of its 117,000 lines are numerical or sequential tools. What is hard to test
is the part in which processes, threads, signals and hardware meet, and the
decisions of a night. This directory models those, checks them with TLC on small
instances and proves the central invariants with TLAPS for instances of any size.

## 1. The system

### Components

| component | state | operations | behaves with | what makes it hard | what makes it correct |
|---|---|---|---|---|---|
| Camera server, `CCD_SERVER/ccd_server.cc`, `ccd_message_handler.cc`, `usb_cfw.cc` | connection table, one timer slot (`timeout_expired`, `UserTimeoutProcedure`), `MainExposure`, wheel position and `readbuffer` | `select()` loop, EXPOSE and STATUS, `FilterTimeout()`, `ExposureTimeout()`, readout | clients by TCP, SIGALRM, camera SDK, wheel on a serial line and its reader thread | a signal against `select()`, one timer for everything, EXPOSE in any state, descriptors reused, slow or dead hardware | each image goes to its client, in the right filter, with the wheel at rest; an exposure always has a timer; requests are answered |
| Cooler, `CCD_SERVER/cooler.cc` | desired and current mode, regulator, what status messages tell | `ControlCooler()`, `Regulator::Cycle()` | message loop through `cooler_data`, SDK under the camera lock | fields written one by one by another thread | what a client is told is what the camera is given from the next pass on, and the last order is obeyed in the end |
| Camera client, `REMOTE_LIB/camera_api.cc` | one socket | expose, cooler query, filter commands | camera server | answers are not matched with requests | the answer belongs to the request |
| Work queue, `DATA_LIB/work_queue.cc` | the file, `flock()`, each process's `all_lines` | `AddToQueue()`, `GetFirstLineUID()`, `NextUIDWait()`, `GetLine()`, `DeleteLine()` | sessions write, workers read, inotify wakes | lock interrupted by signals, wake-ups, crashes, stale lists | nothing is overwritten, no line is slept through |
| Worker, `TOOLS/WORKER/worker.cc` | `current_uid`, prerequisites, watches | read a line, wait for files, run the task | work queue, file system | crash between mark and run, event queue flushed | at most once, after the prerequisites, and in the end |
| Session, `SESSION_LIB/session.cc`, `schedule.cc`, `observing_action.cc`, `strategy.cc` | options, the schedule, background tasks (`child_pid`, `running_task`) | the night's main loop, `RunTaskInBackground()`, pause, resume, abort | work queue, children, scheduler, messages, camera, mount | SIGCHLD at any point, re-planning, failures in the middle of an observation | no more background tasks at a time than `system()` lets in; nothing executed twice or untimely; the equipment left safe |
| Scheduler, `scheduler.cc`, `scoring.cc` | the population, a timetable | genetic search, `calculate_score()` | session | operators that copy and swap in place, insertion into gaps | each star once, the best is kept, slots overlap only where known, every cadence kept |
| Focus manager, `focus_manager.cc`, `running_focus3.cc` | focus history | choose offsets, fit | session, camera | feedback over many images | stays in its limits |
| Inter-process messages, `proc_messages.cc` | shared table of messages and names | send, receive | session, tools | slots reused, locks left behind | kept once, delivered once |
| Image notification, `image_notify.cc` | two files, a lock file | register, notify, read | tools, SIGUSR1 | truncation before the lock | the name read is a name written |
| INDI clients, `REMOTE_LIB/*_indi.cc` | device properties, `Blocker` | command and wait for the answer | INDI server threads | lost or stale signals | a wait ends with its own answer |
| Scope client and servers, `scope_api.cc`, `SCOPE_SERVER/` | serial lines | move, park, flip, focus, flat light | devices | late answers, retries, resyncs | an answer belongs to its command; a wait ends when the mount stands |
| Databases, `DATA_LIB/json.cc`, `astro_db.cc`, `dbase.cc` | a tree in memory, a file under `flock()` | read, change, write, release, resync | sessions, analyzers, tools | a tree kept across a release | nothing written is lost |
| Images, astronomy, tools, Python, `TEMP_SERVER/` | data | sequential | | numerics | outside of this project |

`PROJECT.json` lists every component with its status and, under "hazards", what
is hard to test, each at its line.

### How they interact

A session sends EXPOSE to the camera server and reads the image; while it
observes it adds tasks and prerequisites to the work queue, which a worker,
started as a background task of the session, executes. Other tools talk to the
camera server at the same time, mostly to read the temperature. Programs that
move the mount share one scope server, which has one line to it. Sessions, tools
and monitors exchange signals, short messages through shared memory, and the
database of the night in one file. The session asks the scheduler program for a
schedule, executes it, and asks again with what is left.

## 2. The modules

| module | what it is |
|---|---|
| `CcdServer` | the camera server with its clients, wheel, sensor and signals |
| `MCCcdServer` | symmetry for its runs |
| `CcdServerProofs` | theorems about it |
| `WorkLog` | abstract: what the work queue promises |
| `WorkQueue` | the queue file, its writers and the workers, which implement `WorkLog` |
| `MCWorkQueue` | symmetry for its runs |
| `WorkQueueProofs` | theorems about it, and that it implements `WorkLog` |
| `Mailbox` | abstract: what the messages between programs promise |
| `ProcMessages`, `ProcMessagesProofs` | the shared memory of messages, which implements `Mailbox` |
| `JsonSync`, `JsonSyncProofs` | the database of a night, shared by sessions, analyzers and tools |
| `BackgroundTasks` | the tasks a session forks, and its SIGCHLD handler |
| `ImageNotify` | how the image monitor learns of a new image |
| `SignalProofs` | theorems about these two, where signal handlers meet a program |
| `IndiWait` | how a program waits for an INDI mount, focuser or camera |
| `ScopeMount` | programs that move the mount, the scope server and the line to the mount |
| `MCParts` | runs `JsonSync`, `BackgroundTasks`, `ImageNotify`, `IndiWait` and `ScopeMount`, one per behaviour |
| `Cooler` | the cooler thread of the camera server and the orders it is given |
| `DeviceProofs` | theorems about `Cooler`, `IndiWait` and `ScopeMount` |
| `Night`, `NightProofs` | a session: schedule, observations, messages of the user, shut-down |
| `ScheduleSearch` | the genetic search of the scheduler program |
| `Timetable` | how it makes a timetable of one order of the observations |
| `SchedulerProofs` | theorems about these two |
| `MCNight` | runs `Night`, `ProcMessages`, `ScheduleSearch`, `Timetable` and `Cooler`, one per behaviour |

Operators that begin with `M_` are variants of the operator below them with a
plausible bug; each property is shown to fail with one of them.

### CcdServer

The server is one thread, so a handler is one step. The places where other
actors can come between two parts of an iteration of `ProcessMessages()` are
separate steps: `LoopTop` (the test of `timeout_expired`, :186), `SelectBlocks`
and `SelectReturns` (:189), `DispatchTimeout` (:193), then `ServeMessage` or
`CloseConnection` for each ready slot in the order of the table and
`AcceptConnection` last, then `LoopEnd`. `pc` says where the loop is, `ready` what
`select()` reported and is not served yet. `Alarm` is `sig_alarm_handler()`: it can
come at every point, and ends `select()` only when the server is blocked there.

`SetTimeout` is the one timer slot; the old alarm may still come between the
reset of the flag and `setitimer()`, hence its nondeterministic `expired'`.
`exp` is `MainExposure`, without the parameters no property is about; its
`FilterWheelMoving` is never assigned in the code and `ReadyForReadout` lives
only inside one handler, so both are missing. `ProcessAll`, `RotateWheel`,
`StartExposure`, `ExposureTimeout`, `ReadoutExposure`, `FilterTimeout`, `HandleExpose`
and `HandleStatus` are the functions of the same names, each with all its calls:
`HandleExpose` refreshes the position, finishes the initialisation of the wheel
and calls `ProcessAll()`, which may start the exposure, which may, when it is
short, run `ExposureTimeout()` at once. In the readout a frame of the wrong depth
is dropped, while a FITS call that fails ends the server (`printerror()`): with the
fault `sdk`, `ReadoutExposure` may do either. `x` and `w` pass the timer flag and the
wheel as the handler found them.

The wheel has a resting slot `at`, the queue `turning` of commanded moves and
`rbuf`, the characters it sent that the server has not used. `Reported` is
`USBCFWCurrentPosition()`: the first character counts, the rest is flushed. The
sensor keeps the slot the light came through and whether the wheel was at rest
since, which the code does not know: this is what `RightImage` compares with the
label in the FITS header.

Clients connect once, send a request, wait for one message and take it for the
answer, as `camera_api.cc` does, and leave; a poller asks for the status again
and again.

Assumed of the surroundings: messages are whole; the kernel gives the lowest free
descriptor; without the fault that says otherwise the wheel answers before its
ticks run out, and a wheel that rests where it is told to go answers before the
next tick; the camera is ready before its last poll. Faults are switched on by
name: `sdk`, `camera`, `wheel`, `hangup`, `init`. `pos` stands for both
`current_position` and its copy `CurrentCFWPosition`, which every code path that
reads the copy refreshes first or leaves equal.

### WorkQueue

A line is its UID and text; byte offsets become line numbers, since `flock()`
makes them equivalent, and a writer without the lock is modelled by the line
number it measured. A session is in `AddToQueue()` at: waiting for the lock
(`AddToQueue`, or `LockInterrupted` where `flock()` fails), `Measure` (`SyncFile()`
and `lseek(SEEK_END)`) and `Write` (which also releases the lock). A worker takes
the lock (`WorkerLock`), looks for the line after `current_uid` (`TakeLine`, and
`MarkLine`, the `DeleteLine()` of a TASK; or `NoLine`), or measures the file and
releases the lock (`ReleaseAndWait`) and sleeps until an event changes its length
(`Awake`). Then `FlushNotificationQueue`, and `DoTask` when every prerequisite
exists, or `Unsatisfied` and `Notified` until it does. `seen` is `all_lines` of
each process; `event` and `dirEvent` are the inotify queues, in which equal events
merge. `Crash` kills a worker at any step; the kernel releases its lock; `Start`
starts it again with an empty memory.

`DoTask` is the decision to start a task. What the task does is outside. The
prerequisite files are each in an existing directory of their own, which gives
the fewest wake-ups; they are made by other programs (`CreateFile`) and stay.

`WorkLog` has only the log, the files and the tasks started; a step of it adds a
line, provides a file, or starts a task that was not started before, is not
behind a FINI and whose earlier prerequisites exist. The refinement maps a DONE
line back to the TASK it was.

### What MCParts and MCNight do

The modules they extend share no variable: the parts of the program they model meet in
nothing these models keep. A product of their states would show nothing more and
could not be enumerated, so a variable `part` says which of them runs in a
behaviour; the others stay where they begin. The fairness of each part is that of
its own module.

### ProcMessages and Mailbox

`SendMessage()` and `ReceiveMessage()` of `SESSION_LIB/proc_messages.cc` are each
several steps, so that two calls could meet between the search for a slot and its
use: `Lock` or `Contend` (asleep until `Woken`), the table of names
(`CreateName`, `NameTableFull`, `NoSuchProcess`), `QueueFull`, `FindFreeSlot`,
`FillSlot`, `Scan` and `Take`. The mutex is not declared as shared between
processes: a process that slept in it need not be woken, and one that finds the
table of names full ends with the mutex in its hands. The calls therefore have no fairness and only
their safety is stated. `Mailbox` is what the header promises: a message for a
known program is kept once and delivered once, in no particular order. The
refinement maps the names to who is known, the slots in use to the letters, and
the return values to the answers.

### JsonSync

Tools read, change and write `astro_db.json` once, under its lock. Keepers release
it (`SyncAndRelease()`), work on, and take it back with `ReSyncWithFile()`, which
decides by `stat()` *before* it locks whether to read again. `jraced` is set where a
keeper kept a tree that was no longer the file's, `jnewer` is what `stat()` would
tell. A file has no bytes, a part of a tree or a whole tree. Programs that only read take no lock (`json.cc:88`) and are left out. Faults: `kill`,
`tick` (a write within one tick of the file's clock), `sigchld` (an interrupted
`flock()` aborts).

### BackgroundTasks

`RunTaskInBackground()` and `StartBackgroundTask()` are split at each statement that a
handler could come between: `PushTask`, `TestChild`, `TakeTask`, `ForkTask`,
`StoreChild`. `ChildEnded` and `NoChildEnded` are `SigChildHandler()`, which calls
`waitpid()` with WNOHANG and counts a 0 as a child that ended. Two circumstances are
switched on by name: `system` (the session calls `system()`, which reaps its own
child and leaves a signal) and `window` (the handler runs inside the functions).
A session calls `system()` all night, for darks, flats, the scheduler, the cooler and to park, while a
task runs in the background; the handler takes each such child for the task and starts the next beside it.
`systems` counts these calls, and `OneAtATime` says what they can cost: never more
tasks beside the one the session knows of than there were calls, and at rest
`child_pid` is a task that runs or 0.

### ImageNotify

The file of the name is a sequence of characters, each marked with the name it
is of. The writer truncates the file when it opens it and locks it afterwards;
SIGUSR1 may become one of several; the handler sizes and reads the file under
a shared lock and writes a byte into a pipe; the main loop shows what the handler
left. `crossing` records that two programs were in `NotifyServiceProvider()` at
once, which can leave the end of a longer name.

### IndiWait

`Blocker` is a flag, `data_avail`, that only `Setup()` clears. The INDI thread first
changes the local copy of the property and then calls `Signal()`, so a program can
see the one without the other. Mount, focuser and camera differ in when they call
`Setup()`, whether they look at the property first, and what a timeout does. The
device and the INDI library are external.

### ScopeMount

The code is the one built for the GM2000 mount. Programs call `MoveTo()`,
`SmallMove()`, `PerformMeridianFlip()`, `ParkTelescope()` and `UnParkTelescope()`;
each `Got...` action is what `scope_api.cc` does with one answer, with its
retry, its resync and the next command. The server is one thread: it writes a
command and waits for the answer (`HandleScopeMessage`, `ReadAnswer`) or gives up
(`AnswerLate`); `HandleResync` and `FlushScopeData` are its resync. What comes from
the mount is a line of characters: which command an answer belongs to is told only
by its order, and this is where a late answer does harm. `ToRead` is how many
characters `ReadAnswer` takes for a command. Faults: `late`, `refuse`, and `ack`, by
which the mount answers the query of the resync or does not. A `MoveTo()` that is refused twice returns 0 in the code as in the
model, though `scope_api.h:78` speaks of -1; no caller looks at it before it waits.

### Cooler

The thread makes one pass after the other: `RefreshCoolerStatus`, the `switch` on
the mode, `Regulate`, `Ramp`, `Manual` or `PowerOff`, `SetParam` and `EndPass`. The
message thread writes a mode and then a value, without a lock; the lock protects
only the calls of the camera library. Temperatures are a setpoint the chip is near
or not. `stale` and `crossed` record what the regulator's sum of errors is made of.
What a client is told does not come from the thread: `send_status_message()` sends
`CameraData`, which `handle_cooler_message()` sets from the order before it writes the mode, and
from this a session decides whether to start the cooler (`session.cc:420`). `SendStatusMessage`
puts it into `told`, an order clears that, and a pass takes what was told before it into
`relied`, which a refused call clears: `ToldIsKept` compares that with the `hardware`. The
initialisation tells of a manual mode and 30 degrees while it orders the regulator to
work towards 10; this stays so until the first order, which `ToldIsKept` excepts.
Faults: `refuse` (a call of the library fails) and `leftover` (a power from an earlier run).

### Night

`npc` follows `Session::execute()` with `Schedule`, `ObservingAction` and `Strategy`:
create a schedule, wait for an entry, execute it, pause, abort or resume at the
checks for messages, note the result, plan again, shut down. What the scheduler
answers is any schedule of the actions it is given. A time unit is the quarter of an
hour within which the code takes two times for the same. The options, and one fault (`scheduler`,
`camera`, `field`) or the messages of a user, are chosen at the start.

### ScheduleSearch and Timetable

`ScheduleSearch` has every operator of the genetic search and the two loops of
`main_loop()`: sort, then replace each individual above the retained ones. The score
is an arbitrary function. `Timetable` is the first half of `calculate_score()`:
`InsertFixedTime()` puts in the fixed observations, `InsertInFirstGap()` the others,
and the repeated ones after their cadence. A script has a waiting time of
`time_delay_table`; `time_adjust()` can draw an index one past its end
(`scheduler.cc:160`), and what lies there is `PastTable`, any integers. `early`
remembers the scripts that were given a negative one. Darks and flats (`Frames`) never wait.

## 3. What is checked

| run | instance | shows |
|---|---|---|
| `CcdOrderly` | 2 clients, 3 filters, 3 exposures; faults sdk, camera, wheel | `TypeOK`, `RightImage`, `ApproachFromStaging` |
| `CcdCrowd` | 3 uncoordinated clients, a table of 2, 3 descriptors, 2 filters, 2 exposures; faults hangup, wheel | `OneOwner`, `ClockNeverLost`, `NoLogicError` |
| `CcdAnswered` | one client and one poller, 3 filters, 2 exposures, no fault | `RequestAnswered` |
| `CcdLostWakeup` | 1 client | violated: `TimeoutDispatched` |
| `CcdLabel` | 1 client, fault init | violated: `LabelTruthful` |
| `QueueCrash` | 2 sessions, 2 workers, 1 file, 1 task, crashes | `TypeOK`, `IntegrityHolds`, `NoLostWakeup`, refinement of `WorkLog` |
| `QueueAlone` | 1 session, 2 workers, 2 tasks, crashes, interrupted locks | `IntegrityHolds` and the refinement survive a lost lock when there is one writer |
| `QueueStarts` | 2 sessions, 1 worker, 1 file, 2 tasks | `TaskStarts` |
| `QueueLock` | 1 session, 1 worker, interrupted locks | violated: `WriterHoldsLock` |
| `Parts` | database: 1 keeper, 2 tools, 2 entries each; all faults | `JsonTypeOK`, `LostOnlyByRace`, `KeeperKeepsOwn`, `DatabaseObtained` |
| | background tasks: 3 tasks, 2 calls of `system()`, handler inside the functions | `StartedOnce`, `OneAtATime`, `AllStarted` |
| | images: 2 programs, 3 names of two lengths, 3 images | `NameWhole`, `LatestShown` |
| | INDI: each device, 2 commands, 4 waits in a row, one fault | `DoneMeansDone`, `EveryWaitEnds` |
| | mount: 2 programs, 2 calls, 2 polls of a park, 1 late answer | `GotoArrives`, `EveryCallReturns` |
| `Night` | a night: 1 script, 1 quick, 1 time sequence, 2 exposures, 3 messages, end at 2 | `EquipmentSafe`, `AbortObeyed`, `ExecutedWhenDue`, `NightEnds` |
| | search: 3 or 4 stars, 3 individuals, 2 of them retained | `EachStarOnce`, `BestKept` |
| | timetable: 2 fixed, 1 repeated, 2 scripts, a waiting time of -3 past the table | `NoOverlap`, `CadenceKept` |
| | messages: 3 programs, 2 processes, 1 message id, 2 slots, 2 names, 4 calls | `MsgTablesOK`, refinement of `Mailbox` (`MsgImplements`) |
| | cooler: 2 values, 1 order after the first, 1 ramp point | `ToldIsKept`, `RegulatorFresh`, `CoolerSettles` |
| `NightAgain` | as `Night` | violated: `CompletedNotRescheduled` |

What the violations show:

* `CcdLostWakeup`. `timeout_expired` is tested and `select()` called with SIGALRM
  unblocked. An alarm in between is noticed only when a client sends something.
  This is why `CcdAnswered` has a poller, and why its result depends on it.
* `CcdLabel`. When the wheel does not answer during its initialisation the
  server prints it and goes on with position 0; images are then labelled with
  a filter the light did not pass.
* `QueueLock`. `GetLock()` compares the result of `flock()` with EINTR, which is in
  `errno`; the SIGCHLD handler of the session makes the interruption possible.
  With two sessions, or a worker about to sleep, this costs lines or wake-ups.
* `NightAgain`. `schedule.h:52` says that a schedule is made of strategies that have
  not been executed successfully. `create_schedule()` tests `needs_execution` of the
  items of `all_strategies` (`schedule.cc:101`), but a success is recorded in the copy of the
  item that is in the current schedule (`schedule.cc:226`, made at
  `observing_action.cc:647`): a completed strategy is given to the scheduler again.

What the exceptions in the passing properties say. Several properties hold only
outside of a case that the code really has, and the exception names it:

* `LostOnlyByRace`: a tool that writes between the `stat()` and the `flock()` of a
  keeper, or within one tick of the clock, loses its entries, and JUIDs are given twice.
* `StartedOnce`, `AllStarted`: a SIGCHLD handler inside `RunTaskInBackground()` or
  `StartBackgroundTask()` can lose a task or start it twice; the same case is excepted
  from `OneAtATime`, which holds with calls of `system()` and counts what they cost.
* `ToldIsKept`: what is told between the initialisation and the first order of a client.
* `NoOverlap`: a script whose waiting time lies past the table and is negative, and two
  fixed observations of which the later in the timetable follows in the chromosome, since
  `InsertFixedTime()` never compares with what precedes. `CadenceKept` does not except
  either as long as the slots still begin in order, which only the first can change.
* `NameWhole`, `LatestShown`: two programs in `NotifyServiceProvider()` at once.
* `EveryWaitEnds`: a mount whose last report is lost, since `data_avail` stays set and
  its timeout cannot happen (`mount_indi.cc:198`).
* `GotoArrives`: a call that was disturbed, by a late answer to a command of its own (a late
  status is taken for 0, tracking, `scope_api.cc:751`, and the wait that `scope_api.h:84` promises ends early), by answers
  of an earlier call, or by a call of another program. Answers of earlier calls are the subtle case: one late answer is enough, since
  each later command takes the answer of the one before it, and after some calls the line
  can hold a 1, a 1 and a 0, which pass for the answers to both coordinates and to the goto.
  A resync that flushes the line, or a string that is read past the strays, ends this, and the
  next call is undisturbed again.
* `EveryCallReturns`: after a late answer the `read()` of a string can block the server for ever.
* `RegulatorFresh`: an order in the middle of a pass of another mode.
* `NightEnds`: when the scheduler never answered, an index that was never set is used.

Bounds. `MaxRequests` bounds the exposures of a behaviour, the only unbounded
counter of `CcdServer`; two are enough for one to overwrite the other at every
point, a third reuses the state the first two left. Three filters are needed for
a staging slot that is neither the desired one nor slot 0; two ticks and two
polls (`CFW_MAX_TIMEOUTS`, `EXP_MAX_TIMEOUTS`) distinguish the first, the last and
one that does neither. `CcdCrowd` has two slots and three clients, so that a descriptor that one client
leaves comes to another while a second slot is in use, and the third
client finds the table full, which takes six clients in the program; as none of its
properties is about the labels or the approach, two filters and one poll are
enough there, and its theorems hold with the fault `init` too. The queue is
bounded by tasks and files added once each and by a session ending with its FINI.
Of messages there are three names for two places, so that the table of names fills,
and two messages fill the other. Two tools and a keeper are what a lost entry takes; a second
entry of each gives a keeper something to add after it took the file back. A second command meets what the first left
in `data_avail`, and one name is longer than the others, so that its end can stay.
`MaxMoves` is two, so that a call meets what a late answer of the one before left
in the line, or finds that it is gone; calls of two programs cross only in behaviours without a fault, which
keeps the cause of a violation plain and the states few. A night of two units has entries that are due,
missed, close and far away (`FarAhead` stands for the six hours), and three
messages give pause, resume and abort. Three or four stars are below, at and above the
limit of four that the operators have; one individual is replaced for two retained.
An order of the cooler after the first, with the second mode and value, meets
every step of a pass.
Two workers and two sessions give every pair of actors; crashes are unlimited.
Symmetry is used in safety runs only. Deadlock is checked in `CcdAnswered`, where a poller never
stops; elsewhere the clients and sessions may simply have nothing left to do, or
the server has exited, as the code does on a fatal timeout.

Fairness. The server loop, SIGALRM once armed, the wheel and a client that has an
answer to read are weakly fair: nothing in the code can hold them for ever, since
every handler returns. In the queue a writer that has begun to write, a
worker and the programs that make the prerequisite files are fair; a session
need not add anything, and `TaskStarts` needs no fairness of the lock for the
worker, since writers that have it give it back and there are finitely many lines.
Clients and the pollers' first connection are fair only where a run needs them
(`FairSpec`). A process that has begun to work with the database is fair, and so are
the session with its handler and the end of each child, a program that has begun to
notify, the monitor, and the program, the INDI thread and the device of `IndiWait`.
For the mount one fairness of all steps but new calls and late answers is enough, with that of its arrival,
which the polls of a program must not put off for ever. In `Cooler` the thread is
strongly fair, since it must get a mutex that the message thread takes again and
again, and so is the success of a call that is repeated: `refuse` may fail any number
of times, not for ever. In `Night` the program and the clock go on; users, faults and
new calls are never fair anywhere.

## 4. What is proved

The theorems hold for every value of the constants that satisfies the assumption of the
module: `ConstantsOK`, `WorkQueueConstants`, `ProcMessagesConstants`, `JsonSyncConstants`,
`BackgroundTasksConstants`, `ImageNotifyConstants`, `IndiWaitConstants`,
`ScopeConstants`, `CoolerConstants`, `NightConstants`, `ScheduleSearchConstants` and
`TimetableConstants`. They say what kind of thing a constant is, and three say more:

* `MaxTries >= 3` in `IndiWait` (the code has 30): a focuser may signal twice before
  it has moved, each ends a wait early, and with fewer tries the command would return then.
* `Score(c) \in Nat` in `ScheduleSearch`: `calculate_score()` adds, for what is visible,
  priorities times sines of altitudes times factors for the time since the last
  observation, none of which is negative; a duplicate is given 0, and with negative scores
  that would make it the best.
* `IsFiniteSet(Elements)` in `Timetable`: a chromosome is an array. `Delays` are naturals, as all
  entries of `time_delay_table` are, while `PastTable`, what lies behind it, is any set of integers.

Every invariant and every action property that a passing run checks, and both refinements, are
stated by a theorem.

`CcdServerProofs`

* `TypeCorrect`: `TypeOK`, with every fault.
* `OneOwnerCorrect`: `OneOwner`, with every fault.
* `ClockCorrect`, `NoLogicErrorCorrect`: `ClockNeverLost` and `NoLogicError`, assuming
  that neither `sdk` nor `camera` can happen: with them the code does leave an
  exposure without a timer. The inductive invariant adds what `pc`, the timer and
  the state of the exposure have to do with each other: a state that waits has its
  procedure in the slot, and the flag is only cleared together with a dispatch.
* `RightImageCorrect`, `ApproachCorrect`: `RightImage` and `ApproachFromStaging`, assuming
  `Orderly`: the clients have one exposure outstanding at a time and stay for its answer,
  and the wheel answers its first command. Camera, SDK and wheel may fail. `ImageInv` says
  that one question or answer is on its way in each conversation, that a client has one
  connection, that what `select()` reported is still so when its turn comes, that the
  exposure in progress is the one its socket's client waits for, that the timer and the light on the chip
  belong to it, and which moves the wheel still owes and where it started them
  (`ToStaging`, `ToDesired`). Neither property is inductive: that an image is sharp needs that the
  first answer of a slow wheel is not taken for its second.

`WorkQueueProofs`. `QueueLock` shows that an interrupted `flock()` opens the lock. So
the theorems about the lock assume `Undisturbed`, that no SIGCHLD comes while a session waits
(`"sigchld" \notin Faults`); the others assume that or `OneSession`: one session may go on
without the lock, since workers append nothing. Crashes are unlimited in all of them.

* `LockCorrect` (`WriterHoldsLock`) and `WakeupCorrect` (`NoLostWakeup`), if `Undisturbed`.
* `TypeCorrect` (`TypeOK`) and `IntegrityCorrect` (`IntegrityHolds`), if `Undisturbed` or `OneSession`.
* The inductive invariant `Inv` has five parts. `Mutex`: whoever is between
  `GetLock()` and `ReleaseLock()` has the lock, sessions only if `Undisturbed`. `Numbered`: the
  UID of a line says how many lines precede it, in the file and in every process's list; this
  makes `SyncFile()` of any list a list of the whole file, whoever wrote in between
  (lemma `SyncFileResult`), and `FindUID()` exact (`FindUIDResult`). `Measured`: what
  a session measured is still so, by the lock or because nobody else writes (lemma
  `OneWriter`); and, if `Undisturbed`, so is what a worker measured, and a sleeping worker either
  knows the whole file or has an event. `Marking`: the line a worker is about to
  overwrite with DONE is the TASK it read. `TypeOK` alone is not inductive: that
  DONE makes a legal line needs `Marking`, which needs that workers exclude each other.
* `QueueImplementsLog`, if `Undisturbed` or `OneSession`: `WorkQueue` implements `WorkLog`, so a
  task is run at most once, by one worker, for any number of workers and crashes. `LogInv` says
  that a line on its way to the file is a new one, that a task has one line, that a
  worker remembers everything up to its `current_uid`, that a task in a worker's hands is
  marked or is about to be, and that what was started is marked and in nobody's hands.
  A session's write is the log's `Submit`, `DoTask()` with a task its `Run`, and the
  appearance of a file its `Provide`; every other step, that which marks a line
  included, is a stutter.

`ProcMessagesProofs`

* `MsgTablesAlwaysOK` (`MsgTablesOK`) and `MessagesImplementMailbox`: the specification
  implements `Mailbox`. `MsgInv` adds `Exclusion` (whoever is inside has the mutex),
  `RequestsOK` and `FindingsOK`: what a process found in the tables is still there when
  it comes back to them, which holds only because of `Exclusion`. The refinement takes one
  lemma per action; the steps that keep, refuse, register or deliver are steps of the
  mailbox, the others stutter.

`JsonSyncProofs`

* `DatabaseTyped` (`JsonTypeOK`, with the exclusion of the lock), `NothingLost`
  (`LostOnlyByRace`), `OwnEntriesKept` (`KeeperKeepsOwn`), for any number of
  keepers and tools. `JsonInv` adds that every tree is bounded in its JUIDs, which
  `NextJUID` needs (`TreesOK`), that without kills the file is empty only before the
  first entry or while it is written (`FileOK`), and that what was written is in the
  file and in the tree of whoever has the lock (`WrittenKept`, `OwnKept`).

`SignalProofs`

* `TasksTyped`, `TasksStartedOnce` (`StartedOnce`), `OneTaskAtATime` (`OneAtATime`), for any
  number of tasks and calls of `system()`. `TaskInv` adds `TasksApart`, what the program holds between two
  statements is neither on the stack nor forked, and `OneProcess`, an account of what may still lead to a fork:
  the tasks that run, a `child_pid` of 0 and a signal to come are together no
  more than one and the calls of `system()`; a task that ends turns into a signal, a signal into
  a free session, that into a task, and only `system()` adds to the account.
* `NamesAreWhole` (`NameWhole`), for any number of programs and names of any length.
  `NotifyInv` has `FileLocked`, that writers and the reading handler exclude each other, and
  `NamesApart`: as long as one program notifies at a time, the file has a whole name or
  none, and a handler that has sized the file will read that name or nothing.

`DeviceProofs`

* `CoolerTyped`, `ToldIsWhatIsDone` (`ToldIsKept`), `RegulatorIsFresh`
  (`RegulatorFresh`), with every fault. `CoolerInv` adds `Freshness`, which says at each place of a
  pass under which circumstances the errors can be old, and hands it from one pass to the next,
  and three conjuncts for what clients are told: `OneOrder` (what status messages tell and what the
  thread reads are one order), `ToldStands` (what was told since is still what they tell) and
  `Reliance` (a pass that began since works on it).
* `ReturnMeansDone` (`DoneMeansDone`), for any number of commands. `IndiInv` says for each
  device what the reports that are on their way, the local copy and `data_avail` tell of the command
  in progress. The focuser needs a count: `tries` and the signals still to come never exceed `MaxTries`.
* `GotoIsWaitedFor` (`GotoArrives`), for any number of programs, late answers, crossing
  calls, refusals and resyncs. `ScopeInv` has one conjunct per question: `OneCall` (one
  program has called, and it is the one served), `Exchange` (in each phase of a command,
  the line and the commands on their way are exactly that exchange), `Told` (which coordinates the mount
  has when the goto is sent, and that it goes there) and `Arrived`. A resync leaves the line empty
  whether or not the mount answers its query, which is why a retry starts clean. All this is of a call that is not
  disturbed; what holds always is `ScopeBase`, in which nothing is known of the answers, only that the
  server rests when nobody has called. From it alone a call that meets an empty line establishes
  `ScopeInv` anew, whatever became of the calls before.

`SchedulerProofs`

* `StarsOnce` (`EachStarOnce`) and `BestIsKept` (`BestKept`), for any number of observations, any
  size of the population and any score. Each operator of the search is a lemma: a swap, a
  rotation, an insertion or a slice of another individual makes a permutation of a
  permutation. `SearchInv` adds that an individual's score is that of its chromosome or 0, and
  that the best score is still somewhere in the population while it is not sorted.
* `TimetableHasRoom` (`NoOverlap`) and `CadencesHold` (`CadenceKept`), for any observations,
  durations, waiting times, cadences and whatever lies behind the table of waiting times. `TimetableInv` adds that the first
  loop only has put in fixed observations, each at its time and from the part of the chromosome it has passed (`OnlyFixed`),
  that slots follow one another but for the two exceptions (`Follows`), that they begin in order when no
  waiting time was negative, and that, while they do, what `last_scheduled` says of a repeated one is its
  latest slot (`LastTimes`), which is what makes an insertion into an earlier gap keep the
  cadence. `CadencesHold` also states that the slots begin in order when `early` is empty, so that its condition is
  met by every timetable without such a script.

`NightProofs`

* `AbortIsObeyed` (`AbortObeyed`), `EquipmentIsSafe` (`EquipmentSafe`), `OnlyWhenDue`
  (`ExecutedWhenDue`), with every fault, for schedules of any length and any number of
  messages. `NightInv` adds that there is a candidate wherever the program looks at
  it, which is what keeps the index in the schedule after reschedulings, that the motor
  is off only while the program sleeps until something that needs execution, that a
  night without messages ends normally, and that an abort in a pause is remembered.

Only model-checked: the liveness properties (`RequestAnswered`, `TaskStarts`,
`DatabaseObtained`, `AllStarted`, `LatestShown`, `EveryWaitEnds`, `EveryCallReturns`,
`CoolerSettles`, `NightEnds`), which are out of the prover's reach.

## 5. Not modelled

* Camera server: temperatures and the arithmetic of the regulator, the filter
  configuration messages, the pixels, the FITS keywords other than FILTER, an
  exposure that names a file instead of asking for the image, a client that stalls
  within a message. Camera client: late answers and the filter commands.
* Work queue: directories of prerequisites that do not exist, files moved into
  place, UIDs that no longer fit their five digits (after some 14,000 lines), a
  reader that sees half of a line while the constructor reads without the lock,
  sessions killed while a child still holds their descriptor.
* Messages between programs: the error paths of setting up the shared memory
  (`proc_messages.cc:58-95`): without the area a program ends at its first access, before it
  has the mutex, and the initialisation of a mutex that was never used is taken as done.
* Databases: programs that open `astro_db.json` to read only, which take no lock and can
  find the file truncated; they write nothing.
* Session: `FlushBackgroundTasks()`, which nothing calls, darks, flats, how a field is found and focused, how an exposure time is
  chosen. Scheduler: the scores and the visibility, which are floating point; the
  waiting times in the search (the timetable has them), and duplicates found by hash, which the build leaves out.
* Scope: `initialize_mount()` on the first connection, guiding, position queries, limits, the mount model,
  the flat light, the focus commands, late answers to the resync's own query.
* The trees of the database and `dbase.cc`; the focus manager and the running focus,
  which decide by fits of measured star sizes.
* Image processing, astronomical mathematics, the temperature server, the Python
  code and the command-line tools other than the worker and the image monitor. These are
  most of the code: sequential programs on floating-point numbers, images and text,
  with no other process, thread or device to meet. Their state spaces are real
  numbers and pixels, and a model of them over small sets would show nothing of what
  can be wrong with them.

## 6. Plan

Done: the camera server and its cooler, the work queue, what programs share on one
computer, waiting for INDI devices, the mount and its server, the night, the search and the timetable. What is left,
in this order:

1. The focus manager: how many images it takes before it moves and within which
   limits, with the fits as arbitrary answers.
2. The camera client's filter commands, for which the server sends no answer, and
   its answers without an id; composed with `CcdServer`.
3. The scope server's focus commands and flat light, on the same line as the mount's.

Modules are written without recursive operators, with one action per operation and
invariants as conjunctions of named parts, so that they can be proved about.
