# TLA+ models of the QIDI Q2 firmware

The repository holds the software of a 3D printer: a fork of the Klipper host
(`klipper/klippy`, Python and C), a fork of Moonraker (the HTTP and websocket
front end), the printer's configuration and macros, and the scripts that
install it. The microcontroller images are binaries.

This directory models the control logic of that software in TLA+: TLC
model-checks small instances, and TLAPS proves the theorems of the
`*_proofs` modules for every value of the constants.

    tlc -workers 2 -config MCPrintJobScripts.cfg MCPrintJob.tla
    tlc -workers 2 -config MCSerialLink.cfg MCSerialQueue.tla
    tlc -workers 2 -config MCJobQueue.cfg MCJobQueue.tla
    tlc -workers 2 -config MCTrSync.cfg MCTrSync.tla
    tlapm PrintJob_proofs.tla
    tlapm SerialQueue_proofs.tla
    tlapm SerialAnswers_proofs.tla
    tlapm SerialReader_proofs.tla
    tlapm TrSync_proofs.tla
    tlapm JobQueue_proofs.tla
    tlapm KlippyConnection_proofs.tla
    tlapm QueueLemmas.tla

## The system

| Component | State it keeps | Operations | Hard parts |
|---|---|---|---|
| Print job: `virtual_sdcard.py`, `pause_resume.py`, `print_stats.py`, `filament_switch_sensor.py`, `sdcard_loop.py` | the open file and position, the work timer and its flags, the pause flags, the job state | load, start, pause, resume, cancel, seek, finish, continue after a power loss | requests and events act before they have the G-code mutex; every wait lets others run |
| G-code dispatch: `gcode.py`, `gcode_macro.py`, `webhooks.py` | handlers, abort epoch | run a script, a macro, a request | nested scripts, errors, aborts |
| Reactor: `reactor.py` | timers, greenlets, mutexes | pause, switch, lock | hand-over of the mutex |
| Message layer: `chelper/serialqueue.c`, `msgblock.c`, `serialhdl.py` | sequence numbers, sent, pending, notify and receive queues | send, receive, retransmit, pull | loss, duplication, 4-bit sequence numbers, three threads |
| Homing: `mcu.py`, `chelper/trdispatch.c`, `homing.py` | trigger state and expiry per MCU | start, report, extend, trigger, stop | several MCUs and a time limit |
| Toolhead: `toolhead.py`, `gcode_move.py` | flush state, look-ahead queue, print time | queue a move, flush, drip | flush states, stalls |
| Klippy life cycle: `klippy.py`, `mcu.py`, `clocksync.py` | startup, ready, shutdown, error | connect, shut down, restart | a failure during each step |
| Heaters: `heaters.py`, `verify_heater.py` | targets, abort epoch, error integral | set, wait, verify | waits that are aborted |
| Idle timeout, saved variables, print status stack | one state each | | stale tests, crash while writing |
| Moonraker `components/klippy_connection.py` (the file of that name one level up is an older copy that nothing loads) | connection task, mutex, pending requests, subscriptions | connect, initialise, request, subscribe, close | three tasks that overlap |
| Moonraker `job_queue.py`, `job_state.py`, `history.py` | the queue, its state, the last event | add, pop, pause, start, record | state read before an await |
| Moonraker `update_manager`, `machine`, `file_manager`, `database`, `power`, `authorization`, ... | | | |

Klippy runs everything of the first three rows in greenlets of one thread,
which switch only where the code pauses in the reactor. Moonraker talks to it
over a socket; each request becomes a greenlet (`webhooks.py`). The C message
layer has a background thread and a pulling thread per MCU. The runout sensor
reports from a reactor callback. Homing is watched by a C thread per MCU
(`trdispatch.c`, called from the message layer) and ended by Python. Moonraker
is one event loop of coroutines, which switch only at an `await`; its job queue
starts jobs through the same requests a user would send.
The work handler, which feeds the file's lines to G-code, is a reactor timer
whose greenlet lives as long as the job does.

## Modules

| Module | Models |
|---|---|
| `ReactorMutex` | `reactor.py`, class `ReactorMutex`, one operator per branch of `__enter__` and `__exit__` |
| `PrintStats` | `print_stats.py`: the job state that Moonraker and the screens see |
| `PrintJob` | extends both: virtual sdcard, pause/resume/cancel, the runout event, the script loop, the macros `PAUSE`, `RESUME`, `CANCEL_PRINT`, requests |
| `MCPrintJob` | small instances of `PrintJob`: who may ask what, the jobs' lines |
| `PrintJob_proofs` | theorems about `PrintJob` |
| `CommandChannel` | what the message layer promises: each queue's commands arrive once and in order, and all of them do |
| `SerialQueue` | `serialqueue.c` and `pollreactor.c`, with the wire and the microcontroller as external parts; implements `CommandChannel` |
| `SerialReader` | extends `SerialQueue`: `serialhdl.py`, from the first query to a microcontroller to the dictionary or the disconnect |
| `MCSerialQueue`, `MCSerialReader` | their small instances |
| `TrSync` | `trdispatch.c`, `MCU_trsync` and `TriggerDispatch` of `mcu.py`, `homing_move`; links and microcontrollers external |
| `MCTrSync` | its instance, and the loop of `handle_trsync_state` as it is written |
| `JobQueue` | Moonraker's `job_queue.py`, with what it depends on of `job_state.py`, `klippy_apis.py` and `klippy_connection.py` |
| `MCJobQueue` | its instance: both extremes of the section's options |
| `KlippyConnection` | Moonraker's `components/klippy_connection.py` and the stop of `server.py` |
| `MCKlippyConnection` | its instance |
| `QueueLemmas` | lemmas about sequences that the proofs share: a queue without duplicates, its tail, its ranges, `RemoveAt` |
| `SerialQueue_proofs`, `SerialReader_proofs`, `TrSync_proofs`, `JobQueue_proofs`, `KlippyConnection_proofs` | theorems about these modules |
| `SerialAnswers_proofs` | extends `SerialQueue_proofs`: theorems about naks, answers and notifications |

Each part is modelled against what it relies on of the next: `TrSync` assumes
of the message layer what `CommandChannel` promises for commands and no more
than loss for reports; `JobQueue` takes a connection that answers, refuses or
fails every request, which is what `KlippyConnection` shows (`Recovers`), and a
print job that changes as `PrintStats` does.

### PrintJob and the code

*State.* The variables have the names of the attributes they stand for
(`workTimer` is `work_timer is not None`, `pauseSent` is
`pause_command_sent`, ...); `lines`, `readPos`, `lineEnd` and `sdError` are
local variables of `work_handler`. `pc`, `script`, `aborted` and `after` are
what a Python stack holds: where each greenlet is, the rest of the script it
runs, whether `abort_epoch` has changed since `_process_commands` noted it, and
where the caller of `do_pause` goes on. `running` is the greenlet the reactor
has switched to. `internalError` and `plrJob` are history variables;
`requests` counts requests against their bound.

*Steps.* What the code does between two pauses of the reactor is atomic. The
model splits it into several actions of the same greenlet; nobody else can take
a step while `running` names a greenlet, so this adds no interleavings. An
action that pauses sets `running` to `NoOne` (`Suspend`).

*Commands.* Nested scripts (a macro run by a script) are flattened: the macro's
commands are put before the rest of the script. `MOVE` is any command that only
takes time and may fail. The macros keep the commands that matter to the job.
`on_error_gcode` is `CANCEL_PRINT`, as in `printer.cfg`.

*Data.* A file is a sequence of commands, a position counts lines instead of
bytes, and one read returns `Chunk` lines instead of 8192 bytes. G-code text,
file names, sizes, durations and filament counters are left out. The outer-wall
helper scripts (`gcode_adap`) and `m4050` (whose body does nothing to this
state) are left out. The restore moves of a power-loss resume are one step.

### Runs of PrintJob

| Run | Instance | Shows |
|---|---|---|
| `job_scripts` | two clients with ten different scripts, two and three requests each; one plain file and one archive | types, mutual exclusion, no unexpected exception, lines in order, pauses that hold, cancels that last |
| `job_events` | one job (ordinary or continued), a web cancel, a panel that pauses or cancels by script, a runout; one request each | events act without the mutex: no line after a cancel; every request is answered and a cancelled job's handler stops |
| `two_cancels` | a job and two web cancels | **violated**: the second cancel closes `None` and the printer shuts down |
| `stale_resume` | a print to be continued that fails to load, then an ordinary one | **violated**: the ordinary print makes the restore moves |

*Bounds.* `Requests` and `MaxRequests` limit who asks what and how often,
`MaxPosition` the position that `M26`, loops and a power-loss record give. Three
clients and the handler are every role the code has: two competitors for the
mutex, one that acts before taking it, one event. A shutdown may strike at any
time. Files of three lines read two at a time have a block boundary inside, a
pause in the first block and a loop in the second.

*What the instances leave out.* Four properties hold only under a condition,
which the instances meet and the theorems name. `NoInternalError` needs users
who only send scripts: with two cancel requests it fails (run `two_cancels`).
It also needs the file of a print to be continued to be there.
`WorkerIsPrinting` and `NoLineAfterCancel` need that no job is started while a
cancel request waits in `do_pause`: such a request is not held up by the gcode
mutex, so `M24` may find the old handler gone and start a new one, which
clears `must_pause_work`; the request then closes the file under it, and the
new handler starts the lines it has read of a job that is reported cancelled.
(`CancelStopsWork` is checked under the same condition.) `PauseTakesHold`
needs that no runout comes: one before a job leaves `pause_command_sent` set,
and the next `PAUSE` then does not stop the job. With these conditions dropped
TLC finds a counterexample to each of the four; since no document promises
more, only the first is kept as a run.

*Fairness.* The reactor runs every timer that is due and every greenlet that
was woken, so each greenlet that can take a step eventually does
(`WF_vars(GreenletStep(g))`, `WF_vars(RunoutStep(c))`, `WF_vars(WorkStep)`).
This includes that commands of other modules come to an end. Nothing is assumed
of clients or of shutdowns. Waking to find that nothing has changed (the polls
of `do_pause` and of the handler) is not a step.

*Deadlock* is checked in every run: `Quiet` is the only state in which the
system may rest, with all requests used up and every greenlet idle.

### SerialQueue, SerialReader and the code

*State.* The fields of `struct serialqueue` keep their names. The blocks of
`sent_queue` are records of their number and their commands; the wire carries
the same records, and the controller looks at `seq % SeqNumbers` only.
`upcoming` and `ready` hold every command queue's lists, `pendingQueues` their
order. The timers are the one field `waketime` of each: `commandTimer` is a
clock of the controller, `retransmitTimer` tells never, later and `PR_NOW`
apart. `bg`, `block`, `outBuf`, `sender` and `puller` say where each thread is.
`executed`, `built`, `resent`, `unanswered` and `retransmits` are history.

*Steps.* Each step is what a thread does under `sq->lock`. The loops of
`command_event` are steps of their own (`MoveDue`, `StartBlock`, `AddCommand`,
`StoreBlock`, `WriteBlocks`); while `bg` is inside them no other thread moves.
The write to the pipe (`KickBgThread`) comes after the lock is released and is
therefore separate from `SendBatch`; so is the exit request. `must_exit` is
read without the lock.

*The other end.* The wire keeps the order and may lose or garble a message in
either direction; on a UART `tcflush` may throw away any part of what is not
sent yet. The controller's firmware is not in the repository; what the host
code relies on is modelled: it takes the block it expects, answers its queries
while it handles them, then acknowledges, and repeats its acknowledgement for
every other block. A block in its hands (`mcuBlock`) counts as in its buffer.

*Data.* Lengths are counted in commands, times in ticks of one clock, and four
numbers instead of sixteen come round (`SeqNumbers` = 4, `MaxPending` = 3, for
16 and 12). A retransmission timeout that comes while an answer is still under
way is `MaxEarly`, all others come when nothing is; this stands for the
arithmetic of `rto`. Left out: bit times, the doubling of `rto`,
`BACKGROUND_PRIORITY_CLOCK`, the clamp of `min_clock`, fast readers,
statistics, debug queues, debug files, and freeing.

*SerialReader* adds the reactor's greenlets: the one that asks for the
dictionary (`identify`), the one that waits five seconds (`session`), and the
Python side of the puller. `offsetOf` remembers what each query asked for.

| Run | Instance | Shows |
|---|---|---|
| `serial_link` | one queue, four commands in four blocks, two losses, one early timeout, an exit at any time, a UART | blocks are executed once and in order; what was acknowledged was executed; notifications, answers and send times belong together; naks do not multiply |
| `serial_due` | two queues with different clocks, a window of two commands, one loss | implements `CommandChannel`; the window holds; everything that arrives is pulled |
| `serial_connect` | a controller that expects block 1, 2 or 4, one loss, one report, the timeout at any time | the dictionary is read within the retries, nobody waits for ever, and after the disconnect both threads of the queue end |
| `late_identify` | a controller that expects block 2, no loss, the timeout | **violated**: the identify greenlet wakes after the disconnect and uses a `serialqueue` that is `None` |

*Bounds.* The acknowledgement of the fourth block has the number of the first
one again, and `MaxPending` is one less than the numbers, where a mistake by
one confuses them (the mutant `BlocksPending_OneMore`). Two losses are a block and
its acknowledgement, or two copies of one block. With `Chunks` = 1 the
dictionary takes two answers; `Retries` = 2 for the code's 5 is enough for one
loss and the first, unnumbered contact.

*What the bounds hide.* A data message whose number is still 1 makes
`rseq - 1 - 1` wrap to 2^64 - 1, so every waiting sender is told at once
(`WordSize` keeps this): a controller that reports before the first
acknowledgement ends waits early. `SerialRetryCommand` asks again, so
`serial_connect` holds with `MaxReports` = 1; `AnswerBeforeNotification` is
only checked where there are no reports. `ExactlyOnce` is stated for a
controller that expects block 1, as one does after a reset; another one throws
the first blocks away, and the host learns its number from the first nak
(`serial_connect`). Window is at least two blocks
(`LinkAssumption`): `check_send_command` does not look at the window when
nothing is outstanding.

*Fairness.* Every thread goes on: the background thread, the puller, a sender
that has still to write to the pipe, the controller, and the clock (one weak
fairness each). In `SerialReader` also the reactor's greenlets and the
five seconds. Nothing is assumed of senders, of losses or of exits.

### TrSync and the code

*State.* `mcu` holds the trsync of each controller: armed or not, the reason it
stopped for, when it expires and when it reports next. `last_status_clock`,
`expire_clock` and `can_trigger` are the fields of `trdispatch.c`; `reading`
says that the fast readers are registered. `pc`, `home_end_clock`,
`completion`, `query` and `res` are the Python side, from `home_start` (the
initial state) over `wait_end` to the queries of `stop`.

*Steps.* `Receives` is one message taken from a link: the C thread handles it
under the lock of `trdispatch` and sends what it has to, and the Python thread
handles it in the same step. Removing the fast readers is one step, because
`stop` then queries every trsync over the same threads. An answer to `stop` is
any `trsync_state` of that controller since the query was registered; what
makes it the right one is that it is looked at only after the acknowledgement.

`Expire` says in one line what the loop over the trsyncs finds with a minimum
and the next one: `MCTrSync` has that loop (`Scan`, `LoopExpire`), and TLC
compares the two for up to four controllers (`LoopFindsSlowestOther`).

*Time* is counted in ticks, and passes when no timer is due and no message is
late. The code's 50 ms, 15 ms and 12 ms are scaled to `Timeout` = 6,
`Report` = 2, `MinExtend` = 2, a link takes at most `Latency` = 1. The scale is
tight: `NoFalseTimeout` fails with a latency of 2, as the code's numbers fail
when a report and its extension take longer than
`Timeout - Report - MinExtend`. Clocks of different controllers are one clock.

*Faults.* A report is lost (`Loses`), or a link fails: what is under way
arrives at any time or never and what follows is lost. The host notices only
long after every timeout: `check_active` of `mcu.py` waits for forty clock
queries without an answer (`GivesUpOn`).

| Run | Instance | Shows |
|---|---|---|
| `trsync` | two controllers, the endstop on the first, the end of the move at 2, one fault | every controller stops within `Timeout` of the first one; no healthy move times out; a reported trigger is one, and one that happened is not reported as missing unless a link failed; the move ends |

`MaxTime` = 12 is twice the timeout: a controller may stop at any time up to
5, well after the end of the move, and the others still be seen to run too
long. Two controllers show both branches of the minimum (each is
the slowest for itself and the other one). A lost report of the end of the move
ends in "Communication timeout" where "No trigger" would be the truth;
`HomedIsTrue` does not exclude it. Nor does it speak of three lost reports:
`stop` takes any `trsync_state` that comes after its query and before the
acknowledgement for the answer, and a periodic one that is late, while the
report of the timeout and the answer proper are lost, hides the timeout. TLC
finds that behaviour with three losses and a timeout of three ticks, and none
with two; the condition `lost < 3` says so. Deadlock is not checked: the run stops when
the move has ended. *Fairness*: controllers, threads and time go on, a link
that has not failed delivers, and the host notices one that has.

### JobQueue and the code

*State.* The attributes of `JobQueue` keep their names; `timers` are all
delayed calls of `_pop_job`, `held` the one in `pop_queue_handle`. `lock` is the
`asyncio.Lock` with its holder and the await it is at, `waiting` the
coroutines in it. `seen` and `last_event` belong to `job_state.py`, `klippy`
and `print` are Klippy's own: `print` is the state of `print_stats.py`, which
changes as `NextPrint` says (`note_start`, `note_pause`, `_note_finish`, and
`reset`, from any state). `started`, `cut`, `unhandled` and `halted` are
history.

*Steps.* A coroutine goes undisturbed from one await to the next. One that gets
the lock at once runs on at once, so nothing else happens while `lock.pc` is
"enter". Klippy's answer and the moment it acts on a request are two steps
(`KlippyAnswers`, `KlippyReplies`), between which the connection may be lost.
Other clients print, reset and cancel (`PrintChanges`); a state that came and
went between two status reports is never seen by `job_state`. The state
"extracting" is left out: `JobEvent` has no such name, so `_status_update` of
`job_state` ends in a `ValueError` before it takes the state over, and the
queue sees the one before.

| Run | Instance | Shows |
|---|---|---|
| `job_queue` | two jobs, three calls, three changes of Klippy, one failing script or copy; the section empty, or with every option on | no job is loaded that is not the head, none is started twice; a pause stops the job being loaded at each await; no state the queue cannot leave; the lock is given back |

Two jobs are one being loaded and one to jump before it or to go on with;
three calls are a start, a pause and one that interferes. *Fairness*: the loop
runs what is ready, timers run out, and Klippy answers. Deadlock is not
checked: with all calls and changes used up the queue rests.

*What the properties leave out*, because the code does it and nothing promises
otherwise: a `start_queue` or `queue_job` that is already in the lock when a
pause comes undoes the pause; an exception of `start_print` that is no server
error (a file deleted meanwhile) leaves the queue in "starting" until the next
pause (`unhandled`); a job whose connection is lost between its start and the
answer stays in the queue and is started again (`cut`); a timer whose handle an
abort left behind may later pause an automatic queue.

### KlippyConnection and the code

*State.* `writer`, `closing`, `identified`, `initializing`, `started`, `state`
are attributes; `task` says where the connection task is, `closer` where
`close` is. `req` holds at most one request per actor (a front end, or the task
itself) with its stage and what it subscribes to; `sublock` is
`subscription_lock`, `subs` is `subscriptions` without the field lists. `cache`
is the `webhooks` entry of `subscription_cache`, the only one that changes the
state. `told`, `served` and `stray` are what Klippy knows of this connection
(`QueryStatusHelper` in `webhooks.py`): it reports its state when it differs
from what it said last, be it in a report or in an answer, and only to a
subscription that has `webhooks` among its objects. The task's own has; of the
front ends those in the constant `Watchers`. Klippy's state is that of
`get_state_message` in `klippy.py`: startup, ready, error, shutdown, or no
process.

*Steps* are again what happens between two awaits. A connection task that
`close` cancels ends at its await and leaves its place in the lock. Handlers of
events take one step; while they run the task waits, as `send_event` does.
`_process_status_update` is `ProcessStatus`. It has two callers: a report
(`StatusUpdate`) and the end of a subscription (`Subscribed`), which passes on
what differs between the answer and the cache. An answer is complete when it is
read, but the coroutine that waits for it goes on later (`Return`); a report
read in between is processed before it.

| Run | Instance | Shows |
|---|---|---|
| `klippy_connection` | two front ends, one of which watches `webhooks`, two calls, two changes of Klippy, one subscription that times out, a server that may stop at any time | the events of a connection come in the order identified, started, ready, shutdown; a shutdown is announced again only after a late answer has set the state back; every subscriber is served; every call ends; the connection comes back |
| `klippy_shutdown` | no calls, three changes of Klippy | **violated**: a shutdown while the requirements are verified is announced by nobody |

Two front ends are needed for one to drop the other's subscription, one that
watches and one that does not for the cache to lose its entry and get it back;
two changes are a start and a shutdown, or a loss and a return. *Fairness*: the loop runs
what is ready and Klippy, while it runs, answers and reports; nothing makes it
start. Deadlock is not checked: a stopped server rests. *Left out*: remote
methods, the other objects of the subscription cache, service and peer
information, log rollover.

*A late answer.* The status of a subscription's answer may be older than the
state. Klippy answers a subscription with "ready" and shuts down; both messages
are read in one go; the report is processed first and `klippy_shutdown` is
sent; then the coroutine of the subscription goes on, finds "ready" where the
cache has "shutdown", and sets state and cache back. Moonraker takes Klippy for
ready until the next status that says otherwise: a report of another change, or
the answer to another subscription, which is compared with the cache, found
different, and announced as a second `klippy_shutdown`. TLC reaches this within
the bounds of `klippy_connection`. `EventOrder` says what remains true: no
shutdown is announced twice *without* such a step back in between (the history
`events` has a mark "back" for it), though four places in the code announce
one. No document promises more, so no violation is listed.

*Seen and not stated:* a shutdown between the answer to `info` and the first
subscription is noticed by nobody, as the status that comes with the first
subscription finds no cache to differ from; `remove_subscription` while that client's own subscription is
under way leaves a dead subscriber; an exception in `_check_ready` that is no
`ServerError` leaves the connection half initialised; when the subscription
of `job_state._handle_started` fails, `result` is not bound.

### Proofs

Every theorem holds for all values of the constants that satisfy the `ASSUME`s
of its module; TLC evaluates those in every run.

| Module | Theorem | Statement |
|---|---|---|
| `PrintJob_proofs` | `TypeCorrect` | `Spec => []TypeOK` |
| | `MutualExclusion` | `Spec => []LockConsistent` |
| | `PrintingIsWorkedOn` | `Spec => []PrintingHasWorker` |
| | `CancelledStays` | `Spec => CancelIsFinal` |
| | `LinesInOrder` | `Spec => LineIsNext` |
| | `HandlerWorksForJob` | `Spec /\ NoStartInCancel => []WorkerIsPrinting` |
| | `NoLineOfCancelled` | `Spec /\ NoStartInCancel => NoLineAfterCancel` |
| | `ScriptsKeepJob` | `ScriptsOnly` implies both conclusions without the condition |
| | `PauseHolds` | `NoRunouts` implies `Spec => PauseTakesHold` |
| | `NeverClosesNone` | `ScriptsOnly` implies `Spec /\ FileIsThere => []NoInternalError` |
| `SerialQueue_proofs` | `TypeCorrect` | `Spec => []TypeOK` |
| | `AcknowledgedIsExecuted` | `Spec => []AckedWasExecuted` |
| | `NothingForgotten` | `Spec => []SentIsOutstanding` |
| | `BlocksExecutedOnce` | `McuStart = {1}` implies `Spec => []ExactlyOnce` |
| | `BufferNeverOverflows` | `McuStart = {1}` implies `Spec => []BufferFits` |
| | `ChannelIsSafe` | `McuStart = {1}` implies `Spec => Channel!Safety`: each step is one of the abstract channel |
| `SerialAnswers_proofs` | `ThirdNakIgnored` | `Spec => NoThirdNak` |
| | `TimesAreExact` | `Spec => []SentTimeIsExact` |
| | `AnswersComeFirst` | `McuStart = {1}` implies `Spec => []AnswerBeforeNotification` |
| `SerialReader_proofs` | `ReaderTypeCorrect` | `ReaderSpec => []ReaderTypeOK` |
| | `NoUnknownNotification` | `ReaderSpec => []NotificationIsPending` |
| | `AwaitedIsOnItsWay` | while the puller runs, a query that is waited for has not got lost |
| | `AcknowledgedAtFirstContact` | `ReaderSpec => []AckedWasExecuted`: also with a controller that was not reset |
| | `IdentifyComesThrough` | `MaxLosses < Retries` and `MaxLosses + MaxReports <= Retries` imply `ReaderSpec => []IdentifySucceeds` |
| `TrSync_proofs` | `TypeCorrect` | `Spec => []TypeOK` |
| | `AllStopInTime` | `Spec => []StopsInTime` |
| | `AllStoppedWhenDone` | `Spec => []StoppedWhenDone`, the first part of `HomedIsTrue` |
| | `ReportedIsTrue` | a trigger that `home_wait` reports is one; if `lost < 2` nobody timed out |
| | `HitIsReported` | a hit is not reported as "no trigger", unless a link failed |
| | `HomingIsTrue` | `Spec => [](lost < 2 => HomedIsTrue)` |
| | `NobodyTimesOut` | `2 * Latency + Report + MinExtend <= Timeout` implies `Spec => []NoFalseTimeout` |
| `JobQueue_proofs` | `TypeCorrect` | `Spec => []TypeOK` |
| | `QueueNeverStranded` | `Spec => []NeverStranded` |
| | `NoJobPrintedTwice` | `Spec => []NoJobTwice` |
| | `PauseIsHeld` | `Spec => PauseHolds` |
| `KlippyConnection_proofs` | `TypeCorrect` | `Spec => []TypeOK` |
| | `EventsInOrder` | `Spec => []EventOrder` |
| | `AllSubscribersServed` | `Spec => []SubscribersServed` |

Each module has an inductive invariant `IInv`, a lemma `InitInv`, one lemma per
part and kind of step, `NextInv`, and `Invariance == Spec => []IInv`; the
theorems follow from it.

**PrintJob.** `LockConsistent` is not inductive alone. A greenlet holds the mutex in
`do_pause` or `do_cancel` only if a command brought it there, which the model
sees by its script; so `IInv` adds that whoever is inside a command has it at
the head of its script (`ScriptAtHand`), that idle clients have none, and that
the handler's timer is registered as long as the handler exists
(`HandlerHasTimer`, without which a second handler could be started).
The steps are grouped by what they do to the schedule: `OneMoves` (one greenlet
moves, the mutex stays), `DoneKeeps` and `LeaveKeeps` (a command, a script
ends), `ResumeKeeps` (the handler starts), `PauseKeeps`, `GoesOn`; each action
is then one of these. `JobInv` carries the job state on top of `IInv`: a
cancelled job has no file and no start time, nothing runs beside an extraction,
a printing job is past the handler's start and keeps its file until the
handler leaves. The last point is why the handler can never overwrite
"cancelled": `note_complete` and `note_error` do nothing once
`print_start_time` is cleared, and `note_pause` is reached only with a file.

The other theorems first say once what every step is (`StepKinds`): a greenlet
moves to another place (`Moves`, with what it must respect to be `Admits`-ted
there), the handler's script ends (`HandlerLeaves`), a command starts the
handler (`Resumes`), the handler itself steps, or nobody moves (`Stays`). Each
invariant below is then about five kinds of step instead of forty actions.
`FlowInv` says where the greenlets are: those at places without a pause are
the one that runs; `cmd_from_sd` is set exactly from the dispatch of a line to
the step after it; `do_pause` has returned only to a caller that may go on; no
handler exists under a load.

- `LinesInOrder`: by `LinesInv`, while the file is loaded the handler has in
  hand the lines from `file_position` on, and its read offset is right behind
  them; inside a line the same holds from the position after that line
  (`lineEnd`). A command that jumps changes only `next_file_position`, and the
  seek after the line drops what was read. Nothing is assumed of clients,
  events or files.
- `HandlerWorksForJob`, `NoLineOfCancelled`: `AskedInv` says that a command
  that waits in `do_pause`, or is back from it, keeps the handler asked to
  stop, because only another command could start it again. For a cancel
  *request* nothing says so, which is the race above: `CancelAsked` is kept by
  steps that satisfy `StartsAlone`, and `NoStartInCancel` is that condition
  for all steps. `WorkInv` follows: a handler whose file was closed under it
  has been asked to stop and does not pause before it sees that.
  `ScriptsOnly`, no cancel request at all, gives `NoStartInCancel` by
  `CancelsByScript` and mutual exclusion.
- `PauseHolds`: by `PauseInv`, a greenlet in `send_pause_command` is there for
  a command, so there is one at most; `pause_command_sent` is set only while
  it is about to set `is_paused`, or after it has. A runout breaks the first
  part; requests to cancel do not.
- `NeverClosesNone`: by `CloseInv`, who waits to close the file has one:
  another command cannot be under way, and the handler, asked to stop, does
  not read on to the end of the file.

`ScriptsOnly` and `NoRunouts` speak of the constant `Requests` (the instance
of `job_scripts` satisfies both); `NoStartInCancel` and `FileIsThere` of
behaviours (that of `job_events` satisfies the first, since its only job is
started before it can be cancelled; `job_scripts` the second). TLC checked
each invariant on these instances before it was proved.

**SerialQueue.** The host sees `seq % SeqNumbers` and guesses the rest; the
guess is right because everything under way is close enough to `receiveSeq`
and `sendSeq`. `WireInv` says how close. No block on the way
is so old that the controller, when the blocks before it have arrived, could
take its number for the next one (`Recent`); messages on the way back have
numbers that never fall, between `receiveSeq` and the controller's
(`InOrder`). `AheadInv` bounds the
controller by `sendSeq`, but for the first contact, when a controller that was
not reset expects a number the host never sent; all it says then is that
number. With `MaxPending < SeqNumbers`, `SameRemainder` makes equal remainders
equal numbers: the controller takes a block only if it is the one it expects,
and `Rebuild` returns the number that was sent. `SentInv` adds what
`SentIsOutstanding` needs while a block is being built. It matters that
`IInv` is kept by `LinkNext`, `Next` with the controller's reports and the
exit, so that `SerialReader`'s steps keep it as well.
`BlocksExecutedOnce` then carries `BlocksInv`: the numbers of `built` are its
positions, every block on the wire, in the buffer or in `sent_queue` is one of
`built`, and `executed` follows `built` up to the controller's number. Its
hypothesis `McuStart = {1}` is not vacuous (the run `serial_link` has it): it is the state
of every controller that was reset, and without it the first blocks are
thrown away, which is what the retries of `SerialReader` are for.

`BufferNeverOverflows` compares two accounts of the same blocks. The host counts
commands (`needAckBytes`), the controller's side is a sum over what is on the
wire. `BufferInv` says that while nothing was sent twice the wire and the
controller hold blocks with rising numbers (`OnceInv`, `HandlingInv`), and
that `needAckBytes` is the sum over `sent_queue` (`WindowInv`); so the blocks
under way are found in order in `sent_queue`, and a sum over some of a sequence
is no more than the sum over all (`BytesWithin`). Here `McuStart = {1}` is
needed: with `McuStart = {3}` TLC violates `BufferFits`, because the first
acknowledgement makes the host forget blocks that are still on the wire. TLC
checked `BufferInv` with windows of 2 and 4 and blocks of one and two commands.

`ChannelIsSafe` is the refinement without its liveness: `Delivered`, the
commands of the executed blocks by queue, takes every step of the link to a
step of `CommandChannel` or a stutter. The reason is `OrderInv`: what has been
handed over is, in this order, the commands in built blocks, those of the block
being built, `ready` and `upcoming`; with the rest of the program it is the
program. A step moves a command from one of these to the next, and the
controller's step extends `executed` along `built`, so `Delivered` is always a
prefix. That a command is handed to one queue only is `QueuesAssumption`; an
object in the code cannot be on two lists.

Both proofs are about folds over sequences. Nothing is taken from the library
of induction: that the recursive function behind `FoldLeft` exists is shown by
a least length at which it would not (`LeastNatural`), and the few facts needed
(`BytesFacts`, `TakingExtends`, `CommandsExtends`, ...) are lemmas.

**SerialAnswers.** Three invariants on top of `IInv`. `NakInv`: `ignore_nak_seq`
is never behind `send_seq` as it was at the last retransmission but one, so a
third nak for the same numbers finds it ahead. `TimesInv`: answers under way
are to executed blocks, and the times in `receive_queue` belong to acknowledged
blocks that were sent once (`sent_queue` and `retransmit_seq` decide which).
`AnswersInv`: an announced command is in a built block; on the wire an answer
is ahead of the acknowledgement of its block, because numbers grow; every
query of an executed block has its answer under way, arrived or lost. The
puller therefore finds the answer in front of the notification. Here
`McuStart = {1}` is needed, as in `BlocksExecutedOnce`: a controller that was
not reset acknowledges blocks it never ran. The theorem is about `Spec`,
without the controller's own reports, which `SerialReader` adds.

**SerialReader.** Every step is a step of the link or leaves it alone
(`ReaderIsLink`), so `IInv` carries over with all its consequences, whatever
the controller's first number and whatever it reports. `AwaitedInv` then
follows the one query `send_with_response` waits for: while the puller runs it
is in exactly one of `upcoming`, `ready`, `notifyQueue` and `receiveQueue`, and
its number is in `pending_notifications`; when nobody waits there is none.

`IdentifyComesThrough` says that the retries are enough: the code's five bear
four losses and a report, say. A retry is used up when the notification is
pulled and no answer has come before it. `Fine` says that this will not be so
with the query under way: either an answer is in `receive_queue` ahead of any
notification, or nobody has been told of the query and its block, the last one,
has yet to be built, to be executed, or its answer is on the wire ahead of any
acknowledgement of all blocks (`AnswerComes`). Only three things end that: a
loss; a report numbered 1, after which `wake_seq` of `handle_message` is -1 as
an unsigned number and all senders are told; and the first contact with a
controller that expects another block than 1, which makes blocks count as
acknowledged that it never had. So `ChargeInv` bounds the retries used up, and
the one that is bound to come (`Due`), by losses and reports, or by losses and
one contact. The other parts say that no block is empty (`FilledInv`), that the
controller's numbers begin at `Start` and an answer has a later one
(`StartInv`), and that the handler stays registered (`CallInv`). TLC
checked all of it on the run's instance and with more losses, reports and
retries before it was proved. The first hypothesis is sharp: with as many
losses as retries TLC finds that the call gives up. The second one is not
needed by the small instances that were tried.

**TrSync.** `StopInv` is the heart: until a controller stops, no timeout is
later than `Timeout` from now; from then on one that stopped holds the others
back (`HoldsBack`), because its last report is from before it stopped, and
everybody else's timeout is taken from the slowest *other* one. `TimersInv`
makes that bound hold for timeouts sent but not yet executed: those on a link
only grow up to `expire_clock` (`Ascending`). No assumption ties `Latency`,
`Report` and `MinExtend` to `Timeout`, and links may fail or lose what they
like. `AnswersInv` is why `stop` may trust its answers: a controller
acknowledges a question only after it has stopped.
`HomedInv` adds what the outcome rests on. Reports of a link come in order, so
none that a trsync works follows one that it has stopped (`LiveFirst`). A
trsync that stopped by itself says so twice before it acknowledges a question,
when it stops and when it is asked; `Missed` counts what is missing of the two
as long as an older report may still answer the question, and so `stop` takes
it for one that works only if both are lost. In the other direction the host
sends no trigger and ends no move before it has heard of a trsync that
stopped by itself, unless a link failed (`HeardInv`); that one's reason is the
answer `stop` gets, and `home_wait` does not overlook it. `HomedIsTrue` allows one
more loss than `HomingIsTrue`: with constants that let nobody time out
without a loss, that loss comes on top (see `NobodyTimesOut`), but
`HomingIsTrue` assumes nothing of the constants.

`NobodyTimesOut` is the one theorem about timing. What the host knows of a
controller is at most `Report + Latency` old; a timeout it has sent is less than
`MinExtend` short of what that allows; and the command takes another `Latency`.
So the hypothesis is
`2 * Latency + Report + MinExtend <= Timeout`, and it is sharp: with `Timeout`
one less, or `MinExtend` one more, TLC finds a false timeout.
The code's own numbers are `Report` = .3 and `MinExtend` = .24 of the timeout
(`mcu.py:198-200`), which leaves a link .23 of it, 11.5 ms of `TRSYNC_TIMEOUT`;
the instance of the run is exactly at the bound. The invariant, `PunctualInv`,
says that reports follow each other within `Report` up to the one that tells of
a stop (`Regular`, `Reporting`), and that every timeout, in force or under way,
lasts until the next command has had time to arrive (`Lasting`, `Ends`); TLC
checked it with one, two and three controllers before it was proved.

**JobQueue.** `LockInv` ties what the holder of the lock awaits to what it is,
`AnswerInv` ties Klippy's answer to the job in the lock, `PausedInv` says that
a paused queue has nothing in the lock that would set it going. Then
`NeverStranded`, `NoJobTwice` and the pause are inductive together. Most of
the proof is about `Ops`, the operations that hold or await the lock: acquiring
adds one, releasing hands on the oldest, and none is lost or repeated.

**KlippyConnection.** `ConnInv` says which of task, reader, writer and closer
can be active together; `EventsFollowTask` which event was sent last at each
await of the initialisation, and `Settled` what it is once that has ended: a
shutdown announced last is the state Moonraker has, and after "ready" or
"back" the state is not shutdown. So whoever calls `_process_status_update`
(`StatusSends`), a shutdown is announced only where the order allows it.
`RequestInv` adds that a subscription answered before the connection ended
finds no cache until the next one reads, so that it sends nothing in between.
For subscriptions the invariant is about the *last* request Klippy has been or
will be asked, `AskedForAll`: it names everybody in `subscriptions` and the
one who asks. Requests given up at a timeout are still taken by Klippy, in
order (`stray`); the lock's queue is without duplicates (`IsInjective`), as
front ends are not the task (`ClientsAssumption`).

**What stays with TLC.** Liveness under fairness (`RequestsComplete`,
`CancelStopsWork`, `EverythingPulled`, `NobodyWaitsForever`, `ExitEnds`,
`CallsReturn`, `Recovers`, `HomingEnds` and the liveness of `ImplementsChannel`) is out
of the prover's reach. Every invariant the runs check is proved, some of them
under hypotheses that the table states.

## Plan

1. `PrintJob`, `ReactorMutex`, `PrintStats` (done).
2. `SerialQueue`, `CommandChannel`, `SerialReader` (done).
3. `TrSync` (done).
4. `JobQueue`, `KlippyConnection` (done).
5. Proofs of the inductive invariants of `PrintJob`, `SerialQueue`, `TrSync`,
   `JobQueue`, `KlippyConnection` (done).
6. Proofs about naks, answers, notifications and `SerialReader`, and of the
   remaining safety properties of `PrintJob` (done).
7. `NoFalseTimeout` and `IdentifySucceeds` under inequalities between their
   constants, `BufferFits`, and the steps of `SerialQueue` as steps of
   `CommandChannel` (done).
8. Small modules: saved variables under crashes, print status stack, idle
   timeout with `ReactorMutex`, temperature waits.

## Not modelled

Kinematics, step compression, input shaping, bed mesh and other numeric code
(real arithmetic); sensor and display drivers; the compiled `box_*` add-ons and
the MCU images (no source); Moonraker's adapters to outside services
(simplyprint, spoolman, webcams, MQTT), its HTTP routing and file I/O; web
pages, assets and the extraction scripts.
