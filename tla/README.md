# Formal models of the perception application

The repository is a C++ application around an Orbbec depth camera
(`perception_framework/`, with a few programs in `tests/`): it streams frames,
shows them in a window, runs inference and calibration on them, and is
controlled by a second process over two named pipes. What is hard in it is not
the image processing but what its threads do to each other: the main thread,
the receiving thread and the workers of the communication proxy, one detached
thread per hot-plug event, the reconnection worker, the window's thread, the
inference worker, a detached calibration thread and the SDK's frame callbacks
share state under several mutexes, or under none.

This directory holds TLA+ models of that concurrency, the TLC runs that check
them, and proofs that TLAPS checks. `3rdparty/` is vendored code and appears
only through what the application's code expects of it.

## 1. Inventory

Paths are relative to `src/perception_framework/`.

| Component | State it keeps | Operations | Talks to |
|---|---|---|---|
| Thread pool, `utils/ThreadPool.hpp` | `tasks_`, `stop_`, the workers, one mutex and one condition variable | `submit`, `enqueue`, `waitAll`, the worker loop, the destructor | owned by the proxy (three workers) and by the image receiver |
| Communication proxy, `com/CommunicationProxy.cpp` | `connectionState_`, `isRunning_`, the receiving thread, the pool, the callbacks | `initialize`, `start`, `stop`, `sendMessage`, `waitForConnection`, the receive loop, `processReceivedMessage`, `setConnectionState` | polls the transport, calls the callbacks of the state machine |
| FIFO transport, `com/FifoComm.cpp` | two descriptors, `partialData_`, `isConnected_` | create and open with retries, `sendMessage`, `receiveMessage`, `cleanup` | the kernel's pipes, the peer |
| System state machine, `core/PerceptionSystem.cpp` | `currentState_` (no lock), `isRunning_`, `shouldExit_` | `start`, `run`, `stop`, `setState` and one handler per state, the commands, heartbeats | starts and stops the streams and the proxy, reports to the peer |
| Device manager, `core/DeviceManager.cpp` | `deviceState_`, `currentDevice_`, `isReconnecting_`, `reconnectAttempts_`, `shouldStop_` | hot-plug handling, the reconnection worker, `waitForDevice`, `stop` | called by the SDK, calls the image receiver |
| Image receiver, `core/ImageReceiver.cpp` | `streamState_`, `pipelinesRunning_`, the pipelines, the frame maps, a pool, the window | `startStreaming`, `stopStreaming`, `onDeviceStateChanged`, the frame path, `run`, `cleanup` | between the SDK, the device manager, the window and the state machine |
| Inference manager, `inference/InferenceManager.cpp` | a bounded queue, a worker, the engines, the statistics, a frame counter | `initialize`, `loadModel`, `processFrame`, `runInference`, `runInferenceAsync`, the worker, `stop` | fed by the frame path |
| Inference engine, `inference/ONNXInference.cpp` | a model and its type | `initialize`, `infer` with its postprocessing | called by the manager under its lock |
| Calibration manager, `calibration/` | `state_`, the collected points, the progress callback | `startCalibration`, `processFrame`, `stopCalibration`, a detached computation | fed by the frame path, calls back the state machine |
| Render window, `utils/CVWindow.cpp` | frame groups, `closed_`, a processing thread | `pushFramesToView`, `processFrames`, `close`, `reset` | fed by the image receiver, shown by the main thread |
| Remote control, `tests/StateControlTester.cpp` | `isConnected_`, heartbeat times | commands, heartbeats, connection check | the peer at the other end of the pipes |
| Dump, `core/DumpHelper.cpp` | settings, one format filter, files | `processFrame`, `save` per frame type, metadata | called for every frame, by any pool thread |
| Configuration, `config/` | one section of fields per part of the system | load, save, defaults | everybody |
| Serial transport and session, `com_qs/` | a descriptor, a reading thread | a separate experiment, not used by the application | |
| Metadata, logger, `main.cpp` | files, a log | I/O, formatting, the signal handler | everybody |

How they interact: `main()` initialises the proxy and the state machine and
calls `run()`. The receiving thread polls the transport; heartbeats are
answered on that thread, commands by the pool, and both under one
`callbackMutex_`. A command calls `setState()`, whose handler starts or stops
the streams, or stops the whole system, while the main thread is in `start()`,
in its loop or in `stop()` itself. Hot-plug events arrive from the SDK at any
time, race the reconnection worker for the device, and call the image receiver
from whichever thread changed the device's state.

What is hard, and what correct means:

- *Pool.* Workers, notifications and the destructor interleave. Correct: tasks
  start in the order they were accepted, each is run once, no wake-up is lost,
  `delete` drains and returns.
- *Proxy.* Ordering of commands, stop from inside a callback, connection state
  written by three threads. Correct: what was received before `stop()` is
  handled before the pipes close, nothing looks connected afterwards, nobody
  waits for ever, the reordering of commands is bounded.
- *State machine.* An unlocked state, a nested transition, a start-up another
  thread can interrupt. Correct: the streaming state is RUNNING exactly in
  RUNNING; a SHUTDOWN is not undone; `stop()` ends the program; the peer is told
  the truth.
- *Device manager.* Hot-plug against retries against `stop()`, atomics beside
  a mutex, a camera that is there and refuses. Correct: once all is handled, state, device and pipelines agree with
  the bus; retrying ends; a waiter misses no device; `stop()` returns.
- *Image receiver.* Pipelines that two threads set up, start and stop without
  a lock; a pool that is fed faster than it works. Correct: the camera streams
  when it is asked to and only then; what waits for the pool stays bounded.
- *Dump.* One format filter, told what to do and then asked, by every pool
  thread. Correct: a saved picture has its colours.
- *Inference manager.* A bounded queue, a worker that sleeps, frames of several
  threads, statistics without lock, cleared one by one. Correct: every frame is
  accounted for, one in n is taken, what is queued is served, `stop()` and `initialize()` return.
- *Calibration manager.* A computation in a detached thread, which publishes
  its result in a second critical section; callbacks under the lock. Correct: a
  calibration ends with the result of its own frames, and nobody locks a mutex
  he holds.
- *Window.* A wait without predicate, a picture written by three threads.
  Correct: closing ends, and a window without signal says so.
- *Transport and client.* Two pipes opened in an order that deadlocks or fails
  half-way, lines cut by reads, processes that end and start again. Correct:
  lines arrive whole, a lost peer is noticed, the client learns the state.
- *Engine and configuration.* Ties and chains of overlaps; conversions in two
  directions, files that are torn or of the wrong type. Correct: suppression keeps
  the best boxes; what was saved is loaded whole or not at all.

## 2. The modules

| Module | Models | Notes |
|---|---|---|
| `TaskPool` | what the pool promises | abstract: queue, running, done, phase; two theorems about it |
| `ThreadPool` | `ThreadPool.hpp` | one action per critical section; `notify_*` are steps of their own, `parked` the threads asleep in `wait`, spurious wake-ups included |
| `MCThreadPool` | | model values for `ThreadPool` |
| `ThreadPoolProofs` | | theorems about `ThreadPool` |
| `CommProxy` | `CommunicationProxy.cpp` with the callbacks it is given | its pool is an instance of `TaskPool` |
| `CommProxyProofs` | | theorems about `CommProxy` |
| `PerceptionSystem` | `PerceptionSystem.cpp`: start, run, stop, setState, commands | the proxy and the receiver reduced to what the state machine sees |
| `PerceptionSystemProofs` | | theorems about `PerceptionSystem` |
| `DeviceManager` | `DeviceManager.cpp` with `onDeviceStateChanged` | hot-plug threads, worker, waiter, stopper |
| `DeviceManagerProofs` | | theorems about `DeviceManager` |
| `InferenceManager` | `InferenceManager.cpp` | frame threads, the worker, the caller of the API |
| `CalibrationManager` | `CalibrationManager.cpp` | one action per critical section |
| `FramePath` | `PerceptionSystem::processFrame` and what enables and disables its parts | composes `InferenceManager` and `CalibrationManager` |
| `FramePathProofs` | | theorems about `FramePath` and the two managers in it |
| `ImageReceiver` | the pipelines and the streaming state of `ImageReceiver.cpp` | two callers, one action per step of `setup`, `start` and `stopPipelines()` |
| `FrameDump` | `DumpHelper.cpp`: what is saved of a frame | one shared filter |
| `FrameTasks` | frame sets in `ImageReceiver.cpp`, serial or through the pool | extends `FrameDump`; its pool is what `TaskPool` allows |
| `CVWindow` | `CVWindow.cpp`, with its callers | the receiver's, the processing and the main thread |
| `FifoComm` | `FifoComm.cpp`: both ends of both pipes | kernel pipes as sequences of half lines |
| `RemoteLink` | what the pipes promise to the two programs | abstract: a queue of messages per side, who is present, whether the link is broken |
| `RemoteControl` | `StateControlTester.cpp`, and what answers it | extends `FifoComm`, implements `RemoteLink` |
| `RemoteControlProofs` | | theorems about `RemoteControl` and the pipes of `FifoComm` in it |
| `ONNXInference` | `ONNXInference.cpp`: what is made of a model's output | pure |
| `Config` | `ConfigHelper`, `ConfigParser` | field by field, with the type of each |
| `ComponentProofs` | | theorems about `ImageReceiver`, `FrameTasks`, `ONNXInference`, `Config` and the types of `CVWindow`; and about `MCComponents` |
| `MCComponents` | | one run for `ImageReceiver` to `Config`: extends five of them, instantiates the window |

`ThreadPool` implements `TaskPool`, so `CommProxy` uses `TaskPool` in its
place: its workers take, run and finish tasks as the refinement allows.
`FrameTasks` needs the backlog, which `TaskPool` does not have, and has a pool of
its own that is shown to do nothing else (`UsesTaskPool`).

### ThreadPool

`wpc`, `cpc` and `dpc` are the program counters of the workers, of the threads
that call into the pool, and of the destructor. `Park`, `WorkerExit` and
`TakeTask` are the three outcomes of the predicate at lines 36-46, each atomic
under `queueMutex_`. The caller's duty, which both owners of a pool keep, is in
the guards of `SetStop` and `Joined`: nobody is in `waitAll()` when the
destructor starts, and a `submit()` under way returns first.

### CommProxy

`rpc` walks the receiving thread through `messageReceivingThread()`, `spc` each
possible caller of `stop()` (the main thread, and a worker that handles
SHUTDOWN), `cbOwner` is `callbackMutex_`. A message is a number and a kind:
`heartbeat` (handled by the receiver), `command` and `shutdown` (by the pool),
`malformed` (throws). The kind is chosen when the line is read, since nobody
sees it before. `setConnectionState` stores in one step and notifies in
another (`owing`); the receiver reads `isConnected()` in one step and stores
the consequence in another. Locking `callbackMutex_` and the callback's
`sendMessage` are one step: nothing the properties see lies between them. What
the state machine does in a callback is in `PerceptionSystem`; here a callback
takes as long as it likes, and a SHUTDOWN's callback calls `stop()`.
`aborted` is `std::terminate`: a worker that joins itself in the pool's
destructor, or a main thread that leaves with a joinable thread.

### PerceptionSystem

Two actors: the main thread, and the handler of commands (one stands for all
workers, because `callbackMutex_` serialises them). `at`, `to` and `nested`
tell how far an actor is in its innermost `setState()`: read and test, write,
handle, report are four steps, because `currentState_` has no lock. A failed
stream start makes the nested call to ERROR, and its caller, when it resumes,
has only its own report left. `spc` and `mpc` are `stop()` and
`start()`/`run()`. `lastReport` is what was last handed to `sendMessage()`,
which may still drop it. `overlapped` is a ghost: two calls of `setState()` by
different actors have overlapped. Only `start()` can bring that about, since
commands exclude each other. `stream` is the receiver's `streamState_` as the
handlers leave it, not the pipelines, which start on CONNECTED in any state:
those are `ImageReceiver`'s.

### DeviceManager

Setters are the threads that call `setDeviceState()`: one per hot-plug event,
the reconnection worker, the caller of `stop()`. The exchange of the atomic
state, its announcement (which takes `deviceMutex_` for the callback's
argument) and the notification are three steps. A `stale` handle is one of a
camera unplugged since. The SDK may throw at every call of
`attemptConnection()`, before or after `currentDevice_` is set, and may not start
the pipelines, with a camera on the bus: `refused` keeps which of the two the last
attempt failed at. `crossed` is a ghost that records what nothing in the
code prevents: an announcement overtaken by another thread's, ERROR set over a
CONNECTED of an event, the device dropped while the worker connects it, an
event that arrives while another is handled. In each of them the manager can
end in a state that disagrees with the bus, and `SettledIsConsistent` is stated up
to the first of them: it is about events, retries and refusals in any order that
do not cross, and not a check of the crossings, which the code lets happen.

### InferenceManager, CalibrationManager and FramePath

A frame thread (`fpc`) increments the counter and reads it again in two steps,
because they are two atomic operations; then it chooses a model under `mutex_`,
and queues the frame under `queueMutex_` or infers itself. `worker` is
`asyncInferenceWorker()`: `deciding` is the place between the predicate and the
sleep, where it holds `queueMutex_`, which `stop()` does not take. `ctl` is the
one thread that calls the API; `loading` is `initialize()` inside its own
`loadModel()`, with `mutexHeld`. The ghosts `dropped` and `unmatched` say what
the counters of `stats_` leave out. An inference succeeds or fails.
`resetStatistics()` clears the counters one by one without a lock
(`ResetStatistics`, then `ResetNext` for each other one; `ctl` names the next),
and frames go on between the stores. A count made then of a counter that is
yet to be cleared is lost, and the balance of the statistics is off by one; the
ghost `strays` has their number. The total and the times are left out.

In `CalibrationManager` every critical section of `mutex_` is one action, which
is why the detached thread has two (`Compute`, `Finish`). Progress callbacks
run inside; `calStuck` is a thread that waits for the mutex it holds, as the
callback of `PerceptionSystem` would in COMPLETED if it were still registered
(each `startCalibration()` replaces it). A frame that does not convert, comes
too early or shows no board changes nothing, so it is not an action.

`FramePath` gives each frame to the one and then to the other, in the thread
that took it. The pairs of actions the code allows at once are interleaved.

### ImageReceiver

`handler` is the thread that handles a change of the system's state, `events`
the one on which the device manager announces a camera. Each goes through the
steps of `stopPipelines()`, `setupPipelines()` and `startPipelines()`, which
share `mainPipeline_`, `pipelinesRunning_` and `streamState_` with no lock.
The SDK may refuse any step, and a `setupPipelines()` that fails half-way may leave a
new pipeline behind. `PerceptionSystem` abstracts the handler's side
of this to a stream that starts or not; `DeviceManager` the events' side.

### FrameDump and FrameTasks

Each thread walks a frame through `DumpHelper::processFrame()`. For a colour
frame that needs converting it sets the one filter and calls it, in two steps,
twice: to RGB and to BGR. A filter set for something else refuses (and
`convertVideoFrame()` takes over) or makes something of it. `FrameTasks` feeds
the threads: the SDK's own, or the pool's through its queue, with the futures
`cleanupCompletedTasks()` drops or waits for.

### CVWindow

A picture is the number of the push it shows, or `NoSignal`. `proc` is the
processing thread, whose wait has no predicate: `enter` is between its test of
`closed_` and its sleep. The receiver sets the no-signal flag and writes the
picture in two steps; the main thread reads the flag in one step and, when a second
is over, makes the picture anew in another; then its loop shows what is there. ESC sets `closed_` and notifies; `Close` is the destructor.

### FifoComm and RemoteControl

A line is two halves, so that a read may end inside one; a write is atomic,
lines being shorter than `PIPE_BUF`. `stage` is how far a process has come with
its pipes: the server creates them, opens its inbound one blocking and its
outbound one without blocking, and on a failure closes and retries; the client
opens the same pipes in the same order. Writing to a pipe without a reader ends
the process (`killed`), since nothing ignores SIGPIPE. `RemoteControl` adds
what both programs do with lines: heartbeats (`PING`, answered by the receiving
thread with the state it read before), commands (handled by the pool, in any
order), status reports, the client's connection check. A process may end at any
time and a client start again.

`RemoteLink` has none of that: no pipes, halves, stages or retries, only
messages. What a side has yet to take (`chan`) is a queue; sending adds to it,
or fails, and whoever is away may lose what it has not taken. In the refinement
the queue of a side is what can be read from its `partialData` followed by its
pipe (`Stream`, `MessagesIn`). Its one flaw is stated as such: when a client has
gone with half a line in its buffer the link is `broken`, and clients after it
may be told anything (`ClientMisled`). `torn` is then allowed, and only then.

### ONNXInference and Config

Pure functions over small inputs. `applyNMS` goes through boxes in any order
`std::sort()` may leave equals in. `MaskShape` is the shape in which a mask is read
from the model's output; it is resized to the image afterwards.

`Config` has every field by itself, with the type that decides its conversion. A
JSON value is a kind and a content: an int of any width, a real, a string, a
Boolean, or anything else. `Accepts` is what `safeGetValue()` asks of a kind
(`isInt()` is true of a real without fraction, too, and of no int wider than 32
bits), `FromJson` and `ToJson` are the two conversions, and a logger's level is
an enumerator with a range check of its own. Reals are counted in halves (float)
and quarters (double), so that a double read into a float loses digits. A file has
fields, sections that are no objects (which throw in the middle of loading), or no
object at all; saving may fail to open the file, or leave a torn one, because
nothing checks the write. The text is jsoncpp's. Only
`tests/config_usage_example.cpp` calls the parser: the application runs on the
defaults and the assignments of `main()` and START_CAPTURE.

## 3. The runs

Deadlock is not checked: each of these systems may really stop (the pool
deleted, the proxy and the system stopped, no event left).

| Run | Bounds | Shows |
|---|---|---|
| `thread_pool` | 3 tasks, 2 workers, 2 clients | `WorkConserving`: a worker sleeps only if every queued task has an awake worker or a notification on its way. `RefinesTaskPool`. `EveryAcceptedTaskRuns`: except beside a `waitAll()` caller, which can take a worker's wake-up. `DestructorReturns`. |
| `comm_proxy` | 3 lines, batches of 2 (the code: 10), 2 workers (the code: 3) | `OvertakesOnlyInFlight`, `StopDrains`, `ClosedLast`; `MainStopReturns`, `HeartbeatHandled`, `WaiterReleased` under fairness. |
| `comm_shutdown` | the same | Violation of `ShutdownStopReturns`: see below. |
| `perception_system` | 4 commands | `StreamFollowsState`: of `streamState_`. `ReportFollowsState`. `ShutdownOutlivesStart`: with overlapping calls, too. `StopEndsMain`. |
| `system_shutdown` | the same | Violation of `ShutdownEndsMain`. |
| `system_report` | the same | Violation of `ReportsCurrentState`. |
| `device_manager` | 2 hot-plug events, 2 attempts, reconnection on | `NoMissedDevice`, `SettledIsConsistent`, `RetryEnds`, `StopGetsThrough`. |
| `device_stop` | no event | Violation of `StopReturns`. |
| `frame_path` | 2 frame threads, 3 frames, 1 model, a queue of 1, interval 2, 2 calibrations of 1 board, 3 calls of the API; inference or calibration configured | `FramesAccounted`, `EveryNthUnlessRaced`, `QueueServed`, `StopReturns`, `EndsWithItsResult`, `NoSelfDeadlock`. |
| `frame_init` | 1 frame thread, a default model | Violation of `InitializeReturns`. |
| `components` | see below | `StreamsOnlyAsAsked`, `CameraStreams`; `ColorsAreRight`, `BacklogGrowsSlowly`; `CloseReturns`, `NoSignalReturns`; `RefinesRemoteLink`, `ClientLearnsState`; `KeepsTheBest`; `SavedIsRestored`. |
| `pipe` | 1 client restart or command | Violation of `PeerLossIsNoticed`. |

`components` checks six systems that share no state, in one run: `focus`,
chosen at the beginning and never changed, says which of them runs in a
behaviour. Nothing is interleaved across them, because nothing in the code
connects what they model; the state space is the sum of theirs, not the
product.

Why the bounds are enough:

- Two workers and two clients let one worker sleep while the other runs and
  two notifications race; with three tasks the queue can hold more tasks than
  there are workers awake. The theorems remove the bounds.
- Three lines are a heartbeat and two commands, or a SHUTDOWN with one of each
  before or after it; batches of two make a full batch happen. The order of
  two commands needs two workers and no more. The theorems remove the bounds.
- Four commands reach every state from every other and come back, before,
  during and after `start()`. The theorems remove the bound.
- The camera is there at the start or not, and two events are an unplug and a
  plug in either order, or a reboot (one event that is both) before or after
  an unplug, each also in the middle of a retry; with two attempts a retry can
  fail, succeed the second time, and run out. The connection and the pipelines may be
  refused at each. The theorems remove the bounds.
- Two frame threads race in the counter; of three frames one is due, and with
  a raced counter two or none are. A queue of one is full while the worker has
  a task in hand. Three calls are a stop, a start and a reset or a load. The
  second calibration is the one an older computation can end. Both managers
  are checked in the composition, but one at a time is configured: they have
  no state in common but the thread that visits one after the other. The
  theorems remove the bounds.
- Five announcements and commands start, stop and restart the stream around a
  disconnection and a connection, each at every step of the other thread. The
  theorems remove the bound.
- Three sets of a colour and a depth frame, two pool threads, a limit of one:
  the backlog passes the limit, one set waits, and two threads use the filter.
  The formats are one the filter converts, one that is saved as it is, and one
  nobody knows. `ColorsRight` and `GrowsSlowly` remove the bounds.
- Two pushes, two times without signal and one spurious wake-up: a frame pushed
  before the signal is lost is rendered after.
- A pipe of three halves holds one line and has half of the next one's room; a
  second opening attempt is the last. One event is a command or a second
  client. The server's and the first client's end may come at any time, for
  free. `PipesAreALink` removes the bounds.
- Four boxes of which three are looked at, in a row where neighbours overlap
  by more than half and the outer two do not: suppression is not transitive,
  and chains of three happen in every order of scores, with ties.
  `TheBestAreKept` removes the bounds.
- A field of each type in three parsed sections, one in a section that is not
  parsed, each assigned one value besides its default (the first `int`
  and the last level among them; `MAX_INT` is 7); files with one key of any
  kind of value before or behind a section that is no object. Four calls: save,
  change, half load, load again. `RestoresSaved` removes the bounds.

The six violations are the places where the code departs from what the
repository says of it:

- **`comm_shutdown`.** A SHUTDOWN command runs `stop()` on a worker, inside a
  callback, with `callbackMutex_` held. `stop()` joins the receiving thread,
  which may be waiting for that mutex with a heartbeat: both wait for ever.
  Without the heartbeat the worker goes on to destroy the pool it belongs to,
  joins itself, and the program is terminated.
- **`system_shutdown`.** `start()` starts the proxy before it sets
  `isRunning_`. A SHUTDOWN handled in between finds `isRunning_` false, so its
  `stop()` does nothing; then the main thread sets `isRunning_` and loops for
  ever in the SHUTDOWN state.
- **`system_report`.** When the stream does not start, the nested
  `setState(ERROR)` reports before the `setState(RUNNING)` that called it: the
  last thing the peer hears is RUNNING.
- **`device_stop`.** `DeviceManager::stop()` announces DISCONNECTED with
  `deviceMutex_` held, and the announcement's argument locks it again: with a
  camera connected, `stop()` never returns.
- **`frame_init`.** `InferenceManager::initialize()` holds `mutex_` and calls
  `loadModel()` for a configured default model, which locks `mutex_` again.
- **`pipe`.** `FifoComm.cpp` handles a write that fails with EPIPE, but nothing
  ignores SIGPIPE: the process ends in the write.

What the passing runs assume away is in the properties, not in the models. They
are stated for what the code does keep, and each exception is a ghost variable
or a condition that names a line:

- `MainStopReturns` and `HeartbeatHandled` except beside a worker stuck in
  `stop()`, what `ClosedLast` says of the pipes except with a SHUTDOWN (whose
  `stop()` may find the pool taken by the main thread's, and then closes the
  pipes under running callbacks), `StreamFollowsState` up to `stop()` (a command that `stop()`
  drains may start the stream again), `StopGetsThrough` up to the announcement.
- `StreamFollowsState` and `ReportFollowsState` until two calls of `setState()` have
  overlapped. What may happen then is that `start()` writes RUNNING over a state
  it has not seen; `ShutdownOutlivesStart`, which excludes nothing, says what
  becomes of a SHUTDOWN: that one write may replace it, but its `stop()` is under
  way. The state may end as RUNNING; the main loop ends all the same
  (`StopEndsMain`).
- `SettledIsConsistent` until two threads have crossed, and a camera whose last
  connection failed may be there without being CONNECTED.
- `FramesAccounted` outside `resetStatistics()`, exact unless counts were lost
  between its stores, and then up to their number.
- `StopReturns` of the inference manager and `CloseReturns` unless the
  notification falls between a thread's test and its sleep (`missed`): in both
  cases the flag is set without the mutex of the wait, and the join hangs.
- `EveryNthUnlessRaced`: two threads between increment and test may both skip
  the frame that is due.
- `EndsWithItsResult` unless a calibration was started over a computation that
  was not over: it then ends in the state and with the result of the old one.
- `StreamsOnlyAsAsked` but for a camera connected since: `onDeviceStateChanged`
  starts the pipelines in any state, and `stopStreaming()`, content with IDLE,
  does not stop them.
- `CameraStreams` unless the SDK refused the start (which is only logged) or
  the two threads met in the pipelines.
- `BacklogGrowsSlowly` is the bound the code keeps; `ConfigHelper.hpp:102`
  calls the option the maximum number of queued tasks, which it is not: past
  it a set waits for one task and adds all of its own.
- `ColorsAreRight` but for frames given to a filter another thread had set.
- `RefinesRemoteLink` with a link that breaks when a client leaves with half a
  line in its buffer, whose other half the next client reads.
- `ClientLearnsState` says what heartbeats make good. The report of a change
  alone does not: the system sends `SYSTEM_` and the state, and the client
  looks for `CURRENT_STATE:`. Nor does the system send its state when a client
  connects, although the comment at `PerceptionSystem.cpp:725` says so.
- `KeepsTheBest` but for masks whose size is a square by accident.
- `SavedIsRestored` for the sections that are parsed: `communicationConfig` is
  neither saved nor loaded. A file that `saveToFile()` did not write may be half
  loaded.

### Fairness

Weak fairness nearly everywhere: a thread that can take a step and keeps being
able to is scheduled, and callbacks return. `std::mutex` is not fair, and weak
fairness does not make it so: a thread that waits for `callbackMutex_` is owed
it only when it is free from some time on. Nobody owes a submit, a line, a
command, a frame, a hot-plug event, a closed window, a `stop()`, a time-out, a
spurious wake-up, or the end of a process.

Strong fairness is stated twice, for what a clock drives. The main thread's
loop polls some ninety times a second and renews the no-signal picture once
a second: a poll that comes too early is a step of its own, so the renewal is
enabled again and again rather than all the time. The client's heartbeat thread
tries for ever; each attempt finds the pipe full or not.

## 4. What is proved

TLAPS checks the following for every value of the constants.

**`ThreadPoolProofs`**, from `NoTask \notin Tasks`, workers and clients
disjoint and finite, at least one worker:

- `TypesHold`: `Spec => []TypeOK`.
- `NoLostWakeup`: `Spec => []WorkConserving`. The inductive invariant is
  `TypeOK /\ ThreadsInStep /\ WorkConserving`. `ThreadsInStep` ties program
  counters to data (a parked worker is in its loop, one that has left did so
  with `stop_` set and the queue empty). The step is a counting argument: each
  action pays for the task it queues with a pending notification, and for the
  notification it consumes with an awake worker.
- `PoolRefinesTaskPool`: `Spec => RefinesTaskPool`. Initial states map to
  initial states; each action maps to the abstract action of its name or to a
  stutter (parking, notifying, `waitAll`).
- `TasksRunOnce`: `Spec => []Abstract!InOnePlace /\ Abstract!NoneIsLost`, as
  `TaskPool` has it.

**`TaskPool`**, from `NoTask \notin Tasks`, which `NoTaskIsFresh` says of
`ThreadPool` and which follows from the definitions in the other two:

- `EachOnce`: `Spec => []InOnePlace`. A task that was accepted waits, or is in
  the hands of one worker, or is done, never two of these, and nothing waits or
  runs when the destructor has returned.
- `NeverLost`: `Spec => NoneIsLost`. No step drops a task that was accepted.

They are proved once, of the abstract pool, and inherited by the three modules
that implement it: `TasksRunOnce`, `MessagesHandledOnce` and
`FramesProcessedOnce` cite them through the instance each module has of
`TaskPool` and the refinement that it proves. None of these
is a property of a run: TLC found `InOnePlace`, `NoneIsLost` and `UsesTaskPool`
true on the constants of `thread_pool`, `comm_proxy` and `components` when they
were stated, and they are theorems since.

**`PerceptionSystemProofs`**, from `MaxCommands \in Nat`:

- `TypesHold`.
- `StreamFollows`: between two calls of `setState()` the streaming state is RUNNING
  exactly in RUNNING, until `stop()` or an overlap.
- `ReportsFollow`: between two calls the last report names the state the system
  is in, or RUNNING in ERROR after a stream that did not start.
- `ShutdownStands`: `Spec => ShutdownOutlivesStart`. A state SHUTDOWN is written over
  only by the call of `start()` that tested the state before it was SHUTDOWN, and
  the `stop()` of that SHUTDOWN is past its guard by then, or will pass it:
  `isRunning_` is set and only a `stop()` clears it. No overlap is excluded.
  `StartInStep` says where the main thread is when it calls `setState()`,
  `ShutdownInStep` how far the handler of a SHUTDOWN must be while the state is
  there; one lemma for each kind of step (`ShutdownSetState`, `ShutdownStop`,
  `ShutdownMain`) shows that it keeps the second and does not undo a SHUTDOWN.

  The inductive invariant is `IInv`. No property is inductive alone: what
  is true between two calls is broken within one. `OneAtATime` says that
  without an overlap at most one actor is inside `setState()`; `CheckedMove`
  that what it has tested still holds when it writes; `StreamInStep` how stream
  and state are related at each place of the call, the nested one included;
  `ReportInStep` what each place of the call tells of the report to come;
  `StopInStep` that whoever is past `stop()`'s guard has left start-up behind,
  so that `start()` cannot set `isRunning_` again.

**`FramePathProofs`**, from `FramePathAssumption`: a finite set of threads, a
model `"default"`, none called `"none"`, positive queue size, interval and
number of boards:

- `TypesHold`.
- `FramesAreAccounted` (outside a reset, up to the counts the last one lost),
  `EveryNthIsTaken`, `ResultsAreOwn`,
  `NobodyBlocksHimself`: the safety properties of `frame_path`, for any number
  of threads, models, queue slots, calibrations and calls, and for systems with
  both managers configured at once, which the run does not reach.

  The inductive invariant is the conjunction of one part per manager, and each
  part is kept by its manager's steps: the lemmas `InfSteps` and `CalSteps`
  show that a step of the composition is a step of a manager or leaves it
  alone. `InfTypes` holds the types and `InStep`, without which
  `initialize()` could start a second worker while the first one has a frame
  in hand. `Accounts` is `FramesAccounted` in four columns (taken, done with,
  on the way, waiting), and `Balances` says that a step which moves one frame
  keeps it; how many are on the way is a cardinality, so `AmongMoves` says how
  it changes when one thread moves. `EveryNthUnlessRaced` speaks only of
  moments without a frame between the increment and the test; `Sampled` adds
  that there is at most one such frame, and that what was taken lags behind
  the counter by it. `OwnResult` adds to `EndsWithItsResult` that only the
  newest session's computation is outstanding, unless it was overtaken, and
  what the published result is before it is announced. `NoSelfDeadlock` needs
  `SystemCallbackIdle`: the callback that locks is registered only before the
  first session.

**`CommProxyProofs`**, from `BoundsAssumption`: at least one worker, a batch of
at least one line:

- `ProxyTyped`, `OnlyInFlightIsOvertaken`, `NothingDropped`,
  `ClosedAfterUse`: the safety properties of `comm_proxy`, for any number of
  lines and workers. The last one says, among others, that `Dispatch` is never blocked by the guard
  of `TaskPool`'s `Submit`, a guard the code does not have: that the pool is used
  as it may be used is a result, not an assumption.

  None is inductive. `Order` follows a command through the pool: the queue is
  sorted (`Sorted`), what has started is older than what is queued
  (`StartedFirst`), nothing is in the pool that was not read (`ReadBefore`), and
  nothing that was read is missing from it but what the receiver has in its
  hands (`Accounted`). An overtaken command is then in a worker's hands, and an
  empty pool has done them all. The rest is about `stop()`: who got past the
  join knows that the receiver is gone (`Joined`), the pool is empty when it is
  closed (`Emptied`), the main thread closes it (`ClosedByMain`), and without a
  SHUTDOWN nobody else is in `stop()` (`MainOnly`).
- `ProxyUsesPool`: `Spec => UsesTaskPool`. The proxy's actions borrow `TaskPool`'s,
  several of them at once with steps of their own; each is one step of the pool
  or leaves it alone.
- `MessagesHandledOnce`: so a message that was given to the pool waits, or is in
  one worker's hands, or has had its callback, and none is lost, whatever
  `stop()` does meanwhile and whoever calls it.

**`DeviceManagerProofs`**, from `ConfigAssumption`: at least one attempt:

- `ManagerTyped`.
- `NoWakeupLost`: `Spec => []NoMissedDevice`. The state is atomic and set
  without the mutex; what saves the waiter is that the announcement takes
  `deviceMutex_` for the callback's argument between the change and the
  notification (`Locked`, `ToldWaiter`). Without that the invariant does not
  hold, so the callback, which may look optional, is part of the protocol.
- `SettledAgrees`: `Spec => []SettledIsConsistent`. As long as nothing has
  crossed and `stop()` was not called, one event is handled at a time and its
  place tells what is on the bus (`OneEvent`, `OnTheBus`), one state is
  announced at a time and the pipelines have heard of the others (`Pending`,
  `Heard`), no handle is older than the event once the old one was dropped
  (`Dropped`), CONNECTED is not older than it once DISCONNECTED was set
  (`Lost`), and a camera that is there has been connected, or will be by the
  worker, or the last attempt at it has failed (`Arrived`).

**`ComponentProofs`**, four components that are small and share nothing:

- `ReceiverTyped`, from `ReceiverAssumption`: the bound on the calls is a number.
  The next two need nothing of the constants.
- `OnlyAsAsked`: `ReceiverSpec => []StreamsOnlyAsAsked`. Only the handler's place
  matters (`Asked`): what the other thread starts counts as replugged.
- `RunningStreams`: `ReceiverSpec => []CameraStreams`. Until the two threads meet at
  most one is at work (`Alone`), and each place of a start, a stop and a failed
  start says what has been done (`InStep`).
- `TasksTyped`, from `TasksAssumption`: the pool's threads are threads and one
  thread is not among them, a set has at least one frame and one of a type
  (by which the code, too, tells them: `frameMap_`), the limit and the bound are numbers.
- `ColorsRight`: `TasksSpec => []ColorsAreRight`, from nothing about the constants.
  Between the two calls of the thread that set `formatFilter_` last, the filter
  does what it was set to (`Mine`).
- `GrowsSlowly`: `TasksSpec => []BacklogGrowsSlowly`, from `TasksAssumption`.
  `Slow` is the bound at each place of the SDK's thread: one that waits has no
  more futures than the set before left (`Limit`), one of which is over when it
  goes on; one that submits has as much room left as frames to submit. What is
  left of a sequence of futures is a recursive function of it (`NotIn`), and
  that it is shorter the more is over (`LessIsLeft`) and by one longer for one
  more future (`OneMoreLeft`) is proved by induction.
- `ReceiverUsesPool`: `TasksSpec => UsesTaskPool`, from `TasksAssumption`. The
  queue is `pool`, what a worker runs is its `job`, what is done is `over` (unless
  frames are processed serially, when nobody uses the pool). Each frame has one
  thread at a time and the queue and the jobs hold frames of sets (`Busy`);
  whatever the pool was given lies before the set and the frame at hand
  (`Given`), so that no frame is submitted twice.
- `FramesProcessedOnce`: so no frame is processed twice, or by two of the pool's
  threads at once, and none that was submitted is lost.
- `TheBestAreKept`: `EngineSpec => []KeepsTheBest`, from `EngineAssumption`:
  boxes and confidences are numbers. What `applyNMS` has kept of the first k
  boxes (`KeptOf`, by induction on k) are some of them, none of which suppresses
  a later one; each of the others was suppressed by an earlier one that is kept.
  That the boxes are sorted makes the earlier one the surer one, and that two
  boxes suppress each other or neither the other (`SuppressesBoth`) makes the
  order of the kept ones irrelevant.
- `RestoresSaved`: `ConfigSpec => [](ConfigTypeOK /\ SavedIsRestored)`, from
  `FieldsAssumption`: every field has a type, its default and the values it is
  assigned are of it, foreign files are files, `MAX_INT` is at least the last
  level. The file and the configuration at the time agree, key by key, or there
  is no file to be read (`AsSaved`). That each kind is accepted where it was
  written and comes back is `RoundTrip`, type by type.

The two inductions are over sets of numbers: `Least`, from the well-foundedness
of `<` on the natural numbers, gives `Induct` (a set with zero and with every
successor has every number), and `Recursion` (a function can be defined by its
value at zero and at n by its value at n - 1) gives the recursive functions of
the model their equations (`NotInIs`, `KeepsIs`).

**`RemoteControlProofs`**, from `RemoteAssumption`: the initial state is one and
the commands ask for states, there is at least one try, the capacity of a pipe
and the bound on events are numbers:

- `PipesAreALink`: `RemoteSpec => RefinesRemoteLink`. The inductive invariant is
  `RemoteInv`, of `PipesSound` and `StatesTyped`. What a side has yet to take is
  a sequence of whole lines (`Straight`), until a client leaves with half of one
  or a side is killed; nobody but a side that has its pipes open, or died with
  them, holds part of a line (`Fresh`); only messages of the two programs are on
  the way (`PipesTyped`). From that each step maps to one of the link's or to a
  stutter: a write appends a message (`Appended`), a read takes none or the first
  one wherever it cut the pipe (`DropFront`, `FirstMessage`), and leaving clears
  both the buffer and the pipe of whoever has gone, or neither (`LeaveKeeps`).
- `NoTornLine`: `RemoteSpec => []LinesArriveWhole`, which the link does not say
  in so many words: a line that is not one is read only after a client has gone
  with half a line, not merely when one may.
- `RemoteTyped`: `RemoteSpec => []RemoteTypeOK`. `Limits` adds that a pipe never
  holds more than its capacity and that the server's last failed try is its end.

No induction is needed for lines: being a sequence of whole lines is a statement
about positions. The first of the places where a line may end (`FirstEnd`, a
`CHOOSE`) exists because `<` is well-founded (`Least`).

**`MCComponents`**, in `ComponentProofs`, from the assumptions above and
`WindowAssumption` (the bounds are numbers):

- `EachByItself`: a behaviour of the specification that the run `components`
  checks is one of `ReceiverSpec`, `TasksSpec`, the window's `Spec`, `RemoteSpec`,
  `EngineSpec` and `ConfigSpec` at once. This is what makes checking them in one
  run legitimate.
- `ComponentsTyped`: `FairSpec => []TypeOK`. The window's types are inductive
  (`WindowTypesKept`), the others are cited.
- `ComponentsAreRight`: all the run's safety properties, its refinement and
  `UsesTaskPool`, of
  the specification that is checked and for every value of the constants.

The inductive invariants of `CommProxy` and `DeviceManager`, and `Straight` of
`RemoteControl`, were checked by TLC before they were proved (with three lines
and two workers, two and three events, pipes of five halves and two events).

Only model-checked is liveness, which is out of the prover's reach: thirteen
properties, among them that a destructor, `stop()` and `close()` return, that
accepted tasks run and queued frames are served, that retrying ends, and that
the client learns the state. Every safety property, action property and
refinement that a passing run checks is proved.

## 5. What is not modelled, and why

- The signal handler of `main.cpp`: it runs `stop()` on an interrupted thread,
  with whatever locks that holds, and forces an exit after 800 ms.
- The ends of threads that nobody joins: `ImageReceiver::run()` is detached and
  cleans up while the process exits; the client's `q` leaves its heartbeat
  thread to `std::terminate()`; a detached hot-plug thread may outlive its
  manager. What happens then is up to the C++ runtime.
- Stopping and starting the application's parts again where it never does: a
  proxy that was stopped has lost its pool. (The inference and calibration
  managers can, and do in the model.)
- The IMU pipeline, frame profiles, performance statistics: written by one
  thread, read for the log.
- Pixels and numbers: layout and drawing in the window, preprocessing and
  classification in the engine, the calibration itself. Where an outcome
  matters it is a choice.
- Metadata, point clouds and IMU samples in files, logging, printing and range
  checks of the configuration.
- `com_qs/`: a separate experiment which nothing in the application uses.

## 6. Plan

Done, in this order: the pool with its abstraction, the proxy on top of it, the
state machine, the device manager, the first proofs; then the frame path with
inference and calibration, the image receiver, the dump, the window, the
transport with its client, the engine and the configuration; then the proofs
about the frame path, the proxy, the device manager, the image receiver, the
dump and the frame tasks, the transport and the link it implements, the engine
and the configuration, the run that has them together, and the pool's promises
in all three places that have a pool. Left:

1. Proofs: that `PerceptionSystem`'s stream is the handler's side of
   `ImageReceiver`.
2. `CommProxy` over `FifoComm` instead of the proxies `RemoteControl` reduces
   to two steps, and `ImageReceiver` under the real `DeviceManager`.
