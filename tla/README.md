# A TLA+ verification project for rema_proxy

rema_proxy is the C++ program between a browser user interface and REMA, a
Cartesian robot that inspects the tubes of heat exchangers.  It serves a REST
API with restbed on a pool of worker threads, sends commands to the robot's
controller (the RTU) over one TCP connection, receives telemetry and logs over
two others, and keeps sessions, tools and heat exchanger data on disk.  The
page has, besides, a WebSocket of its own to a joystick server.

Paths below are relative to the repository.

## The system: parts, state, interactions

| part | source | state | operations | what is hard | what makes it correct |
|---|---|---|---|---|---|
| Sequence engine | `src/rema.cpp` 66-71, 204-321; `inc/rema.hpp` 31-43, 125-141 | `is_sequence_in_progress`, `cancel_sequence` (plain `volatile bool`), `telemetry` | `execute_sequence`, `execute_step`, `cancel_sequence_in_progress`, hard and soft stop, home, one command | threads poll and write two flags; exceptions between raising and lowering a flag; telemetry changes under the reader | a stop is final, one sequence at a time, a step is judged by its own telemetry |
| Movement requests | `src/restfull_api.cpp` 422-843 | the steps of a request, touch points, `retract_from_tubesheet_z` | joystick, incremental, go to tube, set home, tube centre, tubesheet z, stops, startup commands, connect | several engine calls per request, with gaps in between | no motion after a stop, home is set at rest, every request is answered |
| Command connection | `src/net_client.cpp`, `inc/command_net_client.hpp` | `socket_`, `is_connected`, `leftover_buffer` | connect, close, send, `get_response` | answers matched to commands by order only; lost connections | the answer is the command's own |
| Telemetry connection | `inc/telemetry_net_client.hpp`, `inc/watchdog_timer.hpp` | `is_connected`, `socket_`, condition variable, `resetFlag`, `pauseFlag` | connect, reconnect, loop, reset, resume, expire | three threads on one socket | silence is noticed, a live connection is left alone and read |
| Joystick socket | `wwwroot/js/websocket_client.js` | `socket`, `_pending`, `_reconnectTimer`, `reconnectAttempts` | connect, reconnect, send, events | events of old sockets, a server that takes one client | one socket, order kept, comes back |
| Joystick dialog | `wwwroot/joystick.html` | `moving`, `joystickPressed`, `document.mouseIsDown`, `keysPressed` | press, release, blur, keys, safety timer | releases that get lost, before or behind the socket | what is released stops |
| Tools and touch probe | `src/rema.cpp` 57-113, 324-398; `src/restfull_api.cpp` 156-233; `wwwroot/index.html` 184-223 | `tools`, `last_selected_tool`, `config.json`, the probe | ask, confirm, select, add, delete, restart | failure halfway, two pages, crashes | the probe is out only under its own tool, moves are announced |
| Session store | `src/session.cpp`, `src/main.cpp` 47-98, `src/upload.cpp`, `src/restfull_api.cpp` 240-420 | `current_session`, `is_changed`, session files | load, create, delete, mark, upload, remove a plan, periodic save | handlers and the periodic save share everything, unlocked | no mark is lost, no file holds another session |
| Alignment | `src/session.cpp` 207-294 | `is_aligned`, matrices | `calculate_aligned_tubes`, `transform_point_if_aligned` | stale after a load | the matrix is of the session's points |
| Charts | `src/chart.cpp`, `inc/active.hpp`, `src/rema.cpp` 138-181 | the active object's queue, the open file, the points | init, insert, close, list, load | work queued by one thread, files closed by another | a chart holds its own points, every change is recorded once |
| Event stream | `src/main.cpp` 34-98, `wwwroot/index.html` | `sse_sessions`, `hide_sent`, the page's dialog | register, tick, a stream that breaks | late subscribers, messages sent once | the page's dialog agrees with the connection |
| Page requests | `wwwroot/js/misc.js`, `wwwroot/js/ajaxqueue.js`, `src/main.cpp` 146-180 | `requestCallbacks`, the `fx` queue | `$.ajaxREMA`, `$.ajaxQueue`, answers, timeouts | answers in any order, found by an id | callbacks get their own answers, one queued request at a time |
| Log connection | `inc/logs_net_client.hpp`, `src/rema.cpp` 183-190 | `logs_vector` | loop, read and clear | | |
| Heat exchangers, pages, helpers | `src/HX.cpp`, `inc/svg.hpp`, `wwwroot` | files | parse, draw | sequential | |

How they interact: a page's request runs on one worker, which calls `REMA`
methods; these hold a mutex only for sending a command and receiving its
answer.  The telemetry thread replaces `REMA::telemetry`; handlers poll it.
The watchdog thread closes the telemetry socket, and any worker that serves
`REMA/connect` closes and opens both.  `event_stream_handler` runs every 100 ms
on the same pool, reads everything and saves the session.  Stops are sent by
the page beside its request queue, so that they run on another worker than the
sequence they stop.

The hazards, each with its source line and the properties that watch it, are
listed in `PROJECT.json`.

## Modules

| module | what it is |
|---|---|
| `Sequencer` | engine, movement requests and command connection: worker threads, one step for every access of a shared flag or of telemetry |
| `SequenceArbiter` | what the two flags are for, without threads, flags or a robot |
| `CommandChannel` | the command connection by itself: sockets, pieces of answers, the left-over buffer, the lock, reconnections |
| `TelemetryLink` | telemetry client, its loop, the watchdog and the connecting thread |
| `ToolChanger` | tool selection between page, server, RTU and `config.json` |
| `SessionStore` | `current_session`, the session files and the handlers |
| `DurableSessions` | what the session files are for: create, load, save and delete in one step each, a crash loses one file being written |
| `EventStream` | extends `SessionStore` with the periodic handler, its save, its messages and the pages that listen |
| `ChartRecorder` | the charts, the active object that writes them and those who read them |
| `PageRequests` | how a page sends its requests and finds their callbacks |
| `SerialQueue` | what `$.ajaxQueue` promises: calls take turns |
| `WebSocketClient` | the class of the joystick socket: one action per method or event |
| `CommandLine` | what that class promises: one line with one queue, whatever sockets it is made of |
| `Joystick` | extends `WebSocketClient` with the dialog: mouse, keys, focus |
| `MCToolChanger` | the same for TLC: tools are interchangeable |
| `MCTelemetryLink` | the same with the code's times, in ticks of a second |
| `*_proofs` | the theorems about the module of that name; `Joystick_proofs` has those of `WebSocketClient` too |

In a module, the definitions between the initial states and the actions are
variants with one defect each; every checked property has one that breaks it.

### Sequencer

`pc[w]` is where worker `w` stands, `job[w]` its request and locals, `results[w]`
the `execution_results` of its steps.  `isSequenceInProgress` and
`cancelSequence` are the flags; `telemetry` is the proxy's copy of the RTU's
state `rtu`.  A call of `execute_sequence` is `ClearCancel`, `RaiseInProgress`,
the halt before the steps (`SendHalt`, `HaltAnswered`), for every step
`SendMove`, `MoveAccepted` or `MoveRefused`, `Settle` (the 400 ms), `ReadProbe`,
`ReadCondition` and `ReadAbort` (one round of the polling loop: the touch, the
set point, then the faults and the cancel, 100 ms later), `StepCancelled` or
`StepExecuted`, `Rest` (250 ms), and at the end `LowerInProgress` and
`ResetCancel`.  A stop is `TestInProgress` and `RaiseCancel`, the two accesses
in the cancel loop, then `SendStop` and `StopAnswered`.  What a handler does
between calls, `TubeCenterReturn` and `TubesheetReturn`, is evaluated when a call
returns; it touches nothing shared except through the next command.
`tools_select` is here for its one or two `TOUCH_PROBE` commands, a refusal of
which lowers `is_sequence_in_progress` (`CommandAnswered`); what else it does is
`ToolChanger`'s.  `FlagKinds` are the requests that write that flag.

The command connection is `linkUp`, `cmdQ` and `respQ` (the wire, each way), the
client's `isConnected`, its left-over buffer `leftover`, and `reading`, the
workers that `recv()` has been entered by (`EnterRecv`).  An answer is taken from
the buffer or from what `recv()` brings, which may be several answers at once
(`TakeAnswer`).  The connection ends by itself (`LinkDrops`) or under
`REMA_connect` (`CloseLink`, `OpenLink`); a beginning of what was on its way may
still be read, and the left-over buffer stays as it is over both.  `Throw` is
`json::parse` on nothing, or on something that is no whole answer (a lost
connection cuts one in two, and so do two threads that read at once); it leaves
the flags as they are, as the code does.  External: the RTU (`Rtu*`).  That it
ends a move either by the probe or at the set point, never by both, is taken of
it and not of this code.

Abstracted: coordinates (a result says of which move its two flags and its
coordinates were), the axes (one pair stands for XY and for Z, a sequence stays
on one), the pieces of answers (those are `CommandChannel`'s), the wording of
answers.

`SequenceArbiter` promises that at most one `execute_sequence` call runs and
that a stop goes out when every call begun before it was granted has ended.
`Sequencer` implements it with the mapping `Arbiter` (`ArbiterSpec`): `running`
is the call that some worker is inside, `begun` the calls begun, `barrier` the
newest call that a stop has covered.

### CommandChannel

The connection that `Sequencer` has in whole answers, here in their pieces.  A
socket is a number, what it carries is pieces of answers, the last piece of each
ending in NUL.  A request is `Begin`, `Lock`, `Send`, then `get_response` as
`CheckConnected` (its test of `is_connected`), `EnterRecv` (`socket_` read for
the call of `recv()`), `Recv` or `RecvFails`, and `Scan` for the NUL and the
left-over buffer, then `Return`.  `"raw"` (`post_rema_method_handler`) holds
`rtu_mutex` until `Return`; `"exec"` (`execute_command`) gives it back in
`Send`; `"connect"` (`REMA_connect`) closes (`CloseFlag`, `Shutdown`), opens
(`Open`, `Established` or `ConnectFails`, up to three times) and sends the
startup command; `"settings"` (`network_settings`) sends without reading an
answer and opens a second connection without closing the first.  A socket that
fails is `"down"`, which the proxy can notice, or `"dead"`, which it can not.

### TelemetryLink

Three threads: `caller` (`REMA::connect`, `REMA::reconnect`), `loop`
(`TelemetryNetClient::loop`) and `watchdog` (`WatchdogTimer::watchdogLoop`).
`close()` is two steps, the flag and the `shutdown`, wherever it is called.
`unfed` counts the ticks since the last `reset()`, as history, up to one more
than the timeout.  The
wait on the condition variable is two steps as well, the test (`CheckConnected`)
and the blocking (`Park`), because `notify_all` is called without the mutex.
Time goes in ticks; a tick passes only when no thread has anything to do (a
thread blocked in `select()` excepted), so timeouts are compared with what they
race against and not with the scheduler.

### ToolChanger

`pick` holds the picks of the dropdown that are under way, each with its request:
nothing holds the dropdown while one is (`index.html` 184), so two picks, of one
page or of two, run on two workers.  A pick goes `Ask`, then `Decline` or `Post`,
then on the server `Select`, `Retract`/`Retracted`, `Choose`,
`Extend`/`Extended`, `OpenConfig`, `WriteConfig`.  The code between two RTU
commands is one step.  Opening `config.json` empties it and closing writes it, so
a crash in between leaves it `Torn`, from which the program does not start (main
looks for members of its content).  A failed touch probe command lowers
`is_sequence_in_progress`, which another worker may have raised: nothing here
reads it, and `Sequencer` has what comes of it.  `unsaved` and `stranded` are
history.

### SessionStore and EventStream

`current_session` is `name`, `data`, `is_loaded` and `is_changed`, `data` being
the tubes marked and, as history, the session the marks were made in.  Handlers
and the tick go through their writes in the code's order, one member at a time:
a load is `LoadData`, `LoadLoaded`, `LoadName` (`session.cpp` 37-40), a creation
`CreateOpen`, `CreateWrite`, then the members of the copy, `CreateName`,
`CreateLoaded`, `CreateChanged`, `CreateData`.  `Workers` is the pool, of any
number of threads.  A file is opened (it is then empty) and written in two
steps, with restarts in between; what two threads that write one file leave there
is either's data, what was there, or nothing of use (`Written`).  The empty name
has a file as well, `sessions/.json`.  `data` is read and replaced as a whole: a
mark made while a save walks over the tubes counts as made before it or behind
it.

`DurableSessions` knows nothing of that; the mapping `Durable` takes a
file that is open for what is about to be written to it (`Stored`), and a
session that is being created for the one in memory (`Session`).  `EventStream`
adds `Tick` (`event_stream_handler`: the
message from the state of the connections, then the save of `SessionStore`,
then `TickDone` and `TickSend`), `Register`, and the page: `Receive` shows or
closes the Connection Lost dialog, a stream breaks (`StreamBreaks`) and is
opened again by the browser (`Register`), a page is left (`LeavePage`).
`hide_sent` is what makes `HIDE_CONNECT` a message that is sent once.  `linked`
stands for the two clients' `is_connected` and is changed at any time
(`LinkChanges`); how is `TelemetryLink`'s and `CommandChannel`'s matter.

### ChartRecorder

`update_telemetry` is `Frame` (a frame has come), `CopyAxis` for each of the
three coordinates (`behind` are those still of the frame before), `Convert`
(until then they are raw), `ChartJoystick` and `ChartCoords`; the last two push
messages, and the `notify_one` of `Active::send` is a step of its own (`Notify`).
The active object's thread is `Sleep`, `Take`, `RunInit`, then for a point
`PushAxis` (x, y) and `RunInsert` (z), each reading what stands there at that
moment (`taken` is what it has so far), and `WakeAnyway` for a spurious wake-up.
Handlers push an init (`ChartRequest`), or close the current chart and read the
points in their own thread (`ReadChart`, `LoadFromDisk`, `LastChart`); two that
only read the last chart do not disturb each other.  Coordinates are numbered;
`book` is what went to files.  Messages and points carry, as history, the number
`no` of the change they are of.  A behaviour stops at `overlapped`: two threads
have then been in vectors and a stream that have no lock, one of them writing,
and what comes of that is not defined.

### PageRequests

`AjaxREMA` registers the callbacks under `Date.now()` (`clock`) and sends;
`AjaxQueue` puts a function on the `fx` queue, whose sentinel (`InProgress`)
marks a request under way.  `Dequeue`, `Done`, `Load` and `Timeout` are the
parts of jQuery that this rests on: `.queue()`/`.dequeue()`, `done()` of
`$.ajax`, and the events of the xhr transport.  `CallNext` is the `setTimeout`
after which the queue goes on.  On the server, `ServeREMA` answers with the id
it finds in `request_id` when the body has come, which for a body behind its
headers is whatever stands there by then; `ServeREST` answers the others or
leaves them.  The mapping `Serial` to `SerialQueue` takes the functions behind
the sentinel for the calls that wait, and a call for under way from `$.ajax`
until its `next()` has run (`UnderWay`).

### WebSocketClient and Joystick

A page's event handler runs to completion, so an action is a handler with all
it calls.  `readyState` belongs to the browser; the name of a `CLOSED` socket is
used again for the next object, since a closed socket fires no more events.
`replaced` holds the sockets that carry the close listener `connect()` adds; in
the page's use, where only the constructor and the timer call it, it stays empty.
The server opens one socket at a time.  `sent` numbers the commands, as history.
`Joystick` adds the page's variables and what the operator really holds
(`mouseHeld`, `keysHeld`), with releases that the page does not see.  All
directions are one command, `"go"`; `"SS"` stops.  `EmergencyStop` ends a move
for the page without an `"SS"`, its stop being a REST request (`joystick.html`
194-205); `overruled` is the last command sent when it did.  `SafetyTimer` is the
interval of 200 ms (351).  `dropped` is the last command `send()` dropped, as
history.  `JoystickInit` is any moment at which the page makes its client, with
something pressed or not.  The mapping `Line` to `CommandLine` reads the state of
the socket in use, or of the timer when it is closed (`LineState`), and puts what
waits in `_pending` behind what the socket carries.

## Runs

Passing runs, with their bounds:

| run | asks | bounds and why they are enough |
|---|---|---|
| `stops` | types, stops are final, at most one move after a cancel, a stop gets its command out, the engine implements `SequenceArbiter` | 2 workers, 2 requests: the tubesheet search, whose four calls have one and three steps, and a hard stop, or two stops: every race of the flags has a sequence and a stop in it, and the stop may come at any point of any call; more of either is left to the theorems |
| `alone` | a step's results are its own, home is set at rest, only an exception leaves the flag up, requests are answered | 1 worker, 3 requests of every kind one after the other, the 3 points of the code, a connection that is lost at any step and made again: a lost command, an answer read from the connection that has ended, the reconnection and what the next request finds |
| `channel` | an answer is its command's own; a command that is out comes back | 2 threads, 3 requests of any kind, 2 sockets, answers in 2 pieces: a left-over piece of the first socket, a second command beside the first, and a third on what they left |
| `telemetry_silence` | patience of the watchdog, its deadline, and that it meets it | the code's 2 s timeout and 5 s `select()`, in ticks of a second; 2 reconnections |
| `tool_select` | the probe is out only under its own tool, the selection outlives a restart | 3 tools: from, to and one being edited; every assignment of kinds; one pick at a time; crashes at every step |
| `events` | types, marks are saved or flagged, the handlers implement `DurableSessions`, marks reach the file, the dialog goes away | 1 thread, 2 sessions, 2 tubes, 4 requests, restarts between any two steps: enough to leave a session with a mark in it, go on with another and come back; 1 page with one message on its stream, that subscribes early or late, breaks and comes back |
| `charts` | charts do not mix, every move is recorded once, messages are served | 2 handlers, 2 requests, 2 frames of three axes: a move in one chart, an init, a move in the next; a point read while the next frame is copied; a chart closed between them |
| `requests` | callbacks get their own answers, the queue holds back and drains, and implements `SerialQueue` | 2 calls of `$.ajaxREMA`, in the same millisecond or not, and 3 of `$.ajaxQueue`, one of them without a timeout: one on the server, one given up, one behind |
| `joystick_page` | one socket, recovery, late moves are stopped, the class implements `CommandLine` (order, no reconnection beside a live socket) | mouse and 2 keys, 3 presses, each with its release, without it or with an emergency stop, 2 sockets, connections that fail at any time, 2 attempts: the counter resets and runs out |

Runs that end in a violation show where the code does not do what the
repository says of it.  Each is a finding in `PROJECT.json`, with the line
quoted:

| run | what happens |
|---|---|
| `retract` | the move to the tubesheet fails and the retraction is computed from an unassigned variable |
| `telemetry_wakeup` | a reconnection falls between the loop's test and its wait, the notification is missed and the telemetry is not read |
| `joystick_timer` | an arrow is pressed and its release goes to another window: the safety timer, which is there "for stuck state", runs for ever and forces no release, since the `document.mouseIsDown` it looks at is taken down by that release only |

Symmetry is used in `tool_select` only, which has no liveness, over the tools,
none of which an action singles out.  Deadlock is not checked: requests, presses, frames and
reconnections are bounded, so a behaviour ends when they are used up, and the
program itself rests when nothing is asked of it.

### What the passing runs assume, and what happens without it

* `SequencesQueued`, in the runs of `Sequencer`: of the requests that write
  `is_sequence_in_progress`, one at a time.  Nothing makes it so.
  `determine-tubesheet-z` and the set-home requests go through `$.ajaxQueue`;
  `determine-tube-center` does not (`cal_points.html:327`, `joystick.html:464`),
  nor does `tools/select`; a queued request that times out after 50 s is still
  served while the next one goes out (`QueueHoldsBack` has that exception); and
  there may be two pages.  `execute_sequence` tests nothing before it raises its
  flag, so a second sequence clears the cancel of the first, and a refused
  extension or retraction of the probe takes the flag of a running sequence down
  (`rema.cpp` 385, 394).
* `TelemetryTimely`: a sample comes within the 400 ms.  With a later one a step
  is judged by the flags of the step before it.
* `LinkMayFail = FALSE` in `stops`.  With it, a lost answer throws out of
  `execute_sequence` with `is_sequence_in_progress` still up, and every later
  stop waits for ever.  `StopIsSent` and `RequestsAreAnswered` except that, and a
  worker whose answer another one has read (`shared`); `alone` has
  `LinkMayFail = TRUE`, and `OnlyExceptionsLeaveItUp` says that an exception is
  the only way there.
* `alone` has no other command on the connection.  `go_to_tube` and
  `set_home_*` do not stop a running sequence; the other moves do
  (`restfull_api.cpp` 489 for the joystick).
* `channel`: one thread connects at a time.  `AnswersAreTheirOwn` ends its claim
  once two commands were out together (`shared`), which `execute_command` lets
  happen.  `CommandsReturn` excepts those, a connection that is dead, and a
  thread that has come to read another socket than it sent on: that one waits
  for somebody else's answer, and in `post_rema_method_handler` it waits with
  `rtu_mutex`.
* `joystick_page`: only the constructor and the timer call `connect()`, as in
  the page; beside an open socket the class would make a second one.
  `LateMovesAreStopped` excepts a move whose stop `send()` dropped, and one given
  to `send()` before an emergency stop: the queued move then goes out on the next
  socket with nothing behind it, and the release that follows sends nothing.
* `tool_select`: one pick at a time, and tools in use are not edited; the
  code ensures neither, and without them the probe comes to be out under another
  tool.  `ProbeFollowsTool` excepts what follows a crash that cut a selection
  short.
* `events`: a pool of one thread, where no handler begins while another is under
  way.  On two, a save between the two halves of a load writes one session into
  the other's file, and a tube marked between a save and its `is_changed = false`
  is neither saved nor flagged; the theorems name these overlaps and allow all
  others.  `MarksReachTheFile` excepts a session left before its tick
  and the time in which no page listens, when the handler returns before the
  save.  `DialogCloses` excepts a page whose stream broke under the dialog: it
  has missed the one message that closes it.
* `charts`: nothing is claimed once two threads have been in the chart's data at
  once.  A recorded point may be in the machine's raw coordinates, and its axes
  may be of different frames, since the message holds a reference and
  `update_telemetry` writes there axis by axis and converts afterwards.  A chart's
  file is taken to be its own, though two of one type begun in the same second
  share a name.
* `requests`: `CallbacksAreTheirOwn` excepts calls of one millisecond, which
  share an id, and ids that answers to late bodies carried; `QueueDrains`
  excepts a call that waits for ever because a request without a timeout is under
  way for ever, and no shorter wait.

### Fairness

Every assumption is about somebody the code or its platform does run:

| module | fair | because |
|---|---|---|
| `Sequencer` | each worker; the RTU, as one: it handles the commands that reach it, ends its moves or faults, sends telemetry | threads are scheduled; the RTU has its own timeouts and faults for a move |
| `CommandChannel` | each thread; the RTU answers what has reached it, on one socket or the other | the same; nothing is assumed of a dead connection |
| `TelemetryLink` | the three threads and time | the RTU is not assumed to send |
| `EventStream` | each worker's steps, the tick among them; a page takes what is on its stream | requests cease (they are bounded), so weak fairness of the pool's steps is enough |
| `ChartRecorder` | the active thread; the `notify_one` of each sender | telemetry and handlers need not come |
| `PageRequests` | a browser ends a call whose answer has come or whose time is up, and runs its timers | the server is not assumed to answer |
| `WebSocketClient`, `Joystick` | the browser brings opening and closing sockets to an end and runs its timers, the safety timer among them | the operator need not do anything; `Reconnects` asks for a connection or the end of the attempts |

## Theorems

All are proved with TLAPS for every value of the constants.  Where the code has
no lock, a theorem names the overlaps it excludes instead of a number of threads
or pages:

* `SequencesQueued`: of the requests that write `is_sequence_in_progress`, one at
  a time;
* `OneAtWork`: of the handlers past their cancel loop, one at a time (any number
  may be in their loops and cancel), and with it `TelemetryTimely`;
* `SwitchesAlone`: while a load or a creation is under way no other thread marks,
  uploads or saves (any other handlers, and the tick that has nothing to save,
  may run);
* `Apart`: besides, no two saves overlap, and no mark falls between the tick's
  save and its `is_changed = false`;
* `OneHandlerAtATime`, for `StoreImplementsDurable` alone: no handler of the
  session and no tick begins while another is under way.  Atomicity needs that
  much: a mark made beside a save is in the file or not by where the save has
  come to;
* `OneSelecting`: one selection at a time past its first test, whatever other
  picks there are, and `~EditsInUse`.

`SequencesQueued`, `TelemetryTimely` and `~EditsInUse` are conditions on the
constants; the other assumptions are the modules' `ASSUME`s.  None of the
hypotheses is kept by the code: each is where the program needs a lock, or an
order of requests, that it does not have.  All theorems hold over lost and
renewed connections.

| theorem | says |
|---|---|
| `TypeCorrect`, `ChannelTypeCorrect`, `LinkTypeCorrect`, `ToolsTypeCorrect`, `StreamTypeCorrect`, `PagesTypeCorrect`, `ChartTypeCorrect`, `ClientTypeCorrect` | the types of every module, with any number of workers, pages, calls and sockets |
| `SequenceInvariant` | `SequenceInv`, the inductive invariant, given `SequencesQueued` |
| `StopsAreFinal` | no call begun before a stop passed its loop still runs when the stop has gone out |
| `CancelsAreNoticed` | a cancelled sequence of any length sends at most one more move |
| `EngineImplementsArbiter` | every step of the threads is a step of `SequenceArbiter` or a stutter |
| `ResultsAreTheSteps` | with one handler at work and timely telemetry the two flags and the coordinates of every step are of its own move, over cancels, lost connections and reconnections too |
| `HomeAtRest` | then home is set while no axis moves |
| `FlagIsNotLeftUp` | `is_sequence_in_progress` comes to be up with no call under way by an exception out of a call and by nothing else, with any number of workers, sequences and selections beside each other, over lost and renewed connections |
| `AnswersBelong` | `get_response` returns nothing or the whole answer to its caller's command, over any reconnections, until commands go out beside each other |
| `AnswersAreAwaitedForAReason` | a thread that waits in `recv()` for its own answer, on a connection that is up, has its command before the RTU or its answer on the way |
| `WatchdogPatience` | the watchdog closes only after a whole timeout, for every timeout |
| `SilenceIsNoticedInTime` | beside an open connection there is never more than a timeout without a reset, for every timeout and any reconnections |
| `ProbeIsUnderItsTool` | with one selection at a time, of any number of picks from any number of pages, the probe is out only under a touch probe tool, over crashes that cut no selection short |
| `SelectionSurvives` | then `config.json` holds the selection when none is under way |
| `FilesBelong` | while loads and creations are alone (`SwitchesAlone`) every file holds its own session, on any number of threads and with the tick beside the handlers |
| `MarksAreNotForgotten` | while, besides, saves and marks are apart (`Apart`) every mark is in its file or flagged when no handler is at work |
| `StoreImplementsDurable` | with one handler at a time every step of the handlers, the tick and a restart is a step of `DurableSessions` or a stutter |
| `HideIsNotForgotten` | a page that has seen the dialog open has the message that closes it on its stream or still to come, on any number of threads, unless its stream broke |
| `CallbacksBelong` | callbacks are called once at most, with their own answer, but for shared ids |
| `QueueIsSerial` | two queued requests are on the server only when the page gave one up |
| `QueueImplementsTurns` | every step of the page is a step of `SerialQueue` or a stutter |
| `ChartsKeepTheirPoints` | a chart put away holds points of its own movement, but for those recorded while none was open |
| `MovesAreRecordedOnce` | every change of the coordinates leaves one point, in order, none lost or twice, none of its axes older than the change, over charts put away |
| `WakeupsAreNotLost` | the active thread does not sleep beside a message whose sender has nothing more to do |
| `OneSocketAtATime`, `ReconnectsFromRest` | no two live sockets, no reconnection beside a live one |
| `QueuesAreInOrder`, `OrderIsKept` | queues are in the order of sending, and the server takes commands in it, none twice |
| `StopsFollowMoves` | a move taken when nothing is pressed has its stop behind it, unless that was dropped or an emergency stop was made after the move |
| `SocketImplementsLine`, `DialogHasALine` | the class, alone and under the dialog, implements `CommandLine` |

The argument for stops: `OverruledCallsAreOver` is not inductive.  A stop that
leaves its loop has seen the flag down once; that this means all earlier calls
have ended needs the flag to be up inside every call, and the stop's note of the
calls begun (`passed`) to be older than any call that runs at its sending.
`CallState` says so for every worker, `OneSequence` that only one sequence
request is under way, and `late` ties the moves sent under a cancel to the test
that ends the call.  `SequenceInv` puts these together; each action has its
step in the proof, and the four properties follow from it.

The argument for results and home: with one handler at work the connection
carries the command it waits for, or the answer to it, and nothing else
(`ConnectionInv`); the others are in their cancel loops, where they send nothing
and at most raise `cancel_sequence`.  So `recv()` never brings more than the one
answer and nothing is left over for a later command, and a lost connection takes
the command with it and leaves at most its answer for the one who waits for it,
before another connection is made.  Once its move is accepted the robot is at the
worker's step, after the 400 ms the telemetry is, and what was read of it is
(`MoveInv`).  A step that counts as executed has seen the end of its move, and
only a call whose last step was executed goes on to set home; hence nothing moves
then.  `ResultsInv` counts the results up to the step the worker is at.

The argument for the flag: a worker that leaves a call lowers the flag in the
same step, unless it leaves by the exception of an answer that did not come or
does not parse; and the flag is raised by nobody but a worker inside a call.  So
the step by which the flag has lost its owner is that exception.  This needs no
invariant beyond the types and holds with any number of sequences at once, where
the flag may be down inside a call, but not up outside one.

The argument for answers: what is left of an answer lies in up to five places,
the RTU, the socket, `buf`, the left-over buffer and the thread's `response`.
`ChannelInv` says that, until commands share the connection, one command is out,
its thread holds the lock or no other has sent since, and the parts in these
places follow one another (`PartsFollow`); that a socket whose command is
answered or which was left is quiet (`SocketIsQuiet`), and so is the client's
socket while it is not connected and nobody connects (`NotConnected`).  An answer
cut short leaves a rest behind, but it is dropped with the failed `recv`, which
is the case the invariant turns on.

`AnswersAreOnTheirWay` is the other half: nothing of these parts is missing.  The
parts of the command's answer that are still to come, added up over the five
places, make a whole (`Complete`), so a thread that has come to `recv()` without
the NUL has the rest in front of it (`OnItsWay`).  The exception is a command
sent while another thread's `close()` is under way, which may go behind another
answer: its thread finds `is_connected` down and does not come to `recv()`.

The argument for the watchdog: `unfed` counts the ticks since the last reset and
`waited` those since the wait began.  If there is no reset outstanding, the wait
began no later than the last reset was noticed, so `waited <= unfed`; at expiry
`waited` is the timeout.  For that a pending `resetFlag` has to be accounted
for, which is the case the code's predicate in `wait_for` is about.

For the deadline the inequality is needed the other way round: `waited = unfed`
while it waits (`WaitIsSinceReset`), so the timeout is not passed unnoticed, and
it is not paused beside an open connection (`ConnectionIsWatched`): it pauses
itself when it closes one, and `connect` and `reconnect` resume it for the next.

The argument for the probe: the selection order is the proof.  A probe that is
out belongs to the selected tool until it has been retracted (then `choose` may
change the tool), and it goes out only when the new tool, a touch probe, is
already selected.  The invariant says at each place of the request where the
probe is (`ProbePlaced`), which tool it goes back to (`PrevNoted`) and what the
file holds (`Saved`); the last is what makes a restart after a crash come back
to the tool of the probe.  All other picks stand before the first test of their
request (`Aside`), where nothing of this is said of them.

The argument for files and marks: `NamesInv` says of every place of a load, a
creation and a save whose data the memory and the file hold.  Between the two
halves of a switch the data in memory belong to one session and the name to
another, and only a save, an upload or a mark would carry that further; these are
what `SwitchesAlone` keeps away, whatever else runs.  `MarksInv` says that the
marks of the loaded session are in its file, or flagged with no save about to
take the flag down, or that somebody is about to flag or to save them: one saver
at a time is needed since the second would read the flag as the first's, and no
mark may fall where the first is about to clear it (`Apart`).

For the refinement the step that opens a file, or copies the first member, is the
abstract step, and those behind it change nothing that `Stored` and `Session`
show.  A restart in the middle makes the one file that was open empty.

The argument for the dialog: a tick takes `hide_sent` down with a message that
opens the dialog and up with the one that closes it, which stands in `res` until
it is on every stream (`HideInv`).  Messages on one stream keep their order, so
behind a `SHOW_CONNECT` there comes its `HIDE_CONNECT`, or `hide_sent` is still
down.  This asks nothing of the number of threads: one tick is scheduled when
the one before is over (`TickInv`).

The argument for callbacks and the queue: an entry of `requestCallbacks` is of a
call with that id, and a call is answered once, even when its callback throws and
the entry stays; so an answer finds its own call or nobody (`CallbackInv`,
`ToldOnce`).  While the sentinel is at the head of the
queue, exactly one call is under way, waiting for its answer or in the
`setTimeout` behind it (`QueueInv`).  So the queue is empty exactly when no call
is under way, and what is behind the sentinel is what waits: a call that is
made begins at once or waits, and the end of one takes the next from the
queue in the same step, which is `SerialQueue`.

The argument for charts: messages are run in the order of their sending.
`QueueInv` says of every point in the queue that the last init before it, in the
queue, at work or done, is that of its chart; at the end of the queue that is
the newest chart.  So the chart that is open when the point is recorded is its
own or none (`PointsInv`), and goes to its file with it (`BookInv`).

For `EveryMoveIsRecordedOnce` all points lie in one line: the charts written, in
order, the chart open, the message at work and the queue (`OrderInv`,
`AheadInv`), and none is missing from it (`AllInv`).  A change joins it at the
end, every later step moves the boundary between two of its parts, and only
`overlapped` lets two threads move one at once.  A message is sent when its whole
frame has been copied (`CountInv`: an axis that is `behind` is of a change not
yet sent), and an axis never goes back, so what the message has read so far is no
older than its change and no older than any point before it (`TakenInv`).
Wake-ups: the thread goes to sleep on an empty queue, and what fills it
puts its sender into `notifying` until it has notified.

The argument for the joystick: the socket's client keeps the order of sending
(`ClientInv`); while the page has a move it has not stopped, something is pressed
for it (`PressInv`).  So when nothing is, every move was ended by an `"SS"` or by
an emergency stop.  A move still on its way has a stop of a higher number, which by
the order is behind it in the same queue or was dropped, or it is not newer than
the last move an emergency stop has ended (`StopInv`).

The argument for the line: the one socket that is not closed is the one in use,
and it carries nothing before it opens, when `_pending` goes out on it; so either
the socket carries everything or `_pending` does (`LineParts`).  An open socket
that closes takes what it carries with it, the line's `Break`; one that failed to
open leaves `_pending` for the next.  A closed socket has its timer set or no
attempt left.

These are the safety halves of what stays with TLC below: a wait has somebody to
end it (`OnlyExceptionsLeaveItUp` for `StopIsSent`, `AnswersAreOnTheirWay` for
`CommandsReturn`, `NoMessageSleeps` for `MessagesAreServed`, `HideIsToCome` for
`DialogCloses`, `SilenceHasADeadline` for `SilenceIsNoticed`, the states of
`CommandLine` for `Reconnects` and `QueuedGoesOut`, those of `SerialQueue` for
`QueueDrains`).  What fairness adds is that this somebody goes on.

Some of the theorems' invariants are not invariants of a run: `SequenceInv`
(whose consequences are), `AnswersAreOnTheirWay`, `HideIsToCome`
and `NoMessageSleeps` (a state that broke one of them would break the liveness
property named beside it), and `FilesKeepTheirSession`, `QueuesInOrder`,
`CommandsKeepOrder` and `NoReconnectWhileLive` (which the implementation of
`DurableSessions` and of `CommandLine` contains).

Model-checked only:

* liveness, which TLAPS does not do under fairness: `StopIsSent`,
  `RequestsAreAnswered`, `Reconnects`, `QueuedGoesOut`, `SilenceIsNoticed`,
  `MarksReachTheFile`, `DialogCloses`, `CommandsReturn`, `QueueDrains`,
  `MessagesAreServed`.  Neither are statements with `ENABLED` within its reach;
  the abstract modules are therefore implemented in their safety part only.  All
  invariants, action properties and refinements of the passing runs are proved.

No module that is proved about, or used by one, declares a `RECURSIVE` operator.

## Not modelled, and why

* Alignment (`session.cpp` 207-294): the ICP itself is numeric, of a library;
  what is left is a flag that one request sets and others read.
* The log connection: the telemetry loop without a watchdog; its lines reach a
  log file and a list.  Between the answer of `GET logs` and its
  `clear()` (`restfull_api.cpp` 889-892) a line may be lost.
* Parsing and drawing of heat exchangers, forms, tables and dialogs of the
  pages: sequential input and output.
* Torn reads of telemetry: a frame that is replaced axis by axis under its
  reader is in `ChartRecorder`, and the two flags of a step in `Sequencer`; half
  a `double` is not, and `SessionStore` has a session's data in one piece.
* The end of the program.  `Active`'s thread tests its flag with the queue still
  to come (`active.hpp` 17), and may not notice it; nothing is written then.
* Vendored code.  Nearly all JavaScript of the repository is jQuery and its
  plugins, and their logic is not this system's.  Of jQuery the `fx` queue, the
  completion of `$.ajax` and the xhr transport are modelled, since the request
  queue rests on them.
* Branches without a caller: `AjaxREMA`, `promise.abort`,
  `WatchdogTimer::pause`, the release of a home image (`stop(forced)` of the
  joystick dialog: those images do not have the class that the `mousedown` handler
  binds), and `connect()` on a live joystick socket, which only the class allows.

Small things met in reading and left aside: the probe goes from one probe tool
to another without the warning (`rema.cpp` 327); `index.html` 195 goes on to
select after it was refused; `determine_tube_center` takes its centre from the
coordinates of before the stop (`restfull_api.cpp` 649); the watchdog may expire
on the socket of a reconnection under way (`rema.cpp` 138); `plan_remove` and
`plan_get` do not set `is_changed` (`session.cpp` 92); a key released with the
focus elsewhere sends no stop (`joystick.html` 602).

## Plan

The parts whose behaviour depends on order, time or failure are modelled.  What
could come next, in this order:

1. Two connecting threads in `TelemetryLink` and `CommandChannel`.
2. `ToolChanger` composed with `Sequencer`, whose `tools_select` has of it only
   what the flag sees.
3. `PageRequests` composed with `Sequencer`, to say in one specification when
   `SequencesQueued` holds.
