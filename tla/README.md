# RealtimeSysRover in TLA+

A TLA+ model of the parts of RealtimeSysRover in which several threads meet,
the TLC runs that check it on small instances, and the theorems about it that
TLAPS proves for every value of the constants.

Paths below are relative to the repository; `tcp_server_lib.cpp` and the other
`*.cpp` of the library are in `src/realtime_sys_rover/`, the headers in
`include/`, the programs in `application/` and `examples/`.

## 1. The system

The computer on shore runs one of two programs. *Manual control*: a browser
talks to a WebSocket server, whose handlers translate each message to a JSON
command and put it into a queue; a communication thread takes the commands out,
limits their rate and broadcasts them over TCP to the rovers; camera frames
arrive by UDP and are shown. *Automated driving*: the same, but the commands come
from the UDP handler, which passes each frame to the object detector and the
latest detection to the autonomous driver.

| Component | State | Operations | Threads |
|---|---|---|---|
| TCP server (`tcp_server/tcp_server_lib.cpp`) | `_clients`, `_tasks`, flags, one socket and thread per connection | start, stop, setMessageHandler, writeToClient, writeToAllClients, handleDisconnection | acceptor, tasks thread, one per connection, callers |
| WebSocket server (`tcp_server/ws_server_lib.cpp`) | flag, acceptor, handler | start, stop, setMessageHandler | acceptor, one detached per connection |
| Safe queue (`safe_queue/safe_queue.hpp`) | a queue under a mutex | enqueue, emplace, dequeue | callers |
| Command relay (thread in `application/*.cpp`) | last message time | the loop: dequeue, limit, broadcast | one |
| Object detection (`object_detection/object_detection.cpp`) | newest frame and its flag under a mutex, detection and its time without | run, stop, addLatestFrame, getLatestDetection, drawDetections | detector, callers |
| Autonomous driving (`autonomous_driving/autonomous_driving.cpp`) | latest detection (unlocked), latest command (locked) | run, stop, addLatestDetection, getLatestCommand, geometry | driver, callers |
| UDP server (`udp_server/udp_server_lib.cpp`) | flag, socket | start, stop | receiver |
| Video viewer (`video_viewer/video_viewer.cpp`) | one frame and its time under a mutex | addFrame, display | callers |
| GUI helper (`helpers/gui_helper.hpp`) | none | message to command, joystick arithmetic | |
| Network and file helpers | none | length bytes, image decoding | |
| Web GUI, test clients, rover submodule | outside the C++ program (the submodule is empty) | | |

### How they interact

- The communication thread calls `writeToAllClients` while the acceptor thread
  appends to `_clients` and the tasks thread erases from it. Only
  `TCPServer::stop` takes a mutex around the list.
- A connection's thread that fails queues a removal task for itself, notifies
  the tasks thread and ends; the tasks thread closes, joins and erases it.
- The WebSocket handlers (or the UDP handler) enqueue, the relay dequeues.
- The UDP handler leaves frames with the detector, copies its latest detection,
  leaves it with the driver and copies the driver's latest command.
- At the end, `main` sets the relay's flag, stops the servers and joins the relay.

### What is hard, and what must hold

- *TCP server.* An unprotected list, raw pointers in tasks, two callers of
  `Connection::stop`, self-reported failures, a condition variable whose flag is
  set without its mutex, blocking accepts and reads that a close may not end.
  Tasks must name live connections, no thread may be joined twice or destroyed
  unjoined, messages must stay framed, failed clients must go, stop must return.
- *Relay.* A rate limit that drops commands must not lose or reorder a stop, and
  must limit the rate although its clock reading is old when it is used.
- *Object detection.* Time and detection are two writes read without the mutex;
  the flag is cleared late; the mutex is held for a whole detection; the same
  unprotected flag as in the TCP server. Returned detections must be sound and
  fresh, no frame lost, no handler starved.
- *Autonomous driving.* A test and a use of an unlocked optional; limits that are
  computed and discarded; a value that is repeated until a timeout.
- *Shutdown of the programs.* Which thread may still call what, and what the
  rover was told last.
- *UDP server.* One exception ends the loop; a close that must end a blocking
  receive.
- *WebSocket server.* Detached threads outlive the objects they refer to.
- *Viewer.* A frame that expires while a new one arrives.

`PROJECT.json` lists these hazards with their lines and properties.

## 2. Modules

| Module | What it is |
|---|---|
| `TCPServer` | the TCP server, its threads, the thread that broadcasts, and the peers |
| `Broadcast` | what the server promises its peers: whole messages, newer after older, until the connection is closed |
| `TCPServerProofs` | invariants, and that the server implements `Broadcast` |
| `CommandRelay` | queue, handlers, communication thread, end of main |
| `LossyChannel` | what the command path promises: an order-preserving channel that may drop ordinary commands |
| `CommandRelayProofs` | invariants, and that the relay implements the channel |
| `ObjectDetection` | the detector thread and the handler that calls it |
| `ObjectDetectionProofs` | invariants, and the order of the frames |
| `UDPServer` | the receive loop and `stop`, a component of the two programs |
| `VideoViewer` | the newest picture and its expiry |
| `CameraFeed` | network, UDP server, handler, viewer and main thread together |
| `LatestPicture` | what the user is promised: the newest picture, until the first look after it has expired |
| `CameraFeedProofs` | invariants, and that the camera's path implements `LatestPicture` |
| `AutonomousDriving` | the driver's thread with its unlocked optional |
| `AutomatedDriving` | the program of that name: UDP server, handler with its two timeouts, driver, start and shutdown |
| `AutomatedDrivingProofs` | invariants, and the order of the commands |
| `WSServer` | acceptor and detached connection threads |
| `ManualControl` | operators, WebSocket server, the handler, and the end of main |
| `OperatorStreams` | what operators are promised: their commands merged, each operator's in order and without a gap |
| `ManualControlProofs` | invariants, and that the operators' path implements `OperatorStreams` |
| `Steering` | the arithmetic from a box in the picture to motor velocities |
| `LengthCodec` | the four bytes of a message's length |
| `SteeringProofs` | theorems about both |
| `SequenceLemmas` | facts on Append, Tail, RemoveAt and injective sequences used by the proofs |
| `MC...` | the instances TLC checks |

In a module, definitions that end in the comment `fault` are plausible mistakes.
No behaviour uses them; put in the place of the definition that follows, each one
breaks a property, which shows that the property depends on the code.

### TCPServer

| Code | Model |
|---|---|
| `_clients` | `clients`, a sequence of connections |
| `_tasks`, the lambda's `Connection*`, `connection_itr` | `tasks`, `task`, `itr` (0 when it points nowhere) |
| `_is_running`, `_stop_task_thread` | `isRunning`, `stopTask` |
| `Connection::_is_running` and its socket closed | `stopped[c]` |
| program counters: main in start/stop, acceptor, tasks thread, connection threads, writeToAllClients | `mpc`, `acc`, `tpc`, `cpc[c]`, `wpc` |
| `_task_m` | held by the tasks thread at `tpc = "park"` only; a connection that reports waits for it |
| the peer's socket | `link[c]`: idle, open, eof (orderly shutdown), reset, gone (destroyed) |
| what was sent | `wire[c]`, a history of headers and bodies |

Each access to the list by another thread lasts from one step to a later one
(`AcceptorInside`, `TasksInside`, `WriterInside`). A mutation that meets such an
access is a data race: the model goes on as the interleaving says, or stops with
`proc = "undefined"`. `proc = "terminated"` is `std::terminate`, after
`remote_endpoint()` throws in the tasks thread. Nothing happens after either.
A reallocation by `push_back` may leave the iterator dangling (`itr' \in {itr, 0}`).

`Connection::start` calls its disconnection handler when it catches any
exception and leaves its loop: a handler that throws (`ConnReceive`) counts as a
disconnection. A broadcast is two sends per client (`WriteHeader`, `WriteBody`),
and an exception leaves the loop over the clients (`WriteThrows`).

### CommandRelay

`orders` is a history of everything enqueued, `queue` holds positions in it,
`hand` is the command the thread has taken out, `now` and `last` are the local
variables of the loop, `log` the broadcasts with their times. `CommandOf` gives
the `"command"` field that `GUI::createRoverMessage` produces: a centred joystick
becomes a stop, a centred camera joystick `reset_camera`, a turned camera and an
unknown word the empty command. A broadcast takes effect in one step; what
happens inside it is `TCPServer`'s matter. `Exempt` is the set the limit lets
pass: stop and reset_camera in manual control, stop in automated driving.

`LossyChannel` says what an operator relies on. The refinement takes as pending
the command in hand followed by the queue, and as open that main has not begun to
stop; a drop of an ordinary command is the channel's `Drop`.

### ObjectDetection

Frames are numbered by arrival, a detection is the number of its frame (0: the
default-constructed one). A frame is empty (it did not decode), blank (nothing is
found in it) or shows an object. The mutex is the detector's in the states
`park`, `detect`, `stamp`, `store` and `assign`; `wait` gives it up on the way from
`park` to `asleep`. `getLatestDetection` is two steps, the age test (`HandlerAge`)
and the copy (`HandlerCopy`). The detector writes the time (`DetectorStamp`), and
then the detection, an assignment that takes from `DetectorAssign` to
`DetectorStore`. A copy at `store`, between the two writes, is whole: it is the old
detection, or the default-constructed one, although the time is the new one's. A
copy at `assign`, during the second write, may be torn, and may end in
`proc = "undefined"`. `vouched` is the detection to which the time belongs that
the handler has tested, `got` what it was given and where the detector was then.
`SoundDetection` is therefore a statement about `vouched`, and about the detection
returned only where it is that one or a later one.

The clock starts at `MaxAge`: `_last_detection_time` is the clock's epoch, and
the machine has been up for longer than a second.

### UDPServer, VideoViewer, CameraFeed

`UDPServer` and `VideoViewer` leave open what the handler does and when main
calls them; `CameraFeed` (the camera's path of `manual_control_with_camera.cpp`)
and `AutomatedDriving` extend them and say so. `upc` is the receiving thread's
position: `check` at the loop's condition, `receive` before `receive_from`,
`blocked` in it, `handle` in the handler, `ended` once it has returned. The
try block is around the loop, so `UDPThrown` leads to `ended`, and `running` stays
true. `receive_from` may fail for reasons of its own, on an open socket, too
(`UDPFails`). `stop` is three steps of main: the flag, the close, the join.

Datagrams are numbered as they arrive; the network may have lost, repeated or
reordered them, which the code cannot tell. A datagram holds a picture, an image
that does not decode (`imdecode` returns an empty frame, which `addFrame`
ignores), or one at which `imdecode` throws: no image data at all, or an image of a
size that it refuses. `handled` is the last datagram the handler has been given.
`frameQueue` and `lastFrameTime` are the viewer's members; `newest` and `shown`
are histories of what was added and displayed last. A picture that has expired is
returned once more while it is popped, as in lines 62-66.

### AutonomousDriving, AutomatedDriving

| Code | Model |
|---|---|
| `_latest_detection` | `latest`: the handler's call that left it, and whether there is one |
| `_latest_command` | `command`: the detection it was computed from, -1 for none |
| the driver's thread | `dpc`: `check`, `test` (has_value), `value`, `interpret`, `set` |
| `last_detection`, `last_detection_time` | `lastDetection` |
| `last_command`, `last_command_time` | `lastCommand` |
| `detection`, the handler's local | `detected` |
| the handler's calls and their `now` | `calls`, a history |
| the command enqueued | `sent`, with the detection just left and the rounds of the driver since |

The thread tests the optional, takes its value and interprets it through a
reference, all without the mutex. If the handler assigns it while the reference is in
use the outcome is `undefined` or goes on; if it has become empty between test
and value, `bad_optional_access` leaves the thread: `terminated`. The handler is
three steps, as it calls the driver twice (`HandlerDetect`, `HandlerAdd`,
`HandlerGet`). What the detector returns is any detection or none: the detector
is `ObjectDetection`, the relay behind the queue `CommandRelay`, the viewer
`CameraFeed`, and the stops of TCP server and detector inside main's shutdown are
steps that have returned.

`_latest_command` is never reset. So after the driver's first round lines 85-90
of `automated_driving.cpp`, the age limit of a command, are never reached: what
bounds a command's age is the driver's next round, and `SteersByLatest` says so.

### WSServer, ManualControl

`link[o]` is the operator's end of a connection, `conn[o]` the server's: in the
backlog, accepted, or the position of the detached thread (`start` before the
handshake, `read`, `handle`), or `ended`. A thread that steps after main's
return uses the destroyed server (it copies its handler), the queue, or the
`io_context` its socket refers to: `proc` may become `dangling`, until the process
exits. `Kinds` are text that is translated (an unknown word is, too: into the empty
command), text at which `stoi` throws, and text with fewer tokens than
`createRoverMessage` reads. An exception of `stoi` ends that operator's thread, and
no one else's. A token that is missing is read past the end of the vector
(`HandleShort`): it may look like some text, so that the message is translated or an
exception is thrown, or the process ends for everyone, `proc = "overrun"`. What an
operator is promised holds up to that. `said`, `queued` and `orphans` are histories.

### Steering, LengthCodec

A behaviour of `Steering` is one step: a scene, or an operator's joystick, is turned
into a message. The definitions have the names of the C++ functions and follow
their integer operations (`Trunc` is C++'s division). A float is exact except
where the exact quotient is an integer: there the product with 100 may come out
just below it, and `Percent` has both. Sine, cosine and arc tangent are left out:
they compute the heading, which is not used in tank mode, and the limited
position, which `formatCommand` discards. The objects of a scene have their centre
in the frame (`InFrame`): the network's outputs for a centre are sigmoids, shares
of the frame, which lines 71-72 of `object_detection.cpp` multiply by its size; the
box may reach out of it. Frames are at least two pixels wide and high.

`LengthCodec` has the base of the digits as a parameter: TLC tries all numbers at
base 4, the theorem is about 256.

## 3. Runs

| Run | Instance | Shows |
|---|---|---|
| `tcp_server` | 2 connections (symmetric), 2 broadcasts | the safety of the server, 0.8 million states |
| `tcp_server_live` | 2 connections, 1 message from each peer | failed connections are removed; stop returns, unless the notification is lost |
| `tcp_stop_returns` | 1 connection | **violation**: the notification of `stop()` can be lost |
| `tcp_acceptor_stops` | 1 connection, `CloseUnblocks = FALSE` | **violation**: `stop()` waits for the next peer where a close does not end a blocking accept |
| `tcp_removes_client` | 2 connections | **violation**: removing a connection that was reset ends the process |
| `tcp_writes_to_all` | 2 connections, 1 broadcast | **violation**: one failed send ends the broadcast for the clients behind it |
| `command_relay` | 3 commands of the kinds steer, centre, look ahead; interval 1, 6 ticks | no stop is lost or overtaken, the rate is limited, the program ends |
| `object_detection` | 2 frames of every kind, age limit 1, 4 ticks | what the time of a returned detection vouches for, frames are not lost, handlers do not starve |
| `camera_feed` | 3 datagrams of any kind, expiry 2, 4 ticks | the newest picture is shown; the first exception, of socket or handler, ends the feed, and nothing else does |
| `automated_driving` | 3 frames, a detection may be reused for less than 2 ticks, 2 ticks | how far a command lags, what is reused, when the driver's race is fatal, that driver and shutdown go on |
| `manual_control` | 2 operators, 2 messages of one and 1 of the other: commands, malformed or too short | order of the queue, how far one operator disturbs another, orphaned threads, the end |
| `steering` | 3 frame sizes, bottles on a grid of 21 by 6, 6 widths, alone, behind or before another object; 10 joystick values per axis | the rover turns to the bottle; fields stay in range |

### Bounds

- Two connections are the smallest number at which there is a client behind
  another one: a list that shrinks under the writer's index, a task whose index
  moves, a reallocation while another is removed. Two broadcasts are enough for a
  header to be separated from its body by another message. `MaxInbound = 0` in
  the safety run leaves out received messages; the connection's steps that follow
  one are the same as after a shutdown, and the liveness run has them.
- Three commands are a joystick that moves, is let go, and moves again; and the
  smallest number at which `TwoPerInterval` can fail. Six ticks let three
  ordinary commands pass with an interval of one.
- Two frames are one that is being looked at and one that arrives meanwhile.
  Four ticks let a detection be made, become too old and be replaced.

- Three datagrams are a picture, one that replaces it, and one that breaks the
  feed or follows the expiry. Four ticks are twice the expiry.
- Three frames are a detection, a gap that is bridged by it, and its loss; or two
  detections and a gap. `DetectionDuration` is 0 in the code, so that nothing is
  ever reused; the run takes 2, so that the branch is alive, and the theorems
  hold for any value.
- Two operators are one who disturbs and one who is not to be disturbed; two
  messages are the smallest number that has an order, and one is enough to disturb.
  Either of the two may leave, connect late or stay behind.
- The scenes have a bottle on both sides of each threshold (0.1 of the frame off
  centre, 0.1 and 0.4 of its width), at the edges and just beside the centre. The
  frame of 640 by 480 is the camera's, the one of 100 makes quotients exact, the
  one of 30 by 20 makes truncation coarse.
- `MCSteering` has two assumptions instead of invariants, `AdjustsToNearest` and
  `RoundTrip`: they speak of no state, and TLC evaluates them once. Both are
  theorems, too.

The runs do not check for deadlock: peers may stay silent, users need not stop
the program, and bounded counters run out.

### Fairness

Every thread that can take a step eventually does (weak fairness per thread):
the operating system schedules them all. Strong fairness is assumed of a thread
that waits for a mutex, that is for `ConnReport` and `HandlerAdd`: a mutex that
becomes free again and again is eventually got. C++ does not promise it; the
implementations of glibc and Windows let a waiting thread compete at each
release. Nothing is assumed of peers, operators, the clock or spurious wakeups.
A thread that blocks in `accept` or `read` is fair when there is something to
return with; that a close is enough is the constant `CloseUnblocks`. Asynchronous
`cancel()` ends no synchronous operation, and on Linux `close()` does not wake a
blocked `accept` or `receive_from`, so `tcp_acceptor_stops` has `FALSE`; the other
liveness runs give the code the benefit of `TRUE`. `ProgramEnds` of
`AutomatedDriving` and `ManualControl` hold on that condition only.

In the modules of the camera, the driver and the operators weak fairness is
enough: their mutexes are held for one step, so no thread waits for another one
that keeps coming back. The display loop is fair; datagrams, keys, operators and
the clock are not.

### Disagreements between code and documentation

The four runs marked as violations. `StopReturnsIfNoticed` says how far the
promise of stop() goes: it returns unless the notification falls into the gap
between the predicate and the sleep. `ObjectDetection::stop` has the same gap.
The comment `// seconds` at `MAX_DETECTION_AGE` (`object_detection.hpp:43`) is
wrong by the code's use, milliseconds; the model's `MaxAge` counts ticks.
`udp_server_lib.cpp:22-23` says that the server handles messages "continuously":
it does so until the first exception, of the socket or of the handler, and never
again: `FirstFailureEndsFeed`.
`getLatestDetection` refuses a detection older than `MAX_DETECTION_AGE`, and yet it
can return one of any age, or the default-constructed one, when it is called between
lines 198 and 199 of `object_detection.cpp`: `SoundDetection` says what is left.
`automated_driving.cpp:81` says "Only use last command if it is not too old"; the
branch is never reached after the driver's first round, see above.
`autonomous_driving.cpp:96` "prevents the rover from turning too hard":
`formatCommand` calls it and drops the result. `autonomous_driving.cpp:231` says that
the size of the box decides whether the rover backs up or drives forward: it
decides whether it moves, the direction comes from the vertical displacement.
`manual_control.cpp:40` says that one ordinary command is sent per 100 ms: that is
true of the times the loop compares, and `TwoPerInterval` says what it means for
the times of the broadcasts.

## 4. Proofs

The theorems hold for any set of connections, any inputs and exemptions, any
interval and age limit and any bounds, from the assumptions that the modules name
(`TCPAssumption`, `RelayAssumption`, `DetectionAssumption`, `UDPAssumption`,
`ViewerAssumption`, `FeedAssumption`, `DrivingAssumption`, `WSAssumption`,
`ControlAssumption`, `SteeringAssumption`, `CodecAssumption`). No fairness is used.

Some of the formulas proved are in the proof modules and in no run: the
inductive invariants, the refinements but `ImplementsChannel`, the action
properties but `DestroyedOnlyAfterJoin`, and the invariants `KeptCommandUnused`,
`LocalsOutliveThreads` and `ViewerOutlivesThread`. The refinements, the action
properties and the invariant on the wire were also checked with TLC on the instance
of the component's run (`Broadcast` without the symmetry, for which TLC's reduction
is not sound).

**TCPServer.** `IInv` is `TypeOK`, `InvWriter` and `Owned`, whose parts are: the list
has no connection twice, and a connection is in it exactly from the push to its
destruction (`InvList`); what the acceptor has in hand is new, or is the last of
the list (`InvAccept`); which connections were stopped, and by whom
(`InvStopped`); a task exists exactly for a connection that reported, once, and
the iterator points to the task's connection or nowhere (`InvTasks`); how far
stop() has come, and which threads have ended by then (`InvMain`). None of them
is inductive alone: that a task's connection is in the list needs that no one
else erases, hence the order in which stop() joins the threads, which needs that
ended threads stay ended. From `IInv` follow `TasksAreLive`, `LaunchIsOwn`,
`StopsOnce`, `StopIsClean` and, for the action property, `DestructionIsSafe`.

`SentInv` is the invariant on the wire. The loop of a broadcast goes by an index
into a list that shrinks in front of it and grows behind it; still no client gets
a message twice, since a removal moves clients only to lower indices and a push
appends a connection on which nothing was ever sent: at or behind the index
nobody has anything of the current message (`InvSent`). A header without its body
is the one being sent now, or is on a connection that was reset or stopped, on
which no later send can succeed (`InvHeader`). While the call is undisturbed, those
before the index have the whole message and nobody has left (`InvReached`).
`WireIsFramed` and `UndisturbedCallIsComplete` follow.

`ServerIsBroadcast` maps WriteCall to Call, WriteHeader to SendHeader, WriteBody to
SendBody, and every step that ends a connection (a reset by the peer, a removal,
stop()) to Close; `closed` are the connections that were reset, stopped or
destroyed. It needs `SentInv`, and that a connection is never opened again
(`ClosedForGood`). `Broadcast` does not promise that a connection carries every
message: the run `tcp_writes_to_all` shows that it need not.

**CommandRelay.** `InvLast` says that the last order is the last of the queue, or
in hand, or dealt with; with it `LastWordIsHeard`. `RelayIsChannel` maps each step
to a step of `LossyChannel` or a stutter: Enqueue to Give, CommWrite to Deliver,
CommDrop to Drop, MainStops to Close, the rest to stutters. It is the safety part of the
property `ImplementsChannel`. `RateIsLimited` needs `InvRate`: all limited
broadcasts but the newest happened before the time that was compared last, which
lies more than the interval before the time compared for the next one.

**ObjectDetection.** `InvDetector`: the detector works on the frame it took.
`InvTime`: stored time and detection belong together except at `store` and
`assign`, and time only advances. `InvHandler`: a handler about to copy has found the
stored time recent, and the time it compares with is past `MaxAge`, so that the
time a machine starts with never passes for that of a detection.
`InvNewer`: a frame that waits is newer than the one the detector has taken,
which is newer than the stored detection's. It holds although the flag is cleared
only after the detection, because the mutex is held until then. Hence
`FramesAdvance`, an action property: no frame is looked at twice, and a
detection is replaced only by that of a newer frame, so that its time is never
renewed for something seen before. `InvVouched`: the detection whose time a handler
about to copy has tested is not newer than the stored one, which is recent then, or
it is the one the detector is about to store. With `InvNewer`, by which that one is
newer than the stored one, follows `DetectionIsSound`.

**CameraFeed.** `InvQueue`: the queue holds the newest picture or nothing, and
nothing only before the first picture or after the newest one has expired; the
stored time is the newest picture's. It makes `NewestIsShown` and
`WaitingMeansStale` inductive: what is displayed is the front of that queue.
`InvStop` ties flag and socket to main's position.
`InvHandled`: a datagram is handled once, before the next is received. `InvFeed`: as
long as the thread has not ended, no datagram that was handled has made the handler
throw. With them `FeedEndsAtFailure`, for an `upc` that ended while the flag is set
can only have come from the handler or from a `receive_from` that failed.

`FeedIsLatestPicture` maps a handled datagram that has decoded to Come, the display
to Look, the clock to Pass and the rest to stutters; `kept` is a queue that is not
empty. It needs `InvHandled`, too. The action property `PicturesAdvance` says that the screen never goes back
to an older picture, not even with the dummy frame in between. `NoThreadAfterStop`:
when main returns, and destroys the viewer that the handler refers to, the
receiving thread has ended.

**AutomatedDriving.** `InvLast`: `last_detection` is the newest detection that was
made, and where there is none nothing was ever seen or it has been lost for
`DetectionDuration` (`Lost`). `InvLoss` follows that through the handler's local
variable to the driver: an optional that is empty although something was seen
implies `Lost`, hence `LossTerminates`. `InvOrder`: detections reach the driver in
order; without it a round of the driver could fall back. `InvRounds`: after two
rounds without a new detection the command is the latest one's, since the second
round has read after the detection was left; hence `SteeringIsCurrent`.
`InvForward`: what the driver works on is not older than its command, and what was
queued is not newer than what the handler fetches next. With it the action property
`SteeringAdvances`: steering never goes back to an older detection, although the
driver works at its own pace. `KeptCommandIsUnused`: where the handler is about to
queue a command, the one it chooses is the driver's own, never the copy whose age
lines 85-90 of `automated_driving.cpp` test. `NoThreadAfterReturn`: receiver and
driver have ended when main destroys its local objects.

**ManualControl.** `InvThread`: the messages a thread has taken are queued, the
one in its hands is not; a thread that has not begun has taken none. With it
`CommandsAreOrdered`. `InvAcceptor`: after the join there is no acceptor, hence
no new thread, hence `OrphansOnly`; the process ends by an overrun only in the step
of a thread with a message too short in its hands (`OverrunInv`). Here threads do survive main's return, unlike
those of the camera's path and the driver.

`ServerMergesStreams` maps an operator's message to Say, the handler's enqueue to
Merge and the end or refusal of a connection to Cut (no step cuts off two
operators, `OneIsCut`). That the message enqueued is the operator's first one not
merged yet follows from `InvThread` and `QueuedInOrder` together.

**Steering, LengthCodec.** The theorems up to `TurnsToObject` are about all
arguments, no state: truncation is monotone and bounded (`TruncBounds`, `TruncMonotone`), so velocities
and servos fit (`MotorsFit`, `ServosFit`); the difference of the velocities has the
sign of the flipped x (`TurnFollowsJoystick`), x that of the offset
(`PercentKeepsSign`), hence `TurnsToObject` for any object in any frame.
`InvDrive` says that the joystick is one that may come out for the scene's first
bottle and that the message tells it; a first bottle exists because a set of
numbers has a least element (`LeastExists`). With it `BottleIsFollowed`, and, since a
share of a tenth survives the rounding (`PercentIsLarge`), `OffCentreIsFollowed`.
`SteeringTypes` is about the whole message: a centre that is in the frame is at
most two thirds of the frame off its truncated middle, so a joystick coordinate is
at most 70, and the speed at most 255, since the root of 70² + 70² is at most 100;
the integer root exists because a set of numbers has a least element. `NearestOnCircle` is a case distinction over the four boundaries.
`LengthsSurvive` unfolds four divisions; each digit is `n \div w` reduced.

Only model-checked: the liveness properties and the fairness part of the
refinement (`DisconnectionHandled`, the two `StopReturnsIfNoticed`, the three
`ProgramEnds`, `ImplementsChannel`, `NewestFrameSeen`, `HandlerReturns`,
`PicturesAreShown`, `DriverFollows`, `CommandsArrive`, `OperatorsAreServed`), since
TLAPS proves no liveness. Every invariant and action property of a passing run is a
theorem.

## 5. Not modelled

In `TCPServer`: setMessageHandler and the handlers' effects, writeToClient (one
pass of the broadcast's body), allocation failures. In `CommandRelay`: a throw
from `json::parse` (the queue only holds what `dump` produced), the payload of
commands. In `ObjectDetection`: the network, drawing, and that `cv::Mat` copies
share pixels. In `UDPServer`: `receiveMessageSize` and `sendMessage`, which nobody
calls. In `AutomatedDriving`: drawing and the viewer's part of the handler, and
what happens inside the other components. In `Steering`: the heading,
`limitRadius`, `calculateAngle`, `convertToCartesian` (floating-point functions
whose results no message carries), the motor values of the word commands.

No module has all components in one state space: the programs are cut at the
queue, the detector and the viewer, and each side of a cut is left free to do
whatever the other side can see (any detection or none; any order of commands).

Weak memory: steps are sequentially consistent, and an unprotected access that
meets a mutation of the same object is a choice between going on and `undefined`.
A TCP send either goes through or throws: on these blocking sockets `send` returns
short only when the connection breaks meanwhile, and nothing can follow on it, so
that such a message counts as whole, the last one on its wire. Errors of a TCP
socket that do not come from its peer or from a close are left out.

Not modelled at all: base64, JSON and image decoding beyond their outcome, file
reading, windows (I/O), the browser code (its messages are inputs), the test
clients, and the rover's own program, which is not in this repository.

## 6. Plan

What is left:

1. `setMessageHandler` of the TCP server, called after `start()` in
   `manual_control.cpp:26-27`: a race on a `std::function` that the acceptor copies.
2. `OperatorStreams` and `LossyChannel` joined at the queue: what one operator is
   promised from the browser to the rover.
3. An abstract detector. A copy between two unlocked writes is an old detection,
   and one during the second write may be torn, so that it would have to promise
   less than one expects: what `SoundDetection` says.
