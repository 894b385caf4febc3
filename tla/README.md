# A model of insta360-linkd

`linkd` is a daemon that owns one Insta360 Link webcam and turns and zooms it on
behalf of a gamepad, an HTTP API and a gRPC API. These modules model what its
threads do to the camera and to each other, check it with TLC on small
instances, and prove the central properties with TLAPS for every value of the
constants. Paths below are relative to the repository, line numbers to the
modelled commit.

## 1. The system

| Part | Source | State it keeps | Operations |
| --- | --- | --- | --- |
| Discovery | `connect_camera` in `src/platform/*` | file descriptors, references to USB objects | the scan of `/dev/video*`, the lookup of a product, the constructors and destructors of the backends |
| Backend | `src/platform/*` | the camera itself (position, zoom, tracking); a file descriptor or a USB interface | `read_state`, `set_position`, `set_zoom`, `set_tracking`, each a chain of device requests |
| `CameraController` | `src/controller.cpp` | `state_` (a copy of the camera's state), `velocity_`, `velocity_expires_at_`, `background_error_`, all behind `mutex_`; `stop_requested_` | `status`, `cached_status`, `background_error`, `center`, `set_position`, `set_zoom`, `set_tracking`, `set_velocity`; the motion thread |
| Control | `src/control.cpp` | none | `advance_position`, `is_moving`, `map_gamepad`, `shape_axis` |
| `GamepadInput` | `src/gamepad.cpp` | the open pad, `zoom_`, three edge flags | a polling thread that calls the controller |
| `ApiServer` | `src/server.cpp` | the listening thread | HTTP routes that call the controller |
| `GrpcServer` | `src/grpc_server.cpp` | the server, its waiting thread | `GetStatus`, `Publish`, `Subscribe`, `GetCapabilities` |
| `serve` | `src/main.cpp` | `stop_requested` | builds and destroys the others |
| one-shot CLI | `src/main.cpp` | none | `linkd status`, `center`, `position`, `zoom`, `tracking`: one to three backend calls, the last one a read that is printed |

Everything meets in the controller. HTTP worker threads, gRPC worker threads and
the gamepad thread call it; its own motion thread wakes every 50 ms and turns a
requested velocity into absolute positions. The mutex makes each call one
critical section, device requests included, and that is all it does: a handler
takes it several times per request, and the motion thread reads the clock and
the stop flag without it.

What is hard here: the order of critical sections of five kinds of callers; a
clock that is read before a lock that may take long; a device that refuses a
request, or carries out a part of it, or changes on its own; exceptions that end
a gamepad pass or a request half way; a copy of the device's state that several
decisions trust; a command line that uses the same camera from another process,
which no mutex keeps out; values that are rounded and split into bytes on their
way to the camera; descriptors and references on every way out of a search; the
start and the end of seven threads. `PROJECT.json` lists each of these hazards
with its line and the properties that watch it.

What makes each part correct, in a sentence:

- **controller**: the gimbal turns only for a velocity request that is in force,
  for a bounded travel, or for a command; a command or a failure ends a motion
  for good; the copy is right unless the device changed or failed;
- **discovery**: the first usable camera is found, one that may not be opened is
  reported, and what was opened on the way is closed again, but for what a
  throwing constructor of macOS leaves;
- **backend**: a chain of requests does in the end what the controller takes it
  to do in one step; what is sent is what was asked, to half a raw unit;
- **one-shot commands**: the camera is moved with its tracking off, and what is
  printed is what was commanded, unless somebody interferes;
- **gamepad**: it makes legal calls only, drift in the deadzone moves nothing, a
  released stick stops what it started, a press is served once, whatever throws
  in between;
- **network handlers**: they make legal calls only, a success shows the
  command, every request is answered, a stream catches up;
- **serve**: nothing outlives what it uses, nothing is left running, failing
  starts and Ctrl-C come to an end.

## 2. Modules

```
Control                     pure functions
  Wire                      scaling to raw units, little-endian bytes
    Backend                 device requests of serve and of a one-shot command
                            (refines ControllerCore)
  ControllerCore            the guarded state, one action per critical section
    CameraController        + clock, lease, motion thread, destructor
    GamepadInput            + the gamepad thread         (environment: CoreNext)
    Service                 + HTTP and gRPC handlers     (environment: CoreNext)
MotionPromise               what the controller promises about the gimbal
Discovery                   connect_camera, its descriptors and references
Serve                       start and shutdown of "linkd serve"
```

**`Control`** has the pure functions over integers: the motion arithmetic
(`AdvancePosition`, `Clamp`, `IsMoving`) and the way of a stick to a velocity
(`ShapeAxis`, `MapGamepad`). The quadratic curve is kept exact by leaving out
the divisions by constants: a shaped value is in the square of the unit of the
deadzone.

**`Wire`** is what the backends make of a value: `Raw` is `std::llround` of a
scaled value (halves away from zero), `FromRaw` the way back, and `WriteU16`,
`WriteI32`, `ReadU16`, `ReadI32` the little-endian codec of the macOS backend,
in two's complement, for a byte of any even size.

**`ControllerCore`** holds what `mutex_` guards. A call is one action with the
outcome `ok` or not. A failed read changes nothing; a failed write leaves any
part of itself applied (`TornPositions`), which is what the two writes of the
Linux backend and an interrupted USB transfer do. `Drive` is a pass of the
motion thread with where and when left open. The camera also changes on its own:
`CameraTracks`, `TrackingSwitched`. The history variable `stale` collects the
fields in which the copy may have been left behind, so that `CopyIsCurrent` can
say that all others are right.

**`Backend`** opens these critical sections. A method is the list of its device
requests, one by one on Linux and with pan and tilt in one request on macOS;
`Answered`, `Refused` and `Interrupted` are the outcomes of the next one, each
of which may have written a part. `Lock...` begins a critical section of serve,
`Continue` is the code between two of its methods and after the last one, and
`SectionThrows` its way out. The one-shot command is a second process with a
backend of its own: `ShotStart` checks and begins, `ShotUntracked` and
`ShotWritten` go on, `ShotPrints` and `ShotThrows` end it. The camera turns,
switches tracking and is unplugged on its own between any two requests.
`SectionsImplementCore` maps it to `ControllerCore`: while a section runs, the
mapped variables keep the values that they had when it began (`before`), and its
last step makes the step of `ControllerCore`. The copy is mapped as a camera
would hold it (`Held`), because a commanded value is not rounded in `state_`. A
section during which another process, or the camera, changed the device is
outside of the mapping (`interfered`); `CopyWithinHalfUnit` holds for it too.

**`Discovery`** is `connect_camera`. On Linux a scan of nodes of any kind
(absent, foreign, denied, ...); on macOS the lookup of the products and the ten
steps of the constructor, each of which acquires a reference and releases the
one it used, or fails: the constructor then throws, no destructor runs, and
`LeftByThrowing` says what stays referenced. `Release` is the destructor.

**`CameraController`** extends `ControllerCore` with time. `SetVelocity` stamps
the lease; the motion loop is `MotionTop` (the stop flag, the sleep),
`MotionSample` (`now`, taken before the lock) and `MotionTick` (the body under
the lock, one disjunct per way through it). Between `MotionSample` and
`MotionTick` any time may pass and any caller may act. `travel`, `granted`,
`late`, `tail` and `tracked` are history: nothing depends on them.
`ImplementsCore` states that every step is a step of `ControllerCore` or leaves
its variables alone; that justifies using `ControllerCore` as the environment of
the other components.

**`MotionPromise`** is the abstract specification: a grant, a travel with a
budget, the camera's position and tracking. `KeepsPromise` maps it onto the
controller with `Budget <- Lease + 2 * Cap - Interval`, `position <-
camera.position`, `tracking <- camera.tracking`.

**`GamepadInput`** is `run()` and `poll_gamepad()`: one action per call it makes
of the controller, so that the others act between them (`Others`). `PadTop`
pumps the events: it fixes what the pass sees of the pad. A call that throws
ends the pass where it is, with the edge flags as they are then. A pad is its
raw axes (`NormalizedAxis`, `PositiveAxis`) and two buttons; stick and triggers
go through the deadzone and the curve of `Control`. SDL is external: a pad comes
and goes between passes, and one that is there can be opened. The thread's zoom
starts at `One`, the 1.0 of the code, which need not be in the range that the
camera advertises and stays there when the read at opening fails. `centers`,
`toggles` and `toggled` are history: the calls of this press that returned, and
whether any changed what the camera does. The times between passes are any of
`Waits`; the code does not bound them.

**`Service`** is a worker that serves HTTP and gRPC requests and a worker that
serves a `Subscribe` stream. `Receive` validates (and refuses), `Command` makes
the call, `ReadStatus` or `ReadCached` and then `ReadError` fill in the reply,
each a critical section of its own. Other workers are part of `Others`, which
allows every call of the controller at any time; so one worker stands for any
number of them.

**`Serve`** is the main thread's way up and down, with the threads and the calls
being served. An exception unwinds to the destructor of the last thing built;
before the handlers are installed, and while unwinding, a signal ends the
process. httplib and gRPC are external, modelled by what `stop()`, `Shutdown()`
and `Wait()` are used for; a `Shutdown()` without a deadline waits for the calls
being served.

The definitions that end in a suffix (`PadCenter_forgets`) and are marked
*Mutant* are not part of any specification: each changes the definition below it
the way a plausible bug would, and the property it is paired with in
`PROJECT.json` fails for it.

## 3. Runs

| Run | Shows |
| --- | --- |
| `controller_device` | types, the copy, the grant, tracking at the start of a motion, no leap; implements `ControllerCore` and `MotionPromise` |
| `controller_timing` | the bounds on travel, late writes and writes after the stop request; an expired lease brings the motion to rest, the destructor returns |
| `controller_tracking` | finding 1 |
| `controller_lease` | finding 2 |
| `gamepad` | legal calls, released and drifting sticks, the bound on the stick's speed, presses served once, the toggle, reconnection |
| `gamepad_zoom` | finding 3 |
| `gamepad_toggle` | finding 4 |
| `service` | legal calls, replies show their command, requests are answered, streams catch up |
| `backend` | chains of device requests implement `ControllerCore`, the copy within rounding, one-shot commands beside serve, every call ends |
| `discovery` | the camera that is found, what is held whenever the search ends |
| `serve` | lifetimes, clean exits, failed starts and Ctrl-C come to an end |
| `serve_ctrl_c` | finding 5 |

**Bounds.** `controller_device` uses a pan and a tilt of two positions each and
one velocity that moves both, in opposite directions, so that a torn write, a
leap and a clamp at a limit can each be told from a correct position; time is
cut to two units because its properties do not count it. With a velocity of one
and positions one apart `NoLeap` can fail there by its base and its direction
only; the size of a step is the matter of `DeadManTravel` and of the theorem
`NoLeapHolds`. `controller_timing` holds the camera at one position and gives
time room: lease 2, cap 2, interval 1, requests up to time 4, end at 7. Those
are the smallest values for which the bound of `DeadManTravel` is reached (with
one less it fails), which takes a stall before and a stall after a renewed
lease. At `MaxTime` the clock stops and every sleep ends, so the thread is never
stuck by the bound. `gamepad` lets a pass see the stick, or the right trigger
together with either button, since a failing zoom then ends the pass before the
button; waits of one unit move the zoom across its range, 2 to 3, which the zoom
that the thread starts with, 1, is not in. An axis has the values -21 to 20 and
the deadzone is the 0.12 of the code, so that a stick drifts inside it, and both
ends of an axis, which differ, are pushed. `service` asks for values one beyond
each limit, on either side. Its ranges hold one position and one zoom, so that a
reply can be wrong in tracking and in the error only; for positions and zooms
`ReplyShowsCommandHolds` is the evidence. A motion may fail in it, so that a
stream has an error to catch up with. `backend` has four units to a raw unit, so
that a 2 is rounded from exactly one half and a -3 is rounded and negative, and
a byte of four values, so that a negative number crosses from one byte into the
next; `Limit` lets two of (a section of serve, a one-shot command, a change of
the camera) begin, which is every pair that can overlap. `discovery` has four
nodes of all seven kinds and both products. `serve` has two requests and a
stream: enough for one to be served by each server when the main thread goes
down.

Deadlock is not checked where a run may end for good: after the destructor, the
end of the gamepad thread, the end of the search, `exit`, or, in `backend`, when
`Limit` is used up.

**Fairness.** Only the program's own threads are fair, because the operating
system runs them and every critical section is finite: the motion thread and the
clock, the gamepad thread and its reconnect timer, the handlers of accepted
requests and streams, the main thread and the threads it joins; in `backend` the
code of a critical section, that of a one-shot command, and the completion of a
device request, but not its success: it may always fail, and on Linux be
interrupted any number of times. That a request is answered supposes that a
device request returns; both backends hand it to the kernel, which may time it
out, and the code adds no timeout. Nobody is obliged to call, to press Ctrl-C,
to plug in a pad or to hang up; `CtrlCStops` therefore has the hanging up of
streams as its hypothesis.

## 4. What the runs found

1. *Tracking during a motion* (`controller_tracking`): tracking switched on
   between two ticks of a running motion, followed by a new velocity, is not
   switched off (`controller.cpp:126`); README 110-111 says it is.
2. *A late position* (`controller_lease`): a position is sent after the lease
   when the motion thread waited for the mutex (`controller.cpp:113`); README
   139 says velocity requests expire. It is one position at most
   (`AtMostOneLateWrite`), and with 250 ms, 100 ms and 50 ms the time integrated
   is at most 400 ms (`DeadManTravel`).
3. *The trigger's zoom* (`gamepad_zoom`): the gamepad thread integrates its own
   zoom, read when the pad is opened, so that the right trigger may zoom out
   after another client zoomed in (`gamepad.cpp:111`); README 105 says it zooms
   in.
4. *A press that toggles back* (`gamepad_toggle`): a press of the tracking button
   is remembered behind the call (`gamepad.cpp:131`). When `set_tracking()` throws
   after the camera obeyed, the next pass takes it for a new press, reads what the
   camera does now and changes it back; README 108 says that the button toggles.
   A call that returned is never repeated (`ToggleOncePerPress`).
5. *Ctrl-C with a subscriber* (`serve_ctrl_c`): `Shutdown()` waits for the
   stream (`grpc_server.cpp:260`), and serve() does not end while a client keeps
   one; main.cpp 161 says to press Ctrl-C to stop.

Not against any document, but worth knowing: when the constructor of
`MacUvcCamera` throws, the device stays referenced, and so does the interface
from the seventh step on, open if it was opened (`HeldAtTheEnd` says that this
is exactly what is left). The program ends then, and the system takes them back.

## 5. Proofs

`ControllerCore_proofs` proves, for every set of axes, ranges that contain zero,
velocities and zooms, that positions stay in range (`CoreTypeCorrect`) and that
the copy is current (`CopyIsCurrentHolds`). It rests on lemmas about `Clamp` and
`AdvancePosition`: for any velocity and any time the result is a position.

`CameraController_proofs` proves every safety property of `controller_device`
and `controller_timing` for every lease, interval and cap with `Interval <=
Cap`. The bound on the travel is not inductive. The strengthening `MotionInv`
says where the time has gone: `ClocksOrdered` relates `now`, `previous` and
`wakeAt` to the clock, `TravelInv` bounds the travel by the sampled time in each
state of the loop, `LateInv` and `TailInv` say that a late write, or one after
the stop request, was sampled before and cannot be followed by another,
`GrantInv` that a velocity that moves is granted. The refinements follow from
the same invariant: `CoreImplemented` and `PromiseKept` map initial states to
initial states and every step to a step or a stutter.

`Serve_proofs` proves `ControllerOutlivesUsers` and `CleanExit` for any number
of requests and streams. Its invariant places every thread between the step of
the main thread that starts it and the step that joins it.

`GamepadInput_proofs` proves every safety property of `gamepad` for every pad,
mapping, wait and zoom range. Its invariant `PadInv` adds to the types what each
flag remembers: `ButtonsCounted` (a press is in the edge flag once a call for it
has returned), `StickRemembered` (a velocity of the pad that still drives is in
`stickWasActive`), `Inverting` (the value to be set is the opposite of the one
read, unless it was switched since). `PadStepsAreCore` shows that each call is
one that `ControllerCore` allows, which gives `GamepadIsLegal`; it rests on the
lemmas that `MapGamepad` is bounded by the speed of the mapping and that the
zoom that is sent is in range, whatever it was integrated from.

`Service_proofs` does the same for any number of workers and streams. The
validation of each command makes its call legal (`ServiceIsLegal`). For
`ReplyShowsCommand` the invariant follows a command through the critical
sections of its handler (`CarriedOut`): what it set is in the camera, in the
copy and in the reply, as long as no one else disturbed it.

`Discovery_proofs` proves both properties of `discovery` for any number of nodes
and products. `SearchInv` says that whatever was passed over decides nothing
(`PassedOver`) and which references are held in each place (`Place`). In the
constructor of macOS that depends on the number of steps that succeeded
(`HoldsAfter`): `StepKeeps` and `FailureLeaves` show that a step that succeeds
leads to what the next one holds, and one that fails to `LeftByThrowing`, from
which `HeldAtTheEnd` follows.

`Wire_proofs` proves that `Raw` rounds to the nearest for every scale
(`RoundsToNearest`), keeps the order, and returns what a camera holds unchanged,
and that the little-endian codec gives back every 16-bit and every signed 32-bit
value for every even size of a byte.

`Backend_proofs` proves every safety property of `backend`, for both platforms,
every scale and byte, all ranges, zooms and commands, and any number of calls
(`Limit` is any number). Its assumptions on the constants are those of
`Backend`: a camera's limits are values it can hold and that fit its controls
(`RangesAssumption`), and callers are legal (`InputsAssumption`; the other
components are shown to make legal calls). They are needed where a raw value
goes into the bytes of a UVC request; `CarriedUnchanged` then follows from the
round trips of `Wire_proofs`, and `PositionSent`, `ZoomSent`, `PositionRead`
from the order that `Raw` keeps. A method is known by what its chain of requests
writes and reads (`Starts`, `Sends`), and `RequestIs` says once what any request
of either platform does. Four invariants follow; all rest on the first one, and
the last one on the third:

- `TypeInv` places each process: a section of serve, or a command, works on a
  method that it has, with requests that write what was asked and nothing else.
  `BackendTypeOK` alone is not inductive, for it says nothing of the values
  still to be sent.
- `ShotInv`: what a command has written and has not to write again is in the
  camera, and is what it reads back, unless somebody else changed it
  (`disturbed`). `MovesUntracked` and `PrintsItsCommand` follow.
- `CopyKept`: a field of the copy that is not stale stands for the raw values in
  the camera (`CopyInv`). The assignment at the end of a section relies on
  requests made long before it, so the invariant also follows what the
  section has read and written (`FreshInv`). `CopyWithinHalfUnit` follows by
  `RoundsToNearest`; it could not be inductive by itself, since two values
  within half a unit of the camera need not be sent as the same raw value.
- `SectionInv`: a section that nobody interfered with is in one of four stages
  (`FirstMethodRuns`, `PositionFollows`, `PassUntracks`, `PassDrives`), each of
  which determines the camera, the copy and the stale fields from the snapshot
  `before`, up to the part of the present method that has been done (`Since`).

The refinement is then a case for each way out of a section:
`SectionsStartAsCore` maps the initial states, and `SectionsRefineCore` every
step. One lemma for each action of `ControllerCore` (`CoreZoomSet`,
`CoreDriveWriteFails`, ...) says which raw values before and after make that
action, and `StatusImplements`, `ZoomImplements`, ..., `ThrowImplements` find
them at the end of a section; a step before the end is a stutter.

Model-checked only are the liveness properties, which are out of the prover's
reach: `LeaseEnds`, `StopCompletes`, `Reconnects`, `RequestsAnswered`,
`StreamCatchesUp`, `FailedStartEnds`, `CtrlCStops` and `CallsEnd`. Every
invariant, action property and refinement that a passing run checks is proved.

## 6. Not modelled

- Doubles. Angles, speeds, deflections and times are integers of units chosen so
  that speed times time is an angle. Rounding to the raw units of the camera is
  modelled in `Wire` and `Backend`, but the motion thread's arithmetic is exact:
  a motion slower than one raw unit per status request is not represented.
- A camera that reports a zoom of zero: the macOS backend then dereferences an
  empty optional. The model takes for granted that a camera holds values inside
  the ranges that it advertises.
- Motors that sleep and the privacy mode (README 67-76): requests may then
  succeed without the camera turning. The model's camera is what its controls
  hold.
- A range without zero: `center()` asks for zero unchecked (`controller.cpp:71`),
  and `RangesAssumption` takes it to be in every range.
- Memory that runs out, and a file system that fails while the scan asks whether
  a node exists.
- A camera that is unplugged and plugged in again: the code does not look for it.
- The constant answers of both APIs, JSON and protobuf, logging, the wording of
  the command line.
- The stubs for unsupported platforms and builds without gRPC beyond their
  throwing, which is a failing step of `Serve`.
- The build, packaging and tests have no behaviour at run time.

## 7. Plan

Done: every component with behaviour at run time, and the proofs of section 5.

Next: shorter proofs where two modules prove alike what a command leaves in the
camera (`Service_proofs` for replies, `Backend_proofs` for what is printed).
