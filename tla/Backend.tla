------------------------------- MODULE Backend -------------------------------
(***************************************************************************)
(* The camera at the grain of single device requests.  Two processes use   *)
(* it: "linkd serve", of which this module has the critical sections of    *)
(* CameraController, and a one-shot command ("linkd center" and so on, in  *)
(* src/src/main.cpp), each through a backend of src/src/platform of its    *)
(* own.  A method of a backend is a sequence of requests:                  *)
(*   - the V4L2 backend reads and writes pan, tilt, zoom and tracking one  *)
(*     after the other, and repeats a request that a signal interrupted;   *)
(*   - the UVC backend of macOS reads and writes pan and tilt with one     *)
(*     request, in little-endian bytes.                                    *)
(*                                                                         *)
(* The camera is external: it may refuse a request after it carried out    *)
(* any part of it, change between two requests, and go away for good.      *)
(*                                                                         *)
(* serve holds mutex_ from the first request of a critical section to the  *)
(* last assignment, and a one-shot command knows nothing of that mutex.    *)
(***************************************************************************)
EXTENDS Wire

CONSTANTS
    Ranges,        \* capabilities().pan and .tilt, in the caller's units
    Zooms,         \* the zoom ratios inside capabilities().zoom
    Velocities,    \* velocities that serve is asked for
    Targets,       \* positions that callers of serve and the motion thread set
    Shots,         \* one-shot commands that are given, in range or not
    Limit          \* bound: how many sections of serve that use the camera,
                   \* one-shot commands and changes of the camera begin, together

Axes == {"pan", "tilt"}
Controls == Axes \cup {"zoom", "tracking"}
Processes == {"serve", "shot"}

Inside(p) == \A a \in Axes : Ranges[a].minimum <= p[a] /\ p[a] <= Ranges[a].maximum
Center == [a \in Axes |-> 0]
Stopped == [a \in Axes |-> 0]

\* The ranges come from the camera: their limits are values it can hold, they
\* fit the width of a control, and they contain zero.  No zoom is zero.
ASSUME RangesAssumption ==
    /\ Ranges \in [Axes -> [minimum : Int, maximum : Int]]
    /\ Inside(Center)
    /\ \A a \in Axes : Held(Ranges[a].minimum) = Ranges[a].minimum
                      /\ Held(Ranges[a].maximum) = Ranges[a].maximum
                      /\ -DoubleWord <= 2 * Raw(Ranges[a].minimum)
                      /\ 2 * Raw(Ranges[a].maximum) < DoubleWord
    /\ Zooms \subseteq Nat \ {0}
    /\ \A z \in Zooms : Held(z) \in Zooms /\ Raw(z) < Word
ASSUME InputsAssumption ==
    /\ Velocities \subseteq [Axes -> Int]
    /\ Targets \subseteq {p \in [Axes -> Int] : Inside(p)}
    /\ Center \in Targets
    /\ Limit \in Nat
ASSUME ShotsAssumption ==
    Shots \subseteq      [command : {"status", "center"}]
                    \cup [command : {"position"}, position : [Axes -> Int]]
                    \cup [command : {"zoom"}, zoom : Int]
                    \cup [command : {"tracking"}, tracking : BOOLEAN]

NoSection == [call |-> "none"]
NoShot == [command |-> "none"]
Idle == [method |-> "none"]
NoSnapshot == [camera |-> "none"]

VARIABLES
    platform,        \* "linux" or "macos"
    plugged,         \* the camera is there
    device,          \* what it holds, per control, in raw units
    begun,           \* bound: counts what Limit bounds
    work,            \* per process, the backend method in progress: the requests
                     \* still to make, what was read, and whether it threw
    section,         \* the critical section of serve that is in progress
    state,           \* state_
    velocity,        \* velocity_
    backgroundError, \* background_error_
    shot             \* the one-shot command in progress

\* History.
VARIABLES
    before,          \* the device and the guarded state when the section began
    fresh,           \* controls that the section read or wrote and nobody changed since
    stale,           \* fields of state that the device may have left behind
    interfered,      \* somebody else changed the device during the section
    disturbed        \* controls that others changed during the one-shot command

camera == <<plugged, device>>
guarded == <<state, velocity, backgroundError>>
serveHistory == <<before, fresh, stale, interfered>>
serving == <<section, guarded, serveHistory>>
shooting == <<shot, disturbed>>
vars == <<platform, camera, begun, work, serving, shooting>>

----------------------------------------------------------------------------
\* Backend methods.

Bounded == begun < Limit /\ begun' = begun + 1

Field(c) == IF c \in Axes THEN "position" ELSE c
FieldsOf(controls) == {Field(c) : c \in controls}
ControlsOf(f) == {c \in Controls : Field(c) = f}

\* Mutant: the axes change places.
StateOf_swapped(raw) ==
    [position |-> [a \in Axes |-> FromRaw(raw[IF a = "pan" THEN "tilt" ELSE "pan"])],
     zoom     |-> FromRaw(raw["zoom"]),
     tracking |-> raw["tracking"] # 0]

\* What read_state makes of the raw values.
StateOf(raw) ==
    [position |-> [a \in Axes |-> FromRaw(raw[a])],
     zoom     |-> FromRaw(raw["zoom"]),
     tracking |-> raw["tracking"] # 0]

\* A value on its way to the camera, which takes the bytes of a UVC request as
\* ReadI32 and ReadU16 do, or on its way back.
Carried(c, raw) ==
    CASE platform = "linux" \/ c = "tracking" -> raw
      [] platform = "macos" /\ c \in Axes     -> ReadI32(WriteI32(raw))
      [] platform = "macos" /\ c = "zoom"     -> ReadU16(WriteU16(raw))

Reading(controls) == [reads |-> controls, writes |-> <<>>]
Writing(values) == [reads |-> {}, writes |-> [c \in DOMAIN values |-> Carried(c, values[c])]]

Method(name, requests) == [method |-> name, todo |-> requests, got |-> <<>>, threw |-> FALSE]

ReadState ==
    Method("read",
        (IF platform = "linux" THEN <<Reading({"pan"}), Reading({"tilt"})>>
                               ELSE <<Reading(Axes)>>)
        \o <<Reading({"zoom"}), Reading({"tracking"})>>)

SetPosition(p) ==
    Method("position",
        IF platform = "linux" THEN << Writing([c \in {"pan"} |-> Raw(p[c])]),
                                      Writing([c \in {"tilt"} |-> Raw(p[c])]) >>
                              ELSE << Writing([c \in Axes |-> Raw(p[c])]) >>)

SetZoom(z) == Method("zoom", << Writing([c \in {"zoom"} |-> Raw(z)]) >>)

SetTracking(enabled) ==
    Method("tracking", << Writing([c \in {"tracking"} |-> IF enabled THEN 1 ELSE 0]) >>)

Begin(p, method) == work' = [work EXCEPT ![p] = method]
End(p) == Begin(p, Idle)

Returned(p, name) == /\ work[p].method = name
                     /\ work[p].todo = <<>> /\ ~work[p].threw
Threw(p) == work[p] # Idle /\ work[p].threw

----------------------------------------------------------------------------
\* Device requests.

Pending(p) == work[p] # Idle /\ work[p].todo # <<>>
Request(p) == Head(work[p].todo)

\* What a request that failed may have written.
Partly(values) == {[c \in written |-> values[c]] : written \in SUBSET DOMAIN values}

Overwrite(values) ==
    device' = [c \in Controls |-> IF c \in DOMAIN values THEN values[c] ELSE device[c]]

\* History of controls that were changed behind the back of the other process.
Disturbing(touched) == IF shot = NoShot THEN {} ELSE disturbed \cup touched
Interfering(touched) == interfered \/ (section # NoSection /\ touched # {})

\* History of a request of process p that got the controls to agree with what
\* p knows of them (agreed) or may have changed them (touched).
Note(p, agreed, touched) ==
    /\ stale' = stale \cup FieldsOf(touched)
    /\ fresh' = IF p = "serve" THEN (fresh \ touched) \cup agreed ELSE fresh \ touched
    /\ disturbed' = IF p = "serve" THEN Disturbing(touched) ELSE disturbed
    /\ interfered' = IF p = "serve" THEN interfered ELSE Interfering(touched)
    /\ UNCHANGED <<platform, plugged, begun, section, guarded, before, shot>>

Answered(p) ==
    /\ plugged
    /\ LET r == Request(p)
       IN  /\ work' = [work EXCEPT ![p].todo = Tail(@),
                                   ![p].got = [c \in DOMAIN @ \cup r.reads |->
                                      IF c \in r.reads THEN Carried(c, device[c]) ELSE @[c]]]
           /\ Overwrite(r.writes)
           /\ Note(p, r.reads \cup DOMAIN r.writes, DOMAIN r.writes)

\* Mutant: every failure is taken for an interruption.
Refused_repeats(p) ==
    /\ LET r == Request(p)
       IN  /\ \E values \in (IF plugged THEN Partly(r.writes) ELSE {<<>>}) : Overwrite(values)
           /\ Note(p, {}, DOMAIN r.writes)
    /\ UNCHANGED work

\* The request fails and the method throws.
Refused(p) ==
    /\ LET r == Request(p)
       IN  /\ \E values \in (IF plugged THEN Partly(r.writes) ELSE {<<>>}) : Overwrite(values)
           /\ Note(p, {}, DOMAIN r.writes)
    /\ work' = [work EXCEPT ![p].todo = <<>>, ![p].got = <<>>, ![p].threw = TRUE]

\* EINTR: retry_ioctl makes the same request again.
Interrupted(p) ==
    /\ platform = "linux" /\ plugged
    /\ LET r == Request(p)
       IN  /\ \E values \in Partly(r.writes) : Overwrite(values)
           /\ Note(p, {}, DOMAIN r.writes)
    /\ UNCHANGED work

Complete(p) == Pending(p) /\ (Answered(p) \/ Refused(p))
Interruption(p) == Pending(p) /\ Interrupted(p)

----------------------------------------------------------------------------
\* Critical sections of CameraController.

\* The device and the guarded state, the latter as a camera would hold it: a
\* commanded value lies within half a raw unit of what reaches the camera.
Actual ==
    [camera |-> StateOf(device),
     state |-> [position |-> [a \in Axes |-> Held(state.position[a])],
                zoom     |-> Held(state.zoom),
                tracking |-> state.tracking],
     velocity |-> velocity,
     backgroundError |-> backgroundError,
     stale |-> stale]

Lock(call, method) ==
    /\ section = NoSection /\ Bounded
    /\ section' = call
    /\ Begin("serve", method)
    /\ before' = Actual
    /\ UNCHANGED <<platform, camera, state, backgroundError, fresh, stale, interfered,
                   shooting>>

LockStatus == Lock([call |-> "status"], ReadState) /\ UNCHANGED velocity

LockPosition(p) ==
    /\ Lock([call |-> "position", position |-> p],
            IF state.tracking THEN SetTracking(FALSE) ELSE SetPosition(p))
    /\ velocity' = Stopped

LockZoom(z) == Lock([call |-> "zoom", zoom |-> z], SetZoom(z)) /\ UNCHANGED velocity

LockTracking(enabled) ==
    /\ Lock([call |-> "tracking", tracking |-> enabled], SetTracking(enabled))
    /\ velocity' = Stopped

\* A pass of the motion thread that finds a velocity.  Whether it starts the
\* motion, and where it drives, is left open as in ControllerCore.
LockPass(next, starting) ==
    /\ IsMoving(velocity)
    /\ Lock([call |-> "pass", position |-> next],
            IF starting THEN ReadState ELSE SetPosition(next))
    /\ UNCHANGED velocity

\* set_velocity uses no backend.
RequestVelocity(v) ==
    /\ section = NoSection
    /\ velocity' = v
    /\ UNCHANGED <<platform, camera, begun, work, section, state, backgroundError, serveHistory,
                   shooting>>

\* Fields of the copy were assigned; a field is current again when all of it
\* agrees with the device.
Assigned(fields) == stale' = stale \ {f \in fields : ControlsOf(f) \subseteq fresh}

Proceed(method) ==
    /\ Begin("serve", method)
    /\ UNCHANGED <<platform, camera, begun, section, before, fresh, interfered, shooting>>

Leave ==
    /\ section' = NoSection
    /\ End("serve")
    /\ before' = NoSnapshot /\ fresh' = {} /\ interfered' = FALSE
    /\ UNCHANGED <<platform, camera, begun, shooting>>

StatusRead ==
    /\ section.call = "status" /\ Returned("serve", "read")
    /\ state' = StateOf(work["serve"].got)
    /\ Assigned({"position", "zoom", "tracking"})
    /\ UNCHANGED <<velocity, backgroundError>>
    /\ Leave

PassRead ==
    /\ section.call = "pass" /\ Returned("serve", "read")
    /\ state' = StateOf(work["serve"].got)
    /\ Assigned({"position", "zoom", "tracking"})
    /\ UNCHANGED <<velocity, backgroundError>>
    /\ Proceed(IF state'.tracking THEN SetTracking(FALSE) ELSE SetPosition(section.position))

PassUntracked ==
    /\ section.call = "pass" /\ Returned("serve", "tracking")
    /\ state' = [state EXCEPT !.tracking = FALSE]
    /\ Assigned({"tracking"})
    /\ UNCHANGED <<velocity, backgroundError>>
    /\ Proceed(SetPosition(section.position))

PassMoved ==
    /\ section.call = "pass" /\ Returned("serve", "position")
    /\ state' = [state EXCEPT !.position = section.position]
    /\ Assigned({"position"})
    /\ backgroundError' = FALSE
    /\ UNCHANGED velocity
    /\ Leave

\* The flag in the copy is cleared only after the position was written.
PositionUntracked ==
    /\ section.call = "position" /\ Returned("serve", "tracking")
    /\ UNCHANGED <<guarded, stale>>
    /\ Proceed(SetPosition(section.position))

PositionMoved ==
    /\ section.call = "position" /\ Returned("serve", "position")
    /\ state' = [state EXCEPT !.position = section.position, !.tracking = FALSE]
    /\ Assigned({"position", "tracking"})
    /\ backgroundError' = FALSE
    /\ UNCHANGED velocity
    /\ Leave

Zoomed ==
    /\ section.call = "zoom" /\ Returned("serve", "zoom")
    /\ state' = [state EXCEPT !.zoom = section.zoom]
    /\ Assigned({"zoom"})
    /\ backgroundError' = FALSE
    /\ UNCHANGED velocity
    /\ Leave

TrackingSet ==
    /\ section.call = "tracking" /\ Returned("serve", "tracking")
    /\ state' = [state EXCEPT !.tracking = section.tracking]
    /\ Assigned({"tracking"})
    /\ backgroundError' = FALSE
    /\ UNCHANGED velocity
    /\ Leave

\* An exception leaves the section; a pass catches it.
SectionThrows ==
    /\ Threw("serve")
    /\ IF section.call = "pass" THEN velocity' = Stopped /\ backgroundError' = TRUE
                                ELSE UNCHANGED <<velocity, backgroundError>>
    /\ UNCHANGED <<state, stale>>
    /\ Leave

Enter ==
    \/ LockStatus
    \/ \E p \in Targets : LockPosition(p)
    \/ \E z \in Zooms : LockZoom(z)
    \/ \E enabled \in BOOLEAN : LockTracking(enabled)
    \/ \E next \in Targets, starting \in BOOLEAN : LockPass(next, starting)
    \/ \E v \in Velocities : RequestVelocity(v)

Continue ==
    \/ StatusRead
    \/ PassRead \/ PassUntracked \/ PassMoved
    \/ PositionUntracked \/ PositionMoved
    \/ Zoomed
    \/ TrackingSet
    \/ SectionThrows

----------------------------------------------------------------------------
\* One-shot commands: another process, which reads no copy and takes no lock.

\* Mutant: the lower limits are forgotten.
Accepted_upper_only(s) ==
    CASE s.command = "position" -> \A a \in Axes : s.position[a] <= Ranges[a].maximum
      [] s.command = "zoom"     -> s.zoom \in Zooms
      [] OTHER                  -> TRUE

\* What run_one_shot checks before it writes.
Accepted(s) ==
    CASE s.command = "position" -> Inside(s.position)
      [] s.command = "zoom"     -> s.zoom \in Zooms
      [] OTHER                  -> TRUE

Target(s) == IF s.command = "center" THEN Center ELSE s.position

\* Mutant: the camera is moved before it stops tracking.
FirstMethod_moves(s) ==
    CASE s.command = "status"               -> ReadState
      [] s.command \in {"center", "position"} -> SetPosition(Target(s))
      [] s.command = "zoom"                 -> SetZoom(s.zoom)
      [] s.command = "tracking"             -> SetTracking(s.tracking)

FirstMethod(s) ==
    CASE s.command = "status"               -> ReadState
      [] s.command \in {"center", "position"} -> SetTracking(FALSE)
      [] s.command = "zoom"                 -> SetZoom(s.zoom)
      [] s.command = "tracking"             -> SetTracking(s.tracking)

ShotStart(s) ==
    /\ shot = NoShot /\ plugged
    /\ Bounded
    /\ Accepted(s)
    /\ shot' = s
    /\ Begin("shot", FirstMethod(s))
    /\ disturbed' = {}
    /\ UNCHANGED <<platform, camera, serving>>

ShotUntracked ==
    /\ shot.command \in {"center", "position"} /\ Returned("shot", "tracking")
    /\ Begin("shot", SetPosition(Target(shot)))
    /\ UNCHANGED <<platform, camera, begun, serving, shooting>>

\* print_status reads the state.
ShotWritten ==
    /\ \/ Returned("shot", "position") \/ Returned("shot", "zoom")
       \/ shot.command = "tracking" /\ Returned("shot", "tracking")
    /\ Begin("shot", ReadState)
    /\ UNCHANGED <<platform, camera, begun, serving, shooting>>

ShotEnds ==
    /\ shot' = NoShot
    /\ End("shot")
    /\ disturbed' = {}
    /\ UNCHANGED <<platform, camera, begun, serving>>

ShotPrints == Returned("shot", "read") /\ ShotEnds
ShotThrows == Threw("shot") /\ ShotEnds

OneShot ==
    \/ \E s \in Shots : ShotStart(s)
    \/ ShotUntracked \/ ShotWritten \/ ShotPrints \/ ShotThrows

----------------------------------------------------------------------------
\* The camera on its own.

\* It turns after its subject; a gesture switches tracking.
CameraChanges(values) ==
    /\ plugged /\ Bounded
    /\ Overwrite(values)
    /\ stale' = stale \cup FieldsOf(DOMAIN values)
    /\ fresh' = fresh \ DOMAIN values
    /\ disturbed' = Disturbing(DOMAIN values)
    /\ interfered' = Interfering(DOMAIN values)
    /\ UNCHANGED <<platform, plugged, work, section, guarded, before, shot>>

CameraTracks ==
    /\ device["tracking"] # 0
    /\ \E p \in Targets : CameraChanges([a \in Axes |-> Raw(p[a])])

TrackingSwitched ==
    CameraChanges([c \in {"tracking"} |-> IF device["tracking"] = 0 THEN 1 ELSE 0])

Unplugged ==
    /\ plugged /\ Bounded
    /\ plugged' = FALSE
    /\ UNCHANGED <<platform, device, work, serving, shooting>>

World == CameraTracks \/ TrackingSwitched \/ Unplugged

----------------------------------------------------------------------------
\* serve has connected and read the camera's state.
BackendInit ==
    /\ platform \in {"linux", "macos"}
    /\ plugged = TRUE
    /\ \E z \in Zooms, t \in {0, 1} :
          device = [c \in Controls |->
                      IF c = "zoom" THEN Raw(z) ELSE IF c = "tracking" THEN t ELSE 0]
    /\ begun = 0
    /\ work = [p \in Processes |-> Idle]
    /\ section = NoSection
    /\ state = StateOf(device)
    /\ velocity = Stopped
    /\ backgroundError = FALSE
    /\ shot = NoShot /\ disturbed = {}
    /\ before = NoSnapshot
    /\ fresh = {} /\ stale = {} /\ interfered = FALSE

BackendNext ==
    \/ \E p \in Processes : Complete(p) \/ Interruption(p)
    \/ Enter \/ Continue
    \/ OneShot
    \/ World

BackendSpec == BackendInit /\ [][BackendNext]_vars

\* serve runs the section it is in, and the kernel completes a request in the
\* end.  Nobody is obliged to call, to begin a command or to unplug.
BackendFairness ==
    /\ WF_vars(Complete("serve")) /\ WF_vars(Continue)
    /\ WF_vars(Complete("shot"))
    /\ WF_vars(ShotUntracked \/ ShotWritten \/ ShotPrints \/ ShotThrows)

BackendFairSpec == BackendSpec /\ BackendFairness

----------------------------------------------------------------------------
\* Properties.

RawPositions(a) == Raw(Ranges[a].minimum) .. Raw(Ranges[a].maximum)
RawZooms == {Raw(z) : z \in Zooms}

\* Every variable has its type; in particular what reaches the camera lies in
\* the range it advertises, whoever wrote it and by whichever backend.
BackendTypeOK ==
    /\ platform \in {"linux", "macos"}
    /\ plugged \in BOOLEAN
    /\ DOMAIN device = Controls
    /\ \A a \in Axes : device[a] \in RawPositions(a)
    /\ device["zoom"] \in RawZooms /\ device["tracking"] \in {0, 1}
    /\ begun \in 0 .. Limit
    /\ Inside(state.position) /\ state.zoom \in Zooms /\ state.tracking \in BOOLEAN
    /\ velocity \in Velocities \cup {Stopped}
    /\ backgroundError \in BOOLEAN
    /\ fresh \subseteq Controls /\ disturbed \subseteq Controls
    /\ stale \subseteq {"position", "zoom", "tracking"}
    /\ interfered \in BOOLEAN

\* The copy that serve keeps agrees with the camera, to half a raw unit, in
\* every field that nobody else touched, and no request failed on, since it
\* was last read or written as a whole.
CopyWithinHalfUnit ==
    section = NoSection =>
        /\ "position" \notin stale =>
              \A a \in Axes : 2 * Abs(state.position[a] - FromRaw(device[a])) <= Scale
        /\ "zoom" \notin stale => 2 * Abs(state.zoom - FromRaw(device["zoom"])) <= Scale
        /\ "tracking" \notin stale => state.tracking = (device["tracking"] # 0)

\* The critical sections, each a chain of requests that can fail at any link,
\* do to the guarded state and the camera what ControllerCore says they do in
\* one step, on both platforms; unless another process interfered.
Seen == IF section = NoSection THEN Actual ELSE before
Core == INSTANCE ControllerCore WITH
            camera <- Seen.camera, state <- Seen.state, velocity <- Seen.velocity,
            backgroundError <- Seen.backgroundError, stale <- Seen.stale
SectionsImplementCore ==
    [][interfered \/ (Pending("shot") /\ UNCHANGED <<section, velocity>>) \/ Core!CoreNext]_Seen

\* A one-shot command moves the camera only after it stopped the tracking,
\* unless somebody else switched it on again meanwhile.
MovesUntracked ==
    [][\A a \in Axes :
          (Pending("shot") /\ a \in DOMAIN Request("shot").writes /\ device'[a] # device[a])
              => device["tracking"] = 0 \/ "tracking" \in disturbed]_vars

\* What a one-shot command prints is what it commanded, as the camera holds
\* it, in every control that nobody else changed meanwhile.
Output == StateOf(work["shot"].got)
PrintsItsCommand ==
    Returned("shot", "read") =>
        /\ shot.command \in {"center", "position"} =>
              /\ \A a \in Axes \ disturbed : Output.position[a] = Held(Target(shot)[a])
              /\ Output.tracking => "tracking" \in disturbed
        /\ shot.command = "zoom" =>
              Output.zoom = Held(shot.zoom) \/ "zoom" \in disturbed
        /\ shot.command = "tracking" =>
              Output.tracking = shot.tracking \/ "tracking" \in disturbed

\* A section of serve ends, and so does a one-shot command, whatever requests
\* fail and also when the camera is gone: nobody keeps the mutex.
CallsEnd ==
    /\ (section # NoSection) ~> (section = NoSection)
    /\ (shot # NoShot) ~> (shot = NoShot)
=============================================================================
