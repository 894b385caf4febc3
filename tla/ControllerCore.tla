--------------------------- MODULE ControllerCore ---------------------------
(***************************************************************************)
(* The state that CameraController of src/src/controller.cpp guards with   *)
(* its mutex, and what one critical section does to it: the calls of the   *)
(* HTTP and gRPC handlers and of the gamepad thread, and a pass of the     *)
(* motion thread.  When the motion thread passes, and where it drives the  *)
(* camera, is left open here; CameraController adds the clock, the lease   *)
(* and the thread.                                                         *)
(*                                                                         *)
(* A call holds mutex_ from its first access to its last, so a call is one *)
(* action, with the outcome ok or not.  The camera behind the backend can  *)
(* fail any request.  A failed read changes nothing.  A failed write may   *)
(* leave any part of itself applied: the Linux backend writes pan and tilt *)
(* one after the other, and a USB transfer may time out after the device   *)
(* obeyed it.  The camera also changes on its own: it moves while it       *)
(* tracks a subject, and a gesture or a second linkd process switches      *)
(* tracking.                                                               *)
(***************************************************************************)
EXTENDS Control

CONSTANTS
    Axes,        \* the two axes, pan and tilt
    Ranges,      \* capabilities().pan and .tilt, as a range per axis
    Velocities,  \* velocities a caller asks for
    Zooms        \* zoom ratios a caller asks for

Stopped == [a \in Axes |-> 0]
Center  == [a \in Axes |-> 0]
Positions == PositionsIn(Ranges)

ASSUME RangesAssumption ==
    /\ Ranges \in [Axes -> [minimum : Int, maximum : Int]]
    /\ \A a \in Axes : Ranges[a].minimum <= 0 /\ 0 <= Ranges[a].maximum
ASSUME VelocitiesAssumption == Velocities \subseteq [Axes -> Int]

CameraStates == [position : Positions, zoom : Zooms, tracking : BOOLEAN]
Fields == {"position", "zoom", "tracking"}

VARIABLES
    camera,           \* what the device itself holds
    state,            \* state_, the controller's copy of it
    velocity,         \* velocity_
    backgroundError,  \* whether background_error_ holds a message
    stale             \* history: fields of state the device may have left behind

core == <<camera, state, velocity, backgroundError, stale>>

\* The constructor has read the camera's state.
CoreInit ==
    /\ camera \in [position : {Center}, zoom : Zooms, tracking : BOOLEAN]
    /\ state = camera
    /\ velocity = Stopped
    /\ backgroundError = FALSE
    /\ stale = {}

----------------------------------------------------------------------------
\* Calls.

\* What a position write leaves behind when it fails half way.
TornPositions(old, new) ==
    {[a \in Axes |-> IF a \in written THEN new[a] ELSE old[a]] : written \in SUBSET Axes}

\* status(): read_state, kept in state_.
CallStatus(ok) ==
    IF ok
      THEN /\ state' = camera
           /\ stale' = {}
           /\ UNCHANGED <<camera, velocity, backgroundError>>
      ELSE UNCHANGED core

\* Mutant: the velocity survives the commands that should end it.
StopMotion_keeps_velocity == UNCHANGED velocity

\* The first statement of set_position and of set_tracking: it is not undone
\* when the device refuses the rest.
StopMotion == velocity' = Stopped

\* Mutant: the copy keeps saying that the camera tracks.
PositionSet_keeps_flag(p) ==
    /\ camera' = [camera EXCEPT !.position = p,
                                !.tracking = IF state.tracking THEN FALSE ELSE @]
    /\ state' = [state EXCEPT !.position = p]
    /\ stale' = stale \ (IF state.tracking THEN {"position", "tracking"} ELSE {"position"})
    /\ backgroundError' = FALSE

\* set_position whose requests all succeed.  Tracking is switched off only
\* when the controller's copy says it is on.
PositionSet(p) ==
    /\ camera' = [camera EXCEPT !.position = p,
                                !.tracking = IF state.tracking THEN FALSE ELSE @]
    /\ state' = [state EXCEPT !.position = p, !.tracking = FALSE]
    /\ stale' = stale \ (IF state.tracking THEN {"position", "tracking"} ELSE {"position"})
    /\ backgroundError' = FALSE

\* set_position whose set_tracking(false) throws.
PositionTrackingFails ==
    /\ state.tracking
    /\ \E t \in {FALSE, camera.tracking} : camera' = [camera EXCEPT !.tracking = t]
    /\ stale' = stale \cup {"tracking"}
    /\ UNCHANGED <<state, backgroundError>>

\* set_position whose last request throws: tracking is already off in the
\* device, and the copy still says it is on.
PositionWriteFails(p) ==
    /\ \E q \in TornPositions(camera.position, p) :
          camera' = [camera EXCEPT !.position = q,
                                   !.tracking = IF state.tracking THEN FALSE ELSE @]
    /\ stale' = stale \cup (IF state.tracking THEN {"position", "tracking"} ELSE {"position"})
    /\ UNCHANGED <<state, backgroundError>>

CallSetPosition(p, ok) ==
    /\ StopMotion
    /\ IF ok THEN PositionSet(p) ELSE PositionTrackingFails \/ PositionWriteFails(p)

\* center() is set_position of the origin, whatever the ranges say.
CallCenter(ok) == CallSetPosition(Center, ok)

CallSetZoom(z, ok) ==
    /\ UNCHANGED velocity
    /\ IF ok
         THEN /\ camera' = [camera EXCEPT !.zoom = z]
              /\ state' = [state EXCEPT !.zoom = z]
              /\ stale' = stale \ {"zoom"}
              /\ backgroundError' = FALSE
         ELSE /\ \E y \in {z, camera.zoom} : camera' = [camera EXCEPT !.zoom = y]
              /\ stale' = stale \cup {"zoom"}
              /\ UNCHANGED <<state, backgroundError>>

CallSetTracking(enabled, ok) ==
    /\ StopMotion
    /\ IF ok
         THEN /\ camera' = [camera EXCEPT !.tracking = enabled]
              /\ state' = [state EXCEPT !.tracking = enabled]
              /\ stale' = stale \ {"tracking"}
              /\ backgroundError' = FALSE
         ELSE /\ \E t \in {enabled, camera.tracking} : camera' = [camera EXCEPT !.tracking = t]
              /\ stale' = stale \cup {"tracking"}
              /\ UNCHANGED <<state, backgroundError>>

\* set_velocity touches no device: the motion thread acts on it later.
CallSetVelocity(v) ==
    /\ velocity' = v
    /\ UNCHANGED <<camera, state, backgroundError, stale>>

Call ==
    \/ \E p \in Positions, ok \in BOOLEAN : CallSetPosition(p, ok)
    \/ \E ok \in BOOLEAN : CallCenter(ok)
    \/ \E z \in Zooms, ok \in BOOLEAN : CallSetZoom(z, ok)
    \/ \E enabled, ok \in BOOLEAN : CallSetTracking(enabled, ok)
    \/ \E v \in Velocities : CallSetVelocity(v)
    \/ CallStatus(TRUE)

----------------------------------------------------------------------------
\* A pass of the motion thread that finds a velocity to act on.  "starting"
\* says that the camera was not moving before it.

\* Mutant: the motion starts from the copy, which is not read afresh.
Base_not_read(starting) == IF starting THEN [state EXCEPT !.tracking = FALSE] ELSE state

\* The controller's copy before the step: when the motion starts it is read
\* afresh and tracking is switched off.
Base(starting) == IF starting THEN [camera EXCEPT !.tracking = FALSE] ELSE state

\* Mutant: the copy decides whether tracking has to be switched off.
TrackingLeft_by_copy(starting) == camera.tracking /\ ~(starting /\ state.tracking)

\* The device's tracking flag at the time of the position write.
TrackingLeft(starting) == camera.tracking /\ ~starting

DriveTo(next, starting) ==
    /\ camera' = [camera EXCEPT !.position = next, !.tracking = TrackingLeft(starting)]
    /\ state' = [Base(starting) EXCEPT !.position = next]
    /\ stale' = IF starting THEN {} ELSE stale \ {"position"}
    /\ backgroundError' = FALSE
    /\ UNCHANGED velocity

\* The catch block: the velocity is dropped and the message kept.
DriveFails ==
    /\ StopMotion
    /\ backgroundError' = TRUE

\* read_state throws when the motion starts.
DriveReadFails ==
    /\ DriveFails
    /\ UNCHANGED <<camera, state, stale>>

\* set_tracking(false) throws when the motion starts.
DriveTrackingFails ==
    /\ camera.tracking
    /\ \E t \in BOOLEAN : camera' = [camera EXCEPT !.tracking = t]
    /\ state' = camera
    /\ stale' = {"tracking"}
    /\ DriveFails

\* set_position throws.
DriveWriteFails(next, starting) ==
    /\ \E q \in TornPositions(camera.position, next) :
          camera' = [camera EXCEPT !.position = q, !.tracking = TrackingLeft(starting)]
    /\ state' = Base(starting)
    /\ stale' = IF starting THEN {"position"} ELSE stale \cup {"position"}
    /\ DriveFails

Drive ==
    /\ IsMoving(velocity)
    /\ \/ \E next \in Positions, starting \in BOOLEAN :
             DriveTo(next, starting) \/ DriveWriteFails(next, starting)
       \/ DriveReadFails
       \/ DriveTrackingFails

----------------------------------------------------------------------------
\* The camera changes on its own.

\* A tracking camera turns after its subject.
CameraTracks ==
    /\ camera.tracking
    /\ \E p \in Positions : camera' = [camera EXCEPT !.position = p]
    /\ stale' = stale \cup {"position"}
    /\ UNCHANGED <<state, velocity, backgroundError>>

\* A gesture, or "linkd tracking on" in another process.
TrackingSwitched ==
    /\ camera' = [camera EXCEPT !.tracking = ~@]
    /\ stale' = stale \cup {"tracking"}
    /\ UNCHANGED <<state, velocity, backgroundError>>

CameraChanges == CameraTracks \/ TrackingSwitched

CoreNext == Call \/ Drive \/ CameraChanges

CoreSpec == CoreInit /\ [][CoreNext]_core

----------------------------------------------------------------------------
\* Properties.

\* Every variable has its type; in particular every position, commanded or
\* integrated, lies inside the advertised ranges.
CoreTypeOK ==
    /\ camera \in CameraStates
    /\ state \in CameraStates
    /\ velocity \in Velocities \cup {Stopped}
    /\ backgroundError \in BOOLEAN
    /\ stale \in SUBSET Fields

\* A field of the controller's copy differs from the device only when the
\* device changed on its own or a write of that field failed, and it was not
\* read or written successfully since.
CopyIsCurrent == \A f \in Fields \ stale : state[f] = camera[f]
=============================================================================
