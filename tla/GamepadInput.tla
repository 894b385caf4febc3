---------------------------- MODULE GamepadInput ----------------------------
(***************************************************************************)
(* The gamepad thread of src/src/gamepad.cpp beside the controller.  It is *)
(* one more caller: its calls are those of ControllerCore, and the other   *)
(* callers, the motion thread and the camera go on between them.  A call   *)
(* that throws ends the poll, never the loop.                              *)
(*                                                                         *)
(* SDL is external: pumping its events fixes what the rest of the pass     *)
(* sees of the pad, a pad may come and go between passes, and one that is  *)
(* present can be opened.                                                  *)
(***************************************************************************)
EXTENDS ControllerCore

CONSTANTS
    FullAxis,   \* SDL's largest axis value: 32767; the smallest is -FullAxis - 1
    Mapping,    \* default_mapping(), its deadzone in the unit of NormalizedAxis
    Pads,       \* what a pass may see
    Waits,      \* times between two passes, which nothing bounds
    One,        \* the 1.0 that zoom_ starts with, in the unit of Zooms
    MinZoom,    \* capabilities().zoom
    MaxZoom

Unit == FullAxis * (FullAxis + 1)

\* normalized_axis: negative values reach one further than positive ones.
NormalizedAxis(raw) ==
    Clamp(IF raw >= 0 THEN raw * (FullAxis + 1) ELSE raw * FullAxis, -Unit, Unit)

\* positive_axis, in units of 1/FullAxis.
PositiveAxis(raw) == Clamp(raw, 0, FullAxis)

StickVelocity(p) == MapGamepad(NormalizedAxis(p.x), NormalizedAxis(p.y), Mapping)

ZoomVelocity(p) == PositiveAxis(p.right) - PositiveAxis(p.left)

\* The dead band of the triggers: 0.05.
Zooming(p) == 20 * Abs(ZoomVelocity(p)) > FullAxis

\* The stick lies in its deadzone, along both axes.
Released(p) == /\ Abs(NormalizedAxis(p.x)) <= Mapping.deadzone
               /\ Abs(NormalizedAxis(p.y)) <= Mapping.deadzone

AxisValues == -FullAxis - 1 .. FullAxis

ASSUME AxesAssumption == Axes = {"pan", "tilt"}
ASSUME MappingAssumption ==
    /\ FullAxis \in Nat \ {0}
    /\ Mapping \in [deadzone : 0 .. Unit - 1, maximumPanSpeed : Nat, maximumTiltSpeed : Nat,
                    invertPan : BOOLEAN, invertTilt : BOOLEAN]
ASSUME PadsAssumption ==
    /\ Pads \subseteq [x : AxisValues, y : AxisValues, left : AxisValues, right : AxisValues,
                       south : BOOLEAN, north : BOOLEAN]
    /\ \A p \in Pads : StickVelocity(p) \in Velocities
ASSUME WaitsAssumption == Waits \subseteq Nat
ASSUME ZoomAssumption ==
    /\ One \in Int /\ MinZoom \in Int /\ MaxZoom \in Int /\ MinZoom <= MaxZoom
    /\ Zooms = MinZoom .. MaxZoom
ASSUME StopAssumption == Stopped \in Velocities

VARIABLES
    gpc,              \* where the thread is; "top" is the head of the loop
    pad,              \* SDL's view of the pad in this pass
    connected,        \* whether a pad is plugged in, in this pass
    opened,           \* gamepad_ is not null
    reconnectDue,     \* now >= next_reconnect
    zoom,             \* zoom_
    centerWasPressed, \* center_was_pressed_
    trackingWasPressed,
    stickWasActive,
    enabled,          \* the local of that name in poll_gamepad
    stopPad           \* stop_requested_

\* History.
VARIABLES
    padDrives,        \* the velocity in the controller came from the pad
    centers,          \* calls of center() that returned since south was last found up
    toggles,          \* calls of set_tracking() that returned since north was last found up
    toggled,          \* one of that press changed what the camera does, returned or not
    switched          \* someone else changed tracking since it was read for "enabled"

buttons == <<centerWasPressed, trackingWasPressed>>
device  == <<connected, opened, reconnectDue, stopPad, pad>>
counts  == <<centers, toggles, toggled>>
padVars == <<core, gpc, device, zoom, buttons, stickWasActive, enabled, padDrives, counts, switched>>

PadInit ==
    /\ CoreInit
    /\ gpc \in {"top", "done"}     \* SDL_Init fails: the thread ends
    /\ pad \in {p \in Pads : Released(p) /\ ~Zooming(p) /\ ~p.south /\ ~p.north}
    /\ connected = FALSE /\ opened = FALSE /\ reconnectDue = TRUE
    /\ zoom = One                 \* whatever the camera advertises
    /\ centerWasPressed = FALSE /\ trackingWasPressed = FALSE /\ stickWasActive = FALSE
    /\ enabled = FALSE
    /\ stopPad = FALSE
    /\ padDrives = FALSE /\ switched = FALSE
    /\ centers = 0 /\ toggles = 0 /\ toggled = FALSE

----------------------------------------------------------------------------
\* The head of run()'s loop: leave and close the pad, ...
PadLeave ==
    /\ gpc = "top"
    /\ stopPad
    /\ gpc' = "done"
    /\ opened' = FALSE
    /\ UNCHANGED <<core, connected, reconnectDue, stopPad, pad, zoom, buttons, stickWasActive,
                   enabled, padDrives, counts, switched>>

\* ... or pump events, drop a pad that went away, and go on to look for one,
\* to poll the one there is, or to sleep.
PadTop ==
    /\ gpc = "top"
    /\ ~stopPad
    /\ pad' \in Pads
    /\ connected' \in BOOLEAN
    /\ opened' = (opened /\ connected')
    /\ gpc' = IF opened' THEN "stick" ELSE IF reconnectDue THEN "open" ELSE "top"
    /\ UNCHANGED <<core, reconnectDue, stopPad, zoom, buttons, stickWasActive, enabled,
                   padDrives, counts, switched>>

\* Mutant: a pad whose zoom cannot be read is closed again.
PadOpen_needs_status ==
    /\ gpc = "open"
    /\ reconnectDue' = FALSE
    /\ \/ /\ connected
          /\ \E ok \in BOOLEAN :
                /\ CallStatus(ok)
                /\ opened' = ok
                /\ zoom' = IF ok THEN camera.zoom ELSE zoom
                /\ gpc' = IF ok THEN "stick" ELSE "top"
       \/ /\ ~connected
          /\ gpc' = "top"
          /\ UNCHANGED <<core, opened, zoom>>
    /\ UNCHANGED <<connected, stopPad, pad, buttons, stickWasActive, enabled, padDrives, counts, switched>>

\* Mutant: a zoom that cannot be read is taken for zero.
PadOpen_zero_zoom ==
    /\ gpc = "open"
    /\ reconnectDue' = FALSE
    /\ opened' = connected
    /\ gpc' = IF connected THEN "stick" ELSE "top"
    /\ \E ok \in BOOLEAN : CallStatus(ok) /\ zoom' = IF ok THEN camera.zoom ELSE 0
    /\ UNCHANGED <<connected, stopPad, pad, buttons, stickWasActive, enabled, padDrives, counts, switched>>

\* open_gamepad, and the next deadline: the pad is kept even when status()
\* throws, and zoom_ then keeps what it was.
PadOpen ==
    /\ gpc = "open"
    /\ reconnectDue' = FALSE
    /\ opened' = connected
    /\ IF connected
         THEN /\ gpc' = "stick"
              /\ \E ok \in BOOLEAN : CallStatus(ok) /\ zoom' = IF ok THEN camera.zoom ELSE zoom
         ELSE /\ gpc' = "top"
              /\ UNCHANGED <<core, zoom>>
    /\ UNCHANGED <<connected, stopPad, pad, buttons, stickWasActive, enabled, padDrives, counts, switched>>

\* Mutant: only a stick that is off its rest is reported.
PadStick_active_only ==
    /\ gpc = "stick"
    /\ gpc' = "zoom"
    /\ stickWasActive' = IsMoving(StickVelocity(pad))
    /\ IF IsMoving(StickVelocity(pad))
         THEN CallSetVelocity(StickVelocity(pad)) /\ padDrives' = TRUE
         ELSE UNCHANGED <<core, padDrives>>
    /\ UNCHANGED <<device, zoom, buttons, enabled, counts, switched>>

\* poll_gamepad, the stick: one that came to rest is reported once more.
PadStick ==
    /\ gpc = "stick"
    /\ gpc' = "zoom"
    /\ stickWasActive' = IsMoving(StickVelocity(pad))
    /\ IF IsMoving(StickVelocity(pad)) \/ stickWasActive
         THEN CallSetVelocity(StickVelocity(pad)) /\ padDrives' = TRUE
         ELSE UNCHANGED <<core, padDrives>>
    /\ UNCHANGED <<device, zoom, buttons, enabled, counts, switched>>

\* Mutant: the range is forgotten.
NextZoom_unclamped(seconds) == zoom + ZoomVelocity(pad) * seconds

\* The zoom is integrated from the thread's own copy of it.
NextZoom(seconds) == Clamp(zoom + ZoomVelocity(pad) * seconds, MinZoom, MaxZoom)

PadZoom ==
    /\ gpc = "zoom"
    /\ IF ~Zooming(pad)
         THEN gpc' = "center" /\ UNCHANGED <<core, zoom>>
         ELSE /\ \E seconds \in Waits : zoom' = NextZoom(seconds)
              /\ \E ok \in BOOLEAN :
                    CallSetZoom(zoom', ok) /\ gpc' = IF ok THEN "center" ELSE "top"
    /\ UNCHANGED <<device, buttons, stickWasActive, enabled, padDrives, counts, switched>>

\* Mutant: the button is not remembered after its call.
PadCenter_forgets ==
    /\ gpc = "center"
    /\ IF pad.south /\ ~centerWasPressed
         THEN /\ UNCHANGED centerWasPressed
              /\ \E ok \in BOOLEAN :
                    /\ CallCenter(ok)
                    /\ gpc' = IF ok THEN "tracking" ELSE "top"
                    /\ centers' = IF ok THEN centers + 1 ELSE centers
         ELSE /\ gpc' = "tracking"
              /\ centerWasPressed' = pad.south
              /\ centers' = IF pad.south THEN centers ELSE 0
              /\ UNCHANGED core
    /\ UNCHANGED <<device, zoom, trackingWasPressed, stickWasActive, enabled, padDrives, toggles, toggled, switched>>

\* The flag follows the button only after the call returned, so a press whose
\* call throws is tried again in the next pass.
PadCenter ==
    /\ gpc = "center"
    /\ IF pad.south /\ ~centerWasPressed
         THEN \E ok \in BOOLEAN :
                 /\ CallCenter(ok)
                 /\ gpc' = IF ok THEN "tracking" ELSE "top"
                 /\ centerWasPressed' = ok
                 /\ centers' = IF ok THEN centers + 1 ELSE centers
         ELSE /\ gpc' = "tracking"
              /\ centerWasPressed' = pad.south
              /\ centers' = IF pad.south THEN centers ELSE 0
              /\ UNCHANGED core
    /\ UNCHANGED <<device, zoom, trackingWasPressed, stickWasActive, enabled, padDrives, toggles, toggled, switched>>

\* Mutant: the controller's copy is taken for the state of the camera.
PadReadTracking_cached ==
    /\ gpc = "tracking"
    /\ switched' = FALSE
    /\ UNCHANGED core
    /\ IF pad.north /\ ~trackingWasPressed
         THEN /\ gpc' = "toggle"
              /\ enabled' = ~state.tracking
              /\ UNCHANGED trackingWasPressed
         ELSE /\ gpc' = "top"
              /\ trackingWasPressed' = pad.north
              /\ UNCHANGED enabled
    /\ toggles' = IF pad.north THEN toggles ELSE 0
    /\ toggled' = (pad.north /\ toggled)
    /\ UNCHANGED <<device, zoom, centerWasPressed, stickWasActive, padDrives, centers>>

\* The tracking button: the state is read under one lock ...
PadReadTracking ==
    /\ gpc = "tracking"
    /\ switched' = FALSE
    /\ IF pad.north /\ ~trackingWasPressed
         THEN /\ UNCHANGED trackingWasPressed
              /\ \E ok \in BOOLEAN :
                    /\ CallStatus(ok)
                    /\ gpc' = IF ok THEN "toggle" ELSE "top"
                    /\ enabled' = IF ok THEN ~camera.tracking ELSE enabled
         ELSE /\ gpc' = "top"
              /\ trackingWasPressed' = pad.north
              /\ UNCHANGED <<core, enabled>>
    /\ toggles' = IF pad.north THEN toggles ELSE 0
    /\ toggled' = (pad.north /\ toggled)
    /\ UNCHANGED <<device, zoom, centerWasPressed, stickWasActive, padDrives, centers>>

\* Mutant: a served press is not remembered.
PadToggle_forgets ==
    /\ gpc = "toggle"
    /\ gpc' = "top"
    /\ \E ok \in BOOLEAN :
          CallSetTracking(enabled, ok) /\ toggles' = IF ok THEN toggles + 1 ELSE toggles
    /\ toggled' = (toggled \/ camera'.tracking # camera.tracking)
    /\ enabled' = FALSE
    /\ UNCHANGED <<device, zoom, buttons, stickWasActive, padDrives, centers, switched>>

\* ... and changed under the next.  As with the center button, a press whose
\* call throws is tried again in the next pass, with what the camera does then,
\* which the call may have changed.
PadToggle ==
    /\ gpc = "toggle"
    /\ gpc' = "top"
    /\ \E ok \in BOOLEAN :
          /\ CallSetTracking(enabled, ok)
          /\ trackingWasPressed' = ok
          /\ toggles' = IF ok THEN toggles + 1 ELSE toggles
    /\ toggled' = (toggled \/ camera'.tracking # camera.tracking)
    /\ enabled' = FALSE           \* the local goes out of scope
    /\ UNCHANGED <<device, zoom, centerWasPressed, stickWasActive, padDrives, centers, switched>>

Gamepad ==
    PadLeave \/ PadTop \/ PadOpen \/ PadStick \/ PadZoom \/ PadCenter \/ PadReadTracking \/ PadToggle

\* A second passed since the last attempt to open a pad.
ReconnectTimer ==
    /\ ~reconnectDue
    /\ reconnectDue' = TRUE
    /\ UNCHANGED <<core, gpc, connected, opened, stopPad, pad, zoom, buttons, stickWasActive, enabled,
                   padDrives, counts, switched>>

\* ~GamepadInput raises the flag and joins the thread.
StopGamepad ==
    /\ ~stopPad
    /\ stopPad' = TRUE
    /\ UNCHANGED <<core, gpc, connected, opened, reconnectDue, pad, zoom, buttons, stickWasActive, enabled,
                   padDrives, counts, switched>>

\* The other callers, the motion thread and the camera.
Others ==
    /\ CoreNext
    /\ padDrives' = (padDrives /\ velocity' = velocity)
    /\ switched' = (gpc = "toggle" /\ (switched \/ camera'.tracking # camera.tracking))
    /\ UNCHANGED <<gpc, device, zoom, buttons, stickWasActive, enabled, counts>>

PadNext == Gamepad \/ ReconnectTimer \/ StopGamepad \/ Others

PadSpec == PadInit /\ [][PadNext]_padVars

\* The scheduler runs the thread, its calls get the mutex, and time passes.
PadFairSpec == PadSpec /\ WF_padVars(Gamepad) /\ WF_padVars(ReconnectTimer)

----------------------------------------------------------------------------
\* Properties.

\* Every variable of the gamepad has its type; its zoom is the one it starts
\* with, which the camera need not advertise, until it was read or a trigger was
\* pressed, and lies in the advertised range from then on, although it is
\* integrated over an unbounded time and a status() that throws sets nothing.
PadTypeOK ==
    /\ gpc \in {"top", "open", "stick", "zoom", "center", "tracking", "toggle", "done"}
    /\ pad \in Pads
    /\ zoom \in Zooms \cup {One}
    /\ {connected, opened, reconnectDue, centerWasPressed, trackingWasPressed, stickWasActive,
        enabled, stopPad, padDrives, switched, toggled} \subseteq BOOLEAN
    /\ centers \in Nat /\ toggles \in Nat

\* However its calls fail and the other callers interleave, the gamepad makes
\* only calls that ControllerCore allows: what is proved of the critical
\* sections holds with the gamepad among the callers.
LegalCaller == CoreSpec

\* Once a pass has seen the stick in its deadzone, no movement the pad asked
\* for is still requested, until the stick leaves it: drift moves nothing.
ReleasedStickStops ==
    (gpc \in {"zoom", "center", "tracking", "toggle"} /\ Released(pad))
        => ~(padDrives /\ IsMoving(velocity))

\* The stick asks for no more than the speed of the mapping, at full deflection
\* as well, in either direction.
FullSpeed(a) == (IF a = "pan" THEN Mapping.maximumPanSpeed ELSE Mapping.maximumTiltSpeed)
                    * (Unit - Mapping.deadzone) * (Unit - Mapping.deadzone)
StickWithinSpeed ==
    padDrives => \A a \in Axes : -FullSpeed(a) <= velocity[a] /\ velocity[a] <= FullSpeed(a)

\* A press of the south button is served once, with passes that end before they
\* look at it in between: once center() returned it is not called again while
\* the button is held, and a pass that gets past the button has served it.
CenterOncePerPress ==
    /\ centers <= 1
    /\ gpc \in {"tracking", "toggle"} /\ pad.south => centers = 1

\* So is a press of the north button: the thread gets as far as set_tracking(),
\* and whatever becomes of it, only for a press that no call of it has served,
\* also when passes that ended before they looked at the button lie between.
ToggleOncePerPress ==
    /\ toggles <= 1
    /\ gpc = "toggle" => toggles = 0

\* README: the north button toggles tracking.  Not so when set_tracking() throws
\* after the camera obeyed: the press is tried again, and changes it back.
PressTogglesOnce ==
    [][(gpc = "toggle" /\ gpc' = "top" /\ camera'.tracking # camera.tracking) => ~toggled]_padVars

\* The change inverts what the camera does, unless tracking was changed by
\* someone else between the thread's read and its call.
ToggleInverts ==
    [][(gpc = "toggle" /\ toggles' > toggles /\ ~switched) =>
          camera'.tracking = ~camera.tracking]_padVars

\* A pad that stays plugged in is opened, whatever the camera answers.
Reconnects == (connected /\ gpc # "done") ~> (opened \/ ~connected \/ stopPad)

\* README: the right trigger zooms in and the left one zooms out.  Not so once
\* the zoom was changed by another client, or could not be read, since the pad
\* was opened: zoom_ is read nowhere else.
TriggerFollowsSign ==
    [][(gpc = "zoom" /\ gpc' = "center") =>
          (camera'.zoom - camera.zoom) * ZoomVelocity(pad) >= 0]_padVars
=============================================================================
