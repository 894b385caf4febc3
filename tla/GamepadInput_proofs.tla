------------------------ MODULE GamepadInput_proofs ------------------------
(***************************************************************************)
(* Proofs about the gamepad thread, for every mapping, set of pads, range  *)
(* of zooms and behaviour of the other callers.                            *)
(***************************************************************************)
EXTENDS GamepadInput, ControllerCore_proofs

(***************************************************************************)
(* The shape of the stick.                                                 *)
(***************************************************************************)

\* The deadzone is silent.
LEMMA DeadzoneIsSilent ==
    ASSUME NEW raw \in Int, NEW deadzone \in Int, Abs(raw) <= deadzone
    PROVE  ShapeAxis(raw, deadzone) = 0
  BY DEF ShapeAxis, Abs

\* Squares keep the order of what is not negative, ...
LEMMA SquaresKeepOrder ==
    ASSUME NEW x \in Nat, NEW y \in Nat, x <= y PROVE x * x <= y * y
<1>1. x * x <= x * y
  OBVIOUS
<1>2. x * y <= y * y
  OBVIOUS
<1> QED
  BY ONLY <1>1, <1>2, x \in Nat, y \in Nat

\* ... and so do products with it.
LEMMA ProductWithin ==
    ASSUME NEW s \in Int, NEW bound \in Nat, NEW m \in Nat, -bound <= s, s <= bound
    PROVE  /\ s * m \in Int /\ m * bound \in Nat
           /\ -(m * bound) <= s * m /\ s * m <= m * bound
<1>1. s * m <= bound * m
  OBVIOUS
<1>2. (-s) * m <= bound * m
  OBVIOUS
<1>3. (-s) * m = -(s * m) /\ bound * m = m * bound
  OBVIOUS
<1> QED
  BY ONLY <1>1, <1>2, <1>3, s \in Int, bound \in Nat, m \in Nat

\* A shaped axis is largest at full deflection.
LEMMA ShapeWithin ==
    ASSUME NEW full \in Nat, NEW raw \in -full .. full, NEW deadzone \in 0 .. full
    PROVE  /\ ShapeAxis(raw, deadzone) \in Int
           /\ (full - deadzone) * (full - deadzone) \in Nat
           /\ -((full - deadzone) * (full - deadzone)) <= ShapeAxis(raw, deadzone)
           /\ ShapeAxis(raw, deadzone) <= (full - deadzone) * (full - deadzone)
<1> DEFINE beyond == Abs(raw) - deadzone
           rest == full - deadzone
<1>1. beyond \in Int /\ beyond <= rest /\ rest \in Nat
  BY DEF Abs
<1>2. ShapeAxis(raw, deadzone) = IF beyond <= 0 THEN 0 ELSE IF raw < 0 THEN -(beyond * beyond)
                                                              ELSE beyond * beyond
  BY DEF ShapeAxis
<1>3. rest * rest \in Nat
  BY <1>1
<1>4. ~(beyond <= 0) => beyond * beyond \in Nat /\ beyond * beyond <= rest * rest
  <2> HIDE DEF beyond, rest
  <2> QED
    BY <1>1, SquaresKeepOrder
<1> HIDE DEF beyond, rest
<1>5. /\ ShapeAxis(raw, deadzone) \in Int
      /\ -(rest * rest) <= ShapeAxis(raw, deadzone) /\ ShapeAxis(raw, deadzone) <= rest * rest
  BY <1>1, <1>2, <1>3, <1>4
<1> QED
  BY <1>3, <1>5 DEF rest

\* Whatever SDL reports, the normalized axis lies in its unit.
LEMMA NormalizedInUnit ==
    ASSUME NEW raw \in AxisValues
    PROVE  Unit \in Nat /\ NormalizedAxis(raw) \in -Unit .. Unit
<1>1. FullAxis \in Nat /\ raw \in Int
  BY MappingAssumption DEF AxisValues
<1>2. Unit \in Nat
  BY <1>1 DEF Unit
<1>3. PICK x \in Int : x = IF raw >= 0 THEN raw * (FullAxis + 1) ELSE raw * FullAxis
  BY <1>1
<1>4. -Unit \in Int /\ -Unit <= Unit
  BY <1>2
<1>5. NormalizedAxis(raw) = Clamp(x, -Unit, Unit)
  BY <1>3 DEF NormalizedAxis
<1>6. Clamp(x, -Unit, Unit) \in Int /\ -Unit <= Clamp(x, -Unit, Unit) /\ Clamp(x, -Unit, Unit) <= Unit
  BY ONLY <1>2, <1>4, x \in Int, ClampInRange
<1> QED
  BY ONLY <1>2, <1>5, <1>6

\* A product with a direction and a speed stays within the speed.
LEMMA DirectedWithin ==
    ASSUME NEW s \in Int, NEW bound \in Nat, NEW m \in Nat, -bound <= s, s <= bound,
           NEW invert \in BOOLEAN
    PROVE  /\ -(m * bound) <= s * m * Direction(invert)
           /\ s * m * Direction(invert) <= m * bound
<1>1. PICK t \in Int : t = s * m
  OBVIOUS
<1>2. PICK u \in Nat : u = m * bound
  OBVIOUS
<1>3. -u <= t /\ t <= u
  BY <1>1, <1>2, ProductWithin
<1>4. t * Direction(invert) = t \/ t * Direction(invert) = -t
  BY DEF Direction
<1> QED
  BY <1>1, <1>2, <1>3, <1>4

\* The stick asks for no more than full speed, and for nothing at all while it
\* lies in its deadzone.
LEMMA StickIsBounded ==
    ASSUME NEW p \in Pads, NEW a \in Axes
    PROVE  /\ -FullSpeed(a) <= StickVelocity(p)[a]
           /\ StickVelocity(p)[a] <= FullSpeed(a)
           /\ Released(p) => StickVelocity(p)[a] = 0
<1>1. p.x \in AxisValues /\ p.y \in AxisValues
  BY PadsAssumption
<1>2. PICK u \in Nat : u = Unit
  BY <1>1, NormalizedInUnit
<1>3. PICK x \in -u .. u : x = NormalizedAxis(p.x)
  BY <1>1, <1>2, NormalizedInUnit
<1>4. PICK y \in -u .. u : y = NormalizedAxis(p.y)
  BY <1>1, <1>2, NormalizedInUnit
<1>5. /\ Mapping.deadzone \in 0 .. u /\ Mapping.maximumPanSpeed \in Nat
      /\ Mapping.maximumTiltSpeed \in Nat
      /\ Mapping.invertPan \in BOOLEAN /\ Mapping.invertTilt \in BOOLEAN
  BY <1>2, MappingAssumption
<1> DEFINE d == Mapping.deadzone
           bound == (u - d) * (u - d)
<1>6. a = "pan" \/ a = "tilt"
  BY AxesAssumption
<1>7. CASE a = "pan"
  <2>1. StickVelocity(p)[a] = ShapeAxis(x, d) * Mapping.maximumPanSpeed * Direction(Mapping.invertPan)
    BY ONLY <1>3, <1>7 DEF StickVelocity, MapGamepad
  <2>2. FullSpeed(a) = Mapping.maximumPanSpeed * (u - d) * (u - d)
    BY ONLY <1>2, <1>7 DEF FullSpeed
  <2>3. FullSpeed(a) = Mapping.maximumPanSpeed * bound
    BY ONLY <1>5, <2>2, u \in Nat
  <2>4. ShapeAxis(x, d) \in Int /\ bound \in Nat /\ -bound <= ShapeAxis(x, d) /\ ShapeAxis(x, d) <= bound
    BY ONLY <1>5, u \in Nat, x \in -u .. u, ShapeWithin
  <2>5. Released(p) => ShapeAxis(x, d) = 0
    BY ONLY <1>3, <1>5, x \in -u .. u, u \in Nat, DeadzoneIsSilent DEF Released
  <2>6. Released(p) => StickVelocity(p)[a] = 0
    BY ONLY <1>5, <2>1, <2>5 DEF Direction
  <2> HIDE DEF d, bound
  <2> QED
    BY ONLY <1>5, <2>1, <2>3, <2>4, <2>6, DirectedWithin
<1>8. CASE a = "tilt"
  <2>1. StickVelocity(p)[a] = ShapeAxis(y, d) * Mapping.maximumTiltSpeed * Direction(Mapping.invertTilt)
    BY ONLY <1>4, <1>8 DEF StickVelocity, MapGamepad
  <2>2. FullSpeed(a) = Mapping.maximumTiltSpeed * (u - d) * (u - d)
    BY ONLY <1>2, <1>8 DEF FullSpeed
  <2>3. FullSpeed(a) = Mapping.maximumTiltSpeed * bound
    BY ONLY <1>5, <2>2, u \in Nat
  <2>4. ShapeAxis(y, d) \in Int /\ bound \in Nat /\ -bound <= ShapeAxis(y, d) /\ ShapeAxis(y, d) <= bound
    BY ONLY <1>5, u \in Nat, y \in -u .. u, ShapeWithin
  <2>5. Released(p) => ShapeAxis(y, d) = 0
    BY ONLY <1>4, <1>5, y \in -u .. u, u \in Nat, DeadzoneIsSilent DEF Released
  <2>6. Released(p) => StickVelocity(p)[a] = 0
    BY ONLY <1>5, <2>1, <2>5 DEF Direction
  <2> HIDE DEF d, bound
  <2> QED
    BY ONLY <1>5, <2>1, <2>3, <2>4, <2>6, DirectedWithin
<1> QED
  BY <1>6, <1>7, <1>8

\* A released stick asks for no movement.
LEMMA ReleasedIsStill ==
    ASSUME NEW p \in Pads, Released(p) PROVE ~IsMoving(StickVelocity(p))
<1>1. DOMAIN StickVelocity(p) = Axes
  BY AxesAssumption DEF StickVelocity, MapGamepad
<1>2. \A a \in Axes : StickVelocity(p)[a] = 0
  BY StickIsBounded
<1> QED
  BY <1>1, <1>2 DEF IsMoving

\* Stopping is within every speed.
LEMMA FullSpeedIsNatural ==
    ASSUME NEW a \in Axes PROVE FullSpeed(a) \in Nat
<1>1. PICK r \in Nat : r = Unit - Mapping.deadzone
  <2>1. Unit \in Nat
    BY MappingAssumption DEF Unit
  <2> QED
    BY <2>1, MappingAssumption
<1>2. PICK m \in Nat : m = IF a = "pan" THEN Mapping.maximumPanSpeed ELSE Mapping.maximumTiltSpeed
  BY MappingAssumption
<1>3. FullSpeed(a) = m * r * r
  BY <1>1, <1>2 DEF FullSpeed
<1> QED
  BY ONLY <1>3, m \in Nat, r \in Nat

(***************************************************************************)
(* The invariant of the thread.                                            *)
(***************************************************************************)

\* Each press is counted by the flag of its button.
ButtonsCounted ==
    /\ centers = IF centerWasPressed THEN 1 ELSE 0
    /\ toggles = IF trackingWasPressed THEN 1 ELSE 0
    /\ gpc \in {"tracking", "toggle"} => centerWasPressed = pad.south
    /\ gpc = "toggle" => ~trackingWasPressed

\* A movement that the pad asked for is remembered until the stick rests.
StickRemembered ==
    /\ padDrives /\ IsMoving(velocity) => stickWasActive
    /\ gpc \in {"zoom", "center", "tracking", "toggle"} =>
          stickWasActive = IsMoving(StickVelocity(pad))

\* The thread inverts what it read.
Inverting == gpc = "toggle" => switched \/ enabled = ~camera.tracking

PadInv == /\ CoreTypeOK /\ PadTypeOK
          /\ ButtonsCounted /\ StickRemembered /\ Inverting /\ StickWithinSpeed

\* PadTypeOK, variable by variable.
LEMMA PadTypes ==
    PadTypeOK <=>
        /\ gpc \in {"top", "open", "stick", "zoom", "center", "tracking", "toggle", "done"}
        /\ pad \in Pads
        /\ zoom \in Zooms \cup {One}
        /\ connected \in BOOLEAN /\ opened \in BOOLEAN /\ reconnectDue \in BOOLEAN
        /\ centerWasPressed \in BOOLEAN /\ trackingWasPressed \in BOOLEAN
        /\ stickWasActive \in BOOLEAN /\ enabled \in BOOLEAN /\ stopPad \in BOOLEAN
        /\ padDrives \in BOOLEAN /\ switched \in BOOLEAN
        /\ centers \in Nat /\ toggles \in Nat /\ toggled \in BOOLEAN
  BY DEF PadTypeOK

\* The next zoom is one that the camera advertises, also when the one that the
\* thread starts with is not.
LEMMA NextZoomInRange ==
    ASSUME PadTypeOK, NEW seconds \in Waits PROVE NextZoom(seconds) \in Zooms
<1>1. /\ FullAxis \in Nat /\ One \in Int /\ MinZoom \in Int /\ MaxZoom \in Int /\ MinZoom <= MaxZoom
      /\ Zooms = MinZoom .. MaxZoom /\ seconds \in Int
  BY MappingAssumption, ZoomAssumption, WaitsAssumption
<1>2. zoom \in Int
  BY <1>1 DEF PadTypeOK
<1>3. pad.left \in AxisValues /\ pad.right \in AxisValues
  BY PadsAssumption DEF PadTypeOK
<1>4. ZoomVelocity(pad) \in Int
  <2>1. PositiveAxis(pad.left) \in Int /\ PositiveAxis(pad.right) \in Int
    BY <1>1, <1>3 DEF PositiveAxis, Clamp, AtMost, AxisValues
  <2> QED
    BY <2>1 DEF ZoomVelocity
<1>5. PICK x \in Int : x = zoom + ZoomVelocity(pad) * seconds
  BY ONLY <1>1, <1>2, <1>4
<1>6. NextZoom(seconds) = Clamp(x, MinZoom, MaxZoom)
  BY <1>5 DEF NextZoom
<1>7. Clamp(x, MinZoom, MaxZoom) \in MinZoom .. MaxZoom
  <2>1. /\ Clamp(x, MinZoom, MaxZoom) \in Int
        /\ MinZoom <= Clamp(x, MinZoom, MaxZoom) /\ Clamp(x, MinZoom, MaxZoom) <= MaxZoom
    BY ONLY <1>1, x \in Int, ClampInRange
  <2> QED
    BY ONLY <1>1, <2>1
<1> QED
  BY ONLY <1>1, <1>6, <1>7

\* What the thread may do to the guarded state, seen from the controller.
LEMMA CallsAreCore ==
    /\ \A ok \in BOOLEAN : CallStatus(ok) => [CoreNext]_core
    /\ \A ok \in BOOLEAN : CallCenter(ok) => CoreNext
    /\ \A z \in Zooms, ok \in BOOLEAN : CallSetZoom(z, ok) => CoreNext
    /\ \A t \in BOOLEAN, ok \in BOOLEAN : CallSetTracking(t, ok) => CoreNext
    /\ \A v \in Velocities : CallSetVelocity(v) => CoreNext
<1>1. \A ok \in BOOLEAN : CallStatus(ok) => CallStatus(TRUE) \/ UNCHANGED core
  BY DEF CallStatus
<1> QED
  BY <1>1 DEF CoreNext, Call

\* Every step of the thread is a step of the controller's callers or leaves
\* the guarded state alone.
LEMMA PadStepsAreCore ==
    ASSUME CoreTypeOK, PadTypeOK, [PadNext]_padVars PROVE [CoreNext]_core
<1>1. CASE PadLeave \/ PadTop \/ ReconnectTimer \/ StopGamepad
  BY <1>1 DEF PadLeave, PadTop, ReconnectTimer, StopGamepad
<1>2. CASE PadOpen
  BY <1>2, CallsAreCore DEF PadOpen
<1>3. CASE PadStick
  <2>1. StickVelocity(pad) \in Velocities
    BY PadsAssumption DEF PadTypeOK
  <2> QED
    BY <1>3, <2>1, CallsAreCore DEF PadStick
<1>4. CASE PadZoom
  <2>1. ASSUME NEW seconds \in Waits, zoom' = NextZoom(seconds) PROVE zoom' \in Zooms
    BY <2>1, NextZoomInRange
  <2> QED
    BY <1>4, <2>1, CallsAreCore DEF PadZoom
<1>5. CASE PadCenter
  BY <1>5, CallsAreCore DEF PadCenter
<1>6. CASE PadReadTracking
  BY <1>6, CallsAreCore DEF PadReadTracking
<1>7. CASE PadToggle
  <2>1. enabled \in BOOLEAN
    BY PadTypes
  <2> QED
    BY <1>7, <2>1, CallsAreCore DEF PadToggle
<1>8. CASE Others
  BY <1>8 DEF Others
<1>9. CASE UNCHANGED padVars
  BY <1>9 DEF padVars
<1> QED
  BY <1>1, <1>2, <1>3, <1>4, <1>5, <1>6, <1>7, <1>8, <1>9 DEF PadNext, Gamepad

(***************************************************************************)
(* Each part of the invariant is kept.                                     *)
(***************************************************************************)

\* The types, the range of the integrated zoom among them.
LEMMA PadTypesKept ==
    ASSUME CoreTypeOK, PadTypeOK, [PadNext]_padVars PROVE PadTypeOK'
<1> USE DEF PadTypeOK
<1>1. CASE PadLeave
  BY <1>1 DEF PadLeave, buttons, counts
<1>2. CASE PadTop
  BY <1>2 DEF PadTop, buttons, counts
<1>3. CASE PadOpen
  <2>1. camera.zoom \in Zooms
    BY DEF CoreTypeOK, CameraStates
  <2> QED
    BY <1>3, <2>1 DEF PadOpen, buttons, counts
<1>4. CASE PadStick
  BY <1>4 DEF PadStick, IsMoving, device, buttons, counts
<1>5. CASE PadZoom
  <2>1. zoom' \in Zooms \cup {One}
    BY <1>5, NextZoomInRange DEF PadZoom
  <2> QED
    BY <1>5, <2>1 DEF PadZoom, device, buttons, counts
<1>6. CASE PadCenter
  <2>1. pad.south \in BOOLEAN
    BY PadsAssumption
  <2> QED
    BY <1>6, <2>1 DEF PadCenter, device
<1>7. CASE PadReadTracking
  <2>1. pad.north \in BOOLEAN /\ camera.tracking \in BOOLEAN
    BY PadsAssumption DEF CoreTypeOK, CameraStates
  <2> QED
    BY <1>7, <2>1 DEF PadReadTracking, device
<1>8. CASE PadToggle
  <2>1. /\ toggles' \in Nat /\ toggled' \in BOOLEAN /\ trackingWasPressed' \in BOOLEAN
        /\ gpc' = "top" /\ enabled' = FALSE
    BY <1>8 DEF PadToggle
  <2>2. UNCHANGED <<connected, opened, reconnectDue, stopPad, pad, zoom, centerWasPressed,
                    stickWasActive, padDrives, centers, switched>>
    BY <1>8 DEF PadToggle, device
  <2> QED
    BY <2>1, <2>2
<1>9. CASE ReconnectTimer
  BY <1>9 DEF ReconnectTimer, buttons, counts
<1>10. CASE StopGamepad
  BY <1>10 DEF StopGamepad, buttons, counts
<1>11. CASE Others
  <2>1. padDrives' \in BOOLEAN /\ switched' \in BOOLEAN
    BY <1>11 DEF Others
  <2> QED
    BY <1>11, <2>1 DEF Others, device, buttons, counts
<1>12. CASE UNCHANGED padVars
  BY <1>12 DEF padVars, device, buttons, counts
<1> QED
  BY <1>1, <1>2, <1>3, <1>4, <1>5, <1>6, <1>7, <1>8, <1>9, <1>10, <1>11, <1>12
  DEF PadNext, Gamepad

\* The edge flags and the counts of what the presses did.
LEMMA ButtonsKept ==
    ASSUME PadTypeOK, ButtonsCounted, [PadNext]_padVars PROVE ButtonsCounted'
<1> USE PadTypes DEF ButtonsCounted
<1>1. CASE PadLeave \/ PadTop \/ ReconnectTimer \/ StopGamepad \/ PadOpen
  BY <1>1 DEF PadLeave, PadTop, ReconnectTimer, StopGamepad, PadOpen, device, buttons, counts
<1>2. CASE PadStick \/ PadZoom \/ Others \/ UNCHANGED padVars
  BY <1>2 DEF PadStick, PadZoom, Others, padVars, device, buttons, counts
<1>3. CASE PadCenter
  BY <1>3, PadsAssumption DEF PadCenter, device
<1>4. CASE PadReadTracking
  BY <1>4, PadsAssumption DEF PadReadTracking, device
<1>5. CASE PadToggle
  BY <1>5 DEF PadToggle, device
<1> QED
  BY <1>1, <1>2, <1>3, <1>4, <1>5 DEF PadNext, Gamepad

\* What the stick asked for: remembered while it lasts, and within its speed.
LEMMA StickKept ==
    ASSUME CoreTypeOK, PadTypeOK, StickRemembered, StickWithinSpeed, [PadNext]_padVars
    PROVE  StickRemembered' /\ StickWithinSpeed'
<1> USE PadTypes DEF StickRemembered, StickWithinSpeed
<1>1. CASE PadLeave \/ PadTop \/ ReconnectTimer \/ StopGamepad
  BY <1>1 DEF PadLeave, PadTop, ReconnectTimer, StopGamepad, core
<1>2. CASE PadOpen
  BY <1>2 DEF PadOpen, CallStatus, core
<1>3. CASE PadStick
  <2>1. \A a \in Axes : -FullSpeed(a) <= StickVelocity(pad)[a] /\ StickVelocity(pad)[a] <= FullSpeed(a)
    BY StickIsBounded
  <2> QED
    BY <1>3, <2>1 DEF PadStick, CallSetVelocity, core, device
<1>4. CASE PadZoom
  BY <1>4 DEF PadZoom, CallSetZoom, core, device
<1>5. CASE PadCenter \/ PadReadTracking \/ PadToggle
  <2>1. velocity' = velocity \/ velocity' = Stopped
    BY <1>5 DEF PadCenter, PadReadTracking, PadToggle, CallCenter, CallSetPosition, CallStatus,
                CallSetTracking, StopMotion, core
  <2>2. UNCHANGED <<pad, stickWasActive, padDrives>> /\ gpc \in {"center", "tracking", "toggle"}
    BY <1>5 DEF PadCenter, PadReadTracking, PadToggle, device
  <2>3. \A a \in Axes : Stopped[a] = 0 /\ -FullSpeed(a) <= 0 /\ 0 <= FullSpeed(a)
    BY FullSpeedIsNatural DEF Stopped
  <2> QED
    BY <2>1, <2>2, <2>3, StoppedIsNotMoving
<1>6. CASE Others
  BY <1>6 DEF Others, device
<1>7. CASE UNCHANGED padVars
  BY <1>7 DEF padVars, core, device
<1> QED
  BY <1>1, <1>2, <1>3, <1>4, <1>5, <1>6, <1>7 DEF PadNext, Gamepad

\* The value to be set stays the opposite of the one that was read.
LEMMA InvertingKept ==
    ASSUME CoreTypeOK, PadTypeOK, Inverting, [PadNext]_padVars PROVE Inverting'
<1> USE PadTypes DEF Inverting
<1>1. CASE Gamepad
  <2>1. CASE PadReadTracking
    BY <1>1, <2>1 DEF PadReadTracking, CallStatus
  <2> QED
    BY <1>1, <2>1 DEF Gamepad, PadLeave, PadTop, PadOpen, PadStick, PadZoom, PadCenter, PadToggle
<1>2. CASE ReconnectTimer \/ StopGamepad
  BY <1>2 DEF ReconnectTimer, StopGamepad, core
<1>3. CASE Others
  BY <1>3 DEF Others
<1>4. CASE UNCHANGED padVars
  BY <1>4 DEF padVars, core
<1> QED
  BY <1>1, <1>2, <1>3, <1>4 DEF PadNext

\* The invariant holds when the thread starts.
LEMMA PadInitially == PadInit => PadInv
<1> SUFFICES ASSUME PadInit PROVE PadInv
  OBVIOUS
<1>1. CoreTypeOK
  BY CoreInitTypes DEF PadInit
<1>3. PadTypeOK
  BY PadTypes DEF PadInit
<1>4. ButtonsCounted /\ StickRemembered /\ Inverting /\ StickWithinSpeed
  BY DEF PadInit, ButtonsCounted, StickRemembered, Inverting, StickWithinSpeed
<1> QED
  BY <1>1, <1>3, <1>4 DEF PadInv

\* Every step keeps the whole invariant.
LEMMA PadInvKept == PadInv /\ [PadNext]_padVars => PadInv'
  BY PadStepsAreCore, CoreStepsKeepTypes, PadTypesKept, ButtonsKept, StickKept, InvertingKept
  DEF PadInv

\* The invariant of the thread and of the controller it drives.
THEOREM PadCorrect == PadSpec => []PadInv
  BY PadInitially, PadInvKept, PTL DEF PadSpec

(***************************************************************************)
(* Results.                                                                *)
(***************************************************************************)

\* The zoom of the gamepad thread is the one it starts with or lies in the
\* advertised range, whatever that range is and however long the time over which
\* it is integrated; and no flag leaves its type.
THEOREM PadTypeCorrect == PadSpec => []PadTypeOK
<1>1. PadInv => PadTypeOK
  BY DEF PadInv
<1> QED
  BY <1>1, PadCorrect, PTL

\* The gamepad thread is a legal caller of the controller, whatever it sees of
\* the pad, whichever of its calls fail, and whether or not the range of the
\* camera contains the zoom that the thread starts with.
THEOREM GamepadIsLegal == PadSpec => LegalCaller
<1>1. PadInit => CoreInit
  BY DEF PadInit
<1>2. PadInv /\ [PadNext]_padVars => [CoreNext]_core
  BY PadStepsAreCore DEF PadInv
<1> QED
  BY <1>1, <1>2, PadCorrect, PTL DEF PadSpec, CoreSpec, LegalCaller

\* A stick in its deadzone moves nothing, for every mapping.
THEOREM ReleasedStickStopsHolds == PadSpec => []ReleasedStickStops
<1>1. PadInv => ReleasedStickStops
  BY ReleasedIsStill DEF PadInv, PadTypeOK, StickRemembered, ReleasedStickStops
<1> QED
  BY <1>1, PadCorrect, PTL

\* The stick never asks for more than the speed of the mapping.
THEOREM StickWithinSpeedHolds == PadSpec => []StickWithinSpeed
<1>1. PadInv => StickWithinSpeed
  BY DEF PadInv
<1> QED
  BY <1>1, PadCorrect, PTL

\* A press of the center button is served exactly once, whatever fails.
THEOREM CenterOncePerPressHolds == PadSpec => []CenterOncePerPress
<1>1. PadInv => CenterOncePerPress
  BY DEF PadInv, ButtonsCounted, CenterOncePerPress
<1> QED
  BY <1>1, PadCorrect, PTL

\* For a press of the tracking button that was served set_tracking() is not
\* called again, whatever fails.
THEOREM ToggleOncePerPressHolds == PadSpec => []ToggleOncePerPress
<1>1. PadInv => ToggleOncePerPress
  BY DEF PadInv, ButtonsCounted, ToggleOncePerPress
<1> QED
  BY <1>1, PadCorrect, PTL

\* It inverts what the camera does, unless somebody else came between the read
\* and the change.
THEOREM ToggleInvertsHolds == PadSpec => ToggleInverts
<1>1. ASSUME PadInv, [PadNext]_padVars, gpc = "toggle", toggles' > toggles, ~switched
      PROVE  camera'.tracking = ~camera.tracking
  <2>1. PadToggle
    <3>1. toggles \in Nat
      BY <1>1, PadTypes DEF PadInv
    <3> QED
      BY <1>1, <3>1 DEF PadNext, Gamepad, PadLeave, PadTop, PadOpen, PadStick, PadZoom, PadCenter,
                        PadReadTracking, ReconnectTimer, StopGamepad, Others, padVars, counts
  <2>2. camera \in CameraStates /\ enabled = ~camera.tracking
    BY <1>1 DEF PadInv, CoreTypeOK, Inverting
  <2>3. CallSetTracking(enabled, TRUE)
    <3>1. toggles \in Nat
      BY <1>1, PadTypes DEF PadInv
    <3>2. PICK ok \in BOOLEAN : /\ CallSetTracking(enabled, ok)
                               /\ toggles' = IF ok THEN toggles + 1 ELSE toggles
      BY <2>1 DEF PadToggle
    <3>3. ok = TRUE
      BY <1>1, <3>1, <3>2
    <3> QED
      BY <3>2, <3>3
  <2> QED
    BY <2>2, <2>3 DEF CallSetTracking, CameraStates
<1>2. PadInv /\ [PadNext]_padVars =>
        [(gpc = "toggle" /\ toggles' > toggles /\ ~switched) =>
            camera'.tracking = ~camera.tracking]_padVars
  BY <1>1
<1> QED
  BY <1>2, PadCorrect, PTL DEF PadSpec, ToggleInverts
=============================================================================
