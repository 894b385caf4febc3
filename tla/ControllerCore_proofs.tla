------------------------ MODULE ControllerCore_proofs ------------------------
(***************************************************************************)
(* Proofs about the critical sections of the controller, for every set of  *)
(* axes, ranges, velocities and zooms.                                     *)
(***************************************************************************)
EXTENDS ControllerCore, TLAPS

(***************************************************************************)
(* Lemmas about the operators of Control.                                  *)
(***************************************************************************)

\* A position is a function that stays inside the range of every axis.
LEMMA PositionsCharacterised ==
    \A p : p \in Positions <=>
             /\ p \in [Axes -> Int]
             /\ \A a \in Axes : Ranges[a].minimum <= p[a] /\ p[a] <= Ranges[a].maximum
<1> USE RangesAssumption
<1>1. DOMAIN Ranges = Axes
  OBVIOUS
<1>2. ASSUME NEW p, p \in Positions
      PROVE  /\ p \in [Axes -> Int]
             /\ \A a \in Axes : Ranges[a].minimum <= p[a] /\ p[a] <= Ranges[a].maximum
  <2>1. \A a \in Axes : p[a] \in Ranges[a].minimum .. Ranges[a].maximum
    BY <1>1, <1>2 DEF Positions, PositionsIn
  <2>2. \A a \in Axes : p[a] \in Int
    BY <2>1
  <2>3. p = [a \in Axes |-> p[a]]
    BY <1>1, <1>2 DEF Positions, PositionsIn
  <2> QED
    BY <2>1, <2>2, <2>3
<1>3. ASSUME NEW p \in [Axes -> Int],
             \A a \in Axes : Ranges[a].minimum <= p[a] /\ p[a] <= Ranges[a].maximum
      PROVE  p \in Positions
  <2>1. \A a \in Axes : p[a] \in Ranges[a].minimum .. Ranges[a].maximum
    BY <1>3
  <2>2. p \in [Axes -> UNION {Ranges[a].minimum .. Ranges[a].maximum : a \in Axes}]
    BY <2>1
  <2> QED
    BY <1>1, <2>1, <2>2 DEF Positions, PositionsIn
<1> QED
  BY <1>2, <1>3

\* The origin is a position: center() needs no range check.
LEMMA CenterIsPosition == Center \in Positions
  BY PositionsCharacterised, RangesAssumption DEF Center

\* A clamped value lies between the bounds.
LEMMA ClampInRange ==
    ASSUME NEW x \in Int, NEW low \in Int, NEW high \in Int, low <= high
    PROVE  Clamp(x, low, high) \in Int /\ low <= Clamp(x, low, high) /\ Clamp(x, low, high) <= high
  BY DEF Clamp, AtMost

\* Whatever the velocity and the time, the next position is in range.
LEMMA AdvanceInRange ==
    ASSUME NEW p \in Positions, NEW v \in [Axes -> Int], NEW e \in Int
    PROVE  AdvancePosition(p, v, e, Ranges) \in Positions
<1> DEFINE q == AdvancePosition(p, v, e, Ranges)
<1>1. DOMAIN Ranges = Axes /\ \A a \in Axes : Ranges[a].minimum \in Int /\ Ranges[a].maximum \in Int
                              /\ Ranges[a].minimum <= Ranges[a].maximum
  BY RangesAssumption
<1>2. \A a \in Axes : p[a] + v[a] * e \in Int
  BY PositionsCharacterised
<1>3. q = [a \in Axes |-> Clamp(p[a] + v[a] * e, Ranges[a].minimum, Ranges[a].maximum)]
  BY <1>1 DEF AdvancePosition
<1>4. \A a \in Axes : q[a] \in Int /\ Ranges[a].minimum <= q[a] /\ q[a] <= Ranges[a].maximum
  <2> TAKE a \in Axes
  <2>1. PICK x \in Int : x = p[a] + v[a] * e
    BY <1>2
  <2>2. q[a] = Clamp(x, Ranges[a].minimum, Ranges[a].maximum)
    BY <1>3, <2>1
  <2> HIDE DEF q
  <2> QED
    BY <1>1, <2>2, ClampInRange
<1>5. q \in [Axes -> Int]
  BY <1>3, <1>4
<1> QED
  BY <1>4, <1>5, PositionsCharacterised

\* A write that fails half way leaves a position: each axis is old or new.
LEMMA TornIsPosition ==
    ASSUME NEW p \in Positions, NEW q \in Positions, NEW r \in TornPositions(p, q)
    PROVE  r \in Positions
<1>1. PICK w \in SUBSET Axes : r = [a \in Axes |-> IF a \in w THEN q[a] ELSE p[a]]
  BY DEF TornPositions
<1>2. r \in [Axes -> Int]
  BY <1>1, PositionsCharacterised
<1>3. \A a \in Axes : Ranges[a].minimum <= r[a] /\ r[a] <= Ranges[a].maximum
  BY <1>1, PositionsCharacterised
<1> QED
  BY <1>2, <1>3, PositionsCharacterised

(***************************************************************************)
(* Types.                                                                  *)
(***************************************************************************)

\* A stopped velocity does not move.
LEMMA StoppedIsNotMoving == ~IsMoving(Stopped)
  BY DEF IsMoving, Stopped

\* Calls preserve the types.
LEMMA CallKeepsTypes ==
    ASSUME CoreTypeOK, Call PROVE CoreTypeOK'
<1> USE DEF CoreTypeOK
<1>1. ASSUME NEW p \in Positions, NEW ok \in BOOLEAN, CallSetPosition(p, ok) PROVE CoreTypeOK'
  <2> USE <1>1 DEF CallSetPosition, StopMotion, Fields
  <2>1. CASE PositionSet(p)
    BY <2>1 DEF PositionSet, CameraStates
  <2>2. CASE PositionTrackingFails
    BY <2>2 DEF PositionTrackingFails, CameraStates
  <2>3. CASE PositionWriteFails(p)
    <3>1. PICK q \in TornPositions(camera.position, p) :
             camera' = [camera EXCEPT !.position = q,
                                      !.tracking = IF state.tracking THEN FALSE ELSE @]
      BY <2>3 DEF PositionWriteFails
    <3>2. q \in Positions
      BY TornIsPosition DEF CameraStates
    <3> QED
      BY <2>3, <3>1, <3>2 DEF PositionWriteFails, CameraStates
  <2> QED
    BY <2>1, <2>2, <2>3
<1>2. ASSUME NEW z \in Zooms, NEW ok \in BOOLEAN, CallSetZoom(z, ok) PROVE CoreTypeOK'
  BY <1>2 DEF CallSetZoom, CameraStates, Fields
<1>3. ASSUME NEW t \in BOOLEAN, NEW ok \in BOOLEAN, CallSetTracking(t, ok) PROVE CoreTypeOK'
  BY <1>3 DEF CallSetTracking, StopMotion, CameraStates, Fields
<1>4. ASSUME NEW v \in Velocities, CallSetVelocity(v) PROVE CoreTypeOK'
  BY <1>4 DEF CallSetVelocity
<1>5. CASE CallStatus(TRUE)
  BY <1>5 DEF CallStatus
<1> QED
  BY <1>1, <1>2, <1>3, <1>4, <1>5, CenterIsPosition DEF Call, CallCenter

\* Passes of the motion thread preserve the types.
LEMMA DriveKeepsTypes ==
    ASSUME CoreTypeOK, NEW next \in Positions, NEW starting \in BOOLEAN
    PROVE  /\ DriveTo(next, starting) => CoreTypeOK'
           /\ DriveWriteFails(next, starting) => CoreTypeOK'
           /\ DriveReadFails => CoreTypeOK'
           /\ DriveTrackingFails => CoreTypeOK'
<1> USE DEF CoreTypeOK, DriveFails, StopMotion, Fields
<1>1. Base(starting) \in CameraStates
  BY DEF Base, CameraStates
<1>2. CASE DriveTo(next, starting)
  BY <1>1, <1>2 DEF DriveTo, TrackingLeft, CameraStates
<1>3. CASE DriveWriteFails(next, starting)
  <2>1. PICK q \in TornPositions(camera.position, next) :
           camera' = [camera EXCEPT !.position = q, !.tracking = TrackingLeft(starting)]
    BY <1>3 DEF DriveWriteFails
  <2>2. q \in Positions
    BY TornIsPosition DEF CameraStates
  <2> QED
    BY <1>1, <1>3, <2>1, <2>2 DEF DriveWriteFails, TrackingLeft, CameraStates
<1>4. CASE DriveReadFails
  BY <1>4 DEF DriveReadFails
<1>5. CASE DriveTrackingFails
  BY <1>5 DEF DriveTrackingFails, CameraStates
<1> QED
  BY <1>2, <1>3, <1>4, <1>5

\* So do the camera's own changes.
LEMMA CameraChangesKeepTypes ==
    ASSUME CoreTypeOK, CameraChanges PROVE CoreTypeOK'
  BY DEF CoreTypeOK, CameraChanges, CameraTracks, TrackingSwitched, CameraStates, Fields

\* The types hold when the controller is built.
LEMMA CoreInitTypes == CoreInit => CoreTypeOK
<1> SUFFICES ASSUME CoreInit PROVE CoreTypeOK
  OBVIOUS
<1>1. camera \in CameraStates /\ state \in CameraStates
  BY CenterIsPosition DEF CoreInit, CameraStates
<1>2. velocity = Stopped /\ backgroundError = FALSE /\ stale = {}
  BY DEF CoreInit
<1> QED
  BY <1>1, <1>2 DEF CoreTypeOK

\* Every step keeps the types.
LEMMA CoreStepsKeepTypes == CoreTypeOK /\ [CoreNext]_core => CoreTypeOK'
<1> SUFFICES ASSUME CoreTypeOK, [CoreNext]_core PROVE CoreTypeOK'
  OBVIOUS
<1>1. CASE Drive
  BY <1>1, DriveKeepsTypes, CenterIsPosition DEF Drive
<1>2. CASE UNCHANGED core
  BY <1>2 DEF core, CoreTypeOK
<1> QED
  BY <1>1, <1>2, CallKeepsTypes, CameraChangesKeepTypes DEF CoreNext

\* The guarded state is well typed; every position lies in the ranges.
THEOREM CoreTypeCorrect == CoreSpec => []CoreTypeOK
  BY CoreStepsKeepTypes, CoreInitTypes, PTL DEF CoreSpec

(***************************************************************************)
(* The controller's copy of the camera's state.                            *)
(***************************************************************************)

\* Outside the fields marked stale the copy and the device agree: every write
\* that fails, and every change of the camera by itself, is accounted for.
THEOREM CopyIsCurrentHolds == CoreSpec => []CopyIsCurrent
<1>1. CoreInit => CopyIsCurrent
  BY DEF CoreInit, CopyIsCurrent
<1>2. CoreTypeOK /\ CopyIsCurrent /\ [CoreNext]_core => CopyIsCurrent'
  <2> SUFFICES ASSUME CoreTypeOK, CopyIsCurrent, [CoreNext]_core PROVE CopyIsCurrent'
    OBVIOUS
  <2> USE DEF CopyIsCurrent, Fields
  <2>1. camera \in CameraStates /\ state \in CameraStates
    BY DEF CoreTypeOK
  <2>2. ASSUME NEW p \in Positions, NEW ok \in BOOLEAN, CallSetPosition(p, ok) PROVE CopyIsCurrent'
    BY <2>1, <2>2 DEF CallSetPosition, PositionSet, PositionTrackingFails, PositionWriteFails, CameraStates
  <2>3. ASSUME NEW z \in Zooms, NEW ok \in BOOLEAN, CallSetZoom(z, ok) PROVE CopyIsCurrent'
    BY <2>1, <2>3 DEF CallSetZoom, CameraStates
  <2>4. ASSUME NEW t \in BOOLEAN, NEW ok \in BOOLEAN, CallSetTracking(t, ok) PROVE CopyIsCurrent'
    BY <2>1, <2>4 DEF CallSetTracking, CameraStates
  <2>5. CASE CallStatus(TRUE) \/ \E v \in Velocities : CallSetVelocity(v)
    BY <2>5 DEF CallStatus, CallSetVelocity
  <2>6. ASSUME NEW next \in Positions, NEW starting \in BOOLEAN, DriveTo(next, starting)
        PROVE  CopyIsCurrent'
    BY <2>1, <2>6 DEF DriveTo, Base, TrackingLeft, CameraStates
  <2>7. ASSUME NEW next \in Positions, NEW starting \in BOOLEAN, DriveWriteFails(next, starting)
        PROVE  CopyIsCurrent'
    BY <2>1, <2>7 DEF DriveWriteFails, Base, TrackingLeft, CameraStates
  <2>8. CASE DriveReadFails
    BY <2>8 DEF DriveReadFails
  <2>9. CASE DriveTrackingFails
    BY <2>1, <2>9 DEF DriveTrackingFails, CameraStates
  <2>10. CASE CameraChanges
    BY <2>1, <2>10 DEF CameraChanges, CameraTracks, TrackingSwitched, CameraStates
  <2>11. CASE UNCHANGED core
    BY <2>11 DEF core
  <2> QED
    BY <2>2, <2>3, <2>4, <2>5, <2>6, <2>7, <2>8, <2>9, <2>10, <2>11, CenterIsPosition
    DEF CoreNext, Call, CallCenter, Drive
<1> QED
  BY <1>1, <1>2, CoreTypeCorrect, PTL DEF CoreSpec

=============================================================================
