----------------------- MODULE CameraController_proofs -----------------------
(***************************************************************************)
(* Proofs about CameraController, for every set of axes, ranges, velocities*)
(* and every lease, interval and cap that satisfy the assumptions.         *)
(***************************************************************************)
EXTENDS CameraController, ControllerCore_proofs

(***************************************************************************)
(* Type correctness, and the refinement of ControllerCore.                 *)
(***************************************************************************)

\* The velocity the motion thread acts on is a velocity.
LEMMA ActiveVelocityType ==
    ASSUME CoreTypeOK
    PROVE  ActiveVelocity \in [Axes -> Int] /\ ActiveVelocity \in {velocity, Stopped}
  BY VelocitiesAssumption DEF CoreTypeOK, ActiveVelocity, Stopped

\* The time of a step is an integer.
LEMMA ElapsedType == TypeOK => Elapsed \in Int
  BY TimingAssumption DEF TypeOK, Elapsed, AtMost

\* It is never negative and never above the cap.
LEMMA ElapsedBounds ==
    ASSUME TypeOK, previous <= now
    PROVE  /\ Elapsed \in Nat
           /\ Elapsed <= Cap
           /\ Elapsed <= now - previous
           /\ ~wasMoving => Elapsed = 0
  BY TimingAssumption DEF TypeOK, Elapsed, AtMost

\* The position the motion thread writes is in range.
LEMMA NextPositionType ==
    ASSUME TypeOK
    PROVE  NextPosition \in Positions
<1>1. Base(~wasMoving).position \in Positions
  BY DEF TypeOK, CoreTypeOK, Base, CameraStates
<1> QED
  BY <1>1, ElapsedType, ActiveVelocityType, AdvanceInRange DEF NextPosition, TypeOK

\* A pass of the loop that reaches the step read the lease as running.
LEMMA MovingMeansLeased ==
    IsMoving(ActiveVelocity) =>
        now <= expiresAt /\ velocity # Stopped /\ ActiveVelocity = velocity
  BY StoppedIsNotMoving DEF ActiveVelocity

\* Every step of the controller is a critical section of ControllerCore, or
\* leaves the guarded state alone.
LEMMA StepImplementsCore ==
    ASSUME TypeOK, [Next]_vars PROVE [CoreNext]_core
<1> USE DEF CoreNext
<1>1. CASE Caller
  BY <1>1 DEF Caller, Status, SetPosition, CenterCamera, SetZoom, SetTracking, SetVelocity, Call
<1>2. CASE MotionTop \/ MotionSample
  BY <1>2 DEF MotionTop, MotionSample
<1>3. CASE MotionTick
  <2>1. CASE MotionIdle
    BY <2>1 DEF MotionIdle
  <2>2. ASSUME IsMoving(ActiveVelocity) PROVE IsMoving(velocity)
    BY <2>2, MovingMeansLeased
  <2>3. (~wasMoving) \in BOOLEAN
    BY DEF TypeOK
  <2>4. CASE MotionStep
    BY <2>2, <2>3, <2>4, NextPositionType DEF MotionStep, Drive
  <2>5. CASE MotionWriteFails
    BY <2>2, <2>3, <2>5, NextPositionType DEF MotionWriteFails, Drive
  <2>6. CASE MotionReadFails
    BY <2>2, <2>6 DEF MotionReadFails, Drive
  <2>7. CASE MotionTrackingFails
    BY <2>2, <2>7 DEF MotionTrackingFails, Drive
  <2> QED
    BY <1>3, <2>1, <2>4, <2>5, <2>6, <2>7 DEF MotionTick
<1>4. CASE Stop \/ World
  BY <1>4 DEF Stop, World, Tick
<1>5. CASE UNCHANGED vars
  BY <1>5 DEF vars
<1> QED
  BY <1>1, <1>2, <1>3, <1>4, <1>5 DEF Next, Motion

\* The types of the timing variables, step by step.
LEMMA StepKeepsTimingTypes ==
    ASSUME TypeOK, [Next]_vars, CoreTypeOK' PROVE TypeOK'
<1> USE TimingAssumption DEF TypeOK
<1>1. CASE UNCHANGED timing
  BY <1>1 DEF timing, thread, history
<1>2. CASE Revoke
  BY <1>2 DEF Revoke, thread
<1>3. ASSUME NEW v \in Velocities, SetVelocity(v) PROVE TypeOK'
  BY <1>3 DEF SetVelocity, thread
<1>4. CASE MotionTop
  BY <1>4 DEF MotionTop, history
<1>5. CASE MotionSample
  BY <1>5 DEF MotionSample, history
<1>6. CASE MotionTick
  <2> USE <1>6 DEF MotionTick
  <2>1. CASE MotionIdle
    BY <2>1 DEF MotionIdle, history
  <2>2. ASSUME RecordWrite
        PROVE  travel' \in Int /\ late' \in Nat /\ tail' \in Nat /\ tracked' \in BOOLEAN
    <3> DEFINE e == Elapsed
    <3>1. travel + e \in Int
      BY ElapsedType
    <3> HIDE DEF e
    <3> QED
      BY <2>2, <3>1 DEF RecordWrite, AtMost, e
  <2>3. CASE MotionStep
    BY <2>2, <2>3 DEF MotionStep
  <2>4. CASE MotionWriteFails
    BY <2>2, <2>4 DEF MotionWriteFails, Failed
  <2>5. CASE MotionReadFails \/ MotionTrackingFails
    BY <2>5 DEF MotionReadFails, MotionTrackingFails, Failed
  <2> QED
    BY <2>1, <2>3, <2>4, <2>5
<1>7. CASE Stop
  BY <1>7 DEF Stop, thread, history
<1>8. CASE Tick
  BY <1>8 DEF Tick, thread, history
<1>9. CASE UNCHANGED vars
  BY <1>1, <1>9 DEF vars
<1> QED
  BY <1>1, <1>2, <1>3, <1>4, <1>5, <1>6, <1>7, <1>8, <1>9
  DEF Next, Caller, Status, SetPosition, CenterCamera, SetZoom, SetTracking, Motion, World

\* Every variable keeps its type, positions inside the advertised ranges included.
THEOREM TypeCorrect == Spec => []TypeOK
<1>1. Init => TypeOK
  <2> SUFFICES ASSUME Init PROVE TypeOK
    OBVIOUS
  <2>1. CoreTypeOK
    BY CoreInitTypes DEF Init
  <2>2. /\ clock = 0 /\ expiresAt = 0 /\ wakeAt = 0 /\ now = 0 /\ previous = 0 /\ travel = 0
        /\ late = 0 /\ tail = 0 /\ pc = "top"
        /\ stopRequested = FALSE /\ wasMoving = FALSE /\ granted = FALSE /\ tracked = FALSE
    BY DEF Init
  <2>3. /\ clock \in 0 .. MaxTime /\ now \in 0 .. MaxTime /\ previous \in 0 .. MaxTime
        /\ wakeAt \in 0 .. MaxTime + Interval /\ expiresAt \in 0 .. Horizon + Lease
        /\ travel \in Int /\ late \in Nat /\ tail \in Nat
    BY <2>2, TimingAssumption
  <2> QED
    BY <2>1, <2>2, <2>3 DEF TypeOK
<1>2. TypeOK /\ [Next]_vars => TypeOK'
  <2> SUFFICES ASSUME TypeOK, [Next]_vars PROVE TypeOK'
    OBVIOUS
  <2>1. CoreTypeOK'
    <3>1. CoreTypeOK
      BY DEF TypeOK
    <3>2. CASE Drive
      BY <3>1, <3>2, DriveKeepsTypes, CenterIsPosition DEF Drive
    <3>3. CASE UNCHANGED core
      BY <3>1, <3>3 DEF core, CoreTypeOK
    <3> QED
      BY <3>1, <3>2, <3>3, StepImplementsCore, CallKeepsTypes, CameraChangesKeepTypes DEF CoreNext
  <2> QED
    BY <2>1, StepKeepsTimingTypes
<1> QED
  BY <1>1, <1>2, PTL DEF Spec

\* The clock, the lease and the thread refine the bare critical sections.
THEOREM CoreImplemented == Spec => ImplementsCore
<1>1. Init => CoreInit
  BY DEF Init
<1>2. TypeOK /\ [Next]_vars => [CoreNext]_core
  BY StepImplementsCore
<1> QED
  BY <1>1, <1>2, TypeCorrect, PTL DEF Spec, ImplementsCore, CoreSpec

\* So what is proved of them holds of the controller.
THEOREM CopyStaysCurrent == Spec => []CopyIsCurrent
  BY CoreImplemented, CopyIsCurrentHolds, PTL DEF ImplementsCore

(***************************************************************************)
(* The dead man's switch.                                                  *)
(***************************************************************************)

\* When the running lease was granted.
GrantedAt == expiresAt - Lease

\* The times the thread remembers lie in the past, and so does the grant.
ClocksOrdered == previous <= now /\ now <= clock /\ GrantedAt <= clock

\* How far the travel of this lease can have come, by where the last tick of
\* the motion thread lies.  A tick sampled before the lease was granted
\* counts once, for at most Cap; the next one is sampled a whole Interval
\* after the grant.
TravelInv ==
    /\ previous < GrantedAt => travel <= Cap
    /\ previous >= GrantedAt => travel <= 2 * Cap - Interval + (previous - GrantedAt)
    /\ travel <= Lease + 2 * Cap - Interval
    /\ travel > 0 /\ previous < GrantedAt =>
          /\ pc = "sleep" => wakeAt >= GrantedAt + Interval
          /\ pc = "lock" => now >= GrantedAt + Interval

\* A late write leaves no second one possible: the next sample is late too.
LateInv ==
    /\ late <= 1
    /\ late > 0 => clock > expiresAt /\ (pc = "lock" => now > expiresAt)

\* A write after the stop request is the last thing the thread does.
TailInv ==
    /\ tail <= 1
    /\ ~stopRequested => tail = 0
    /\ tail > 0 => pc \in {"top", "done"}

\* Without a grant there is no velocity.
GrantInv == ~granted => velocity = Stopped

MotionInv == ClocksOrdered /\ TravelInv /\ LateInv /\ TailInv /\ GrantInv /\ ErrorMeansStopped

\* A position write keeps the three bounds.
LEMMA WriteKeepsBounds ==
    ASSUME TypeOK, MotionInv, pc = "lock", IsMoving(ActiveVelocity), RecordWrite,
           previous' = now, pc' = "top", UNCHANGED <<clock, expiresAt, stopRequested, now>>
    PROVE  (ClocksOrdered /\ TravelInv /\ LateInv /\ TailInv)'
<1> DEFINE e == Elapsed
<1>1. e \in Nat /\ e <= Cap /\ e <= now - previous
  BY ElapsedBounds DEF MotionInv, ClocksOrdered
<1>2. travel' = travel + e
  BY DEF RecordWrite
<1> HIDE DEF e
<1>3. now <= expiresAt
  BY MovingMeansLeased
<1>4. ClocksOrdered'
  BY DEF MotionInv, ClocksOrdered, GrantedAt, TypeOK
<1>5. TravelInv'
  BY <1>1, <1>2, <1>3, TimingAssumption DEF MotionInv, ClocksOrdered, TravelInv, GrantedAt, TypeOK
<1>6. LateInv'
  BY <1>3 DEF MotionInv, LateInv, RecordWrite, AtMost, TypeOK
<1>7. TailInv'
  BY DEF MotionInv, TailInv, RecordWrite, TypeOK
<1> QED
  BY <1>4, <1>5, <1>6, <1>7

\* The strengthening holds throughout every behaviour.
LEMMA MotionInvInductive == Spec => []MotionInv
<1>1. Init => MotionInv
  BY TimingAssumption
  DEF Init, CoreInit, MotionInv, ClocksOrdered, TravelInv, LateInv, TailInv, GrantInv, ErrorMeansStopped, GrantedAt
<1>2. TypeOK /\ TypeOK' /\ MotionInv /\ [Next]_vars => MotionInv'
  <2> SUFFICES ASSUME TypeOK, TypeOK', MotionInv, [Next]_vars PROVE MotionInv'
    OBVIOUS
  <2> USE DEF MotionInv, GrantInv, ErrorMeansStopped
  <2>1. ASSUME UNCHANGED <<timing, velocity>>, backgroundError' => backgroundError PROVE MotionInv'
    BY <2>1 DEF timing, thread, history, ClocksOrdered, TravelInv, LateInv, TailInv, GrantedAt
  <2>2. ASSUME StopMotion, Revoke, backgroundError' => backgroundError PROVE MotionInv'
    BY <2>2 DEF StopMotion, Revoke, thread, ClocksOrdered, TravelInv, LateInv, TailInv, GrantedAt
  <2>3. CASE Status
    BY <2>1, <2>3 DEF Status, CallStatus
  <2>4. ASSUME NEW p \in Positions, SetPosition(p) \/ CenterCamera PROVE MotionInv'
    <3>1. PICK q \in Positions, ok \in BOOLEAN : CallSetPosition(q, ok)
      BY <2>4, CenterIsPosition DEF SetPosition, CenterCamera, CallCenter
    <3>2. backgroundError' => backgroundError
      BY <3>1 DEF CallSetPosition, PositionSet, PositionTrackingFails, PositionWriteFails
    <3> QED
      BY <2>2, <2>4, <3>1, <3>2 DEF SetPosition, CenterCamera, CallSetPosition
  <2>5. ASSUME NEW z \in Zooms, SetZoom(z) PROVE MotionInv'
    BY <2>1, <2>5 DEF SetZoom, CallSetZoom
  <2>6. ASSUME NEW t \in BOOLEAN, SetTracking(t) PROVE MotionInv'
    BY <2>2, <2>6 DEF SetTracking, CallSetTracking
  <2>7. ASSUME NEW v \in Velocities, SetVelocity(v) PROVE MotionInv'
    BY <2>7, TimingAssumption
    DEF SetVelocity, CallSetVelocity, thread, ClocksOrdered, TravelInv, LateInv, TailInv, GrantedAt, TypeOK
  <2>8. CASE MotionTop
    BY <2>8, TimingAssumption
    DEF MotionTop, core, history, ClocksOrdered, TravelInv, LateInv, TailInv, GrantedAt, TypeOK
  <2>9. CASE MotionSample
    BY <2>9, TimingAssumption
    DEF MotionSample, core, history, ClocksOrdered, TravelInv, LateInv, TailInv, GrantedAt, TypeOK
  <2>10. CASE MotionTick
    <3> USE <2>10 DEF MotionTick
    <3>1. CASE MotionIdle
      BY <3>1, TimingAssumption
      DEF MotionIdle, core, history, ClocksOrdered, TravelInv, LateInv, TailInv, GrantedAt, TypeOK
    <3>2. CASE MotionStep
      BY <3>2, WriteKeepsBounds DEF MotionStep, DriveTo
    <3>3. ASSUME Failed, DriveFails, UNCHANGED <<travel, late, tail>> PROVE MotionInv'
      BY <3>3, TimingAssumption
      DEF Failed, DriveFails, StopMotion, ClocksOrdered, TravelInv, LateInv, TailInv, GrantedAt, TypeOK
    <3>4. CASE MotionReadFails
      BY <3>3, <3>4 DEF MotionReadFails, DriveReadFails
    <3>5. CASE MotionTrackingFails
      BY <3>3, <3>5 DEF MotionTrackingFails, DriveTrackingFails
    <3>6. CASE MotionWriteFails
      BY <3>6, WriteKeepsBounds DEF MotionWriteFails, DriveWriteFails, Failed, DriveFails, StopMotion
    <3> QED
      BY <3>1, <3>2, <3>4, <3>5, <3>6
  <2>11. CASE Stop
    BY <2>11 DEF Stop, core, thread, history, ClocksOrdered, TravelInv, LateInv, TailInv, GrantedAt
  <2>12. CASE Tick
    BY <2>12, TimingAssumption
    DEF Tick, core, thread, history, ClocksOrdered, TravelInv, LateInv, TailInv, GrantedAt, TypeOK
  <2>13. CASE CameraChanges /\ UNCHANGED timing
    BY <2>1, <2>13 DEF CameraChanges, CameraTracks, TrackingSwitched
  <2>14. CASE UNCHANGED vars
    BY <2>1, <2>14 DEF vars, core
  <2> QED
    BY <2>3, <2>4, <2>5, <2>6, <2>7, <2>8, <2>9, <2>10, <2>11, <2>12, <2>13, <2>14,
       CenterIsPosition DEF Next, Caller, Motion, World
<1> QED
  BY <1>1, <1>2, TypeCorrect, PTL DEF Spec

\* The time integrated under one lease is bounded, whatever the schedule.
THEOREM DeadManTravelHolds == Spec => []DeadManTravel
<1>1. MotionInv => DeadManTravel
  BY DEF MotionInv, TravelInv, DeadManTravel
<1> QED
  BY <1>1, MotionInvInductive, PTL

\* At most one position is written after a lease ended.
THEOREM AtMostOneLateWriteHolds == Spec => []AtMostOneLateWrite
<1>1. MotionInv => AtMostOneLateWrite
  BY DEF MotionInv, LateInv, AtMostOneLateWrite
<1> QED
  BY <1>1, MotionInvInductive, PTL

\* At most one position is written after the stop request.
THEOREM AtMostOneWriteAfterStopHolds == Spec => []AtMostOneWriteAfterStop
<1>1. MotionInv => AtMostOneWriteAfterStop
  BY DEF MotionInv, TailInv, AtMostOneWriteAfterStop
<1> QED
  BY <1>1, MotionInvInductive, PTL

\* An error that is reported means that the motion is not running.
THEOREM ErrorMeansStoppedHolds == Spec => []ErrorMeansStopped
<1>1. MotionInv => ErrorMeansStopped
  BY DEF MotionInv
<1> QED
  BY <1>1, MotionInvInductive, PTL

\* A step that ends a pass of the loop is that pass.
LEMMA PassIsMotionTick ==
    ASSUME Next, pc = "lock", pc' = "top" PROVE MotionTick
<1>1. ~Caller
  BY DEF Caller, Status, SetPosition, CenterCamera, SetZoom, SetTracking, SetVelocity,
     Revoke, timing, thread
<1>2. ~Stop /\ ~World
  BY DEF Stop, World, Tick, timing, thread
<1> QED
  BY <1>1, <1>2 DEF Next, Motion, MotionTop, MotionSample

\* The motion thread leaves the device alone unless a velocity request is
\* in force that nothing revoked.
THEOREM MotionOnlyWhenGrantedHolds == Spec => MotionOnlyWhenGranted
<1>1. MotionInv /\ [Next]_vars =>
        [(pc = "lock" /\ pc' = "top" /\ camera' # camera) => granted]_vars
  <2> SUFFICES ASSUME MotionInv, Next, pc = "lock", pc' = "top", ~granted
               PROVE  camera' = camera
    OBVIOUS
  <2>1. MotionTick
    BY PassIsMotionTick
  <2>2. ~IsMoving(ActiveVelocity)
    BY MovingMeansLeased DEF MotionInv, GrantInv
  <2> QED
    BY <2>1, <2>2 DEF MotionTick, MotionIdle, MotionStep, MotionReadFails, MotionTrackingFails,
       MotionWriteFails, core
<1> QED
  BY <1>1, MotionInvInductive, PTL DEF Spec, MotionOnlyWhenGranted

(***************************************************************************)
(* The path of the camera.                                                 *)
(***************************************************************************)

\* A motion that starts leaves tracking off in the device.
THEOREM StartEndsTrackingHolds == Spec => StartEndsTracking
<1>1. TypeOK /\ [Next]_vars => [(~wasMoving /\ wasMoving') => ~camera'.tracking]_vars
  <2> SUFFICES ASSUME TypeOK, Next, ~wasMoving, wasMoving' PROVE ~camera'.tracking
    OBVIOUS
  <2>1. MotionStep
    BY DEF Next, Caller, Status, SetPosition, CenterCamera, SetZoom, SetTracking, SetVelocity, Revoke,
       Motion, MotionTop, MotionSample, MotionTick, MotionIdle, MotionReadFails, MotionTrackingFails,
       MotionWriteFails, Failed, Stop, World, Tick, timing, thread
  <2> QED
    BY <2>1 DEF MotionStep, DriveTo, TrackingLeft, TypeOK, CoreTypeOK, CameraStates
<1> QED
  BY <1>1, TypeCorrect, PTL DEF Spec, StartEndsTracking

\* Scaling a speed by a time between 0 and c lands between 0 and c times it.
LEMMA ScaledBetween ==
    ASSUME NEW v \in Int, NEW e \in Nat, NEW c \in Nat, e <= c
    PROVE  v * e \in Int /\ v * c \in Int /\ Between(v * e, 0, v * c)
<1>1. v * e \in Int /\ v * c \in Int
  OBVIOUS
<1>2. CASE v >= 0
  <2>1. 0 <= v * e
    BY <1>2
  <2>2. v * e <= v * c
    BY <1>2
  <2> QED
    BY <1>1, <2>1, <2>2 DEF Between
<1>3. CASE v < 0
  <2>1. v * e <= 0
    BY <1>3
  <2>2. v * c <= v * e
    BY <1>3
  <2> QED
    BY <1>1, <2>1, <2>2 DEF Between
<1> QED
  BY <1>2, <1>3

\* Clamping a displaced value shortens the displacement and keeps its sign.
LEMMA ClampBetween ==
    ASSUME NEW x \in Int, NEW d \in Int, NEW far \in Int, Between(d, 0, far),
           NEW low \in Int, NEW high \in Int, low <= x, x <= high
    PROVE  Between(Clamp(x + d, low, high) - x, 0, far)
  BY DEF Between, Clamp, AtMost

\* The next position lies between where the camera is and the velocity over
\* Cap away from it, on every axis.
LEMMA NextPositionNear ==
    ASSUME TypeOK, previous <= now, IsMoving(ActiveVelocity),
           Base(~wasMoving).position = camera.position, NEW a \in Axes
    PROVE  Between(NextPosition[a] - camera.position[a], 0, velocity[a] * Cap)
<1> DEFINE e == Elapsed
           x == camera.position[a]
<1>1. e \in Nat /\ e <= Cap
  BY ElapsedBounds
<1>2. velocity \in [Axes -> Int] /\ ActiveVelocity = velocity
  BY ActiveVelocityType, MovingMeansLeased DEF TypeOK
<1>3. DOMAIN Ranges = Axes /\ Ranges[a].minimum \in Int /\ Ranges[a].maximum \in Int
  BY RangesAssumption
<1>4. x \in Int /\ Ranges[a].minimum <= x /\ x <= Ranges[a].maximum
  BY PositionsCharacterised DEF TypeOK, CoreTypeOK, CameraStates
<1>5. NextPosition[a] = Clamp(x + velocity[a] * e, Ranges[a].minimum, Ranges[a].maximum)
  BY <1>2, <1>3 DEF NextPosition, AdvancePosition
<1> HIDE DEF e, x
<1>6. Cap \in Nat /\ velocity[a] \in Int
  BY <1>2, TimingAssumption
<1>7. velocity[a] * e \in Int /\ velocity[a] * Cap \in Int /\ Between(velocity[a] * e, 0, velocity[a] * Cap)
  BY <1>1, <1>6, ScaledBetween
<1>8. Between(NextPosition[a] - x, 0, velocity[a] * Cap)
  BY <1>3, <1>4, <1>5, <1>7, ClampBetween
<1> QED
  BY <1>8 DEF x

\* No pass of the motion thread makes the camera leap.
THEOREM NoLeapHolds == Spec => NoLeap
<1>1. TypeOK /\ MotionInv /\ CopyIsCurrent /\ [Next]_vars =>
        [(pc = "lock" /\ pc' = "top" /\ ~(wasMoving /\ "position" \in stale)) =>
            \A a \in Axes :
               Between(camera'.position[a] - camera.position[a], 0, velocity[a] * Cap)]_vars
  <2> SUFFICES ASSUME TypeOK, MotionInv, CopyIsCurrent, Next, pc = "lock", pc' = "top",
                      ~(wasMoving /\ "position" \in stale), NEW a \in Axes
               PROVE  Between(camera'.position[a] - camera.position[a], 0, velocity[a] * Cap)
    OBVIOUS
  <2>1. MotionTick
    BY PassIsMotionTick
  <2>2. camera \in CameraStates /\ camera.position[a] \in Int
    BY PositionsCharacterised DEF TypeOK, CoreTypeOK, CameraStates
  <2>3. ASSUME camera'.position[a] = camera.position[a]
        PROVE  Between(camera'.position[a] - camera.position[a], 0, velocity[a] * Cap)
    <3>1. velocity[a] \in Int /\ Cap \in Nat
      BY VelocitiesAssumption, TimingAssumption DEF TypeOK, CoreTypeOK, Stopped
    <3> DEFINE w == velocity[a] * Cap
    <3>2. w \in Int
      BY <3>1
    <3> HIDE DEF w
    <3>3. Between(0, 0, w)
      BY <3>2 DEF Between
    <3> QED
      BY <2>2, <2>3, <3>3 DEF w
  <2>4. Base(~wasMoving).position = camera.position
    BY DEF Base, CopyIsCurrent, Fields, TypeOK, CoreTypeOK, CameraStates
  <2>5. previous <= now
    BY DEF MotionInv, ClocksOrdered
  <2>6. CASE MotionStep
    BY <2>2, <2>4, <2>5, <2>6, NextPositionNear DEF MotionStep, DriveTo, CameraStates
  <2>7. CASE MotionWriteFails
    <3>1. PICK q \in TornPositions(camera.position, NextPosition) :
             camera' = [camera EXCEPT !.position = q, !.tracking = TrackingLeft(~wasMoving)]
      BY <2>7 DEF MotionWriteFails, DriveWriteFails
    <3>2. camera'.position = q
      BY <2>2, <3>1 DEF CameraStates
    <3>3. q[a] = NextPosition[a] \/ q[a] = camera.position[a]
      BY <3>1 DEF TornPositions
    <3> QED
      BY <2>3, <2>4, <2>5, <2>7, <3>2, <3>3, NextPositionNear DEF MotionWriteFails
  <2> QED
    BY <2>1, <2>2, <2>3, <2>6, <2>7
    DEF MotionTick, MotionIdle, MotionReadFails, DriveReadFails, MotionTrackingFails,
        DriveTrackingFails, core, CameraStates
<1> QED
  BY <1>1, TypeCorrect, MotionInvInductive, CopyStaysCurrent, PTL DEF Spec, NoLeap

(***************************************************************************)
(* The refinement of MotionPromise.                                        *)
(***************************************************************************)

\* Every step of the controller is a step of the promise or none.
LEMMA StepKeepsPromise ==
    ASSUME TypeOK, TypeOK', MotionInv, MotionInv', [Next]_vars
    PROVE  [Promise!Next]_(Promise!vars)
<1> USE DEF Promise!Next, Promise!vars
<1> DEFINE pos == camera.position
           trk == camera.tracking
<1>1. pos \in Positions /\ pos' \in Positions /\ trk \in BOOLEAN /\ trk' \in BOOLEAN
  BY DEF TypeOK, CoreTypeOK, CameraStates
<1>2. granted \in BOOLEAN /\ granted' \in BOOLEAN
  BY DEF TypeOK
<1>3. ASSUME UNCHANGED <<camera, granted, travel>> PROVE [Promise!Next]_(Promise!vars)
  BY <1>3
<1>4. CASE Revoke
  BY <1>1, <1>4 DEF Revoke, Promise!Command
<1>5. CASE Status
  BY <1>3, <1>5 DEF Status, CallStatus, timing, history
<1>6. ASSUME NEW z \in Zooms, SetZoom(z) PROVE [Promise!Next]_(Promise!vars)
  <2>1. pos' = pos /\ trk' = trk
    BY <1>6 DEF SetZoom, CallSetZoom, TypeOK, CoreTypeOK, CameraStates
  <2> QED
    BY <1>6, <2>1 DEF SetZoom, timing, history
<1>7. ASSUME NEW v \in Velocities, SetVelocity(v) PROVE [Promise!Next]_(Promise!vars)
  BY <1>7 DEF SetVelocity, CallSetVelocity, Promise!Grant
<1>8. CASE MotionTop \/ MotionSample
  BY <1>3, <1>8 DEF MotionTop, MotionSample, core, history
<1>9. CASE MotionTick
  <2>1. ASSUME IsMoving(ActiveVelocity), travel' \in {travel, travel + Elapsed}, trk' \in {trk, FALSE}
        PROVE  Promise!Drive
    <3> DEFINE e == Elapsed
    <3>1. e \in Nat
      BY ElapsedBounds DEF MotionInv, ClocksOrdered
    <3>2. travel' = travel \/ travel' = travel + e
      BY <2>1
    <3> HIDE DEF e
    <3>3. granted
      BY <2>1, <1>2, MovingMeansLeased DEF MotionInv, GrantInv
    <3>4. travel' \in travel .. (Lease + 2 * Cap - Interval)
      BY <3>1, <3>2, TimingAssumption DEF TypeOK, MotionInv, TravelInv
    <3> QED
      BY <1>1, <1>2, <2>1, <3>3, <3>4 DEF Promise!Drive
  <2>2. CASE MotionIdle
    BY <1>3, <2>2 DEF MotionIdle, core, history
  <2>3. CASE MotionStep
    <3>1. trk' \in {trk, FALSE}
      BY <1>1, <2>3 DEF MotionStep, DriveTo, TrackingLeft, TypeOK, CoreTypeOK, CameraStates
    <3> QED
      BY <2>1, <2>3, <3>1 DEF MotionStep, RecordWrite
  <2>4. CASE MotionReadFails
    BY <2>1, <2>4 DEF MotionReadFails, DriveReadFails
  <2>5. CASE MotionTrackingFails
    <3>1. pos' = pos /\ trk' \in {trk, FALSE}
      BY <1>1, <2>5 DEF MotionTrackingFails, DriveTrackingFails, TypeOK, CoreTypeOK, CameraStates
    <3> QED
      BY <2>1, <2>5, <3>1 DEF MotionTrackingFails
  <2>6. CASE MotionWriteFails
    <3>1. trk' \in {trk, FALSE}
      BY <1>1, <2>6 DEF MotionWriteFails, DriveWriteFails, TrackingLeft, TypeOK, CoreTypeOK, CameraStates
    <3> QED
      BY <2>1, <2>6, <3>1 DEF MotionWriteFails, RecordWrite
  <2> QED
    BY <1>9, <2>2, <2>3, <2>4, <2>5, <2>6 DEF MotionTick
<1>10. CASE Stop \/ Tick
  BY <1>3, <1>10 DEF Stop, Tick, core, history
<1>11. CASE CameraTracks /\ UNCHANGED timing
  BY <1>1, <1>11 DEF CameraTracks, timing, history, Promise!Follow, TypeOK, CoreTypeOK, CameraStates
<1>12. CASE TrackingSwitched /\ UNCHANGED timing
  BY <1>1, <1>12 DEF TrackingSwitched, timing, history, Promise!Switch, TypeOK, CoreTypeOK, CameraStates
<1>13. CASE UNCHANGED vars
  BY <1>3, <1>13 DEF vars, core, timing, history
<1> QED
  BY <1>4, <1>5, <1>6, <1>7, <1>8, <1>9, <1>10, <1>11, <1>12, <1>13
  DEF Next, Caller, SetPosition, CenterCamera, SetTracking, Motion, World, CameraChanges

\* The controller implements the promise.
THEOREM PromiseKept == Spec => KeepsPromise
<1>1. Init => Promise!Init
  BY CenterIsPosition DEF Init, CoreInit, Promise!Init
<1>2. TypeOK /\ TypeOK' /\ MotionInv /\ MotionInv' /\ [Next]_vars => [Promise!Next]_(Promise!vars)
  BY StepKeepsPromise
<1> QED
  BY <1>1, <1>2, TypeCorrect, MotionInvInductive, PTL DEF Spec, KeepsPromise, Promise!Spec

=============================================================================
