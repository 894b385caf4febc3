-------------------------- MODULE CameraController --------------------------
(***************************************************************************)
(* CameraController of src/src/controller.cpp: the one owner of the camera.*)
(* Callers (HTTP and gRPC handlers, the gamepad thread) invoke its         *)
(* operations; a motion thread wakes every Interval and, while a velocity  *)
(* lease is running, integrates the velocity into absolute positions.      *)
(*                                                                         *)
(* ControllerCore says what each critical section does to the guarded      *)
(* state.  This module adds the clock, the lease, the motion thread and    *)
(* the destructor.  The motion loop takes several actions: it reads the    *)
(* clock BEFORE it takes the mutex, and it looks at the stop flag without  *)
(* it.                                                                     *)
(***************************************************************************)
EXTENDS ControllerCore

CONSTANTS
    Lease,       \* kVelocityLease
    Interval,    \* kMotionInterval
    Cap,         \* the 0.1 s a single motion step may integrate
    Horizon,     \* bound: no velocity is requested after this time
    MaxTime      \* bound: the modelled time ends here

ASSUME TimingAssumption ==
    /\ Lease \in Nat /\ Interval \in Nat /\ Cap \in Nat
    /\ Interval <= Cap
    /\ Horizon \in Nat /\ MaxTime \in Nat
    /\ Horizon + Interval <= MaxTime

VARIABLES
    clock,            \* std::chrono::steady_clock
    expiresAt,        \* velocity_expires_at_
    stopRequested,    \* stop_requested_
    pc,               \* where the motion thread is
    wakeAt,           \* when its sleep_for ends
    now,              \* locals of motion_loop
    previous,
    wasMoving

\* History: nothing above depends on these.
VARIABLES
    travel,    \* time integrated into positions since the last velocity request
    granted,   \* a velocity was requested and nothing has revoked it since
    late,      \* position writes after the lease ended, since that request;
               \* bound: a third one is not counted
    tail,      \* position writes of the motion thread since the stop request
    tracked    \* the motion thread wrote while the camera was known to track

thread  == <<pc, wakeAt, now, previous, wasMoving>>
history == <<travel, granted, late, tail, tracked>>
timing  == <<clock, expiresAt, stopRequested, thread, history>>
vars == <<core, timing>>

----------------------------------------------------------------------------
\* The constructor: read_state, then the motion thread starts at the head of
\* its loop.
Init ==
    /\ CoreInit
    /\ clock = 0
    /\ expiresAt = 0
    /\ stopRequested = FALSE
    /\ pc = "top" /\ wakeAt = 0 /\ now = 0
    /\ previous = 0
    /\ wasMoving = FALSE
    /\ travel = 0 /\ granted = FALSE /\ late = 0 /\ tail = 0
    /\ tracked = FALSE

----------------------------------------------------------------------------
\* Operations of the callers.  The destructor runs when no caller is left, so
\* none of them happens after the stop request.
Serving == ~stopRequested

\* status(); one that fails changes nothing.
Status ==
    /\ Serving
    /\ CallStatus(TRUE)
    /\ UNCHANGED timing

\* What ends the lease besides its time.
Revoke ==
    /\ granted' = FALSE
    /\ UNCHANGED <<clock, expiresAt, stopRequested, thread, travel, late, tail, tracked>>

SetPosition(p) ==
    /\ Serving
    /\ \E ok \in BOOLEAN : CallSetPosition(p, ok)
    /\ Revoke

CenterCamera ==
    /\ Serving
    /\ \E ok \in BOOLEAN : CallCenter(ok)
    /\ Revoke

SetZoom(z) ==
    /\ Serving
    /\ \E ok \in BOOLEAN : CallSetZoom(z, ok)
    /\ UNCHANGED timing

SetTracking(enabled) ==
    /\ Serving
    /\ \E ok \in BOOLEAN : CallSetTracking(enabled, ok)
    /\ Revoke

SetVelocity(v) ==
    /\ Serving
    /\ clock <= Horizon
    /\ CallSetVelocity(v)
    /\ expiresAt' = clock + Lease
    /\ granted' = TRUE
    /\ travel' = 0
    /\ late' = 0
    /\ UNCHANGED <<clock, stopRequested, thread, tail, tracked>>

Caller ==
    \/ Status
    \/ \E p \in Positions : SetPosition(p)
    \/ CenterCamera
    \/ \E z \in Zooms : SetZoom(z)
    \/ \E enabled \in BOOLEAN : SetTracking(enabled)
    \/ \E v \in Velocities : SetVelocity(v)

----------------------------------------------------------------------------
\* The motion thread.

\* Mutants: the thread leaves only at rest; it leaves only in motion.
MotionTop_leaves_if(condition) ==
    /\ pc = "top"
    /\ IF stopRequested /\ condition
         THEN pc' = "done" /\ UNCHANGED wakeAt
         ELSE pc' = "sleep" /\ wakeAt' = clock + Interval
    /\ UNCHANGED <<core, clock, expiresAt, stopRequested, now, previous, wasMoving, history>>
MotionTop_leaves_at_rest == MotionTop_leaves_if(~wasMoving)
MotionTop_leaves_moving == MotionTop_leaves_if(wasMoving)

\* The head of the loop: leave, or sleep for Interval.
MotionTop ==
    /\ pc = "top"
    /\ IF stopRequested
         THEN pc' = "done" /\ UNCHANGED wakeAt
         ELSE pc' = "sleep" /\ wakeAt' = clock + Interval
    /\ UNCHANGED <<core, clock, expiresAt, stopRequested, now, previous, wasMoving, history>>

\* sleep_for ends no earlier than asked; the time is read before the mutex is
\* taken.  At MaxTime the modelled clock stands still and every sleep ends.
MotionSample ==
    /\ pc = "sleep"
    /\ clock >= wakeAt \/ clock = MaxTime
    /\ now' = clock
    /\ pc' = "lock"
    /\ UNCHANGED <<core, clock, expiresAt, stopRequested, wakeAt, previous, wasMoving, history>>

\* Mutants: the lease is never looked at; it is looked at only for a start.
ActiveVelocity_ignores_lease == velocity
ActiveVelocity_leased_start == IF now <= expiresAt \/ wasMoving THEN velocity ELSE Stopped

\* The lease is compared with the sampled time, not with the time at which
\* the mutex was obtained.
ActiveVelocity == IF now <= expiresAt THEN velocity ELSE Stopped

Elapsed == AtMost(now - (IF wasMoving THEN previous ELSE now), Cap)

NextPosition ==
    AdvancePosition(Base(~wasMoving).position, ActiveVelocity, Elapsed, Ranges)

\* A position write by the motion thread, successful or not, as history.
RecordWrite ==
    /\ travel' = travel + Elapsed
    /\ late' = IF clock > expiresAt THEN AtMost(late + 1, 2) ELSE late
    /\ tail' = IF stopRequested THEN tail + 1 ELSE tail
    /\ tracked' = (tracked \/ (TrackingLeft(~wasMoving) /\ "tracking" \notin stale))

MotionIdle ==
    /\ ~IsMoving(ActiveVelocity)
    /\ wasMoving' = FALSE
    /\ UNCHANGED <<core, history>>

MotionStep ==
    /\ IsMoving(ActiveVelocity)
    /\ DriveTo(NextPosition, ~wasMoving)
    /\ wasMoving' = TRUE
    /\ RecordWrite
    /\ UNCHANGED granted

\* Mutant: the catch block forgets was_moving.
Failed_keeps_moving == granted' = FALSE /\ UNCHANGED wasMoving

\* The rest of the catch block.
Failed == granted' = FALSE /\ wasMoving' = FALSE

MotionReadFails ==
    /\ IsMoving(ActiveVelocity) /\ ~wasMoving
    /\ DriveReadFails
    /\ Failed
    /\ UNCHANGED <<travel, late, tail, tracked>>

MotionTrackingFails ==
    /\ IsMoving(ActiveVelocity) /\ ~wasMoving
    /\ DriveTrackingFails
    /\ Failed
    /\ UNCHANGED <<travel, late, tail, tracked>>

MotionWriteFails ==
    /\ IsMoving(ActiveVelocity)
    /\ DriveWriteFails(NextPosition, ~wasMoving)
    /\ Failed
    /\ RecordWrite

\* One pass of the loop body under the mutex.  Every branch of it ends with
\* previous = now.
MotionTick ==
    /\ pc = "lock"
    /\ MotionIdle \/ MotionStep \/ MotionReadFails \/ MotionTrackingFails \/ MotionWriteFails
    /\ previous' = now
    /\ pc' = "top"
    /\ UNCHANGED <<clock, expiresAt, stopRequested, wakeAt, now>>

Motion == MotionTop \/ MotionSample \/ MotionTick

----------------------------------------------------------------------------
\* The destructor raises the flag and then joins the motion thread.
Stop ==
    /\ ~stopRequested
    /\ stopRequested' = TRUE
    /\ UNCHANGED <<core, clock, expiresAt, thread, history>>

\* The world outside: time passes, and the camera changes on its own.
Tick ==
    /\ clock < MaxTime
    /\ clock' = clock + 1
    /\ UNCHANGED <<core, expiresAt, stopRequested, thread, history>>

World == Tick \/ (CameraChanges /\ UNCHANGED timing)

Next == Caller \/ Motion \/ Stop \/ World

Spec == Init /\ [][Next]_vars

\* The scheduler runs the motion thread and the mutex is released between
\* operations; time passes.  Nothing obliges callers to call.
Fairness == WF_vars(Motion) /\ WF_vars(Tick)

FairSpec == Spec /\ Fairness

----------------------------------------------------------------------------
\* Properties.

\* Every variable has its type.
TypeOK ==
    /\ CoreTypeOK
    /\ clock \in 0 .. MaxTime
    /\ expiresAt \in 0 .. Horizon + Lease
    /\ stopRequested \in BOOLEAN
    /\ pc \in {"top", "sleep", "lock", "done"}
    /\ wakeAt \in 0 .. MaxTime + Interval
    /\ now \in 0 .. MaxTime
    /\ previous \in 0 .. MaxTime
    /\ wasMoving \in BOOLEAN
    /\ travel \in Int
    /\ granted \in BOOLEAN
    /\ late \in Nat
    /\ tail \in Nat
    /\ tracked \in BOOLEAN

\* Every critical section of the controller is one that ControllerCore allows,
\* and nothing else touches the guarded state.
ImplementsCore == CoreSpec

\* The dead man's switch, measured in travel: however the ticks of the motion
\* thread fall, and however long it waits for the mutex, the time it has
\* integrated into positions since the last velocity request exceeds the
\* lease by no more than two capped steps less one Interval.
DeadManTravel == travel <= Lease + 2 * Cap - Interval

\* A thread that sampled the clock inside the lease and then waited for the
\* mutex writes one position after the lease ended, never a second one.
AtMostOneLateWrite == late <= 1

\* Once the destructor has raised the stop flag, at most the pass of the loop
\* that was already under way still writes a position.
AtMostOneWriteAfterStop == tail <= 1

\* While an error of the motion thread is reported the motion is not running:
\* either it failed, or no later pass has succeeded.
ErrorMeansStopped == backgroundError => ~wasMoving

\* set_position, center, set_tracking and a failure of the motion thread
\* revoke the lease: the motion thread touches the device only under a
\* velocity request made after the last of them.
MotionOnlyWhenGranted ==
    [][(pc = "lock" /\ pc' = "top" /\ camera' # camera) => granted]_vars

\* A motion that starts leaves tracking off in the device, even when the
\* controller's copy did not know that it was on.
StartEndsTracking ==
    [][(~wasMoving /\ wasMoving') => ~camera'.tracking]_vars

\* No leap: one pass of the motion thread moves the camera, from where the pass
\* read it, by at most the requested velocity over Cap, in the requested
\* direction, unless the camera moved unobserved while the motion ran.
Between(x, low, high) == (low <= x /\ x <= high) \/ (high <= x /\ x <= low)
NoLeap ==
    [][(pc = "lock" /\ pc' = "top" /\ ~(wasMoving /\ "position" \in stale)) =>
          \A a \in Axes :
             Between(camera'.position[a] - camera.position[a], 0, velocity[a] * Cap)]_vars

\* The controller keeps the promise of MotionPromise about the gimbal.
Promise == INSTANCE MotionPromise WITH
              Budget <- Lease + 2 * Cap - Interval,
              position <- camera.position,
              tracking <- camera.tracking
KeepsPromise == Promise!Spec

\* README: manual movement turns tracking off before it sends position
\* changes.
MovesOnlyUntracked == ~tracked

\* README: velocity requests expire; no position is sent after that.
NoWriteAfterLease == late = 0

\* When the lease has run out and is not renewed the motion comes to rest.
AtRest == ~wasMoving \/ pc = "done"
LeaseEnds == (clock > expiresAt) ~> (AtRest \/ clock <= expiresAt)

\* The destructor's join returns.
StopCompletes == stopRequested ~> (pc = "done")
=============================================================================
