--------------------------- MODULE MotionPromise ---------------------------
(***************************************************************************)
(* What the controller promises about the gimbal, without clocks, threads  *)
(* or copies.  The gimbal turns for three reasons only:                    *)
(*   - a velocity is granted, and then for a bounded travel;               *)
(*   - a command names a position, which ends the grant;                   *)
(*   - the camera tracks a subject by itself.                              *)
(***************************************************************************)
EXTENDS Integers

CONSTANTS
    Positions,  \* the positions inside the advertised ranges
    Budget      \* the travel that one velocity request can cause, a natural

VARIABLES
    granted,    \* a velocity request is in force
    travel,     \* what it has caused so far
    position,   \* of the camera
    tracking    \* whether the camera tracks

vars == <<granted, travel, position, tracking>>

Init ==
    /\ granted = FALSE
    /\ travel = 0
    /\ position \in Positions
    /\ tracking \in BOOLEAN

\* A velocity is requested.
Grant ==
    /\ granted' = TRUE
    /\ travel' = 0
    /\ UNCHANGED <<position, tracking>>

\* The granted velocity turns the camera; a failure ends the grant.  The
\* first such step may end tracking, none begins it.
Drive ==
    /\ granted
    /\ travel' \in travel .. Budget
    /\ position' \in Positions
    /\ tracking' \in {tracking, FALSE}
    /\ granted' \in BOOLEAN

\* A position or a tracking command, obeyed, refused or obeyed in part.
Command ==
    /\ granted' = FALSE
    /\ position' \in Positions
    /\ tracking' \in BOOLEAN
    /\ UNCHANGED travel

\* The camera follows its subject.
Follow ==
    /\ tracking
    /\ position' \in Positions
    /\ UNCHANGED <<granted, travel, tracking>>

\* Tracking is switched on the camera itself.
Switch ==
    /\ tracking' = ~tracking
    /\ UNCHANGED <<granted, travel, position>>

Next == Grant \/ Drive \/ Command \/ Follow \/ Switch

Spec == Init /\ [][Next]_vars
=============================================================================
