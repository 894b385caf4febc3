------------------------------ MODULE Control ------------------------------
(***************************************************************************)
(* The pure functions of src/src/control.cpp, over integers.               *)
(*                                                                         *)
(* The code computes with doubles that its value classes keep finite.      *)
(* Here an angle, a speed, a stick deflection and a time are each integers *)
(* in a unit of their own, so that "speed * time" is an angle.  A range is *)
(* a record [minimum, maximum] per axis; the step of a range is not used   *)
(* by any function of control.cpp.                                         *)
(***************************************************************************)
EXTENDS Integers

Abs(x) == IF x < 0 THEN -x ELSE x

AtMost(x, bound) == IF bound < x THEN bound ELSE x

\* std::clamp; its precondition is low <= high.
Clamp(x, low, high) == IF x < low THEN low ELSE AtMost(x, high)

\* The positions that lie inside the ranges, axis by axis.
PositionsIn(ranges) ==
    {p \in [DOMAIN ranges ->
              UNION {ranges[a].minimum .. ranges[a].maximum : a \in DOMAIN ranges}] :
        \A a \in DOMAIN ranges : p[a] \in ranges[a].minimum .. ranges[a].maximum}

\* Mutant: the ranges are forgotten.
AdvancePosition_unclamped(current, velocity, elapsed, ranges) ==
    [a \in DOMAIN ranges |-> current[a] + velocity[a] * elapsed]

\* The position reached from current after elapsed at this velocity, held
\* inside the advertised ranges.
AdvancePosition(current, velocity, elapsed, ranges) ==
    [a \in DOMAIN ranges |->
        Clamp(current[a] + velocity[a] * elapsed,
              ranges[a].minimum, ranges[a].maximum)]

\* The two functions that turn a stick into a velocity.  The exponent of the
\* curve is 2, that of the only mapping there is; what the code divides by a
\* constant is kept as a multiple: of a deflection in the unit of the deadzone
\* the shaped value is in the square of that unit.

\* Mutant: the rest of the way is not rescaled behind the deadzone.
ShapeAxis_not_rescaled(raw, deadzone) ==
    IF Abs(raw) <= deadzone THEN 0 ELSE IF raw < 0 THEN -(raw * raw) ELSE raw * raw

ShapeAxis(raw, deadzone) ==
    LET beyond == Abs(raw) - deadzone
    IN  IF beyond <= 0 THEN 0 ELSE IF raw < 0 THEN -(beyond * beyond) ELSE beyond * beyond

Direction(invert) == IF invert THEN -1 ELSE 1

MapGamepad(horizontal, vertical, mapping) ==
    [pan  |-> ShapeAxis(horizontal, mapping.deadzone) * mapping.maximumPanSpeed
                  * Direction(mapping.invertPan),
     tilt |-> ShapeAxis(vertical, mapping.deadzone) * mapping.maximumTiltSpeed
                  * Direction(mapping.invertTilt)]

\* Below 0.0001 degrees per second the code calls a speed zero; speeds here
\* are either exactly zero or above that threshold.
IsMoving(velocity) == \E a \in DOMAIN velocity : velocity[a] # 0

=============================================================================
