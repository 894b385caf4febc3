--------------------------- MODULE MCGamepadInput ---------------------------
(***************************************************************************)
(* Small instances of GamepadInput: a pass sees a pad at rest, the stick,  *)
(* or the right trigger together with one of the buttons: a failing zoom   *)
(* then ends the pass before the button is looked at.  Fixed ranges hold a *)
(* single position: the gamepad reads none.                                *)
(*                                                                         *)
(* An axis has the values -21 to 20, and the deadzone is 0.12 as in the    *)
(* code.  A released stick drifts inside it; a pushed one is at the end.   *)
(***************************************************************************)
EXTENDS GamepadInput, TLC

MCAxes == {"pan", "tilt"}
FixedRanges == [a \in MCAxes |-> [minimum |-> 0, maximum |-> 0]]

MCMapping == [deadzone |-> (12 * Unit) \div 100, maximumPanSpeed |-> 3, maximumTiltSpeed |-> 2,
              invertPan |-> FALSE, invertTilt |-> TRUE]

Idle == [x |-> 2, y |-> -2, left |-> 1, right |-> 0, south |-> FALSE, north |-> FALSE]
Pushed == [Idle EXCEPT !.x = -21, !.y = 20]
MCPads ==
    { Idle,
      Pushed,
      [Idle EXCEPT !.right = 20, !.south = TRUE],
      [Idle EXCEPT !.right = 20, !.north = TRUE] }
MCVelocities == { Stopped, StickVelocity(Pushed) }

\* For the runs of the findings: the north button, and a trigger just outside
\* its dead band, which takes more than one pass across the range.
StillVelocities == {Stopped}
NorthPads == {Idle, [Idle EXCEPT !.north = TRUE]}
TriggerPads == {Idle, [Idle EXCEPT !.left = 0, !.right = 2]}
=============================================================================
