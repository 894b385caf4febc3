----------------------------- MODULE MCBackend -----------------------------
(***************************************************************************)
(* A small instance of Backend.  A raw unit is four of the caller's, so    *)
(* that a commanded 2 and a commanded -3 are rounded, the first one from   *)
(* exactly half a unit.  A byte has four values.                           *)
(***************************************************************************)
EXTENDS Backend, TLC

MCRanges == ("pan"  :> [minimum |-> 0, maximum |-> 4])
         @@ ("tilt" :> [minimum |-> -4, maximum |-> 0])

MCTargets == { [pan |-> 0, tilt |-> 0], [pan |-> 2, tilt |-> -3] }
MCVelocities == { [pan |-> 1, tilt |-> 0] }

MCShots == { [command |-> "position", position |-> [pan |-> 2, tilt |-> -3]],
             [command |-> "position", position |-> [pan |-> 2, tilt |-> -8]],
             [command |-> "zoom", zoom |-> 7],
             [command |-> "tracking", tracking |-> TRUE] }
=============================================================================
