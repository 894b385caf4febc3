------------------------- MODULE MCCameraController -------------------------
(***************************************************************************)
(* Small instances of CameraController.  One unit of time is one motion    *)
(* interval (50 ms).                                                       *)
(*                                                                         *)
(* Fixed ranges hold a single position: they are for the questions about   *)
(* time, where it does not matter how far the camera turns.                *)
(***************************************************************************)
EXTENDS CameraController, TLC

MCAxes == {"pan", "tilt"}

MCRanges == ("pan"  :> [minimum |-> 0, maximum |-> 1])
         @@ ("tilt" :> [minimum |-> 0, maximum |-> 1])
MCVelocities == { [pan |-> 1, tilt |-> -1] }

FixedRanges == [a \in MCAxes |-> [minimum |-> 0, maximum |-> 0]]
OneVelocity == { [pan |-> 1, tilt |-> 0] }
=============================================================================
