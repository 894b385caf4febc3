------------------------------ MODULE MCService ------------------------------
(***************************************************************************)
(* A small instance of Service: one position and one zoom, so that calls   *)
(* change tracking, and requests for values beyond each limit.             *)
(***************************************************************************)
EXTENDS Service, TLC

MCAxes == {"pan", "tilt"}
FixedRanges == [a \in MCAxes |-> [minimum |-> 0, maximum |-> 0]]
Pan(n) == [pan |-> n, tilt |-> 0]
PanPositions == {Pan(n) : n \in -1 .. 2}
PanVelocities == {Pan(n) : n \in {-2, 1, 2}}
MCVelocities == {Pan(1)}
MCInterval == [default |-> 100, minimum |-> 50, maximum |-> 1000]
=============================================================================
