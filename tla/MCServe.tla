------------------------------- MODULE MCServe -------------------------------
(***************************************************************************)
(* A small instance of Serve: two requests, which are alike, and a stream. *)
(***************************************************************************)
EXTENDS Serve, TLC
CONSTANTS r1, r2, c1
MCRequests == {r1, r2}
MCStreams == {c1}
=============================================================================
