---------------------------- MODULE MCEngraveJob ----------------------------
(* Model checking of EngraveJob: a job of two paths and one of one path.   *)
EXTENDS EngraveJob, TLC

CONSTANTS a, b
Sizes == (a :> 2 @@ b :> 1)
=============================================================================
