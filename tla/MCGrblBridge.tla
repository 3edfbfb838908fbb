---------------------------- MODULE MCGrblBridge ----------------------------
(* Model checking of GrblBridge: two points, cuts without power, with a    *)
(* middling one and with one above the maximum, and an arc through both.   *)
EXTENDS GrblBridge

CONSTANTS p, q
TheCuts == {[to |-> <<q>>, s |-> 0], [to |-> <<q>>, s |-> 1],
            [to |-> <<p, q>>, s |-> 3]}
=============================================================================
