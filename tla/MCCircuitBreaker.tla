-------------------------- MODULE MCCircuitBreaker --------------------------
(* Instances of CircuitBreaker for TLC.                                      *)
EXTENDS CircuitBreaker, TLC

CONSTANTS c1, c2, c3, p1, p2

\* Two concurrent calls in one process, one in the other.
Uneven == c1 :> p1 @@ c2 :> p1 @@ c3 :> p2
=============================================================================
