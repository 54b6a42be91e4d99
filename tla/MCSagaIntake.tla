--------------------------- MODULE MCSagaIntake ---------------------------
(* One saga whose start is published twice; two servers, one of which could  *)
(* not reach Redis when it started and uses its own queue until it restarts. *)
EXTENDS SagaIntake

CONSTANTS s1, r1, r2, p1, p2, o1

\* Both publications are for the same saga.
Twice == {[r \in {r1, r2} |-> s1]}

OneCutOff == {[p \in {p1, p2} |-> IF p = p1 THEN "redis" ELSE "memory"]}
=============================================================================
