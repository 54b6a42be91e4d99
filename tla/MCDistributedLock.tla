------------------------- MODULE MCDistributedLock -------------------------
(* Instances of DistributedLock for TLC.                                     *)
EXTENDS DistributedLock, TLC

CONSTANTS t1, t2, t3, p1, p2, p3

\* Every task in a process of its own.
Separate == t1 :> p1 @@ t2 :> p2 @@ t3 :> p3
Pair == t1 :> p1 @@ t2 :> p2
=============================================================================
