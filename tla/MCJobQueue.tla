----------------------------- MODULE MCJobQueue -----------------------------
(* Instances of JobQueue for TLC: two calls and the cases in which they, or a  *)
(* call and the processes behind it, get into each other's way.              *)
EXTENDS JobQueue

CONSTANTS r1, r2, k, same, other

Call(kind, key, hash) == [kind |-> kind, key |-> key, hash |-> hash]
Two(c, d) == [r \in Requests |-> IF r = r1 THEN c ELSE d]

\* One key twice with the same or another payload; inline beside queued jobs; two
\* scheduled jobs; a path job, which ends its worker, beside another job.
TwoCalls ==
    {Two(Call("fast", k, same), Call("fast", k, same)),
     Two(Call("later", k, same), Call("batch", k, other)),
     Two(Call("fast", NoKey, same), Call("batch", NoKey, same)),
     Two(Call("later", NoKey, same), Call("later", NoKey, same)),
     Two(Call("path", NoKey, same), Call("submit", NoKey, same))}
=============================================================================
