--------------------------- MODULE MCFlowExecutor ---------------------------
(* Instances of FlowExecutor for TLC: every graph on four nodes whose edges    *)
(* are among eight, a is an if_block; the node c may be missing.            *)
EXTENDS FlowExecutor

CONSTANTS a, b, c, d

Edge(x, y, l) == [from |-> x, to |-> y, branch |-> l]

\* Branches and a join, a shortcut across levels, a cycle, a duplicate, an edge
\* from the context.
Candidates ==
    <<Edge(a, b, "true"), Edge(a, c, "false"), Edge(a, d, NoRoute), Edge(b, d, NoRoute),
      Edge(c, d, NoRoute), Edge(b, c, NoRoute), Edge(d, a, NoRoute), Edge(Root, d, NoRoute)>>

Payload(S, ns, off, bad) ==
    [nodes |-> ns,
     edges |-> SelectSeq(Candidates, LAMBDA e : e \in S) \o
               SelectSeq(Candidates, LAMBDA e : e \in S /\ e.from = a),
     disabled |-> off, unknown |-> bad, required |-> {d}]

AllGraphs ==
    {Payload(S, ns, x[1], x[2]) : S \in SUBSET ToSet(Candidates),
                                     ns \in {<<a, b, c, d>>, <<d, c, b, a>>},
                                     x \in {<<{}, {}>>, <<{b}, {}>>, <<{}, {c}>>}}
    \cup {Payload(S, <<d, b, a>>, {}, {}) : S \in SUBSET ToSet(Candidates)}
    \cup {[nodes |-> <<>>, edges |-> <<>>, disabled |-> {}, unknown |-> {}, required |-> {}]}

Attempts == [n \in Nodes |-> IF n = b THEN 2 ELSE 1]
=============================================================================
