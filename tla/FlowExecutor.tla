---------------------------- MODULE FlowExecutor ----------------------------
(* A flow graph carried out as a saga: core/realtime/sagas/flows/              *)
(* flow_executor.py with the order of core/flow_graph.py (through             *)
(* validated_flow_executor.py), run by orchestrator.execute_step_plan.  The    *)
(* nodes of one topological level are one step of the plan and run as          *)
(* coroutines of one asyncio.gather; no step has a compensation.               *)
EXTENDS Integers, SequencesExt

CONSTANTS
    Nodes,          \* the node ids
    Root,           \* a context root or any name that is no node
    Graphs,         \* the payloads: nodes in their order, edges as a list of
                    \* [from, to, branch], the nodes that are disabled, that have
                    \* no module_id, and assertions.required_nodes
    Routers,        \* the nodes that are an if_block or a switch_block
    Routes,         \* what such a block puts into _route
    NoRoute,        \* an edge without a branch label; an output without _route
    MaxAttempts,    \* node: retry.max_attempts
    MaxFaults       \* bound on the database errors

ASSUME FlowAssumption ==
    /\ Root \notin Nodes /\ Routers \subseteq Nodes /\ NoRoute \notin Routes
    /\ \A g \in Graphs :
          /\ g.nodes \in Seq(Nodes) /\ IsInjective(g.nodes)
          /\ g.edges \in Seq([from : Nodes \cup {Root}, to : Nodes,
                              branch : Routes \cup {NoRoute}])
          /\ g.disabled \subseteq Nodes /\ g.unknown \subseteq Nodes
          /\ g.required \subseteq Nodes
    /\ MaxAttempts \in [Nodes -> 1..10] /\ MaxFaults \in Nat

VARIABLES
    graph,          \* the payload
    row,            \* sagas.state
    pc,             \* what execute_step_plan is at
    queue, indegree, order,
                    \* locals of topological_order
    levels,         \* node: level_of, 0 before it has one
    level,          \* the step of the plan that is being executed
    status,         \* node: "new", "running", "succeeded", "failed", "skipped", or
                    \* "raised", an exception the timeline does not show
    attempts,       \* node: attempts
    skipped,        \* skipped_nodes
    route,          \* node: _route of its output
    timeline,       \* the nodes in the order they were reported
    verdict,        \* stop_reason of the aggregate step
    faults

run == <<row, pc, queue, indegree, order, levels, level>>
nodes == <<status, attempts, skipped, route, timeline>>
vars == <<graph, run, nodes, verdict, faults>>

-----------------------------------------------------------------------------
(* The order of the graph.                                                   *)

NodeSet == ToSet(graph.nodes)
Edges == ToSet(graph.edges)
Sources(n) == {e.from : e \in {f \in Edges : f.to = n}}

\* Edges with an end that is no node are ignored here.
Pred(n) == Sources(n) \cap NodeSet
Targets(n) == {e.to : e \in {f \in Edges : f.from = n}} \cap NodeSet

\* The elements of S one after the other, by rising rank.
InOrder(S, rank) ==
    {q \in SetToSeqs(S) : \A i, j \in DOMAIN q : i < j => rank[q[i]] < rank[q[j]]}

\* Where the payload first names a node, and where an edge to one of its targets.
Insertion == [n \in NodeSet |-> Min({i \in DOMAIN graph.nodes : graph.nodes[i] = n})]
FirstEdge(n) ==
    [m \in Targets(n) |-> Min({i \in DOMAIN graph.edges : /\ graph.edges[i].from = n
                                                         /\ graph.edges[i].to = m})]

\* What the indegree of m loses when n is done: however many edges lead from n to
\* m, they count once.
Loss_duplicates(n, m) ==  \* Mutant: seen_edges is forgotten
    Cardinality({i \in DOMAIN graph.edges : graph.edges[i].from = n /\ graph.edges[i].to = m})
Loss(n, m) == IF m \in Targets(n) THEN 1 ELSE 0

-----------------------------------------------------------------------------
Init ==
    /\ graph \in Graphs
    /\ row = "in_progress" /\ pc = "sort"
    /\ indegree = [n \in NodeSet |-> Cardinality(Pred(n))]
    /\ queue \in InOrder({n \in NodeSet : indegree[n] = 0}, Insertion)
    /\ order = <<>>
    /\ levels = [n \in Nodes |-> 0] /\ level = 1
    /\ status = [n \in Nodes |-> "new"]
    /\ attempts = [n \in Nodes |-> 0]
    /\ skipped = {}
    /\ route = [n \in Nodes |-> NoRoute]
    /\ timeline = <<>>
    /\ verdict = "none"
    /\ faults = 0

\* A round of Kahn's algorithm: the targets of the node at the head of the queue
\* that have no other source left join the queue.
topological_round ==
    /\ pc = "sort" /\ queue # <<>>
    /\ LET n == Head(queue)
           left == [m \in NodeSet |-> indegree[m] - Loss(n, m)]
       IN  /\ indegree' = left
           /\ order' = Append(order, n)
           /\ \E q \in InOrder({m \in Targets(n) : left[m] = 0}, FirstEdge(n)) :
                 queue' = Tail(queue) \o q
    /\ UNCHANGED <<graph, row, pc, levels, level, nodes, verdict, faults>>

\* The queue is empty: a graph without nodes or with a cycle raises out of run,
\* into _run_saga.
sorted_lenient ==  \* Mutant: a cycle gives the order of insertion
    /\ pc = "sort" /\ queue = <<>>
    /\ pc' = IF graph.nodes = <<>> THEN "run_saga" ELSE "group"
    /\ order' = graph.nodes
    /\ UNCHANGED <<graph, row, queue, indegree, levels, level, nodes, verdict, faults>>
sorted ==
    /\ pc = "sort" /\ queue = <<>>
    /\ pc' = IF graph.nodes # <<>> /\ Len(order) = Len(graph.nodes) THEN "group" ELSE "run_saga"
    /\ UNCHANGED <<graph, row, queue, order, indegree, levels, level, nodes, verdict, faults>>

\* _group_by_level, one node of the order: it comes one level below the lowest
\* of those of its sources that have a level.
SourceLevels_first(n) ==  \* Mutant: the level of one source is enough
    LET S == {levels[s] : s \in Pred(n)} IN IF S = {} THEN {0} ELSE {Min(S)}
SourceLevels(n) == {levels[s] : s \in Pred(n)} \cup {0}
group_node ==
    /\ pc = "group"
    /\ \E i \in DOMAIN order :
          /\ levels[order[i]] = 0 /\ \A j \in 1..(i - 1) : levels[order[j]] > 0
          /\ levels' = [levels EXCEPT ![order[i]] = Max(SourceLevels(order[i])) + 1]
    /\ pc' = IF \A n \in NodeSet : levels'[n] > 0 THEN "level" ELSE "group"
    /\ UNCHANGED <<graph, row, queue, order, indegree, level, nodes, verdict, faults>>

-----------------------------------------------------------------------------
(* _run_single_node.                                                         *)

\* The nodes of the level, in the order of the graph, and whether it is the last.
LevelNodes == {n \in NodeSet : levels[n] = level}
Before(m, n) == \E i, j \in DOMAIN order : i < j /\ order[i] = m /\ order[j] = n
IsLast == \A n \in NodeSet : levels[n] <= level

should_skip(n) ==
    \/ n \in graph.disabled
    \/ Sources(n) # {} /\ Sources(n) \subseteq skipped

\* The coroutines of a level are started in their order, up to block.execute.
start_node_unmarked(n) ==  \* Mutant: a skipped node does not join skipped_nodes
    /\ pc = "level" /\ n \in LevelNodes /\ status[n] = "new"
    /\ \A m \in LevelNodes : Before(m, n) => status[m] # "new"
    /\ CASE n \in graph.unknown ->
                /\ status' = [status EXCEPT ![n] = "raised"]
                /\ UNCHANGED <<attempts, skipped, timeline>>
         [] n \notin graph.unknown /\ should_skip(n) ->
                /\ status' = [status EXCEPT ![n] = "skipped"]
                /\ timeline' = Append(timeline, n)
                /\ UNCHANGED <<attempts, skipped>>
         [] OTHER ->
                /\ status' = [status EXCEPT ![n] = "running"]
                /\ attempts' = [attempts EXCEPT ![n] = 1]
                /\ UNCHANGED <<skipped, timeline>>
    /\ UNCHANGED <<graph, run, route, verdict, faults>>
start_node(n) ==
    /\ pc = "level" /\ n \in LevelNodes /\ status[n] = "new"
    /\ \A m \in LevelNodes : Before(m, n) => status[m] # "new"
    /\ CASE n \in graph.unknown ->
                /\ status' = [status EXCEPT ![n] = "raised"]
                /\ UNCHANGED <<attempts, skipped, timeline>>
         [] n \notin graph.unknown /\ should_skip(n) ->
                /\ status' = [status EXCEPT ![n] = "skipped"]
                /\ skipped' = skipped \cup {n}
                /\ timeline' = Append(timeline, n)
                /\ UNCHANGED attempts
         [] OTHER ->
                /\ status' = [status EXCEPT ![n] = "running"]
                /\ attempts' = [attempts EXCEPT ![n] = 1]
                /\ UNCHANGED <<skipped, timeline>>
    /\ UNCHANGED <<graph, run, route, verdict, faults>>

\* The targets of the branches that are not taken join skipped_nodes.
apply_routing(n, r) ==
    /\ route' = [route EXCEPT ![n] = r]
    /\ skipped' = skipped \cup {e.to : e \in {f \in Edges : /\ f.from = n
                                                           /\ f.branch \notin {NoRoute, r}}}

\* block.execute answers.
node_output(n) ==
    /\ pc = "level" /\ status[n] = "running"
    /\ status' = [status EXCEPT ![n] = "succeeded"]
    /\ timeline' = Append(timeline, n)
    /\ IF n \in Routers
       THEN \E r \in Routes : apply_routing(n, r)
       ELSE UNCHANGED <<route, skipped>>
    /\ UNCHANGED <<graph, run, attempts, verdict, faults>>

\* block.execute raises: the next attempt, after the backoff, or the end.
node_raises_again(n) ==  \* Mutant: attempts are not counted
    /\ pc = "level" /\ status[n] = "running"
    /\ attempts' = [attempts EXCEPT ![n] = 3 - @]
    /\ UNCHANGED <<graph, run, status, skipped, route, timeline, verdict, faults>>
node_raises(n) ==
    /\ pc = "level" /\ status[n] = "running"
    /\ IF attempts[n] < MaxAttempts[n]
       THEN /\ attempts' = [attempts EXCEPT ![n] = @ + 1]
            /\ UNCHANGED <<status, timeline>>
       ELSE /\ status' = [status EXCEPT ![n] = "failed"]
            /\ timeline' = Append(timeline, n)
            /\ UNCHANGED attempts
    /\ UNCHANGED <<graph, run, skipped, route, verdict, faults>>

-----------------------------------------------------------------------------
(* execute_step_plan.                                                        *)

Raised(n) == status[n] \in {"failed", "raised"}

\* gather returns when the last coroutine of the level has; only then is its
\* first exception raised.
level_ends_deaf ==  \* Mutant: the results of gather are not looked at
    /\ pc = "level"
    /\ \A n \in LevelNodes : status[n] \notin {"new", "running"}
    /\ level' = level + 1
    /\ pc' = IF IsLast THEN "aggregate" ELSE "level"
    /\ UNCHANGED <<graph, row, queue, indegree, order, levels, nodes, verdict, faults>>
level_ends ==
    /\ pc = "level"
    /\ \A n \in LevelNodes : status[n] \notin {"new", "running"}
    /\ IF \E n \in LevelNodes : Raised(n)
       THEN pc' = "fail" /\ UNCHANGED level
       ELSE /\ level' = level + 1
            /\ pc' = IF IsLast THEN "aggregate" ELSE "level"
    /\ UNCHANGED <<graph, row, queue, indegree, order, levels, nodes, verdict, faults>>

\* The last step collects the outputs of the sinks and judges the assertions; a
\* failed assertion does not fail the saga.
aggregate ==
    /\ pc = "aggregate"
    /\ verdict' = IF \A n \in graph.required : status[n] = "succeeded"
                  THEN "ok" ELSE "assertions_failed"
    /\ pc' = "finish"
    /\ UNCHANGED <<graph, row, queue, indegree, order, levels, level, nodes, faults>>

\* A write of the row: done, done with the answer lost, or not done.
write(state, next, except) ==
    \/ row' = state /\ pc' = next /\ UNCHANGED faults
    \/ /\ faults < MaxFaults /\ faults' = faults + 1
       /\ row' \in {row, state} /\ pc' = except

finish ==
    /\ pc = "finish"
    /\ write("succeeded", "end", "fail")
    /\ UNCHANGED <<graph, queue, indegree, order, levels, level, nodes, verdict>>

\* An exception of the plan; when FAILED cannot be written, _run_saga tries again.
fail ==
    /\ pc = "fail"
    /\ write("failed", "end", "run_saga")
    /\ UNCHANGED <<graph, queue, indegree, order, levels, level, nodes, verdict>>

run_saga_failed ==
    /\ pc = "run_saga"
    /\ write("failed", "end", "end")
    /\ UNCHANGED <<graph, queue, indegree, order, levels, level, nodes, verdict>>

Next ==
    \/ topological_round
    \/ sorted
    \/ group_node
    \/ \E n \in NodeSet : start_node(n) \/ node_output(n) \/ node_raises(n)
    \/ level_ends
    \/ aggregate
    \/ finish
    \/ fail
    \/ run_saga_failed

Spec == Init /\ [][Next]_vars

\* The event loop runs every coroutine that can go on; a block answers or raises
\* in the end.
LiveSpec == Spec /\ WF_vars(Next)

-----------------------------------------------------------------------------
Status == {"new", "running", "succeeded", "failed", "skipped", "raised"}
Done == {"succeeded", "skipped"}
RunTypes ==
    /\ row \in {"in_progress", "succeeded", "failed"}
    /\ pc \in {"sort", "group", "level", "aggregate", "finish", "fail", "run_saga", "end"}
    /\ verdict \in {"none", "ok", "assertions_failed"} /\ faults \in 0..MaxFaults
OrderTypes ==
    /\ queue \in Seq(NodeSet) /\ order \in Seq(NodeSet) /\ indegree \in [NodeSet -> Nat]
    /\ IsInjective(queue) /\ IsInjective(order) /\ ToSet(queue) \cap ToSet(order) = {}
LevelTypes ==
    /\ levels \in [Nodes -> 0..Len(graph.nodes)] /\ level \in 1..(Len(graph.nodes) + 1)
NodeTypes ==
    /\ status \in [Nodes -> Status] /\ route \in [Nodes -> Routes \cup {NoRoute}]
    /\ attempts \in [Nodes -> Nat] /\ \A n \in Nodes : attempts[n] <= MaxAttempts[n]
    /\ skipped \subseteq Nodes /\ timeline \in Seq(NodeSet)
TypeOK == RunTypes /\ OrderTypes /\ LevelTypes /\ NodeTypes

\* The outputs a node asks for are there: when it runs, each of its sources has
\* succeeded or was skipped, however many levels lie between them
\* (topological_order and _group_by_level).
SourcesEnded ==
    \A n \in NodeSet :
        status[n] = "running" => \A s \in Pred(n) : status[s] \in Done

\* Reference: a graph has a cycle iff some nodes all have a source among them.
Cyclic == \E S \in (SUBSET NodeSet) \ {{}} : \A n \in S : Pred(n) \cap S # {}

\* A graph with a cycle is refused before any of its nodes has run
\* (validated_flow_executor: "fail-closed structural validation").
CycleIsRefused ==
    Cyclic => /\ \A n \in NodeSet : status[n] = "new"
              /\ row # "succeeded"

\* A succeeded flow has reported every node once, none of them failed, and has
\* the verdict its required nodes deserve.
SucceededIsComplete ==
    row = "succeeded" =>
        /\ \A n \in NodeSet : status[n] \in Done
        /\ IsInjective(timeline) /\ ToSet(timeline) = NodeSet
        /\ verdict = "ok" <=> graph.required \subseteq {n \in Nodes : status[n] = "succeeded"}

\* The edge is labelled with a branch its routing block did not take.
NotTaken(e) == /\ e.from \in Routers /\ status[e.from] = "succeeded"
               /\ e.branch \notin {NoRoute, route[e.from]}

\* The node is off the path: it was skipped, or it begins a branch not taken.
Cut(s) == status[s] = "skipped" \/ \E e \in Edges : e.to = s /\ NotTaken(e)

\* All of the sources of the node are off the path.
Starved(n) == Sources(n) # {} /\ \A s \in Sources(n) : s # Root /\ Cut(s)

\* Skips go down the graph and do not spread: a succeeded flow has skipped each node
\* all of whose sources were skipped (_should_skip: "All upstream sources were
\* skipped"), and never a node, a join for one, with a source that is on the path,
\* whichever order the coroutines of a level answered in.  (A source that is no node
\* of the graph is not ordered before its targets.)
SkipsPropagate ==
    row = "succeeded" =>
        \A n \in NodeSet :
            Sources(n) \subseteq NodeSet \cup {Root} =>
                /\ \/ status[n] = "skipped"
                   \/ Sources(n) = {}
                   \/ \E s \in Sources(n) : s = Root \/ status[s] # "skipped"
                /\ status[n] = "skipped" => n \in graph.disabled \/ Starved(n)

\* Every flow ends, whatever its nodes do: attempts and levels run out.
FlowEnds == <>(pc = "end")

-----------------------------------------------------------------------------
(* What a docstring and comments say, and the code does not do.              *)

\* A succeeded flow has skipped each node that only branches not taken lead to (IfBlock:
\* "The FlowExecutor uses _route to decide which downstream edge to activate").  The
\* target of such a branch joins skipped_nodes in _apply_routing, but _should_skip
\* looks for the sources of a node there and not for the node: it runs, and what comes
\* after it is skipped.
BranchNotTakenIsSkipped ==
    row = "succeeded" =>
        \A n \in NodeSet :
            LET incoming == {e \in Edges : e.to = n}
            IN  incoming # {} /\ (\A e \in incoming : NotTaken(e)) => status[n] = "skipped"
=============================================================================
