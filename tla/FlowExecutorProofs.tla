------------------------- MODULE FlowExecutorProofs -------------------------
(***************************************************************************)
(* Proofs about FlowExecutor, for every payload: the types, that Kahn's    *)
(* algorithm and the levels respect the edges, so that a node runs only    *)
(* after its sources; that a cycle is refused; that a succeeded flow has   *)
(* reported every node; and that skips go exactly as far as they should.   *)
(***************************************************************************)
EXTENDS FlowExecutor, FiniteSetTheorems, SequenceTheorems, WellFoundedInduction, TLAPS

-----------------------------------------------------------------------------
(* Facts about numbers and sequences.                                        *)

\* A non-empty set of natural numbers has a least element.
LEMMA LeastNumber ==
    ASSUME NEW T \in SUBSET Nat, T # {} PROVE \E n \in T : \A m \in T : n <= m
<1>1. IsWellFoundedOn({x \in Nat \X Nat : x[1] < x[2]}, Nat)
  BY NatLessThanWellFounded DEF OpToRel
<1>2. PICK n \in T : \A m \in T : <<m, n>> \notin {x \in Nat \X Nat : x[1] < x[2]}
  BY <1>1, WFMin
<1>3. ASSUME NEW m \in T PROVE n <= m
  <2>1. m \in Nat /\ n \in Nat OBVIOUS
  <2>2. ~(m < n) BY <1>2, <2>1
  <2> QED BY <2>1, <2>2
<1> QED BY <1>3

\* A non-empty set of numbers up to k has a greatest element, and Max is it.
LEMMA MaxIsMember ==
    ASSUME NEW k \in Nat, NEW T \in SUBSET (0..k), T # {}
    PROVE  Max(T) \in T /\ \A x \in T : x <= Max(T)
<1> DEFINE above == {n \in Nat : \A x \in T : x <= n}
<1>1. k \in above OBVIOUS
<1>2. PICK n \in above : \A m \in above : n <= m BY <1>1, LeastNumber
<1>3. n \in T
  <2> SUFFICES ASSUME n \notin T PROVE FALSE OBVIOUS
  <2>1. PICK y \in T : TRUE OBVIOUS
  <2>2. n \in Nat /\ \A x \in T : x \in Nat /\ x <= n /\ x # n BY <1>2
  <2>3. n > 0 BY <2>1, <2>2
  <2>4. n - 1 \in above BY <2>2, <2>3
  <2> QED BY <1>2, <2>2, <2>4
<1>4. n \in T /\ \A x \in T : n >= x BY <1>2, <1>3
<1>5. Max(T) \in T /\ \A y \in T : Max(T) >= y BY <1>4 DEF Max
<1> QED BY <1>5

\* The set of what a sequence holds.
LEMMA ToSetOfSeq ==
    ASSUME NEW S, NEW s \in Seq(S)
    PROVE  /\ ToSet(s) = {s[i] : i \in 1..Len(s)} /\ ToSet(s) \subseteq S
           /\ DOMAIN s = 1..Len(s) /\ Len(s) \in Nat
           /\ \A i \in 1..Len(s) : s[i] \in S /\ s[i] \in ToSet(s)
           /\ \A x \in ToSet(s) : \E i \in 1..Len(s) : s[i] = x
  BY LenProperties DEF ToSet

\* A sequence without duplicates that is as long as the set it is from holds all
\* of it; and the set is as large as the sequence is long.
LEMMA FullSequence ==
    ASSUME NEW S, IsFiniteSet(S), NEW s \in Seq(S), IsInjective(s)
    PROVE  /\ Cardinality(ToSet(s)) = Len(s)
           /\ Len(s) = Cardinality(S) => ToSet(s) = S
<1>1. /\ s \in [1..Len(s) -> ToSet(s)] /\ Len(s) \in Nat /\ ToSet(s) \subseteq S
      /\ \A x \in ToSet(s) : \E i \in 1..Len(s) : s[i] = x
  BY ToSetOfSeq, LenProperties
<1>2. s \in Injection(1..Len(s), ToSet(s)) BY <1>1 DEF Injection
<1>3. s \in Surjection(1..Len(s), ToSet(s)) BY <1>1 DEF Surjection
<1>4. IsFiniteSet(ToSet(s)) /\ Cardinality(ToSet(s)) <= Cardinality(S)
      /\ (Cardinality(S) = Cardinality(ToSet(s)) => S = ToSet(s))
  BY <1>1, FS_Subset
<1>5. Cardinality(1..Len(s)) = Cardinality(ToSet(s)) BY <1>2, <1>3, <1>4, FS_Injection
<1>6. Cardinality(1..Len(s)) = Len(s)
  <2>1. 1 \in Int /\ Len(s) \in Int BY <1>1
  <2>2. Cardinality(1..Len(s)) = IF 1 > Len(s) THEN 0 ELSE Len(s) - 1 + 1
    BY <2>1, FS_Interval, Zenon
  <2> QED BY <1>1, <2>2
<1> QED BY <1>4, <1>5, <1>6

\* The elements of a finite set one after the other.
LEMMA AllInOrder ==
    ASSUME NEW S, IsFiniteSet(S), NEW rank, NEW q \in InOrder(S, rank)
    PROVE  q \in Seq(S) /\ IsInjective(q) /\ ToSet(q) = S
<1>1. /\ q \in [1..Cardinality(S) -> S]
      /\ \A i, j \in 1..Cardinality(S) : i # j => q[i] # q[j]
  BY DEF InOrder, SetToSeqs
<1>2. Cardinality(S) \in Nat BY FS_CardinalityType
<1>3. q \in Seq(S) /\ Len(q) = Cardinality(S) BY <1>1, <1>2
<1>4. IsInjective(q) BY <1>1 DEF IsInjective
<1> QED BY <1>3, <1>4, FullSequence

\* Appending what is not there yet.
LEMMA AppendNew ==
    ASSUME NEW S, NEW s \in Seq(S), NEW x \in S, IsInjective(s), x \notin ToSet(s)
    PROVE  /\ Append(s, x) \in Seq(S) /\ IsInjective(Append(s, x))
           /\ ToSet(Append(s, x)) = ToSet(s) \cup {x} /\ Len(Append(s, x)) = Len(s) + 1
           /\ \A i \in 1..Len(s) : Append(s, x)[i] = s[i]
           /\ Append(s, x)[Len(s) + 1] = x
<1> DEFINE t == Append(s, x)
<1>1. /\ t \in Seq(S) /\ Len(t) = Len(s) + 1 /\ t[Len(s) + 1] = x
      /\ \A i \in 1..Len(s) : t[i] = s[i]
  BY AppendProperties
<1>2. Len(s) \in Nat /\ DOMAIN t = 1..(Len(s) + 1) /\ DOMAIN s = 1..Len(s)
  BY <1>1, LenProperties
<1>3. \A i \in 1..(Len(s) + 1) : i \in 1..Len(s) \/ i = Len(s) + 1 BY <1>2
<1> HIDE DEF t
<1>4. ToSet(t) = ToSet(s) \cup {x}
  <2>1. ToSet(t) = {t[i] : i \in 1..(Len(s) + 1)} BY <1>2 DEF ToSet
  <2>2. ToSet(s) = {s[i] : i \in 1..Len(s)} BY <1>2 DEF ToSet
  <2>3. 1..Len(s) \subseteq 1..(Len(s) + 1) /\ Len(s) + 1 \in 1..(Len(s) + 1) BY <1>2
  <2> QED BY <1>1, <1>3, <2>1, <2>2, <2>3
<1>5. IsInjective(t)
  <2> SUFFICES ASSUME NEW i \in 1..(Len(s) + 1), NEW j \in 1..(Len(s) + 1), t[i] = t[j]
               PROVE  i = j
    BY <1>2 DEF IsInjective
  <2>1. \A k \in 1..Len(s) : s[k] # x BY <1>2 DEF ToSet
  <2> QED BY <1>1, <1>2, <1>3, <2>1 DEF IsInjective
<1> QED BY <1>1, <1>4, <1>5 DEF t

\* The rest of a sequence without duplicates.
LEMMA TailOf ==
    ASSUME NEW S, NEW s \in Seq(S), s # <<>>, IsInjective(s)
    PROVE  /\ Head(s) \in S /\ Head(s) \in ToSet(s)
           /\ Tail(s) \in Seq(S) /\ IsInjective(Tail(s))
           /\ ToSet(Tail(s)) = ToSet(s) \ {Head(s)}
<1>1. /\ Head(s) \in S /\ Tail(s) \in Seq(S) /\ Len(Tail(s)) = Len(s) - 1
      /\ \A i \in 1..Len(Tail(s)) : Tail(s)[i] = s[i + 1] /\ Head(s) = s[1]
  BY HeadTailProperties
<1>2. Len(s) \in Nat \ {0} /\ DOMAIN s = 1..Len(s) /\ DOMAIN Tail(s) = 1..(Len(s) - 1)
  BY <1>1, EmptySeq, LenProperties
<1>3. Head(s) = s[1] OBVIOUS
<1> DEFINE t == Tail(s)
<1>4. \A i \in 1..(Len(s) - 1) : t[i] = s[i + 1] BY <1>1
<1>5. t \in Seq(S) /\ DOMAIN t = 1..(Len(s) - 1) BY <1>1, <1>2
<1> HIDE DEF t
<1>6. IsInjective(t)
  <2> SUFFICES ASSUME NEW i \in 1..(Len(s) - 1), NEW j \in 1..(Len(s) - 1), t[i] = t[j]
               PROVE  i = j
    BY <1>5 DEF IsInjective
  <2>1. s[i + 1] = s[j + 1] /\ i + 1 \in 1..Len(s) /\ j + 1 \in 1..Len(s) BY <1>2, <1>4
  <2>2. i + 1 = j + 1 BY <2>1, <1>2 DEF IsInjective
  <2> QED BY <2>2
<1>7. ToSet(t) = ToSet(s) \ {s[1]}
  <2>1. ASSUME NEW x \in ToSet(t) PROVE x \in ToSet(s) \ {s[1]}
    <3>1. PICK i \in 1..(Len(s) - 1) : x = t[i] BY <1>5 DEF ToSet
    <3>2. x = s[i + 1] /\ i + 1 \in 1..Len(s) /\ i + 1 # 1 /\ 1 \in 1..Len(s) BY <3>1, <1>2, <1>4
    <3> QED BY <3>2, <1>2 DEF ToSet, IsInjective
  <2>2. ASSUME NEW x \in ToSet(s) \ {s[1]} PROVE x \in ToSet(t)
    <3>1. PICK i \in 1..Len(s) : x = s[i] BY <1>2 DEF ToSet
    <3>2. i # 1 BY <3>1
    <3>3. i - 1 \in 1..(Len(s) - 1) /\ t[i - 1] = x BY <3>1, <3>2, <1>2, <1>4
    <3> QED BY <3>3, <1>5 DEF ToSet
  <2> QED BY <2>1, <2>2
<1>8. s[1] \in ToSet(s) BY <1>2 DEF ToSet
<1> QED BY <1>1, <1>3, <1>6, <1>7, <1>8 DEF t

\* One sequence after another with which it has nothing in common.
LEMMA ConcatDisjoint ==
    ASSUME NEW S, NEW s \in Seq(S), NEW t \in Seq(S), IsInjective(s), IsInjective(t),
           ToSet(s) \cap ToSet(t) = {}
    PROVE  s \o t \in Seq(S) /\ IsInjective(s \o t) /\ ToSet(s \o t) = ToSet(s) \cup ToSet(t)
<1> DEFINE u == s \o t
<1>1. /\ u \in Seq(S) /\ Len(u) = Len(s) + Len(t)
      /\ \A i \in 1..(Len(s) + Len(t)) : u[i] = IF i <= Len(s) THEN s[i] ELSE t[i - Len(s)]
  BY ConcatProperties
<1>2. /\ Len(s) \in Nat /\ Len(t) \in Nat /\ DOMAIN s = 1..Len(s) /\ DOMAIN t = 1..Len(t)
      /\ DOMAIN u = 1..(Len(s) + Len(t))
  BY <1>1, LenProperties
<1> HIDE DEF u
<1>3. ASSUME NEW i \in 1..(Len(s) + Len(t))
      PROVE  \/ i \in 1..Len(s) /\ u[i] = s[i]
             \/ i - Len(s) \in 1..Len(t) /\ u[i] = t[i - Len(s)] /\ i \notin 1..Len(s)
  BY <1>1, <1>2
<1>4. \A i \in 1..Len(s), j \in 1..Len(t) : s[i] # t[j] BY <1>2 DEF ToSet
<1>5. IsInjective(u)
  <2> SUFFICES ASSUME NEW i \in 1..(Len(s) + Len(t)), NEW j \in 1..(Len(s) + Len(t)),
                      u[i] = u[j]
               PROVE  i = j
    BY <1>2 DEF IsInjective
  <2>1. CASE i \in 1..Len(s) /\ u[i] = s[i]
    <3>1. j \in 1..Len(s) /\ u[j] = s[j] BY <1>3, <1>4, <2>1
    <3> QED BY <2>1, <3>1, <1>2 DEF IsInjective
  <2>2. CASE i - Len(s) \in 1..Len(t) /\ u[i] = t[i - Len(s)]
    <3>1. j - Len(s) \in 1..Len(t) /\ u[j] = t[j - Len(s)] BY <1>3, <1>4, <2>2
    <3>2. i - Len(s) = j - Len(s) BY <2>2, <3>1, <1>2 DEF IsInjective
    <3> QED BY <3>2, <1>2
  <2> QED BY <1>3, <2>1, <2>2
<1>6. ToSet(u) = ToSet(s) \cup ToSet(t)
  <2>1. ASSUME NEW x \in ToSet(u) PROVE x \in ToSet(s) \cup ToSet(t)
    <3>1. PICK i \in 1..(Len(s) + Len(t)) : x = u[i] BY <1>2 DEF ToSet
    <3> QED BY <3>1, <1>2, <1>3 DEF ToSet
  <2>2. ASSUME NEW x \in ToSet(s) PROVE x \in ToSet(u)
    <3>1. PICK i \in 1..Len(s) : x = s[i] BY <1>2 DEF ToSet
    <3>2. i \in 1..(Len(s) + Len(t)) /\ u[i] = x BY <3>1, <1>1, <1>2
    <3> QED BY <3>2, <1>2 DEF ToSet
  <2>3. ASSUME NEW x \in ToSet(t) PROVE x \in ToSet(u)
    <3>1. PICK i \in 1..Len(t) : x = t[i] BY <1>2 DEF ToSet
    <3>a. PICK k \in Nat : k = i + Len(s) BY <1>2
    <3>b. k \in 1..(Len(s) + Len(t)) /\ ~(k <= Len(s)) /\ k - Len(s) = i BY <3>a, <1>2
    <3>2. k \in 1..(Len(s) + Len(t)) /\ u[k] = x BY <3>1, <3>b, <1>1
    <3> QED BY <3>2, <1>2 DEF ToSet
  <2> QED BY <2>1, <2>2, <2>3
<1> QED BY <1>1, <1>5, <1>6 DEF u

-----------------------------------------------------------------------------
(* The payload.                                                              *)

\* What a payload may be.
LEMMA GraphFacts ==
    ASSUME graph \in Graphs
    PROVE  /\ graph.nodes \in Seq(NodeSet) /\ IsInjective(graph.nodes)
           /\ NodeSet \subseteq Nodes /\ Root \notin Nodes
           /\ IsFiniteSet(NodeSet) /\ Cardinality(NodeSet) = Len(graph.nodes)
           /\ Len(graph.nodes) \in Nat
           /\ \A e \in Edges : e.from \in Nodes \cup {Root} /\ e.to \in Nodes
           /\ Routers \subseteq Nodes /\ NoRoute \notin Routes /\ MaxFaults \in Nat
           /\ MaxAttempts \in [Nodes -> 1..10]
<1> DEFINE ns == graph.nodes
           es == graph.edges
           Edge == [from : Nodes \cup {Root}, to : Nodes, branch : Routes \cup {NoRoute}]
<1>1. ns \in Seq(Nodes) /\ IsInjective(ns) /\ es \in Seq(Edge) BY FlowAssumption
<1> HIDE DEF ns, es
<1>2. NodeSet = ToSet(ns) /\ Edges = ToSet(es) BY DEF NodeSet, Edges, ns, es
<1>3. /\ NodeSet \subseteq Nodes /\ ns \in [1..Len(ns) -> NodeSet] /\ Len(ns) \in Nat
      /\ \A x \in NodeSet : \E i \in 1..Len(ns) : ns[i] = x
  BY <1>1, <1>2, ToSetOfSeq, LenProperties
<1>4. ns \in Seq(NodeSet) BY <1>3
<1>5. IsFiniteSet(NodeSet)
  <2>1. ns \in Surjection(1..Len(ns), NodeSet) BY <1>3 DEF Surjection
  <2>2. IsFiniteSet(1..Len(ns)) BY <1>3, FS_Interval
  <2> QED BY <2>1, <2>2, FS_Surjection
<1>6. Cardinality(NodeSet) = Len(ns) BY <1>1, <1>2, <1>4, <1>5, FullSequence
<1> HIDE DEF Edge
<1>7. ToSet(es) \subseteq Edge BY <1>1, ToSetOfSeq
<1>8. \A e \in Edges : e \in Edge BY <1>2, <1>7
<1>9. \A e \in Edges : e.from \in Nodes \cup {Root} /\ e.to \in Nodes BY <1>8 DEF Edge
<1> QED BY <1>1, <1>3, <1>4, <1>5, <1>6, <1>9, FlowAssumption DEF ns

\* The two directions of an edge between nodes.
LEMMA PredTarget ==
    ASSUME NEW n \in NodeSet, NEW m \in NodeSet
    PROVE  n \in Pred(m) <=> m \in Targets(n)
  BY DEF Pred, Sources, Targets

\* The payload never changes, and so does nothing that is read off it.
LEMMA SameGraph ==
    ASSUME graph' = graph
    PROVE  /\ NodeSet' = NodeSet /\ Edges' = Edges
           /\ \A n : Sources(n)' = Sources(n) /\ Pred(n)' = Pred(n) /\ Targets(n)' = Targets(n)
<1>1. NodeSet' = NodeSet /\ Edges' = Edges BY DEF NodeSet, Edges
<1>2. \A n : Sources(n)' = Sources(n) BY <1>1 DEF Sources
<1> QED BY <1>1, <1>2 DEF Pred, Targets

\* No step of the flow changes its payload.
LEMMA GraphStays == [Next]_vars => graph' = graph
<1> SUFFICES ASSUME [Next]_vars PROVE graph' = graph OBVIOUS
<1>1. ASSUME NEW n, start_node(n) \/ node_output(n) \/ node_raises(n) PROVE graph' = graph
  BY <1>1 DEF start_node, node_output, node_raises
<1>2. CASE topological_round \/ sorted \/ group_node \/ level_ends \/ aggregate
  BY <1>2 DEF topological_round, sorted, group_node, level_ends, aggregate
<1>3. CASE finish \/ fail \/ run_saga_failed BY <1>3 DEF finish, fail, run_saga_failed
<1>4. CASE UNCHANGED vars BY <1>4 DEF vars
<1> QED BY <1>1, <1>2, <1>3, <1>4 DEF Next

-----------------------------------------------------------------------------
(* Kahn's algorithm.                                                         *)

\* What is in the queue has all its sources done, what is done has them before
\* it; indegree counts the sources that are not done.
KahnInv ==
    /\ \A m \in NodeSet : indegree[m] = Cardinality(Pred(m) \ ToSet(order))
    /\ \A n \in ToSet(queue) : Pred(n) \subseteq ToSet(order)
    /\ \A i \in DOMAIN order : Pred(order[i]) \subseteq {order[j] : j \in 1..(i - 1)}
OrderInv == graph \in Graphs /\ OrderTypes /\ KahnInv

\* The sources of a node, whichever are left of them, are finitely many.
LEMMA FinitePred ==
    ASSUME graph \in Graphs, NEW n, NEW S PROVE IsFiniteSet(Pred(n) \ S)
<1>1. Pred(n) \ S \in SUBSET NodeSet BY DEF Pred
<1> QED BY <1>1, GraphFacts, FS_Subset

\* The queue starts with the nodes that have no source.
LEMMA OrderInit == Init => OrderInv
<1> SUFFICES ASSUME Init PROVE OrderInv OBVIOUS
<1> USE DEF Init
<1>1. graph \in Graphs /\ order = <<>> /\ ToSet(order) = {} BY DEF ToSet
<1> DEFINE first == {n \in NodeSet : indegree[n] = 0}
<1>2. IsFiniteSet(first)
  <2>1. first \in SUBSET NodeSet OBVIOUS
  <2> QED BY <2>1, <1>1, GraphFacts, FS_Subset
<1>3. queue \in InOrder(first, Insertion) OBVIOUS
<1>4. queue \in Seq(first) /\ IsInjective(queue) /\ ToSet(queue) = first
  BY <1>2, <1>3, AllInOrder
<1>5. queue \in Seq(NodeSet) BY <1>4, SeqMonotonic
<1>6. \A n \in NodeSet : Pred(n) \ {} = Pred(n) OBVIOUS
<1>7. indegree \in [NodeSet -> Nat]
  <2>1. \A n \in NodeSet : Cardinality(Pred(n)) \in Nat
    BY <1>1, <1>6, FinitePred, FS_CardinalityType
  <2> QED BY <2>1
<1>8. OrderTypes
  <2>1. order \in Seq(NodeSet) /\ IsInjective(order) BY <1>1 DEF IsInjective
  <2> QED BY <1>1, <1>4, <1>5, <1>7, <2>1 DEF OrderTypes
<1>9. \A n \in first : Pred(n) = {}
  <2> SUFFICES ASSUME NEW n \in first PROVE Pred(n) = {} OBVIOUS
  <2>1. Cardinality(Pred(n)) = 0 OBVIOUS
  <2>2. IsFiniteSet(Pred(n)) BY <1>1, <1>6, FinitePred
  <2> QED BY <2>1, <2>2, FS_EmptySet
<1>a. \A n \in NodeSet : Pred(n) \ ToSet(order) = Pred(n) BY <1>1
<1>b. \A n \in NodeSet : indegree[n] = Cardinality(Pred(n) \ ToSet(order)) BY <1>a
<1>c. \A n \in ToSet(queue) : Pred(n) \subseteq ToSet(order) BY <1>4, <1>9
<1>d. DOMAIN order = {} BY <1>1
<1>10. KahnInv BY <1>b, <1>c, <1>d DEF KahnInv
<1> QED BY <1>1, <1>8, <1>10 DEF OrderInv

\* A round: the node at the head of the queue is done, and what it was the last
\* source of joins the queue.
LEMMA OrderRound == OrderInv /\ topological_round => OrderInv'
<1> SUFFICES ASSUME OrderInv, topological_round PROVE OrderInv' OBVIOUS
<1>0. PICK n : n = Head(queue) OBVIOUS
<1>1. PICK left : left = [m \in NodeSet |-> indegree[m] - Loss(n, m)] OBVIOUS
<1>2. /\ queue # <<>> /\ indegree' = left /\ order' = Append(order, n) /\ graph' = graph
      /\ \E q \in InOrder({m \in Targets(n) : left[m] = 0}, FirstEdge(n)) :
            queue' = Tail(queue) \o q
  BY <1>0, <1>1 DEF topological_round
<1>g. /\ NodeSet' = NodeSet /\ \A m : Pred(m)' = Pred(m)
  BY <1>2, SameGraph
<1>3. /\ graph \in Graphs /\ queue \in Seq(NodeSet) /\ order \in Seq(NodeSet)
      /\ IsInjective(queue) /\ IsInjective(order) /\ ToSet(queue) \cap ToSet(order) = {}
      /\ indegree \in [NodeSet -> Nat]
  BY DEF OrderInv, OrderTypes
<1>4. /\ \A m \in NodeSet : indegree[m] = Cardinality(Pred(m) \ ToSet(order))
      /\ \A m \in ToSet(queue) : Pred(m) \subseteq ToSet(order)
      /\ \A i \in DOMAIN order : Pred(order[i]) \subseteq {order[j] : j \in 1..(i - 1)}
  BY DEF OrderInv, KahnInv
<1>5. /\ n \in NodeSet /\ n \in ToSet(queue) /\ n \notin ToSet(order)
      /\ Tail(queue) \in Seq(NodeSet) /\ IsInjective(Tail(queue))
      /\ ToSet(Tail(queue)) = ToSet(queue) \ {n}
  BY <1>0, <1>2, <1>3, TailOf
<1>6. /\ order' \in Seq(NodeSet) /\ IsInjective(order') /\ Len(order') = Len(order) + 1
      /\ ToSet(order') = ToSet(order) \cup {n}
      /\ \A i \in 1..Len(order) : order'[i] = order[i]
      /\ order'[Len(order) + 1] = n
  BY <1>2, <1>3, <1>5, AppendNew
<1>o. /\ Len(order) \in Nat /\ DOMAIN order = 1..Len(order)
      /\ \A i \in 1..Len(order) : order[i] \in ToSet(order)
      /\ ToSet(order) = {order[j] : j \in 1..Len(order)}
      /\ ToSet(order) \subseteq NodeSet /\ ToSet(queue) \subseteq NodeSet
  BY <1>3, ToSetOfSeq
<1>7. \A m \in ToSet(order) : Pred(m) \subseteq ToSet(order)
  <2> SUFFICES ASSUME NEW m \in ToSet(order), NEW s \in Pred(m) PROVE s \in ToSet(order) OBVIOUS
  <2>1. PICK i \in 1..Len(order) : m = order[i] BY <1>o
  <2>2. s \in {order[j] : j \in 1..(i - 1)} BY <2>1, <1>4, <1>o
  <2>3. PICK j \in 1..(i - 1) : s = order[j] BY <2>2
  <2>4. j \in 1..Len(order) BY <2>1, <2>3, <1>o
  <2> QED BY <2>3, <2>4, <1>o
<1>8. ASSUME NEW m \in Targets(n) PROVE m \in NodeSet /\ m \notin ToSet(queue) \cup ToSet(order)
  <2>1. m \in NodeSet /\ n \in Pred(m) BY <1>5, PredTarget DEF Targets
  <2> QED BY <2>1, <1>4, <1>5, <1>7
<1>9. ASSUME NEW m \in NodeSet
      PROVE  left[m] \in Nat /\ left[m] = Cardinality(Pred(m) \ ToSet(order'))
  <2> DEFINE open == Pred(m) \ ToSet(order)
  <2>1. Pred(m) \ ToSet(order') = open \ {n} BY <1>6
  <2>2. IsFiniteSet(open) BY <1>3, FinitePred
  <2>3. n \in open <=> m \in Targets(n) BY <1>5, PredTarget
  <2>4. indegree[m] = Cardinality(open) BY <1>4
  <2> HIDE DEF open
  <2>5. /\ IsFiniteSet(open \ {n})
        /\ Cardinality(open \ {n}) = IF n \in open THEN Cardinality(open) - 1 ELSE Cardinality(open)
    BY <2>2, FS_RemoveElement
  <2>6. Cardinality(open \ {n}) \in Nat /\ Cardinality(open) \in Nat
    BY <2>2, <2>5, FS_CardinalityType
  <2>7. left[m] = indegree[m] - Loss(n, m) BY <1>1
  <2>8. left[m] = Cardinality(open \ {n}) BY <2>3, <2>4, <2>5, <2>6, <2>7 DEF Loss
  <2> QED BY <2>1, <2>6, <2>8
<1> DEFINE ready == {m \in Targets(n) : left[m] = 0}
<1>10. ready \subseteq NodeSet /\ ready \cap (ToSet(queue) \cup ToSet(order')) = {}
  BY <1>5, <1>6, <1>8
<1>11. IsFiniteSet(ready) BY <1>3, <1>10, GraphFacts, FS_Subset
<1>12. PICK q \in InOrder(ready, FirstEdge(n)) : queue' = Tail(queue) \o q BY <1>2
<1>r. \A m \in ready : m \in NodeSet /\ left[m] = 0 BY <1>10
<1> HIDE DEF ready
<1>13. q \in Seq(ready) /\ IsInjective(q) /\ ToSet(q) = ready BY <1>11, <1>12, AllInOrder
<1>14. q \in Seq(NodeSet) BY <1>10, <1>13, SeqMonotonic
<1>t. ToSet(Tail(queue)) \cap ToSet(q) = {} BY <1>5, <1>10, <1>13
<1>15. /\ queue' \in Seq(NodeSet) /\ IsInjective(queue')
       /\ ToSet(queue') = (ToSet(queue) \ {n}) \cup ready
  <2>1. PICK rest : rest = Tail(queue) OBVIOUS
  <2>2. rest \in Seq(NodeSet) /\ IsInjective(rest) /\ ToSet(rest) \cap ToSet(q) = {}
    BY <1>5, <1>t, <2>1
  <2>3. /\ rest \o q \in Seq(NodeSet) /\ IsInjective(rest \o q)
        /\ ToSet(rest \o q) = ToSet(rest) \cup ToSet(q)
    BY <2>2, <1>13, <1>14, ConcatDisjoint
  <2> QED BY <2>1, <2>3, <1>5, <1>12, <1>13
<1>16. ToSet(queue') \cap ToSet(order') = {} BY <1>3, <1>6, <1>10, <1>15
<1>17. indegree' \in [NodeSet -> Nat] BY <1>1, <1>2, <1>9
<1>18. OrderTypes' BY <1>6, <1>15, <1>16, <1>17, <1>g DEF OrderTypes
<1>19. ASSUME NEW m \in ToSet(queue') PROVE Pred(m) \subseteq ToSet(order')
  <2>1. CASE m \in ToSet(queue) BY <2>1, <1>4, <1>6
  <2>2. CASE m \in ready
    <3>1. Cardinality(Pred(m) \ ToSet(order')) = 0 BY <2>2, <1>r, <1>9
    <3>2. IsFiniteSet(Pred(m) \ ToSet(order')) BY <1>3, FinitePred
    <3>3. Pred(m) \ ToSet(order') = {} BY <3>1, <3>2, FS_EmptySet
    <3> QED BY <3>3
  <2> QED BY <1>15, <2>1, <2>2
<1>20. ASSUME NEW i \in DOMAIN order'
       PROVE  Pred(order'[i]) \subseteq {order'[j] : j \in 1..(i - 1)}
  <2>0. i \in 1..(Len(order) + 1) BY <1>6, LenProperties
  <2>1. CASE i \in 1..Len(order)
    <3>1. Pred(order[i]) \subseteq {order[j] : j \in 1..(i - 1)} BY <2>1, <1>4, <1>o
    <3>2. \A j \in 1..(i - 1) : j \in 1..Len(order) BY <2>1, <1>o
    <3>3. {order[j] : j \in 1..(i - 1)} = {order'[j] : j \in 1..(i - 1)} BY <3>2, <1>6
    <3> QED BY <3>1, <3>3, <2>1, <1>6
  <2>2. CASE i = Len(order) + 1
    <3>1. i - 1 = Len(order) BY <2>2, <1>o
    <3>2. {order'[j] : j \in 1..(i - 1)} = ToSet(order) BY <3>1, <1>6, <1>o
    <3>3. order'[i] = n BY <2>2, <1>6
    <3> QED BY <3>2, <3>3, <1>4, <1>5
  <2> QED BY <2>0, <2>1, <2>2, <1>o
<1>21. KahnInv'
  <2>1. \A m \in NodeSet : indegree'[m] = Cardinality(Pred(m) \ ToSet(order'))
    BY <1>2, <1>9
  <2> QED BY <2>1, <1>19, <1>20, <1>g DEF KahnInv
<1> QED BY <1>2, <1>3, <1>18, <1>21 DEF OrderInv

\* Nothing but topological_round touches what topological_order has computed.
LEMMA OrderStep == OrderInv /\ [Next]_vars => OrderInv'
<1> SUFFICES ASSUME OrderInv, [Next]_vars PROVE OrderInv' OBVIOUS
<1>1. ASSUME UNCHANGED <<graph, queue, order, indegree>> PROVE OrderInv'
  <2>1. NodeSet' = NodeSet /\ \A m : Pred(m)' = Pred(m) BY <1>1, SameGraph
  <2>2. OrderTypes' BY <1>1, <2>1 DEF OrderInv, OrderTypes
  <2>3. KahnInv' BY <1>1, <2>1 DEF OrderInv, KahnInv
  <2> QED BY <1>1, <2>2, <2>3 DEF OrderInv
<1>2. ASSUME NEW n, start_node(n) \/ node_output(n) \/ node_raises(n)
      PROVE  UNCHANGED <<graph, queue, order, indegree>>
  BY <1>2 DEF start_node, node_output, node_raises, run
<1>3. ASSUME \/ sorted \/ group_node \/ level_ends \/ aggregate \/ finish \/ fail
             \/ run_saga_failed \/ UNCHANGED vars
      PROVE  UNCHANGED <<graph, queue, order, indegree>>
  BY <1>3 DEF sorted, group_node, level_ends, aggregate, finish, fail, run_saga_failed,
              vars, run
<1> QED BY <1>1, <1>2, <1>3, OrderRound DEF Next

-----------------------------------------------------------------------------
(* The phases of a flow and its levels.                                      *)

\* A level is above those of the sources, and not above the place in the order.
LevelInv ==
    /\ \A n \in Nodes : levels[n] > 0 =>
           /\ n \in NodeSet
           /\ \A s \in Pred(n) : 0 < levels[s] /\ levels[s] < levels[n]
    /\ \A i \in DOMAIN order : levels[order[i]] <= i

\* Nodes run only once every node of the graph has its place and its level.
Prepared == ToSet(order) = NodeSet /\ \A n \in NodeSet : levels[n] > 0
PhaseInv ==
    /\ pc = "sort" => \A n \in Nodes : levels[n] = 0
    /\ pc \in {"sort", "group"} => level = 1
    /\ pc = "group" => /\ ToSet(order) = NodeSet /\ graph.nodes # <<>>
                       /\ Len(order) = Len(graph.nodes)
    /\ \/ Prepared /\ pc \notin {"sort", "group"}
       \/ /\ pc \in {"sort", "group", "run_saga", "end"} /\ row # "succeeded"
          /\ \A n \in Nodes : status[n] = "new"

\* The levels before the current one are done, those after it have not begun.
StepInv ==
    /\ \A n \in Nodes : status[n] # "new" => n \in NodeSet /\ levels[n] <= level
    /\ \A n \in Nodes : 0 < levels[n] /\ levels[n] < level => status[n] \in Done
    /\ pc = "level" => level <= Len(graph.nodes)
    /\ pc \in {"aggregate", "finish"} \/ row = "succeeded" =>
           \A n \in NodeSet : 0 < levels[n] /\ levels[n] < level
    /\ row = "succeeded" => pc \in {"fail", "run_saga", "end"}

\* The timeline has what has ended, and the verdict is about it.
Reported == {n \in Nodes : status[n] \in {"succeeded", "failed", "skipped"}}
ReportInv ==
    /\ IsInjective(timeline) /\ ToSet(timeline) = Reported
    /\ pc = "finish" \/ row = "succeeded" =>
           (verdict = "ok" <=> graph.required \subseteq {n \in Nodes : status[n] = "succeeded"})

\* skipped_nodes has the nodes that are cut; what was skipped was starved, and
\* still is.
SkipInv ==
    /\ skipped = {s \in Nodes : Cut(s)}
    /\ \A n \in NodeSet :
           Sources(n) \subseteq NodeSet \cup {Root} /\ status[n] \notin {"new", "raised"} =>
               (status[n] = "skipped" <=> n \in graph.disabled \/ Starved(n))

FlowInv ==
    /\ OrderInv /\ RunTypes /\ LevelTypes /\ NodeTypes
    /\ LevelInv /\ PhaseInv /\ StepInv /\ ReportInv /\ SkipInv

\* What the invariant says of the nodes, when nothing of them has changed.
LEMMA SameNodes ==
    ASSUME FlowInv, graph' = graph, UNCHANGED nodes
    PROVE  /\ NodeTypes' /\ SkipInv'
           /\ IsInjective(timeline') /\ ToSet(timeline') = Reported'
<1>0. NodeSet' = NodeSet /\ Edges' = Edges /\ \A n : Sources(n)' = Sources(n)
  BY SameGraph
<1>1. UNCHANGED <<status, attempts, skipped, route, timeline>> BY DEF nodes
<1>2. NodeTypes' BY <1>0, <1>1 DEF FlowInv, NodeTypes
<1>3. \A s : Cut(s)' = Cut(s) BY <1>0, <1>1 DEF Cut, NotTaken
<1>4. \A n : Starved(n)' = Starved(n) BY <1>0, <1>3 DEF Starved
<1>5. SkipInv' BY <1>0, <1>1, <1>3, <1>4 DEF FlowInv, SkipInv
<1>6. IsInjective(timeline') /\ ToSet(timeline') = Reported'
  BY <1>1 DEF FlowInv, ReportInv, Reported
<1> QED BY <1>2, <1>5, <1>6

\* A new flow has no level, no report and no skip.
LEMMA FlowInit == Init => FlowInv
<1> SUFFICES ASSUME Init PROVE FlowInv OBVIOUS
<1>0. OrderInv BY OrderInit
<1>g. graph \in Graphs BY <1>0 DEF OrderInv
<1>f. Len(graph.nodes) \in Nat /\ MaxFaults \in Nat /\ MaxAttempts \in [Nodes -> 1..10]
  BY <1>g, GraphFacts
<1>1. RunTypes /\ LevelTypes BY <1>f DEF Init, RunTypes, LevelTypes
<1>2. NodeTypes BY <1>f DEF Init, NodeTypes, Status
<1>3. LevelInv /\ PhaseInv
  BY DEF Init, LevelInv, PhaseInv
<1>4. StepInv BY DEF Init, StepInv
<1>5. ReportInv BY DEF Init, ReportInv, Reported, IsInjective, ToSet
<1>6. \A s \in Nodes : ~Cut(s)
  <2> SUFFICES ASSUME NEW s \in Nodes, Cut(s) PROVE FALSE OBVIOUS
  <2>1. status[s] = "new" BY DEF Init
  <2>2. PICK e \in Edges : e.from \in Routers /\ status[e.from] = "succeeded" BY <2>1 DEF Cut, NotTaken
  <2>3. e.from \in Nodes BY <2>2, FlowAssumption
  <2> QED BY <2>2, <2>3 DEF Init
<1>7. \A n \in NodeSet : status[n] = "new" BY <1>g, GraphFacts DEF Init
<1>8. SkipInv BY <1>6, <1>7 DEF Init, SkipInv
<1> QED BY <1>0, <1>1, <1>2, <1>3, <1>4, <1>5, <1>8 DEF FlowInv

\* Sorting: the graph is prepared for its levels, or refused.
LEMMA FlowSort == FlowInv /\ (topological_round \/ sorted) => FlowInv'
<1> SUFFICES ASSUME FlowInv, topological_round \/ sorted PROVE FlowInv' OBVIOUS
<1>1. /\ pc = "sort" /\ UNCHANGED <<graph, row, levels, level, nodes, verdict, faults>>
      /\ \/ pc' = "sort"
         \/ pc' = "run_saga"
         \/ pc' = "group" /\ graph.nodes # <<>> /\ Len(order) = Len(graph.nodes) /\ order' = order
  BY DEF topological_round, sorted
<1>2. OrderInv' BY OrderStep DEF FlowInv, Next
<1>3. /\ graph \in Graphs /\ order' \in Seq(NodeSet) /\ NodeSet' = NodeSet
      /\ IsInjective(order')
  BY <1>1, <1>2, SameGraph DEF OrderInv, OrderTypes
<1>4. /\ \A n \in Nodes : levels[n] = 0 /\ status[n] = "new"
      /\ level = 1 /\ row # "succeeded"
  BY <1>1 DEF FlowInv, PhaseInv
<1>t. /\ UNCHANGED <<status, attempts, skipped, route, timeline>> /\ NodeSet \subseteq Nodes
  BY <1>1, <1>3, GraphFacts DEF nodes
<1>5. RunTypes' /\ LevelTypes' BY <1>1 DEF FlowInv, RunTypes, LevelTypes
<1>6. /\ \A i \in DOMAIN order' : order'[i] \in NodeSet /\ i \in Nat
      /\ \A n \in Nodes : levels'[n] = 0
  BY <1>1, <1>3, <1>4, LenProperties, ElementOfSeq
<1>7. LevelInv' BY <1>6, <1>t, <1>3 DEF LevelInv
<1>8. PhaseInv'
  <2>1. CASE pc' = "group"
    <3>1. ToSet(order') = NodeSet BY <1>1, <1>3, <2>1, GraphFacts, FullSequence
    <3> QED BY <1>1, <1>3, <1>4, <1>t, <2>1, <3>1 DEF PhaseInv
  <2>2. CASE pc' \in {"sort", "run_saga"} BY <1>1, <1>4, <1>t, <2>2 DEF PhaseInv
  <2> QED BY <1>1, <2>1, <2>2
<1>9. StepInv' BY <1>1, <1>4, <1>t, <1>3 DEF StepInv
<1>10. NodeTypes' /\ SkipInv' /\ IsInjective(timeline') /\ ToSet(timeline') = Reported'
  BY <1>1, SameNodes
<1>11. ReportInv' BY <1>1, <1>4, <1>10 DEF ReportInv
<1> QED BY <1>2, <1>5, <1>7, <1>8, <1>9, <1>10, <1>11 DEF FlowInv

\* Grouping: one more node has its level.
LEMMA FlowGroup == FlowInv /\ group_node => FlowInv'
<1> SUFFICES ASSUME FlowInv, group_node PROVE FlowInv' OBVIOUS
<1>1. PICK i \in DOMAIN order :
          /\ levels[order[i]] = 0 /\ \A j \in 1..(i - 1) : levels[order[j]] > 0
          /\ levels' = [levels EXCEPT ![order[i]] = Max(SourceLevels(order[i])) + 1]
  BY DEF group_node
<1>2. /\ pc = "group" /\ pc' = IF \A n \in NodeSet : levels'[n] > 0 THEN "level" ELSE "group"
      /\ UNCHANGED <<graph, row, queue, order, indegree, level, nodes, verdict, faults>>
  BY DEF group_node
<1>3. OrderInv' BY OrderStep DEF FlowInv, Next
<1>4. /\ graph \in Graphs /\ order \in Seq(NodeSet) /\ IsInjective(order)
      /\ \A k \in DOMAIN order : Pred(order[k]) \subseteq {order[j] : j \in 1..(k - 1)}
  BY DEF FlowInv, OrderInv, OrderTypes, KahnInv
<1>5. /\ NodeSet \subseteq Nodes /\ Len(graph.nodes) \in Nat
      /\ NodeSet' = NodeSet /\ \A m : Pred(m)' = Pred(m)
  BY <1>2, <1>4, GraphFacts, SameGraph
<1>6. /\ ToSet(order) = NodeSet /\ graph.nodes # <<>> /\ Len(order) = Len(graph.nodes)
      /\ level = 1 /\ row # "succeeded" /\ \A n \in Nodes : status[n] = "new"
  BY <1>2 DEF FlowInv, PhaseInv
<1>7. /\ DOMAIN order = 1..Len(graph.nodes) /\ \A k \in DOMAIN order : order[k] \in NodeSet
  BY <1>4, <1>6, ToSetOfSeq
<1>8. /\ levels \in [Nodes -> 0..Len(graph.nodes)]
      /\ \A n \in Nodes : levels[n] > 0 =>
             n \in NodeSet /\ \A s \in Pred(n) : 0 < levels[s] /\ levels[s] < levels[n]
      /\ \A k \in DOMAIN order : levels[order[k]] <= k
  BY DEF FlowInv, LevelTypes, LevelInv
<1>t. UNCHANGED <<status, attempts, skipped, route, timeline>> BY <1>2 DEF nodes
<1>9. PICK n : n = order[i] OBVIOUS
<1>10. n \in NodeSet /\ i \in 1..Len(graph.nodes) /\ i \in Nat /\ i - 1 \in Nat
  BY <1>1, <1>5, <1>7, <1>9
<1>11. \A s \in Pred(n) : s \in NodeSet /\ levels[s] \in 0..(i - 1) /\ 0 < levels[s]
  <2> SUFFICES ASSUME NEW s \in Pred(n)
               PROVE  s \in NodeSet /\ levels[s] \in 0..(i - 1) /\ 0 < levels[s]
    OBVIOUS
  <2>1. PICK j \in 1..(i - 1) : s = order[j] BY <1>4, <1>9
  <2>2. j \in DOMAIN order BY <1>7, <1>10
  <2>3. levels[s] <= j /\ levels[s] > 0 /\ s \in NodeSet BY <1>1, <1>7, <1>8, <2>1, <2>2
  <2>4. levels[s] \in Nat BY <1>5, <1>8, <2>3
  <2> QED BY <2>1, <2>3, <2>4, <1>10
<1>12. PICK top : top = Max(SourceLevels(n)) OBVIOUS
<1>13. top \in 0..(i - 1) /\ \A s \in Pred(n) : levels[s] <= top
  <2>1. SourceLevels(n) \in SUBSET (0..(i - 1)) /\ 0 \in SourceLevels(n)
    BY <1>10, <1>11 DEF SourceLevels
  <2>2. \A s \in Pred(n) : levels[s] \in SourceLevels(n) BY DEF SourceLevels
  <2>3. Max(SourceLevels(n)) \in SourceLevels(n)
        /\ \A x \in SourceLevels(n) : x <= Max(SourceLevels(n))
    BY <1>10, <2>1, MaxIsMember
  <2> QED BY <1>12, <2>1, <2>2, <2>3
<1>14. /\ levels' = [levels EXCEPT ![n] = top + 1] /\ levels[n] = 0
  BY <1>1, <1>9, <1>12
<1>15. /\ levels'[n] = top + 1 /\ levels'[n] > 0 /\ levels'[n] <= i
       /\ levels'[n] \in 0..Len(graph.nodes)
       /\ \A m \in Nodes \ {n} : levels'[m] = levels[m]
  BY <1>5, <1>8, <1>10, <1>13, <1>14
<1>16. levels' \in [Nodes -> 0..Len(graph.nodes)] BY <1>8, <1>14, <1>15
<1>17. RunTypes' /\ LevelTypes'
  BY <1>2, <1>16 DEF FlowInv, RunTypes, LevelTypes
<1>18. ASSUME NEW m \in Nodes, levels'[m] > 0
       PROVE  m \in NodeSet /\ \A s \in Pred(m) : 0 < levels'[s] /\ levels'[s] < levels'[m]
  <2>1. CASE m = n
    <3> SUFFICES ASSUME NEW s \in Pred(n) PROVE 0 < levels'[s] /\ levels'[s] < levels'[n]
      BY <2>1, <1>10
    <3>1. levels[s] <= top /\ 0 < levels[s] /\ s \in Nodes \ {n} /\ levels[s] \in Nat /\ top \in Nat
      BY <1>5, <1>10, <1>11, <1>13, <1>14
    <3> QED BY <3>1, <1>15
  <2>2. CASE m # n
    <3>1. levels'[m] = levels[m] BY <2>2, <1>15
    <3>2. m \in NodeSet /\ \A s \in Pred(m) : 0 < levels[s] /\ levels[s] < levels[m]
      BY <3>1, <1>8, <1>18
    <3>3. \A s \in Pred(m) : s \in Nodes \ {n} BY <3>2, <1>5, <1>14 DEF Pred
    <3> QED BY <3>1, <3>2, <3>3, <1>15
  <2> QED BY <2>1, <2>2
<1>19. ASSUME NEW k \in DOMAIN order PROVE levels'[order[k]] <= k
  <2>1. CASE k = i BY <2>1, <1>9, <1>15
  <2>2. CASE k # i
    <3>1. order[k] # n BY <2>2, <1>1, <1>4, <1>9 DEF IsInjective
    <3>2. order[k] \in Nodes BY <1>5, <1>7
    <3> QED BY <3>1, <3>2, <1>8, <1>15
  <2> QED BY <2>1, <2>2
<1>20. LevelInv' BY <1>2, <1>5, <1>18, <1>19 DEF LevelInv
<1>21. PhaseInv' BY <1>2, <1>5, <1>6, <1>t DEF PhaseInv, Prepared
<1>22. StepInv'
  <2>1. \A m \in Nodes : levels'[m] \in Nat BY <1>16
  <2>2. 1 <= Len(graph.nodes) BY <1>10
  <2> QED BY <1>2, <1>5, <1>6, <1>t, <2>1, <2>2 DEF StepInv
<1>23. NodeTypes' /\ SkipInv' /\ IsInjective(timeline') /\ ToSet(timeline') = Reported'
  BY <1>2, SameNodes
<1>24. ReportInv' BY <1>2, <1>6, <1>23 DEF ReportInv
<1> QED BY <1>3, <1>17, <1>20, <1>21, <1>22, <1>23, <1>24 DEF FlowInv

-----------------------------------------------------------------------------
(* The nodes of a level.                                                     *)

\* While a level runs, everything but its nodes stays.
LEMMA LevelFrame ==
    ASSUME FlowInv, pc = "level", UNCHANGED <<graph, run, verdict, faults>>
    PROVE  /\ RunTypes' /\ LevelTypes' /\ LevelInv'
           /\ row # "succeeded" /\ Prepared
           /\ graph \in Graphs /\ NodeSet \subseteq Nodes
           /\ NodeSet' = NodeSet /\ Edges' = Edges /\ \A n : Sources(n)' = Sources(n)
<1>1. UNCHANGED <<graph, row, pc, queue, indegree, order, levels, level, verdict, faults>>
  BY DEF run
<1>2. NodeSet' = NodeSet /\ Edges' = Edges
      /\ \A n : Sources(n)' = Sources(n) /\ Pred(n)' = Pred(n)
  BY SameGraph
<1>3. RunTypes' /\ LevelTypes' BY <1>1 DEF FlowInv, RunTypes, LevelTypes
<1>4. LevelInv' BY <1>1, <1>2 DEF FlowInv, LevelInv
<1>5. row # "succeeded" BY DEF FlowInv, StepInv
<1>6. Prepared BY DEF FlowInv, PhaseInv
<1>7. graph \in Graphs BY DEF FlowInv, OrderInv
<1>8. NodeSet \subseteq Nodes BY <1>7, GraphFacts
<1> QED BY <1>2, <1>3, <1>4, <1>5, <1>6, <1>7, <1>8

\* A node that runs is of the level.
LEMMA RunningLevel ==
    ASSUME FlowInv, pc = "level", NEW n \in NodeSet, status[n] = "running"
    PROVE  levels[n] = level
<1>1. n \in Nodes /\ levels[n] > 0
  <2>2. graph \in Graphs /\ Prepared BY DEF FlowInv, OrderInv, PhaseInv
  <2> QED BY <2>2, GraphFacts DEF Prepared
<1>2. levels[n] <= level /\ ~(levels[n] < level)
  BY <1>1 DEF FlowInv, StepInv, Done
<1>3. levels[n] \in Nat /\ level \in Nat
  <2>1. graph \in Graphs /\ Len(graph.nodes) \in Nat
    BY GraphFacts DEF FlowInv, OrderInv
  <2> QED BY <1>1, <2>1 DEF FlowInv, LevelTypes
<1> QED BY <1>2, <1>3

\* What one node of the level does leaves the steps as they are.
LEMMA StepKept ==
    ASSUME FlowInv, pc = "level", UNCHANGED <<graph, run, verdict, faults>>,
           NEW n \in NodeSet, levels[n] = level,
           \A m \in Nodes \ {n} : status'[m] = status[m]
    PROVE  PhaseInv' /\ StepInv'
<1>1. UNCHANGED <<graph, row, pc, queue, indegree, order, levels, level, verdict, faults>>
  BY DEF run
<1>2. row # "succeeded" /\ Prepared /\ NodeSet \subseteq Nodes /\ NodeSet' = NodeSet
  BY LevelFrame
<1>3. n \in Nodes /\ level \in Nat /\ levels[n] \in Nat
  <2>1. graph \in Graphs /\ Len(graph.nodes) \in Nat
    BY GraphFacts DEF FlowInv, OrderInv
  <2> QED BY <1>2, <2>1 DEF FlowInv, LevelTypes
<1>4. PhaseInv' BY <1>1, <1>2 DEF PhaseInv, Prepared
<1>5. /\ \A m \in Nodes : status[m] # "new" => m \in NodeSet /\ levels[m] <= level
      /\ \A m \in Nodes : 0 < levels[m] /\ levels[m] < level => status[m] \in Done
      /\ level <= Len(graph.nodes)
  BY DEF FlowInv, StepInv
<1>6. \A m \in Nodes : status'[m] # "new" => m \in NodeSet /\ levels[m] <= level
  BY <1>3, <1>5
<1>7. \A m \in Nodes : 0 < levels[m] /\ levels[m] < level => status'[m] \in Done
  BY <1>3, <1>5
<1>8. StepInv' BY <1>1, <1>2, <1>5, <1>6, <1>7 DEF StepInv, Done
<1> QED BY <1>4, <1>8

\* What a node of the level does cuts no source of a node that has begun.
LEMMA CutStays ==
    ASSUME FlowInv, pc = "level", UNCHANGED <<graph, run, verdict, faults>>,
           NEW n \in NodeSet, levels[n] = level,
           \A m \in Nodes \ {n} : status'[m] = status[m] /\ route'[m] = route[m],
           NEW k \in NodeSet, levels[k] <= level, Sources(k) \subseteq NodeSet \cup {Root}
    PROVE  Starved(k)' <=> Starved(k)
<1>1. /\ NodeSet' = NodeSet /\ Edges' = Edges /\ NodeSet \subseteq Nodes /\ Prepared
      /\ Sources(k)' = Sources(k)
  BY LevelFrame
<1>2. /\ level \in Nat /\ \A m \in NodeSet : levels[m] \in Nat
      /\ \A m \in NodeSet : \A s \in Pred(m) : levels[s] < levels[m]
  <2>1. graph \in Graphs /\ Len(graph.nodes) \in Nat
    BY GraphFacts DEF FlowInv, OrderInv
  <2> QED BY <1>1, <2>1 DEF FlowInv, LevelTypes, LevelInv, Prepared
<1>3. ASSUME NEW s \in Sources(k), s # Root PROVE Cut(s)' <=> Cut(s)
  <2>1. s \in NodeSet /\ s \in Pred(k) BY <1>3 DEF Pred
  <2>2. levels[s] < level /\ s # n BY <1>2, <2>1
  <2>3. status'[s] = status[s] BY <1>1, <2>1, <2>2
  <2>4. ASSUME NEW e \in Edges, e.to = s, e.from \in Routers
        PROVE  status'[e.from] = status[e.from] /\ route'[e.from] = route[e.from]
    <3>1. e.from \in Nodes BY <2>4, FlowAssumption
    <3>2. e.from # n
      <4> SUFFICES ASSUME e.from = n PROVE FALSE OBVIOUS
      <4>1. n \in Pred(s) BY <2>4 DEF Pred, Sources
      <4> QED BY <4>1, <1>2, <2>1, <2>2
    <3> QED BY <3>1, <3>2
  <2> QED BY <1>1, <2>3, <2>4 DEF Cut, NotTaken
<1> QED BY <1>1, <1>3 DEF Starved

\* So only the node itself has to be looked at.
LEMMA SkipsKept ==
    ASSUME FlowInv, pc = "level", UNCHANGED <<graph, run, verdict, faults>>,
           NEW n \in NodeSet, levels[n] = level,
           \A m \in Nodes \ {n} : status'[m] = status[m] /\ route'[m] = route[m],
           Sources(n) \subseteq NodeSet \cup {Root} /\ status'[n] \notin {"new", "raised"} =>
               (status'[n] = "skipped" <=> n \in graph.disabled \/ Starved(n)),
           skipped' = {s \in Nodes : Cut(s)'}
    PROVE  SkipInv'
<1>1. /\ NodeSet' = NodeSet /\ NodeSet \subseteq Nodes
      /\ \A m : Sources(m)' = Sources(m)
  BY LevelFrame
<1>2. ASSUME NEW k \in NodeSet, Sources(k) \subseteq NodeSet \cup {Root},
             status'[k] \notin {"new", "raised"}
      PROVE  status'[k] = "skipped" <=> k \in graph.disabled \/ Starved(k)'
  <2>1. CASE k = n
    <3>1. levels[n] <= level
      <4>1. graph \in Graphs /\ Len(graph.nodes) \in Nat
        BY GraphFacts DEF FlowInv, OrderInv
      <4> QED BY <4>1 DEF FlowInv, LevelTypes
    <3>2. Starved(n)' <=> Starved(n) BY <1>2, <2>1, <3>1, CutStays
    <3> QED BY <1>2, <2>1, <3>2
  <2>2. CASE k # n
    <3>1. status'[k] = status[k] BY <1>1, <2>2
    <3>2. levels[k] <= level BY <1>1, <1>2, <3>1 DEF FlowInv, StepInv
    <3>3. Starved(k)' <=> Starved(k) BY <1>2, <3>2, CutStays
    <3>4. status[k] = "skipped" <=> k \in graph.disabled \/ Starved(k)
      BY <1>2, <3>1 DEF FlowInv, SkipInv
    <3> QED BY <3>1, <3>3, <3>4
  <2> QED BY <2>1, <2>2
<1> QED BY <1>1, <1>2 DEF SkipInv

\* A node that ends joins the timeline, once.
LEMMA ReportKept ==
    ASSUME FlowInv, pc = "level", UNCHANGED <<graph, run, verdict, faults>>,
           NEW n \in NodeSet, status[n] \in {"new", "running"},
           \A m \in Nodes \ {n} : status'[m] = status[m],
           \/ status'[n] \in {"new", "running", "raised"} /\ timeline' = timeline
           \/ status'[n] \in {"succeeded", "failed", "skipped"} /\ timeline' = Append(timeline, n)
    PROVE  ReportInv' /\ timeline' \in Seq(NodeSet)
<1>1. /\ row # "succeeded" /\ UNCHANGED row /\ UNCHANGED pc /\ n \in Nodes
      /\ timeline \in Seq(NodeSet)
  BY LevelFrame DEF run, FlowInv, NodeTypes
<1>2. IsInjective(timeline) /\ ToSet(timeline) = Reported BY DEF FlowInv, ReportInv
<1>3. n \notin Reported BY DEF Reported
<1>4. CASE status'[n] \in {"new", "running", "raised"} /\ timeline' = timeline
  <2>1. Reported' = Reported BY <1>1, <1>3, <1>4 DEF Reported
  <2> QED BY <1>1, <1>2, <1>4, <2>1 DEF ReportInv
<1>5. CASE status'[n] \in {"succeeded", "failed", "skipped"} /\ timeline' = Append(timeline, n)
  <2>1. Reported' = Reported \cup {n} BY <1>1, <1>5 DEF Reported
  <2>2. /\ Append(timeline, n) \in Seq(NodeSet) /\ IsInjective(Append(timeline, n))
        /\ ToSet(Append(timeline, n)) = ToSet(timeline) \cup {n}
    BY <1>1, <1>2, <1>3, AppendNew
  <2>3. timeline' \in Seq(NodeSet) /\ IsInjective(timeline') /\ ToSet(timeline') = Reported'
    BY <1>2, <1>5, <2>1, <2>2
  <2> QED BY <1>1, <2>3 DEF ReportInv
<1> QED BY <1>4, <1>5

\* A coroutine starts: its node raises, is skipped or runs.
LEMMA FlowStart == ASSUME NEW n \in NodeSet PROVE FlowInv /\ start_node(n) => FlowInv'
<1> SUFFICES ASSUME FlowInv, start_node(n) PROVE FlowInv' OBVIOUS
<1>1. /\ pc = "level" /\ UNCHANGED <<graph, run, route, verdict, faults>>
      /\ levels[n] = level /\ status[n] = "new"
      /\ \/ /\ status' = [status EXCEPT ![n] = "raised"]
            /\ UNCHANGED <<attempts, skipped, timeline>>
         \/ /\ should_skip(n)
            /\ status' = [status EXCEPT ![n] = "skipped"]
            /\ skipped' = skipped \cup {n}
            /\ timeline' = Append(timeline, n)
            /\ UNCHANGED attempts
         \/ /\ ~should_skip(n)
            /\ status' = [status EXCEPT ![n] = "running"]
            /\ attempts' = [attempts EXCEPT ![n] = 1]
            /\ UNCHANGED <<skipped, timeline>>
  BY DEF start_node, LevelNodes
<1>2. /\ RunTypes' /\ LevelTypes' /\ LevelInv' /\ graph \in Graphs /\ n \in Nodes
      /\ NodeSet' = NodeSet /\ Edges' = Edges /\ NodeSet \subseteq Nodes
  BY <1>1, LevelFrame
<1>3. OrderInv' BY OrderStep DEF FlowInv, Next
<1>4. /\ status \in [Nodes -> Status] /\ route \in [Nodes -> Routes \cup {NoRoute}]
      /\ attempts \in [Nodes -> Nat] /\ \A m \in Nodes : attempts[m] <= MaxAttempts[m]
      /\ skipped \subseteq Nodes
  BY DEF FlowInv, NodeTypes
<1>5. \A m \in Nodes \ {n} : status'[m] = status[m] /\ route'[m] = route[m]
  BY <1>1, <1>4
<1>6. PhaseInv' /\ StepInv' BY <1>1, <1>5, StepKept
<1>7. ReportInv' /\ timeline' \in Seq(NodeSet)
  <2>1. \/ status'[n] \in {"new", "running", "raised"} /\ timeline' = timeline
        \/ status'[n] \in {"succeeded", "failed", "skipped"} /\ timeline' = Append(timeline, n)
    BY <1>1, <1>2, <1>4
  <2> QED BY <1>1, <1>5, <2>1, ReportKept
<1>8. NodeTypes'
  <2>1. status' \in [Nodes -> Status] BY <1>1, <1>4 DEF Status
  <2>2. attempts' \in [Nodes -> Nat] /\ \A m \in Nodes : attempts'[m] <= MaxAttempts[m]
    <3>1. 1 <= MaxAttempts[n] BY <1>2, FlowAssumption
    <3> QED BY <1>1, <1>2, <1>4, <3>1
  <2>3. skipped' \subseteq Nodes BY <1>1, <1>2, <1>4
  <2> QED BY <1>1, <1>2, <1>4, <1>7, <2>1, <2>2, <2>3 DEF NodeTypes
<1>9. \A s \in Nodes : Cut(s)' <=> Cut(s) \/ (s = n /\ status'[n] = "skipped")
  <2>1. status'[n] \in {"raised", "skipped", "running"} /\ UNCHANGED route
    BY <1>1, <1>2, <1>4
  <2>2. ASSUME NEW e \in Edges, e.from \in Routers
        PROVE  status'[e.from] = "succeeded" <=> status[e.from] = "succeeded"
    <3>1. e.from \in Nodes BY <2>2, FlowAssumption
    <3> QED BY <1>1, <1>5, <2>1, <3>1
  <2>3. ASSUME NEW s \in Nodes
        PROVE  status'[s] = "skipped" <=> status[s] = "skipped" \/ (s = n /\ status'[n] = "skipped")
    BY <1>1, <1>5
  <2> QED BY <1>2, <2>1, <2>2, <2>3 DEF Cut, NotTaken
<1>10. skipped = {s \in Nodes : Cut(s)} BY DEF FlowInv, SkipInv
<1>11. skipped' = {s \in Nodes : Cut(s)'}
  <2>1. CASE status'[n] = "skipped"
    <3>1. skipped' = skipped \cup {n} BY <1>1, <1>2, <1>4, <2>1
    <3> QED BY <3>1, <1>2, <1>9, <1>10, <2>1
  <2>2. CASE status'[n] # "skipped"
    <3>1. skipped' = skipped BY <1>1, <1>2, <1>4, <2>2
    <3> QED BY <3>1, <1>9, <1>10, <2>2
  <2> QED BY <2>1, <2>2
<1>12. ASSUME Sources(n) \subseteq NodeSet \cup {Root}
       PROVE  Sources(n) \subseteq skipped <=> \A s \in Sources(n) : s # Root /\ Cut(s)
  BY <1>2, <1>10, <1>12, FlowAssumption
<1>13. ASSUME Sources(n) \subseteq NodeSet \cup {Root}, status'[n] \notin {"new", "raised"}
       PROVE  status'[n] = "skipped" <=> n \in graph.disabled \/ Starved(n)
  <2>1. should_skip(n) <=> n \in graph.disabled \/ Starved(n)
    BY <1>12, <1>13 DEF should_skip, Starved
  <2>2. status'[n] = "skipped" <=> should_skip(n) BY <1>1, <1>2, <1>4, <1>13
  <2> QED BY <2>1, <2>2
<1>14. SkipInv' BY <1>1, <1>5, <1>11, <1>13, SkipsKept
<1> QED BY <1>2, <1>3, <1>6, <1>7, <1>8, <1>14 DEF FlowInv

\* A block answers, and a routing block cuts the branches that it does not take.
LEMMA FlowOutput == ASSUME NEW n \in NodeSet PROVE FlowInv /\ node_output(n) => FlowInv'
<1> SUFFICES ASSUME FlowInv, node_output(n) PROVE FlowInv' OBVIOUS
<1>1. /\ pc = "level" /\ UNCHANGED <<graph, run, attempts, verdict, faults>>
      /\ status[n] = "running" /\ status' = [status EXCEPT ![n] = "succeeded"]
      /\ timeline' = Append(timeline, n)
      /\ \/ n \in Routers /\ \E r \in Routes : apply_routing(n, r)
         \/ n \notin Routers /\ UNCHANGED <<route, skipped>>
  BY DEF node_output
<1>l. levels[n] = level BY <1>1, RunningLevel
<1>2. /\ RunTypes' /\ LevelTypes' /\ LevelInv' /\ graph \in Graphs /\ n \in Nodes
      /\ NodeSet' = NodeSet /\ Edges' = Edges /\ NodeSet \subseteq Nodes
  BY <1>1, LevelFrame
<1>3. OrderInv' BY OrderStep DEF FlowInv, Next
<1>4. /\ status \in [Nodes -> Status] /\ route \in [Nodes -> Routes \cup {NoRoute}]
      /\ attempts \in [Nodes -> Nat] /\ \A m \in Nodes : attempts[m] <= MaxAttempts[m]
      /\ skipped \subseteq Nodes
  BY DEF FlowInv, NodeTypes
<1>5. \A m \in Nodes \ {n} : status'[m] = status[m] /\ route'[m] = route[m]
  BY <1>1, <1>4 DEF apply_routing
<1>6. PhaseInv' /\ StepInv' BY <1>1, <1>l, <1>5, StepKept
<1>7. ReportInv' /\ timeline' \in Seq(NodeSet)
  <2>1. status'[n] \in {"succeeded", "failed", "skipped"} BY <1>1, <1>2, <1>4
  <2> QED BY <1>1, <1>5, <2>1, ReportKept
<1>8. \A e \in Edges : e.to \in Nodes BY <1>2, GraphFacts
<1>9. NodeTypes'
  <2>1. status' \in [Nodes -> Status] BY <1>1, <1>4 DEF Status
  <2>2. route' \in [Nodes -> Routes \cup {NoRoute}] BY <1>1, <1>4 DEF apply_routing
  <2>3. skipped' \subseteq Nodes BY <1>1, <1>4, <1>8 DEF apply_routing
  <2> QED BY <1>1, <1>2, <1>4, <1>7, <2>1, <2>2, <2>3 DEF NodeTypes
<1> DEFINE lost == {e.to : e \in {f \in Edges : /\ f.from = n /\ n \in Routers
                                               /\ f.branch \notin {NoRoute, route'[n]}}}
<1>10. skipped' = skipped \cup lost
  <2>1. CASE n \in Routers
    <3>1. PICK r \in Routes : apply_routing(n, r) BY <1>1, <2>1
    <3>2. route'[n] = r BY <3>1, <1>2, <1>4 DEF apply_routing
    <3> QED BY <2>1, <3>1, <3>2 DEF apply_routing
  <2>2. CASE n \notin Routers
    <3>1. lost = {} BY <2>2
    <3> QED BY <3>1, <1>1, <2>2
  <2> QED BY <2>1, <2>2
<1>11. \A s \in Nodes : Cut(s)' <=> Cut(s) \/ s \in lost
  <2> SUFFICES ASSUME NEW s \in Nodes PROVE Cut(s)' <=> Cut(s) \/ s \in lost OBVIOUS
  <2>1. status'[s] = "skipped" <=> status[s] = "skipped" BY <1>1, <1>2, <1>4, <1>5
  <2>2. status'[n] = "succeeded" /\ status[n] # "succeeded" BY <1>1, <1>2, <1>4
  <2> DEFINE loses(e) == /\ e.to = s /\ e.from \in Routers /\ status[e.from] = "succeeded"
                         /\ e.branch \notin {NoRoute, route[e.from]}
             losesNow(e) == /\ e.to = s /\ e.from \in Routers /\ status'[e.from] = "succeeded"
                            /\ e.branch \notin {NoRoute, route'[e.from]}
  <2>3. ASSUME NEW e \in Edges
        PROVE  losesNow(e) <=> \/ loses(e)
                               \/ /\ e.to = s /\ e.from = n /\ n \in Routers
                                  /\ e.branch \notin {NoRoute, route'[n]}
    <3>1. CASE e.from = n BY <3>1, <2>2
    <3>2. CASE e.from # n
      <4>1. e.from \in Routers => e.from \in Nodes \ {n} BY <3>2, FlowAssumption
      <4> QED BY <3>2, <4>1, <1>5
    <3> QED BY <3>1, <3>2
  <2>4. s \in lost <=> \E e \in Edges : /\ e.to = s /\ e.from = n /\ n \in Routers
                                        /\ e.branch \notin {NoRoute, route'[n]}
    OBVIOUS
  <2>5. Cut(s) <=> status[s] = "skipped" \/ \E e \in Edges : loses(e) BY DEF Cut, NotTaken
  <2>6. Cut(s)' <=> status'[s] = "skipped" \/ \E e \in Edges : losesNow(e) BY <1>2 DEF Cut, NotTaken
  <2> HIDE DEF lost, loses, losesNow
  <2> QED BY <2>1, <2>3, <2>4, <2>5, <2>6
<1>12. skipped = {s \in Nodes : Cut(s)} BY DEF FlowInv, SkipInv
<1>13. skipped' = {s \in Nodes : Cut(s)'}
  <2>1. lost \subseteq Nodes BY <1>8
  <2> HIDE DEF lost
  <2> QED BY <1>10, <1>11, <1>12, <2>1
<1>14. Sources(n) \subseteq NodeSet \cup {Root} /\ status'[n] \notin {"new", "raised"} =>
           (status'[n] = "skipped" <=> n \in graph.disabled \/ Starved(n))
  <2>1. Sources(n) \subseteq NodeSet \cup {Root} => ~(n \in graph.disabled \/ Starved(n))
    BY <1>1 DEF FlowInv, SkipInv
  <2>2. status'[n] # "skipped" BY <1>1, <1>2, <1>4
  <2> QED BY <2>1, <2>2
<1>15. SkipInv' BY <1>1, <1>l, <1>5, <1>13, <1>14, SkipsKept
<1> QED BY <1>2, <1>3, <1>6, <1>7, <1>9, <1>15 DEF FlowInv

\* A block raises: another attempt, or the node has failed.
LEMMA FlowRaises == ASSUME NEW n \in NodeSet PROVE FlowInv /\ node_raises(n) => FlowInv'
<1> SUFFICES ASSUME FlowInv, node_raises(n) PROVE FlowInv' OBVIOUS
<1>1. /\ pc = "level" /\ UNCHANGED <<graph, run, skipped, route, verdict, faults>>
      /\ status[n] = "running"
      /\ \/ /\ attempts[n] < MaxAttempts[n]
            /\ attempts' = [attempts EXCEPT ![n] = @ + 1]
            /\ UNCHANGED <<status, timeline>>
         \/ /\ status' = [status EXCEPT ![n] = "failed"]
            /\ timeline' = Append(timeline, n)
            /\ UNCHANGED attempts
  BY DEF node_raises
<1>l. levels[n] = level BY <1>1, RunningLevel
<1>2. /\ RunTypes' /\ LevelTypes' /\ LevelInv' /\ graph \in Graphs /\ n \in Nodes
      /\ NodeSet' = NodeSet /\ Edges' = Edges /\ NodeSet \subseteq Nodes
  BY <1>1, LevelFrame
<1>3. OrderInv' BY OrderStep DEF FlowInv, Next
<1>4. /\ status \in [Nodes -> Status] /\ route \in [Nodes -> Routes \cup {NoRoute}]
      /\ attempts \in [Nodes -> Nat] /\ \A m \in Nodes : attempts[m] <= MaxAttempts[m]
      /\ skipped \subseteq Nodes
  BY DEF FlowInv, NodeTypes
<1>5. \A m \in Nodes \ {n} : status'[m] = status[m] /\ route'[m] = route[m]
  BY <1>1, <1>4
<1>6. PhaseInv' /\ StepInv' BY <1>1, <1>l, <1>5, StepKept
<1>n. status'[n] \in {"running", "failed"} BY <1>1, <1>2, <1>4
<1>7. ReportInv' /\ timeline' \in Seq(NodeSet)
  <2>1. \/ status'[n] \in {"new", "running", "raised"} /\ timeline' = timeline
        \/ status'[n] \in {"succeeded", "failed", "skipped"} /\ timeline' = Append(timeline, n)
    BY <1>1, <1>2, <1>4
  <2> QED BY <1>1, <1>5, <2>1, ReportKept
<1>8. NodeTypes'
  <2>1. status' \in [Nodes -> Status] BY <1>1, <1>4 DEF Status
  <2>2. attempts' \in [Nodes -> Nat] /\ \A m \in Nodes : attempts'[m] <= MaxAttempts[m]
    <3>0. MaxAttempts \in [Nodes -> 1..10] BY FlowAssumption
    <3>1. MaxAttempts[n] \in Nat /\ attempts[n] \in Nat BY <3>0, <1>2, <1>4
    <3> QED BY <1>1, <1>2, <1>4, <3>1
  <2> QED BY <1>1, <1>2, <1>4, <1>7, <2>1, <2>2 DEF NodeTypes
<1>9. \A s \in Nodes : Cut(s)' <=> Cut(s)
  <2>1. UNCHANGED route BY <1>1
  <2>2. \A m \in Nodes : /\ status'[m] = "succeeded" <=> status[m] = "succeeded"
                         /\ status'[m] = "skipped" <=> status[m] = "skipped"
    BY <1>1, <1>5, <1>n
  <2>3. \A e \in Edges : e.from \in Routers => e.from \in Nodes BY FlowAssumption
  <2> QED BY <1>2, <2>1, <2>2, <2>3 DEF Cut, NotTaken
<1>10. skipped' = {s \in Nodes : Cut(s)'} BY <1>1, <1>9 DEF FlowInv, SkipInv
<1>11. Sources(n) \subseteq NodeSet \cup {Root} /\ status'[n] \notin {"new", "raised"} =>
           (status'[n] = "skipped" <=> n \in graph.disabled \/ Starved(n))
  <2>1. Sources(n) \subseteq NodeSet \cup {Root} => ~(n \in graph.disabled \/ Starved(n))
    BY <1>1 DEF FlowInv, SkipInv
  <2> QED BY <2>1, <1>n
<1>12. SkipInv' BY <1>1, <1>l, <1>5, <1>10, <1>11, SkipsKept
<1> QED BY <1>2, <1>3, <1>6, <1>7, <1>8, <1>12 DEF FlowInv

-----------------------------------------------------------------------------
(* The steps of the plan.                                                    *)

\* A level ends: the plan fails, or its nodes are done and the next one begins.
LEMMA FlowLevelEnds == FlowInv /\ level_ends => FlowInv'
<1> SUFFICES ASSUME FlowInv, level_ends PROVE FlowInv' OBVIOUS
<1>1. /\ pc = "level" /\ UNCHANGED <<graph, row, queue, indegree, order, levels, nodes, verdict, faults>>
      /\ \A n \in NodeSet : levels[n] = level => status[n] \notin {"new", "running"}
      /\ \/ pc' = "fail" /\ level' = level
         \/ /\ \A n \in NodeSet : levels[n] = level => status[n] \notin {"failed", "raised"}
            /\ level' = level + 1
            /\ pc' = IF IsLast THEN "aggregate" ELSE "level"
  BY DEF level_ends, LevelNodes, Raised
<1>2. OrderInv' BY OrderStep DEF FlowInv, Next
<1>3. graph \in Graphs BY DEF FlowInv, OrderInv
<1>4. /\ NodeSet \subseteq Nodes /\ Len(graph.nodes) \in Nat /\ NodeSet' = NodeSet
      /\ \A n : Pred(n)' = Pred(n)
  BY <1>1, <1>3, GraphFacts, SameGraph
<1>5. /\ Prepared /\ row # "succeeded" /\ level <= Len(graph.nodes)
      /\ \A n \in Nodes : status[n] # "new" => n \in NodeSet /\ levels[n] <= level
      /\ \A n \in Nodes : 0 < levels[n] /\ levels[n] < level => status[n] \in Done
  BY <1>1 DEF FlowInv, PhaseInv, StepInv
<1>6. /\ levels \in [Nodes -> 0..Len(graph.nodes)] /\ level \in 1..(Len(graph.nodes) + 1)
      /\ \A n \in Nodes : levels[n] > 0 => n \in NodeSet
      /\ status \in [Nodes -> Status]
  BY DEF FlowInv, LevelTypes, LevelInv, NodeTypes
<1>7. /\ level \in Nat /\ \A n \in Nodes : levels[n] \in Nat /\ levels[n] <= Len(graph.nodes)
      /\ \A n \in NodeSet : levels[n] > 0
  BY <1>4, <1>5, <1>6 DEF Prepared
<1>8. RunTypes' BY <1>1 DEF FlowInv, RunTypes
<1>9. LevelTypes'
  <2>1. level' \in 1..(Len(graph.nodes) + 1) BY <1>1, <1>4, <1>5, <1>6
  <2> QED BY <1>1, <1>6, <2>1 DEF LevelTypes
<1>10. LevelInv' BY <1>1, <1>4 DEF FlowInv, LevelInv
<1>t. UNCHANGED <<status, attempts, skipped, route, timeline>> BY <1>1 DEF nodes
<1>p. pc' \in {"fail", "aggregate", "level"} BY <1>1
<1>11. PhaseInv' BY <1>1, <1>4, <1>5, <1>p DEF PhaseInv, Prepared
<1>12. StepInv'
  <2>1. CASE pc' = "fail" /\ level' = level
    BY <1>1, <1>4, <1>5, <1>t, <2>1 DEF StepInv
  <2>2. CASE /\ \A n \in NodeSet : levels[n] = level => status[n] \notin {"failed", "raised"}
             /\ level' = level + 1
             /\ pc' = IF IsLast THEN "aggregate" ELSE "level"
    <3>1. \A n \in Nodes : status[n] # "new" => n \in NodeSet /\ levels[n] <= level + 1
      BY <1>5, <1>7
    <3>2. ASSUME NEW n \in Nodes, 0 < levels[n], levels[n] < level + 1
          PROVE  status[n] \in Done
      <4>1. CASE levels[n] < level BY <3>2, <4>1, <1>5
      <4>2. CASE levels[n] = level
        <5>1. n \in NodeSet BY <3>2, <1>6
        <5> QED BY <5>1, <4>2, <2>2, <1>1, <1>6 DEF Status, Done
      <4> QED BY <3>2, <4>1, <4>2, <1>7
    <3>3. pc' = "level" => level + 1 <= Len(graph.nodes)
      <4> SUFFICES ASSUME pc' = "level" PROVE level + 1 <= Len(graph.nodes) OBVIOUS
      <4>1. ~IsLast BY <2>2
      <4>2. PICK n \in NodeSet : ~(levels[n] <= level) BY <4>1 DEF IsLast
      <4> QED BY <4>2, <1>4, <1>7
    <3>4. pc' = "aggregate" => \A n \in NodeSet : 0 < levels[n] /\ levels[n] < level + 1
      <4> SUFFICES ASSUME pc' = "aggregate", NEW n \in NodeSet
                   PROVE  0 < levels[n] /\ levels[n] < level + 1
        OBVIOUS
      <4>1. IsLast BY <2>2
      <4> QED BY <4>1, <1>4, <1>7 DEF IsLast
    <3>5. row' # "succeeded" /\ pc' \in {"aggregate", "level"} BY <1>1, <1>5, <2>2
    <3> QED BY <1>1, <1>4, <1>t, <2>2, <3>1, <3>2, <3>3, <3>4, <3>5 DEF StepInv
  <2> QED BY <1>1, <2>1, <2>2
<1>13. NodeTypes' /\ SkipInv' /\ IsInjective(timeline') /\ ToSet(timeline') = Reported'
  BY <1>1, SameNodes
<1>14. ReportInv' BY <1>1, <1>5, <1>p, <1>13 DEF ReportInv
<1> QED BY <1>2, <1>8, <1>9, <1>10, <1>11, <1>12, <1>13, <1>14 DEF FlowInv

\* The last step judges the assertions.
LEMMA FlowAggregate == FlowInv /\ aggregate => FlowInv'
<1> SUFFICES ASSUME FlowInv, aggregate PROVE FlowInv' OBVIOUS
<1>1. /\ pc = "aggregate" /\ pc' = "finish"
      /\ UNCHANGED <<graph, row, queue, indegree, order, levels, level, nodes, faults>>
      /\ verdict' = IF \A n \in graph.required : status[n] = "succeeded"
                    THEN "ok" ELSE "assertions_failed"
  BY DEF aggregate
<1>2. OrderInv' BY OrderStep DEF FlowInv, Next
<1>3. graph \in Graphs BY DEF FlowInv, OrderInv
<1>4. /\ graph.required \subseteq Nodes /\ NodeSet' = NodeSet /\ \A n : Pred(n)' = Pred(n)
  BY <1>1, <1>3, FlowAssumption, SameGraph
<1>5. UNCHANGED <<status, attempts, skipped, route, timeline>> BY <1>1 DEF nodes
<1>6. RunTypes' /\ LevelTypes' BY <1>1 DEF FlowInv, RunTypes, LevelTypes
<1>7. LevelInv' BY <1>1, <1>4 DEF FlowInv, LevelInv
<1>8. PhaseInv' BY <1>1, <1>4, <1>5 DEF FlowInv, PhaseInv, Prepared
<1>9. StepInv' BY <1>1, <1>4, <1>5 DEF FlowInv, StepInv
<1>10. NodeTypes' /\ SkipInv' /\ IsInjective(timeline') /\ ToSet(timeline') = Reported'
  BY <1>1, SameNodes
<1>11. verdict' = "ok" <=> graph.required \subseteq {n \in Nodes : status[n] = "succeeded"}
  BY <1>1, <1>4
<1>12. ReportInv' BY <1>1, <1>5, <1>10, <1>11 DEF ReportInv
<1> QED BY <1>2, <1>6, <1>7, <1>8, <1>9, <1>10, <1>12 DEF FlowInv

\* The row is written, or is not, and whoever wrote it goes on.
LEMMA FlowWrite == FlowInv /\ (finish \/ fail \/ run_saga_failed) => FlowInv'
<1> SUFFICES ASSUME FlowInv, finish \/ fail \/ run_saga_failed PROVE FlowInv' OBVIOUS
<1>1. /\ UNCHANGED <<graph, queue, indegree, order, levels, level, nodes, verdict>>
      /\ faults' = faults \/ (faults < MaxFaults /\ faults' = faults + 1)
      /\ \/ pc = "finish" /\ row' \in {row, "succeeded"} /\ pc' \in {"end", "fail"}
         \/ /\ pc \in {"fail", "run_saga"} /\ row' \in {row, "failed"}
            /\ pc' \in {"end", "run_saga"}
  BY DEF finish, fail, run_saga_failed, write
<1>2. OrderInv' BY OrderStep DEF FlowInv, Next
<1>3. graph \in Graphs BY DEF FlowInv, OrderInv
<1>4. /\ MaxFaults \in Nat /\ NodeSet' = NodeSet /\ \A n : Pred(n)' = Pred(n)
  BY <1>1, <1>3, FlowAssumption, SameGraph
<1>5. UNCHANGED <<status, attempts, skipped, route, timeline>> BY <1>1 DEF nodes
<1>6. RunTypes'
  <2>1. faults' \in 0..MaxFaults BY <1>1, <1>4 DEF FlowInv, RunTypes
  <2> QED BY <1>1, <2>1 DEF FlowInv, RunTypes
<1>7. LevelTypes' /\ LevelInv' BY <1>1, <1>4 DEF FlowInv, LevelTypes, LevelInv
<1>8. PhaseInv' BY <1>1, <1>4, <1>5 DEF FlowInv, PhaseInv, Prepared
<1>9. StepInv' BY <1>1, <1>4, <1>5 DEF FlowInv, StepInv
<1>10. NodeTypes' /\ SkipInv' /\ IsInjective(timeline') /\ ToSet(timeline') = Reported'
  BY <1>1, SameNodes
<1>11. ReportInv' BY <1>1, <1>5, <1>10 DEF FlowInv, ReportInv
<1> QED BY <1>2, <1>6, <1>7, <1>8, <1>9, <1>10, <1>11 DEF FlowInv

\* Nothing happens.
LEMMA FlowStutter == FlowInv /\ UNCHANGED vars => FlowInv'
<1> SUFFICES ASSUME FlowInv, UNCHANGED vars PROVE FlowInv' OBVIOUS
<1>1. UNCHANGED <<graph, row, pc, queue, indegree, order, levels, level, nodes, verdict, faults>>
  BY DEF vars, run
<1>2. UNCHANGED <<status, attempts, skipped, route, timeline>> BY <1>1 DEF nodes
<1>3. OrderInv' BY OrderStep DEF FlowInv
<1>4. NodeSet' = NodeSet /\ \A n : Pred(n)' = Pred(n) BY <1>1, SameGraph
<1>5. RunTypes' /\ LevelTypes' BY <1>1 DEF FlowInv, RunTypes, LevelTypes
<1>6. LevelInv' BY <1>1, <1>4 DEF FlowInv, LevelInv
<1>7. PhaseInv' BY <1>1, <1>2, <1>4 DEF FlowInv, PhaseInv, Prepared
<1>8. StepInv' BY <1>1, <1>2, <1>4 DEF FlowInv, StepInv
<1>9. NodeTypes' /\ SkipInv' /\ IsInjective(timeline') /\ ToSet(timeline') = Reported'
  BY <1>1, SameNodes
<1>10. ReportInv' BY <1>1, <1>2, <1>9 DEF FlowInv, ReportInv
<1> QED BY <1>3, <1>5, <1>6, <1>7, <1>8, <1>9, <1>10 DEF FlowInv

-----------------------------------------------------------------------------
(* The theorems.                                                             *)

\* The invariant of the flow: the order respects the edges, the levels respect the
\* order, nodes run level by level and only when all is sorted, the timeline and
\* skipped_nodes say what the nodes have done.
THEOREM FlowInvariant == Spec => []FlowInv
<1>1. FlowInv /\ [Next]_vars => FlowInv'
  BY FlowSort, FlowGroup, FlowStart, FlowOutput, FlowRaises, FlowLevelEnds, FlowAggregate,
     FlowWrite, FlowStutter DEF Next
<1> QED BY <1>1, FlowInit, PTL DEF Spec

\* Every variable keeps its type, for any set of payloads: the queue and the order
\* of topological_order never share a node, levels stay within the number of nodes.
THEOREM TypeOKHolds == Spec => []TypeOK
<1>1. FlowInv => TypeOK BY DEF FlowInv, OrderInv, TypeOK
<1> QED BY <1>1, FlowInvariant, PTL

\* Of the nodes that have begun to run, all sources are done: they lie on lower
\* levels (_group_by_level), and a level begins when the last one is done.
THEOREM SourcesEndedHolds == Spec => []SourcesEnded
<1>1. FlowInv => SourcesEnded
  <2> SUFFICES ASSUME FlowInv, NEW n \in NodeSet, status[n] = "running", NEW s \in Pred(n)
               PROVE  status[s] \in Done
    BY DEF SourcesEnded
  <2>1. graph \in Graphs BY DEF FlowInv, OrderInv
  <2>2. /\ n \in Nodes /\ s \in Nodes /\ Len(graph.nodes) \in Nat
    BY <2>1, GraphFacts DEF Pred
  <2>3. levels[n] > 0 /\ levels[n] <= level BY <2>2 DEF FlowInv, PhaseInv, Prepared, StepInv
  <2>4. 0 < levels[s] /\ levels[s] < levels[n] BY <2>2, <2>3 DEF FlowInv, LevelInv
  <2>5. levels[s] \in Nat /\ levels[n] \in Nat /\ level \in Nat
    BY <2>2 DEF FlowInv, LevelTypes
  <2>6. levels[s] < level BY <2>3, <2>4, <2>5
  <2> QED BY <2>2, <2>4, <2>6 DEF FlowInv, StepInv
<1> QED BY <1>1, FlowInvariant, PTL

\* The nodes of a cycle have no place in the order: the first of them to get one
\* would have a source before it.
LEMMA CycleHasNoPlace ==
    ASSUME OrderInv, NEW S \in SUBSET NodeSet, \A n \in S : Pred(n) \cap S # {}
    PROVE  S \cap ToSet(order) = {}
<1> SUFFICES ASSUME S \cap ToSet(order) # {} PROVE FALSE OBVIOUS
<1>1. order \in Seq(NodeSet)
      /\ \A i \in DOMAIN order : Pred(order[i]) \subseteq {order[j] : j \in 1..(i - 1)}
  BY DEF OrderInv, OrderTypes, KahnInv
<1>2. /\ DOMAIN order = 1..Len(order) /\ Len(order) \in Nat
      /\ \A x \in ToSet(order) : \E i \in 1..Len(order) : order[i] = x
  BY <1>1, ToSetOfSeq
<1> DEFINE places == {i \in 1..Len(order) : order[i] \in S}
<1>3. places \in SUBSET Nat /\ places # {} BY <1>2
<1>4. PICK i \in places : \A j \in places : i <= j BY <1>3, LeastNumber
<1>5. PICK s \in Pred(order[i]) : s \in S BY <1>4
<1>6. PICK j \in 1..(i - 1) : s = order[j] BY <1>1, <1>2, <1>4, <1>5
<1>7. j \in places /\ j < i BY <1>2, <1>4, <1>5, <1>6
<1> QED BY <1>2, <1>4, <1>7

\* A graph with a cycle never runs: none of its nodes is ever started and the saga
\* does not succeed, whatever the cycle and wherever it hangs.
THEOREM CycleIsRefusedHolds == Spec => []CycleIsRefused
<1>1. FlowInv => CycleIsRefused
  <2> SUFFICES ASSUME FlowInv, Cyclic
               PROVE  (\A n \in NodeSet : status[n] = "new") /\ row # "succeeded"
    BY DEF CycleIsRefused
  <2>1. PICK S \in (SUBSET NodeSet) \ {{}} : \A n \in S : Pred(n) \cap S # {} BY DEF Cyclic
  <2>2. OrderInv BY DEF FlowInv
  <2>3. S \cap ToSet(order) = {} BY <2>1, <2>2, CycleHasNoPlace
  <2>4. ~Prepared BY <2>1, <2>3 DEF Prepared
  <2>5. NodeSet \subseteq Nodes BY <2>2, GraphFacts DEF OrderInv
  <2> QED BY <2>4, <2>5 DEF FlowInv, PhaseInv
<1> QED BY <1>1, FlowInvariant, PTL

\* A flow that succeeded has reported each of its nodes exactly once, all of them
\* succeeded or skipped, and its verdict is that of the required nodes.
THEOREM SucceededIsCompleteHolds == Spec => []SucceededIsComplete
<1>1. FlowInv => SucceededIsComplete
  <2> SUFFICES ASSUME FlowInv, row = "succeeded"
               PROVE  /\ \A n \in NodeSet : status[n] \in Done
                      /\ IsInjective(timeline) /\ ToSet(timeline) = NodeSet
                      /\ verdict = "ok" <=>
                             graph.required \subseteq {n \in Nodes : status[n] = "succeeded"}
    BY DEF SucceededIsComplete
  <2>1. NodeSet \subseteq Nodes BY GraphFacts DEF FlowInv, OrderInv
  <2>2. \A n \in NodeSet : status[n] \in Done BY <2>1 DEF FlowInv, StepInv
  <2>3. IsInjective(timeline) /\ ToSet(timeline) = Reported
        /\ (verdict = "ok" <=> graph.required \subseteq {n \in Nodes : status[n] = "succeeded"})
    BY DEF FlowInv, ReportInv
  <2>4. Reported = NodeSet
    <3>1. NodeSet \subseteq Reported BY <2>1, <2>2 DEF Reported, Done
    <3>2. \A n \in Reported : n \in NodeSet BY DEF FlowInv, StepInv, Reported
    <3> QED BY <3>1, <3>2
  <2> QED BY <2>2, <2>3, <2>4
<1> QED BY <1>1, FlowInvariant, PTL

\* When a flow has succeeded, each node all of whose sources were skipped was skipped
\* as well, and a node with a source on the path was not, unless it is disabled,
\* however the answers of a level were interleaved.
THEOREM SkipsPropagateHolds == Spec => []SkipsPropagate
<1>1. FlowInv => SkipsPropagate
  <2> SUFFICES ASSUME FlowInv, row = "succeeded", NEW n \in NodeSet,
                      Sources(n) \subseteq NodeSet \cup {Root}
               PROVE  /\ \/ status[n] = "skipped"
                         \/ Sources(n) = {}
                         \/ \E s \in Sources(n) : s = Root \/ status[s] # "skipped"
                      /\ status[n] = "skipped" => n \in graph.disabled \/ Starved(n)
    BY DEF SkipsPropagate
  <2>1. NodeSet \subseteq Nodes BY GraphFacts DEF FlowInv, OrderInv
  <2>2. status[n] \in Done BY <2>1 DEF FlowInv, StepInv
  <2>3. status[n] = "skipped" <=> n \in graph.disabled \/ Starved(n)
    BY <2>2 DEF FlowInv, SkipInv, Done
  <2>4. ASSUME Sources(n) # {}, \A s \in Sources(n) : s # Root /\ status[s] = "skipped"
        PROVE  status[n] = "skipped"
    BY <2>3, <2>4 DEF Starved, Cut, NotTaken
  <2> QED BY <2>3, <2>4
<1> QED BY <1>1, FlowInvariant, PTL

=============================================================================
