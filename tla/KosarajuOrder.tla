--------------------------- MODULE KosarajuOrder ---------------------------
(***************************************************************************)
(* The algorithm of MrvExecutor::sort_batch after the verdicts are taken:  *)
(* Kosaraju's two depth-first searches (find_scc), the graph of the        *)
(* components with in-degrees, and the emission of ready components. It    *)
(* computes Linearize of module SliceOrder, which the executor's model     *)
(* uses.                                                                   *)
(*                                                                         *)
(* The nodes are 1..NumNodes in the order of tie_break; a verdict gives at *)
(* most one edge per pair. The searches are recursive: `stack' holds the   *)
(* nodes of the calls in progress. Every loop over neighbours goes through *)
(* them in order and skips the visited ones, so what is left of it are the *)
(* neighbours that are not visited, the least of them first.               *)
(***************************************************************************)
EXTENDS SliceOrder, SequencesExt

CONSTANT NumNodes   \* a natural number

Nodes == 1 .. NumNodes

\* The pairs of nodes in the order of tie_break.
Less == {p \in Nodes \X Nodes : p[1] < p[2]}

VARIABLES graph,      \* the edges from a verdict
          pc,         \* "forward" and "reverse" search, "emit" or "done"
          stack,      \* the nodes of the calls of the search in progress
          visited,    \* visited
          finished,   \* finish_stack
          components, \* components; the order in a component is not kept
          degree,     \* component_indegree
          ready,      \* ready
          sorted      \* result

sortVars == <<graph, pc, stack, visited, finished, components, degree, ready, sorted>>

SortTypes ==
    /\ graph \in SUBSET (Nodes \X Nodes)
    /\ pc \in {"forward", "reverse", "emit", "done"}
    /\ stack \in Seq(Nodes)
    /\ visited \in SUBSET Nodes
    /\ finished \in Seq(Nodes)
    /\ components \in Seq(SUBSET Nodes)
    /\ degree \in [DOMAIN degree -> Nat]
    /\ ready \in SUBSET DOMAIN components
    /\ sorted \in Seq(Nodes)

-----------------------------------------------------------------------------

Successors(a) == {b \in Nodes : <<a, b>> \in graph}

Predecessors(a) == {b \in Nodes : <<b, a>> \in graph}

\* component_graph: an edge between two components, counted once.
ComponentEdges ==
    {e \in (DOMAIN components) \X (DOMAIN components) :
        /\ e[1] # e[2]
        /\ \E a \in components[e[1]], b \in components[e[2]] : <<a, b>> \in graph}

\* Mutant of CompareComponents: by the size.
CompareSizes(c1, c2) ==
    \/ Cardinality(c1) < Cardinality(c2)
    \/ Cardinality(c1) = Cardinality(c2) /\ Min(c1) < Min(c2)

\* compare_components: by the least node.
CompareComponents(c1, c2) == Min(c1) < Min(c2)

-----------------------------------------------------------------------------

\* compare_pair says ABetter, BBetter or Tie for every pair.
SortInit ==
    /\ \E verdict \in [Less -> {"ABetter", "BBetter", "Tie"}] :
         graph = {p \in Less : verdict[p] = "ABetter"}
                    \cup {<<p[2], p[1]>> : p \in {q \in Less : verdict[q] = "BBetter"}}
    /\ pc = "forward"
    /\ stack = <<>>
    /\ visited = {}
    /\ finished = <<>>
    /\ components = <<>>
    /\ degree = <<>>
    /\ ready = {}
    /\ sorted = <<>>

\* A search is called for node a, or returns.
Call(a) ==
    /\ stack' = Append(stack, a)
    /\ visited' = visited \cup {a}

Return == stack' = Front(stack)

\* What the loop of find_scc, or of the innermost dfs_forward, has to visit.
ForwardLoop == (IF stack = <<>> THEN Nodes ELSE Successors(Last(stack))) \ visited

\* dfs_forward is called.
CallForward ==
    /\ pc = "forward"
    /\ ForwardLoop # {}
    /\ Call(Min(ForwardLoop))
    /\ UNCHANGED <<graph, pc, finished, components, degree, ready, sorted>>

\* dfs_forward returns: the node is finished.
ReturnForward ==
    /\ pc = "forward"
    /\ stack # <<>>
    /\ ForwardLoop = {}
    /\ Return
    /\ finished' = Append(finished, Last(stack))
    /\ UNCHANGED <<graph, pc, visited, components, degree, ready, sorted>>

\* visited.clear().
BeginReverse ==
    /\ pc = "forward"
    /\ stack = <<>>
    /\ ForwardLoop = {}
    /\ pc' = "reverse"
    /\ visited' = {}
    /\ UNCHANGED <<graph, stack, finished, components, degree, ready, sorted>>

\* The loop of find_scc pops a finished node; dfs_reverse is called for it
\* with an empty component, unless it has been visited.
PopFinished ==
    /\ pc = "reverse"
    /\ stack = <<>>
    /\ finished # <<>>
    /\ finished' = Front(finished)
    /\ IF Last(finished) \in visited THEN UNCHANGED <<stack, visited, components>>
       ELSE /\ Call(Last(finished))
            /\ components' = Append(components, {Last(finished)})
    /\ UNCHANGED <<graph, pc, degree, ready, sorted>>

\* What the loop of the innermost dfs_reverse has to visit.
ReverseLoop == Predecessors(Last(stack)) \ visited

\* dfs_reverse is called for a neighbour: it joins the component.
CallReverse ==
    /\ pc = "reverse"
    /\ stack # <<>>
    /\ ReverseLoop # {}
    /\ Call(Min(ReverseLoop))
    /\ components' = [components EXCEPT ![Len(components)] = @ \cup {Min(ReverseLoop)}]
    /\ UNCHANGED <<graph, pc, finished, degree, ready, sorted>>

\* dfs_reverse returns.
ReturnReverse ==
    /\ pc = "reverse"
    /\ stack # <<>>
    /\ ReverseLoop = {}
    /\ Return
    /\ UNCHANGED <<graph, pc, visited, finished, components, degree, ready, sorted>>

\* find_scc returns; the in-degrees are counted.
BeginEmit ==
    /\ pc = "reverse"
    /\ stack = <<>>
    /\ finished = <<>>
    /\ pc' = "emit"
    /\ degree' = [j \in DOMAIN components |->
                    Cardinality({i \in DOMAIN components : <<i, j>> \in ComponentEdges})]
    /\ ready' = {j \in DOMAIN components : degree'[j] = 0}
    /\ UNCHANGED <<graph, stack, visited, finished, components, sorted>>

\* One iteration of the emission loop: the first ready component is removed,
\* its members are appended in order, and the components whose in-degree
\* becomes 0 are ready.
EmitComponent ==
    /\ pc = "emit"
    /\ \E current \in ready :
          /\ \A j \in ready \ {current} :
                CompareComponents(components[current], components[j])
          /\ LET next == {j \in DOMAIN components : <<current, j>> \in ComponentEdges}
             IN /\ degree' = [j \in DOMAIN components |->
                                IF j \in next THEN degree[j] - 1 ELSE degree[j]]
                /\ ready' = (ready \ {current}) \cup {j \in next : degree'[j] = 0}
          /\ sorted' = sorted \o SortedBy(components[current], Less)
    /\ UNCHANGED <<graph, pc, stack, visited, finished, components>>

\* ready is empty: the result is returned.
Done ==
    /\ pc = "emit"
    /\ ready = {}
    /\ pc' = "done"
    /\ UNCHANGED <<graph, stack, visited, finished, components, degree, ready, sorted>>

SortNext ==
    \/ CallForward
    \/ ReturnForward
    \/ BeginReverse
    \/ PopFinished
    \/ CallReverse
    \/ ReturnReverse
    \/ BeginEmit
    \/ EmitComponent
    \/ Done

SortSpec == SortInit /\ [][SortNext]_sortVars

-----------------------------------------------------------------------------

\* The algorithm computes the linearization that the executor's model uses,
\* for every graph of verdicts.
SortsAsSpecified == pc = "done" => sorted = Linearize(Nodes, graph, Less)

\* Every node comes out once, and evidence is only ever disregarded inside a
\* cycle of verdicts.
EvidenceRespected ==
    pc = "done" =>
        /\ Len(sorted) = NumNodes
        /\ Elements(sorted) = Nodes
        /\ \A i, j \in Nodes :
              (<<sorted[i], sorted[j]>> \in graph /\ j < i) =>
                  <<sorted[j], sorted[i]>> \in Paths(Nodes, graph)
=============================================================================
