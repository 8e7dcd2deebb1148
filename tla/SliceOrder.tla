----------------------------- MODULE SliceOrder -----------------------------
(***************************************************************************)
(* The linearization of MrvExecutor::sort_batch, stated on a set of nodes, *)
(* a relation of precedence edges and a strict total order, the set        *)
(* `before' of the pairs of nodes whose first one comes first: the         *)
(* strongly connected components come out in topological order, the ready  *)
(* one with the least node first, and the nodes of one component in the    *)
(* order `before'. That the code's algorithm (module KosarajuOrder)        *)
(* computes this is proved in module MrvProofs.                            *)
(***************************************************************************)
EXTENDS Integers, FiniteSets, Sequences

Elements(s) == {s[i] : i \in DOMAIN s}

\* The nodes in the order `before'.
SortedBy(nodes, before) ==
    [i \in 1 .. Cardinality(nodes) |->
        CHOOSE a \in nodes : Cardinality({b \in nodes : <<b, a>> \in before}) = i - 1]

\* The nodes on the paths that start in a, which is one of them.
Reachable(nodes, edges, a) ==
    LET closure[S \in SUBSET nodes] ==
            LET next == {b \in nodes \ S : \E c \in S : <<c, b>> \in edges}
            IN IF next = {} THEN S ELSE closure[S \cup next]
    IN closure[{a}]

\* The pairs of nodes joined by a path.
Paths(nodes, edges) ==
    UNION {{<<a, b>> : b \in Reachable(nodes, edges, a)} : a \in nodes}

\* The component to emit first when `rest' is left: the one of the least
\* node that has no node of another remaining component before it.
FirstComponent(rest, paths, before) ==
    LET ready == {a \in rest : \A b \in rest : <<b, a>> \in paths => <<a, b>> \in paths}
        least == CHOOSE a \in ready : \A b \in ready \ {a} : <<a, b>> \in before
    IN {b \in rest : <<least, b>> \in paths /\ <<b, least>> \in paths}

\* The components one after the other, each in the order `before'. (A function
\* of the paths, which are then computed only once.)
Linearize(nodes, edges, before) ==
    LET linear == [paths \in SUBSET (nodes \X nodes) |->
            LET order[rest \in SUBSET nodes] ==
                    IF rest = {} THEN <<>>
                    ELSE LET component == FirstComponent(rest, paths, before)
                         IN SortedBy(component, before) \o order[rest \ component]
            IN order[nodes]]
    IN linear[Paths(nodes, edges)]
=============================================================================
