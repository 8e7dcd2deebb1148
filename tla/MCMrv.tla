------------------------------- MODULE MCMrv -------------------------------
(***************************************************************************)
(* The MRV executor with four authorities of equal stake (f = 1, three     *)
(* authors make an AUF mature, two authors more are evidence), on DAGs of  *)
(* six or eight rounds in which some certificates choose their parents.    *)
(***************************************************************************)
EXTENDS MrvExecutor, KosarajuOrder

EqualStakes == [a \in 0 .. (N - 1) |-> 1]

Quorums == {q \in SUBSET (0 .. 3) : Cardinality(q) >= 3}

\* The DAG with the given certificates in which v has the authors refs[v]
\* as parents; if refs does not say, round 3 leaves authority 0 out and the
\* others authority 3.
DagOf(present, refs) ==
    [v \in Genesis \cup present |->
        IF round(v) = 0 THEN {}
        ELSE (IF v \in DOMAIN refs THEN refs[v]
              ELSE IF round(v) = 3 THEN {1, 2, 3} ELSE {0, 1, 2}) \X {round(v) - 1}]

UpTo(r) == Authority \X (1 .. r)

\* The leader of round 2 has one child, which only the leader of round 4
\* links to; that one is seen by two authorities of round 5. So the leader
\* of round 2 is not mature when the window of four rounds has passed.
ThinRefs ==
    [v \in Authority \X {3} |-> IF origin(v) = 1 THEN {0, 1, 2} ELSE {0, 1, 3}]
        @@ [v \in (1 .. 3) \X {4} |-> {0, 2, 3}]
        @@ (<<0, 5>> :> {1, 2, 3}) @@ (<<3, 5>> :> {1, 2, 3})

\* Authority 0 is slow: nobody links to its certificates of rounds 3 to 5
\* before round 6, so that the leader of round 4 is skipped and they are in
\* the slice of the leader of round 8. Its certificate of round 3 sees
\* <<3, 2>> and not <<1, 2>>.
SlowRefs ==
    [v \in (1 .. 3) \X (4 .. 6) |-> {1, 2, 3}]
        @@ (<<0, 3>> :> {0, 2, 3}) @@ (<<1, 3>> :> {0, 2, 3})

SlowDags == {DagOf(UpTo(8), c @@ SlowRefs) : c \in [{<<0, 3>>, <<1, 3>>} -> Quorums]}

\* The leader of round 2 does not link to the certificate of its author in
\* round 1, which others do: the consensus may drop that one.
DropRefs == (<<2, 2>> :> {0, 1, 3})

MCDags ==
    {DagOf(UpTo(6), c @@ DropRefs) : c \in [{<<3, 2>>, <<0, 3>>, <<0, 4>>} -> Quorums]}
        \cup {DagOf(UpTo(8), c @@ DropRefs) : c \in [{<<0, 3>>, <<0, 4>>} -> Quorums]}
        \cup {DagOf(UpTo(8), c @@ ThinRefs) : c \in [{<<2, 5>>} -> Quorums]}
        \cup SlowDags
        \cup {DagOf({}, <<>>)}

-----------------------------------------------------------------------------
(***************************************************************************)
(* Beside the executor, the algorithm of sort_batch on every graph of      *)
(* verdicts over NumNodes nodes: one of the two runs from an initial       *)
(* state. The executor's DAGs hardly give verdicts that form cycles.       *)
(***************************************************************************)

MCInit ==
    /\ Init
    /\ \/ /\ pc = "executor" /\ graph = {} /\ visited = {} /\ ready = {}
          /\ stack = <<>> /\ finished = <<>> /\ components = <<>>
          /\ degree = <<>> /\ sorted = <<>>
       \/ parents = DagOf({}, <<>>) /\ SortInit

ExecutorStep ==
    /\ pc = "executor"
    /\ Next
    /\ UNCHANGED sortVars

SortStep ==
    /\ SortNext
    /\ UNCHANGED vars

MCNext == ExecutorStep \/ SortStep

MCSpec == MCInit /\ [][MCNext]_<<vars, sortVars>>
=============================================================================
