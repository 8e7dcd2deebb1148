----------------------------- MODULE SmallDags -----------------------------
(***************************************************************************)
(* Families of small DAGs for the model-checking runs: three authorities   *)
(* with stakes 2, 1 and 1. A quorum is authority 0 with at least one other *)
(* one; authority 0 alone, or both others, are f+1 support for a leader.   *)
(* The leaders of rounds 2, 4 and 6 are authorities 2, 1 and 0.            *)
(***************************************************************************)
EXTENDS Dag, TLC

ThreeStakes == [a \in 0 .. 2 |-> IF a = 0 THEN 2 ELSE 1]

Quorums == {{0, 1}, {0, 2}, {0, 1, 2}}

\* The DAG with the given certificates in which v has the authors refs[v]
\* as parents, or authorities 0 and 1 if refs does not say.
DagOf(present, refs) ==
    [v \in Genesis \cup present |->
        IF round(v) = 0 THEN {}
        ELSE (IF v \in DOMAIN refs THEN refs[v] ELSE {0, 1}) \X {round(v) - 1}]

\* Rounds 1 to 5 of every authority, and what decides the leader of round 4.
UpToSeven == (Authority \X (1 .. 5)) \cup {<<0, 6>>, <<1, 6>>, <<0, 7>>}

\* A DAG in which a whole branch (certificate 1 of authority 2, its child
\* and grandchild) stays outside the history of the leader of round 2 and
\* of the first certificate that decides it, and is picked up by the leader
\* of round 4.
LateBranch ==
    (<<1, 2>> :> {0, 2}) @@ (<<0, 3>> :> {0, 2}) @@ (<<1, 3>> :> {0, 2})
        @@ (<<1, 4>> :> {0, 2}) @@ (<<0, 5>> :> {0, 2}) @@ (<<1, 6>> :> {0, 2})

\* Every choice of parents for the certificates `varied', the others as in
\* `base'.
Variations(present, base, varied) ==
    {DagOf(present, c @@ base) : c \in [varied -> Quorums]}
=============================================================================
