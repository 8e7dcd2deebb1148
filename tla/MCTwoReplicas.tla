--------------------------- MODULE MCTwoReplicas ---------------------------
(***************************************************************************)
(* Two replicas on small DAGs. The replicas share nothing but the DAG, and *)
(* outputs only grow, so every pair of outputs that can be reached is a    *)
(* pair of prefixes of one that is reached when B starts after A has come  *)
(* to its end.                                                             *)
(***************************************************************************)
EXTENDS TwoReplicas, SmallDags

MCDags ==
    Variations(UpToSeven, <<>>, {<<0, 3>>, <<1, 3>>, <<2, 3>>, <<0, 4>>, <<1, 4>>})
        \cup Variations(UpToSeven, LateBranch, {<<1, 3>>, <<0, 5>>})

LateDags == {DagOf(UpToSeven, LateBranch)}

\* A delivers everything before B starts.
OneAfterTheOther ==
    (varsB' # varsB) => deliveredA = DOMAIN parents /\ toCommitA = {}
=============================================================================
