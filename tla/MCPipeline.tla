----------------------------- MODULE MCPipeline -----------------------------
(***************************************************************************)
(* The pipeline with four authorities of equal stake and rounds up to 9,   *)
(* which is when the leader of round 6 is decided. The leader of round 2   *)
(* does not link to its author's certificate of round 1, which others do,  *)
(* so the consensus may drop it; the certificates of authority 3 arrive at *)
(* any time after round 1. Where <<0, 3>> and <<1, 3>> do not link to the  *)
(* leader of round 2, its slice and the next one become ready together.    *)
(* In the DAG ThinDag it has one child, and that one has one child, so it  *)
(* is passed over and mature late.                                         *)
(***************************************************************************)
EXTENDS Pipeline, TLC

EqualStakes == [a \in 0 .. (N - 1) |-> 1]

DagOf(present, refs) ==
    [v \in Genesis \cup present |->
        IF round(v) = 0 THEN {}
        ELSE (IF v \in DOMAIN refs THEN refs[v] ELSE {0, 1, 2}) \X {round(v) - 1}]

Present == ((0 .. 3) \X (1 .. 3)) \cup ((0 .. 2) \X (4 .. 8)) \cup {<<0, 9>>}

ThinDag ==
    DagOf(Present \cup {<<3, 4>>},
          [v \in {0, 1, 3} \X {3} |-> {0, 1, 3}] @@ [v \in {0, 2, 3} \X {4} |-> {0, 1, 3}]
              @@ (<<0, 5>> :> {0, 2, 3}))

MCDags ==
    {ThinDag} \cup
    {DagOf(Present, (<<2, 2>> :> {0, 1, 3}) @@ (<<0, 3>> :> c) @@ (<<1, 3>> :> c)
                        @@ (<<0, 4>> :> d)) :
        c \in {{0, 1, 3}, {1, 2, 3}}, d \in {{0, 1, 2}, {0, 1, 3}}}
=============================================================================
