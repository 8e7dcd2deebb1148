------------------------------- MODULE MCTusk -------------------------------
(***************************************************************************)
(* Tusk on small DAGs: rounds up to 7, which is when the leader of round 4 *)
(* is decided, or up to 9, so that with a garbage collection depth of 1    *)
(* the slice of the leader of round 6 reaches below what is kept.          *)
(***************************************************************************)
EXTENDS Tusk, SmallDags

\* The leader of round 2, its children and the leader of round 4 choose.
ChoosingDags ==
    Variations(UpToSeven, <<>>, {<<2, 2>>, <<0, 3>>, <<1, 3>>, <<0, 4>>})
        \cup Variations(UpToSeven, LateBranch, {<<1, 2>>, <<2, 3>>, <<1, 4>>})

\* The leader of round 2 does not exist.
LeaderlessDags ==
    {p \in Variations(UpToSeven \ {<<2, 2>>}, <<>>, {<<0, 3>>, <<1, 4>>, <<0, 5>>}) :
        WellFormed(p)}

\* The leader of round 4 lacks the support of a quorum, and the support of
\* the one of round 2 may come late, from authority 2.
SlowDags ==
    Variations(UpToSeven, (<<0, 3>> :> {0, 2}) @@ (<<0, 5>> :> {0, 2}),
               {<<1, 3>>, <<2, 3>>})

MCDags == ChoosingDags \cup LeaderlessDags \cup SlowDags

\* Certificates of authority 2 that only the leader of round 6 links to.
DeepBranch ==
    (<<2, 3>> :> {0, 2}) @@ (<<2, 4>> :> {0, 2}) @@ (<<1, 5>> :> {0, 2})

UpToNine ==
    (Authority \X (1 .. 5)) \cup ((0 .. 1) \X (6 .. 8)) \cup {<<0, 9>>}

GcDags == Variations(UpToNine, DeepBranch, {<<2, 4>>, <<1, 5>>, <<0, 3>>})

AllDags == MCDags \cup GcDags
=============================================================================
