----------------------------- MODULE MCVerdicts -----------------------------
(***************************************************************************)
(* The pipeline with seven authorities of equal stake (f = 2) on one DAG,  *)
(* whose certificates reach the consensus round by round. The certificate  *)
(* of authority 4 in round 3 is not in the history of that of round 4,     *)
(* which is a leader: when that one is committed, State::update drops the  *)
(* older one. It is the only way from four certificates of round 5 to the  *)
(* certificate of authority 5 in round 2.                                  *)
(***************************************************************************)
EXTENDS Pipeline, TLC

EqualStakes == [a \in 0 .. (N - 1) |-> 1]

Dropped == <<4, 3>>

First == <<5, 2>>    \* it leads in the DAG

Second == <<0, 4>>   \* it leads in what is left of it

Usual(r) == IF r = 1 THEN Authority
            ELSE IF r >= 8 THEN {0, 1, 2, 3, 6}
            ELSE IF r = 7 THEN {0, 1, 2, 3, 6}
            ELSE {0, 1, 2, 3, 4}

Refs ==
    (Dropped :> {0, 1, 2, 3, 5}) @@ (<<5, 3>> :> {0, 1, 2, 3, 5})
        @@ (<<4, 4>> :> {0, 1, 2, 3, 6}) @@ (<<5, 4>> :> {0, 1, 2, 3, 5})
        @@ [v \in {0, 1, 2} \X {5} |-> {0, 1, 2, 3, 6}]
        @@ (<<3, 5>> :> {0, 1, 2, 4, 6}) @@ (<<5, 5>> :> {1, 2, 3, 5, 6})
        @@ [v \in {4, 6} \X {5} |-> {1, 2, 3, 4, 6}]
        @@ (<<6, 6>> :> Authority)

Present == (Authority \X (1 .. 7)) \cup ({0, 1, 2, 3, 6} \X (8 .. 10)) \cup {<<1, 11>>}

TheDag ==
    [v \in Genesis \cup Present |->
        IF round(v) = 0 THEN {}
        ELSE (IF v \in DOMAIN Refs THEN Refs[v] ELSE Usual(round(v))) \X {round(v) - 1}]

MCDags == {TheDag}

\* The certificates arrive by round and author.
InOrder ==
    \A v \in delivered' \ delivered : \A u \in DOMAIN parents \ delivered' :
        \/ round(v) < round(u)
        \/ round(v) = round(u) /\ origin(v) < origin(u)

\* What the documentation says of a verdict: it is drawn from visibility
\* through the ancestry of the DAG. When the executor puts a before b in a
\* batch, then in none of the rounds it compares is b ahead by f+1 of the
\* committed certificates that have it in their history.
VerdictsFollowAncestry ==
    phase = "finalize" /\ DOMAIN batches # {} /\ Executor!Ready(batches[Executor!NextBatch]) =>
        LET members == batches[Executor!NextBatch]
            Window(a, b) == (Max({round(a), round(b)}) + 1) ..
                                Max({auf[a].horizon, auf[b].horizon})
            Seers(u, r) == {w \in AtRound(store, r) :
                                u \in Ancestry(parents, DOMAIN parents, w)}
        IN \A a, b \in members : Executor!Better(a, b) =>
              \A r \in Window(a, b) :
                  Cardinality(Seers(b, r)) - Cardinality(Seers(a, r))
                      < Executor!delta_threshold
=============================================================================
