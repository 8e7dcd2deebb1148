-------------------------------- MODULE Dag --------------------------------
(***************************************************************************)
(* The DAG of certificates. A certificate is named by its author and its   *)
(* round: the digest of primary/src/messages.rs is abstracted by that      *)
(* pair, because an honest primary votes for one header per author and     *)
(* round while it keeps the round (OneVotePerRound of module Primary), and *)
(* so two certificates with the same pair would need two quorums with only *)
(* faulty authorities in common.                                           *)
(*                                                                         *)
(* A DAG p maps every certificate that exists to the set of its parents.   *)
(***************************************************************************)
EXTENDS Committee

CONSTANT MaxRound   \* bound on the rounds of the DAG

ASSUME MaxRoundAssumption == MaxRound \in Nat

Round == 0 .. MaxRound

Certificate == Authority \X Round

origin(v) == v[1]

round(v) == v[2]

\* Certificate::genesis: one certificate of round 0 for every authority.
Genesis == {v \in Certificate : round(v) = 0}

\* The certificates of a set that belong to one round.
AtRound(S, r) == {v \in S : round(v) = r}

\* The certificate of the leader of round r: the authority whose rank is
\* the coin, i.e. the round itself, modulo the size of the committee.
leader(r) == <<r % N, r>>

\* What Core::process_header checks of every header it votes for: all the
\* parents are of the previous round and their authors carry a quorum.
ValidParents(p, v) ==
    /\ p[v] # {}
    /\ p[v] \subseteq AtRound(DOMAIN p, round(v) - 1)
    /\ StakeOf({origin(u) : u \in p[v]}) >= quorum_threshold

WellFormed(p) ==
    /\ DOMAIN p \subseteq Certificate
    /\ Genesis \subseteq DOMAIN p
    /\ \A v \in DOMAIN p : IF round(v) = 0 THEN p[v] = {} ELSE ValidParents(p, v)

-----------------------------------------------------------------------------

\* The certificates of `within' that are exactly k rounds behind v along
\* parent links that stay in `within'; the layers of a walk back from v.
Layers(p, within, v) ==
    LET layer[k \in 0 .. round(v)] ==
            IF k = 0 THEN {v}
            ELSE LET above == layer[k - 1]
                 IN within \cap UNION {p[w] : w \in above}
    IN layer

\* v and every ancestor of v that the walk reaches; the walk looks for the
\* parents of a certificate in the round before it.
Ancestry(p, within, v) ==
    LET layer == Layers(p, within, v)
        reached == UNION {layer[k] : k \in 0 .. round(v)}
    IN {v} \cup {u \in within \cap reached : round(u) < round(v)}
=============================================================================
