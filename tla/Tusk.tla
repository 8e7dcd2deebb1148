-------------------------------- MODULE Tusk --------------------------------
(***************************************************************************)
(* The consensus task of consensus/src/lib.rs (Tusk): it receives the      *)
(* certificates of the DAG from the primary, keeps the part of the DAG it  *)
(* may still have to order, elects a leader every second round, and        *)
(* commits a leader that has enough support together with all the earlier  *)
(* leaders it is linked to; each committed leader yields one slice         *)
(* (CommittedSubDag) of the DAG.                                           *)
(*                                                                         *)
(* The loop body awaits between slices (tx_primary, tx_output), so the     *)
(* slices of one certificate are separate steps; the task takes no         *)
(* certificate in between.                                                 *)
(***************************************************************************)
EXTENDS Dag, Sequences

CONSTANTS GcDepth,   \* gc_depth
          Dags       \* the DAGs the authorities may build

ASSUME GcDepthAssumption == GcDepth \in Nat

ASSUME DagsAssumption == \A p \in Dags : WellFormed(p)

VARIABLES parents,            \* the DAG of this execution
          delivered,          \* certificates the primary has sent
          dag,                \* State::dag
          lastCommitted,      \* State::last_committed
          lastCommittedRound, \* State::last_committed_round
          toCommit,           \* leaders still to commit
          panicked,           \* an `expect' fired: the task is gone
          output              \* the slices sent to tx_output, in order

vars == <<parents, delivered, dag, lastCommitted, lastCommittedRound,
          toCommit, panicked, output>>

Slice == [leader : Certificate, certificates : SUBSET Certificate]

TypeOK ==
    /\ WellFormed(parents)
    /\ delivered \in SUBSET Certificate
    /\ dag \in SUBSET Certificate
    /\ lastCommitted \in [Authority -> Round]
    /\ lastCommittedRound \in Round
    /\ toCommit \in SUBSET dag
    /\ panicked \in BOOLEAN
    /\ output \in Seq(Slice)

-----------------------------------------------------------------------------

\* Whether a walk back from l through the certificates in d reaches prev.
linked(d, l, prev) == prev \in Layers(parents, d, l)[round(l) - round(prev)]

\* The rounds of the leaders before the one of round lr that are not
\* committed: every second round back to the last committed one.
EarlierRounds(lr) ==
    {r \in (lastCommittedRound + 2) .. (lr - 2) : (lr - r) % 2 = 0}

\* The earlier leaders kept, found going back from l: kept[r] are those of
\* round r and later. A leader that the last one kept is linked to is kept.
LinkedRounds(d, l) ==
    LET rounds == EarlierRounds(round(l))
        kept[r \in Nat] ==
            IF r \notin rounds THEN {}
            ELSE LET later == kept[r + 2]
                     latest == IF later = {} THEN l ELSE leader(Min(later))
                 IN IF leader(r) \in d /\ linked(d, latest, leader(r))
                    THEN {r} \cup later
                    ELSE later
    IN UNION {kept[r] : r \in rounds}

\* Mutants of order_leaders: an earlier leader need not be in the dag, and
\* only the leader itself is committed.
order_leaders_unseen(d, l) ==
    {l} \cup {leader(r) : r \in EarlierRounds(round(l))}

order_leaders_alone(d, l) == {l}

\* The leader l and the earlier leaders to commit with it.
order_leaders(d, l) ==
    {l} \cup {p \in d : \E r \in EarlierRounds(round(l)) \cap LinkedRounds(d, l) :
                           p = leader(r)}

\* Mutants of order_dag: nothing is skipped, and everything up to the last
\* committed round is.
order_dag_again(l) ==
    {v \in (dag \cup {l}) \cap Ancestry(parents, dag, l) :
        round(v) + GcDepth >= lastCommittedRound}

order_dag_above(l) ==
    LET open == {v \in dag : round(v) > lastCommittedRound}
    IN {v \in (open \cup {l}) \cap Ancestry(parents, open, l) :
            round(v) + GcDepth >= lastCommittedRound}

\* The walk visits a parent unless it is the last committed certificate of
\* its author, then drops what is below the garbage collection depth.
order_dag(l) ==
    LET open == {v \in dag : lastCommitted[origin(v)] # round(v)}
    IN {v \in (open \cup {l}) \cap Ancestry(parents, open, l) :
            round(v) + GcDepth >= lastCommittedRound}

\* State::update for every certificate of a slice. Both retain conditions
\* only get stronger along the loop, so the last one decides.
AfterUpdate(batch) ==
    [a \in Authority |->
        Max({lastCommitted[a]} \cup {round(v) : v \in {w \in batch : origin(w) = a}})]

Cleaned(d, committed, top) ==
    {v \in d : round(v) >= committed[origin(v)] /\ round(v) + GcDepth >= top}

\* The support of the leader among the certificates of the next round.
Support(d, l) ==
    StakeOf({origin(v) : v \in {w \in AtRound(d, round(l) + 1) : l \in parents[w]}})

\* Delivering v makes the task look at the leader of three rounds before.
LeaderRoundOf(v) == round(v) - 3

Elects(d, v) ==
    LET r == round(v) - 1
    IN /\ r % 2 = 0
       /\ r >= 4
       /\ LeaderRoundOf(v) > lastCommittedRound
       /\ leader(LeaderRoundOf(v)) \in d

\* Mutant of Commits: the leader needs the support of a quorum.
CommitsByQuorum(d, v) ==
    /\ Elects(d, v)
    /\ Support(d, leader(LeaderRoundOf(v))) >= quorum_threshold

Commits(d, v) ==
    /\ Elects(d, v)
    /\ Support(d, leader(LeaderRoundOf(v))) >= validity_threshold

\* The two "We should have the whole history by now": the round of the
\* children is gone, or one of the rounds that `linked' walks through.
HistoryMissing(d, v) ==
    LET lr == LeaderRoundOf(v)
    IN /\ Elects(d, v)
       /\ \/ AtRound(d, lr + 1) = {}
          \/ /\ Commits(d, v)
             /\ \E r \in EarlierRounds(lr) :
                  /\ leader(r) \in d
                  /\ \E q \in r .. (lr - 1) : AtRound(d, q) = {}

-----------------------------------------------------------------------------

Init ==
    /\ parents \in Dags
    /\ delivered = Genesis
    /\ dag = Genesis
    /\ lastCommitted = [a \in Authority |-> 0]
    /\ lastCommittedRound = 0
    /\ toCommit = {}
    /\ panicked = FALSE
    /\ output = <<>>

\* One iteration of the loop of Consensus::run up to the slices.
Process(v) ==
    LET d == dag \cup {v}
    IN /\ ~ panicked
       /\ toCommit = {}
       /\ delivered' = delivered \cup {v}
       /\ dag' = d
       /\ panicked' = HistoryMissing(d, v)
       /\ toCommit' = IF Commits(d, v) /\ ~ HistoryMissing(d, v)
                      THEN order_leaders(d, leader(LeaderRoundOf(v)))
                      ELSE {}
       /\ UNCHANGED <<parents, lastCommitted, lastCommittedRound, output>>

\* Mutant of Deliver: the certificates are sent in any order.
DeliverEarly(v) ==
    /\ v \notin delivered
    /\ Process(v)

\* The primary sends a certificate after its whole history.
Deliver(v) ==
    /\ v \notin delivered
    /\ parents[v] \subseteq delivered
    /\ Process(v)

\* The slice of the oldest pending leader. There is one leader per round,
\* so the order of the list is that of the rounds.
CommitLeader ==
    \E l \in toCommit :
        LET batch == order_dag(l)
            committed == AfterUpdate(batch)
            top == Max({committed[a] : a \in Authority})
        IN /\ \A o \in toCommit : round(l) <= round(o)
           /\ lastCommitted' = committed
           /\ lastCommittedRound' = top
           /\ dag' = Cleaned(dag, committed, top)
           /\ output' = IF batch = {} THEN output
                        ELSE Append(output, [leader |-> l, certificates |-> batch])
           /\ toCommit' = toCommit \ {l}
           /\ UNCHANGED <<parents, delivered, panicked>>

Next == CommitLeader \/ \E v \in DOMAIN parents : Deliver(v)

\* Each certificate reaches the task at most once.
Spec == Init /\ [][Next]_vars

\* Certificates are broadcast reliably and asked for when missing, so there
\* is one to take until all are delivered, and the task runs when it can.
FairSpec == Spec /\ WF_vars(Next)

-----------------------------------------------------------------------------

\* The certificates of the first i slices.
CommittedBy(i) == UNION {output[j].certificates : j \in 1 .. i}

Committed == CommittedBy(Len(output))

\* No certificate is committed twice: what last_committed is kept for
\* ("ensure we don't commit twice the same certificate"). It does not help
\* with a certificate that the primary sends twice.
NoDoubleCommit ==
    \A i, j \in 1 .. Len(output) :
        i # j => output[i].certificates \cap output[j].certificates = {}

\* The `expect's of Consensus::run and Consensus::linked never fire: the
\* clean-up of State::update only removes rounds that no later election
\* reads, and the primary delivers a certificate after its history.
NoPanic == ~ panicked

\* A slice is the whole history of its leader, but for what the clean-up
\* has cut off: a parent of a committed certificate is committed no later
\* than it, or its author had a younger certificate in an earlier slice,
\* or it was below the garbage collection depth of the earlier slices.
HistoryCommitted ==
    \A i \in 1 .. Len(output) : \A v \in output[i].certificates :
        \A u \in parents[v] \ Genesis :
            \/ u \in CommittedBy(i)
            \/ \E w \in CommittedBy(i - 1) :
                    origin(w) = origin(u) /\ round(w) > round(u)
            \/ \E w \in CommittedBy(i - 1) : round(u) + GcDepth < round(w)

\* A quorum of the next round has l as a parent, and the DAG grows three
\* rounds past it.
QuorumSupported(l) ==
    /\ l \in DOMAIN parents
    /\ Support(DOMAIN parents, l) >= quorum_threshold
    /\ AtRound(DOMAIN parents, round(l) + 3) # {}

\* Such a leader is committed in the end, whatever the order of arrival,
\* although the election counts only the children that are there: any
\* quorum of them contains f+1 supporters.
SupportedLeaderCommits ==
    <>(\A r \in {q \in 2 .. MaxRound : q % 2 = 0} :
          QuorumSupported(leader(r)) => leader(r) \in Committed)
=============================================================================
