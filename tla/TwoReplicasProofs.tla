------------------------- MODULE TwoReplicasProofs -------------------------
(***************************************************************************)
(* Agreement of two replicas of the consensus, for every committee, every  *)
(* DAG and every order of arrival: the leaders they commit form one        *)
(* ledger. What one replica commits is a ledger of the DAG (LedgerInv of   *)
(* TuskProofs), and the DAG has only one.                                  *)
(***************************************************************************)
EXTENDS TwoReplicas, TLAPS

PA == INSTANCE TuskProofs WITH delivered <- deliveredA, dag <- dagA,
        lastCommitted <- lastCommittedA,
        lastCommittedRound <- lastCommittedRoundA,
        toCommit <- toCommitA, panicked <- panickedA, output <- outputA

PB == INSTANCE TuskProofs WITH delivered <- deliveredB, dag <- dagB,
        lastCommitted <- lastCommittedB,
        lastCommittedRound <- lastCommittedRoundB,
        toCommit <- toCommitB, panicked <- panickedB, output <- outputB

-----------------------------------------------------------------------------

\* What TuskProofs supposes of the constants is what this module does.
LEMMA AssumptionsPA ==
    /\ N \in Nat \ {0} /\ Stake \in [PA!Authority -> Nat] /\ PA!TotalStake \in 1 .. (2^30 - 1)
    /\ MaxRound \in Nat /\ GcDepth \in Nat /\ \A p \in Dags : PA!WellFormed(p)
<1>1. \A p \in Dags : PA!WellFormed(p)
  BY DagsAssumption
     DEF WellFormed, PA!WellFormed, ValidParents, PA!ValidParents, Genesis, PA!Genesis,
         AtRound, PA!AtRound, origin, PA!origin, round, PA!round,
         Certificate, PA!Certificate, Authority, PA!Authority, Round, PA!Round,
         quorum_threshold, PA!quorum_threshold, QuorumOf, PA!QuorumOf,
         TotalStake, PA!TotalStake, StakeOf, PA!StakeOf, MapThenSumSet, PA!MapThenSumSet,
         MapThenFoldSet, PA!MapThenFoldSet
<1>2. PA!TotalStake = TotalStake /\ PA!Authority = Authority
  BY DEF TotalStake, PA!TotalStake, StakeOf, PA!StakeOf, Authority, PA!Authority,
         MapThenSumSet, PA!MapThenSumSet, MapThenFoldSet, PA!MapThenFoldSet
<1> QED BY <1>1, <1>2, NAssumption, StakeAssumption, StakeFits, MaxRoundAssumption,
           GcDepthAssumption

LEMMA AssumptionsPB ==
    /\ N \in Nat \ {0} /\ Stake \in [PB!Authority -> Nat] /\ PB!TotalStake \in 1 .. (2^30 - 1)
    /\ MaxRound \in Nat /\ GcDepth \in Nat /\ \A p \in Dags : PB!WellFormed(p)
<1>1. \A p \in Dags : PB!WellFormed(p)
  BY DagsAssumption
     DEF WellFormed, PB!WellFormed, ValidParents, PB!ValidParents, Genesis, PB!Genesis,
         AtRound, PB!AtRound, origin, PB!origin, round, PB!round,
         Certificate, PB!Certificate, Authority, PB!Authority, Round, PB!Round,
         quorum_threshold, PB!quorum_threshold, QuorumOf, PB!QuorumOf,
         TotalStake, PB!TotalStake, StakeOf, PB!StakeOf, MapThenSumSet, PB!MapThenSumSet,
         MapThenFoldSet, PB!MapThenFoldSet
<1>2. PB!TotalStake = TotalStake /\ PB!Authority = Authority
  BY DEF TotalStake, PB!TotalStake, StakeOf, PB!StakeOf, Authority, PB!Authority,
         MapThenSumSet, PB!MapThenSumSet, MapThenFoldSet, PB!MapThenFoldSet
<1> QED BY <1>1, <1>2, NAssumption, StakeAssumption, StakeFits, MaxRoundAssumption,
           GcDepthAssumption

\* The tasks that TuskProofs speaks of are the two replicas.
LEMMA SameTaskA == A!Init = PA!Init /\ A!Next = PA!Next /\ A!vars = PA!vars
<1>1. A!Next = PA!Next
  BY DEF A!Next, PA!Next, A!CommitLeader, PA!CommitLeader, A!Deliver, PA!Deliver,
         A!Process, PA!Process, A!order_leaders, PA!order_leaders,
         A!order_dag, PA!order_dag, A!AfterUpdate, PA!AfterUpdate, A!Cleaned,
         PA!Cleaned, A!Commits, PA!Commits, A!Elects, PA!Elects,
         A!HistoryMissing, PA!HistoryMissing, A!LeaderRoundOf,
         PA!LeaderRoundOf, A!Support, PA!Support, A!EarlierRounds,
         PA!EarlierRounds, A!LinkedRounds, PA!LinkedRounds, A!linked,
         PA!linked, A!Layers, PA!Layers, A!Ancestry, PA!Ancestry, A!leader,
         PA!leader, A!origin, PA!origin, A!round, PA!round, A!AtRound,
         PA!AtRound, A!Authority, PA!Authority, A!Certificate, PA!Certificate,
         A!Round, PA!Round, A!StakeOf, PA!StakeOf, A!MapThenSumSet,
         PA!MapThenSumSet, A!MapThenFoldSet, PA!MapThenFoldSet,
         A!validity_threshold, PA!validity_threshold, A!ValidityOf,
         PA!ValidityOf, A!TotalStake, PA!TotalStake, A!Max, PA!Max, A!Min,
         PA!Min
<1>2. A!Init = PA!Init /\ A!vars = PA!vars
  BY DEF A!Init, PA!Init, A!Genesis, PA!Genesis, A!Certificate, PA!Certificate,
         A!Authority, PA!Authority, A!Round, PA!Round, A!round, PA!round,
         A!vars, PA!vars
<1> QED BY <1>1, <1>2

LEMMA SameTaskB == B!Init = PB!Init /\ B!Next = PB!Next /\ B!vars = PB!vars
<1>1. B!Next = PB!Next
  BY DEF B!Next, PB!Next, B!CommitLeader, PB!CommitLeader, B!Deliver, PB!Deliver,
         B!Process, PB!Process, B!order_leaders, PB!order_leaders,
         B!order_dag, PB!order_dag, B!AfterUpdate, PB!AfterUpdate, B!Cleaned,
         PB!Cleaned, B!Commits, PB!Commits, B!Elects, PB!Elects,
         B!HistoryMissing, PB!HistoryMissing, B!LeaderRoundOf,
         PB!LeaderRoundOf, B!Support, PB!Support, B!EarlierRounds,
         PB!EarlierRounds, B!LinkedRounds, PB!LinkedRounds, B!linked,
         PB!linked, B!Layers, PB!Layers, B!Ancestry, PB!Ancestry, B!leader,
         PB!leader, B!origin, PB!origin, B!round, PB!round, B!AtRound,
         PB!AtRound, B!Authority, PB!Authority, B!Certificate, PB!Certificate,
         B!Round, PB!Round, B!StakeOf, PB!StakeOf, B!MapThenSumSet,
         PB!MapThenSumSet, B!MapThenFoldSet, PB!MapThenFoldSet,
         B!validity_threshold, PB!validity_threshold, B!ValidityOf,
         PB!ValidityOf, B!TotalStake, PB!TotalStake, B!Max, PB!Max, B!Min,
         PB!Min
<1>2. B!Init = PB!Init /\ B!vars = PB!vars
  BY DEF B!Init, PB!Init, B!Genesis, PB!Genesis, B!Certificate, PB!Certificate,
         B!Authority, PB!Authority, B!Round, PB!Round, B!round, PB!round,
         B!vars, PB!vars
<1> QED BY <1>1, <1>2

\* Each replica runs the task of module Tusk: the other one's steps leave it
\* and the DAG alone.
LEMMA EachRunsTusk == Spec => PA!Spec /\ PB!Spec
<1>1. Init => PA!Init /\ PB!Init
  BY SameTaskA, SameTaskB DEF Init
<1>2. A!Next => UNCHANGED parents
  BY DEF A!Next, A!CommitLeader, A!Deliver, A!Process
<1>3. B!Next => UNCHANGED parents
  BY DEF B!Next, B!CommitLeader, B!Deliver, B!Process
<1>4. [Next]_vars => [PA!Next]_PA!vars
  BY <1>3, SameTaskA DEF Next, StepA, StepB, vars, varsA, PA!vars
<1>5. [Next]_vars => [PB!Next]_PB!vars
  BY <1>2, SameTaskB DEF Next, StepA, StepB, vars, varsB, PB!vars
<1> QED BY <1>1, <1>4, <1>5, PTL DEF Spec, PA!Spec, PB!Spec

BothInv == PA!IInv /\ PA!LedgerInv /\ PB!IInv /\ PB!LedgerInv

\* Both replicas keep the invariants of a replica.
LEMMA BothInvariant == Spec => []BothInv
<1>1. PA!Spec => [](PA!IInv /\ PA!LedgerInv)
  BY PA!LedgerInvariant, AssumptionsPA
<1>2. PB!Spec => [](PB!IInv /\ PB!LedgerInv)
  BY PB!LedgerInvariant, AssumptionsPB
<1> QED BY EachRunsTusk, <1>1, <1>2, PTL DEF BothInv

\* What both have committed is the same.
Agree == \A i \in 1 .. Len(outputA) : i <= Len(outputB) => outputA[i].leader = outputB[i].leader

LEMMA ReplicasAgree == BothInv => Agree
<1> SUFFICES ASSUME BothInv PROVE Agree
  OBVIOUS
<1> DEFINE S == PA!CommittedRounds \cup PA!PendingRounds
           T == PB!CommittedRounds \cup PB!PendingRounds
<1>1. PA!IsLedger(parents, S, outputA) /\ PB!IsLedger(parents, T, outputB)
  BY DEF BothInv, PA!LedgerInv, PB!LedgerInv
<1>2. PA!WellFormed(parents) /\ Len(outputA) \in Nat /\ Len(outputB) \in Nat
  BY DEF BothInv, PA!IInv, PB!IInv, PA!TypeOK, PB!TypeOK
<1> HIDE DEF S, T
<1>3. PA!IsLedger(parents, T, outputB)
  BY <1>1
     DEF PA!IsLedger, PB!IsLedger, PA!Chain, PB!Chain, PA!Supported, PB!Supported,
         PA!Latest, PB!Latest, PA!NextIn, PB!NextIn, PA!Reaches, PB!Reaches,
         PA!Layers, PB!Layers, PA!leader, PB!leader, PA!round, PB!round, PA!origin, PB!origin,
         PA!AtRound, PB!AtRound, PA!LeaderRound, PB!LeaderRound, PA!Round, PB!Round,
         PA!StakeOf, PB!StakeOf, PA!MapThenSumSet, PB!MapThenSumSet,
         PA!MapThenFoldSet, PB!MapThenFoldSet, PA!validity_threshold, PB!validity_threshold,
         PA!ValidityOf, PB!ValidityOf, PA!TotalStake, PB!TotalStake,
         PA!Authority, PB!Authority
<1>4. \A i \in 1 .. Len(outputA) : i <= Len(outputB) => outputA[i].leader = outputB[i].leader
  BY <1>1, <1>2, <1>3, PA!LedgersAgree, AssumptionsPA
<1> QED BY <1>4 DEF Agree

-----------------------------------------------------------------------------

log == [r \in {"A", "B"} |-> IF r = "A" THEN Leaders(outputA) ELSE Leaders(outputB)]

\* The leaders of an output, and of one with a slice more.
LEMMA LeadersFacts ==
    ASSUME NEW X, NEW out \in Seq(X)
    PROVE  /\ Len(Leaders(out)) = Len(out)
           /\ \A i \in 1 .. Len(out) : Leaders(out)[i] = out[i].leader
           /\ \A e \in X : Leaders(Append(out, e)) = Append(Leaders(out), e.leader)
<1>1. Len(out) \in Nat
  OBVIOUS
<1>2. Leaders(out) \in Seq({out[i].leader : i \in 1 .. Len(out)})
  BY <1>1 DEF Leaders
<1>3. Len(Leaders(out)) = Len(out) /\ \A i \in 1 .. Len(out) : Leaders(out)[i] = out[i].leader
  BY <1>1 DEF Leaders
<1>4. ASSUME NEW e \in X PROVE Leaders(Append(out, e)) = Append(Leaders(out), e.leader)
  BY <1>1 DEF Leaders
<1> QED BY <1>3, <1>4

\* The replicas begin with empty logs.
LEMMA LogInit == Init => LeaderLog!LogInit
  BY DEF Init, A!Init, B!Init, LeaderLog!LogInit, Leaders

\* A step of a replica decides nothing or the next entry of its log, which is
\* the one that the other replica has there if it is ahead.
LEMMA LogStep ==
    ASSUME BothInv, Agree', [Next]_vars
    PROVE  [LeaderLog!LogNext]_log
<1> DEFINE a == Leaders(outputA)
           b == Leaders(outputB)
<1>2. PA!Slice = PB!Slice
  BY DEF PA!Slice, PB!Slice, PA!Certificate, PB!Certificate, PA!Authority, PB!Authority,
         PA!Round, PB!Round
<1> DEFINE Slice == PA!Slice
<1>3. \A e \in Slice : e.leader \in Certificate
  BY DEF PA!Slice, PA!Certificate, PA!Authority, PA!Round, Certificate, Authority, Round
<1>4. outputA \in Seq(Slice) /\ outputB \in Seq(Slice)
  BY <1>2 DEF BothInv, PA!IInv, PB!IInv, PA!TypeOK, PB!TypeOK
<1>5. log["A"] = a /\ log["B"] = b /\ log'["A"] = a' /\ log'["B"] = b'
  BY DEF log
<1>6. CASE StepA
  <2>1. outputB' = outputB
    BY <1>6 DEF StepA, varsB
  <2>2. outputA' = outputA \/ \E e \in Slice : outputA' = Append(outputA, e)
    BY <1>6, SameTaskA, PA!OutputGrows, AssumptionsPA DEF StepA, BothInv
  <2>3. CASE outputA' = outputA
    BY <2>1, <2>3 DEF log
  <2>4. ASSUME NEW e \in Slice, outputA' = Append(outputA, e) PROVE LeaderLog!LogNext
    <3>1. a' = Append(a, e.leader) /\ b' = b /\ Len(a) = Len(outputA) /\ Len(b) = Len(outputB)
      BY <1>4, <2>1, <2>4, LeadersFacts
    <3>2. Len(b) > Len(a) => b[Len(a) + 1] = e.leader
      <4> SUFFICES ASSUME Len(b) > Len(a) PROVE b[Len(a) + 1] = e.leader
        OBVIOUS
      <4> DEFINE k == Len(outputA) + 1
      <4>1. k \in 1 .. Len(outputA') /\ k \in 1 .. Len(outputB) /\ outputA'[k] = e
        BY <1>4, <2>4, <3>1
      <4>2. outputA'[k].leader = outputB[k].leader
        BY <2>1, <4>1 DEF Agree
      <4> QED BY <1>4, <3>1, <4>1, <4>2, LeadersFacts
    <3>3. log' = [log EXCEPT !["A"] = Append(@, e.leader)]
      BY <3>1 DEF log
    <3>4. LeaderLog!Decide("A", e.leader)
      <4> HIDE DEF a, b
      <4> QED BY <3>2, <3>3, <1>5 DEF LeaderLog!Decide, log
    <3> QED BY <3>4, <1>3 DEF LeaderLog!LogNext
  <2> QED BY <2>2, <2>3, <2>4
<1>7. CASE StepB
  <2>1. outputA' = outputA
    BY <1>7 DEF StepB, varsA
  <2>2. outputB' = outputB \/ \E e \in Slice : outputB' = Append(outputB, e)
    BY <1>2, <1>7, SameTaskB, PB!OutputGrows, AssumptionsPB DEF StepB, BothInv
  <2>3. CASE outputB' = outputB
    BY <2>1, <2>3 DEF log
  <2>4. ASSUME NEW e \in Slice, outputB' = Append(outputB, e) PROVE LeaderLog!LogNext
    <3>1. b' = Append(b, e.leader) /\ a' = a /\ Len(a) = Len(outputA) /\ Len(b) = Len(outputB)
      BY <1>4, <2>1, <2>4, LeadersFacts
    <3>2. Len(a) > Len(b) => a[Len(b) + 1] = e.leader
      <4> SUFFICES ASSUME Len(a) > Len(b) PROVE a[Len(b) + 1] = e.leader
        OBVIOUS
      <4> DEFINE k == Len(outputB) + 1
      <4>1. k \in 1 .. Len(outputB') /\ k \in 1 .. Len(outputA) /\ outputB'[k] = e /\ k <= Len(outputB')
        BY <1>4, <2>4, <3>1
      <4>2. outputA[k].leader = outputB'[k].leader
        BY <2>1, <4>1 DEF Agree
      <4> QED BY <1>4, <3>1, <4>1, <4>2, LeadersFacts
    <3>3. log' = [log EXCEPT !["B"] = Append(@, e.leader)]
      BY <3>1 DEF log
    <3>4. LeaderLog!Decide("B", e.leader)
      <4> HIDE DEF a, b
      <4> QED BY <3>2, <3>3, <1>5 DEF LeaderLog!Decide, log
    <3> QED BY <3>4, <1>3 DEF LeaderLog!LogNext
  <2> QED BY <2>2, <2>3, <2>4
<1>8. CASE UNCHANGED vars
  BY <1>8 DEF vars, varsA, varsB, log
<1> QED BY <1>6, <1>7, <1>8 DEF Next

\* The leaders that the replicas commit form one ledger.
THEOREM Agreement == Spec => OneLedger
<1>1. BothInv /\ Agree' /\ [Next]_vars => [LeaderLog!LogNext]_log
  BY LogStep
<1> QED BY LogInit, BothInvariant, ReplicasAgree, <1>1, PTL DEF Spec, OneLedger, LeaderLog!LogSpec, log
=============================================================================
