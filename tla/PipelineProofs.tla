--------------------------- MODULE PipelineProofs ---------------------------
(***************************************************************************)
(* The ordering pipeline for every committee, DAG, garbage collection      *)
(* depth and capacity of the channel: the application receives the slices  *)
(* of the consensus in order, each one whole and contiguous, and the       *)
(* evidence of the executor is exact although the slices may lack a part   *)
(* of the history of their leader.                                         *)
(*                                                                         *)
(* The two tasks keep the invariants that TuskProofs and MrvProofs prove   *)
(* of each; what is left is what joins them: the executor has received     *)
(* the first slices of the consensus, and waits with the last of those.    *)
(***************************************************************************)
EXTENDS Pipeline, TLAPS, FiniteSetTheorems

T == INSTANCE TuskProofs WITH output <- slices

\* What MrvProofs says of the algorithm of sort_batch is not used here: the
\* variables of that stand for nothing.
X == INSTANCE MrvProofs WITH output <- ordered,
        WindowCap <- IF GcDepth = 0 THEN 1 ELSE GcDepth,
        NumNodes <- 0, graph <- {}, pc <- "done", stack <- <<>>, visited <- {},
        finished <- <<>>, components <- <<>>, degree <- <<>>, ready <- {}, sorted <- <<>>

-----------------------------------------------------------------------------

\* What TuskProofs supposes of the constants is what this module does.
LEMMA AssumptionsT ==
    /\ N \in Nat \ {0} /\ Stake \in [T!Authority -> Nat] /\ T!TotalStake \in 1 .. (2^30 - 1)
    /\ MaxRound \in Nat /\ GcDepth \in Nat /\ \A p \in Dags : T!WellFormed(p)
<1>1. \A p \in Dags : T!WellFormed(p)
  BY DagsAssumption
     DEF WellFormed, T!WellFormed, ValidParents, T!ValidParents, Genesis, T!Genesis,
         AtRound, T!AtRound, origin, T!origin, round, T!round,
         Certificate, T!Certificate, Authority, T!Authority, Round, T!Round,
         quorum_threshold, T!quorum_threshold, QuorumOf, T!QuorumOf,
         TotalStake, T!TotalStake, StakeOf, T!StakeOf, MapThenSumSet, T!MapThenSumSet,
         MapThenFoldSet, T!MapThenFoldSet
<1>2. T!TotalStake = TotalStake /\ T!Authority = Authority
  BY DEF TotalStake, T!TotalStake, StakeOf, T!StakeOf, Authority, T!Authority,
         MapThenSumSet, T!MapThenSumSet, MapThenFoldSet, T!MapThenFoldSet
<1> QED BY <1>1, <1>2, NAssumption, StakeAssumption, StakeFits, MaxRoundAssumption,
           GcDepthAssumption

\* The same for MrvProofs: the window cap is at least 1.
LEMMA AssumptionsX ==
    /\ N \in Nat \ {0} /\ Stake \in [X!Authority -> Nat] /\ X!TotalStake \in 1 .. (2^30 - 1)
    /\ MaxRound \in Nat /\ \A p \in Dags : X!WellFormed(p)
    /\ (IF GcDepth = 0 THEN 1 ELSE GcDepth) \in Nat \ {0}
<1>1. \A p \in Dags : X!WellFormed(p)
  BY DagsAssumption
     DEF WellFormed, X!WellFormed, ValidParents, X!ValidParents, Genesis, X!Genesis,
         AtRound, X!AtRound, origin, X!origin, round, X!round,
         Certificate, X!Certificate, Authority, X!Authority, Round, X!Round,
         quorum_threshold, X!quorum_threshold, QuorumOf, X!QuorumOf,
         TotalStake, X!TotalStake, StakeOf, X!StakeOf, MapThenSumSet, X!MapThenSumSet,
         MapThenFoldSet, X!MapThenFoldSet
<1>2. X!TotalStake = TotalStake /\ X!Authority = Authority
  BY DEF TotalStake, X!TotalStake, StakeOf, X!StakeOf, Authority, X!Authority,
         MapThenSumSet, X!MapThenSumSet, MapThenFoldSet, X!MapThenFoldSet
<1> QED BY <1>1, <1>2, NAssumption, StakeAssumption, StakeFits, MaxRoundAssumption,
           GcDepthAssumption

\* The tasks that TuskProofs and MrvProofs speak of are those of the pipeline.
LEMMA SameConsensus ==
    /\ Consensus!Init = T!Init
    /\ Consensus!CommitLeader = T!CommitLeader
    /\ \A v : Consensus!Deliver(v) = T!Deliver(v)
<1>1. Consensus!CommitLeader = T!CommitLeader
  BY DEF Consensus!CommitLeader, T!CommitLeader, Consensus!order_dag, T!order_dag,
         Consensus!AfterUpdate, T!AfterUpdate, Consensus!Cleaned, T!Cleaned,
         Consensus!Layers, T!Layers, Consensus!Ancestry, T!Ancestry,
         Consensus!origin, T!origin, Consensus!round, T!round,
         Consensus!Authority, T!Authority, Consensus!Max, T!Max
<1>2. \A v : Consensus!Deliver(v) = T!Deliver(v)
  BY DEF Consensus!Deliver, T!Deliver, Consensus!Process, T!Process,
         Consensus!order_leaders, T!order_leaders, Consensus!Commits, T!Commits,
         Consensus!Elects, T!Elects, Consensus!HistoryMissing, T!HistoryMissing,
         Consensus!LeaderRoundOf, T!LeaderRoundOf, Consensus!Support, T!Support,
         Consensus!EarlierRounds, T!EarlierRounds,
         Consensus!LinkedRounds, T!LinkedRounds, Consensus!linked, T!linked,
         Consensus!Layers, T!Layers, Consensus!Ancestry, T!Ancestry,
         Consensus!leader, T!leader, Consensus!origin, T!origin,
         Consensus!round, T!round, Consensus!AtRound, T!AtRound,
         Consensus!Authority, T!Authority, Consensus!Certificate, T!Certificate,
         Consensus!Round, T!Round, Consensus!StakeOf, T!StakeOf,
         Consensus!MapThenSumSet, T!MapThenSumSet,
         Consensus!MapThenFoldSet, T!MapThenFoldSet,
         Consensus!validity_threshold, T!validity_threshold,
         Consensus!ValidityOf, T!ValidityOf, Consensus!TotalStake, T!TotalStake,
         Consensus!Max, T!Max, Consensus!Min, T!Min
<1>3. Consensus!Init = T!Init
  BY DEF Consensus!Init, T!Init, Consensus!Genesis, T!Genesis,
         Consensus!Certificate, T!Certificate, Consensus!Authority, T!Authority,
         Consensus!Round, T!Round, Consensus!round, T!round
<1> QED BY <1>1, <1>2, <1>3

LEMMA SameExecutor ==
    /\ Executor!Init = X!Init
    /\ \A s : Executor!Take(s) = X!Take(s)
    /\ \A v : Executor!AddCertificate(v) = X!AddCertificate(v)
    /\ Executor!EndIngest = X!EndIngest
    /\ Executor!FinalizeBatch = X!FinalizeBatch
    /\ Executor!FinalizeDone = X!FinalizeDone
    /\ Executor!SeenExact = X!SeenExact
<1>1. Executor!Init = X!Init
  BY DEF Executor!Init, X!Init, Executor!None, X!None
<1>2. \A s : Executor!Take(s) = X!Take(s)
  BY DEF Executor!Take, X!Take
<1>3. \A v : Executor!AddCertificate(v) = X!AddCertificate(v)
  BY DEF Executor!AddCertificate, X!AddCertificate, Executor!VisitedFrom, X!VisitedFrom,
         Executor!Ancestry, X!Ancestry, Executor!Layers, X!Layers,
         Executor!SeenBy, X!SeenBy, Executor!reach_threshold, X!reach_threshold,
         Executor!f, X!f, Executor!None, X!None, Executor!AtRound, X!AtRound,
         Executor!round, X!round, Executor!Cardinality, X!Cardinality
<1>4. Executor!EndIngest = X!EndIngest
  BY DEF Executor!EndIngest, X!EndIngest, Executor!Capped, X!Capped,
         Executor!None, X!None, Executor!round, X!round
<1>5. Executor!NextBatch = X!NextBatch
  BY DEF Executor!NextBatch, X!NextBatch, Executor!Min, X!Min
<1>6. \A s : Executor!Ready(s) = X!Ready(s)
  BY DEF Executor!Ready, X!Ready, Executor!None, X!None
<1>7. \A s : Executor!sort_batch(s) = X!sort_batch(s)
  <2>1. \A n, e, b : Executor!Linearize(n, e, b) = X!Linearize(n, e, b)
    BY DEF Executor!Linearize, X!Linearize, Executor!Paths, X!Paths,
           Executor!Reachable, X!Reachable, Executor!FirstComponent, X!FirstComponent,
           Executor!SortedBy, X!SortedBy, Executor!Cardinality, X!Cardinality
  <2>2. \A a, b : Executor!Better(a, b) = X!Better(a, b)
    BY DEF Executor!Better, X!Better, Executor!seen_count_at, X!seen_count_at,
           Executor!delta_threshold, X!delta_threshold, Executor!f, X!f,
           Executor!AtRound, X!AtRound, Executor!round, X!round, Executor!Max, X!Max,
           Executor!Cardinality, X!Cardinality
  <2>3. \A a, b : Executor!TieBreak(a, b) = X!TieBreak(a, b)
    BY DEF Executor!TieBreak, X!TieBreak, Executor!origin, X!origin,
           Executor!round, X!round
  <2> TAKE s
  <2> DEFINE E(P(_, _)) == UNION {{<<a, b>> : b \in {b \in s \ {a} : P(a, b)}} : a \in s}
  <2>4. E(Executor!Better) = E(X!Better)
    BY <2>2
  <2>5. E(Executor!TieBreak) = E(X!TieBreak)
    BY <2>3
  <2>6. Executor!sort_batch(s) = Executor!Linearize(s, E(Executor!Better), E(Executor!TieBreak))
    BY DEF Executor!sort_batch
  <2>7. X!sort_batch(s) = X!Linearize(s, E(X!Better), E(X!TieBreak))
    BY DEF X!sort_batch
  <2> QED BY <2>1, <2>4, <2>5, <2>6, <2>7
<1>8. \A s : Executor!FloorWithout(s) = X!FloorWithout(s)
  BY DEF Executor!FloorWithout, X!FloorWithout, Executor!FloorOf, X!FloorOf,
         Executor!ActiveWithout, X!ActiveWithout, Executor!None, X!None,
         Executor!round, X!round, Executor!Min, X!Min
<1>9. \A s : Executor!ActiveWithout(s) = X!ActiveWithout(s)
  BY DEF Executor!ActiveWithout, X!ActiveWithout
<1>10. Executor!FinalizeBatch = X!FinalizeBatch
  BY <1>5, <1>6, <1>7, <1>8, <1>9 DEF Executor!FinalizeBatch, X!FinalizeBatch
<1>11. Executor!FinalizeDone = X!FinalizeDone
  BY <1>5, <1>6 DEF Executor!FinalizeDone, X!FinalizeDone
<1>12. Executor!SeenExact = X!SeenExact
  BY DEF Executor!SeenExact, X!SeenExact, Executor!Ancestry, X!Ancestry,
         Executor!Layers, X!Layers, Executor!round, X!round
<1> QED BY <1>1, <1>2, <1>3, <1>4, <1>10, <1>11, <1>12

\* A certificate is the same in all the modules.
LEMMA SameSets ==
    /\ T!Certificate = Certificate /\ X!Certificate = Certificate
    /\ T!Round = Round /\ X!Round = Round
    /\ \A v : T!round(v) = round(v) /\ X!round(v) = round(v)
    /\ \A S : X!Cardinality(S) = Cardinality(S)
    /\ \A S : X!IsFiniteSet(S) <=> IsFiniteSet(S)
<1>1. T!Certificate = Certificate /\ X!Certificate = Certificate /\ T!Round = Round /\ X!Round = Round
  BY DEF Certificate, T!Certificate, X!Certificate, Authority, T!Authority, X!Authority,
         Round, T!Round, X!Round
<1>2. \A v : T!round(v) = round(v) /\ X!round(v) = round(v)
  BY DEF round, T!round, X!round
<1>3. \A S : X!Cardinality(S) = Cardinality(S)
  BY DEF Cardinality, X!Cardinality
<1>4. \A S : X!IsFiniteSet(S) <=> IsFiniteSet(S)
  BY DEF IsFiniteSet, X!IsFiniteSet
<1> QED BY <1>1, <1>2, <1>3, <1>4

\* The consensus of the pipeline runs the task of module Tusk: the steps of
\* the executor leave it and the DAG alone.
LEMMA RunsConsensus == Spec => T!Spec
<1>1. Init => T!Init
  BY SameConsensus DEF Init
<1>2. ASSUME [Next]_vars PROVE [T!Next]_T!vars
  <2>1. ASSUME NEW v \in DOMAIN parents, Certify(v) PROVE T!Next
    BY <2>1, SameConsensus DEF Certify, T!Next
  <2>2. CASE SendSlice
    BY <2>2, SameConsensus DEF SendSlice, T!Next
  <2>3. CASE ReceiveSlice
    BY <2>3 DEF ReceiveSlice, Executor!Take, consensusVars, T!vars
  <2>4. CASE ExecutorStep
    <3>1. parents' = parents
      BY <2>4 DEF ExecutorStep, Executor!AddCertificate, Executor!EndIngest,
                  Executor!FinalizeBatch, Executor!FinalizeDone
    <3> QED BY <2>4, <3>1 DEF ExecutorStep, consensusVars, T!vars
  <2>5. CASE UNCHANGED vars
    BY <2>5 DEF vars, consensusVars, T!vars
  <2> QED BY <1>2, <2>1, <2>2, <2>3, <2>4, <2>5 DEF Next
<1> QED BY <1>1, <1>2, PTL DEF Spec, T!Spec

ConsensusInv == T!IInv /\ T!ParentsEarlier

\* So it keeps the invariants of the task.
LEMMA ConsensusInvariant == Spec => []ConsensusInv
<1>1. T!Spec => []T!IInv
  BY T!SafetyInvariant, AssumptionsT
<1>2. T!Spec => []T!ParentsEarlier
  BY T!CommitsParentsFirst, AssumptionsT
<1> QED BY RunsConsensus, <1>1, <1>2, PTL DEF ConsensusInv

-----------------------------------------------------------------------------
(***************************************************************************)
(* What the consensus has output.                                          *)
(***************************************************************************)

CommittedIn(s, k) == UNION {s[i].certificates : i \in 1 .. k}

SizeIn(s, k) == Cardinality(CommittedIn(s, k))

\* The first r slices of s, one after the other in sequence o.
InOrder(s, o, r) ==
    /\ Len(o) = SizeIn(s, r)
    /\ \A k \in 1 .. r :
          {o[i] : i \in (SizeIn(s, k - 1) + 1) .. SizeIn(s, k)} = s[k].certificates

LEMMA WholeIsInOrder ==
    /\ WholeSlicesInOrder <=> InOrder(slices, ordered, Released)
    /\ WholeSlicesInOrder' <=> InOrder(slices', ordered', Released')
  BY DEF WholeSlicesInOrder, InOrder, SizeOf, SizeIn, CommittedIn

\* The slices: sets of certificates of the DAG, apart from each other, of
\* which none holds a parent of an earlier one.
LEMMA SlicesFacts ==
    ASSUME ConsensusInv
    PROVE  /\ slices \in Seq(T!Slice) /\ Len(slices) \in Nat
           /\ \A i \in 1 .. Len(slices) :
                 /\ slices[i].certificates \in SUBSET Certificate
                 /\ slices[i].certificates \subseteq DOMAIN parents
                 /\ round(slices[i].leader) \in Round
           /\ \A i, j \in 1 .. Len(slices) :
                 i # j => slices[i].certificates \cap slices[j].certificates = {}
           /\ \A i, j \in 1 .. Len(slices) :
                 i < j => \A v \in slices[i].certificates :
                              parents[v] \cap slices[j].certificates = {}
<1>1. slices \in Seq(T!Slice) /\ Len(slices) \in Nat
  BY DEF ConsensusInv, T!IInv, T!TypeOK
<1>2. ASSUME NEW i \in 1 .. Len(slices)
      PROVE  /\ slices[i].certificates \in SUBSET Certificate
             /\ slices[i].certificates \subseteq DOMAIN parents
             /\ round(slices[i].leader) \in Round
  <2>1. slices[i] \in T!Slice
    BY <1>1
  <2>2. slices[i].leader \in Certificate /\ slices[i].certificates \in SUBSET Certificate
    BY <2>1, SameSets DEF T!Slice
  <2>3. slices[i].certificates \subseteq DOMAIN parents
    BY DEF ConsensusInv, T!IInv, T!CommittedMarked, T!HistoryKept
  <2>4. round(slices[i].leader) \in Round
    BY <2>2 DEF Certificate, round
  <2> QED BY <2>2, <2>3, <2>4
<1> QED BY <1>1, <1>2 DEF ConsensusInv, T!IInv, T!NoDoubleCommit, T!ParentsEarlier

\* The number of certificates of the first slices.
LEMMA Sizes ==
    ASSUME ConsensusInv
    PROVE  /\ \A k \in 0 .. Len(slices) : SizeIn(slices, k) \in Nat
           /\ SizeIn(slices, 0) = 0
           /\ \A k \in 1 .. Len(slices) :
                 SizeIn(slices, k) = SizeIn(slices, k - 1) + Cardinality(slices[k].certificates)
           /\ \A j, k \in 0 .. Len(slices) : j <= k => SizeIn(slices, j) <= SizeIn(slices, k)
<1>1. IsFiniteSet(Certificate)
  <2>1. IsFiniteSet(Authority) /\ IsFiniteSet(Round)
    BY FS_Interval, NAssumption, MaxRoundAssumption DEF Authority, Round
  <2> QED BY <2>1, FS_Product DEF Certificate
<1>2. Len(slices) \in Nat
  BY SlicesFacts
<1>3. \A k : SizeIn(slices, k) = Cardinality(CommittedIn(slices, k))
  BY DEF SizeIn
<1>4. ASSUME NEW k \in 0 .. Len(slices)
      PROVE  /\ CommittedIn(slices, k) \in SUBSET Certificate
             /\ IsFiniteSet(CommittedIn(slices, k)) /\ Cardinality(CommittedIn(slices, k)) \in Nat
  <2>1. 1 .. k \subseteq 1 .. Len(slices)
    BY <1>2
  <2>2. CommittedIn(slices, k) \in SUBSET Certificate
    BY <2>1, SlicesFacts DEF CommittedIn
  <2> QED BY <2>2, <1>1, FS_Subset, FS_CardinalityType
<1>5. SizeIn(slices, 0) = 0
  <2>1. CommittedIn(slices, 0) = {}
    BY DEF CommittedIn
  <2> QED BY <2>1, <1>3, FS_EmptySet
<1>6. ASSUME NEW k \in 1 .. Len(slices)
      PROVE  SizeIn(slices, k) = SizeIn(slices, k - 1) + Cardinality(slices[k].certificates)
  <2> DEFINE A == CommittedIn(slices, k - 1)
             B == slices[k].certificates
  <2>1. k - 1 \in 0 .. Len(slices) /\ k \in Nat
    BY <1>2
  <2>2. IsFiniteSet(A) /\ Cardinality(A) \in Nat
    BY <2>1, <1>4
  <2>3. IsFiniteSet(B) /\ Cardinality(B) \in Nat
    BY <1>1, SlicesFacts, FS_Subset, FS_CardinalityType
  <2>4. \A i \in 1 .. k : i \in 1 .. (k - 1) \/ i = k
    BY <2>1
  <2>5. \A i \in 1 .. (k - 1) : i \in 1 .. k /\ i # k /\ i \in 1 .. Len(slices)
    BY <1>2, <2>1
  <2>6. CommittedIn(slices, k) = A \cup B
    <3>1. k \in 1 .. k
      BY <2>1
    <3> QED BY <2>4, <2>5, <3>1 DEF CommittedIn
  <2>7. A \cap B = {}
    BY <2>5, SlicesFacts DEF CommittedIn
  <2> HIDE DEF A, B
  <2>8. Cardinality(A \cup B) = Cardinality(A) + Cardinality(B) - Cardinality(A \cap B)
    BY <2>2, <2>3, FS_Union
  <2>9. Cardinality(A \cap B) = 0
    BY <2>7, FS_EmptySet
  <2>10. Cardinality(CommittedIn(slices, k)) = Cardinality(A) + Cardinality(B)
    BY <2>2, <2>3, <2>6, <2>8, <2>9
  <2> QED BY <2>10, <1>3 DEF A, B
<1>7. ASSUME NEW j \in 0 .. Len(slices), NEW k \in 0 .. Len(slices), j <= k
      PROVE  SizeIn(slices, j) <= SizeIn(slices, k)
  <2>1. \A i \in 1 .. j : i \in 1 .. k
    BY <1>2, <1>7
  <2>2. CommittedIn(slices, j) \subseteq CommittedIn(slices, k)
    BY <2>1 DEF CommittedIn
  <2>3. Cardinality(CommittedIn(slices, j)) <= Cardinality(CommittedIn(slices, k))
    BY <2>2, <1>4, FS_Subset
  <2> QED BY <2>3, <1>3
<1> QED BY <1>3, <1>4, <1>5, <1>6, <1>7

-----------------------------------------------------------------------------
(***************************************************************************)
(* What the executor has of it.                                            *)
(***************************************************************************)

\* The number of slices that have become batches.
Arrived == index - (IF phase = "ingest" THEN 1 ELSE 0)

\* The executor has received the first slices, whole but for what it is
\* still ingesting of the last one; those not released wait, by their index.
HandedOver ==
    /\ \A i \in 1 .. Len(slices) : slices[i].certificates # {}
    /\ index \in 0 .. Len(slices)
    /\ phase \in {"idle", "ingest", "finalize"}
    /\ phase = "ingest" => slice = slices[index].certificates
    /\ phase # "ingest" => todo = {}
    /\ store = CommittedIn(slices, index) \ todo
    /\ Released \in 0 .. Arrived
    /\ DOMAIN batches = (Released + 1) .. Arrived
    /\ \A i \in DOMAIN batches : batches[i] = slices[i].certificates

ExecutorInv ==
    /\ X!IInv
    /\ X!ParentsFirst
    /\ X!SeenExact
    /\ HandedOver
    /\ ordered \in Seq(Certificate)
    /\ InOrder(slices, ordered, Released)

\* At the start nothing is output, received or released.
LEMMA InitExecutor == Init => ExecutorInv
<1> SUFFICES ASSUME Init PROVE ExecutorInv
  OBVIOUS
<1>1. X!Init /\ slices = <<>>
  BY SameExecutor DEF Init, Consensus!Init
<1>2. X!IInv
  BY <1>1, X!InitIInv, AssumptionsX
<1>3. /\ phase = "idle" /\ index = 0 /\ todo = {} /\ store = {} /\ slice = {}
      /\ batches = <<>> /\ ordered = <<>> /\ auf = <<>>
  BY <1>1 DEF X!Init
<1>4. X!ParentsFirst /\ X!SeenExact
  BY <1>3 DEF X!ParentsFirst, X!SeenExact
<1>5. Arrived = 0 /\ Released = 0
  <2>1. Cardinality(DOMAIN batches) = 0
    BY <1>3, FS_EmptySet
  <2> QED BY <1>3, <2>1 DEF Arrived, Released
<1>6. HandedOver
  BY <1>1, <1>3, <1>5 DEF HandedOver, CommittedIn
<1>7. ordered \in Seq(Certificate) /\ InOrder(slices, ordered, Released)
  <2>1. CommittedIn(slices, 0) = {}
    BY DEF CommittedIn
  <2>2. SizeIn(slices, 0) = 0
    BY <2>1, FS_EmptySet DEF SizeIn
  <2> QED BY <1>3, <1>5, <2>2 DEF InOrder
<1> QED BY <1>2, <1>4, <1>6, <1>7 DEF ExecutorInv

\* The output of the consensus only grows: what the executor has received
\* stays what it is.
LEMMA ConsensusStep ==
    ASSUME ConsensusInv, ExecutorInv, UNCHANGED executorVars, parents' = parents,
           \/ slices' = slices
           \/ \E e \in T!Slice : e.certificates # {} /\ slices' = Append(slices, e)
    PROVE  ExecutorInv'
<1>1. slices \in Seq(T!Slice) /\ Len(slices) \in Nat
  BY SlicesFacts
<1>2. /\ Len(slices') >= Len(slices) /\ Len(slices') \in Nat
      /\ \A i \in 1 .. Len(slices) : slices'[i] = slices[i]
      /\ \A i \in 1 .. Len(slices') : i \in 1 .. Len(slices) \/ slices'[i].certificates # {}
  BY <1>1
<1>3. /\ phase' = phase /\ index' = index /\ slice' = slice /\ todo' = todo /\ store' = store
      /\ auf' = auf /\ batches' = batches /\ ordered' = ordered /\ parents' = parents
  BY DEF executorVars
<1>4. index \in 0 .. Len(slices) /\ Released' = Released /\ Arrived' = Arrived
      /\ Released \in 0 .. Arrived /\ Arrived \in 0 .. index
  BY <1>1, <1>3 DEF ExecutorInv, HandedOver, Arrived, Released, X!IInv, X!IndexFresh
<1>5. \A k \in 0 .. index : CommittedIn(slices', k) = CommittedIn(slices, k)
  <2> TAKE k \in 0 .. index
  <2>1. \A i \in 1 .. k : slices'[i] = slices[i]
    BY <1>1, <1>2, <1>4
  <2> QED BY <2>1 DEF CommittedIn
<1>6. \A k \in 0 .. index : SizeIn(slices', k) = SizeIn(slices, k)
  BY <1>5 DEF SizeIn
<1>7. X!IInv'
  BY <1>3, X!StepIInv, AssumptionsX DEF executorVars, X!vars, ExecutorInv
<1>8. X!ParentsFirst' /\ X!SeenExact'
  BY <1>3 DEF ExecutorInv, X!ParentsFirst, X!SeenExact
<1>9. HandedOver'
  <2>1. CommittedIn(slices', index') = CommittedIn(slices, index)
    BY <1>1, <1>3, <1>4, <1>5
  <2>2. \A i \in DOMAIN batches : slices'[i] = slices[i]
    <3>1. DOMAIN batches = (Released + 1) .. Arrived
      BY DEF ExecutorInv, HandedOver
    <3>2. \A i \in (Released + 1) .. Arrived : i \in 1 .. Len(slices)
      BY <1>1, <1>4
    <3> QED BY <3>1, <3>2, <1>2
  <2>3. phase = "ingest" => slices'[index] = slices[index]
    <3>1. phase = "ingest" => index > 0
      BY DEF ExecutorInv, X!IInv, X!IndexFresh
    <3> QED BY <3>1, <1>1, <1>2, <1>4
  <2>4. \A i \in 1 .. Len(slices') : slices'[i].certificates # {}
    BY <1>2 DEF ExecutorInv, HandedOver
  <2>5. index \in 0 .. Len(slices')
    BY <1>1, <1>2, <1>4
  <2> QED BY <2>1, <2>2, <2>3, <2>4, <2>5, <1>3, <1>4 DEF ExecutorInv, HandedOver
<1>10. InOrder(slices', ordered', Released')
  <2>1. Len(ordered) = SizeIn(slices, Released)
        /\ SizeIn(slices', Released) = SizeIn(slices, Released)
    BY <1>1, <1>4, <1>6 DEF ExecutorInv, InOrder
  <2>2. ASSUME NEW k \in 1 .. Released
        PROVE  /\ SizeIn(slices', k - 1) = SizeIn(slices, k - 1)
               /\ SizeIn(slices', k) = SizeIn(slices, k)
               /\ slices'[k] = slices[k]
    <3>1. k \in 0 .. index /\ k - 1 \in 0 .. index /\ k \in 1 .. Len(slices)
      BY <1>1, <1>4
    <3> QED BY <3>1, <1>2, <1>6
  <2>3. \A k \in 1 .. Released :
            {ordered[i] : i \in (SizeIn(slices, k - 1) + 1) .. SizeIn(slices, k)}
               = slices[k].certificates
    BY DEF ExecutorInv, InOrder
  <2>4. \A k \in 1 .. Released :
            {ordered[i] : i \in (SizeIn(slices', k - 1) + 1) .. SizeIn(slices', k)}
               = slices'[k].certificates
    BY <2>2, <2>3, Zenon
  <2>5. InOrder(slices', ordered, Released)
    BY <2>1, <2>4, Zenon DEF InOrder
  <2> QED BY <2>5, <1>3, <1>4
<1> QED BY <1>3, <1>7, <1>8, <1>9, <1>10 DEF ExecutorInv

\* The executor receives the next slice. It holds no certificate that was
\* received before and no parent of one: this is what the executor requires
\* of the slices, and the consensus provides it.
LEMMA ReceiveStep ==
    ASSUME ConsensusInv, ExecutorInv, ReceiveSlice
    PROVE  ExecutorInv'
<1> DEFINE k == index + 1
           s == slices[k].certificates
<1>1. /\ index < Len(slices) /\ X!Take(s)
      /\ leaderRound' = round(slices[k].leader)
      /\ slices' = slices
  BY SameExecutor DEF ReceiveSlice, consensusVars
<1>2. /\ phase = "idle" /\ phase' = "ingest" /\ index' = k
      /\ slice' = s /\ todo' = s
      /\ parents' = parents /\ store' = store /\ batches' = batches /\ ordered' = ordered
  BY <1>1 DEF X!Take
<1>3. /\ Len(slices) \in Nat /\ index \in Nat /\ k \in 1 .. Len(slices) /\ k - 1 = index
      /\ store = CommittedIn(slices, index)
  BY <1>1, <1>2, SlicesFacts DEF ExecutorInv, HandedOver
<1>4. \A i \in 1 .. index : i \in 1 .. Len(slices) /\ i < k /\ i # k
  BY <1>1, <1>3
<1>5. /\ s \in SUBSET Certificate /\ s \subseteq DOMAIN parents
      /\ round(slices[k].leader) \in Round
  BY <1>3, SlicesFacts
<1>6. s \cap store = {}
  BY <1>3, <1>4, SlicesFacts DEF CommittedIn
<1>7. \A w \in store : parents[w] \cap s = {}
  <2> TAKE w \in store
  <2>1. PICK i \in 1 .. index : w \in slices[i].certificates
    BY <1>3 DEF CommittedIn
  <2> QED BY <2>1, <1>3, <1>4, SlicesFacts
<1>8. CommittedIn(slices, k) = store \cup s
  <2>1. \A i \in 1 .. k : i \in 1 .. index \/ i = k
    BY <1>3
  <2>2. \A i \in 1 .. index : i \in 1 .. k
    BY <1>3
  <2>3. k \in 1 .. k
    BY <1>3
  <2>4. \A v : v \in CommittedIn(slices, k) <=> \E i \in 1 .. k : v \in slices[i].certificates
    BY DEF CommittedIn
  <2>5. \A v : v \in store <=> \E i \in 1 .. index : v \in slices[i].certificates
    BY <1>3 DEF CommittedIn
  <2> HIDE DEF k
  <2> QED BY <2>1, <2>2, <2>3, <2>4, <2>5
<1> HIDE DEF s
<1>9. X!IInv'
  <2>1. s \in SUBSET (X!Certificate \ store) /\ leaderRound' \in X!Round
    BY <1>1, <1>5, <1>6, SameSets
  <2>2. X!ReceiveAny
    BY <1>1, <2>1 DEF X!ReceiveAny
  <2> QED BY <2>2, X!ReceiveIInv, AssumptionsX DEF ExecutorInv
<1>10. X!ParentsFirst' /\ X!SeenExact'
  <2>1. s \in SUBSET (DOMAIN parents \ store)
    BY <1>5, <1>6
  <2> QED BY <1>1, <1>7, <2>1, X!TakeSeen, AssumptionsX DEF ExecutorInv
<1>11. Released' = Released /\ Arrived' = Arrived
  <2>1. Released' = (index + 1) - Cardinality(DOMAIN batches) - 1
        /\ Released = index - Cardinality(DOMAIN batches) - 0
    BY <1>2 DEF Released
  <2>2. Arrived' = (index + 1) - 1 /\ Arrived = index - 0
    BY <1>2 DEF Arrived
  <2>3. Arrived' = Arrived
    BY <2>2, <1>3
  <2>4. Cardinality(DOMAIN batches) \in Nat
    <3>1. IsFiniteSet(DOMAIN batches)
      <4>1. DOMAIN batches = (Released + 1) .. Arrived /\ Released + 1 \in Int /\ Arrived \in Int
        BY <2>2, <1>3 DEF ExecutorInv, HandedOver
      <4> QED BY <4>1, FS_Interval
    <3> QED BY <3>1, FS_CardinalityType
  <2> QED BY <2>1, <2>3, <2>4, <1>3
<1>12. HandedOver'
  <2>1. store = CommittedIn(slices, k) \ s
    BY <1>6, <1>8
  <2> HIDE DEF k
  <2>2. k \in 0 .. Len(slices)
    BY <1>3
  <2> QED BY <1>1, <1>2, <1>11, <2>1, <2>2 DEF ExecutorInv, HandedOver, s
<1>13. InOrder(slices', ordered', Released')
  BY <1>1, <1>2, <1>11 DEF ExecutorInv
<1> QED BY <1>2, <1>9, <1>10, <1>12, <1>13 DEF ExecutorInv

\* The executor ingests a certificate of the slice.
LEMMA AddStep ==
    ASSUME ConsensusInv, ExecutorInv, UNCHANGED consensusVars,
           NEW v \in todo, X!AddCertificate(v)
    PROVE  ExecutorInv'
<1>1. /\ phase = "ingest" /\ phase' = phase /\ index' = index /\ slice' = slice
      /\ store' = store \cup {v} /\ todo' = todo \ {v}
      /\ batches' = batches /\ ordered' = ordered /\ slices' = slices
  BY DEF X!AddCertificate, consensusVars
<1>2. X!IInv'
  BY X!AddIInv, AssumptionsX DEF ExecutorInv
<1>3. X!ParentsFirst' /\ X!SeenExact'
  BY X!AddSeen, AssumptionsX DEF ExecutorInv
<1>4. v \in CommittedIn(slices, index)
  <2>1. index \in 1 .. index
    BY <1>1, SlicesFacts DEF ExecutorInv, HandedOver, X!IInv, X!IndexFresh
  <2>2. v \in slices[index].certificates
    BY <1>1 DEF ExecutorInv, HandedOver, X!IInv, X!TypeOK
  <2> QED BY <2>1, <2>2 DEF CommittedIn
<1>5. Released' = Released /\ Arrived' = Arrived
  BY <1>1 DEF Released, Arrived
<1>6. HandedOver'
  BY <1>1, <1>4, <1>5 DEF ExecutorInv, HandedOver
<1> QED BY <1>1, <1>2, <1>3, <1>5, <1>6 DEF ExecutorInv

\* The number of batches that wait.
LEMMA Waiting ==
    ASSUME ConsensusInv, ExecutorInv
    PROVE  /\ Len(slices) \in Nat /\ index \in Nat /\ index <= Len(slices)
           /\ Arrived \in Nat /\ Arrived <= index /\ Released \in Nat /\ Released <= Arrived
           /\ phase = "ingest" => index > 0 /\ Arrived = index - 1
           /\ phase # "ingest" => Arrived = index
           /\ Cardinality(DOMAIN batches) = Arrived - Released
<1>1. Len(slices) \in Nat
  BY SlicesFacts
<1>2. index \in Nat /\ index <= Len(slices)
  BY <1>1 DEF ExecutorInv, HandedOver
<1>3. phase = "ingest" => index > 0
  BY DEF ExecutorInv, X!IInv, X!IndexFresh
<1>4. Arrived \in Nat /\ Arrived <= index
      /\ (phase = "ingest" => Arrived = index - 1)
      /\ (phase # "ingest" => Arrived = index)
  BY <1>2, <1>3 DEF Arrived
<1>5. Released \in Nat /\ Released <= Arrived /\ DOMAIN batches = (Released + 1) .. Arrived
  BY <1>4 DEF ExecutorInv, HandedOver
<1>6. Cardinality(DOMAIN batches) = Arrived - Released
  <2>1. Cardinality((Released + 1) .. Arrived) =
           IF Released + 1 > Arrived THEN 0 ELSE Arrived - (Released + 1) + 1
    BY <1>4, <1>5, FS_Interval
  <2> QED BY <2>1, <1>4, <1>5
<1> QED BY <1>1, <1>2, <1>3, <1>4, <1>5, <1>6

\* The slice is ingested: it joins the batches, as the last of those.
LEMMA EndIngestStep ==
    ASSUME ConsensusInv, ExecutorInv, UNCHANGED consensusVars, X!EndIngest
    PROVE  ExecutorInv'
<1>1. /\ phase = "ingest" /\ phase' = "finalize" /\ todo = {} /\ todo' = todo
      /\ index' = index /\ slice' = slice /\ store' = store /\ parents' = parents
      /\ batches' = IF slice = {} THEN batches
                    ELSE [i \in DOMAIN batches \cup {index} |->
                            IF i = index THEN slice ELSE batches[i]]
      /\ ordered' = ordered /\ slices' = slices
  BY DEF X!EndIngest, consensusVars
<1>2. X!IInv' /\ X!ParentsFirst' /\ X!SeenExact'
  BY X!EndIngestIInv, X!OtherSeen, AssumptionsX DEF ExecutorInv
<1>3. /\ Len(slices) \in Nat /\ index \in Nat /\ index > 0 /\ index <= Len(slices)
      /\ Arrived = index - 1 /\ Released \in Nat /\ Released <= Arrived
      /\ Cardinality(DOMAIN batches) = Arrived - Released
  BY <1>1, Waiting
<1>4. slice = slices[index].certificates /\ slice # {}
  BY <1>1, <1>3 DEF ExecutorInv, HandedOver
<1>5. DOMAIN batches = (Released + 1) .. Arrived
  BY DEF ExecutorInv, HandedOver
<1>6. Arrived' = index
  BY <1>1, <1>3 DEF Arrived
<1>7. DOMAIN batches' = (Released + 1) .. index
  <2>1. DOMAIN batches' = DOMAIN batches \cup {index}
    BY <1>1, <1>4
  <2>2. (Released + 1) .. index = ((Released + 1) .. Arrived) \cup {index}
    BY <1>3
  <2> QED BY <2>1, <2>2, <1>5
<1>8. Released' = Released
  <2>1. Released' = index - Cardinality(DOMAIN batches') - 0
    BY <1>1 DEF Released
  <2>2. Cardinality((Released + 1) .. index) =
           IF Released + 1 > index THEN 0 ELSE index - (Released + 1) + 1
    BY <1>3, FS_Interval
  <2> QED BY <2>1, <2>2, <1>3, <1>7
<1>9. HandedOver'
  <2>1. \A i \in DOMAIN batches' : batches'[i] = slices[i].certificates
    <3>1. \A i \in DOMAIN batches' : batches'[i] = IF i = index THEN slice ELSE batches[i]
      BY <1>1, <1>4
    <3>2. \A i \in DOMAIN batches' : i = index \/ i \in DOMAIN batches
      BY <1>1, <1>4
    <3> QED BY <3>1, <3>2, <1>4 DEF ExecutorInv, HandedOver
  <2>2. Released \in 0 .. index
    BY <1>3
  <2> QED BY <1>1, <1>6, <1>7, <1>8, <2>1, <2>2 DEF ExecutorInv, HandedOver
<1> QED BY <1>1, <1>2, <1>8, <1>9 DEF ExecutorInv

\* The first of the waiting batches is sorted and sent: it is the slice
\* after those released, and the application receives all of it.
LEMMA ReleaseStep ==
    ASSUME ConsensusInv, ExecutorInv, UNCHANGED consensusVars, X!FinalizeBatch
    PROVE  ExecutorInv'
<1> DEFINE k == Released + 1
           members == batches[X!NextBatch]
           sorted == X!sort_batch(members)
<1>1. /\ phase = "finalize" /\ DOMAIN batches # {}
      /\ phase' = phase /\ todo' = todo /\ index' = index /\ store' = store
      /\ parents' = parents /\ slices' = slices
      /\ batches' = [i \in DOMAIN batches \ {X!NextBatch} |-> batches[i]]
      /\ ordered' = ordered \o sorted
  BY DEF X!FinalizeBatch, consensusVars
<1>2. X!IInv' /\ X!ParentsFirst' /\ X!SeenExact'
  BY X!FinalizeBatchIInv, X!OtherSeen, AssumptionsX DEF ExecutorInv
<1>3. /\ Len(slices) \in Nat /\ index \in Nat /\ index <= Len(slices)
      /\ Arrived = index /\ Released \in Nat /\ Released <= index
      /\ Cardinality(DOMAIN batches) = index - Released
      /\ DOMAIN batches = (Released + 1) .. index
  BY <1>1, Waiting DEF ExecutorInv, HandedOver
<1>4. /\ X!NextBatch \in DOMAIN batches
      /\ \A j \in DOMAIN batches : X!NextBatch <= j
      /\ members \in SUBSET X!Certificate
  BY <1>1, X!NextBatchFacts, AssumptionsX DEF ExecutorInv, X!IInv
<1>5. X!NextBatch = k /\ k \in 1 .. Len(slices) /\ k <= index
  BY <1>3, <1>4
<1>6. members = slices[k].certificates
  BY <1>4, <1>5 DEF ExecutorInv, HandedOver
<1>7. /\ sorted \in Seq(members) /\ Len(sorted) = Cardinality(members)
      /\ \A v \in members : \E i \in 1 .. Len(sorted) : sorted[i] = v
  <2>1. X!Lists(sorted, members)
    BY <1>4, X!SortBatchLists, AssumptionsX
  <2> HIDE DEF sorted, members
  <2> QED BY <2>1, SameSets DEF X!Lists
<1>8. Arrived' = index
  BY <1>1, <1>3 DEF Arrived
<1>9. Released' = k /\ DOMAIN batches' = (k + 1) .. index
  <2>1. DOMAIN batches' = (k + 1) .. index
    <3>1. DOMAIN batches' = DOMAIN batches \ {k}
      BY <1>1, <1>5
    <3>2. (k + 1) .. index = (k .. index) \ {k}
      BY <1>3, <1>5
    <3> QED BY <3>1, <3>2, <1>3
  <2>2. Released' = index - Cardinality(DOMAIN batches') - 0
    BY <1>1 DEF Released
  <2>3. Cardinality((k + 1) .. index) = IF k + 1 > index THEN 0 ELSE index - (k + 1) + 1
    BY <1>3, <1>5, FS_Interval
  <2> HIDE DEF k
  <2>4. k \in Nat
    BY <1>5
  <2> QED BY <2>1, <2>2, <2>3, <2>4, <1>3, <1>5
<1> HIDE DEF k, sorted, members
<1>10. HandedOver'
  <2>1. \A i \in DOMAIN batches' : batches'[i] = slices[i].certificates
    BY <1>1 DEF ExecutorInv, HandedOver
  <2>2. k \in 0 .. index
    BY <1>3, <1>5
  <2> QED BY <1>1, <1>8, <1>9, <2>1, <2>2 DEF ExecutorInv, HandedOver
<1>11. ordered \in Seq(Certificate) /\ Len(ordered) = SizeIn(slices, k - 1) /\ k - 1 = Released
  BY <1>3 DEF ExecutorInv, InOrder, k
<1>12. /\ SizeIn(slices, k - 1) \in Nat
       /\ SizeIn(slices, k) = SizeIn(slices, k - 1) + Len(sorted)
  BY <1>5, <1>6, <1>7, Sizes
<1>13. ordered' \in Seq(Certificate)
  BY <1>1, <1>4, <1>7, <1>11, SameSets
<1>14. /\ Len(sorted) \in Nat /\ Len(ordered') = SizeIn(slices, k)
       /\ \A i \in 1 .. Len(ordered) : ordered'[i] = ordered[i]
       /\ \A i \in 1 .. Len(sorted) : ordered'[Len(ordered) + i] = sorted[i]
  <2>1. sorted \in Seq(Certificate)
    BY <1>4, <1>7, SameSets
  <2>2. /\ Len(ordered \o sorted) = Len(ordered) + Len(sorted) /\ Len(sorted) \in Nat
        /\ \A i \in 1 .. Len(ordered) : (ordered \o sorted)[i] = ordered[i]
        /\ \A i \in 1 .. Len(sorted) : (ordered \o sorted)[Len(ordered) + i] = sorted[i]
    BY <2>1, <1>11, SMTT(30)
  <2>3. Len(ordered) + Len(sorted) = SizeIn(slices, k)
    BY <1>11, <1>12
  <2> QED BY <2>2, <2>3, <1>1
<1>15. {ordered'[i] : i \in (SizeIn(slices, k - 1) + 1) .. SizeIn(slices, k)} = members
  <2> DEFINE I == (Len(ordered) + 1) .. (Len(ordered) + Len(sorted))
  <2>1. (SizeIn(slices, k - 1) + 1) .. SizeIn(slices, k) = I
    BY <1>11, <1>12
  <2>2. Len(ordered) \in Nat /\ Len(sorted) \in Nat
    BY <1>11, <1>14
  <2>3. \A i \in I : ordered'[i] \in members
    <3> TAKE i \in I
    <3>1. i - Len(ordered) \in 1 .. Len(sorted) /\ Len(ordered) + (i - Len(ordered)) = i
      BY <2>2
    <3>2. ordered'[i] = sorted[i - Len(ordered)]
      BY <3>1, <1>14
    <3> QED BY <3>1, <3>2, <1>7
  <2>4. \A v \in members : \E i \in I : ordered'[i] = v
    <3> TAKE v \in members
    <3>1. PICK j \in 1 .. Len(sorted) : sorted[j] = v
      BY <1>7
    <3>2. Len(ordered) + j \in I
      BY <2>2
    <3> QED BY <3>1, <3>2, <1>14
  <2> HIDE DEF I
  <2> QED BY <2>1, <2>3, <2>4
<1>16. ASSUME NEW j \in 1 .. k
       PROVE  {ordered'[i] : i \in (SizeIn(slices, j - 1) + 1) .. SizeIn(slices, j)}
                 = slices[j].certificates
  <2>1. CASE j = k
    BY <2>1, <1>6, <1>15
  <2>2. CASE j # k
    <3>1. j \in 1 .. Released /\ j - 1 \in 0 .. Len(slices) /\ j \in 0 .. Len(slices)
          /\ Released \in 0 .. Len(slices) /\ j <= Released
      BY <2>2, <1>3, <1>5, <1>11
    <3>2. /\ SizeIn(slices, j - 1) \in Nat /\ SizeIn(slices, j) \in Nat
          /\ SizeIn(slices, j) <= Len(ordered)
      BY <3>1, <1>11, Sizes
    <3>3. \A i \in (SizeIn(slices, j - 1) + 1) .. SizeIn(slices, j) : ordered'[i] = ordered[i]
      BY <3>2, <1>11, <1>14
    <3>4. {ordered[i] : i \in (SizeIn(slices, j - 1) + 1) .. SizeIn(slices, j)}
             = slices[j].certificates
      BY <3>1 DEF ExecutorInv, InOrder
    <3> QED BY <3>3, <3>4
  <2> QED BY <2>1, <2>2
<1>17. InOrder(slices', ordered', Released')
  BY <1>1, <1>9, <1>14, <1>16 DEF InOrder
<1> QED BY <1>2, <1>10, <1>13, <1>17 DEF ExecutorInv

\* The first of the waiting batches is not ready: nothing is released.
LEMMA DoneStep ==
    ASSUME ConsensusInv, ExecutorInv, UNCHANGED consensusVars, X!FinalizeDone
    PROVE  ExecutorInv'
<1>1. /\ phase = "finalize" /\ phase' = "idle" /\ index' = index /\ todo' = todo
      /\ store' = store /\ batches' = batches /\ ordered' = ordered /\ slices' = slices
  BY DEF X!FinalizeDone, consensusVars
<1>2. X!IInv' /\ X!ParentsFirst' /\ X!SeenExact'
  BY X!FinalizeDoneIInv, X!OtherSeen, AssumptionsX DEF ExecutorInv
<1>3. Released' = Released /\ Arrived' = Arrived
  BY <1>1 DEF Released, Arrived
<1>4. HandedOver'
  BY <1>1, <1>3 DEF ExecutorInv, HandedOver
<1> QED BY <1>1, <1>2, <1>3, <1>4 DEF ExecutorInv

-----------------------------------------------------------------------------
(***************************************************************************)
(* The theorems.                                                           *)
(***************************************************************************)

\* A step of either task keeps what joins them.
LEMMA PipelineStep ==
    ASSUME ConsensusInv, ExecutorInv, [Next]_vars
    PROVE  ExecutorInv'
<1> USE SameConsensus, SameExecutor
<1>1. ASSUME NEW v \in DOMAIN parents, Certify(v)
      PROVE  ExecutorInv'
  <2>1. T!Next /\ UNCHANGED executorVars
    BY <1>1 DEF Certify, T!Next
  <2>2. parents' = parents
    BY <1>1 DEF Certify, T!Deliver, T!Process
  <2> QED BY <2>1, <2>2, T!OutputGrows, AssumptionsT, ConsensusStep DEF ConsensusInv
<1>2. CASE SendSlice
  <2>1. T!Next /\ UNCHANGED executorVars
    BY <1>2 DEF SendSlice, T!Next
  <2>2. parents' = parents
    BY <1>2 DEF SendSlice, T!CommitLeader
  <2> QED BY <2>1, <2>2, T!OutputGrows, AssumptionsT, ConsensusStep DEF ConsensusInv
<1>3. CASE ReceiveSlice
  BY <1>3, ReceiveStep
<1>4. CASE ExecutorStep
  <2>1. UNCHANGED consensusVars
    BY <1>4 DEF ExecutorStep
  <2>2. ASSUME NEW v \in todo, X!AddCertificate(v)
        PROVE  ExecutorInv'
    BY <2>1, <2>2, AddStep
  <2>3. CASE X!EndIngest
    BY <2>1, <2>3, EndIngestStep
  <2>4. CASE X!FinalizeBatch
    BY <2>1, <2>4, ReleaseStep
  <2>5. CASE X!FinalizeDone
    BY <2>1, <2>5, DoneStep
  <2> QED BY <1>4, <2>2, <2>3, <2>4, <2>5 DEF ExecutorStep
<1>5. CASE UNCHANGED vars
  <2>1. UNCHANGED executorVars /\ parents' = parents /\ slices' = slices
    BY <1>5 DEF vars, consensusVars
  <2> QED BY <2>1, ConsensusStep
<1> QED BY <1>1, <1>2, <1>3, <1>4, <1>5 DEF Next

\* The inductive invariant of the pipeline: those of the two tasks, and that
\* the executor has exactly the first slices of the consensus.
THEOREM PipelineInvariant == Spec => [](ConsensusInv /\ ExecutorInv)
<1>1. Init => ExecutorInv
  BY InitExecutor
<1>2. ConsensusInv /\ ExecutorInv /\ [Next]_vars => ExecutorInv'
  BY PipelineStep
<1> QED BY <1>1, <1>2, ConsensusInvariant, PTL DEF Spec

\* End to end, from State::order_dag to tx_output of the executor: the
\* application receives the slices in the order of the commits, each one
\* whole and contiguous, none twice and none skipped.
THEOREM DeliversWholeSlices == Spec => []WholeSlicesInOrder
<1>1. ExecutorInv => WholeSlicesInOrder
  BY WholeIsInOrder DEF ExecutorInv
<1> QED BY <1>1, PipelineInvariant, PTL

\* add_certificate's walk misses no certificate of the store, although the
\* slices of the consensus may lack a part of the history of their leader:
\* what is missing is never committed later.
THEOREM EvidenceStaysExact == Spec => []EvidenceExact
<1>1. ExecutorInv => EvidenceExact
  BY SameExecutor DEF ExecutorInv, EvidenceExact
<1> QED BY <1>1, PipelineInvariant, PTL

\* The properties of the executor that the theorems below are about.
LEMMA SameProperties ==
    /\ Executor!ActiveExact = X!ActiveExact
    /\ Executor!HorizonIsFinal = X!HorizonIsFinal
    /\ Executor!RobustVerdicts = X!RobustVerdicts
<1>1. Executor!ActiveExact = X!ActiveExact
  BY DEF Executor!ActiveExact, X!ActiveExact
<1>2. Executor!HorizonIsFinal = X!HorizonIsFinal
  BY DEF Executor!HorizonIsFinal, X!HorizonIsFinal, Executor!Ancestry, X!Ancestry,
         Executor!Layers, X!Layers, Executor!round, X!round
<1>3. Executor!RobustVerdicts = X!RobustVerdicts
  BY DEF Executor!RobustVerdicts, X!RobustVerdicts, Executor!Ancestry, X!Ancestry,
         Executor!Layers, X!Layers, Executor!round, X!round, Executor!CutOff, X!CutOff,
         Executor!Better, X!Better, Executor!seen_count_at, X!seen_count_at,
         Executor!delta_threshold, X!delta_threshold, Executor!f, X!f,
         Executor!AtRound, X!AtRound, Executor!Max, X!Max, Executor!Min, X!Min,
         Executor!Cardinality, X!Cardinality
<1> QED BY <1>1, <1>2, <1>3

\* No batch waits for a certificate that the release of another one removed.
THEOREM WaitingStayActive == Spec => []WaitingAreActive
<1>1. ExecutorInv => WaitingAreActive
  BY SameProperties DEF ExecutorInv, WaitingAreActive, X!IInv
<1> QED BY <1>1, PipelineInvariant, PTL

\* Where f+1 authors have the stake of the validity threshold, a mature
\* certificate is in the history of every certificate past its horizon, of
\* the whole DAG, although the slices lack a part of it.
THEOREM HorizonsStayFinal ==
    ASSUME X!CountsCarryStake
    PROVE  Spec => []HorizonsFinal
<1>1. ExecutorInv => HorizonsFinal
  <2> SUFFICES ASSUME ExecutorInv PROVE X!HorizonIsFinal
    BY SameProperties DEF HorizonsFinal
  <2>1. X!IInv /\ X!SeenInv
    BY DEF ExecutorInv, X!SeenInv
  <2> QED BY <2>1, X!MatureIsFinal, AssumptionsX
<1> QED BY <1>1, PipelineInvariant, PTL

\* The same of the verdicts, on the slices that the consensus outputs.
THEOREM VerdictsStayRobust ==
    ASSUME X!CountsCarryStake
    PROVE  Spec => []VerdictsRobust
<1>1. ExecutorInv => VerdictsRobust
  <2> SUFFICES ASSUME ExecutorInv PROVE X!RobustVerdicts
    BY SameProperties DEF VerdictsRobust
  <2>1. X!IInv /\ X!SeenInv
    BY DEF ExecutorInv, X!SeenInv
  <2> QED BY <2>1, X!VerdictsHold, AssumptionsX
<1> QED BY <1>1, PipelineInvariant, PTL
=============================================================================
