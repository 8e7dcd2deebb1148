---------------------------- MODULE TwoReplicas ----------------------------
(***************************************************************************)
(* Two correct replicas run the consensus task (Tusk) on the same DAG.     *)
(* Each receives the certificates in an order of its own, subject only to  *)
(* causality, so they differ in what they hold when they decide.           *)
(***************************************************************************)
EXTENDS Dag, Sequences

CONSTANTS GcDepth, Dags

ASSUME GcDepthAssumption == GcDepth \in Nat

ASSUME DagsAssumption == \A p \in Dags : WellFormed(p)

VARIABLES parents,
          deliveredA, dagA, lastCommittedA, lastCommittedRoundA, toCommitA,
          panickedA, outputA,
          deliveredB, dagB, lastCommittedB, lastCommittedRoundB, toCommitB,
          panickedB, outputB

varsA == <<deliveredA, dagA, lastCommittedA, lastCommittedRoundA, toCommitA,
           panickedA, outputA>>

varsB == <<deliveredB, dagB, lastCommittedB, lastCommittedRoundB, toCommitB,
           panickedB, outputB>>

vars == <<parents, varsA, varsB>>

A == INSTANCE Tusk WITH delivered <- deliveredA, dag <- dagA,
        lastCommitted <- lastCommittedA,
        lastCommittedRound <- lastCommittedRoundA,
        toCommit <- toCommitA, panicked <- panickedA, output <- outputA

B == INSTANCE Tusk WITH delivered <- deliveredB, dag <- dagB,
        lastCommitted <- lastCommittedB,
        lastCommittedRound <- lastCommittedRoundB,
        toCommit <- toCommitB, panicked <- panickedB, output <- outputB

Init == A!Init /\ B!Init

StepA == A!Next /\ UNCHANGED varsB

StepB == B!Next /\ UNCHANGED varsA

Next == StepA \/ StepB

Spec == Init /\ [][Next]_vars

-----------------------------------------------------------------------------

Leaders(out) == [i \in 1 .. Len(out) |-> out[i].leader]

\* The leaders the replicas commit form one ledger: neither replica ever
\* commits a leader out of turn, and they commit the same ones in the same
\* order, although each may commit a leader directly or only through a
\* later one (order_leaders).
LeaderLog ==
    INSTANCE Ledger WITH Replica <- {"A", "B"}, Entry <- Certificate,
        log <- [r \in {"A", "B"} |-> IF r = "A" THEN Leaders(outputA)
                                     ELSE Leaders(outputB)]

OneLedger == LeaderLog!LogSpec

\* The replicas hand the same slices to the execution layer: what the
\* README calls the ordered sub-DAG of a committed leader.
SameSlices ==
    \A i \in 1 .. Len(outputA) :
        i <= Len(outputB) => outputA[i] = outputB[i]
=============================================================================
