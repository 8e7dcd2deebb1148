------------------------------ MODULE Pipeline ------------------------------
(***************************************************************************)
(* The ordering pipeline that node/src/main.rs wires: the primary sends    *)
(* certificates to the consensus (Tusk), which sends its slices through a  *)
(* bounded channel to the MRV executor, which sends certificates to the    *)
(* application. The two tasks run concurrently.                            *)
(*                                                                         *)
(* The channel holds the slices that the consensus has output and the      *)
(* executor has not received, so it needs no variable: batch_index is the  *)
(* position of a slice in the output of the consensus.                     *)
(***************************************************************************)
EXTENDS Dag, Sequences

CONSTANTS GcDepth,     \* gc_depth, which is also the window cap of MRV
          Dags,
          ChannelCap   \* CHANNEL_CAPACITY of the channel of slices

ASSUME GcDepthAssumption == GcDepth \in Nat

ASSUME DagsAssumption == \A p \in Dags : WellFormed(p)

ASSUME ChannelCapAssumption == ChannelCap \in Nat \ {0}

VARIABLES parents,
          delivered, dag, lastCommitted, lastCommittedRound, toCommit,
          panicked, slices,
          phase, index, leaderRound, slice, todo, store, auf, batches, floor,
          frontier, ordered

consensusVars == <<delivered, dag, lastCommitted, lastCommittedRound, toCommit,
                   panicked, slices>>

executorVars == <<phase, index, leaderRound, slice, todo, store, auf, batches,
                  floor, frontier, ordered>>

vars == <<parents, consensusVars, executorVars>>

Consensus == INSTANCE Tusk WITH output <- slices

\* MrvExecutor::spawn raises a window cap of 0 to 1.
Executor == INSTANCE MrvExecutor WITH output <- ordered,
                WindowCap <- IF GcDepth = 0 THEN 1 ELSE GcDepth

Init == Consensus!Init /\ Executor!Init

\* The consensus takes a certificate from the primary.
Certify(v) ==
    /\ Consensus!Deliver(v)
    /\ UNCHANGED executorVars

\* Mutant of SendSlice: the channel is full one slice early.
SendSliceEarly ==
    /\ Len(slices) - index < ChannelCap - 1
    /\ Consensus!CommitLeader
    /\ UNCHANGED executorVars

\* The consensus sends a slice; it waits while the channel is full.
SendSlice ==
    /\ Len(slices) - index < ChannelCap
    /\ Consensus!CommitLeader
    /\ UNCHANGED executorVars

\* The executor receives the oldest slice of the channel.
ReceiveSlice ==
    /\ index < Len(slices)
    /\ Executor!Take(slices[index + 1].certificates)
    /\ leaderRound' = round(slices[index + 1].leader)
    /\ UNCHANGED consensusVars

ExecutorStep ==
    /\ \/ \E v \in todo : Executor!AddCertificate(v)
       \/ Executor!EndIngest
       \/ Executor!FinalizeBatch
       \/ Executor!FinalizeDone
    /\ UNCHANGED consensusVars

Next ==
    \/ \E v \in DOMAIN parents : Certify(v)
    \/ SendSlice
    \/ ReceiveSlice
    \/ ExecutorStep

Spec == Init /\ [][Next]_vars

\* Both tasks are scheduled, and every certificate reaches the consensus.
FairSpec ==
    /\ Spec
    /\ WF_vars(\E v \in DOMAIN parents : Certify(v))
    /\ WF_vars(SendSlice)
    /\ WF_vars(ReceiveSlice)
    /\ WF_vars(ExecutorStep)

-----------------------------------------------------------------------------

\* The number of slices released so far.
Released == index - Cardinality(DOMAIN batches) - (IF phase = "ingest" THEN 1 ELSE 0)

SizeOf(k) == Cardinality(UNION {slices[i].certificates : i \in 1 .. k})

\* End to end: what the application has received is the first slices of the
\* consensus, in order, each one whole and contiguous.
WholeSlicesInOrder ==
    /\ Len(ordered) = SizeOf(Released)
    /\ \A k \in 1 .. Released :
          {ordered[i] : i \in (SizeOf(k - 1) + 1) .. SizeOf(k)} = slices[k].certificates

\* The evidence is exact although the slices the consensus really outputs
\* may lack a part of the history of their leader (State::update).
EvidenceExact == Executor!SeenExact

\* What the executor is told of the consensus when it is studied alone: a
\* slice is what is left of the history of the next leader, and lacks only
\* what State::update may have removed by the slices before.
SlicesAsExpected ==
    [][ReceiveSlice => Executor!Receive(slices[index + 1].leader)]_vars

\* Every certificate that the consensus outputs waits in one batch at a time
\* and stays active while it waits: release_batch of one batch never removes
\* what another one needs for its batch_horizon.
WaitingAreActive == Executor!ActiveExact

\* Maturity is final on the slices of the consensus too: whatever
\* State::update has dropped from them, every certificate of the DAG past
\* the horizon of a mature AUF has it in its history.
HorizonsFinal == Executor!HorizonIsFinal

\* Where nothing is cut off, a verdict holds in the whole DAG.
VerdictsRobust == Executor!RobustVerdicts

\* The bounded channel cannot block the pipeline: the executor comes to rest
\* with all slices taken, and the consensus with all certificates.
Drains == <>[](/\ delivered = DOMAIN parents
               /\ toCommit = {}
               /\ index = Len(slices)
               /\ phase = "idle")
=============================================================================
