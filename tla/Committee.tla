----------------------------- MODULE Committee -----------------------------
(***************************************************************************)
(* The committee of config/src/lib.rs: the authorities, their stake and    *)
(* the two stake thresholds every protocol decision is taken against.      *)
(*                                                                         *)
(* An authority is its rank in the sorted list of public keys, which is    *)
(* what the leader election indexes and what the tie-breaks compare.       *)
(***************************************************************************)
EXTENDS Integers, FiniteSets, FiniteSetsExt

CONSTANTS N,      \* number of authorities (Committee::size)
          Stake   \* Stake[a] is the voting power of authority a

Authority == 0 .. (N - 1)

ASSUME NAssumption == N \in Nat \ {0}

ASSUME StakeAssumption == Stake \in [Authority -> Nat]

-----------------------------------------------------------------------------

\* The stake of a set of authorities.
StakeOf(S) == MapThenSumSet(LAMBDA a : Stake[a], S)

TotalStake == StakeOf(Authority)

\* Stake is a u32 and the thresholds are computed in u32: twice the total
\* stake must not overflow (2^30 because TLC's own integers are 32 bits wide).
ASSUME StakeFits == TotalStake \in 1 .. (2^30 - 1)

\* The threshold as a function of the total stake of the committee.
QuorumOf(total) == (2 * total) \div 3 + 1

ValidityOf(total) == (total + 2) \div 3

quorum_threshold == QuorumOf(TotalStake)

validity_threshold == ValidityOf(TotalStake)
=============================================================================
