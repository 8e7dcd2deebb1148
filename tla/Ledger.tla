------------------------------- MODULE Ledger -------------------------------
(***************************************************************************)
(* What the replicas of the consensus promise: each one keeps a log that   *)
(* only grows, and no two logs disagree on an entry.                       *)
(***************************************************************************)
EXTENDS Integers, Sequences

CONSTANTS Replica, Entry

VARIABLE log

LogInit == log = [r \in Replica |-> <<>>]

\* Replica r decides its next entry: any entry, or the one that a replica
\* that is ahead has already decided for this position.
Decide(r, e) ==
    /\ \A s \in Replica : Len(log[s]) > Len(log[r]) => log[s][Len(log[r]) + 1] = e
    /\ log' = [log EXCEPT ![r] = Append(@, e)]

LogNext == \E r \in Replica, e \in Entry : Decide(r, e)

LogSpec == LogInit /\ [][LogNext]_log
=============================================================================
