------------------------------ MODULE MCWorker ------------------------------
(***************************************************************************)
(* Three authorities with 1, 1 and 2 votes, so that this one is a quorum   *)
(* with authority 2 and not with authority 1.                              *)
(***************************************************************************)
EXTENDS Worker

MCStake == <<1, 1, 2>>

StakeByRank == [a \in 0 .. 2 |-> MCStake[a + 1]]

MCPeer == {1, 2}

MCSilent == {1}

\* The connection to authority 2 breaks up to twice; authority 1 need not even
\* accept the one that it is offered.
MCConnections == [p \in MCPeer |-> IF p \in MCSilent THEN 1 ELSE 3]

\* No connection breaks.
OneConnection == [p \in MCPeer |-> 1]
=============================================================================
