---------------------------- MODULE MCBatchSync ----------------------------
(***************************************************************************)
(* A batch that one of two peers has; the other one does not answer.       *)
(***************************************************************************)
EXTENDS BatchSync

CONSTANTS d1, p1, p2

MCDigest == {d1}

MCPeer == {p1, p2}

MCReader == {"synchronizer"}

MCWaiter == 1 .. MaxRequests

MCHolders == [d \in MCDigest |-> {p2}]
=============================================================================
