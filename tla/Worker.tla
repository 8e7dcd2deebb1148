------------------------------- MODULE Worker -------------------------------
(***************************************************************************)
(* One worker and the peers that share its id: transactions of clients are *)
(* gathered into batches (BatchMaker), broadcast with the reliable sender, *)
(* held until a quorum has acknowledged them (QuorumWaiter), stored        *)
(* (Processor) and announced to the primary (PrimaryConnector). The tasks  *)
(* are joined by bounded channels.                                         *)
(*                                                                         *)
(* The k-th transaction is the number k, and batch b, the b-th one sealed, *)
(* is message b of the reliable sender. Every transaction has one size.    *)
(***************************************************************************)
EXTENDS ReliableSender, Committee

CONSTANTS Me,          \* this authority
          BatchSize,   \* batch_size, in transactions
          MaxTxs,      \* bound on the transactions
          TaskCap      \* CHANNEL_CAPACITY of the channels between the tasks

ASSUME WorkerAssumption ==
    /\ Me \in Authority
    /\ Peer = Authority \ {Me}
    /\ BatchSize \in Nat \ {0}
    /\ MaxTxs \in Nat /\ MaxTxs <= MaxMessages
    /\ TaskCap \in Nat \ {0}

Batch == 1 .. MaxTxs

VARIABLES taken,         \* the number of transactions the BatchMaker has taken
          currentBatch,  \* current_batch
          batches,       \* the contents of the sealed batches
          unsent,        \* seal: the peers the last batch was not sent to yet
          sealing,       \* seal is running
          rxMessage,     \* rx_message of the QuorumWaiter
          waiting,       \* the batch the QuorumWaiter is at, and whom it counted
          rxBatch,       \* rx_batch of the Processor
          store,         \* the batches in our store
          rxDigest,      \* rx_digest of the PrimaryConnector
          digests,       \* the batches announced to our primary
          stored         \* stored[p]: what the store of a peer that answers has

makerVars == <<taken, currentBatch, batches, unsent, sealing>>

waiterVars == <<rxMessage, waiting>>

processorVars == <<rxBatch, store, rxDigest, digests>>

workerVars == <<makerVars, waiterVars, processorVars, stored>>

vars == <<senderVars, workerVars>>

NoBatch == [batch |-> 0, counted |-> {}]

TypeOK ==
    /\ SenderTypeOK
    /\ taken \in 0 .. MaxTxs
    /\ currentBatch \in Seq(1 .. MaxTxs) /\ Len(currentBatch) < BatchSize
    /\ batches \in Seq(Seq(1 .. MaxTxs))
    /\ unsent \subseteq Peer /\ sealing \in BOOLEAN
    /\ waiting.batch \in 0 .. Len(batches) /\ waiting.counted \subseteq Peer
    /\ \A q \in {rxMessage, rxBatch, rxDigest} :
          q \in Seq(Batch) /\ Len(q) <= TaskCap
    /\ digests \subseteq store /\ store \subseteq Batch
    /\ stored \in [Peer \ Silent -> SUBSET Batch]

Init ==
    /\ SenderInit
    /\ taken = 0
    /\ currentBatch = <<>>
    /\ batches = <<>>
    /\ unsent = {}
    /\ sealing = FALSE
    /\ rxMessage = <<>>
    /\ waiting = NoBatch
    /\ rxBatch = <<>>
    /\ store = {}
    /\ rxDigest = <<>>
    /\ digests = {}
    /\ stored = [p \in Peer \ Silent |-> {}]

-----------------------------------------------------------------------------
(***************************************************************************)
(* The BatchMaker. While it seals a batch it takes no transaction.         *)
(***************************************************************************)

\* Mutant of Seal: current_batch is not drained.
SealUndrained(batch) ==
    /\ batches' = Append(batches, batch)
    /\ currentBatch' = batch
    /\ unsent' = Peer
    /\ sealing' = TRUE

\* seal drains current_batch and begins the broadcast.
Seal(batch) ==
    /\ batches' = Append(batches, batch)
    /\ currentBatch' = <<>>
    /\ unsent' = Peer
    /\ sealing' = TRUE

TakeTransaction ==
    /\ ~ sealing
    /\ taken < MaxTxs
    /\ taken' = taken + 1
    /\ LET batch == Append(currentBatch, taken + 1)
       IN IF Len(batch) >= BatchSize THEN Seal(batch)
          ELSE currentBatch' = batch /\ UNCHANGED <<batches, unsent, sealing>>
    /\ UNCHANGED <<senderVars, waiterVars, processorVars, stored>>

\* The timer of max_batch_delay expires.
SealOnTimer ==
    /\ ~ sealing
    /\ currentBatch # <<>>
    /\ Seal(currentBatch)
    /\ UNCHANGED <<taken, senderVars, waiterVars, processorVars, stored>>

\* The broadcast sends to one peer after the other, by rank.
Broadcast ==
    /\ sealing
    /\ unsent # {}
    /\ LET p == Min(unsent)
       IN /\ Send(p, Len(batches))
          /\ unsent' = unsent \ {p}
    /\ UNCHANGED <<taken, currentBatch, batches, sealing, waiterVars, processorVars,
                   stored>>

\* The batch and its cancel handlers go to the QuorumWaiter.
DeliverBatch ==
    /\ sealing
    /\ unsent = {}
    /\ Len(rxMessage) < TaskCap
    /\ rxMessage' = Append(rxMessage, Len(batches))
    /\ sealing' = FALSE
    /\ UNCHANGED <<taken, currentBatch, batches, unsent, waiting, senderVars,
                   processorVars, stored>>

-----------------------------------------------------------------------------
(***************************************************************************)
(* The QuorumWaiter, which waits for one batch after the other.            *)
(***************************************************************************)

StartWaiting ==
    /\ waiting.batch = 0
    /\ rxMessage # <<>>
    /\ waiting' = [batch |-> Head(rxMessage), counted |-> {}]
    /\ rxMessage' = Tail(rxMessage)
    /\ UNCHANGED <<senderVars, makerVars, processorVars, stored>>

\* Mutant of EnoughAcks: the acknowledgements are counted, not their stake.
EnoughAcksByCount(counted) == Cardinality(counted) >= 1

\* total_stake starts with our own stake.
EnoughAcks(counted) == Stake[Me] + StakeOf(counted) >= quorum_threshold

\* One more handler resolves. With a quorum the batch goes to the Processor
\* and the handlers that still wait are dropped.
CountAck(p) ==
    LET b == waiting.batch
        counted == waiting.counted \cup {p}
    IN /\ b # 0
       /\ p \notin waiting.counted
       /\ handler[p][b] = "acked"
       /\ IF EnoughAcks(counted)
          THEN /\ Len(rxBatch) < TaskCap
               /\ rxBatch' = Append(rxBatch, b)
               /\ waiting' = NoBatch
               /\ Cancel(Peer \X {b})
          ELSE /\ waiting' = [waiting EXCEPT !.counted = counted]
               /\ UNCHANGED <<rxBatch, senderVars>>
       /\ UNCHANGED <<rxMessage, makerVars, store, rxDigest, digests, stored>>

-----------------------------------------------------------------------------
(***************************************************************************)
(* The Processor, the PrimaryConnector, and the Processors of the peers.   *)
(***************************************************************************)

StoreBatch ==
    /\ rxBatch # <<>>
    /\ Len(rxDigest) < TaskCap
    /\ store' = store \cup {Head(rxBatch)}
    /\ rxDigest' = Append(rxDigest, Head(rxBatch))
    /\ rxBatch' = Tail(rxBatch)
    /\ UNCHANGED <<digests, senderVars, makerVars, waiterVars, stored>>

\* The digest is sent to our primary (by a SimpleSender, which may lose it).
AnnounceDigest ==
    /\ rxDigest # <<>>
    /\ digests' = digests \cup {Head(rxDigest)}
    /\ rxDigest' = Tail(rxDigest)
    /\ UNCHANGED <<rxBatch, store, senderVars, makerVars, waiterVars, stored>>

\* WorkerReceiverHandler acknowledges a batch before it is stored.
StoreOthersBatch(p, b) ==
    /\ b \in received[p] \ stored[p]
    /\ stored' = [stored EXCEPT ![p] = @ \cup {b}]
    /\ UNCHANGED <<senderVars, makerVars, waiterVars, processorVars>>

\* The tasks of this worker.
OwnStep ==
    \/ Broadcast
    \/ DeliverBatch
    \/ StartWaiting
    \/ \E p \in Peer : CountAck(p)
    \/ StoreBatch
    \/ AnnounceDigest

Next ==
    \/ TakeTransaction
    \/ SealOnTimer
    \/ OwnStep
    \/ NetworkStep /\ UNCHANGED workerVars
    \/ \E p \in Peer \ Silent, b \in Batch : StoreOthersBatch(p, b)

Spec == Init /\ [][Next]_vars

ConnectionStep(p) == TaskStep(p) /\ UNCHANGED workerVars

\* A peer that is not silent accepts connections, reads them and stores what
\* it got. Nothing is asked of the silent ones.
PeerStep(p) ==
    \/ Connect(p) /\ UNCHANGED workerVars
    \/ ReceiveLive(p) /\ UNCHANGED workerVars
    \/ \E b \in Batch : StoreOthersBatch(p, b)

\* The timer fires, and every task runs when it can.
FairSpec ==
    /\ Spec
    /\ WF_vars(SealOnTimer)
    /\ WF_vars(OwnStep)
    /\ \A p \in Peer : WF_vars(ConnectionStep(p))
    /\ \A p \in Peer \ Silent : WF_vars(PeerStep(p))

-----------------------------------------------------------------------------

\* Our primary learns of a batch only when authorities with a quorum of the
\* stake, this one included, have got it.
QuorumHasIt ==
    \A b \in digests :
        StakeOf({Me} \cup {p \in Peer : b \in received[p]}) >= quorum_threshold

\* The peers acknowledge before they store, and a silent one may not store at
\* all; still, enough authorities that do not fail store every batch that is
\* announced for one of them to be in any quorum that votes for it.
StaysAvailable ==
    []<>(\A b \in digests :
            StakeOf({Me} \cup {p \in Peer \ Silent : b \in stored[p]}) >= validity_threshold)

\* Every transaction that the BatchMaker takes gets into a batch whose digest
\* is announced, although batches wait for one another, the channels are
\* bounded and f authorities do not answer ("wait for the first 2f nodes to
\* send back an Ack").
TransactionsAnnounced ==
    []<>(\A k \in 1 .. taken : \E b \in digests : \E i \in DOMAIN batches[b] : batches[b][i] = k)
=============================================================================
