------------------------------ MODULE Primary ------------------------------
(***************************************************************************)
(* One primary: the Core task of primary/src/core.rs with its aggregators  *)
(* and its Synchronizer, the waiters it suspends headers and certificates  *)
(* in, the Proposer and the GarbageCollector. The other authorities, the   *)
(* workers and the consensus are its environment: their messages arrive in *)
(* any order, late, or again.                                              *)
(*                                                                         *)
(* A header is named by its author, its round and a tag that tells apart   *)
(* the headers a faulty author signs for one round; the name stands for    *)
(* the digest, and the certificate of a header goes by the same name.      *)
(* One message is handled to the end before the next one is taken, so each *)
(* handler of Core::run is one action, the cleanup at its end included.    *)
(***************************************************************************)
EXTENDS Committee, Sequences

CONSTANTS Me,          \* this authority
          MaxRound,    \* bound on the rounds
          GcDepth,     \* gc_depth
          LastProposal,\* bound on the rounds we propose in
          Others,      \* the headers of the other authorities
          Links,       \* Links[h]: the parents of such a header
          Announced,   \* those that reach us as headers (the rest in certificates)
          Loaded,      \* those that carry batches
          Certified,   \* those that get a certificate
          CommitDepth  \* how far the consensus is behind the certificates

Round == 0 .. MaxRound

author(h) == h[1]

round(h) == h[2]

Genesis == {<<a, 0, 0>> : a \in Authority}

Own == {<<Me, r, 0>> : r \in 1 .. MaxRound}

\* Header::default, the value of current_header before the first proposal.
NoHeader == <<Me, 0, 0>>

Header == Others \cup Own

\* Headers that can be verified and what is known of their certificates: a
\* quorum voted, and every honest voter has made the checks of CheckedParents.
ASSUME PrimaryAssumption ==
    /\ Me \in Authority
    /\ MaxRound \in Nat \ {0}
    /\ GcDepth \in Nat
    /\ CommitDepth \in Nat
    /\ Others \subseteq (Authority \ {Me}) \X (1 .. MaxRound) \X Nat
    /\ Links \in [Others -> SUBSET (Others \cup Genesis)]
    /\ LastProposal \in Round
    /\ Announced \subseteq Others
    /\ Loaded \subseteq Others
    /\ Certified \subseteq Others
    /\ \A c \in Certified :
          /\ Links[c] \subseteq Certified \cup Genesis
          /\ \A p \in Links[c] : round(p) + 1 = round(c)
          /\ StakeOf({author(p) : p \in Links[c]}) >= quorum_threshold

VARIABLES store,          \* the certificates stored and sent to the consensus
          payload,        \* the headers whose batches our workers have
          lastVoted,      \* last_voted, as pairs of author and round
          processing,     \* processing
          current,        \* current_header
          tally,          \* votes_aggregator
          gathered,       \* certificates_aggregators
          gcRound,        \* gc_round
          consensusRound, \* consensus_round, written by the GarbageCollector
          pending,        \* HeaderWaiter: what each suspended header waits for
          suspended,      \* CertificateWaiter: the suspended certificates
          headerLoop,     \* on the way back from the HeaderWaiter
          certificateLoop,\* on the way back from the CertificateWaiter
          proposer,       \* the state of the Proposer
          parentsLoop,    \* tx_proposer: quorums of parents
          proposals,      \* rx_proposer: headers to broadcast
          ownParents,     \* the parents of our own headers
          votes,          \* the headers we voted for
          ballots,        \* the votes of the others that were counted
          panicked        \* an `expect' fired: the task is gone

coreVars == <<store, lastVoted, processing, gathered, gcRound, parentsLoop, votes,
              panicked>>

waiterVars == <<pending, suspended, headerLoop, certificateLoop>>

proposerVars == <<proposer, proposals, ownParents>>

tallyVars == <<current, tally, ballots>>

envVars == <<payload, consensusRound>>

vars == <<coreVars, waiterVars, proposerVars, tallyVars, envVars>>

EmptyTally == [used |-> {}, weight |-> 0]

EmptyQuorum == [used |-> {}, certificates |-> {}]

TypeOK ==
    /\ store \subseteq Certified \cup Own
    /\ payload \subseteq Loaded
    /\ lastVoted \subseteq Authority \X Round
    /\ processing \subseteq Header
    /\ current \in Own \cup {NoHeader}
    /\ tally.used \subseteq Authority /\ tally.weight \in 0 .. TotalStake
    /\ \A r \in Round : /\ gathered[r].used \subseteq Authority
                        /\ gathered[r].certificates \subseteq store
    /\ gcRound \in Round /\ consensusRound \in Round
    /\ pending \subseteq Header \X {"parents", "payload"}
    /\ suspended \subseteq Certified \cup Own
    /\ headerLoop \subseteq Header
    /\ certificateLoop \subseteq Certified \cup Own
    /\ proposer.round \in 1 .. (MaxRound + 1)
    /\ proposer.parents \subseteq store \cup Genesis
    /\ votes \subseteq Header
    /\ ballots \subseteq (Authority \ {Me}) \X Own
    /\ panicked \in BOOLEAN

-----------------------------------------------------------------------------
(***************************************************************************)
(* The decisions of the handlers.                                          *)
(***************************************************************************)

ParentsOf(h) == IF author(h) = Me THEN ownParents[round(h)] ELSE Links[h]

\* Mutant of MissingParents: a parent that is being processed is not missing.
UnknownParents(h) == ParentsOf(h) \ (store \cup Genesis \cup processing)

\* get_parents and deliver_certificate: genesis is never looked up.
MissingParents(h) == ParentsOf(h) \ (store \cup Genesis)

\* The parents are all from the previous round and form a quorum.
CheckedParents(h) ==
    /\ \A p \in ParentsOf(h) : round(p) + 1 = round(h)
    /\ StakeOf({author(p) : p \in ParentsOf(h)}) >= quorum_threshold

missing_payload(h) == h \in Loaded \ payload

\* process_header goes all the way to the vote. It drops a header without
\* parents as if it was suspended.
Accepted(h) ==
    /\ ParentsOf(h) # {}
    /\ MissingParents(h) = {}
    /\ CheckedParents(h)
    /\ ~ missing_payload(h)

\* process_header returns an error.
Malformed(h) ==
    /\ ParentsOf(h) # {}
    /\ MissingParents(h) = {}
    /\ ~ CheckedParents(h)

\* The cleanup of the HeaderWaiter, which ends every iteration of its loop: it
\* cancels what is in the last collected round too.
StillPending(S) ==
    {x \in S : consensusRound > GcDepth => round(x[1]) > consensusRound - GcDepth}

\* The header waits in the HeaderWaiter, once and for one thing at a time.
PendingWith(h) ==
    IF Accepted(h) \/ Malformed(h) \/ ParentsOf(h) = {}
       \/ \E why \in {"parents", "payload"} : <<h, why>> \in pending
    THEN pending
    ELSE StillPending(pending \cup
            {<<h, IF MissingParents(h) # {} THEN "parents" ELSE "payload">>})

CanVote(h) == Accepted(h) /\ <<author(h), round(h)>> \notin lastVoted

VotedWith(h) ==
    IF Accepted(h) THEN lastVoted \cup {<<author(h), round(h)>>} ELSE lastVoted

\* Mutant of ReachesQuorum: f+1 votes.
ReachesValidity(t, a) == t.weight + Stake[a] >= validity_threshold

\* VotesAggregator::append: the quorum is reached only once.
ReachesQuorum(t, a) == t.weight + Stake[a] >= quorum_threshold

Counted(t, a) ==
    [used |-> t.used \cup {a},
     weight |-> IF ReachesQuorum(t, a) THEN 0 ELSE t.weight + Stake[a]]

\* CertificatesAggregator::append: a certificate of a new author counts, a
\* quorum is handed out and the weight starts again from 0.
GatheredAt(g, c) ==
    IF author(c) \in g.used THEN g.certificates ELSE g.certificates \cup {c}

\* Mutant of FormsQuorum: f+1 parents.
FormsValidity(g, c) ==
    /\ author(c) \notin g.used
    /\ StakeOf({author(x) : x \in GatheredAt(g, c)}) >= validity_threshold

FormsQuorum(g, c) ==
    /\ author(c) \notin g.used
    /\ StakeOf({author(x) : x \in GatheredAt(g, c)}) >= quorum_threshold

GatheredWith(g, c) ==
    [used |-> g.used \cup {author(c)},
     certificates |-> IF FormsQuorum(g, c) THEN {} ELSE GatheredAt(g, c)]

-----------------------------------------------------------------------------
(***************************************************************************)
(* The cleanup that ends every iteration of Core::run.                     *)
(***************************************************************************)

\* Mutant of GcNow: one round too many.
GcNowLate == IF consensusRound > GcDepth THEN consensusRound - GcDepth + 1 ELSE gcRound

\* The round below which state is dropped, as the code reads it now.
GcNow == IF consensusRound > GcDepth THEN consensusRound - GcDepth ELSE gcRound

\* Mutant of Cleanup: last_voted loses the last collected round as well.
CleanupMore(voted, processed, quorums) ==
    /\ lastVoted' = {x \in voted : x[2] > GcNow}
    /\ processing' = {h \in processed : round(h) >= GcNow}
    /\ gathered' = [r \in Round |-> IF r >= GcNow THEN quorums[r] ELSE EmptyQuorum]
    /\ gcRound' = GcNow

Cleanup(voted, processed, quorums) ==
    /\ lastVoted' = {x \in voted : x[2] >= GcNow}
    /\ processing' = {h \in processed : round(h) >= GcNow}
    /\ gathered' = [r \in Round |-> IF r >= GcNow THEN quorums[r] ELSE EmptyQuorum]
    /\ gcRound' = GcNow

\* The last part of process_certificate: the certificate is stored, counted
\* as a parent and sent to the consensus, or suspended.
Deliver(c, voted, processed) ==
    LET g == gathered[round(c)]
    IN IF MissingParents(c) = {}
       THEN /\ store' = store \cup {c}
            /\ parentsLoop' =
                  IF FormsQuorum(g, c)
                  THEN Append(parentsLoop,
                              [round |-> round(c), parents |-> GatheredAt(g, c)])
                  ELSE parentsLoop
            /\ suspended' = suspended
            /\ Cleanup(voted, processed,
                       [gathered EXCEPT ![round(c)] = GatheredWith(g, c)])
       ELSE /\ suspended' = suspended \cup {c}
            /\ Cleanup(voted, processed, gathered)
            /\ UNCHANGED <<store, parentsLoop>>

NoDelivery(voted, processed) ==
    /\ Cleanup(voted, processed, gathered)
    /\ UNCHANGED <<store, parentsLoop, suspended>>

-----------------------------------------------------------------------------
(***************************************************************************)
(* The handlers of Core::run.                                              *)
(***************************************************************************)

Init ==
    /\ store = {}
    /\ payload = {}
    /\ lastVoted = {}
    /\ processing = {}
    /\ current = NoHeader
    /\ tally = EmptyTally
    /\ gathered = [r \in Round |-> EmptyQuorum]
    /\ gcRound = 0
    /\ consensusRound = 0
    /\ pending = {}
    /\ suspended = {}
    /\ headerLoop = {}
    /\ certificateLoop = {}
    /\ proposer = [round |-> 1, parents |-> Genesis]
    /\ parentsLoop = <<>>
    /\ proposals = <<>>
    /\ ownParents = [r \in 1 .. MaxRound |-> {}]
    /\ votes = {}
    /\ ballots = {}
    /\ panicked = FALSE

\* process_header for a header of another authority.
ProcessHeader(h) ==
    /\ ~ panicked
    /\ NoDelivery(VotedWith(h), processing \cup {h})
    /\ pending' = PendingWith(h)
    /\ votes' = IF CanVote(h) THEN votes \cup {h} ELSE votes
    /\ UNCHANGED <<certificateLoop, proposerVars, tallyVars, envVars, panicked>>

ReceiveHeader(h) ==
    /\ gcRound <= round(h)
    /\ ProcessHeader(h)
    /\ UNCHANGED headerLoop

\* A header comes back from the HeaderWaiter; it is not looked at again by
\* sanitize_header.
LoopHeader(h) ==
    /\ h \in headerLoop
    /\ headerLoop' = headerLoop \ {h}
    /\ ProcessHeader(h)

\* process_certificate for a certificate of another authority: the header in
\* it is processed unless it is or was being processed.
ProcessCertificate(c) ==
    LET first == c \notin processing
        voted == IF first THEN VotedWith(c) ELSE lastVoted
    IN /\ ~ panicked
       /\ IF first /\ Malformed(c) THEN NoDelivery(voted, processing \cup {c})
          ELSE Deliver(c, voted, processing \cup {c})
       /\ pending' = IF first THEN PendingWith(c) ELSE pending
       /\ votes' = IF first /\ CanVote(c) THEN votes \cup {c} ELSE votes
       /\ UNCHANGED <<headerLoop, proposerVars, tallyVars, envVars, panicked>>

ReceiveCertificate(c) ==
    /\ gcRound <= round(c)
    /\ ProcessCertificate(c)
    /\ UNCHANGED certificateLoop

\* A certificate comes back from the CertificateWaiter, unchecked as well.
LoopCertificate(c) ==
    /\ c \in certificateLoop
    /\ certificateLoop' = certificateLoop \ {c}
    /\ ProcessCertificate(c)

\* process_own_header: the tally is reset, the header is broadcast and then
\* processed like any other, our own vote being counted at once.
ProposeHeader ==
    /\ ~ panicked
    /\ proposals # <<>>
    /\ LET h == Head(proposals)
           reset == IF CanVote(h) THEN Counted(EmptyTally, Me) ELSE EmptyTally
       IN /\ current' = h
          /\ tally' = reset
          /\ pending' = PendingWith(h)
          /\ votes' = IF CanVote(h) THEN votes \cup {h} ELSE votes
          /\ IF CanVote(h) /\ ReachesQuorum(EmptyTally, Me)
             THEN Deliver(h, VotedWith(h), processing \cup {h})
             ELSE NoDelivery(VotedWith(h), processing \cup {h})
    /\ proposals' = Tail(proposals)
    /\ UNCHANGED <<proposer, ownParents, headerLoop, certificateLoop, ballots,
                   envVars, panicked>>

\* process_vote for a vote that sanitize_vote lets through and that is the
\* first of its author. The vote that completes the quorum makes the
\* certificate; if its header is no longer in `processing' it is processed
\* again, and "Failed to process our own vote" fires when that votes again.
ReceiveVote(a, h) ==
    LET completes == ReachesQuorum(tally, a)
        again == completes /\ h \notin processing
        reused == again /\ CanVote(h) /\ Me \in tally.used
    IN /\ ~ panicked
       /\ h = current
       /\ a \notin tally.used
       /\ tally' = Counted(tally, a)
       /\ ballots' = ballots \cup {<<a, h>>}
       /\ panicked' = reused
       /\ IF completes /\ ~ reused
          THEN Deliver(current, IF again THEN VotedWith(current) ELSE lastVoted,
                       processing \cup {current})
          ELSE NoDelivery(lastVoted, processing)
       /\ pending' = IF again /\ ~ reused THEN PendingWith(current) ELSE pending
       /\ UNCHANGED <<current, votes, headerLoop, certificateLoop, proposerVars, envVars>>

\* A message that is refused (too old, an unexpected or a second vote, a bad
\* signature) still ends in the cleanup.
Refuse ==
    /\ ~ panicked
    /\ NoDelivery(lastVoted, processing)
    /\ UNCHANGED <<pending, headerLoop, certificateLoop, votes, proposerVars,
                   tallyVars, envVars, panicked>>

-----------------------------------------------------------------------------
(***************************************************************************)
(* The other tasks of the primary and its environment.                     *)
(***************************************************************************)

\* What a header waited for is there: the HeaderWaiter loops it back.
WakeHeader(h) ==
    /\ \/ <<h, "parents">> \in pending /\ MissingParents(h) = {}
       \/ <<h, "payload">> \in pending /\ ~ missing_payload(h)
    /\ pending' = StillPending({x \in pending : x[1] # h})
    /\ headerLoop' = headerLoop \cup {h}
    /\ UNCHANGED <<coreVars, suspended, certificateLoop, proposerVars, tallyVars, envVars>>

CancelHeaders ==
    /\ StillPending(pending) # pending
    /\ pending' = StillPending(pending)
    /\ UNCHANGED <<coreVars, suspended, headerLoop, certificateLoop, proposerVars,
                   tallyVars, envVars>>

WakeCertificate(c) ==
    /\ c \in suspended
    /\ ParentsOf(c) \subseteq store
    /\ suspended' = suspended \ {c}
    /\ certificateLoop' = certificateLoop \cup {c}
    /\ UNCHANGED <<coreVars, pending, headerLoop, proposerVars, tallyVars, envVars>>

\* The Proposer takes a quorum of parents, unless it is past their round.
AdvanceRound ==
    /\ parentsLoop # <<>>
    /\ LET quorum == Head(parentsLoop)
       IN proposer' = IF quorum.round < proposer.round THEN proposer
                      ELSE [round |-> quorum.round + 1, parents |-> quorum.parents]
    /\ parentsLoop' = Tail(parentsLoop)
    /\ UNCHANGED <<store, lastVoted, processing, gathered, gcRound, votes, panicked,
                   waiterVars, proposals, ownParents, tallyVars, envVars>>

\* Mutant of MakeHeader: the parents are not drained.
MakeHeaderAgain ==
    /\ proposer.parents # {}
    /\ proposer.round <= LastProposal
    /\ ownParents' = [ownParents EXCEPT ![proposer.round] = proposer.parents]
    /\ proposals' = Append(proposals, <<Me, proposer.round, 0>>)
    /\ UNCHANGED <<coreVars, waiterVars, proposer, tallyVars, envVars>>

\* make_header: there are parents, and the timer expired or there are enough
\* digests. The bound on the rounds stops the Proposer.
MakeHeader ==
    /\ proposer.parents # {}
    /\ proposer.round <= LastProposal
    /\ ownParents' = [ownParents EXCEPT ![proposer.round] = proposer.parents]
    /\ proposals' = Append(proposals, <<Me, proposer.round, 0>>)
    /\ proposer' = [proposer EXCEPT !.parents = {}]
    /\ UNCHANGED <<coreVars, waiterVars, tallyVars, envVars>>

\* The PayloadReceiver stores the digests of a batch of another authority.
StorePayload(h) ==
    /\ h \notin payload
    /\ payload' = payload \cup {h}
    /\ UNCHANGED <<coreVars, waiterVars, proposerVars, tallyVars, consensusRound>>

\* The GarbageCollector receives a committed certificate of a higher round.
\* The consensus has only what was delivered to it, and it commits behind it.
CollectGarbage(r) ==
    /\ r > consensusRound
    /\ \E c \in store : round(c) = r
    /\ \E c \in store : round(c) >= r + CommitDepth
    /\ consensusRound' = r
    /\ UNCHANGED <<coreVars, waiterVars, proposerVars, tallyVars, payload>>

\* What the Core takes from its channels, certificates from the network apart.
CoreStep ==
    \/ \E h \in Announced : ReceiveHeader(h)
    \/ \E h \in headerLoop : LoopHeader(h)
    \/ \E c \in certificateLoop : LoopCertificate(c)
    \/ ProposeHeader
    \/ \E a \in Authority \ {Me}, h \in Own : ReceiveVote(a, h)
    \/ Refuse

\* The steps of the other tasks, HeaderWaiter and PayloadReceiver apart.
OtherStep ==
    \/ \E c \in suspended : WakeCertificate(c)
    \/ AdvanceRound
    \/ MakeHeader
    \/ \E r \in Round : CollectGarbage(r)

Next ==
    \/ \E c \in Certified : ReceiveCertificate(c)
    \/ CoreStep
    \/ OtherStep
    \/ \E h \in Header : WakeHeader(h)
    \/ CancelHeaders
    \/ \E h \in Loaded : StorePayload(h)

Spec == Init /\ [][Next]_vars

-----------------------------------------------------------------------------

\* One vote per author and round: as long as a round is not collected, this
\* primary signs at most one of the headers that an author made for it,
\* whatever is suspended, looped back or certified in between. It is what
\* makes the pair of author and round a name for a certificate.
OneVotePerRound ==
    \A g, h \in votes :
        (author(g) = author(h) /\ round(g) = round(h) /\ round(h) >= gcRound) => g = h

\* The consensus gets a certificate only after all of its history, however
\* the certificates arrive; Consensus::run relies on it ("We should have the
\* whole history by now").
HistoryFirst == \A c \in store : ParentsOf(c) \subseteq store \cup Genesis

\* Our headers pass the checks of the other primaries: the parents the
\* Proposer gets are of the previous round and of authors with a quorum.
ProposalsValid ==
    \A r \in 1 .. MaxRound :
        ownParents[r] # {} =>
            /\ ownParents[r] \subseteq store \cup Genesis
            /\ CheckedParents(<<Me, r, 0>>)

\* Our own certificate carries the votes of a quorum for this very header,
\* and not votes that were for an earlier one.
CertifiedByQuorum ==
    \A h \in store \cap Own :
        StakeOf({Me} \cup {a \in Authority : <<a, h>> \in ballots}) >= quorum_threshold

\* We never propose twice in a round, nor in a round before one we proposed
\* in: no other primary would vote for the second header.
RoundsIncrease ==
    [][\A h \in Own : proposals' = Append(proposals, h) =>
          \A r \in round(h) .. MaxRound : ownParents[r] = {}]_vars

\* "Failed to process our own vote" never happens.
OwnVoteProcessed == ~ panicked
=============================================================================
