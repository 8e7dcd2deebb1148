--------------------------- MODULE PrimaryProofs ---------------------------
(***************************************************************************)
(* Safety of one primary for every committee, set of headers of the other  *)
(* authorities (those of faulty ones included) and garbage collection      *)
(* depth: it votes once, stores a certificate after its history, proposes  *)
(* on quorums, in increasing rounds, and is certified by quorums. At the   *)
(* end, the requests of the HeaderWaiter: a primary with them is still a   *)
(* primary, and what a suspended header waits for stays requested.         *)
(***************************************************************************)
EXTENDS Synchronization, TLAPS, FiniteSetTheorems

-----------------------------------------------------------------------------
(***************************************************************************)
(* The committee: what module DagProofs proves of the stake of a set of    *)
(* authorities, for the committee of this module (no DAG).                 *)
(***************************************************************************)

Q == INSTANCE DagProofs WITH MaxRound <- 0

\* The operators of the instance are those of this module.
LEMMA SameCommittee ==
    /\ N \in Nat \ {0} /\ Stake \in [Q!Authority -> Nat] /\ Q!TotalStake \in 1 .. (2^30 - 1)
    /\ 0 \in Nat
    /\ Q!Authority = Authority /\ Q!TotalStake = TotalStake
    /\ \A T : Q!StakeOf(T) = StakeOf(T)
    /\ Q!quorum_threshold = quorum_threshold /\ Q!validity_threshold = validity_threshold
<1>1. Q!Authority = Authority
  BY DEF Authority, Q!Authority
<1>2. \A T : Q!StakeOf(T) = StakeOf(T)
  BY DEF StakeOf, Q!StakeOf, MapThenSumSet, Q!MapThenSumSet, MapThenFoldSet, Q!MapThenFoldSet
<1>3. Q!TotalStake = TotalStake
  BY <1>1, <1>2 DEF TotalStake, Q!TotalStake
<1>4. Q!quorum_threshold = quorum_threshold /\ Q!validity_threshold = validity_threshold
  BY <1>3 DEF quorum_threshold, Q!quorum_threshold, QuorumOf, Q!QuorumOf,
              validity_threshold, Q!validity_threshold, ValidityOf, Q!ValidityOf
<1> QED BY <1>1, <1>2, <1>3, <1>4, NAssumption, StakeAssumption, StakeFits

\* The stake of a set of authorities is a natural number.
LEMMA StakeNatural == \A T \in SUBSET Authority : StakeOf(T) \in Nat
  BY SameCommittee, Q!StakeNatural

\* Nobody has no stake.
LEMMA StakeEmpty == StakeOf({}) = 0
  BY SameCommittee, Q!StakeRecursion

\* The stake of a set without one of its authorities.
LEMMA StakeRemove ==
    ASSUME NEW T \in SUBSET Authority, NEW y \in T
    PROVE  StakeOf(T) = Stake[y] + StakeOf(T \ {y})
  BY SameCommittee, Q!StakeRemove

\* The stake of a set with one authority more.
LEMMA StakeAdd ==
    ASSUME NEW T \in SUBSET Authority, NEW x \in Authority \ T
    PROVE  StakeOf(T \cup {x}) = StakeOf(T) + Stake[x]
  BY SameCommittee, Q!StakeAdd

\* A larger set has no less stake.
LEMMA StakeMonotone ==
    ASSUME NEW T \in SUBSET Authority, NEW S \in SUBSET T
    PROVE  StakeOf(S) <= StakeOf(T)
  BY SameCommittee, Q!StakeMonotone

\* No set has more stake than the committee.
LEMMA StakeBounded == \A T \in SUBSET Authority : StakeOf(T) \in 0 .. TotalStake
  BY SameCommittee, Q!StakeBounded

\* A quorum can be had, and two quorums exceed the total by f+1.
LEMMA Thresholds ==
    /\ TotalStake \in Nat \ {0}
    /\ quorum_threshold \in 1 .. TotalStake
    /\ validity_threshold \in 1 .. quorum_threshold
    /\ 2 * quorum_threshold >= TotalStake + validity_threshold
    /\ quorum_threshold + validity_threshold > TotalStake
  BY SameCommittee, Q!Thresholds

-----------------------------------------------------------------------------
(***************************************************************************)
(* The inductive invariant, by the state that its parts are about.         *)
(***************************************************************************)

Gathering == [used : SUBSET Authority, certificates : SUBSET (Certified \cup Own)]

\* Certificates of round r that carry a quorum.
IsQuorumAt(r, S) ==
    /\ \A c \in S : round(c) = r
    /\ StakeOf({author(c) : c \in S}) >= quorum_threshold

\* The Core collects GcDepth behind the consensus, and remembers its votes of
\* the rounds that it still keeps.
VotesKept ==
    /\ gcRound \in Round /\ consensusRound \in Round
    /\ gcRound = 0 \/ gcRound + GcDepth <= consensusRound
    /\ lastVoted \subseteq Authority \X Round
    /\ votes \subseteq Header
    /\ \A h \in votes : round(h) >= gcRound => <<author(h), round(h)>> \in lastVoted
    /\ OneVotePerRound

\* What is gathered are stored certificates, and what is handed to the
\* Proposer are quorums of them.
QuorumsGathered ==
    /\ store \subseteq Certified \cup Own
    /\ gathered \in [Round -> Gathering]
    /\ \A r \in Round : \A c \in gathered[r].certificates : c \in store /\ round(c) = r
    /\ parentsLoop \in Seq([round : Round, parents : SUBSET (Certified \cup Own)])
    /\ \A i \in DOMAIN parentsLoop :
          parentsLoop[i].parents \subseteq store
          /\ IsQuorumAt(parentsLoop[i].round, parentsLoop[i].parents)

\* The Proposer has a quorum of the previous round or has used it, and made
\* no header for a later round.
ProposerAhead ==
    /\ proposer \in [round : 1 .. (MaxRound + 1), parents : SUBSET (Certified \cup Own \cup Genesis)]
    /\ proposer.parents \subseteq store \cup Genesis
    /\ proposer.parents # {} => IsQuorumAt(proposer.round - 1, proposer.parents)
    /\ ownParents \in [1 .. MaxRound -> SUBSET (Certified \cup Own \cup Genesis)]
    /\ ProposalsValid
    /\ \A r \in 1 .. MaxRound : ownParents[r] # {} =>
          r < proposer.round \/ (r = proposer.round /\ proposer.parents = {})

\* Our headers reach the Core in the order of their rounds.
ProposalsOrdered ==
    /\ current \in Own \cup {NoHeader}
    /\ proposals \in Seq(Own)
    /\ \A i \in DOMAIN proposals :
          /\ round(proposals[i]) > round(current)
          /\ ownParents[round(proposals[i])] # {}
          /\ \A j \in DOMAIN proposals : i < j => round(proposals[i]) < round(proposals[j])
    /\ \A x \in lastVoted : x[1] = Me => x[2] <= round(current)

\* We voted for our header before anybody else's vote was counted, and each
\* vote that was counted is for this header.
TallyBacked ==
    /\ tally \in [used : SUBSET Authority, weight : Nat]
    /\ tally.weight <= StakeOf(tally.used)
    /\ ballots \subseteq (Authority \ {Me}) \X Own
    /\ \A a \in tally.used : a = Me \/ <<a, current>> \in ballots
    /\ current \in Own => Me \in tally.used /\ current \in votes

\* Our headers are made once, and never suspended.
OwnAccepted ==
    /\ \A h \in (votes \cup store) \cap Own : ownParents[round(h)] # {}
    /\ store \cap Own \subseteq votes
    /\ HistoryFirst
    /\ CertifiedByQuorum

Waiting ==
    /\ payload \subseteq Loaded
    /\ processing \subseteq Header
    /\ pending \subseteq Others \X {"parents", "payload"}
    /\ suspended \subseteq Certified
    /\ headerLoop \subseteq Others
    /\ certificateLoop \subseteq Certified
    /\ panicked \in BOOLEAN

IInv ==
    /\ VotesKept
    /\ QuorumsGathered
    /\ ProposerAhead
    /\ ProposalsOrdered
    /\ TallyBacked
    /\ OwnAccepted
    /\ Waiting

-----------------------------------------------------------------------------
(***************************************************************************)
(* Headers, genesis and the decisions of the handlers.                     *)
(***************************************************************************)

\* A header names its author and its round; ours are told from the others by
\* the author.
LEMMA HeaderFacts ==
    /\ MaxRound \in Nat \ {0} /\ GcDepth \in Nat /\ Me \in Authority
    /\ Certified \subseteq Others /\ Announced \subseteq Others /\ Loaded \subseteq Others
    /\ \A h \in Header : /\ author(h) \in Authority
                         /\ round(h) \in 1 .. MaxRound
                         /\ round(h) \in Round
    /\ \A h \in Others : author(h) # Me /\ h \in Header
    /\ \A h \in Own : author(h) = Me /\ h \in Header /\ h = <<Me, round(h), 0>>
    /\ \A r \in 1 .. MaxRound : <<Me, r, 0>> \in Own /\ round(<<Me, r, 0>>) = r
                                /\ author(<<Me, r, 0>>) = Me
    /\ round(NoHeader) = 0 /\ NoHeader \notin Header
  BY PrimaryAssumption DEF Header, Own, author, round, Round, NoHeader

\* Every authority has a genesis certificate, of round 0.
LEMMA GenesisFacts ==
    /\ \A g \in Genesis : round(g) = 0 /\ author(g) \in Authority /\ g \notin Header
    /\ {author(g) : g \in Genesis} = Authority
<1>1. \A g \in Genesis : round(g) = 0 /\ author(g) \in Authority
  BY DEF Genesis, author, round
<1>2. \A g \in Genesis : g \notin Header
  BY <1>1, HeaderFacts
<1>3. \A a \in Authority : <<a, 0, 0>> \in Genesis /\ author(<<a, 0, 0>>) = a
  BY DEF Genesis, author
<1>4. Authority \subseteq {author(g) : g \in Genesis}
  BY <1>3
<1>5. {author(g) : g \in Genesis} \subseteq Authority
  BY <1>1
<1> QED BY <1>1, <1>2, <1>4, <1>5

\* The genesis certificates are a quorum, so that round 1 can be proposed in.
LEMMA GenesisIsQuorum == IsQuorumAt(0, Genesis)
<1>1. StakeOf({author(g) : g \in Genesis}) = TotalStake
  BY GenesisFacts DEF TotalStake
<1>2. TotalStake >= quorum_threshold
  BY Thresholds
<1> QED BY <1>1, <1>2, GenesisFacts DEF IsQuorumAt

\* The parents of a header are certificates: for Primary::process_header there
\* is nothing else to look up.
LEMMA ParentsFacts ==
    ASSUME ProposerAhead, NEW h \in Header
    PROVE  ParentsOf(h) \subseteq Others \cup Own \cup Genesis
<1>1. CASE h \in Own
  <2>1. ownParents[round(h)] \subseteq Certified \cup Own \cup Genesis
    BY <1>1, HeaderFacts DEF ProposerAhead
  <2> QED BY <1>1, <2>1, HeaderFacts DEF ParentsOf
<1>2. CASE h \in Others
  <2>1. Links[h] \subseteq Others \cup Genesis
    BY <1>2, PrimaryAssumption
  <2> QED BY <1>2, <2>1, HeaderFacts DEF ParentsOf
<1> QED BY <1>1, <1>2 DEF Header

\* A header of ours that was made passes every check of process_header.
LEMMA OwnPasses ==
    ASSUME ProposerAhead, NEW h \in Own, ownParents[round(h)] # {}
    PROVE  /\ Accepted(h) /\ ~ Malformed(h)
           /\ MissingParents(h) = {}
           /\ ParentsOf(h) = ownParents[round(h)]
           /\ PendingWith(h) = pending
           /\ VotedWith(h) = lastVoted \cup {<<Me, round(h)>>}
           /\ CanVote(h) <=> <<Me, round(h)>> \notin lastVoted
<1>1. /\ ParentsOf(h) = ownParents[round(h)]
      /\ h = <<Me, round(h), 0>> /\ round(h) \in 1 .. MaxRound /\ author(h) = Me
      /\ h \notin Loaded
  BY HeaderFacts DEF ParentsOf
<1>2. ownParents[round(h)] \subseteq store \cup Genesis /\ CheckedParents(h)
  BY <1>1 DEF ProposerAhead, ProposalsValid
<1>3. MissingParents(h) = {}
  BY <1>1, <1>2 DEF MissingParents
<1>4. Accepted(h) /\ ~ Malformed(h)
  BY <1>1, <1>2, <1>3 DEF Accepted, Malformed, missing_payload
<1> QED BY <1>1, <1>3, <1>4 DEF PendingWith, VotedWith, CanVote

\* What PendingWith adds is the header it is asked about.
LEMMA PendingFacts ==
    ASSUME NEW h \in Others, pending \subseteq Others \X {"parents", "payload"}
    PROVE  PendingWith(h) \subseteq Others \X {"parents", "payload"}
  BY DEF PendingWith, StillPending

\* Accepted headers are remembered as voted for.
LEMMA VotedFacts ==
    ASSUME NEW h \in Header, lastVoted \subseteq Authority \X Round
    PROVE  /\ lastVoted \subseteq VotedWith(h)
           /\ VotedWith(h) \subseteq Authority \X Round
           /\ CanVote(h) => /\ <<author(h), round(h)>> \notin lastVoted
                            /\ <<author(h), round(h)>> \in VotedWith(h)
           /\ VotedWith(h) \subseteq lastVoted \cup {<<author(h), round(h)>>}
  BY HeaderFacts DEF VotedWith, CanVote

-----------------------------------------------------------------------------
(***************************************************************************)
(* The cleanup at the end of every iteration of Core::run.                 *)
(***************************************************************************)

\* The garbage collection round only grows and stays GcDepth behind the round
\* of the consensus; what is kept is of the rounds from there on.
LEMMA GcNowFacts ==
    ASSUME VotesKept
    PROVE  /\ GcNow \in Round /\ GcNow >= gcRound
           /\ GcNow = 0 \/ GcNow + GcDepth <= consensusRound
<1>1. gcRound \in Nat /\ consensusRound \in Nat /\ GcDepth \in Nat /\ MaxRound \in Nat
      /\ gcRound <= MaxRound /\ consensusRound <= MaxRound
  BY HeaderFacts DEF VotesKept, Round
<1>2. gcRound = 0 \/ gcRound + GcDepth <= consensusRound
  BY DEF VotesKept
<1> QED BY <1>1, <1>2 DEF GcNow, Round

\* A step that votes only for a header that it did not vote for keeps the
\* votes distinct, whatever the cleanup forgets.
LEMMA KeepsVotes ==
    ASSUME VotesKept,
           NEW voted \in SUBSET (Authority \X Round), lastVoted \subseteq voted,
           lastVoted' = {x \in voted : x[2] >= GcNow}, gcRound' = GcNow,
           consensusRound' = consensusRound,
           NEW h \in Header,
           votes' = votes \/ /\ votes' = votes \cup {h}
                             /\ <<author(h), round(h)>> \in voted \ lastVoted
    PROVE  VotesKept'
<1>1. GcNow \in Round /\ GcNow >= gcRound /\ gcRound \in Round
      /\ (GcNow = 0 \/ GcNow + GcDepth <= consensusRound)
  BY GcNowFacts DEF VotesKept
<1>2. \A g \in votes : g \in Header /\ round(g) \in Round
  BY HeaderFacts DEF VotesKept
<1>3. \A g \in votes : round(g) >= GcNow => <<author(g), round(g)>> \in lastVoted
  BY <1>1, <1>2, HeaderFacts DEF VotesKept, Round
<1>4. ASSUME NEW g \in votes', round(g) >= GcNow
      PROVE  <<author(g), round(g)>> \in lastVoted'
  <2>1. <<author(g), round(g)>> \in voted
    BY <1>3, <1>4
  <2> QED BY <1>4, <2>1
<1>5. OneVotePerRound'
  <2> SUFFICES ASSUME NEW f \in votes', NEW g \in votes', author(f) = author(g),
                      round(f) = round(g), round(g) >= GcNow
               PROVE  f = g
    BY DEF OneVotePerRound
  <2>1. CASE f \in votes /\ g \in votes
    <3>1. round(g) >= gcRound
      BY <1>1, <1>2, <2>1 DEF Round
    <3> QED BY <2>1, <3>1 DEF VotesKept, OneVotePerRound
  <2>2. CASE ~ (f \in votes /\ g \in votes)
    BY <2>2, <1>3
  <2> QED BY <2>1, <2>2
<1>6. votes' \subseteq Header /\ lastVoted' \subseteq Authority \X Round
  BY DEF VotesKept
<1>7. gcRound' \in Round /\ consensusRound' \in Round
      /\ (gcRound' = 0 \/ gcRound' + GcDepth <= consensusRound')
  BY <1>1 DEF VotesKept
<1> QED BY <1>4, <1>5, <1>6, <1>7 DEF VotesKept

\* A step that delivers nothing only drops what was gathered in old rounds.
LEMMA KeepsGathered ==
    ASSUME QuorumsGathered, NEW voted, NEW processed, NoDelivery(voted, processed)
    PROVE  QuorumsGathered'
<1>1. /\ store' = store /\ parentsLoop' = parentsLoop
      /\ gathered' = [r \in Round |-> IF r >= GcNow THEN gathered[r] ELSE EmptyQuorum]
  BY DEF NoDelivery, Cleanup
<1>2. EmptyQuorum \in Gathering /\ EmptyQuorum.certificates = {}
  BY DEF EmptyQuorum, Gathering
<1>3. gathered' \in [Round -> Gathering]
  BY <1>1, <1>2 DEF QuorumsGathered
<1>4. \A r \in Round : gathered'[r].certificates \subseteq gathered[r].certificates
  BY <1>1, <1>2
<1> QED BY <1>1, <1>3, <1>4 DEF QuorumsGathered

\* Delivering a certificate (the last part of process_certificate) stores it
\* after its parents, and a quorum that it completes is one of its round.
LEMMA DeliverFacts ==
    ASSUME QuorumsGathered, NEW c \in Certified \cup Own, NEW voted, NEW processed,
           Deliver(c, voted, processed)
    PROVE  /\ QuorumsGathered'
           /\ Cleanup(voted, processed, [gathered EXCEPT ![round(c)] = IF MissingParents(c) = {}
                                             THEN GatheredWith(gathered[round(c)], c) ELSE @])
           /\ IF MissingParents(c) = {}
              THEN store' = store \cup {c} /\ suspended' = suspended
              ELSE store' = store /\ suspended' = suspended \cup {c}
<1> DEFINE r == round(c)
           g == gathered[r]
<1>1. r \in Round /\ c \in Header /\ author(c) \in Authority
  BY HeaderFacts DEF Header
<1>2. g \in Gathering /\ \A x \in g.certificates : x \in store /\ round(x) = r
  BY <1>1 DEF QuorumsGathered
<1>3. CASE MissingParents(c) # {}
  <2>2. /\ store' = store /\ parentsLoop' = parentsLoop /\ suspended' = suspended \cup {c}
        /\ Cleanup(voted, processed, gathered)
    BY <1>3 DEF Deliver
  <2>3. gathered' = [q \in Round |-> IF q >= GcNow THEN gathered[q] ELSE EmptyQuorum]
    BY <2>2 DEF Cleanup
  <2>4. EmptyQuorum \in Gathering /\ EmptyQuorum.certificates = {}
    BY DEF EmptyQuorum, Gathering
  <2>5. gathered' \in [Round -> Gathering]
    BY <2>3, <2>4 DEF QuorumsGathered
  <2>6. \A q \in Round : gathered'[q].certificates \subseteq gathered[q].certificates
    BY <2>3, <2>4
  <2>7. QuorumsGathered'
    BY <2>2, <2>5, <2>6 DEF QuorumsGathered
  <2>8. [gathered EXCEPT ![r] = @] = gathered
    BY <1>1 DEF QuorumsGathered
  <2> QED BY <1>3, <2>2, <2>7, <2>8
<1>4. CASE MissingParents(c) = {}
  <2> DEFINE all == GatheredAt(g, c)
             quorums == [gathered EXCEPT ![r] = GatheredWith(g, c)]
  <2>1. /\ store' = store \cup {c} /\ suspended' = suspended
        /\ parentsLoop' = IF FormsQuorum(g, c)
                          THEN Append(parentsLoop, [round |-> r, parents |-> all])
                          ELSE parentsLoop
        /\ Cleanup(voted, processed, quorums)
    BY <1>4 DEF Deliver
  <2>2. all \subseteq store' /\ all \subseteq Certified \cup Own /\ \A x \in all : round(x) = r
    BY <1>2, <2>1 DEF GatheredAt, Gathering
  <2>3. FormsQuorum(g, c) => IsQuorumAt(r, all)
    BY <2>2 DEF FormsQuorum, IsQuorumAt
  <2>4. /\ GatheredWith(g, c) \in Gathering
        /\ GatheredWith(g, c).certificates \subseteq all
    BY <1>1, <1>2, <2>2 DEF GatheredWith, Gathering
  <2>5. gathered' = [q \in Round |-> IF q >= GcNow THEN quorums[q] ELSE EmptyQuorum]
    BY <2>1 DEF Cleanup
  <2>6. EmptyQuorum \in Gathering /\ EmptyQuorum.certificates = {}
    BY DEF EmptyQuorum, Gathering
  <2>7. quorums \in [Round -> Gathering]
        /\ \A q \in Round : quorums[q] = IF q = r THEN GatheredWith(g, c) ELSE gathered[q]
    BY <2>4 DEF QuorumsGathered
  <2>8. gathered' \in [Round -> Gathering]
    BY <2>5, <2>6, <2>7
  <2>9. ASSUME NEW q \in Round, NEW x \in gathered'[q].certificates
        PROVE  x \in store' /\ round(x) = q
    <3>1. x \in quorums[q].certificates
      BY <2>5, <2>6, <2>9
    <3>2. CASE q = r
      BY <3>1, <3>2, <2>7, <2>4, <2>2
    <3>3. CASE q # r
      BY <3>1, <3>3, <2>7, <2>1 DEF QuorumsGathered
    <3> QED BY <3>2, <3>3
  <2> DEFINE Quorum == [round : Round, parents : SUBSET (Certified \cup Own)]
  <2>10. parentsLoop' \in Seq(Quorum)
    <3>1. [round |-> r, parents |-> all] \in Quorum /\ parentsLoop \in Seq(Quorum)
      BY <1>1, <2>2 DEF QuorumsGathered
    <3> HIDE DEF Quorum, all
    <3> QED BY <3>1, <2>1
  <2>11. ASSUME NEW i \in DOMAIN parentsLoop'
         PROVE  /\ parentsLoop'[i].parents \subseteq store'
                /\ IsQuorumAt(parentsLoop'[i].round, parentsLoop'[i].parents)
    <3>1. \/ i \in DOMAIN parentsLoop /\ parentsLoop'[i] = parentsLoop[i]
          \/ FormsQuorum(g, c) /\ parentsLoop'[i] = [round |-> r, parents |-> all]
      BY <2>1, <2>11 DEF QuorumsGathered
    <3>2. CASE i \in DOMAIN parentsLoop /\ parentsLoop'[i] = parentsLoop[i]
      <4>1. parentsLoop[i].parents \subseteq store
            /\ IsQuorumAt(parentsLoop[i].round, parentsLoop[i].parents)
        BY <3>2 DEF QuorumsGathered
      <4> QED BY <3>2, <4>1, <2>1
    <3>3. CASE FormsQuorum(g, c) /\ parentsLoop'[i] = [round |-> r, parents |-> all]
      BY <3>3, <2>2, <2>3
    <3> QED BY <3>1, <3>2, <3>3
  <2>12. QuorumsGathered'
    <3>1. store' \subseteq Certified \cup Own
      BY <2>1 DEF QuorumsGathered
    <3> QED BY <3>1, <2>8, <2>9, <2>10, <2>11 DEF QuorumsGathered, IsQuorumAt
  <2> QED BY <1>4, <2>1, <2>12
<1> QED BY <1>3, <1>4

-----------------------------------------------------------------------------
(***************************************************************************)
(* What a handler leaves of the other tasks and of our own headers.        *)
(***************************************************************************)

\* The Proposer's quorum stays stored when the Core stores more.
LEMMA KeepsProposer ==
    ASSUME ProposerAhead, store \subseteq store', UNCHANGED <<proposer, ownParents>>
    PROVE  ProposerAhead'
<1>1. ProposalsValid'
  BY DEF ProposerAhead, ProposalsValid, CheckedParents, ParentsOf
<1> QED BY <1>1 DEF ProposerAhead, IsQuorumAt

\* Votes for headers of the others do not disturb the order of ours.
LEMMA KeepsOrder ==
    ASSUME ProposalsOrdered, UNCHANGED <<current, proposals, ownParents>>,
           \A x \in lastVoted' : x \in lastVoted \/ x[1] # Me
    PROVE  ProposalsOrdered'
  BY DEF ProposalsOrdered

\* Nor do they touch the tally.
LEMMA KeepsTally ==
    ASSUME TallyBacked, UNCHANGED tallyVars, votes \subseteq votes'
    PROVE  TallyBacked'
  BY DEF TallyBacked, tallyVars

\* The votes in B and our own are a quorum for h.
Certifies(B, h) ==
    StakeOf({Me} \cup {a \in Authority : <<a, h>> \in B}) >= quorum_threshold

\* A quorum of votes remains one when more are counted.
LEMMA MoreBallots ==
    ASSUME NEW B, NEW C, B \subseteq C, NEW h, Certifies(B, h)
    PROVE  Certifies(C, h)
<1> DEFINE S == {Me} \cup {a \in Authority : <<a, h>> \in B}
           T == {Me} \cup {a \in Authority : <<a, h>> \in C}
<1>1. T \in SUBSET Authority /\ S \in SUBSET T
  BY HeaderFacts
<1>2. StakeOf(S) <= StakeOf(T)
  BY <1>1, StakeMonotone
<1>3. StakeOf(S) \in Nat /\ StakeOf(T) \in Nat
  BY <1>1, StakeNatural
<1>4. StakeOf(S) >= quorum_threshold
  BY DEF Certifies
<1> HIDE DEF S, T
<1>5. StakeOf(T) >= quorum_threshold
  BY <1>2, <1>3, <1>4, Thresholds
<1> QED BY <1>5 DEF T, Certifies

\* Storing one certificate after its parents keeps the history of all.
LEMMA KeepsOwn ==
    ASSUME OwnAccepted, ProposerAhead, UNCHANGED ownParents, ballots \subseteq ballots',
           votes \subseteq votes',
           \A h \in votes' \cap Own : h \in votes \/ ownParents[round(h)] # {},
           NEW c \in Certified \cup Own,
           \/ store' = store
           \/ store' = store \cup {c} /\ MissingParents(c) = {},
           c \in Own => c \in votes' /\ ownParents[round(c)] # {},
           c \in Own /\ store' # store => Certifies(ballots', c)
    PROVE  OwnAccepted'
<1>1. \A h : ParentsOf(h)' = ParentsOf(h)
  BY DEF ParentsOf
<1>2. HistoryFirst'
  BY <1>1 DEF OwnAccepted, HistoryFirst, MissingParents
<1>3. CertifiedByQuorum'
  <2> SUFFICES ASSUME NEW h \in store' \cap Own
               PROVE  Certifies(ballots', h)
    BY DEF CertifiedByQuorum, Certifies
  <2>1. CASE h \notin store
    BY <2>1
  <2>2. CASE h \in store
    <3>1. Certifies(ballots, h)
      BY <2>2 DEF OwnAccepted, CertifiedByQuorum, Certifies
    <3> QED BY <3>1, MoreBallots
  <2> QED BY <2>1, <2>2
<1>4. \A h \in (votes' \cup store') \cap Own : ownParents[round(h)] # {}
  BY DEF OwnAccepted
<1>5. store' \cap Own \subseteq votes'
  BY DEF OwnAccepted
<1> QED BY <1>2, <1>3, <1>4, <1>5 DEF OwnAccepted

-----------------------------------------------------------------------------
(***************************************************************************)
(* Every step keeps the invariant.                                         *)
(***************************************************************************)

\* The initial state satisfies the invariant.
LEMMA InitIInv == Init => IInv
<1> SUFFICES ASSUME Init PROVE IInv
  OBVIOUS
<1> USE DEF Init
<1>1. 0 \in Round /\ MaxRound \in Nat
  BY HeaderFacts DEF Round
<1>2. VotesKept
  BY <1>1 DEF VotesKept, OneVotePerRound
<1>3. QuorumsGathered
  BY DEF QuorumsGathered, Gathering, EmptyQuorum
<1>4. ProposerAhead
  <2>1. ProposalsValid
    BY DEF ProposalsValid
  <2>2. 1 - 1 = 0 /\ 1 \in 1 .. (MaxRound + 1)
    BY <1>1
  <2> QED BY <2>1, <2>2, GenesisIsQuorum DEF ProposerAhead
<1>5. ProposalsOrdered
  BY DEF ProposalsOrdered
<1>6. TallyBacked
  <2>1. StakeOf({}) = 0
    BY StakeEmpty
  <2>2. NoHeader \notin Own
    BY HeaderFacts
  <2> QED BY <2>1, <2>2 DEF TallyBacked, EmptyTally
<1>7. OwnAccepted
  BY DEF OwnAccepted, HistoryFirst, CertifiedByQuorum
<1>8. Waiting
  BY DEF Waiting
<1> QED BY <1>2, <1>3, <1>4, <1>5, <1>6, <1>7, <1>8 DEF IInv

\* A header of another authority, received or looped back.
LEMMA ProcessHeaderIInv ==
    ASSUME IInv, NEW h \in Others, ProcessHeader(h), headerLoop' \subseteq headerLoop
    PROVE  IInv'
<1> USE DEF IInv
<1>1. /\ NoDelivery(VotedWith(h), processing \cup {h})
      /\ pending' = PendingWith(h)
      /\ votes' = IF CanVote(h) THEN votes \cup {h} ELSE votes
      /\ UNCHANGED <<certificateLoop, proposerVars, tallyVars, envVars, panicked>>
  BY DEF ProcessHeader
<1>2. /\ store' = store /\ suspended' = suspended
      /\ lastVoted' = {x \in VotedWith(h) : x[2] >= GcNow}
      /\ processing' \subseteq processing \cup {h}
      /\ gcRound' = GcNow
  BY <1>1 DEF NoDelivery, Cleanup
<1>3. h \in Header /\ author(h) # Me /\ h \notin Own
  BY HeaderFacts
<1>4. lastVoted \subseteq Authority \X Round
  BY DEF VotesKept
<1>5. VotesKept'
  BY <1>1, <1>2, <1>3, <1>4, VotedFacts, KeepsVotes DEF envVars
<1>6. QuorumsGathered'
  BY <1>1, KeepsGathered
<1>7. ProposerAhead'
  BY <1>1, <1>2, KeepsProposer DEF proposerVars
<1>8. ProposalsOrdered'
  <2>1. lastVoted' \subseteq lastVoted \cup {<<author(h), round(h)>>}
    BY <1>2, <1>3, <1>4, VotedFacts
  <2>2. \A x \in lastVoted' : x \in lastVoted \/ x[1] # Me
    BY <2>1, <1>3
  <2> QED BY <2>2, <1>1, KeepsOrder DEF proposerVars, tallyVars
<1>9. TallyBacked'
  BY <1>1, KeepsTally
<1>10. OwnAccepted'
  <2>1. votes' \cap Own = votes \cap Own /\ votes \subseteq votes'
    BY <1>1, <1>3
  <2> QED BY <2>1, <1>1, <1>2
          DEF OwnAccepted, HistoryFirst, CertifiedByQuorum, ParentsOf, proposerVars, tallyVars
<1>11. Waiting'
  <2>1. PendingWith(h) \subseteq Others \X {"parents", "payload"}
    BY PendingFacts DEF Waiting
  <2> QED BY <2>1, <1>1, <1>2, <1>3 DEF Waiting, envVars
<1> QED BY <1>5, <1>6, <1>7, <1>8, <1>9, <1>10, <1>11

\* A certificate of another authority, received or looped back.
LEMMA ProcessCertificateIInv ==
    ASSUME IInv, NEW c \in Certified, ProcessCertificate(c),
           certificateLoop' \subseteq certificateLoop
    PROVE  IInv'
<1> USE DEF IInv
<1> DEFINE first == c \notin processing
           voted == IF first THEN VotedWith(c) ELSE lastVoted
<1>1. /\ IF first /\ Malformed(c) THEN NoDelivery(voted, processing \cup {c})
         ELSE Deliver(c, voted, processing \cup {c})
      /\ pending' = IF first THEN PendingWith(c) ELSE pending
      /\ votes' = IF first /\ CanVote(c) THEN votes \cup {c} ELSE votes
      /\ UNCHANGED <<headerLoop, proposerVars, tallyVars, envVars, panicked>>
  BY DEF ProcessCertificate
<1>2. c \in Others /\ c \in Header /\ author(c) # Me /\ c \notin Own
  BY HeaderFacts
<1>3. lastVoted \subseteq Authority \X Round
  BY DEF VotesKept
<1>4. /\ QuorumsGathered'
      /\ \/ store' = store
         \/ store' = store \cup {c} /\ MissingParents(c) = {}
      /\ suspended' \subseteq suspended \cup {c}
      /\ lastVoted' = {x \in voted : x[2] >= GcNow}
      /\ processing' \subseteq processing \cup {c}
      /\ gcRound' = GcNow
  <2>1. CASE first /\ Malformed(c)
    <3>1. NoDelivery(voted, processing \cup {c})
      BY <1>1, <2>1
    <3> QED BY <3>1, KeepsGathered DEF NoDelivery, Cleanup
  <2>2. CASE ~ (first /\ Malformed(c))
    <3>1. Deliver(c, voted, processing \cup {c})
      BY <1>1, <2>2
    <3> HIDE DEF voted
    <3> QED BY <3>1, DeliverFacts DEF Cleanup
  <2> QED BY <2>1, <2>2
<1>5. voted \in SUBSET (Authority \X Round) /\ lastVoted \subseteq voted
      /\ voted \subseteq lastVoted \cup {<<author(c), round(c)>>}
  BY <1>2, <1>3, VotedFacts
<1>6. votes' = votes \/ /\ votes' = votes \cup {c}
                        /\ <<author(c), round(c)>> \in voted \ lastVoted
  BY <1>1, <1>2, <1>3, VotedFacts
<1>7. VotesKept'
  <2> HIDE DEF voted
  <2> QED BY <1>1, <1>2, <1>4, <1>5, <1>6, KeepsVotes DEF envVars
<1>8. ProposerAhead'
  BY <1>1, <1>4, KeepsProposer DEF proposerVars
<1>9. ProposalsOrdered'
  <2>1. \A x \in lastVoted' : x \in lastVoted \/ x[1] # Me
    BY <1>2, <1>4, <1>5
  <2> QED BY <2>1, <1>1, KeepsOrder DEF proposerVars, tallyVars
<1>10. TallyBacked'
  BY <1>1, KeepsTally
<1>11. OwnAccepted'
  <2>1. votes' \cap Own = votes \cap Own /\ votes \subseteq votes'
    BY <1>1, <1>2
  <2>2. UNCHANGED ownParents /\ ballots \subseteq ballots'
    BY <1>1 DEF proposerVars, tallyVars
  <2> QED BY <2>1, <2>2, <1>2, <1>4, KeepsOwn
<1>12. Waiting'
  <2>1. PendingWith(c) \subseteq Others \X {"parents", "payload"}
    BY <1>2, PendingFacts DEF Waiting
  <2> QED BY <2>1, <1>1, <1>2, <1>4 DEF Waiting, envVars
<1> QED BY <1>4, <1>7, <1>8, <1>9, <1>10, <1>11, <1>12

\* A header of ours is broadcast and voted for by ourselves (process_own_header).
LEMMA ProposeHeaderIInv ==
    ASSUME IInv, ProposeHeader
    PROVE  IInv'
<1> USE DEF IInv
<1> DEFINE h == Head(proposals)
<1>1. /\ proposals # <<>> /\ proposals' = Tail(proposals)
      /\ current' = h
      /\ tally' = IF CanVote(h) THEN Counted(EmptyTally, Me) ELSE EmptyTally
      /\ pending' = PendingWith(h)
      /\ votes' = IF CanVote(h) THEN votes \cup {h} ELSE votes
      /\ IF CanVote(h) /\ ReachesQuorum(EmptyTally, Me)
         THEN Deliver(h, VotedWith(h), processing \cup {h})
         ELSE NoDelivery(VotedWith(h), processing \cup {h})
      /\ UNCHANGED <<proposer, ownParents, headerLoop, certificateLoop, ballots,
                     envVars, panicked>>
  BY DEF ProposeHeader
<1>2. /\ proposals \in Seq(Own) /\ h \in Own /\ 1 \in DOMAIN proposals /\ h = proposals[1]
      /\ h \in Header /\ author(h) = Me /\ h \notin Others
  BY <1>1, HeaderFacts DEF ProposalsOrdered, Header
<1>3. ownParents[round(h)] # {} /\ round(h) > round(current)
  BY <1>2 DEF ProposalsOrdered
<1>4. /\ round(h) \in 1 .. MaxRound /\ round(current) \in 0 .. MaxRound
      /\ MaxRound \in Nat
      /\ lastVoted \subseteq Authority \X Round
  BY <1>2, HeaderFacts DEF VotesKept, ProposalsOrdered, Header
<1>5. <<Me, round(h)>> \notin lastVoted
  BY <1>3, <1>4 DEF ProposalsOrdered
<1>6. /\ CanVote(h) /\ MissingParents(h) = {} /\ PendingWith(h) = pending
      /\ VotedWith(h) = lastVoted \cup {<<Me, round(h)>>}
  BY <1>2, <1>3, <1>5, OwnPasses
<1>7. /\ QuorumsGathered'
      /\ store' = store \/ (store' = store \cup {h} /\ ReachesQuorum(EmptyTally, Me))
      /\ suspended' = suspended
      /\ lastVoted' = {x \in VotedWith(h) : x[2] >= GcNow}
      /\ processing' \subseteq processing \cup {h}
      /\ gcRound' = GcNow
  <2>1. CASE ReachesQuorum(EmptyTally, Me)
    <3>1. Deliver(h, VotedWith(h), processing \cup {h})
      BY <1>1, <1>6, <2>1
    <3> QED BY <3>1, <1>2, <1>6, <2>1, DeliverFacts DEF Cleanup
  <2>2. CASE ~ ReachesQuorum(EmptyTally, Me)
    <3>1. NoDelivery(VotedWith(h), processing \cup {h})
      BY <1>1, <2>2
    <3> QED BY <3>1, KeepsGathered DEF NoDelivery, Cleanup
  <2> QED BY <2>1, <2>2
<1>8. VotesKept'
  <2>1. VotedWith(h) \in SUBSET (Authority \X Round) /\ lastVoted \subseteq VotedWith(h)
        /\ <<author(h), round(h)>> \in VotedWith(h) \ lastVoted
    BY <1>2, <1>4, <1>6, VotedFacts
  <2>2. votes' = votes \cup {h} /\ consensusRound' = consensusRound
    BY <1>1, <1>6 DEF envVars
  <2> QED BY <1>2, <1>7, <2>1, <2>2, KeepsVotes
<1>9. ProposerAhead'
  BY <1>1, <1>7, KeepsProposer
<1>10. ProposalsOrdered'
  <2>1. \A i \in DOMAIN proposals' : i + 1 \in DOMAIN proposals /\ proposals'[i] = proposals[i + 1]
    BY <1>1, <1>2
  <2>2. \A i \in DOMAIN proposals' : i \in Nat /\ 1 < i + 1
    BY <1>1, <1>2
  <2>3. proposals' \in Seq(Own)
    BY <1>1, <1>2
  <2>4. ASSUME NEW i \in DOMAIN proposals'
        PROVE  /\ round(proposals'[i]) > round(h)
               /\ ownParents[round(proposals'[i])] # {}
               /\ \A j \in DOMAIN proposals' : i < j => round(proposals'[i]) < round(proposals'[j])
    <3>1. round(h) < round(proposals[i + 1])
      BY <1>2, <2>1, <2>2 DEF ProposalsOrdered
    <3>2. proposals[i + 1] \in Own /\ round(proposals[i + 1]) \in 1 .. MaxRound
      BY <2>1, <1>2, HeaderFacts
    <3>3. \A j \in DOMAIN proposals' : i < j => i + 1 < j + 1
      BY <2>2
    <3>4. \A j \in DOMAIN proposals' : i < j => round(proposals[i + 1]) < round(proposals[j + 1])
      BY <2>1, <3>3 DEF ProposalsOrdered
    <3> QED BY <2>1, <3>1, <3>2, <3>4, <1>4 DEF ProposalsOrdered
  <2>5. \A x \in lastVoted' : x[1] = Me => x[2] <= round(h)
    <3>1. \A x \in lastVoted : x[1] = Me => x[2] <= round(current) /\ x[2] \in Nat
      BY <1>4 DEF ProposalsOrdered, Round
    <3>2. \A x \in lastVoted : x[1] = Me => x[2] <= round(h)
      BY <3>1, <1>3, <1>4
    <3> QED BY <3>2, <1>4, <1>6, <1>7
  <2> QED BY <1>1, <1>2, <2>3, <2>4, <2>5 DEF ProposalsOrdered
<1>11. TallyBacked'
  <2>1. tally' = Counted(EmptyTally, Me) /\ current' = h /\ h \in votes' /\ ballots' = ballots
    BY <1>1, <1>6
  <2>2. Me \in Authority /\ Stake[Me] \in Nat
    BY HeaderFacts, StakeAssumption
  <2>3. tally' \in [used : SUBSET Authority, weight : Nat] /\ tally'.used = {Me}
        /\ tally'.weight <= Stake[Me]
    BY <2>1, <2>2 DEF Counted, EmptyTally
  <2>4. StakeOf({Me}) = Stake[Me]
    <3>1. StakeOf({} \cup {Me}) = StakeOf({}) + Stake[Me] /\ StakeOf({}) = 0
      BY <2>2, StakeAdd, StakeEmpty
    <3>2. {} \cup {Me} = {Me}
      OBVIOUS
    <3> QED BY <3>1, <3>2, <2>2
  <2> QED BY <2>1, <2>3, <2>4 DEF TallyBacked
<1>12. OwnAccepted'
  <2>1. ReachesQuorum(EmptyTally, Me) => Certifies(ballots', h)
    <3> SUFFICES ASSUME ReachesQuorum(EmptyTally, Me) PROVE Certifies(ballots', h)
      OBVIOUS
    <3> DEFINE S == {Me} \cup {a \in Authority : <<a, h>> \in ballots'}
    <3>1. S \in SUBSET Authority /\ Me \in S
      BY HeaderFacts
    <3> HIDE DEF S
    <3>2. StakeOf(S) = Stake[Me] + StakeOf(S \ {Me}) /\ StakeOf(S \ {Me}) \in Nat
      BY <3>1, StakeRemove, StakeNatural
    <3>3. Stake[Me] \in Nat /\ Stake[Me] >= quorum_threshold
      BY HeaderFacts, StakeAssumption, Thresholds DEF ReachesQuorum, EmptyTally
    <3>4. StakeOf(S) >= quorum_threshold
      BY <3>2, <3>3, Thresholds
    <3> QED BY <3>4 DEF S, Certifies
  <2>2. /\ UNCHANGED ownParents /\ ballots \subseteq ballots'
        /\ votes' = votes \cup {h} /\ h \in votes'
    BY <1>1, <1>6
  <2> QED BY <2>1, <2>2, <1>2, <1>3, <1>6, <1>7, KeepsOwn
<1>13. Waiting'
  BY <1>1, <1>2, <1>6, <1>7 DEF Waiting, envVars
<1> QED BY <1>7, <1>8, <1>9, <1>10, <1>11, <1>12, <1>13

\* A vote for our header is counted; the one that completes the quorum makes
\* our certificate (process_vote).
LEMMA ReceiveVoteIInv ==
    ASSUME IInv, NEW a \in Authority \ {Me}, NEW h \in Own, ReceiveVote(a, h)
    PROVE  IInv'
<1> USE DEF IInv
<1> DEFINE completes == ReachesQuorum(tally, a)
           again == completes /\ h \notin processing
           reused == again /\ CanVote(h) /\ Me \in tally.used
<1>1. /\ h = current /\ a \notin tally.used
      /\ tally' = Counted(tally, a)
      /\ ballots' = ballots \cup {<<a, h>>}
      /\ panicked' = reused
      /\ IF completes /\ ~ reused
         THEN Deliver(current, IF again THEN VotedWith(current) ELSE lastVoted,
                      processing \cup {current})
         ELSE NoDelivery(lastVoted, processing)
      /\ pending' = IF again /\ ~ reused THEN PendingWith(current) ELSE pending
      /\ UNCHANGED <<current, votes, headerLoop, certificateLoop, proposerVars, envVars>>
  BY DEF ReceiveVote
<1>2. Me \in tally.used /\ h \in votes /\ ownParents[round(h)] # {}
      /\ h \in Header /\ author(h) = Me
  BY <1>1, HeaderFacts DEF TallyBacked, OwnAccepted
<1>3. /\ MissingParents(h) = {} /\ PendingWith(h) = pending
      /\ VotedWith(h) = lastVoted \cup {<<Me, round(h)>>}
      /\ CanVote(h) <=> <<Me, round(h)>> \notin lastVoted
  BY <1>2, OwnPasses
<1>4. again /\ ~ reused => VotedWith(h) = lastVoted
  BY <1>2, <1>3
<1>5. /\ QuorumsGathered'
      /\ store' = store \/ (store' = store \cup {h} /\ completes)
      /\ suspended' = suspended
      /\ lastVoted' = {x \in lastVoted : x[2] >= GcNow}
      /\ processing' \subseteq processing \cup {h}
      /\ gcRound' = GcNow
      /\ pending' = pending
  <2>1. CASE completes /\ ~ reused
    <3>1. Deliver(h, lastVoted, processing \cup {h})
      BY <1>1, <1>4, <2>1
    <3>2. pending' = pending
      BY <1>1, <1>3
    <3> HIDE DEF completes, reused
    <3> QED BY <3>1, <3>2, <1>3, <2>1, DeliverFacts DEF Cleanup
  <2>2. CASE ~ (completes /\ ~ reused)
    <3>1. NoDelivery(lastVoted, processing)
      BY <1>1, <2>2
    <3>2. pending' = pending
      BY <1>1, <1>3
    <3> QED BY <3>1, <3>2, KeepsGathered DEF NoDelivery, Cleanup
  <2> QED BY <2>1, <2>2
<1> HIDE DEF reused, again, completes
<1>6. VotesKept'
  <2>1. lastVoted \in SUBSET (Authority \X Round) /\ lastVoted \subseteq lastVoted
    BY DEF VotesKept
  <2> QED BY <2>1, <1>1, <1>2, <1>5, KeepsVotes DEF envVars
<1>7. ProposerAhead'
  BY <1>1, <1>5, KeepsProposer DEF proposerVars
<1>8. ProposalsOrdered'
  BY <1>1, <1>5, KeepsOrder DEF proposerVars
<1> DEFINE used == tally.used \cup {a}
<1>9. /\ tally.used \in SUBSET Authority /\ used \in SUBSET Authority
      /\ StakeOf(used) = StakeOf(tally.used) + Stake[a]
      /\ tally.weight \in Nat /\ Stake[a] \in Nat
      /\ StakeOf(tally.used) \in Nat /\ tally.weight <= StakeOf(tally.used)
  BY <1>1, StakeAdd, StakeNatural, StakeAssumption DEF TallyBacked
<1>10. \A b \in used : b = Me \/ <<b, current>> \in ballots'
  BY <1>1 DEF TallyBacked
<1>11. TallyBacked'
  <2>1. tally' = [used |-> used,
                  weight |-> IF ReachesQuorum(tally, a) THEN 0 ELSE tally.weight + Stake[a]]
    BY <1>1 DEF Counted
  <2>2. tally'.weight \in Nat /\ tally'.weight <= StakeOf(used) /\ tally'.used = used
    <3> HIDE DEF used
    <3> QED BY <2>1, <1>9
  <2>3. tally' \in [used : SUBSET Authority, weight : Nat]
    <3> HIDE DEF used
    <3> QED BY <2>1, <2>2, <1>9
  <2>4. ballots' \subseteq (Authority \ {Me}) \X Own
    BY <1>1 DEF TallyBacked
  <2> QED BY <2>2, <2>3, <2>4, <1>1, <1>10 DEF TallyBacked
<1>12. completes => Certifies(ballots', h)
  <2> SUFFICES ASSUME completes PROVE Certifies(ballots', h)
    OBVIOUS
  <2> DEFINE S == {Me} \cup {b \in Authority : <<b, h>> \in ballots'}
  <2>1. S \in SUBSET Authority /\ used \in SUBSET S
    BY <1>1, <1>9, <1>10, HeaderFacts
  <2>2. StakeOf(used) >= quorum_threshold
    <3>1. tally.weight + Stake[a] >= quorum_threshold
      BY DEF completes, ReachesQuorum
    <3> HIDE DEF used
    <3> QED BY <3>1, <1>9, Thresholds
  <2> HIDE DEF S, used
  <2>3. StakeOf(S) >= quorum_threshold
    BY <2>1, <2>2, <1>9, StakeMonotone, StakeNatural, Thresholds
  <2> QED BY <2>3 DEF S, Certifies
<1>13. OwnAccepted'
  <2>1. /\ UNCHANGED ownParents /\ ballots \subseteq ballots' /\ votes' = votes
    BY <1>1 DEF proposerVars
  <2> QED BY <2>1, <1>2, <1>3, <1>5, <1>12, KeepsOwn
<1>14. Waiting'
  <2>1. panicked' \in BOOLEAN
    BY <1>1 DEF reused, again
  <2> QED BY <2>1, <1>1, <1>2, <1>5 DEF Waiting, envVars
<1> QED BY <1>5, <1>6, <1>7, <1>8, <1>11, <1>13, <1>14

\* A message that is refused, and the waiters, which hold no header of ours.
LEMMA WaitersIInv ==
    ASSUME IInv,
           \/ Refuse
           \/ \E h \in Header : WakeHeader(h)
           \/ CancelHeaders
           \/ \E c \in suspended : WakeCertificate(c)
           \/ \E h \in Loaded : StorePayload(h)
    PROVE  IInv'
<1> USE DEF IInv
<1>1. /\ UNCHANGED <<store, votes, parentsLoop, proposerVars, tallyVars, consensusRound>>
      /\ \/ UNCHANGED <<lastVoted, gathered, gcRound>>
         \/ NoDelivery(lastVoted, processing)
  BY DEF Refuse, NoDelivery, WakeHeader, CancelHeaders, WakeCertificate, StorePayload,
         coreVars, waiterVars, proposerVars, tallyVars, envVars
<1>2. VotesKept'
  <2>1. CASE UNCHANGED <<lastVoted, gathered, gcRound>>
    BY <2>1, <1>1 DEF VotesKept, OneVotePerRound
  <2>2. CASE NoDelivery(lastVoted, processing)
    <3>1. lastVoted' = {x \in lastVoted : x[2] >= GcNow} /\ gcRound' = GcNow
      BY <2>2 DEF NoDelivery, Cleanup
    <3>2. lastVoted \in SUBSET (Authority \X Round) /\ lastVoted \subseteq lastVoted
      BY DEF VotesKept
    <3>3. <<Me, 1, 0>> \in Header
      BY HeaderFacts
    <3> QED BY <3>1, <3>2, <3>3, <1>1, KeepsVotes
  <2> QED BY <1>1, <2>1, <2>2
<1>3. QuorumsGathered'
  <2>1. CASE UNCHANGED <<lastVoted, gathered, gcRound>>
    BY <2>1, <1>1 DEF QuorumsGathered, IsQuorumAt
  <2> QED BY <1>1, <2>1, KeepsGathered
<1>4. ProposerAhead'
  BY <1>1, KeepsProposer DEF proposerVars
<1>5. ProposalsOrdered'
  <2>1. lastVoted' \subseteq lastVoted
    BY <1>1 DEF NoDelivery, Cleanup
  <2> QED BY <1>1, <2>1, KeepsOrder DEF proposerVars, tallyVars
<1>6. TallyBacked'
  BY <1>1, KeepsTally
<1>7. OwnAccepted'
  BY <1>1 DEF OwnAccepted, HistoryFirst, CertifiedByQuorum, ParentsOf, proposerVars, tallyVars
<1>8. Waiting'
  <2>1. CASE Refuse
    BY <2>1 DEF Waiting, Refuse, NoDelivery, Cleanup, envVars
  <2>2. ASSUME NEW h \in Header, WakeHeader(h) PROVE Waiting'
    <3>1. h \in Others /\ pending' \subseteq pending /\ headerLoop' = headerLoop \cup {h}
          /\ UNCHANGED <<processing, panicked, suspended, certificateLoop, payload>>
      BY <2>2 DEF Waiting, WakeHeader, StillPending, coreVars, envVars
    <3> QED BY <3>1 DEF Waiting
  <2>3. CASE CancelHeaders
    BY <2>3 DEF Waiting, CancelHeaders, StillPending, coreVars, envVars
  <2>4. ASSUME NEW c \in suspended, WakeCertificate(c) PROVE Waiting'
    BY <2>4 DEF Waiting, WakeCertificate, coreVars, envVars
  <2>5. ASSUME NEW h \in Loaded, StorePayload(h) PROVE Waiting'
    BY <2>5 DEF Waiting, StorePayload, coreVars, waiterVars
  <2> QED BY <2>1, <2>2, <2>3, <2>4, <2>5
<1> QED BY <1>2, <1>3, <1>4, <1>5, <1>6, <1>7, <1>8

\* The Proposer takes a quorum of parents.
LEMMA AdvanceRoundIInv ==
    ASSUME IInv, AdvanceRound
    PROVE  IInv'
<1> USE DEF IInv
<1> DEFINE Quorum == [round : Round, parents : SUBSET (Certified \cup Own)]
           q == Head(parentsLoop)
<1>1. /\ parentsLoop # <<>> /\ parentsLoop' = Tail(parentsLoop)
      /\ proposer' = IF q.round < proposer.round THEN proposer
                     ELSE [round |-> q.round + 1, parents |-> q.parents]
      /\ UNCHANGED <<store, lastVoted, processing, gathered, gcRound, votes, panicked,
                     waiterVars, proposals, ownParents, tallyVars, envVars>>
  BY DEF AdvanceRound
<1>2. parentsLoop \in Seq(Quorum)
  BY DEF QuorumsGathered
<1>3. /\ q \in Quorum /\ q.parents \subseteq store /\ IsQuorumAt(q.round, q.parents)
      /\ parentsLoop' \in Seq(Quorum)
      /\ \A i \in DOMAIN parentsLoop' : i + 1 \in DOMAIN parentsLoop
                                       /\ parentsLoop'[i] = parentsLoop[i + 1]
  <2>1. 1 \in DOMAIN parentsLoop /\ q = parentsLoop[1]
    BY <1>1, <1>2
  <2>2. parentsLoop' \in Seq(Quorum)
    <3> HIDE DEF Quorum
    <3> QED BY <1>1, <1>2
  <2>3. \A i \in DOMAIN parentsLoop' : i + 1 \in DOMAIN parentsLoop
                                     /\ parentsLoop'[i] = parentsLoop[i + 1]
    <3> HIDE DEF Quorum
    <3> QED BY <1>1, <1>2
  <2>4. q \in Quorum
    <3> HIDE DEF Quorum
    <3> QED BY <1>1, <1>2
  <2> QED BY <2>1, <2>2, <2>3, <2>4 DEF QuorumsGathered
<1>4. VotesKept' /\ ProposalsOrdered'
  BY <1>1 DEF VotesKept, OneVotePerRound, ProposalsOrdered, envVars, tallyVars
<1>5. QuorumsGathered'
  <2>1. /\ store' = store /\ gathered' = gathered
    BY <1>1
  <2>2. \A i \in DOMAIN parentsLoop' :
           parentsLoop'[i].parents \subseteq store
           /\ IsQuorumAt(parentsLoop'[i].round, parentsLoop'[i].parents)
    BY <1>3 DEF QuorumsGathered
  <2>3. parentsLoop' \in Seq([round : Round, parents : SUBSET (Certified \cup Own)])
    BY <1>3
  <2>4. /\ store \subseteq Certified \cup Own
        /\ gathered \in [Round -> Gathering]
        /\ \A r \in Round : \A c \in gathered[r].certificates : c \in store /\ round(c) = r
    BY DEF QuorumsGathered
  <2> HIDE DEF IInv
  <2> QED BY <2>1, <2>2, <2>3, <2>4 DEF QuorumsGathered, IsQuorumAt
<1>6. ProposerAhead'
  <2>1. CASE q.round < proposer.round
    BY <1>1, <2>1, KeepsProposer
  <2>2. CASE ~ (q.round < proposer.round)
    <3>1. /\ proposer' = [round |-> q.round + 1, parents |-> q.parents]
          /\ ownParents' = ownParents /\ store' = store
      BY <1>1, <2>2
    <3>2. /\ q.round \in 0 .. MaxRound /\ MaxRound \in Nat
          /\ proposer.round \in 1 .. (MaxRound + 1)
          /\ q.parents \subseteq Certified \cup Own
      BY <1>3, HeaderFacts DEF ProposerAhead, Round
    <3>3. q.round + 1 \in 1 .. (MaxRound + 1) /\ proposer.round < q.round + 1
          /\ (q.round + 1) - 1 = q.round
      BY <3>2, <2>2
    <3>4. proposer' \in [round : 1 .. (MaxRound + 1),
                         parents : SUBSET (Certified \cup Own \cup Genesis)]
      BY <3>1, <3>2, <3>3
    <3>5. proposer'.parents \subseteq store \cup Genesis
          /\ IsQuorumAt(proposer'.round - 1, proposer'.parents)
      BY <3>1, <3>3, <1>3
    <3>6. ASSUME NEW r \in 1 .. MaxRound, ownParents[r] # {}
          PROVE  r < proposer'.round
      BY <3>6, <3>1, <3>2, <3>3 DEF ProposerAhead
    <3>7. ProposalsValid'
      BY <3>1 DEF ProposerAhead, ProposalsValid, CheckedParents, ParentsOf
    <3> QED BY <3>1, <3>4, <3>5, <3>6, <3>7 DEF ProposerAhead, IsQuorumAt
  <2> QED BY <2>1, <2>2
<1>7. TallyBacked'
  BY <1>1, KeepsTally
<1>8. OwnAccepted' /\ Waiting'
  BY <1>1 DEF OwnAccepted, HistoryFirst, CertifiedByQuorum, ParentsOf, Waiting, waiterVars,
              envVars, tallyVars
<1> QED BY <1>4, <1>5, <1>6, <1>7, <1>8

\* The round of a new header is above those of all headers of ours so far.
LEMMA RoundIsNew ==
    ASSUME IInv, proposer.parents # {}
    PROVE  /\ \A r \in proposer.round .. MaxRound : ownParents[r] = {}
           /\ \A i \in DOMAIN proposals : round(proposals[i]) < proposer.round
           /\ round(current) < proposer.round
<1> USE DEF IInv
<1>1. proposer.round \in 1 .. (MaxRound + 1) /\ MaxRound \in Nat
  BY HeaderFacts DEF ProposerAhead
<1>2. \A r \in 1 .. MaxRound : ownParents[r] # {} => r < proposer.round
  BY DEF ProposerAhead
<1>3. \A r \in proposer.round .. MaxRound : ownParents[r] = {}
  BY <1>1, <1>2
<1>4. \A i \in DOMAIN proposals : round(proposals[i]) \in 1 .. MaxRound
  BY HeaderFacts DEF ProposalsOrdered, Header
<1>5. \A i \in DOMAIN proposals : round(proposals[i]) < proposer.round
  BY <1>2, <1>4 DEF ProposalsOrdered
<1>6. round(current) < proposer.round
  <2>1. CASE current \in Own
    <3>1. ownParents[round(current)] # {} /\ round(current) \in 1 .. MaxRound
      BY <2>1, HeaderFacts DEF TallyBacked, OwnAccepted, Header
    <3> QED BY <3>1, <1>2
  <2>2. CASE current = NoHeader
    BY <2>2, <1>1, HeaderFacts
  <2> QED BY <2>1, <2>2 DEF ProposalsOrdered
<1> QED BY <1>3, <1>5, <1>6

\* The Proposer makes a header on the quorum that it has (make_header).
LEMMA MakeHeaderIInv ==
    ASSUME IInv, MakeHeader
    PROVE  IInv'
<1> USE DEF IInv
<1> DEFINE p == proposer.round
           h == <<Me, p, 0>>
<1>1. /\ proposer.parents # {} /\ p <= LastProposal
      /\ ownParents' = [ownParents EXCEPT ![p] = proposer.parents]
      /\ proposals' = Append(proposals, h)
      /\ proposer' = [proposer EXCEPT !.parents = {}]
      /\ UNCHANGED <<coreVars, waiterVars, tallyVars, envVars>>
  BY DEF MakeHeader
<1>2. p \in 1 .. MaxRound /\ MaxRound \in Nat /\ h \in Own /\ round(h) = p /\ author(h) = Me
  <2>1. LastProposal \in 0 .. MaxRound
    BY PrimaryAssumption DEF Round
  <2> QED BY <2>1, <1>1, HeaderFacts DEF ProposerAhead
<1>3. /\ \A r \in p .. MaxRound : ownParents[r] = {}
      /\ \A i \in DOMAIN proposals : round(proposals[i]) < p
      /\ round(current) < p
  BY <1>1, RoundIsNew
<1>4. \A r \in 1 .. MaxRound : ownParents'[r] = IF r = p THEN proposer.parents ELSE ownParents[r]
  BY <1>1, <1>2 DEF ProposerAhead
<1>5. /\ UNCHANGED <<store, votes, lastVoted, gathered, gcRound, consensusRound, parentsLoop,
                     current, tally, ballots>>
  BY <1>1 DEF coreVars, tallyVars, envVars
<1>6. VotesKept' /\ QuorumsGathered' /\ TallyBacked' /\ Waiting'
  BY <1>1 DEF VotesKept, OneVotePerRound, QuorumsGathered, IsQuorumAt, TallyBacked, Waiting,
              coreVars, waiterVars, tallyVars, envVars
<1>7. ProposerAhead'
  <2>1. /\ proposer' \in [round : 1 .. (MaxRound + 1),
                          parents : SUBSET (Certified \cup Own \cup Genesis)]
        /\ proposer'.parents = {} /\ proposer'.round = p
        /\ proposer.parents \subseteq Certified \cup Own \cup Genesis
    BY <1>1, <1>2 DEF ProposerAhead
  <2>2. ownParents' \in [1 .. MaxRound -> SUBSET (Certified \cup Own \cup Genesis)]
    BY <1>1, <1>2, <2>1 DEF ProposerAhead
  <2>3. ASSUME NEW r \in 1 .. MaxRound, ownParents'[r] # {}
        PROVE  /\ ownParents'[r] \subseteq store \cup Genesis
               /\ CheckedParents(<<Me, r, 0>>)'
    <3>1. author(<<Me, r, 0>>) = Me /\ round(<<Me, r, 0>>) = r
      BY HeaderFacts
    <3>2. CASE r = p
      <4>1. /\ proposer.parents \subseteq store \cup Genesis
            /\ IsQuorumAt(r - 1, proposer.parents)
        BY <1>1, <3>2 DEF ProposerAhead
      <4>2. (r - 1) + 1 = r
        BY <1>2, <3>2
      <4> QED BY <1>4, <3>1, <3>2, <4>1, <4>2 DEF CheckedParents, ParentsOf, IsQuorumAt
    <3>3. CASE r # p
      <4>1. ownParents'[r] = ownParents[r]
        BY <1>4, <3>3
      <4>2. ownParents[r] \subseteq store \cup Genesis /\ CheckedParents(<<Me, r, 0>>)
        BY <2>3, <4>1 DEF ProposerAhead, ProposalsValid
      <4> QED BY <3>1, <4>1, <4>2 DEF CheckedParents, ParentsOf
    <3> QED BY <3>2, <3>3
  <2>4. ProposalsValid'
    BY <2>3, <1>5 DEF ProposalsValid
  <2>5. ASSUME NEW r \in 1 .. MaxRound, ownParents'[r] # {}
        PROVE  r < p \/ r = p
    BY <2>5, <1>2, <1>3, <1>4
  <2> QED BY <2>1, <2>2, <2>4, <2>5 DEF ProposerAhead
<1>8. \A r \in 1 .. MaxRound : ownParents[r] # {} => ownParents'[r] = ownParents[r]
  BY <1>2, <1>3, <1>4
<1>9. ProposalsOrdered'
  <2>1. proposals \in Seq(Own) /\ proposals' \in Seq(Own)
    BY <1>1, <1>2 DEF ProposalsOrdered
  <2>2. \A i \in DOMAIN proposals' :
           \/ i \in DOMAIN proposals /\ proposals'[i] = proposals[i]
           \/ i = Len(proposals) + 1 /\ proposals'[i] = h
    <3> HIDE DEF h
    <3> QED BY <1>1, <2>1
  <2>3. \A i \in DOMAIN proposals : i \in 1 .. Len(proposals) /\ Len(proposals) \in Nat
    BY <2>1
  <2>4. ASSUME NEW i \in DOMAIN proposals'
        PROVE  /\ round(proposals'[i]) > round(current)
               /\ ownParents'[round(proposals'[i])] # {}
               /\ \A j \in DOMAIN proposals' : i < j => round(proposals'[i]) < round(proposals'[j])
    <3>1. CASE i \in DOMAIN proposals /\ proposals'[i] = proposals[i]
      <4>1. /\ round(proposals[i]) > round(current) /\ ownParents[round(proposals[i])] # {}
            /\ round(proposals[i]) \in 1 .. MaxRound /\ round(proposals[i]) < p
        <5>1. proposals[i] \in Own /\ i \in DOMAIN proposals
          BY <2>1, <3>1
        <5>2. round(proposals[i]) \in 1 .. MaxRound
          BY <5>1, HeaderFacts
        <5>3. round(proposals[i]) > round(current) /\ ownParents[round(proposals[i])] # {}
          BY <5>1 DEF ProposalsOrdered
        <5>4. round(proposals[i]) < p
          BY <5>1, <1>3
        <5> QED BY <5>2, <5>3, <5>4
      <4>2. ownParents'[round(proposals[i])] # {}
        BY <4>1, <1>8
      <4>3. ASSUME NEW j \in DOMAIN proposals', i < j
            PROVE  round(proposals'[i]) < round(proposals'[j])
        BY <4>3, <3>1, <4>1, <2>2, <1>2 DEF ProposalsOrdered
      <4> QED BY <3>1, <4>1, <4>2, <4>3
    <3>2. CASE i = Len(proposals) + 1 /\ proposals'[i] = h
      <4>1. ownParents'[p] # {}
        BY <1>1, <1>2, <1>4
      <4>2. \A j \in DOMAIN proposals' : ~ (i < j)
        BY <3>2, <2>2, <2>3, <2>1
      <4>3. round(proposals'[i]) = p
        BY <3>2, <1>2
      <4>4. p > round(current)
        <5>1. round(current) \in 0 .. MaxRound
          BY HeaderFacts DEF ProposalsOrdered, Header
        <5> QED BY <5>1, <1>2, <1>3
      <4> QED BY <4>1, <4>2, <4>3, <4>4
    <3> QED BY <2>2, <3>1, <3>2
  <2> QED BY <2>1, <2>4, <1>5 DEF ProposalsOrdered
<1>10. OwnAccepted'
  <2>1. \A g \in (votes \cup store) \cap Own :
           round(g) \in 1 .. MaxRound /\ ownParents'[round(g)] = ownParents[round(g)]
           /\ ownParents[round(g)] # {}
    BY <1>8, HeaderFacts DEF OwnAccepted, Header
  <2>2. \A c \in store : ParentsOf(c)' = ParentsOf(c)
    <3> SUFFICES ASSUME NEW c \in store PROVE ParentsOf(c)' = ParentsOf(c)
      OBVIOUS
    <3>1. CASE c \in Own
      BY <3>1, <2>1 DEF ParentsOf
    <3>2. CASE c \in Certified
      BY <3>2, HeaderFacts DEF ParentsOf
    <3> QED BY <3>1, <3>2 DEF QuorumsGathered
  <2> QED BY <2>1, <2>2, <1>5 DEF OwnAccepted, HistoryFirst, CertifiedByQuorum
<1> QED BY <1>6, <1>7, <1>9, <1>10

\* The consensus commits, so that the Core may collect more.
LEMMA CollectGarbageIInv ==
    ASSUME IInv, NEW r \in Round, CollectGarbage(r)
    PROVE  IInv'
<1> USE DEF IInv
<1>1. /\ r > consensusRound /\ consensusRound' = r
      /\ UNCHANGED <<coreVars, waiterVars, proposerVars, tallyVars, payload>>
  BY DEF CollectGarbage
<1>2. VotesKept'
  <2>1. gcRound = 0 \/ gcRound + GcDepth <= r
    BY <1>1, HeaderFacts DEF VotesKept, Round
  <2> QED BY <1>1, <2>1 DEF VotesKept, OneVotePerRound, coreVars
<1>3. ProposerAhead' /\ TallyBacked'
  BY <1>1, KeepsProposer, KeepsTally DEF coreVars, proposerVars
<1>4. QuorumsGathered' /\ ProposalsOrdered' /\ Waiting'
  BY <1>1 DEF QuorumsGathered, IsQuorumAt, ProposalsOrdered, Waiting,
              coreVars, waiterVars, proposerVars, tallyVars
<1>5. OwnAccepted'
  BY <1>1 DEF OwnAccepted, HistoryFirst, CertifiedByQuorum, ParentsOf, coreVars,
              proposerVars, tallyVars
<1> QED BY <1>2, <1>3, <1>4, <1>5

-----------------------------------------------------------------------------
(***************************************************************************)
(* The theorems.                                                           *)
(***************************************************************************)

\* Whatever headers, certificates and votes arrive, in whatever order and
\* however late, the tasks of a primary keep the invariant.
THEOREM SafetyInvariant == Spec => []IInv
<1>1. IInv /\ [Next]_vars => IInv'
  <2> SUFFICES ASSUME IInv, [Next]_vars PROVE IInv'
    OBVIOUS
  <2>1. headerLoop \subseteq Others /\ certificateLoop \subseteq Certified
    BY DEF IInv, Waiting
  <2>2. ASSUME NEW c \in Certified, ReceiveCertificate(c)
        PROVE  IInv'
    <3>1. ProcessCertificate(c) /\ certificateLoop' \subseteq certificateLoop
      BY <2>2 DEF ReceiveCertificate
    <3> QED BY <3>1, ProcessCertificateIInv
  <2>3. ASSUME NEW h \in Announced, ReceiveHeader(h)
        PROVE  IInv'
    <3>1. h \in Others /\ ProcessHeader(h) /\ headerLoop' \subseteq headerLoop
      BY <2>3, HeaderFacts DEF ReceiveHeader
    <3> QED BY <3>1, ProcessHeaderIInv
  <2>4. ASSUME NEW h \in headerLoop, LoopHeader(h)
        PROVE  IInv'
    <3>1. h \in Others /\ ProcessHeader(h) /\ headerLoop' \subseteq headerLoop
      BY <2>1, <2>4 DEF LoopHeader
    <3> QED BY <3>1, ProcessHeaderIInv
  <2>5. ASSUME NEW c \in certificateLoop, LoopCertificate(c)
        PROVE  IInv'
    <3>1. c \in Certified /\ ProcessCertificate(c) /\ certificateLoop' \subseteq certificateLoop
      BY <2>1, <2>5 DEF LoopCertificate
    <3> QED BY <3>1, ProcessCertificateIInv
  <2>6. CASE ProposeHeader
    BY <2>6, ProposeHeaderIInv
  <2>7. CASE \E a \in Authority \ {Me}, h \in Own : ReceiveVote(a, h)
    BY <2>7, ReceiveVoteIInv
  <2>8. CASE AdvanceRound
    BY <2>8, AdvanceRoundIInv
  <2>9. CASE MakeHeader
    BY <2>9, MakeHeaderIInv
  <2>10. CASE \E r \in Round : CollectGarbage(r)
    BY <2>10, CollectGarbageIInv
  <2>11. CASE \/ Refuse
              \/ \E h \in Header : WakeHeader(h)
              \/ CancelHeaders
              \/ \E c \in suspended : WakeCertificate(c)
              \/ \E h \in Loaded : StorePayload(h)
    BY <2>11, WaitersIInv
  <2>12. CASE UNCHANGED vars
    <3>1. UNCHANGED <<coreVars, waiterVars, proposerVars, tallyVars, envVars>>
      BY <2>12 DEF vars
    <3>2. UNCHANGED <<ProposalsValid, HistoryFirst>>
      BY <3>1 DEF ProposalsValid, HistoryFirst, CheckedParents, ParentsOf, coreVars,
                  proposerVars
    <3>3. VotesKept' /\ QuorumsGathered' /\ Waiting'
      BY <3>1 DEF IInv, VotesKept, OneVotePerRound, QuorumsGathered, IsQuorumAt, Waiting,
                  coreVars, waiterVars, envVars
    <3>4. ProposerAhead' /\ ProposalsOrdered'
      BY <3>1, <3>2 DEF IInv, ProposerAhead, ProposalsOrdered, IsQuorumAt, coreVars,
                        proposerVars, tallyVars
    <3>5. TallyBacked' /\ OwnAccepted'
      BY <3>1, <3>2 DEF IInv, TallyBacked, OwnAccepted, CertifiedByQuorum, coreVars,
                        proposerVars, tallyVars
    <3> QED BY <3>3, <3>4, <3>5 DEF IInv
  <2> QED BY <2>2, <2>3, <2>4, <2>5, <2>6, <2>7, <2>8, <2>9, <2>10, <2>11, <2>12
          DEF Next, CoreStep, OtherStep
<1> QED BY InitIInv, <1>1, PTL DEF Spec

\* Type correctness of the tasks of a primary; no tally outgrows the stake.
THEOREM TypeCorrect == Spec => []TypeOK
<1>1. IInv => TypeOK
  <2> SUFFICES ASSUME IInv PROVE TypeOK
    OBVIOUS
  <2> USE DEF IInv
  <2>1. \A r \in Round : gathered[r].used \subseteq Authority
                         /\ gathered[r].certificates \subseteq store
    BY DEF QuorumsGathered, Gathering
  <2>2. tally.used \subseteq Authority /\ tally.weight \in 0 .. TotalStake
    <3>1. /\ tally.used \subseteq Authority /\ tally.weight \in Nat
          /\ tally.weight <= StakeOf(tally.used)
      BY DEF TallyBacked
    <3>2. StakeOf(tally.used) \in Nat /\ TotalStake \in Nat
          /\ StakeOf(tally.used) <= TotalStake
      BY <3>1, StakeBounded, StakeNatural DEF TotalStake
    <3> QED BY <3>1, <3>2
  <2>3. Others \subseteq Header
    BY DEF Header
  <2> QED BY <2>1, <2>2, <2>3 DEF VotesKept, QuorumsGathered, ProposerAhead, ProposalsOrdered,
             TallyBacked, Waiting, TypeOK
<1> QED BY SafetyInvariant, <1>1, PTL

\* `last_voted' does what it is for, although the cleanup forgets part of it
\* and headers come back from the waiters: of two headers of one author and
\* round, one gets our vote.
THEOREM VotesOnce == Spec => []OneVotePerRound
<1>1. IInv => OneVotePerRound
  BY DEF IInv, VotesKept
<1> QED BY SafetyInvariant, <1>1, PTL

\* deliver_certificate keeps what Consensus::run relies on: the history of a
\* certificate is stored, and sent, before the certificate.
THEOREM StoresHistoryFirst == Spec => []HistoryFirst
<1>1. IInv => HistoryFirst
  BY DEF IInv, OwnAccepted
<1> QED BY SafetyInvariant, <1>1, PTL

\* What CertificatesAggregator hands to the Proposer passes the checks of
\* process_header in every other primary.
THEOREM ProposesOnQuorums == Spec => []ProposalsValid
<1>1. IInv => ProposalsValid
  BY DEF IInv, ProposerAhead
<1> QED BY SafetyInvariant, <1>1, PTL

\* VotesAggregator makes our certificate of the votes of a quorum for the
\* very header in it, in spite of votes for earlier headers and of reset
\* tallies.
THEOREM CertifiesByQuorum == Spec => []CertifiedByQuorum
<1>1. IInv => CertifiedByQuorum
  BY DEF IInv, OwnAccepted
<1> QED BY SafetyInvariant, <1>1, PTL

\* Nothing but make_header hands a header to the Core.
LEMMA OnlyMakeHeaderProposes ==
    ASSUME IInv, [Next]_vars, NEW h, proposals' = Append(proposals, h)
    PROVE  MakeHeader
<1>1. proposals \in Seq(Own)
  BY DEF IInv, ProposalsOrdered
<1>2. Len(proposals') = Len(proposals) + 1 /\ Len(proposals) \in Nat
  BY <1>1
<1>3. proposals' # proposals
  BY <1>2
<1>4. CASE ProposeHeader
  <2>1. proposals # <<>> /\ proposals' = Tail(proposals)
    BY <1>4 DEF ProposeHeader
  <2>2. Len(Tail(proposals)) = Len(proposals) - 1
    BY <1>1, <2>1
  <2> QED BY <2>1, <2>2, <1>2
<1>5. CASE \/ \E c \in Certified : ReceiveCertificate(c)
           \/ \E g \in Announced : ReceiveHeader(g)
           \/ \E g \in headerLoop : LoopHeader(g)
           \/ \E c \in certificateLoop : LoopCertificate(c)
  BY <1>3, <1>5 DEF ReceiveCertificate, ReceiveHeader, LoopHeader, LoopCertificate,
                    ProcessHeader, ProcessCertificate, proposerVars
<1>6. CASE \/ \E a \in Authority \ {Me}, g \in Own : ReceiveVote(a, g)
           \/ Refuse
           \/ \E c \in suspended : WakeCertificate(c)
  BY <1>3, <1>6 DEF ReceiveVote, Refuse, WakeCertificate, proposerVars
<1>7. CASE \/ AdvanceRound
           \/ \E r \in Round : CollectGarbage(r)
           \/ \E g \in Header : WakeHeader(g)
           \/ CancelHeaders
           \/ \E g \in Loaded : StorePayload(g)
           \/ UNCHANGED vars
  BY <1>3, <1>7 DEF AdvanceRound, CollectGarbage, WakeHeader, CancelHeaders, StorePayload,
                    vars, proposerVars
<1> QED BY <1>4, <1>5, <1>6, <1>7 DEF Next, CoreStep, OtherStep

\* The Proposer never proposes twice in a round nor goes back: its headers
\* would find no other vote.
THEOREM ProposesInOrder == Spec => RoundsIncrease
<1>1. ASSUME IInv, [Next]_vars
      PROVE  [\A h \in Own : proposals' = Append(proposals, h) =>
                 \A r \in round(h) .. MaxRound : ownParents[r] = {}]_vars
  <2> SUFFICES ASSUME NEW h \in Own, proposals' = Append(proposals, h)
               PROVE  \A r \in round(h) .. MaxRound : ownParents[r] = {}
    OBVIOUS
  <2> DEFINE made == <<Me, proposer.round, 0>>
  <2>1. MakeHeader
    BY <1>1, OnlyMakeHeaderProposes
  <2>2. proposer.parents # {} /\ proposals' = Append(proposals, made)
    BY <2>1 DEF MakeHeader
  <2>3. round(made) = proposer.round
    BY DEF round
  <2>4. h = made
    <3>1. proposals \in Seq(Own)
      BY <1>1 DEF IInv, ProposalsOrdered
    <3> HIDE DEF made
    <3>2. /\ Append(proposals, h)[Len(proposals) + 1] = h
          /\ Append(proposals, made)[Len(proposals) + 1] = made
      BY <3>1
    <3> QED BY <2>2, <3>2
  <2> QED BY <1>1, <2>2, <2>3, <2>4, RoundIsNew
<1> QED BY SafetyInvariant, <1>1, PTL DEF Spec, RoundsIncrease

-----------------------------------------------------------------------------
(***************************************************************************)
(* A primary with its requests is a primary.                               *)
(***************************************************************************)

\* Whatever the HeaderWaiter, the Helpers and the workers do is a step of the
\* primary, or none.
LEMMA SyncSteps == SyncNext => [Next]_vars
<1> SUFFICES ASSUME SyncNext PROVE [Next]_vars
  OBVIOUS
<1>1. ASSUME Tick PROVE [Next]_vars
  <2>1. CASE pending' = pending
    BY <1>1, <2>1 DEF Tick, coreVars, waiterVars, proposerVars, tallyVars, envVars, vars
  <2>2. CASE pending' # pending
    BY <1>1, <2>2 DEF Tick, Next, CancelHeaders
  <2> QED BY <2>1, <2>2
<1>2. CASE \E c \in Certified : CertificateArrives(c)
  BY <1>2 DEF CertificateArrives, Next
<1>3. CASE CoreStep \/ OtherStep
  BY <1>3 DEF Next
<1>4. CASE \E h \in Header : ResumeHeader(h)
  BY <1>4 DEF ResumeHeader, Next
<1>5. CASE IdleTick
  BY <1>1, <1>5 DEF IdleTick
<1>6. CASE \E a \in Answering, p \in Others : RetryParent(a, p) \/ LoseRequest(a, p)
  BY <1>1, <1>6 DEF RetryParent, LoseRequest
<1>7. CASE \E a \in Answering, p \in Certified : AnswerRequest(a, p)
  BY <1>7 DEF AnswerRequest
<1>8. CASE \E h \in Loaded : AnnouncePayload(h)
  BY <1>8 DEF AnnouncePayload, Next
<1> QED BY <1>2, <1>3, <1>4, <1>5, <1>6, <1>7, <1>8 DEF SyncNext

\* The primary of module Primary, where certificates arrive at any time, is
\* implemented by the one that requests what it misses: all the theorems of
\* PrimaryProofs carry over.
THEOREM SyncImplementsPrimary == SyncSpec => Spec
<1>1. SyncInit => Init
  BY DEF SyncInit
<1>2. [SyncNext]_allVars => [Next]_vars
  <2>1. UNCHANGED allVars => UNCHANGED vars
    BY DEF allVars
  <2> QED BY <2>1, SyncSteps
<1> QED BY <1>1, <1>2, PTL DEF SyncSpec, Spec

-----------------------------------------------------------------------------
(***************************************************************************)
(* The inductive invariant of the requests.                                *)
(***************************************************************************)

\* Every request remembers the round of a header that has the parent.
RequestsNamed ==
    \A x \in parentRequests :
        /\ x[1] \in Others
        /\ \E g \in Others : x[1] \in Links[g] /\ x[2] = round(g)

\* A header waits for its batches only once its parents are there.
PayloadLast ==
    \A h \in Others : <<h, "payload">> \in pending => MissingParents(h) = {}

RequestInv == RequestsNamed /\ PayloadLast /\ AskedFor

\* The parents of another authority's header are what it links to.
LEMMA LinksFacts ==
    ASSUME NEW h \in Others
    PROVE  /\ ParentsOf(h) = Links[h] /\ ParentsOf(h)' = Links[h]
           /\ MissingParents(h) = Links[h] \ (store \cup Genesis)
           /\ MissingParents(h)' = Links[h] \ (store' \cup Genesis)
           /\ MissingParents(h) \subseteq Others
<1>1. ParentsOf(h) = Links[h] /\ ParentsOf(h)' = Links[h]
  BY HeaderFacts DEF ParentsOf
<1>2. Links[h] \subseteq Others \cup Genesis
  BY PrimaryAssumption
<1> QED BY <1>1, <1>2 DEF MissingParents

\* The cleanup of an iteration: what is of a later round stays.
Kept(r) == consensusRound > GcDepth => r > consensusRound - GcDepth

LEMMA KeptFacts ==
    /\ \A S : StillPending(S) = {x \in S : Kept(round(x[1]))}
    /\ \A S : StillRequested(S) = {x \in S : Kept(x[2])}
  BY DEF StillPending, StillRequested, Kept

\* consensus_round never goes back, and with it what is collected.
LEMMA CollectedStays ==
    ASSUME IInv, consensusRound' \in Nat, consensusRound <= consensusRound',
           NEW p, NEW h, h \in Others, RequestCollected(p, h)
    PROVE  RequestCollected(p, h)'
<1>1. PICK g \in Others : /\ p \in ParentsOf(g)
                         /\ round(g) < round(h)
                         /\ consensusRound > GcDepth
                         /\ round(g) <= consensusRound - GcDepth
  BY DEF RequestCollected
<1>2. p \in ParentsOf(g)'
  BY <1>1, LinksFacts
<1>3. round(g) \in Nat /\ consensusRound \in Nat /\ GcDepth \in Nat
  BY PrimaryAssumption DEF IInv, VotesKept, Round, round
<1>4. consensusRound' > GcDepth /\ round(g) <= consensusRound' - GcDepth
  BY <1>1, <1>3
<1> QED BY <1>1, <1>2, <1>4 DEF RequestCollected

\* A request that the cleanup drops while a header needs it was made for a
\* header of a lower round, which is collected.
LEMMA DroppedIsCollected ==
    ASSUME IInv, RequestsNamed, NEW h \in Others, Kept(round(h)),
           NEW x \in parentRequests, ~ Kept(x[2])
    PROVE  RequestCollected(x[1], h)
<1>1. PICK g \in Others : x[1] \in Links[g] /\ x[2] = round(g)
  BY DEF RequestsNamed
<1>2. round(g) \in Nat /\ round(h) \in Nat /\ consensusRound \in Nat /\ GcDepth \in Nat
  BY PrimaryAssumption DEF IInv, VotesKept, Round, round
<1>3. /\ round(g) < round(h)
      /\ consensusRound > GcDepth
      /\ round(g) <= consensusRound - GcDepth
  BY <1>1, <1>2 DEF Kept
<1> QED BY <1>1, <1>3, LinksFacts DEF RequestCollected

\* A message that the Core handles stores certificates and drops none, and
\* suspends at most one header, for its parents first.
LEMMA MessageFacts ==
    ASSUME IInv, CoreStep \/ \E c \in Certified : ReceiveCertificate(c)
    PROVE  /\ store \subseteq store'
           /\ consensusRound' \in Nat /\ consensusRound <= consensusRound'
           /\ \/ pending' = pending
              \/ \E h \in Header :
                    pending' = StillPending(pending \cup
                        {<<h, IF MissingParents(h) # {} THEN "parents" ELSE "payload">>})
<1> DEFINE Suspends ==
        \/ pending' = pending
        \/ \E h \in Header :
              pending' = StillPending(pending \cup
                  {<<h, IF MissingParents(h) # {} THEN "parents" ELSE "payload">>})
<1>a. consensusRound' = consensusRound
  BY DEF CoreStep, ReceiveCertificate, LoopCertificate, ProcessCertificate, ReceiveHeader,
         LoopHeader, ProcessHeader, ProposeHeader, ReceiveVote, Refuse, envVars
<1>b. consensusRound \in Nat
  BY PrimaryAssumption DEF IInv, VotesKept, Round
<1> SUFFICES store \subseteq store' /\ Suspends
  BY <1>a, <1>b
<1>1. ASSUME NEW h \in Header, pending' = PendingWith(h) \/ pending' = pending PROVE Suspends
  BY <1>1 DEF PendingWith
<1>2. ASSUME NEW c, NEW voted, NEW processed,
             Deliver(c, voted, processed) \/ NoDelivery(voted, processed)
      PROVE  store \subseteq store'
  BY <1>2 DEF Deliver, NoDelivery
<1> HIDE DEF Suspends
<1>3. ASSUME NEW h \in Header, ProcessHeader(h) PROVE store \subseteq store' /\ Suspends
  <2>1. NoDelivery(VotedWith(h), processing \cup {h}) /\ pending' = PendingWith(h)
    BY <1>3 DEF ProcessHeader
  <2> QED BY <1>1, <1>2, <2>1
<1>4. ASSUME NEW c \in Header, ProcessCertificate(c) PROVE store \subseteq store' /\ Suspends
  <2>1. pending' = PendingWith(c) \/ pending' = pending
    BY <1>4 DEF ProcessCertificate
  <2>2. \E voted : \/ Deliver(c, voted, processing \cup {c})
                   \/ NoDelivery(voted, processing \cup {c})
    BY <1>4 DEF ProcessCertificate
  <2> QED BY <1>1, <1>2, <2>1, <2>2
<1>5. Certified \subseteq Header /\ Announced \subseteq Header /\ Own \subseteq Header
  BY HeaderFacts DEF Header
<1>6. CASE \/ \E c \in Certified : ReceiveCertificate(c)
           \/ \E c \in certificateLoop : LoopCertificate(c)
  <2>1. PICK c \in Header : ProcessCertificate(c)
    BY <1>5, <1>6 DEF ReceiveCertificate, LoopCertificate, IInv, Waiting
  <2> QED BY <1>4, <2>1 DEF Suspends
<1>7. CASE (\E h \in Announced : ReceiveHeader(h)) \/ (\E h \in headerLoop : LoopHeader(h))
  <2>1. PICK h \in Header : ProcessHeader(h)
    BY <1>5, <1>7 DEF ReceiveHeader, LoopHeader, IInv, Waiting, Header
  <2> QED BY <1>3, <2>1 DEF Suspends
<1>8. CASE ProposeHeader
  <2> DEFINE h == Head(proposals)
  <2>1. h \in Header
    BY <1>5, <1>8 DEF ProposeHeader, IInv, ProposalsOrdered
  <2>2. pending' = PendingWith(h)
    BY <1>8 DEF ProposeHeader
  <2>3. \/ Deliver(h, VotedWith(h), processing \cup {h})
        \/ NoDelivery(VotedWith(h), processing \cup {h})
    BY <1>8 DEF ProposeHeader
  <2> QED BY <1>1, <1>2, <2>1, <2>2, <2>3 DEF Suspends
<1>9. ASSUME NEW a, NEW h \in Own, ReceiveVote(a, h) PROVE store \subseteq store' /\ Suspends
  <2>1. current \in Header /\ (pending' = PendingWith(current) \/ pending' = pending)
    BY <1>5, <1>9 DEF ReceiveVote
  <2>2. \E voted, processed : \/ Deliver(current, voted, processed)
                              \/ NoDelivery(voted, processed)
    BY <1>9 DEF ReceiveVote
  <2> QED BY <1>1, <1>2, <2>1, <2>2
<1>10. CASE Refuse
  BY <1>2, <1>10 DEF Refuse, Suspends
<1> QED BY <1>6, <1>7, <1>8, <1>9, <1>10 DEF CoreStep, Suspends

\* What a handled message adds to the requests is what the header that it
\* suspends waits for.
LEMMA MessageKeepsRequests ==
    ASSUME RequestInv, IInv, Waiting',
           CoreStep \/ \E c \in Certified : ReceiveCertificate(c), SyncParents
    PROVE  RequestInv'
<1>0. consensusRound' \in Nat /\ consensusRound <= consensusRound'
  BY MessageFacts
<1>1. store \subseteq store'
  BY MessageFacts
<1>2. CASE pending' = pending
  <2>1. parentRequests' = parentRequests
    BY <1>2 DEF SyncParents
  <2>2. \A h \in Others : MissingParents(h)' \subseteq MissingParents(h)
    BY <1>1, LinksFacts
  <2>3. RequestsNamed' /\ PayloadLast'
    BY <1>2, <2>1, <2>2 DEF RequestInv, RequestsNamed, PayloadLast
  <2>4. ASSUME NEW h \in Header, <<h, "parents">> \in pending',
               NEW p \in MissingParents(h)' \ Requested(parentRequests')
        PROVE  RequestCollected(p, h)'
    <3>1. h \in Others
      BY <1>2, <2>4 DEF IInv, Waiting
    <3>2. RequestCollected(p, h)
      BY <1>2, <2>1, <2>2, <2>4, <3>1 DEF RequestInv, AskedFor
    <3> QED BY <1>0, <3>1, <3>2, CollectedStays
  <2> QED BY <2>3, <2>4 DEF RequestInv, AskedFor
<1>3. CASE pending' # pending
  <2>1. PICK h \in Header : pending' = StillPending(pending \cup
            {<<h, IF MissingParents(h) # {} THEN "parents" ELSE "payload">>})
    BY <1>3, MessageFacts
  <2> DEFINE why == IF MissingParents(h) # {} THEN "parents" ELSE "payload"
             entries == {ParentEntry(x[1], x[2]) : x \in Unrequested}
  <2>2. \A x \in pending' : Kept(round(x[1])) /\ (x \in pending \/ x = <<h, why>>)
    BY <2>1, KeptFacts
  <2>3. parentRequests' = {x \in parentRequests \cup entries : Kept(x[2])}
    BY <1>3, KeptFacts DEF SyncParents
  <2>4. ASSUME NEW x \in entries
        PROVE  x[1] \in Others /\ \E g \in Others : x[1] \in Links[g] /\ x[2] = round(g)
    <3>1. PICK y \in Unrequested : x = <<y[1], round(y[2])>>
      BY <2>4 DEF ParentEntry
    <3>2. y[1] \in Others /\ y[2] \in NewlyPending("parents") /\ y[1] \in MissingParents(y[2])
      BY DEF Unrequested
    <3>3. y[2] \in Others
      BY <3>2 DEF NewlyPending, Waiting
    <3>4. y[1] \in Links[y[2]]
      BY <3>2, <3>3, LinksFacts
    <3> QED BY <3>1, <3>2, <3>3, <3>4
  <2>5. RequestsNamed'
    BY <2>3, <2>4 DEF RequestInv, RequestsNamed
  <2>6. PayloadLast'
    <3> SUFFICES ASSUME NEW g \in Others, <<g, "payload">> \in pending'
                 PROVE  MissingParents(g)' = {}
      BY DEF PayloadLast
    <3>1. MissingParents(g) = {}
      BY <2>2 DEF RequestInv, PayloadLast
    <3> QED BY <1>1, <3>1, LinksFacts
  <2>7. ASSUME NEW g \in Others, <<g, "parents">> \in pending', NEW p \in MissingParents(g)'
        PROVE  (\E x \in parentRequests' : x[1] = p) \/ RequestCollected(p, g)'
    <3>1. p \in MissingParents(g) /\ p \in Others
      BY <1>1, <2>7, LinksFacts
    <3>2. Kept(round(g))
      BY <2>2, <2>7
    <3>3. CASE p \in Requested(parentRequests)
      <4>1. PICK x \in parentRequests : x[1] = p
        BY <3>3 DEF Requested
      <4>2. CASE Kept(x[2])
        BY <2>3, <4>1, <4>2
      <4>3. CASE ~ Kept(x[2])
        <5>1. RequestCollected(p, g)
          BY <3>2, <4>1, <4>3, DroppedIsCollected DEF RequestInv
        <5> QED BY <1>0, <5>1, CollectedStays
      <4> QED BY <4>2, <4>3
    <3>4. CASE p \notin Requested(parentRequests) /\ <<g, "parents">> \in pending
      <4>1. RequestCollected(p, g)
        BY <3>1, <3>4, HeaderFacts DEF RequestInv, AskedFor
      <4> QED BY <1>0, <4>1, CollectedStays
    <3>5. CASE p \notin Requested(parentRequests) /\ <<g, "parents">> \notin pending
      <4>1. g \in NewlyPending("parents")
        BY <2>7, <3>5 DEF NewlyPending
      <4>2. <<p, g>> \in Unrequested
        BY <3>1, <3>5, <4>1 DEF Unrequested
      <4>3. <<p, round(g)>> \in entries
        BY <4>2 DEF ParentEntry
      <4> QED BY <2>3, <3>2, <4>3
    <3> QED BY <3>3, <3>4, <3>5
  <2>8. \A g \in Header : <<g, "parents">> \in pending' => g \in Others
    BY DEF Waiting
  <2>9. AskedFor'
    BY <2>7, <2>8 DEF AskedFor, Requested
  <2> QED BY <2>5, <2>6, <2>9 DEF RequestInv
<1> QED BY <1>2, <1>3

\* A step that drops requests only with the headers that wait for them.
LEMMA DropKeepsRequests ==
    ASSUME RequestInv, IInv, IInv', store \subseteq store',
           consensusRound <= consensusRound',
           pending' \subseteq pending, parentRequests' \subseteq parentRequests,
           \A g \in Others : <<g, "parents">> \in pending' =>
              \A x \in parentRequests :
                  x[1] \in MissingParents(g) =>
                      x \in parentRequests' \/ (Kept(round(g)) /\ ~ Kept(x[2]))
    PROVE  RequestInv'
<1>1. RequestsNamed'
  BY DEF RequestInv, RequestsNamed
<1>2. \A g \in Others : MissingParents(g)' \subseteq MissingParents(g)
  BY LinksFacts
<1>3. PayloadLast'
  BY <1>2 DEF RequestInv, PayloadLast
<1>4. consensusRound' \in Nat
  BY PrimaryAssumption DEF IInv, VotesKept, Round
<1>5. ASSUME NEW g \in Header, <<g, "parents">> \in pending',
             NEW p \in MissingParents(g)' \ Requested(parentRequests')
      PROVE  RequestCollected(p, g)'
  <2>1. g \in Others /\ p \in MissingParents(g)
    BY <1>2, <1>5 DEF IInv, Waiting
  <2>2. CASE p \in Requested(parentRequests)
    <3>1. PICK x \in parentRequests : x[1] = p
      BY <2>2 DEF Requested
    <3>2. x \notin parentRequests'
      BY <1>5, <3>1 DEF Requested
    <3>3. Kept(round(g)) /\ ~ Kept(x[2])
      BY <1>5, <2>1, <3>1, <3>2
    <3>4. RequestCollected(p, g)
      BY <2>1, <3>1, <3>3, DroppedIsCollected DEF RequestInv
    <3> QED BY <1>4, <2>1, <3>4, CollectedStays
  <2>3. CASE p \notin Requested(parentRequests)
    <3>1. RequestCollected(p, g)
      BY <1>5, <2>1, <2>3 DEF RequestInv, AskedFor
    <3> QED BY <1>4, <2>1, <3>1, CollectedStays
  <2> QED BY <2>2, <2>3
<1> QED BY <1>1, <1>3, <1>5 DEF RequestInv, AskedFor

\* The cleanup of the timer drops a request without the header that needs it
\* only if it was made for a header of a lower round.
LEMMA TickKeepsRequests ==
    ASSUME RequestInv, IInv, IInv', Tick
    PROVE  RequestInv'
<1>1. /\ pending' = {x \in pending : Kept(round(x[1]))}
      /\ parentRequests' = {x \in parentRequests : Kept(x[2])}
      /\ store' = store /\ consensusRound' = consensusRound
  BY KeptFacts DEF Tick, coreVars, envVars
<1>2. \A g \in Others : <<g, "parents">> \in pending' => Kept(round(g))
  BY <1>1
<1>3. \A x \in parentRequests : Kept(x[2]) => x \in parentRequests'
  BY <1>1
<1>4. pending' \subseteq pending /\ parentRequests' \subseteq parentRequests
  BY <1>1
<1>5. consensusRound <= consensusRound'
  BY <1>1, PrimaryAssumption DEF IInv, VotesKept, Round
<1> HIDE DEF Kept
<1> QED BY <1>1, <1>2, <1>3, <1>4, <1>5, DropKeepsRequests

\* A header that is complete waits for nothing, and its parents, which are
\* there, are not what another header waits for.
LEMMA ResumeKeepsRequests ==
    ASSUME RequestInv, IInv, IInv', NEW h \in Header, ResumeHeader(h)
    PROVE  RequestInv'
<1>1. /\ pending' = {x \in pending : x[1] # h /\ Kept(round(x[1]))}
      /\ parentRequests' = {x \in parentRequests : x[1] \notin ParentsOf(h) /\ Kept(x[2])}
      /\ store' = store /\ consensusRound' = consensusRound
  BY KeptFacts DEF ResumeHeader, WakeHeader, coreVars, envVars
<1>2. h \in Others /\ MissingParents(h) = {}
  <2>1. \/ <<h, "parents">> \in pending /\ MissingParents(h) = {}
        \/ <<h, "payload">> \in pending
    BY DEF ResumeHeader, WakeHeader
  <2>2. h \in Others
    BY <2>1 DEF IInv, Waiting
  <2> QED BY <2>1, <2>2 DEF RequestInv, PayloadLast
<1>3. \A g \in Others : MissingParents(g) \cap ParentsOf(h) = {}
  BY <1>2, LinksFacts
<1>4. \A g \in Others : <<g, "parents">> \in pending' => Kept(round(g))
  BY <1>1
<1>5. \A g \in Others : <<g, "parents">> \in pending' =>
         \A x \in parentRequests :
             x[1] \in MissingParents(g) =>
                 x \in parentRequests' \/ (Kept(round(g)) /\ ~ Kept(x[2]))
  BY <1>1, <1>3, <1>4
<1>6. pending' \subseteq pending /\ parentRequests' \subseteq parentRequests
  BY <1>1
<1>7. consensusRound <= consensusRound'
  BY <1>1, PrimaryAssumption DEF IInv, VotesKept, Round
<1> HIDE DEF Kept
<1> QED BY <1>1, <1>5, <1>6, <1>7, DropKeepsRequests

\* All steps keep the requests.
LEMMA StepKeepsRequests ==
    ASSUME RequestInv, IInv, IInv', [SyncNext]_allVars
    PROVE  RequestInv'
<1>0. consensusRound \in Nat /\ consensusRound' \in Nat
  BY PrimaryAssumption DEF IInv, VotesKept, Round
<1>1. CASE (\E c \in Certified : CertificateArrives(c)) \/ (CoreStep /\ SyncParents)
  BY <1>1, MessageKeepsRequests DEF CertificateArrives, IInv
<1>2. CASE OtherStep /\ UNCHANGED syncVars
  <2>1. store' = store /\ pending' = pending
    BY <1>2 DEF OtherStep, WakeCertificate, AdvanceRound, MakeHeader, CollectGarbage,
                coreVars, waiterVars
  <2>2. consensusRound' = consensusRound \/ consensusRound' > consensusRound
    BY <1>2 DEF OtherStep, WakeCertificate, AdvanceRound, MakeHeader, CollectGarbage, envVars
  <2>3. consensusRound <= consensusRound'
    BY <1>0, <2>2
  <2> QED BY <1>2, <2>1, <2>3, DropKeepsRequests DEF syncVars, requestVars
<1>3. CASE \E h \in Header : ResumeHeader(h)
  BY <1>3, ResumeKeepsRequests
<1>4. CASE IdleTick
  BY <1>4, TickKeepsRequests DEF IdleTick
<1>5. ASSUME NEW a \in Answering, NEW p \in Others, RetryParent(a, p) \/ LoseRequest(a, p)
      PROVE  RequestInv'
  <2>1. CASE RetryParent(a, p)
    BY <2>1, TickKeepsRequests DEF RetryParent
  <2>2. CASE LoseRequest(a, p)
    BY <1>0, <2>2, DropKeepsRequests DEF LoseRequest, requestVars, vars, coreVars, waiterVars, envVars
  <2> QED BY <1>5, <2>1, <2>2
<1>6. ASSUME NEW a, NEW p, AnswerRequest(a, p) PROVE RequestInv'
  BY <1>0, <1>6, DropKeepsRequests DEF AnswerRequest, requestVars, vars, coreVars, waiterVars, envVars
<1>7. ASSUME NEW h \in Loaded, AnnouncePayload(h) PROVE RequestInv'
  BY <1>0, <1>7, DropKeepsRequests DEF AnnouncePayload, StorePayload, syncVars, requestVars,
                                 coreVars, waiterVars
<1>8. CASE UNCHANGED allVars
  BY <1>0, <1>8, DropKeepsRequests DEF allVars, syncVars, requestVars, vars, coreVars, waiterVars, envVars
<1> QED BY <1>1, <1>2, <1>3, <1>4, <1>5, <1>6, <1>7, <1>8 DEF SyncNext

-----------------------------------------------------------------------------

\* What a suspended header waits for is among the parent requests of the
\* HeaderWaiter until the header wakes up or is too old, whoever needed the
\* same parents before, unless the request may have been made for a header of a
\* lower round that is collected. Nothing is assumed of the headers that are
\* announced: no header is checked before it is suspended.
THEOREM StaysRequested == SyncSpec => []AskedFor
<1>1. SyncInit => RequestInv
  <2> SUFFICES ASSUME SyncInit PROVE RequestInv
    OBVIOUS
  <2>1. pending = {} /\ parentRequests = {}
    BY DEF SyncInit, Init
  <2> QED BY <2>1 DEF RequestInv, RequestsNamed, PayloadLast, AskedFor
<1>2. SyncSpec => []IInv
  BY SyncImplementsPrimary, SafetyInvariant, PTL
<1>3. IInv /\ IInv' /\ RequestInv /\ [SyncNext]_allVars => RequestInv'
  BY StepKeepsRequests
<1>4. RequestInv => AskedFor
  BY DEF RequestInv
<1> QED BY <1>1, <1>2, <1>3, <1>4, PTL DEF SyncSpec
=============================================================================
