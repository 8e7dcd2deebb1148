---------------------------- MODULE WorkerProofs ----------------------------
(***************************************************************************)
(* The reliable sender and the worker that broadcasts its batches by it,   *)
(* for every set of peers, every bound and every way in which connections  *)
(* break. The sender implements the abstract channel of module Delivery    *)
(* step by step, the worker uses it as a caller may, and a batch that is   *)
(* announced is at authorities with a quorum of the stake.                 *)
(***************************************************************************)
EXTENDS Worker, TLAPS, FiniteSetTheorems, SequenceTheorems

-----------------------------------------------------------------------------
(***************************************************************************)
(* The committee: what module DagProofs proves of the stake of a set of    *)
(* authorities, for the committee of this module (no DAG).                 *)
(***************************************************************************)

Q == INSTANCE DagProofs WITH MaxRound <- 0

\* The operators of the instance are those of this module.
LEMMA SameCommittee ==
    /\ N \in Nat \ {0} /\ Stake \in [Q!Authority -> Nat] /\ Q!TotalStake \in 1 .. (2^30 - 1)
    /\ 0 \in Nat
    /\ Q!Authority = Authority /\ Q!TotalStake = TotalStake
    /\ \A T : Q!StakeOf(T) = StakeOf(T)
    /\ Q!quorum_threshold = quorum_threshold /\ Q!validity_threshold = validity_threshold
<1>1. Q!Authority = Authority
  BY DEF Authority, Q!Authority
<1>2. \A T : Q!StakeOf(T) = StakeOf(T)
  BY DEF StakeOf, Q!StakeOf, MapThenSumSet, Q!MapThenSumSet, MapThenFoldSet, Q!MapThenFoldSet
<1>3. Q!TotalStake = TotalStake
  BY <1>1, <1>2 DEF TotalStake, Q!TotalStake
<1>4. Q!quorum_threshold = quorum_threshold /\ Q!validity_threshold = validity_threshold
  BY <1>3 DEF quorum_threshold, Q!quorum_threshold, QuorumOf, Q!QuorumOf,
              validity_threshold, Q!validity_threshold, ValidityOf, Q!ValidityOf
<1> QED BY <1>1, <1>2, <1>3, <1>4, NAssumption, StakeAssumption, StakeFits

\* The stake of a set of authorities is a natural number.
LEMMA StakeNatural == \A T \in SUBSET Authority : StakeOf(T) \in Nat
  BY SameCommittee, Q!StakeNatural

\* The stake of a set with one authority more.
LEMMA StakeAdd ==
    ASSUME NEW T \in SUBSET Authority, NEW x \in Authority \ T
    PROVE  StakeOf(T \cup {x}) = StakeOf(T) + Stake[x]
  BY SameCommittee, Q!StakeAdd

\* A larger set has no less stake.
LEMMA StakeMonotone ==
    ASSUME NEW T \in SUBSET Authority, NEW S \in SUBSET T
    PROVE  StakeOf(S) <= StakeOf(T)
  BY SameCommittee, Q!StakeMonotone

\* A quorum can be had, and two quorums exceed the total by f+1.
LEMMA Thresholds ==
    /\ TotalStake \in Nat \ {0}
    /\ quorum_threshold \in 1 .. TotalStake
    /\ validity_threshold \in 1 .. quorum_threshold
    /\ 2 * quorum_threshold >= TotalStake + validity_threshold
    /\ quorum_threshold + validity_threshold > TotalStake
  BY SameCommittee, Q!Thresholds

\* Induction over the naturals, for a set.
LEMMA NatSetInduction ==
    ASSUME NEW S \in SUBSET Nat, 0 \in S, \A n \in S : n + 1 \in S
    PROVE  \A n \in Nat : n \in S
  BY SameCommittee, Q!NatSetInduction

-----------------------------------------------------------------------------
(***************************************************************************)
(* The inductive invariant of the sender, peer by peer.                    *)
(***************************************************************************)

Ascending(s) == \A i, j \in DOMAIN s : i < j => s[i] < s[j]

Below(S, T) == \A x \in S, y \in T : x < y

\* Only keep_alive has written, or is writing, anything.
IdleUnconnected(p) ==
    ~ connected[p] => pendingReplies[p] = <<>> /\ writing[p] = <<>> /\ acks[p] = 0

\* What is pending is what the ACKs on their way are for, all received, and
\* then what the live connection holds.
PendingMatchesWire(p) ==
    connected[p] =>
        /\ Live(p) > 0
        /\ Len(pendingReplies[p]) = acks[p] + Len(wires[p][Live(p)])
        /\ \A i \in 1 .. acks[p] : pendingReplies[p][i] \in received[p]
        /\ \A i \in 1 .. Len(wires[p][Live(p)]) :
              pendingReplies[p][acks[p] + i] = wires[p][Live(p)][i]

\* The four places are in the order of sending, and each of them is.
PlacesInOrder(p) ==
    /\ Ascending(pendingReplies[p]) /\ Ascending(buffer[p]) /\ Ascending(channel[p])
    /\ Below(Range(pendingReplies[p]), Range(writing[p]) \cup Range(buffer[p]) \cup Range(channel[p]))
    /\ Below(Range(writing[p]), Range(buffer[p]) \cup Range(channel[p]))
    /\ Below(Range(buffer[p]), Range(channel[p]))

Held(p) == Range(pendingReplies[p]) \cup Range(writing[p]) \cup Range(buffer[p]) \cup Range(channel[p])

\* Everything that is waited for is held, and nothing that is settled but for
\* cancelled messages.
HeldIsWaited(p) ==
    /\ \A m \in Message : handler[p][m] = "waiting" => m \in Held(p)
    /\ \A m \in Held(p) : handler[p][m] \in {"waiting", "closed"}

UsedInOrder(p) ==
    \A m \in Message : \A k \in 1 .. (m - 1) : handler[p][k] = "unused" => handler[p][m] = "unused"

\* Whichever connection a message is in, the ones before it have been received
\* or cancelled, or are in front of it.
WiresInOrder(p) ==
    \A n \in 1 .. Live(p) : \A i \in DOMAIN wires[p][n] :
        /\ handler[p][wires[p][n][i]] # "unused"
        /\ \A k \in 1 .. (wires[p][n][i] - 1) :
              \/ k \in received[p]
              \/ handler[p][k] = "closed"
              \/ \E j \in 1 .. (i - 1) : wires[p][n][j] = k

AckedReceived(p) == \A m \in Message : handler[p][m] = "acked" => m \in received[p]

PeerInv(p) ==
    /\ IdleUnconnected(p)
    /\ PendingMatchesWire(p)
    /\ PlacesInOrder(p)
    /\ HeldIsWaited(p)
    /\ UsedInOrder(p)
    /\ WiresInOrder(p)
    /\ AckedReceived(p)

SenderIInv == SenderTypeOK /\ \A p \in Peer : PeerInv(p)

-----------------------------------------------------------------------------
(***************************************************************************)
(* Sequences of messages.                                                  *)
(***************************************************************************)

LEMMA SequenceFacts ==
    ASSUME NEW s \in Seq(Message)
    PROVE  /\ Range(s) = {s[i] : i \in 1 .. Len(s)}
           /\ Range(s) \subseteq Message
           /\ Len(s) \in Nat /\ DOMAIN s = 1 .. Len(s)
           /\ s = <<>> <=> Range(s) = {}
<1>1. Range(s) = {s[i] : i \in 1 .. Len(s)} /\ DOMAIN s = 1 .. Len(s) /\ Len(s) \in Nat
  BY DEF Range
<1>2. Range(s) \subseteq Message
  BY <1>1
<1>3. ASSUME s # <<>> PROVE s[1] \in Range(s)
  <2>1. 1 \in 1 .. Len(s)
    BY <1>1, <1>3
  <2> QED BY <1>1, <2>1
<1>4. s = <<>> => Range(s) = {}
  BY <1>1
<1> QED BY <1>1, <1>2, <1>3, <1>4

\* One message, and none.
LEMMA ShortSequences ==
    /\ Range(<<>>) = {} /\ Ascending(<<>>) /\ <<>> \in Seq(Message)
    /\ \A m \in Message : Range(<<m>>) = {m} /\ Ascending(<<m>>) /\ <<m>> \in Seq(Message)
<1>1. \A m \in Message : Range(<<m>>) = {m} /\ Ascending(<<m>>) /\ <<m>> \in Seq(Message)
  BY DEF Range, Ascending
<1>2. Range(<<>>) = {} /\ Ascending(<<>>) /\ <<>> \in Seq(Message)
  BY DEF Range, Ascending
<1> QED BY <1>1, <1>2

\* Putting one sequence behind another.
LEMMA ConcatFacts ==
    ASSUME NEW s \in Seq(Message), NEW t \in Seq(Message)
    PROVE  /\ s \o t \in Seq(Message)
           /\ Range(s \o t) = Range(s) \cup Range(t)
           /\ (Ascending(s) /\ Ascending(t) /\ Below(Range(s), Range(t))) => Ascending(s \o t)
<1>1. s \o t \in Seq(Message) /\ Range(s \o t) = Range(s) \cup Range(t)
  BY RangeConcatenation
<1>2. ASSUME Ascending(s), Ascending(t), Below(Range(s), Range(t))
      PROVE  Ascending(s \o t)
  <2> DEFINE u == s \o t
  <2>1. /\ Len(s) \in Nat /\ Len(t) \in Nat /\ DOMAIN u = 1 .. (Len(s) + Len(t))
        /\ \A i \in 1 .. Len(s) : u[i] = s[i]
        /\ \A i \in (Len(s) + 1) .. (Len(s) + Len(t)) : u[i] = t[i - Len(s)]
    BY ConcatProperties
  <2> SUFFICES ASSUME NEW i \in DOMAIN u, NEW j \in DOMAIN u, i < j
               PROVE  u[i] < u[j]
    BY DEF Ascending
  <2> HIDE DEF u
  <2>2. CASE j <= Len(s)
    <3>1. i \in 1 .. Len(s) /\ j \in 1 .. Len(s)
      BY <2>1, <2>2
    <3> QED BY <2>1, <3>1, <1>2, SequenceFacts DEF Ascending
  <2>3. CASE i <= Len(s) /\ j > Len(s)
    <3>1. i \in 1 .. Len(s) /\ j \in (Len(s) + 1) .. (Len(s) + Len(t))
          /\ j - Len(s) \in 1 .. Len(t)
      BY <2>1, <2>3
    <3>2. s[i] \in Range(s) /\ t[j - Len(s)] \in Range(t)
      BY <3>1, SequenceFacts
    <3> QED BY <2>1, <3>1, <3>2, <1>2 DEF Below
  <2>4. CASE i > Len(s)
    <3>1. /\ i \in (Len(s) + 1) .. (Len(s) + Len(t)) /\ j \in (Len(s) + 1) .. (Len(s) + Len(t))
          /\ i - Len(s) \in 1 .. Len(t) /\ j - Len(s) \in 1 .. Len(t)
          /\ i - Len(s) < j - Len(s)
      BY <2>1, <2>4
    <3>2. t[i - Len(s)] < t[j - Len(s)]
      BY <3>1, <1>2, SequenceFacts DEF Ascending
    <3> QED BY <2>1, <3>1, <3>2
  <2> QED BY <2>1, <2>2, <2>3, <2>4
<1> QED BY <1>1, <1>2

\* Putting one message behind a sequence.
LEMMA AppendFacts ==
    ASSUME NEW s \in Seq(Message), NEW m \in Message
    PROVE  /\ Append(s, m) \in Seq(Message)
           /\ Len(Append(s, m)) = Len(s) + 1 /\ Append(s, m)[Len(s) + 1] = m
           /\ \A i \in 1 .. Len(s) : Append(s, m)[i] = s[i]
           /\ Range(Append(s, m)) = Range(s) \cup {m}
           /\ (Ascending(s) /\ Below(Range(s), {m})) => Ascending(Append(s, m))
<1>1. Append(s, m) = s \o <<m>>
  BY AppendIsConcat
<1>2. <<m>> \in Seq(Message) /\ Range(<<m>>) = {m} /\ Ascending(<<m>>)
  BY ShortSequences
<1> DEFINE t == <<m>>
<1> HIDE DEF t
<1>3. /\ s \o t \in Seq(Message)
      /\ Range(s \o t) = Range(s) \cup Range(t)
      /\ (Ascending(s) /\ Ascending(t) /\ Below(Range(s), Range(t))) => Ascending(s \o t)
  BY <1>2, ConcatFacts DEF t
<1>4. /\ Len(Append(s, m)) = Len(s) + 1 /\ Append(s, m)[Len(s) + 1] = m
      /\ \A i \in 1 .. Len(s) : Append(s, m)[i] = s[i]
  BY AppendProperties
<1> QED BY <1>1, <1>2, <1>3, <1>4 DEF t

\* Taking the oldest message out.
LEMMA TailFacts ==
    ASSUME NEW s \in Seq(Message), s # <<>>
    PROVE  /\ Head(s) \in Message /\ Tail(s) \in Seq(Message)
           /\ Range(s) = {Head(s)} \cup Range(Tail(s))
           /\ Ascending(s) => Ascending(Tail(s)) /\ Below({Head(s)}, Range(Tail(s)))
<1>1. /\ Head(s) \in Message /\ Tail(s) \in Seq(Message) /\ Head(s) = s[1]
      /\ Len(s) \in Nat /\ Len(s) > 0 /\ Len(Tail(s)) = Len(s) - 1
      /\ \A i \in 1 .. Len(Tail(s)) : Tail(s)[i] = s[i + 1]
  BY HeadTailProperties
<1>2. Range(s) = {s[i] : i \in 1 .. Len(s)} /\ Range(Tail(s)) = {Tail(s)[i] : i \in 1 .. Len(Tail(s))}
  BY <1>1, SequenceFacts
<1>3. ASSUME NEW i \in 1 .. Len(s), i # 1
      PROVE  i - 1 \in 1 .. Len(Tail(s)) /\ Tail(s)[i - 1] = s[i]
  <2>1. i - 1 \in 1 .. Len(Tail(s)) /\ (i - 1) + 1 = i
    BY <1>1, <1>3
  <2> QED BY <1>1, <2>1
<1>4. \A i \in 1 .. Len(Tail(s)) : i + 1 \in 1 .. Len(s)
  BY <1>1
<1>5. Range(s) = {Head(s)} \cup Range(Tail(s))
  <2>1. \A i \in 1 .. Len(s) : s[i] \in {Head(s)} \cup Range(Tail(s))
    BY <1>1, <1>2, <1>3
  <2>2. 1 \in 1 .. Len(s)
    BY <1>1
  <2>3. {Head(s)} \cup Range(Tail(s)) \subseteq Range(s)
    BY <1>1, <1>2, <1>4, <2>2
  <2> QED BY <1>2, <2>1, <2>3
<1>6. ASSUME Ascending(s)
      PROVE  Ascending(Tail(s)) /\ Below({Head(s)}, Range(Tail(s)))
  <2>1. \A i, j \in 1 .. Len(s) : i < j => s[i] < s[j]
    BY <1>6, <1>1 DEF Ascending
  <2>2. Below({Head(s)}, Range(Tail(s)))
    <3>1. \A i \in 1 .. Len(Tail(s)) : s[1] < Tail(s)[i]
      BY <1>1, <1>4, <2>1
    <3> QED BY <1>1, <1>2, <3>1 DEF Below
  <2>3. \A i, j \in 1 .. Len(Tail(s)) : i < j => Tail(s)[i] < Tail(s)[j]
    BY <1>1, <1>4, <2>1
  <2> QED BY <2>2, <2>3, <1>1, SequenceFacts DEF Ascending
<1> QED BY <1>1, <1>5, <1>6

\* One step of the recursion of Retained, and its solutions up to n.
KeptStep(g, p, s, i) ==
    IF i = 0 THEN <<>>
    ELSE IF Open(p, s[i]) THEN Append(g[i - 1], s[i]) ELSE g[i - 1]

IsKept(g, p, s, n) == g = [i \in 0 .. n |-> KeptStep(g, p, s, i)]

LEMMA KeptExists ==
    ASSUME NEW p \in Peer, NEW s \in Seq(Message)
    PROVE  \E g : IsKept(g, p, s, Len(s))
<1> DEFINE Good == {n \in Nat : \E g : IsKept(g, p, s, n)}
<1>1. 0 \in Good
  <2> DEFINE g == [i \in 0 .. 0 |-> <<>>]
  <2>1. IsKept(g, p, s, 0)
    BY DEF IsKept, KeptStep
  <2> QED BY <2>1
<1>2. ASSUME NEW n \in Good PROVE n + 1 \in Good
  <2>1. PICK g : IsKept(g, p, s, n)
    BY <1>2
  <2> DEFINE h == [i \in 0 .. (n + 1) |-> KeptStep(g, p, s, i)]
  <2>2. n \in Nat /\ \A i \in 0 .. (n + 1) : i = 0 \/ i - 1 \in 0 .. n
    BY <1>2
  <2>3. \A i \in 0 .. n : i \in 0 .. (n + 1) /\ g[i] = KeptStep(g, p, s, i)
    <3>1. \A i \in 0 .. n : i \in 0 .. (n + 1)
      BY <2>2
    <3>2. \A i \in 0 .. n : g[i] = KeptStep(g, p, s, i)
      <4>1. g = [i \in 0 .. n |-> KeptStep(g, p, s, i)]
        BY <2>1 DEF IsKept
      <4> QED BY <4>1
    <3> QED BY <3>1, <3>2
  <2>4. \A i \in 0 .. n : h[i] = g[i]
    BY <2>3
  <2>5. \A i \in 0 .. (n + 1) : KeptStep(h, p, s, i) = KeptStep(g, p, s, i)
    <3> HIDE DEF h
    <3> QED BY <2>2, <2>4 DEF KeptStep
  <2>6. IsKept(h, p, s, n + 1)
    BY <2>5 DEF IsKept
  <2> HIDE DEF h
  <2> QED BY <2>2, <2>6
<1>3. \A n \in Nat : n \in Good
  <2> Good \in SUBSET Nat
    OBVIOUS
  <2> HIDE DEF Good
  <2> QED BY <1>1, <1>2, NatSetInduction
<1> QED BY <1>3, SequenceFacts

\* buffer.retain keeps the messages that are not cancelled, in their order.
LEMMA RetainedFacts ==
    ASSUME NEW p \in Peer, NEW s \in Seq(Message)
    PROVE  /\ Retained(p, s) \in Seq(Message)
           /\ Range(Retained(p, s)) = {m \in Range(s) : Open(p, m)}
           /\ Ascending(s) => Ascending(Retained(p, s))
<1> DEFINE g == CHOOSE f : IsKept(f, p, s, Len(s))
           First(i) == {s[k] : k \in 1 .. i}
           Right(i) == /\ g[i] \in Seq(Message)
                       /\ Range(g[i]) = {m \in First(i) : Open(p, m)}
                       /\ Ascending(s) => Ascending(g[i])
           Good == {n \in Nat : n <= Len(s) => Right(n)}
<1>1. Retained(p, s) = g[Len(s)]
  BY DEF Retained, IsKept, KeptStep
<1>2. IsKept(g, p, s, Len(s)) /\ Len(s) \in Nat
  BY KeptExists, SequenceFacts
<1> HIDE DEF g
<1>3. \A i \in 0 .. Len(s) : g[i] = KeptStep(g, p, s, i)
  BY <1>2 DEF IsKept
<1>4. 0 \in Good
  <2>1. g[0] = <<>>
    BY <1>2, <1>3 DEF KeptStep
  <2>2. First(0) = {}
    OBVIOUS
  <2> QED BY <2>1, <2>2, ShortSequences
<1>5. ASSUME NEW n \in Good, n + 1 <= Len(s) PROVE Right(n + 1)
  <2>1. n \in Nat /\ Right(n)
    BY <1>2, <1>5
  <2> DEFINE m == s[n + 1]
  <2>2. m \in Message /\ First(n + 1) = First(n) \cup {m} /\ First(n) \subseteq Message
    <3>1. n + 1 \in 1 .. Len(s) /\ \A i \in 1 .. n : i \in 1 .. Len(s)
      BY <1>2, <1>5, <2>1
    <3>2. \A i \in 1 .. (n + 1) : i \in 1 .. n \/ i = n + 1
      BY <2>1
    <3>3. \A i \in 1 .. n : i \in 1 .. (n + 1)
      BY <2>1
    <3>4. n + 1 \in 1 .. (n + 1)
      BY <2>1
    <3> QED BY <3>1, <3>2, <3>3, <3>4
  <2>3. g[n + 1] = IF Open(p, m) THEN Append(g[n], m) ELSE g[n]
    <3>1. n + 1 \in 0 .. Len(s) /\ n + 1 # 0 /\ (n + 1) - 1 = n
      BY <1>2, <1>5, <2>1
    <3> QED BY <1>3, <3>1 DEF KeptStep
  <2>4. Ascending(s) => Below(Range(g[n]), {m})
    <3>1. \A i \in 1 .. n : i \in DOMAIN s /\ n + 1 \in DOMAIN s /\ i < n + 1
      BY <1>2, <1>5, <2>1, SequenceFacts
    <3> QED BY <2>1, <3>1 DEF Ascending, Below
  <2> HIDE DEF m, First
  <2>5. CASE Open(p, m)
    <3>1. g[n + 1] = Append(g[n], m) /\ g[n] \in Seq(Message)
      BY <2>1, <2>3, <2>5
    <3>2. /\ Append(g[n], m) \in Seq(Message)
          /\ Range(Append(g[n], m)) = Range(g[n]) \cup {m}
          /\ (Ascending(g[n]) /\ Below(Range(g[n]), {m})) => Ascending(Append(g[n], m))
      BY <2>2, <3>1, AppendFacts
    <3> QED BY <2>1, <2>2, <2>4, <2>5, <3>1, <3>2
  <2>6. CASE ~ Open(p, m)
    BY <2>1, <2>2, <2>3, <2>6
  <2> QED BY <2>5, <2>6
<1>6. \A n \in Nat : n \in Good
  <2>1. ASSUME NEW n \in Good PROVE n + 1 \in Good
    <3>1. n \in Nat /\ n + 1 \in Nat
      BY <2>1
    <3>2. n + 1 <= Len(s) => Right(n + 1)
      BY <1>5, <2>1
    <3> HIDE DEF Right
    <3> QED BY <3>1, <3>2
  <2>2. Good \in SUBSET Nat
    OBVIOUS
  <2> HIDE DEF Good
  <2> QED BY <1>4, <2>1, <2>2, NatSetInduction
<1>7. Right(Len(s))
  <2> HIDE DEF Right
  <2>1. Len(s) \in Good
    <3> HIDE DEF Good
    <3> QED BY <1>2, <1>6
  <2> QED BY <2>1, <1>2
<1>8. First(Len(s)) = Range(s)
  BY SequenceFacts
<1> QED BY <1>1, <1>7, <1>8

-----------------------------------------------------------------------------
(***************************************************************************)
(* The steps of the sender keep the invariant.                             *)
(***************************************************************************)

LEMMA TypeAt ==
    ASSUME SenderTypeOK, NEW p \in Peer
    PROVE  /\ channel[p] \in Seq(Message) /\ buffer[p] \in Seq(Message)
           /\ pendingReplies[p] \in Seq(Message)
           /\ writing[p] \in Seq(Message)
           /\ writing[p] = <<>> \/ \E m \in Message : writing[p] = <<m>>
           /\ connected[p] \in BOOLEAN /\ acks[p] \in Nat
           /\ wires[p] \in Seq(Seq(Message)) /\ Live(p) \in Nat
           /\ \A n \in 1 .. Live(p) : wires[p][n] \in Seq(Message)
           /\ received[p] \in SUBSET Message
           /\ handler[p] \in [Message -> {"unused", "waiting", "acked", "closed"}]
           /\ Held(p) \subseteq Message
<1>1. writing[p] = <<>> \/ \E m \in Message : writing[p] = <<m>>
  BY DEF SenderTypeOK
<1>2. writing[p] \in Seq(Message)
  BY <1>1, ShortSequences
<1>3. channel[p] \in Seq(Message) /\ buffer[p] \in Seq(Message)
      /\ pendingReplies[p] \in Seq(Message)
  BY DEF SenderTypeOK
<1>4. Held(p) \subseteq Message
  BY <1>2, <1>3, SequenceFacts DEF Held
<1>5. wires[p] \in Seq(Seq(Message))
  BY DEF SenderTypeOK
<1>6. Live(p) \in Nat /\ \A n \in 1 .. Live(p) : wires[p][n] \in Seq(Message)
  BY <1>5 DEF Live
<1> QED BY <1>1, <1>2, <1>3, <1>4, <1>5, <1>6 DEF SenderTypeOK

SameAt(p) ==
    UNCHANGED <<channel[p], buffer[p], writing[p], pendingReplies[p], connected[p],
                wires[p], acks[p], received[p], handler[p]>>

\* A step at one peer leaves the invariant of the others alone.
LEMMA OnePeer ==
    ASSUME SenderIInv, NEW p \in Peer, SenderTypeOK',
           \A q \in Peer \ {p} : SameAt(q),
           PeerInv(p)'
    PROVE  SenderIInv'
<1>1. ASSUME NEW q \in Peer, SameAt(q), PeerInv(q)
      PROVE  PeerInv(q)'
  <2>1. IdleUnconnected(q)' /\ PendingMatchesWire(q)'
    BY <1>1 DEF SameAt, PeerInv, IdleUnconnected, PendingMatchesWire, Live
  <2>2. PlacesInOrder(q)' /\ HeldIsWaited(q)'
    BY <1>1 DEF SameAt, PeerInv, PlacesInOrder, HeldIsWaited, Held
  <2>3. UsedInOrder(q)' /\ WiresInOrder(q)' /\ AckedReceived(q)'
    BY <1>1 DEF SameAt, PeerInv, UsedInOrder, WiresInOrder, AckedReceived, Live
  <2> QED BY <2>1, <2>2, <2>3 DEF PeerInv
<1> QED BY <1>1 DEF SenderIInv

\* A step that only moves messages between the places of the sender.
LEMMA KeepsRecord ==
    ASSUME NEW p \in Peer, PeerInv(p), UNCHANGED <<wires[p], received[p], handler[p]>>
    PROVE  UsedInOrder(p)' /\ WiresInOrder(p)' /\ AckedReceived(p)'
  BY DEF PeerInv, UsedInOrder, WiresInOrder, AckedReceived, Live

LEMMA SenderInitIInv == SenderInit => SenderIInv
<1> SUFFICES ASSUME SenderInit PROVE SenderIInv
  OBVIOUS
<1> USE DEF SenderInit
<1>1. SenderTypeOK
  <2>1. \A p \in Peer : Live(p) = 0 /\ MaxConnections[p] \in Nat /\ Len(channel[p]) = 0
    BY SenderAssumption DEF Live
  <2> QED BY <2>1, SenderAssumption DEF SenderTypeOK
<1>2. ASSUME NEW p \in Peer PROVE PeerInv(p)
  <2>1. /\ channel[p] = <<>> /\ buffer[p] = <<>> /\ writing[p] = <<>> /\ pendingReplies[p] = <<>>
        /\ ~ connected[p] /\ wires[p] = <<>> /\ acks[p] = 0
        /\ \A m \in Message : handler[p][m] = "unused"
    BY <1>2
  <2>2. Held(p) = {}
    BY <2>1, ShortSequences DEF Held
  <2>3. PlacesInOrder(p)
    BY <2>1, ShortSequences DEF PlacesInOrder, Below
  <2>4. IdleUnconnected(p) /\ PendingMatchesWire(p) /\ HeldIsWaited(p) /\ AckedReceived(p)
    BY <2>1, <2>2 DEF IdleUnconnected, PendingMatchesWire, HeldIsWaited, AckedReceived
  <2>5. UsedInOrder(p) /\ WiresInOrder(p)
    BY <2>1 DEF UsedInOrder, WiresInOrder, Live
  <2> QED BY <2>3, <2>4, <2>5 DEF PeerInv
<1> QED BY <1>1, <1>2 DEF SenderIInv

\* ReliableSender::send.
LEMMA SendIInv ==
    ASSUME SenderIInv, NEW p \in Peer, NEW m \in Message, Send(p, m)
    PROVE  SenderIInv'
<1> USE DEF SenderIInv
<1>1. /\ handler[p][m] = "unused" /\ \A k \in 1 .. (m - 1) : handler[p][k] # "unused"
      /\ Len(channel[p]) < ChannelCap
      /\ channel' = [channel EXCEPT ![p] = Append(@, m)]
      /\ handler' = [handler EXCEPT ![p] = [@ EXCEPT ![m] = "waiting"]]
      /\ UNCHANGED <<buffer, writing, pendingReplies, connected, wires, acks, received>>
  BY DEF Send
<1>2. /\ channel'[p] = Append(channel[p], m)
      /\ \A x \in Message : handler'[p][x] = IF x = m THEN "waiting" ELSE handler[p][x]
      /\ UNCHANGED <<buffer[p], writing[p], pendingReplies[p], connected[p], wires[p],
                     acks[p], received[p]>>
  BY <1>1 DEF SenderTypeOK
<1>3. /\ channel'[p] \in Seq(Message) /\ Range(channel'[p]) = Range(channel[p]) \cup {m}
      /\ (Ascending(channel[p]) /\ Below(Range(channel[p]), {m})) => Ascending(channel'[p])
  <2>1. channel[p] \in Seq(Message)
    BY TypeAt
  <2>2. channel'[p] = Append(channel[p], m)
    BY <1>2
  <2> HIDE DEF SenderIInv
  <2>3. /\ Append(channel[p], m) \in Seq(Message)
        /\ Range(Append(channel[p], m)) = Range(channel[p]) \cup {m}
        /\ (Ascending(channel[p]) /\ Below(Range(channel[p]), {m}))
              => Ascending(Append(channel[p], m))
    BY <2>1, AppendFacts
  <2> QED BY <2>2, <2>3
<1>4. SenderTypeOK'
  <2>1. Len(channel'[p]) <= ChannelCap
    <3>1. Len(channel'[p]) = Len(channel[p]) + 1 /\ Len(channel[p]) \in Nat /\ ChannelCap \in Nat
      BY <1>2, TypeAt, SenderAssumption
    <3> QED BY <3>1, <1>1
  <2>2. \A q \in Peer : Len(channel'[q]) <= ChannelCap
    BY <1>1, <2>1 DEF SenderTypeOK
  <2>3. channel' \in [Peer -> Seq(Message)]
        /\ handler' \in [Peer -> [Message -> {"unused", "waiting", "acked", "closed"}]]
    BY <1>1, <1>3 DEF SenderTypeOK
  <2> QED BY <1>1, <2>2, <2>3 DEF SenderTypeOK, Live
<1>5. \A q \in Peer \ {p} : SameAt(q)
  BY <1>1 DEF SenderTypeOK, SameAt
<1>6. Below(Held(p), {m})
  <2> SUFFICES ASSUME NEW x \in Held(p) PROVE x < m
    BY DEF Below
  <2>1. x \in Message /\ handler[p][x] # "unused"
    BY TypeAt DEF PeerInv, HeldIsWaited
  <2>2. x # m
    BY <1>1, <2>1
  <2>3. ~ (m < x)
    <3>1. m < x => m \in 1 .. (x - 1)
      BY <2>1 DEF Message
    <3> QED BY <1>1, <2>1, <3>1 DEF PeerInv, UsedInOrder
  <2> QED BY <2>1, <2>2, <2>3 DEF Message
<1>7. PlacesInOrder(p)'
  BY <1>2, <1>3, <1>6 DEF PeerInv, PlacesInOrder, Held, Below
<1>8. HeldIsWaited(p)'
  <2>1. Held(p)' = Held(p) \cup {m}
    BY <1>2, <1>3 DEF Held
  <2> QED BY <1>2, <2>1, TypeAt DEF PeerInv, HeldIsWaited
<1>9. UsedInOrder(p)'
  <2>1. \A x \in Message : \A k \in 1 .. (x - 1) : k \in Message
    BY SenderAssumption DEF Message
  <2> QED BY <1>1, <1>2, <2>1 DEF PeerInv, UsedInOrder
<1>10. WiresInOrder(p)'
  <2> SUFFICES ASSUME NEW n \in 1 .. Live(p), NEW i \in DOMAIN wires[p][n]
               PROVE  /\ handler'[p][wires[p][n][i]] # "unused"
                      /\ \A k \in 1 .. (wires[p][n][i] - 1) :
                            \/ k \in received[p]
                            \/ handler'[p][k] = "closed"
                            \/ \E j \in 1 .. (i - 1) : wires[p][n][j] = k
    BY <1>2 DEF WiresInOrder, Live
  <2>1. wires[p][n][i] \in Message
    BY TypeAt
  <2>2. \A k \in 1 .. (wires[p][n][i] - 1) : k \in Message
    BY <2>1, SenderAssumption DEF Message
  <2> QED BY <1>1, <1>2, <2>1, <2>2 DEF PeerInv, WiresInOrder
<1>11. IdleUnconnected(p)' /\ PendingMatchesWire(p)' /\ AckedReceived(p)'
  BY <1>2 DEF PeerInv, IdleUnconnected, PendingMatchesWire, AckedReceived, Live
<1> QED BY <1>4, <1>5, <1>7, <1>8, <1>9, <1>10, <1>11, OnePeer DEF PeerInv

\* The caller drops cancel handlers.
LEMMA CancelIInv ==
    ASSUME SenderIInv, NEW dropped, Cancel(dropped)
    PROVE  SenderIInv'
<1> USE DEF SenderIInv
<1>1. /\ \A p \in Peer : \A m \in Message :
            handler'[p][m] = IF <<p, m>> \in dropped /\ handler[p][m] = "waiting"
                             THEN "closed" ELSE handler[p][m]
      /\ handler' = Cancelled(dropped)
      /\ UNCHANGED <<channel, buffer, writing, pendingReplies, connected, wires, acks, received>>
  BY DEF Cancel, Cancelled
<1>2. SenderTypeOK'
  <2>1. handler' \in [Peer -> [Message -> {"unused", "waiting", "acked", "closed"}]]
    BY <1>1 DEF Cancelled, SenderTypeOK
  <2> QED BY <1>1, <2>1 DEF SenderTypeOK, Live
<1>3. ASSUME NEW p \in Peer PROVE PeerInv(p)'
  <2>1. IdleUnconnected(p)' /\ PendingMatchesWire(p)' /\ PlacesInOrder(p)'
    BY <1>1 DEF PeerInv, IdleUnconnected, PendingMatchesWire, PlacesInOrder, Live
  <2>2. HeldIsWaited(p)'
    <3>1. Held(p)' = Held(p) /\ Held(p) \subseteq Message
      BY <1>1, TypeAt DEF Held
    <3> QED BY <1>1, <3>1 DEF PeerInv, HeldIsWaited
  <2>3. UsedInOrder(p)' /\ AckedReceived(p)'
    <3>1. \A x \in Message : \A k \in 1 .. (x - 1) : k \in Message
      BY SenderAssumption DEF Message
    <3>2. UsedInOrder(p) /\ AckedReceived(p)
      BY DEF PeerInv
    <3>3. /\ \A x \in Message : handler'[p][x] = "unused" <=> handler[p][x] = "unused"
          /\ \A x \in Message : handler'[p][x] = "acked" => handler[p][x] = "acked"
          /\ received'[p] = received[p]
      BY <1>1
    <3> HIDE DEF SenderIInv
    <3>4. UsedInOrder(p)'
      BY <3>1, <3>2, <3>3 DEF UsedInOrder
    <3>5. AckedReceived(p)'
      BY <3>2, <3>3 DEF AckedReceived
    <3> QED BY <3>4, <3>5
  <2>4. WiresInOrder(p)'
    <3> SUFFICES ASSUME NEW n \in 1 .. Live(p), NEW i \in DOMAIN wires[p][n]
                 PROVE  /\ handler'[p][wires[p][n][i]] # "unused"
                        /\ \A k \in 1 .. (wires[p][n][i] - 1) :
                              \/ k \in received[p]
                              \/ handler'[p][k] = "closed"
                              \/ \E j \in 1 .. (i - 1) : wires[p][n][j] = k
      BY <1>1 DEF WiresInOrder, Live
    <3>1. wires[p][n][i] \in Message
      BY TypeAt
    <3>2. \A k \in 1 .. (wires[p][n][i] - 1) : k \in Message
      BY <3>1, SenderAssumption DEF Message
    <3>3. /\ handler[p][wires[p][n][i]] # "unused"
          /\ \A k \in 1 .. (wires[p][n][i] - 1) :
                \/ k \in received[p]
                \/ handler[p][k] = "closed"
                \/ \E j \in 1 .. (i - 1) : wires[p][n][j] = k
      BY DEF PeerInv, WiresInOrder
    <3>4. \A m \in Message : /\ handler[p][m] # "unused" => handler'[p][m] # "unused"
                             /\ handler[p][m] = "closed" => handler'[p][m] = "closed"
      BY <1>1
    <3> HIDE DEF SenderIInv
    <3> QED BY <3>1, <3>2, <3>3, <3>4
  <2> QED BY <2>1, <2>2, <2>3, <2>4 DEF PeerInv
<1> QED BY <1>2, <1>3

\* Between two attempts to connect, a message moves into the buffer and the
\* cancelled ones are dropped from it.
LEMMA DrainChannelIInv ==
    ASSUME SenderIInv, NEW p \in Peer, DrainChannel(p)
    PROVE  SenderIInv'
<1> DEFINE h == Head(channel[p])
           all == Append(buffer[p], h)
<1>1. /\ ~ connected[p] /\ channel[p] # <<>>
      /\ buffer' = [buffer EXCEPT ![p] = Retained(p, all)]
      /\ channel' = [channel EXCEPT ![p] = Tail(@)]
      /\ UNCHANGED <<writing, pendingReplies, connected, wires, acks, received, handler>>
  BY DEF DrainChannel
<1>2. SenderTypeOK /\ PeerInv(p)
  BY DEF SenderIInv
<1>3. /\ buffer'[p] = Retained(p, all) /\ channel'[p] = Tail(channel[p])
      /\ UNCHANGED <<writing[p], pendingReplies[p], connected[p], wires[p], acks[p],
                     received[p], handler[p]>>
  BY <1>1, <1>2 DEF SenderTypeOK
<1>4. /\ h \in Message /\ Tail(channel[p]) \in Seq(Message)
      /\ Range(channel[p]) = {h} \cup Range(Tail(channel[p]))
      /\ Ascending(channel[p]) => Ascending(Tail(channel[p])) /\ Below({h}, Range(Tail(channel[p])))
  <2>1. channel[p] \in Seq(Message)
    BY <1>2, TypeAt
  <2> QED BY <1>1, <2>1, TailFacts
<1>5. /\ all \in Seq(Message) /\ Range(all) = Range(buffer[p]) \cup {h}
      /\ (Ascending(buffer[p]) /\ Below(Range(buffer[p]), {h})) => Ascending(all)
  <2>1. buffer[p] \in Seq(Message)
    BY <1>2, TypeAt
  <2> QED BY <1>4, <2>1, AppendFacts
<1> HIDE DEF h, all
<1>6. /\ Retained(p, all) \in Seq(Message)
      /\ Range(Retained(p, all)) = {m \in Range(all) : Open(p, m)}
      /\ Ascending(all) => Ascending(Retained(p, all))
  BY <1>5, RetainedFacts
<1>7. /\ pendingReplies[p] = <<>> /\ writing[p] = <<>> /\ Range(<<>>) = {}
      /\ PlacesInOrder(p) /\ HeldIsWaited(p)
  BY <1>1, <1>2, ShortSequences DEF PeerInv, IdleUnconnected
<1>8. SenderTypeOK'
  <2>1. Len(Tail(channel[p])) <= ChannelCap
    <3>1. channel[p] \in Seq(Message) /\ Len(channel[p]) <= ChannelCap /\ ChannelCap \in Nat
      BY <1>2, SenderAssumption DEF SenderTypeOK
    <3>2. Len(Tail(channel[p])) = Len(channel[p]) - 1 /\ Len(channel[p]) \in Nat
      BY <1>1, <3>1
    <3> QED BY <3>1, <3>2
  <2> QED BY <1>1, <1>2, <1>4, <1>6, <2>1 DEF SenderTypeOK, Live
<1>9. PlacesInOrder(p)'
  <2>1. Below(Range(buffer[p]), {h}) /\ Ascending(all)
    BY <1>4, <1>5, <1>7 DEF PlacesInOrder, Below
  <2>2. Below(Range(buffer'[p]), Range(channel'[p]))
    BY <1>3, <1>4, <1>5, <1>6, <1>7 DEF PlacesInOrder, Below
  <2>3. Ascending(buffer'[p]) /\ Ascending(channel'[p])
    BY <1>3, <1>4, <1>6, <1>7, <2>1 DEF PlacesInOrder
  <2> QED BY <1>3, <1>7, <2>2, <2>3, ShortSequences DEF PlacesInOrder, Below
<1>10. HeldIsWaited(p)'
  <2>1. Held(p) = Range(all) \cup Range(Tail(channel[p]))
    BY <1>4, <1>5, <1>7 DEF Held
  <2>2. Held(p)' = {m \in Range(all) : Open(p, m)} \cup Range(Tail(channel[p]))
    BY <1>3, <1>6, <1>7 DEF Held
  <2> QED BY <1>3, <1>7, <2>1, <2>2 DEF HeldIsWaited, Open
<1>11. IdleUnconnected(p)' /\ PendingMatchesWire(p)'
  BY <1>1, <1>2, <1>3 DEF PeerInv, IdleUnconnected, PendingMatchesWire
<1>12. \A q \in Peer \ {p} : SameAt(q)
  BY <1>1, <1>2 DEF SenderTypeOK, SameAt
<1> QED BY <1>2, <1>3, <1>8, <1>9, <1>10, <1>11, <1>12, KeepsRecord, OnePeer DEF PeerInv

\* What is known of one message in a connection.
InOrderAt(p, n, i) ==
    /\ handler[p][wires[p][n][i]] # "unused"
    /\ \A k \in 1 .. (wires[p][n][i] - 1) :
          \/ k \in received[p]
          \/ handler[p][k] = "closed"
          \/ \E j \in 1 .. (i - 1) : wires[p][n][j] = k

\* It stays so while the connection is the same up to that message.
LEMMA InOrderKept ==
    ASSUME NEW p, NEW n, NEW i, InOrderAt(p, n, i),
           handler'[p] = handler[p], received'[p] = received[p],
           wires'[p][n][i] = wires[p][n][i],
           \A j \in 1 .. (i - 1) : wires'[p][n][j] = wires[p][n][j]
    PROVE  InOrderAt(p, n, i)'
<1>1. handler'[p][wires'[p][n][i]] # "unused"
  BY DEF InOrderAt
<1>2. ASSUME NEW k \in 1 .. (wires'[p][n][i] - 1)
      PROVE  \/ k \in received'[p]
             \/ handler'[p][k] = "closed"
             \/ \E j \in 1 .. (i - 1) : wires'[p][n][j] = k
  <2>1. k \in 1 .. (wires[p][n][i] - 1)
    OBVIOUS
  <2>2. \/ k \in received[p]
        \/ handler[p][k] = "closed"
        \/ \E j \in 1 .. (i - 1) : wires[p][n][j] = k
    BY <2>1 DEF InOrderAt
  <2>3. CASE \E j \in 1 .. (i - 1) : wires[p][n][j] = k
    BY <2>3
  <2> QED BY <2>2, <2>3
<1> QED BY <1>1, <1>2 DEF InOrderAt

\* keep_alive starts on a connection that holds nothing.
LEMMA ConnectIInv ==
    ASSUME SenderIInv, NEW p \in Peer, Connect(p)
    PROVE  SenderIInv'
<1>1. /\ ~ connected[p] /\ Live(p) < MaxConnections[p]
      /\ connected' = [connected EXCEPT ![p] = TRUE]
      /\ wires' = [wires EXCEPT ![p] = Append(@, <<>>)]
      /\ UNCHANGED <<channel, buffer, writing, pendingReplies, acks, received, handler>>
  BY DEF Connect
<1>2. SenderTypeOK /\ PeerInv(p)
  BY DEF SenderIInv
<1>3. /\ wires'[p] = Append(wires[p], <<>>)
      /\ UNCHANGED <<channel[p], buffer[p], writing[p], pendingReplies[p], acks[p],
                     received[p], handler[p]>>
  BY <1>1, <1>2 DEF SenderTypeOK
<1>4. /\ wires'[p] \in Seq(Seq(Message)) /\ Live(p)' = Live(p) + 1 /\ Live(p) \in Nat
      /\ \A n \in 1 .. Live(p) : wires'[p][n] = wires[p][n]
      /\ wires'[p][Live(p)'] = <<>>
  <2>1. wires[p] \in Seq(Seq(Message)) /\ <<>> \in Seq(Message)
    BY <1>2, TypeAt
  <2> QED BY <1>3, <2>1 DEF Live
<1>5. SenderTypeOK'
  <2>1. \A q \in Peer : Live(q)' <= MaxConnections[q]
    <3>1. Live(p)' <= MaxConnections[p]
      BY <1>1, <1>4, SenderAssumption
    <3>2. \A q \in Peer \ {p} : Live(q)' = Live(q)
      BY <1>1, <1>2 DEF SenderTypeOK, Live
    <3> QED BY <1>2, <3>1, <3>2 DEF SenderTypeOK
  <2>2. wires' \in [Peer -> Seq(Seq(Message))]
    BY <1>1, <1>2, <1>3, <1>4 DEF SenderTypeOK
  <2> QED BY <1>1, <1>2, <2>1, <2>2 DEF SenderTypeOK
<1>6. PendingMatchesWire(p)' /\ IdleUnconnected(p)'
  <2>1. pendingReplies[p] = <<>> /\ acks[p] = 0 /\ connected'[p]
    BY <1>1, <1>2 DEF PeerInv, IdleUnconnected, SenderTypeOK
  <2>2. Live(p)' > 0
    BY <1>4
  <2>3. pendingReplies'[p] = <<>> /\ acks'[p] = 0
    BY <1>3, <2>1
  <2>4. Len(pendingReplies'[p]) = 0 /\ Len(wires'[p][Live(p)']) = 0
    BY <1>4, <2>3
  <2> QED BY <2>1, <2>2, <2>3, <2>4 DEF PendingMatchesWire, IdleUnconnected
<1>7. PlacesInOrder(p)' /\ HeldIsWaited(p)' /\ UsedInOrder(p)' /\ AckedReceived(p)'
  BY <1>2, <1>3 DEF PeerInv, PlacesInOrder, HeldIsWaited, Held, UsedInOrder, AckedReceived
<1>8. WiresInOrder(p)'
  <2> SUFFICES ASSUME NEW n \in 1 .. Live(p)', NEW i \in DOMAIN wires'[p][n]
               PROVE  InOrderAt(p, n, i)'
    BY DEF WiresInOrder, InOrderAt
  <2>1. CASE n = Live(p)'
    BY <1>4, <2>1
  <2>2. CASE n # Live(p)'
    <3>1. n \in 1 .. Live(p) /\ wires'[p][n] = wires[p][n]
      BY <1>4, <2>2
    <3>2. i \in DOMAIN wires[p][n]
      BY <3>1
    <3>3. InOrderAt(p, n, i)
      BY <1>2, <3>1, <3>2 DEF PeerInv, WiresInOrder, InOrderAt
    <3>4. handler'[p] = handler[p] /\ received'[p] = received[p]
      BY <1>3
    <3> QED BY <3>1, <3>3, <3>4, InOrderKept
  <2> QED BY <2>1, <2>2
<1>9. \A q \in Peer \ {p} : SameAt(q)
  BY <1>1, <1>2 DEF SenderTypeOK, SameAt
<1> QED BY <1>5, <1>6, <1>7, <1>8, <1>9, OnePeer DEF PeerInv

\* The oldest message of the buffer is written next, unless it is cancelled.
LEMMA PopBufferIInv ==
    ASSUME SenderIInv, NEW p \in Peer, PopBuffer(p)
    PROVE  SenderIInv'
<1> DEFINE h == Head(buffer[p])
<1>1. /\ connected[p] /\ writing[p] = <<>> /\ buffer[p] # <<>>
      /\ buffer' = [buffer EXCEPT ![p] = Tail(@)]
      /\ writing' = IF Open(p, h) THEN [writing EXCEPT ![p] = <<h>>] ELSE writing
      /\ UNCHANGED <<channel, pendingReplies, connected, wires, acks, received, handler>>
  BY DEF PopBuffer
<1>2. SenderTypeOK /\ PeerInv(p)
  BY DEF SenderIInv
<1>3. /\ buffer'[p] = Tail(buffer[p])
      /\ writing'[p] = IF Open(p, h) THEN <<h>> ELSE <<>>
      /\ UNCHANGED <<channel[p], pendingReplies[p], connected[p], wires[p], acks[p],
                     received[p], handler[p]>>
  BY <1>1, <1>2 DEF SenderTypeOK
<1>4. /\ h \in Message /\ Tail(buffer[p]) \in Seq(Message)
      /\ Range(buffer[p]) = {h} \cup Range(Tail(buffer[p]))
      /\ Ascending(buffer[p]) => Ascending(Tail(buffer[p])) /\ Below({h}, Range(Tail(buffer[p])))
  <2>1. buffer[p] \in Seq(Message)
    BY <1>2, TypeAt
  <2> QED BY <1>1, <2>1, TailFacts
<1>5. Range(writing[p]) = {} /\ Range(writing'[p]) = IF Open(p, h) THEN {h} ELSE {}
  BY <1>1, <1>3, <1>4, ShortSequences
<1> HIDE DEF h
<1>6. SenderTypeOK'
  BY <1>1, <1>2, <1>4 DEF SenderTypeOK, Live
<1>7. PlacesInOrder(p)'
  <2>1. PlacesInOrder(p)
    BY <1>2 DEF PeerInv
  <2>2. Ascending(pendingReplies'[p]) /\ Ascending(buffer'[p]) /\ Ascending(channel'[p])
    BY <1>3, <1>4, <2>1 DEF PlacesInOrder
  <2> QED BY <1>3, <1>4, <1>5, <2>1, <2>2 DEF PlacesInOrder, Below
<1>8. HeldIsWaited(p)'
  <2>1. Held(p)' \subseteq Held(p)
    BY <1>3, <1>4, <1>5 DEF Held
  <2>2. \A m \in Held(p) : m \in Held(p)' \/ (m = h /\ ~ Open(p, h))
    BY <1>3, <1>4, <1>5 DEF Held
  <2> QED BY <1>2, <1>3, <2>1, <2>2 DEF PeerInv, HeldIsWaited, Open
<1>9. IdleUnconnected(p)' /\ PendingMatchesWire(p)'
  BY <1>1, <1>2, <1>3 DEF PeerInv, IdleUnconnected, PendingMatchesWire, Live
<1>10. \A q \in Peer \ {p} : SameAt(q)
  BY <1>1, <1>2 DEF SenderTypeOK, SameAt
<1> QED BY <1>2, <1>3, <1>6, <1>7, <1>8, <1>9, <1>10, KeepsRecord, OnePeer DEF PeerInv

\* With nothing else to write, a new message is taken from the channel.
LEMMA TakeMessageIInv ==
    ASSUME SenderIInv, NEW p \in Peer, TakeMessage(p)
    PROVE  SenderIInv'
<1> DEFINE h == Head(channel[p])
<1>1. /\ connected[p] /\ writing[p] = <<>> /\ buffer[p] = <<>> /\ channel[p] # <<>>
      /\ buffer' = [buffer EXCEPT ![p] = <<h>>]
      /\ channel' = [channel EXCEPT ![p] = Tail(@)]
      /\ UNCHANGED <<writing, pendingReplies, connected, wires, acks, received, handler>>
  BY DEF TakeMessage, AtSelect
<1>2. SenderTypeOK /\ PeerInv(p)
  BY DEF SenderIInv
<1>3. /\ buffer'[p] = <<h>> /\ channel'[p] = Tail(channel[p])
      /\ UNCHANGED <<writing[p], pendingReplies[p], connected[p], wires[p], acks[p],
                     received[p], handler[p]>>
  BY <1>1, <1>2 DEF SenderTypeOK
<1>4. /\ h \in Message /\ Tail(channel[p]) \in Seq(Message)
      /\ Range(channel[p]) = {h} \cup Range(Tail(channel[p]))
      /\ Ascending(channel[p]) => Ascending(Tail(channel[p])) /\ Below({h}, Range(Tail(channel[p])))
      /\ channel[p] \in Seq(Message)
  <2>1. channel[p] \in Seq(Message)
    BY <1>2, TypeAt
  <2> QED BY <1>1, <2>1, TailFacts
<1>5. /\ Range(writing[p]) = {} /\ Range(buffer[p]) = {}
      /\ Range(buffer'[p]) = {h} /\ Ascending(buffer'[p]) /\ <<h>> \in Seq(Message)
  BY <1>1, <1>3, <1>4, ShortSequences
<1>6. SenderTypeOK'
  <2>1. Len(Tail(channel[p])) <= ChannelCap
    <3>1. Len(channel[p]) <= ChannelCap /\ ChannelCap \in Nat
      BY <1>2, SenderAssumption DEF SenderTypeOK
    <3>2. Len(Tail(channel[p])) = Len(channel[p]) - 1 /\ Len(channel[p]) \in Nat
      BY <1>1, <1>4
    <3> QED BY <3>1, <3>2
  <2> HIDE DEF h
  <2> QED BY <1>1, <1>2, <1>4, <1>5, <2>1 DEF SenderTypeOK, Live
<1> HIDE DEF h
<1>7. PlacesInOrder(p)'
  <2>1. PlacesInOrder(p)
    BY <1>2 DEF PeerInv
  <2>2. Ascending(pendingReplies'[p]) /\ Ascending(buffer'[p]) /\ Ascending(channel'[p])
    BY <1>3, <1>4, <1>5, <2>1 DEF PlacesInOrder
  <2> QED BY <1>3, <1>4, <1>5, <2>1, <2>2 DEF PlacesInOrder, Below
<1>8. HeldIsWaited(p)'
  <2>1. Held(p)' = Held(p)
    BY <1>3, <1>4, <1>5 DEF Held
  <2> QED BY <1>2, <1>3, <2>1 DEF PeerInv, HeldIsWaited
<1>9. IdleUnconnected(p)' /\ PendingMatchesWire(p)'
  BY <1>1, <1>2, <1>3 DEF PeerInv, IdleUnconnected, PendingMatchesWire, Live
<1>10. \A q \in Peer \ {p} : SameAt(q)
  BY <1>1, <1>2 DEF SenderTypeOK, SameAt
<1> QED BY <1>2, <1>3, <1>6, <1>7, <1>8, <1>9, <1>10, KeepsRecord, OnePeer DEF PeerInv

\* A connection breaks: what was not acknowledged is in front again.
LEMMA BreakIInv ==
    ASSUME SenderIInv, NEW p \in Peer, Break(p)
    PROVE  SenderIInv'
<1> DEFINE outstanding == pendingReplies[p] \o writing[p]
           all == outstanding \o buffer[p]
<1>1. /\ connected' = [connected EXCEPT ![p] = FALSE]
      /\ buffer' = [buffer EXCEPT ![p] = all]
      /\ writing' = [writing EXCEPT ![p] = <<>>]
      /\ pendingReplies' = [pendingReplies EXCEPT ![p] = <<>>]
      /\ acks' = [acks EXCEPT ![p] = 0]
      /\ UNCHANGED <<channel, wires, received, handler>>
  BY DEF Break
<1>2. SenderTypeOK /\ PeerInv(p) /\ PlacesInOrder(p)
  BY DEF SenderIInv, PeerInv
<1>3. /\ ~ connected'[p] /\ writing'[p] = <<>> /\ pendingReplies'[p] = <<>> /\ acks'[p] = 0
      /\ buffer'[p] = all
      /\ UNCHANGED <<channel[p], wires[p], received[p], handler[p]>>
  BY <1>1, <1>2 DEF SenderTypeOK
<1>4. /\ pendingReplies[p] \in Seq(Message) /\ writing[p] \in Seq(Message)
      /\ buffer[p] \in Seq(Message)
      /\ writing[p] = <<>> \/ \E m \in Message : writing[p] = <<m>>
  BY <1>2, TypeAt
<1>5. Ascending(writing[p])
  BY <1>4, ShortSequences
<1>6. /\ outstanding \in Seq(Message)
      /\ Range(outstanding) = Range(pendingReplies[p]) \cup Range(writing[p])
      /\ Ascending(outstanding)
  BY <1>2, <1>4, <1>5, ConcatFacts DEF PlacesInOrder, Below
<1> HIDE DEF outstanding
<1>7. Below(Range(outstanding), Range(buffer[p]))
  BY <1>2, <1>6 DEF PlacesInOrder, Below
<1>8. /\ all \in Seq(Message) /\ Range(all) = Range(outstanding) \cup Range(buffer[p])
      /\ Ascending(all)
  BY <1>2, <1>4, <1>6, <1>7, ConcatFacts DEF PlacesInOrder
<1> HIDE DEF all
<1>9. SenderTypeOK'
  BY <1>1, <1>2, <1>8, ShortSequences DEF SenderTypeOK, Live
<1>10. PlacesInOrder(p)'
  <2>1. Range(<<>>) = {} /\ Ascending(<<>>)
    BY ShortSequences
  <2> QED BY <1>2, <1>3, <1>6, <1>8, <2>1 DEF PlacesInOrder, Below
<1>11. HeldIsWaited(p)'
  <2>1. Held(p)' = Held(p)
    BY <1>3, <1>6, <1>8, ShortSequences DEF Held
  <2> QED BY <1>2, <1>3, <2>1 DEF PeerInv, HeldIsWaited
<1>12. IdleUnconnected(p)' /\ PendingMatchesWire(p)'
  BY <1>3 DEF IdleUnconnected, PendingMatchesWire
<1>13. \A q \in Peer \ {p} : SameAt(q)
  BY <1>1, <1>2 DEF SenderTypeOK, SameAt
<1> QED BY <1>2, <1>3, <1>9, <1>10, <1>11, <1>12, <1>13, KeepsRecord, OnePeer DEF PeerInv

\* A message is written behind all that the live connection holds.
LEMMA WriteIInv ==
    ASSUME SenderIInv, NEW p \in Peer, Write(p)
    PROVE  SenderIInv'
<1> DEFINE L == Live(p)
           line == wires[p][L]
           pr == pendingReplies[p]
<1>1. /\ connected[p] /\ writing[p] # <<>>
      /\ wires' = [wires EXCEPT ![p] = [@ EXCEPT ![L] = line \o writing[p]]]
      /\ pendingReplies' = [pendingReplies EXCEPT ![p] = @ \o writing[p]]
      /\ writing' = [writing EXCEPT ![p] = <<>>]
      /\ UNCHANGED <<channel, buffer, connected, acks, received, handler>>
  BY DEF Write
<1>2. SenderTypeOK /\ PeerInv(p) /\ PlacesInOrder(p) /\ HeldIsWaited(p)
  BY DEF SenderIInv, PeerInv
<1>3. PICK m \in Message : writing[p] = <<m>>
  BY <1>1, <1>2, TypeAt
<1>4. /\ L \in 1 .. L /\ L \in Nat /\ acks[p] \in Nat /\ line \in Seq(Message)
      /\ pr \in Seq(Message) /\ wires[p] \in Seq(Seq(Message)) /\ Len(wires[p]) = L
      /\ Len(pr) = acks[p] + Len(line) /\ Len(line) \in Nat /\ Len(pr) \in Nat
      /\ \A i \in 1 .. acks[p] : pr[i] \in received[p]
      /\ \A i \in 1 .. Len(line) : pr[acks[p] + i] = line[i]
  <2>1. L \in Nat /\ L > 0
    BY <1>1, <1>2, TypeAt DEF PeerInv, PendingMatchesWire
  <2>2. L \in 1 .. L
    BY <2>1
  <2>3. line \in Seq(Message) /\ pr \in Seq(Message) /\ wires[p] \in Seq(Seq(Message))
        /\ acks[p] \in Nat
    BY <1>2, <2>2, TypeAt
  <2> QED BY <1>1, <1>2, <2>1, <2>2, <2>3 DEF PeerInv, PendingMatchesWire, Live
<1>5. line \o writing[p] = Append(line, m) /\ pr \o writing[p] = Append(pr, m)
  BY <1>3, <1>4, AppendIsConcat
<1>6. /\ wires'[p] = [wires[p] EXCEPT ![L] = Append(line, m)]
      /\ pendingReplies'[p] = Append(pr, m) /\ writing'[p] = <<>>
      /\ UNCHANGED <<channel[p], buffer[p], connected[p], acks[p], received[p], handler[p]>>
  BY <1>1, <1>2, <1>5 DEF SenderTypeOK
<1> HIDE DEF L, line, pr
<1>7. /\ Append(line, m) \in Seq(Message) /\ Len(Append(line, m)) = Len(line) + 1
      /\ Append(line, m)[Len(line) + 1] = m
      /\ \A i \in 1 .. Len(line) : Append(line, m)[i] = line[i]
      /\ Append(pr, m) \in Seq(Message) /\ Len(Append(pr, m)) = Len(pr) + 1
      /\ Append(pr, m)[Len(pr) + 1] = m
      /\ \A i \in 1 .. Len(pr) : Append(pr, m)[i] = pr[i]
      /\ Range(Append(pr, m)) = Range(pr) \cup {m}
      /\ (Ascending(pr) /\ Below(Range(pr), {m})) => Ascending(Append(pr, m))
  <2>1. line \in Seq(Message) /\ pr \in Seq(Message)
    BY <1>4
  <2>2. /\ Append(line, m) \in Seq(Message) /\ Len(Append(line, m)) = Len(line) + 1
        /\ Append(line, m)[Len(line) + 1] = m
        /\ \A i \in 1 .. Len(line) : Append(line, m)[i] = line[i]
    BY <2>1, AppendFacts
  <2>3. /\ Append(pr, m) \in Seq(Message) /\ Len(Append(pr, m)) = Len(pr) + 1
        /\ Append(pr, m)[Len(pr) + 1] = m
        /\ \A i \in 1 .. Len(pr) : Append(pr, m)[i] = pr[i]
        /\ Range(Append(pr, m)) = Range(pr) \cup {m}
        /\ (Ascending(pr) /\ Below(Range(pr), {m})) => Ascending(Append(pr, m))
    BY <2>1, AppendFacts
  <2> QED BY <2>2, <2>3
<1>8. /\ wires'[p] \in Seq(Seq(Message)) /\ Live(p)' = L
      /\ wires'[p][L] = Append(line, m)
      /\ \A n \in 1 .. L : n # L => wires'[p][n] = wires[p][n]
  BY <1>4, <1>6, <1>7 DEF Live
<1>9. SenderTypeOK'
  <2>1. \A q \in Peer \ {p} : Live(q)' = Live(q)
    BY <1>1, <1>2 DEF SenderTypeOK, Live
  <2>2. Live(p)' = Live(p)
    BY <1>8 DEF L
  <2>3. \A q \in Peer : Live(q)' <= MaxConnections[q]
    BY <1>2, <2>1, <2>2 DEF SenderTypeOK
  <2>4. wires' \in [Peer -> Seq(Seq(Message))]
    BY <1>1, <1>2, <1>8 DEF SenderTypeOK
  <2>5. pendingReplies' \in [Peer -> Seq(Message)]
    BY <1>1, <1>2, <1>6, <1>7 DEF SenderTypeOK
  <2>6. writing' \in [Peer -> {<<>>} \cup {<<x>> : x \in Message}]
    BY <1>1, <1>2 DEF SenderTypeOK
  <2> QED BY <1>1, <1>2, <2>3, <2>4, <2>5, <2>6 DEF SenderTypeOK
<1>10. PendingMatchesWire(p)' /\ IdleUnconnected(p)'
  <2>1. Len(Append(pr, m)) = acks[p] + Len(Append(line, m))
    <3>1. /\ Len(Append(pr, m)) = Len(pr) + 1 /\ Len(Append(line, m)) = Len(line) + 1
          /\ Len(pr) = acks[p] + Len(line) /\ Len(line) \in Nat /\ acks[p] \in Nat
      BY <1>4, <1>7
    <3> QED BY <3>1
  <2>2. \A i \in 1 .. acks[p] : Append(pr, m)[i] \in received[p]
    <3>1. \A i \in 1 .. acks[p] : i \in 1 .. Len(pr)
      BY <1>4
    <3> QED BY <1>4, <1>7, <3>1
  <2>3. ASSUME NEW i \in 1 .. Len(Append(line, m))
        PROVE  Append(pr, m)[acks[p] + i] = Append(line, m)[i]
    <3>1. CASE i \in 1 .. Len(line)
      <4>1. acks[p] + i \in 1 .. Len(pr)
        BY <1>4, <3>1
      <4> QED BY <1>4, <1>7, <3>1, <4>1
    <3>2. CASE i = Len(line) + 1
      <4>1. acks[p] + i = Len(pr) + 1
        BY <1>4, <3>2
      <4> QED BY <1>7, <3>2, <4>1
    <3>3. i \in 1 .. Len(line) \/ i = Len(line) + 1
      BY <1>4, <1>7, <2>3
    <3> QED BY <3>1, <3>2, <3>3
  <2>4. Live(p)' > 0
    BY <1>4, <1>8
  <2>5. connected'[p] /\ acks'[p] = acks[p] /\ received'[p] = received[p]
        /\ pendingReplies'[p] = Append(pr, m) /\ wires'[p][Live(p)'] = Append(line, m)
    BY <1>1, <1>6, <1>8
  <2>6. /\ Len(pendingReplies'[p]) = acks'[p] + Len(wires'[p][Live(p)'])
        /\ \A i \in 1 .. acks'[p] : pendingReplies'[p][i] \in received'[p]
        /\ \A i \in 1 .. Len(wires'[p][Live(p)']) :
              pendingReplies'[p][acks'[p] + i] = wires'[p][Live(p)'][i]
    BY <2>1, <2>2, <2>3, <2>5
  <2> QED BY <2>4, <2>5, <2>6 DEF PendingMatchesWire, IdleUnconnected
<1>11. Range(writing[p]) = {m} /\ Range(writing'[p]) = {} /\ m \in Held(p)
       /\ Held(p) = Range(pr) \cup {m} \cup Range(buffer[p]) \cup Range(channel[p])
  BY <1>3, <1>6, ShortSequences DEF Held, pr
<1>12. PlacesInOrder(p)'
  <2>1. Below(Range(pr), {m}) /\ Ascending(pr)
    BY <1>2, <1>11 DEF PlacesInOrder, Below, pr
  <2>2. Ascending(pendingReplies'[p]) /\ Ascending(buffer'[p]) /\ Ascending(channel'[p])
    BY <1>2, <1>6, <1>7, <2>1 DEF PlacesInOrder
  <2>3. /\ Below(Range(pr), Range(buffer[p]) \cup Range(channel[p]))
        /\ Below({m}, Range(buffer[p]) \cup Range(channel[p]))
        /\ Below(Range(buffer[p]), Range(channel[p]))
    BY <1>2, <1>11 DEF PlacesInOrder, Below, pr
  <2> QED BY <1>6, <1>7, <1>11, <2>2, <2>3 DEF PlacesInOrder, Below
<1>13. HeldIsWaited(p)'
  <2>1. Held(p)' = Held(p)
    BY <1>6, <1>7, <1>11 DEF Held
  <2> QED BY <1>2, <1>6, <2>1 DEF HeldIsWaited
<1>14. UsedInOrder(p)' /\ AckedReceived(p)'
  BY <1>2, <1>6 DEF PeerInv, UsedInOrder, AckedReceived
<1>15. WiresInOrder(p)'
  <2> SUFFICES ASSUME NEW n \in 1 .. L, NEW i \in DOMAIN wires'[p][n]
               PROVE  InOrderAt(p, n, i)'
    BY <1>8 DEF WiresInOrder, InOrderAt
  <2>1. \A x \in DOMAIN wires[p][n] : InOrderAt(p, n, x)
    BY <1>2 DEF PeerInv, WiresInOrder, InOrderAt, L
  <2>2. CASE n # L
    <3>1. wires'[p][n] = wires[p][n]
      BY <1>8, <2>2
    <3>2. InOrderAt(p, n, i)
      BY <2>1, <3>1
    <3>3. handler'[p] = handler[p] /\ received'[p] = received[p]
      BY <1>6
    <3> QED BY <3>1, <3>2, <3>3, InOrderKept
  <2>3. CASE n = L /\ i \in 1 .. Len(line)
    <3>1. wires[p][n] = line /\ wires'[p][n] = Append(line, m) /\ DOMAIN line = 1 .. Len(line)
      BY <1>4, <1>8, <2>3 DEF line
    <3>2. InOrderAt(p, n, i)
      BY <2>1, <2>3, <3>1
    <3>3. \A j \in 1 .. (i - 1) : j \in 1 .. Len(line)
      BY <1>4, <2>3
    <3>4. wires'[p][n][i] = wires[p][n][i]
          /\ \A j \in 1 .. (i - 1) : wires'[p][n][j] = wires[p][n][j]
      BY <1>7, <2>3, <3>1, <3>3
    <3>5. handler'[p] = handler[p] /\ received'[p] = received[p]
      BY <1>6
    <3> QED BY <3>2, <3>4, <3>5, InOrderKept
  <2>4. CASE n = L /\ i = Len(line) + 1
    <3>1. wires'[p][n] = Append(line, m) /\ wires'[p][n][i] = m
      BY <1>7, <1>8, <2>4
    <3>2. handler[p][m] # "unused"
      BY <1>2, <1>11 DEF HeldIsWaited
    <3>3. ASSUME NEW k \in 1 .. (m - 1), k \notin received[p], handler[p][k] # "closed"
          PROVE  \E j \in 1 .. Len(line) : line[j] = k
      <4>1. k \in Message /\ k < m
        BY SenderAssumption DEF Message
      <4>2. handler[p][k] = "waiting"
        <5>1. handler[p][k] \in {"unused", "waiting", "acked", "closed"}
          BY <1>2, <4>1, TypeAt
        <5>2. handler[p][k] # "unused"
          BY <1>2, <3>2 DEF PeerInv, UsedInOrder
        <5>3. handler[p][k] # "acked"
          BY <1>2, <3>3, <4>1 DEF PeerInv, AckedReceived
        <5> QED BY <3>3, <5>1, <5>2, <5>3
      <4>3. k \in Range(pr)
        <5>1. k \in Held(p)
          BY <1>2, <4>1, <4>2 DEF HeldIsWaited
        <5>2. ASSUME k \in Range(buffer[p]) \cup Range(channel[p]) PROVE m < k
          BY <1>2, <1>11, <5>2 DEF PlacesInOrder, Below
        <5>3. k # m /\ ~ (m < k)
          BY <4>1 DEF Message
        <5> QED BY <1>11, <5>1, <5>2, <5>3
      <4>4. PICK x \in 1 .. Len(pr) : pr[x] = k
        BY <1>4, <4>3, SequenceFacts
      <4>5. ~ (x \in 1 .. acks[p])
        BY <1>4, <3>3, <4>4
      <4>6. x - acks[p] \in 1 .. Len(line) /\ acks[p] + (x - acks[p]) = x
        BY <1>4, <4>5
      <4> QED BY <1>4, <4>4, <4>6
    <3>4. i - 1 = Len(line) /\ \A j \in 1 .. Len(line) : wires'[p][n][j] = line[j]
      BY <1>4, <1>7, <2>4, <3>1
    <3>5. received'[p] = received[p] /\ handler'[p] = handler[p]
      BY <1>6
    <3>6. \A k \in 1 .. (m - 1) :
             \/ k \in received'[p]
             \/ handler'[p][k] = "closed"
             \/ \E j \in 1 .. (i - 1) : wires'[p][n][j] = k
      BY <3>3, <3>4, <3>5
    <3> QED BY <3>1, <3>2, <3>5, <3>6 DEF InOrderAt
  <2>5. n # L \/ i \in 1 .. Len(line) \/ i = Len(line) + 1
    <3>1. n = L => DOMAIN wires'[p][n] = 1 .. (Len(line) + 1)
      BY <1>7, <1>8
    <3> QED BY <1>4, <3>1
  <2> QED BY <2>2, <2>3, <2>4, <2>5
<1>16. \A q \in Peer \ {p} : SameAt(q)
  BY <1>1, <1>2 DEF SenderTypeOK, SameAt
<1> QED BY <1>9, <1>10, <1>12, <1>13, <1>14, <1>15, <1>16, OnePeer DEF PeerInv

\* What the oldest pending message is when an ACK is there to be read.
LEMMA AckFacts ==
    ASSUME SenderIInv, NEW p \in Peer, connected[p], acks[p] > 0
    PROVE  /\ pendingReplies[p] # <<>> /\ pendingReplies[p] \in Seq(Message)
           /\ Head(pendingReplies[p]) \in Message \cap received[p] \cap Held(p)
           /\ Below({Head(pendingReplies[p])}, Held(p) \ {Head(pendingReplies[p])})
<1> DEFINE pr == pendingReplies[p]
           h == Head(pr)
<1>1. SenderTypeOK /\ PeerInv(p) /\ PlacesInOrder(p)
  BY DEF SenderIInv, PeerInv
<1>2. pr \in Seq(Message) /\ acks[p] \in Nat /\ Len(pr) \in Nat
  BY <1>1, TypeAt
<1>3. Live(p) \in 1 .. Live(p) /\ Len(wires[p][Live(p)]) \in Nat
      /\ Len(pr) = acks[p] + Len(wires[p][Live(p)])
      /\ \A i \in 1 .. acks[p] : pr[i] \in received[p]
  <2>1. Live(p) \in Nat /\ Live(p) > 0
    BY <1>1, TypeAt DEF PeerInv, PendingMatchesWire
  <2>2. Live(p) \in 1 .. Live(p)
    BY <2>1
  <2>3. wires[p][Live(p)] \in Seq(Message)
    BY <1>1, <2>2, TypeAt
  <2> QED BY <1>1, <2>2, <2>3 DEF PeerInv, PendingMatchesWire
<1>4. pr # <<>> /\ 1 \in 1 .. acks[p]
  <2>1. Len(pr) > 0
    BY <1>2, <1>3
  <2> QED BY <2>1, <1>2
<1>5. h = pr[1] /\ h \in received[p]
  BY <1>2, <1>3, <1>4
<1>6. /\ h \in Message /\ Range(pr) = {h} \cup Range(Tail(pr))
      /\ Below({h}, Range(Tail(pr)))
  BY <1>1, <1>2, <1>4, TailFacts DEF PlacesInOrder
<1> HIDE DEF h, pr
<1>7. Held(p) = Range(pr) \cup Range(writing[p]) \cup Range(buffer[p]) \cup Range(channel[p])
      /\ Below(Range(pr), Range(writing[p]) \cup Range(buffer[p]) \cup Range(channel[p]))
  BY <1>1 DEF Held, PlacesInOrder, pr
<1>8. Below({h}, Held(p) \ {h})
  BY <1>6, <1>7 DEF Below
<1>9. h \in Held(p)
  BY <1>6, <1>7
<1> QED BY <1>2, <1>4, <1>5, <1>6, <1>8, <1>9 DEF h, pr

\* An ACK is credited to the oldest pending message.
LEMMA ReadAckIInv ==
    ASSUME SenderIInv, NEW p \in Peer, ReadAck(p)
    PROVE  SenderIInv'
<1> DEFINE pr == pendingReplies[p]
           h == Head(pr)
           L == Live(p)
<1>1. /\ connected[p] /\ writing[p] = <<>> /\ buffer[p] = <<>> /\ acks[p] > 0
      /\ handler' = IF Open(p, h) THEN [handler EXCEPT ![p] = [@ EXCEPT ![h] = "acked"]]
                    ELSE handler
      /\ pendingReplies' = [pendingReplies EXCEPT ![p] = Tail(@)]
      /\ acks' = [acks EXCEPT ![p] = @ - 1]
      /\ UNCHANGED <<channel, buffer, writing, connected, wires, received>>
  BY DEF ReadAck, AtSelect
<1>2. SenderTypeOK /\ PeerInv(p) /\ PlacesInOrder(p) /\ HeldIsWaited(p)
  BY DEF SenderIInv, PeerInv
<1>3. /\ pr # <<>> /\ pr \in Seq(Message) /\ h \in Message /\ h \in received[p] /\ h \in Held(p)
      /\ Below({h}, Held(p) \ {h})
  BY <1>1, AckFacts
<1>4. /\ pendingReplies'[p] = Tail(pr) /\ acks'[p] = acks[p] - 1
      /\ \A x \in Message : handler'[p][x] = IF x = h /\ Open(p, h) THEN "acked" ELSE handler[p][x]
      /\ UNCHANGED <<channel[p], buffer[p], writing[p], connected[p], wires[p], received[p]>>
  BY <1>1, <1>2, <1>3 DEF SenderTypeOK
<1>5. /\ Tail(pr) \in Seq(Message) /\ Range(pr) = {h} \cup Range(Tail(pr))
      /\ Ascending(Tail(pr)) /\ Below({h}, Range(Tail(pr)))
      /\ Len(pr) \in Nat /\ Len(Tail(pr)) = Len(pr) - 1
      /\ \A i \in 1 .. Len(Tail(pr)) : Tail(pr)[i] = pr[i + 1]
  <2>1. Ascending(pr)
    BY <1>2 DEF PlacesInOrder
  <2>2. /\ Tail(pr) \in Seq(Message) /\ Range(pr) = {h} \cup Range(Tail(pr))
        /\ Ascending(Tail(pr)) /\ Below({h}, Range(Tail(pr)))
    BY <1>3, <2>1, TailFacts
  <2>3. /\ Len(pr) \in Nat /\ Len(Tail(pr)) = Len(pr) - 1
        /\ \A i \in 1 .. Len(Tail(pr)) : Tail(pr)[i] = pr[i + 1]
    BY <1>3, HeadTailProperties
  <2> QED BY <2>2, <2>3
<1>6. /\ acks[p] \in Nat /\ L > 0 /\ Len(wires[p][L]) \in Nat
      /\ Len(pr) = acks[p] + Len(wires[p][L])
      /\ \A i \in 1 .. acks[p] : pr[i] \in received[p]
      /\ \A i \in 1 .. Len(wires[p][L]) : pr[acks[p] + i] = wires[p][L][i]
  <2>1. acks[p] \in Nat /\ L \in Nat /\ L > 0
    BY <1>1, <1>2, TypeAt DEF PeerInv, PendingMatchesWire
  <2>2. L \in 1 .. L
    BY <2>1
  <2>3. wires[p][L] \in Seq(Message)
    BY <1>2, <2>2, TypeAt
  <2> QED BY <1>1, <1>2, <2>1, <2>3 DEF PeerInv, PendingMatchesWire
<1>7. L' = L
  BY <1>4 DEF Live
<1>8. SenderTypeOK'
  <2>1. handler' \in [Peer -> [Message -> {"unused", "waiting", "acked", "closed"}]]
    BY <1>1, <1>2, <1>3 DEF SenderTypeOK
  <2>2. acks[p] - 1 \in Nat
    BY <1>1, <1>6
  <2>3. acks' \in [Peer -> Nat] /\ pendingReplies' \in [Peer -> Seq(Message)]
    BY <1>1, <1>2, <1>5, <2>2 DEF SenderTypeOK
  <2> QED BY <1>1, <1>2, <2>1, <2>3 DEF SenderTypeOK, Live
<1>9. \A q \in Peer \ {p} : SameAt(q)
  BY <1>1, <1>2 DEF SenderTypeOK, SameAt
<1> HIDE DEF h, pr, L
<1>10. PendingMatchesWire(p)' /\ IdleUnconnected(p)'
  <2>1. Len(Tail(pr)) = (acks[p] - 1) + Len(wires[p][L])
    BY <1>5, <1>6
  <2>2. ASSUME NEW i \in 1 .. (acks[p] - 1) PROVE Tail(pr)[i] \in received[p]
    <3>1. i \in 1 .. Len(Tail(pr)) /\ i + 1 \in 1 .. acks[p]
      BY <1>5, <1>6, <2>2
    <3> QED BY <1>5, <1>6, <3>1
  <2>3. ASSUME NEW i \in 1 .. Len(wires[p][L])
        PROVE  Tail(pr)[(acks[p] - 1) + i] = wires[p][L][i]
    <3>1. (acks[p] - 1) + i \in 1 .. Len(Tail(pr)) /\ ((acks[p] - 1) + i) + 1 = acks[p] + i
      BY <1>1, <1>5, <1>6, <2>3
    <3> QED BY <1>5, <1>6, <3>1
  <2>4. Live(p)' = L /\ wires'[p] = wires[p] /\ received'[p] = received[p] /\ connected'[p]
        /\ pendingReplies'[p] = Tail(pr) /\ acks'[p] = acks[p] - 1
    BY <1>1, <1>4, <1>7 DEF L
  <2>5. /\ Live(p)' > 0
        /\ Len(pendingReplies'[p]) = acks'[p] + Len(wires'[p][Live(p)'])
        /\ \A i \in 1 .. acks'[p] : pendingReplies'[p][i] \in received'[p]
        /\ \A i \in 1 .. Len(wires'[p][Live(p)']) :
              pendingReplies'[p][acks'[p] + i] = wires'[p][Live(p)'][i]
    BY <1>6, <2>1, <2>2, <2>3, <2>4
  <2> QED BY <2>4, <2>5 DEF PendingMatchesWire, IdleUnconnected
<1>11. Held(p) = {h} \cup Held(p)' /\ h \notin Held(p)'
  <2>1. Range(writing[p]) = {} /\ Range(buffer[p]) = {}
    BY <1>1, ShortSequences
  <2>2. Held(p) = {h} \cup Range(Tail(pr)) \cup Range(channel[p])
        /\ Held(p)' = Range(Tail(pr)) \cup Range(channel[p])
    BY <1>4, <1>5, <2>1 DEF Held, pr
  <2>3. h \in Range(pr) /\ Below(Range(pr), Range(channel[p]))
    BY <1>2, <1>5 DEF PlacesInOrder, Below, pr
  <2>4. ~ (h < h)
    BY <1>3 DEF Message
  <2> QED BY <1>5, <2>2, <2>3, <2>4 DEF Below
<1>12. PlacesInOrder(p)'
  <2>1. Ascending(pendingReplies'[p]) /\ Ascending(buffer'[p]) /\ Ascending(channel'[p])
    BY <1>2, <1>4, <1>5 DEF PlacesInOrder
  <2>2. Below(Range(Tail(pr)), Range(writing[p]) \cup Range(buffer[p]) \cup Range(channel[p]))
    BY <1>2, <1>5 DEF PlacesInOrder, Below, pr
  <2> QED BY <1>2, <1>4, <2>1, <2>2 DEF PlacesInOrder
<1>13. HeldIsWaited(p)'
  <2>1. \A x \in Message : handler'[p][x] = "waiting" => x # h /\ handler[p][x] = "waiting"
    BY <1>4 DEF Open
  <2>2. \A x \in Held(p)' : x \in Message /\ x # h
    BY <1>2, <1>11, TypeAt
  <2>3. \A x \in Held(p)' : handler'[p][x] = handler[p][x]
    BY <1>4, <2>2
  <2> QED BY <1>2, <1>11, <2>1, <2>3 DEF HeldIsWaited
<1>14. \A x \in Message : /\ (handler'[p][x] = "unused") = (handler[p][x] = "unused")
                          /\ handler[p][x] = "closed" => handler'[p][x] = "closed"
  BY <1>2, <1>3, <1>4 DEF HeldIsWaited, Open
<1>15. \A x \in Message : \A k \in 1 .. (x - 1) : k \in Message
  BY SenderAssumption DEF Message
<1>16. UsedInOrder(p)' /\ AckedReceived(p)'
  <2>1. UsedInOrder(p)'
    BY <1>2, <1>14, <1>15 DEF PeerInv, UsedInOrder
  <2>2. AckedReceived(p)'
    BY <1>2, <1>3, <1>4 DEF PeerInv, AckedReceived
  <2> QED BY <2>1, <2>2
<1>17. WiresInOrder(p)'
  <2> SUFFICES ASSUME NEW n \in 1 .. Live(p), NEW i \in DOMAIN wires[p][n]
               PROVE  InOrderAt(p, n, i)'
    BY <1>4, <1>7 DEF WiresInOrder, InOrderAt, L
  <2>1. InOrderAt(p, n, i)
    BY <1>2 DEF PeerInv, WiresInOrder, InOrderAt
  <2>2. wires[p][n][i] \in Message
    BY <1>2, TypeAt
  <2>3. wires'[p] = wires[p] /\ received'[p] = received[p]
    BY <1>4
  <2> QED BY <1>14, <1>15, <2>1, <2>2, <2>3 DEF InOrderAt
<1> QED BY <1>8, <1>9, <1>10, <1>12, <1>13, <1>16, <1>17, OnePeer DEF PeerInv

\* The peer reads the next frame of one of its connections.
LEMMA ReceiveIInv ==
    ASSUME SenderIInv, NEW p \in Peer, NEW n \in 1 .. Live(p), Receive(p, n)
    PROVE  SenderIInv'
<1> DEFINE line == wires[p][n]
           h == Head(line)
           L == Live(p)
<1>1. /\ line # <<>>
      /\ received' = [received EXCEPT ![p] = @ \cup {h}]
      /\ wires' = [wires EXCEPT ![p] = [@ EXCEPT ![n] = Tail(line)]]
      /\ acks' = IF connected[p] /\ n = L THEN [acks EXCEPT ![p] = @ + 1] ELSE acks
      /\ UNCHANGED <<channel, buffer, writing, pendingReplies, connected, handler>>
  BY DEF Receive
<1>2. SenderTypeOK /\ PeerInv(p)
  BY DEF SenderIInv
<1>3. /\ L \in Nat /\ n \in 1 .. L /\ line \in Seq(Message) /\ acks[p] \in Nat
      /\ wires[p] \in Seq(Seq(Message)) /\ Len(wires[p]) = L
      /\ received[p] \subseteq Message
  BY <1>2, TypeAt DEF Live
<1>4. /\ received'[p] = received[p] \cup {h}
      /\ wires'[p] = [wires[p] EXCEPT ![n] = Tail(line)]
      /\ acks'[p] = IF connected[p] /\ n = L THEN acks[p] + 1 ELSE acks[p]
      /\ UNCHANGED <<channel[p], buffer[p], writing[p], pendingReplies[p], connected[p], handler[p]>>
  BY <1>1, <1>2 DEF SenderTypeOK
<1>5. /\ h \in Message /\ h = line[1] /\ Tail(line) \in Seq(Message)
      /\ Len(line) \in Nat /\ Len(line) > 0 /\ Len(Tail(line)) = Len(line) - 1
      /\ \A i \in 1 .. Len(Tail(line)) : Tail(line)[i] = line[i + 1]
  BY <1>1, <1>3, HeadTailProperties
<1>6. /\ wires'[p] \in Seq(Seq(Message)) /\ Live(p)' = L /\ wires'[p][n] = Tail(line)
      /\ \A x \in 1 .. L : x # n => wires'[p][x] = wires[p][x]
  <2> HIDE DEF L, line
  <2> QED BY <1>3, <1>4, <1>5 DEF Live
<1>7. SenderTypeOK'
  <2>1. \A q \in Peer : Live(q)' = Live(q)
    BY <1>1, <1>2, <1>6 DEF SenderTypeOK, Live
  <2>2. wires' \in [Peer -> Seq(Seq(Message))]
    BY <1>1, <1>2, <1>6 DEF SenderTypeOK
  <2>3. received' \in [Peer -> SUBSET Message]
    BY <1>1, <1>2, <1>5 DEF SenderTypeOK
  <2>4. acks' \in [Peer -> Nat]
    BY <1>1, <1>2 DEF SenderTypeOK
  <2>5. /\ channel' = channel /\ buffer' = buffer /\ writing' = writing
        /\ pendingReplies' = pendingReplies /\ connected' = connected /\ handler' = handler
    BY <1>1
  <2>6. \A q \in Peer : Live(q)' <= MaxConnections[q]
    BY <1>2, <2>1 DEF SenderTypeOK
  <2> QED BY <1>2, <2>2, <2>3, <2>4, <2>5, <2>6 DEF SenderTypeOK
<1>8. \A q \in Peer \ {p} : SameAt(q)
  BY <1>1, <1>2 DEF SenderTypeOK, SameAt
<1> HIDE DEF line, h
<1>9. /\ PlacesInOrder(p)' /\ HeldIsWaited(p)' /\ UsedInOrder(p)' /\ AckedReceived(p)'
  <2>1. PlacesInOrder(p)' /\ HeldIsWaited(p)'
    BY <1>2, <1>4 DEF PeerInv, PlacesInOrder, HeldIsWaited, Held
  <2>2. UsedInOrder(p)' /\ AckedReceived(p)'
    BY <1>2, <1>4 DEF PeerInv, UsedInOrder, AckedReceived
  <2> QED BY <2>1, <2>2
<1>10. IdleUnconnected(p)'
  BY <1>2, <1>4 DEF PeerInv, IdleUnconnected
<1>11. PendingMatchesWire(p)'
  <2> SUFFICES ASSUME connected[p]
               PROVE  /\ Live(p)' > 0
                      /\ Len(pendingReplies[p]) = acks'[p] + Len(wires'[p][L])
                      /\ \A i \in 1 .. acks'[p] : pendingReplies[p][i] \in received'[p]
                      /\ \A i \in 1 .. Len(wires'[p][L]) :
                            pendingReplies[p][acks'[p] + i] = wires'[p][L][i]
    BY <1>4, <1>6 DEF PendingMatchesWire
  <2>1. /\ L > 0
        /\ Len(pendingReplies[p]) = acks[p] + Len(wires[p][L])
        /\ \A i \in 1 .. acks[p] : pendingReplies[p][i] \in received[p]
        /\ \A i \in 1 .. Len(wires[p][L]) : pendingReplies[p][acks[p] + i] = wires[p][L][i]
    BY <1>2 DEF PeerInv, PendingMatchesWire
  <2>2. CASE n # L
    BY <1>3, <1>4, <1>6, <2>1, <2>2
  <2>3. CASE n = L
    <3>1. acks'[p] = acks[p] + 1 /\ wires[p][L] = line /\ wires'[p][L] = Tail(line)
      BY <1>4, <1>6, <2>3 DEF line
    <3> DEFINE a == acks[p]
               l == Len(line)
    <3>0. a \in Nat /\ l \in Nat /\ l > 0
      BY <1>3, <1>5
    <3>2. Len(pendingReplies[p]) = acks'[p] + Len(wires'[p][L])
      <4>1. Len(pendingReplies[p]) = a + l /\ acks'[p] = a + 1 /\ Len(wires'[p][L]) = l - 1
        BY <1>5, <2>1, <3>1
      <4> HIDE DEF a, l
      <4> QED BY <3>0, <4>1
    <3>3. ASSUME NEW i \in 1 .. acks'[p] PROVE pendingReplies[p][i] \in received'[p]
      <4>1. CASE i \in 1 .. acks[p]
        BY <1>4, <2>1, <4>1
      <4>2. CASE i = acks[p] + 1
        <5>1. 1 \in 1 .. Len(line)
          BY <1>5
        <5> QED BY <1>4, <1>5, <2>1, <3>1, <4>2, <5>1
      <4> QED BY <1>3, <3>1, <3>3, <4>1, <4>2
    <3>4. ASSUME NEW i \in 1 .. Len(Tail(line))
          PROVE  pendingReplies[p][acks'[p] + i] = Tail(line)[i]
      <4>1. i + 1 \in 1 .. Len(line) /\ (acks[p] + 1) + i = acks[p] + (i + 1)
        <5>1. i \in 1 .. (l - 1)
          BY <1>5, <3>4
        <5> HIDE DEF a
        <5> SUFFICES i + 1 \in 1 .. l /\ (a + 1) + i = a + (i + 1)
          BY DEF a
        <5> HIDE DEF l
        <5> QED BY <3>0, <5>1
      <4> QED BY <1>5, <2>1, <3>1, <4>1
    <3> QED BY <1>6, <2>1, <3>1, <3>2, <3>3, <3>4
  <2> QED BY <2>2, <2>3
<1>12. WiresInOrder(p)'
  <2> SUFFICES ASSUME NEW x \in 1 .. L, NEW i \in DOMAIN wires'[p][x]
               PROVE  InOrderAt(p, x, i)'
    BY <1>6 DEF WiresInOrder, InOrderAt
  <2>1. \A j \in DOMAIN wires[p][x] : InOrderAt(p, x, j)
    BY <1>2 DEF PeerInv, WiresInOrder, InOrderAt
  <2>2. CASE x # n
    <3>1. wires'[p][x] = wires[p][x]
      BY <1>6, <2>2
    <3>2. InOrderAt(p, x, i)
      BY <2>1, <3>1
    <3>3. received[p] \subseteq received'[p] /\ handler'[p] = handler[p]
      BY <1>4
    <3> QED BY <3>1, <3>2, <3>3 DEF InOrderAt
  <2>3. CASE x = n
    <3>1. wires[p][x] = line /\ wires'[p][x] = Tail(line)
      BY <1>6, <2>3 DEF line
    <3>2. i \in 1 .. Len(Tail(line)) /\ i + 1 \in 1 .. Len(line) /\ Tail(line)[i] = line[i + 1]
      BY <1>5, <3>1
    <3>3. InOrderAt(p, x, i + 1)
      BY <1>3, <2>1, <3>1, <3>2
    <3>4. ASSUME NEW k, NEW j \in 1 .. ((i + 1) - 1), line[j] = k
          PROVE  k = h \/ \E l \in 1 .. (i - 1) : Tail(line)[l] = k
      <4>1. CASE j = 1
        BY <1>5, <3>4, <4>1
      <4>2. CASE j # 1
        <5>1. /\ j - 1 \in 1 .. (i - 1) /\ j - 1 \in 1 .. Len(Tail(line)) /\ (j - 1) + 1 = j
          BY <1>5, <3>2, <3>4, <4>2
        <5> QED BY <1>5, <3>4, <5>1
      <4> QED BY <4>1, <4>2
    <3>5. received'[p] = received[p] \cup {h} /\ handler'[p] = handler[p]
      BY <1>4
    <3>6. ASSUME NEW k \in 1 .. (Tail(line)[i] - 1)
          PROVE  \/ k \in received'[p]
                 \/ handler'[p][k] = "closed"
                 \/ \E l \in 1 .. (i - 1) : Tail(line)[l] = k
      BY <3>1, <3>2, <3>3, <3>4, <3>5, <3>6 DEF InOrderAt
    <3> QED BY <3>1, <3>2, <3>3, <3>5, <3>6 DEF InOrderAt
  <2> QED BY <2>2, <2>3
<1> QED BY <1>7, <1>8, <1>9, <1>10, <1>11, <1>12, OnePeer DEF PeerInv

\* Every step of the sender, its caller and its peers keeps the invariant.
LEMMA SenderNextIInv == SenderIInv /\ [SenderNext]_senderVars => SenderIInv'
<1> SUFFICES ASSUME SenderIInv, [SenderNext]_senderVars PROVE SenderIInv'
  OBVIOUS
<1>1. ASSUME NEW p \in Peer, TaskStep(p) PROVE SenderIInv'
  BY <1>1, DrainChannelIInv, PopBufferIInv, WriteIInv, TakeMessageIInv, ReadAckIInv DEF TaskStep
<1>2. ASSUME NEW p \in Peer, Connect(p) \/ Break(p) PROVE SenderIInv'
  BY <1>2, ConnectIInv, BreakIInv
<1>3. ASSUME NEW p \in Peer, NEW n \in 1 .. Live(p), Receive(p, n) PROVE SenderIInv'
  BY <1>3, ReceiveIInv
<1>4. ASSUME NEW p \in Peer, NEW m \in Message, Send(p, m) PROVE SenderIInv'
  BY <1>4, SendIInv
<1>5. ASSUME NEW dropped, Cancel(dropped) PROVE SenderIInv'
  BY <1>5, CancelIInv
<1>6. CASE UNCHANGED senderVars
  <2>1. UNCHANGED <<channel, buffer, writing, pendingReplies, connected, wires, acks,
                    received, handler>>
    BY <1>6 DEF senderVars
  <2>2. SenderTypeOK'
    BY <2>1 DEF SenderIInv, SenderTypeOK, Live
  <2>3. ASSUME NEW p \in Peer PROVE PeerInv(p)'
    <3>1. IdleUnconnected(p)' /\ PendingMatchesWire(p)'
      BY <2>1 DEF SenderIInv, PeerInv, IdleUnconnected, PendingMatchesWire, Live
    <3>2. PlacesInOrder(p)' /\ HeldIsWaited(p)'
      BY <2>1 DEF SenderIInv, PeerInv, PlacesInOrder, HeldIsWaited, Held
    <3>3. UsedInOrder(p)' /\ WiresInOrder(p)' /\ AckedReceived(p)'
      BY <2>1 DEF SenderIInv, PeerInv, UsedInOrder, WiresInOrder, AckedReceived, Live
    <3> QED BY <3>1, <3>2, <3>3 DEF PeerInv
  <2> QED BY <2>2, <2>3 DEF SenderIInv
<1> QED BY <1>1, <1>2, <1>3, <1>4, <1>5, <1>6 DEF SenderNext, NetworkStep

-----------------------------------------------------------------------------
(***************************************************************************)
(* What the sender promises.                                               *)
(***************************************************************************)

\* The reliable sender keeps its invariant with any caller.
THEOREM SenderInvariant == SenderSpec => []SenderIInv
  BY SenderInitIInv, SenderNextIInv, PTL DEF SenderSpec

\* An ACK is credited to a message that was delivered: what the invariant says
\* of the handlers.
LEMMA AckedImplied == SenderIInv => AckedWasReceived
  BY DEF SenderIInv, PeerInv, AckedReceived, AckedWasReceived

\* The places that hold a message, put together, are in the order of sending.
LEMMA HeldImplied == SenderIInv => HeldOnceInOrder
<1> SUFFICES ASSUME SenderIInv, NEW p \in Peer
             PROVE  /\ Ascending(Unacknowledged(p))
                    /\ \A m \in Message : handler[p][m] = "waiting" =>
                          \E i \in DOMAIN Unacknowledged(p) : Unacknowledged(p)[i] = m
  BY DEF HeldOnceInOrder, Ascending
<1> DEFINE a == pendingReplies[p] \o writing[p]
           b == a \o buffer[p]
           c == b \o channel[p]
<1>1. SenderTypeOK /\ PlacesInOrder(p) /\ HeldIsWaited(p)
  BY DEF SenderIInv, PeerInv
<1>2. /\ pendingReplies[p] \in Seq(Message) /\ writing[p] \in Seq(Message)
      /\ buffer[p] \in Seq(Message) /\ channel[p] \in Seq(Message)
      /\ writing[p] = <<>> \/ \E m \in Message : writing[p] = <<m>>
  BY <1>1, TypeAt
<1>3. Ascending(writing[p])
  BY <1>2, ShortSequences
<1>4. /\ a \in Seq(Message) /\ Ascending(a)
      /\ Range(a) = Range(pendingReplies[p]) \cup Range(writing[p])
  BY <1>1, <1>2, <1>3, ConcatFacts DEF PlacesInOrder, Below
<1> HIDE DEF a
<1>5. /\ b \in Seq(Message) /\ Ascending(b) /\ Range(b) = Range(a) \cup Range(buffer[p])
  <2>1. Below(Range(a), Range(buffer[p])) /\ Ascending(buffer[p])
    BY <1>1, <1>4 DEF PlacesInOrder, Below
  <2> QED BY <1>2, <1>4, <2>1, ConcatFacts
<1> HIDE DEF b
<1>6. /\ c \in Seq(Message) /\ Ascending(c) /\ Range(c) = Range(b) \cup Range(channel[p])
  <2>1. Below(Range(b), Range(channel[p])) /\ Ascending(channel[p])
    BY <1>1, <1>4, <1>5 DEF PlacesInOrder, Below
  <2> QED BY <1>2, <1>5, <2>1, ConcatFacts
<1>7. Unacknowledged(p) = c
  BY DEF Unacknowledged, b, a
<1> HIDE DEF c
<1>8. Range(c) = Held(p)
  BY <1>4, <1>5, <1>6 DEF Held
<1>9. \A m \in Held(p) : \E i \in DOMAIN c : c[i] = m
  BY <1>8 DEF Range
<1> QED BY <1>1, <1>6, <1>7, <1>9 DEF HeldIsWaited

\* A step of the sender is one of the channel of module Delivery, or changes
\* neither what is delivered nor what the handlers say.
LEMMA ChannelStep ==
    ASSUME SenderIInv, [SenderNext]_senderVars
    PROVE  [Channel!Next]_(Channel!vars)
<1> USE DEF Channel!vars
<1>1. CASE UNCHANGED <<received, handler>>
  BY <1>1
<1>2. ASSUME NEW p \in Peer, NEW m \in Message, Send(p, m)
      PROVE  Channel!Next
  <2>1. Channel!Accept(p, m)
    BY <1>2 DEF Send, Channel!Accept
  <2> QED BY <2>1 DEF Channel!Next, Channel!Message, Message
<1>3. ASSUME NEW dropped \in SUBSET (Peer \X Message), Cancel(dropped)
      PROVE  Channel!Next
  <2>1. Channel!Withdraw
    BY <1>3 DEF Cancel, Cancelled, Channel!Withdraw, Channel!Message, Message
  <2> QED BY <2>1 DEF Channel!Next
<1>4. ASSUME NEW p \in Peer, ReadAck(p)
      PROVE  Channel!Next \/ UNCHANGED <<received, handler>>
  <2> DEFINE h == Head(pendingReplies[p])
  <2>1. /\ connected[p] /\ acks[p] > 0 /\ UNCHANGED received
        /\ handler' = IF Open(p, h) THEN [handler EXCEPT ![p][h] = "acked"] ELSE handler
    BY <1>4 DEF ReadAck, AtSelect
  <2>2. h \in Message /\ h \in received[p] /\ h \in Held(p) /\ Below({h}, Held(p) \ {h})
    BY <2>1, AckFacts
  <2> HIDE DEF h
  <2>3. HeldIsWaited(p)
    BY DEF SenderIInv, PeerInv
  <2>4. CASE Open(p, h)
    <3>1. handler[p][h] = "waiting"
      BY <2>2, <2>3, <2>4 DEF HeldIsWaited, Open
    <3>2. \A k \in 1 .. (h - 1) : handler[p][k] # "waiting"
      <4> SUFFICES ASSUME NEW k \in 1 .. (h - 1), handler[p][k] = "waiting" PROVE FALSE
        OBVIOUS
      <4>1. k \in Message /\ k < h /\ ~ (h < k)
        BY <2>2, SenderAssumption DEF Message
      <4>2. k \in Held(p) \ {h}
        BY <2>2, <2>3, <4>1 DEF HeldIsWaited
      <4> QED BY <2>2, <4>1, <4>2 DEF Below
    <3>3. Channel!Confirm(p, h)
      BY <2>1, <2>2, <2>4, <3>1, <3>2 DEF Channel!Confirm
    <3> QED BY <2>2, <3>3 DEF Channel!Next, Channel!Message, Message
  <2>5. CASE ~ Open(p, h)
    BY <2>1, <2>5
  <2> QED BY <2>4, <2>5
<1>5. ASSUME NEW p \in Peer, NEW n \in 1 .. Live(p), Receive(p, n)
      PROVE  Channel!Next \/ UNCHANGED <<received, handler>>
  <2> DEFINE line == wires[p][n]
             h == Head(line)
  <2>1. /\ line # <<>> /\ received' = [received EXCEPT ![p] = @ \cup {h}] /\ UNCHANGED handler
    BY <1>5 DEF Receive
  <2>2. SenderTypeOK /\ WiresInOrder(p) /\ line \in Seq(Message)
    BY TypeAt DEF SenderIInv, PeerInv
  <2>3. h = line[1] /\ 1 \in DOMAIN line /\ h \in Message
    BY <2>1, <2>2
  <2>4. /\ handler[p][h] # "unused"
        /\ \A k \in 1 .. (h - 1) : k \in received[p] \/ handler[p][k] = "closed"
    BY <2>2, <2>3 DEF WiresInOrder
  <2> HIDE DEF line, h
  <2>5. CASE h \in received[p]
    <3>1. received' = received
      BY <2>1, <2>2, <2>5 DEF SenderTypeOK
    <3> QED BY <2>1, <3>1
  <2>6. CASE h \notin received[p]
    <3>1. Channel!Deliver(p, h)
      BY <2>1, <2>4, <2>6 DEF Channel!Deliver
    <3> QED BY <2>3, <3>1 DEF Channel!Next, Channel!Message, Message
  <2> QED BY <2>5, <2>6
<1>6. ASSUME NEW p \in Peer,
             DrainChannel(p) \/ PopBuffer(p) \/ Write(p) \/ TakeMessage(p) \/ Connect(p) \/ Break(p)
      PROVE  UNCHANGED <<received, handler>>
  BY <1>6 DEF DrainChannel, PopBuffer, Write, TakeMessage, Connect, Break
<1>7. CASE UNCHANGED senderVars
  BY <1>7 DEF senderVars
<1> QED BY <1>1, <1>2, <1>3, <1>4, <1>5, <1>6, <1>7 DEF SenderNext, NetworkStep, TaskStep

\* The sender implements the abstract channel, its fairness apart: messages
\* are delivered in order, and confirmed after their delivery and in order.
THEOREM SenderImplementsChannel ==
    SenderSpec => Channel!Init /\ [][Channel!Next]_(Channel!vars)
<1>1. SenderInit => Channel!Init
  BY DEF SenderInit, Channel!Init, Message, Channel!Message
<1> QED BY <1>1, ChannelStep, SenderInvariant, PTL DEF SenderSpec

\* What has been delivered and confirmed stays so.
LEMMA RecordGrows ==
    ASSUME SenderIInv, [SenderNext]_senderVars, NEW p \in Peer
    PROVE  /\ received[p] \subseteq received'[p]
           /\ \A m \in Message : handler[p][m] = "acked" => handler'[p][m] = "acked"
<1> USE DEF Channel!Message, Message
<1>1. /\ received \in [Peer -> SUBSET Message]
      /\ handler \in [Peer -> [Message -> {"unused", "waiting", "acked", "closed"}]]
  BY DEF SenderIInv, SenderTypeOK
<1>2. CASE Channel!Withdraw
  BY <1>1, <1>2 DEF Channel!Withdraw
<1>3. ASSUME NEW q \in Peer, NEW m \in Message,
             Channel!Accept(q, m) \/ Channel!Deliver(q, m) \/ Channel!Confirm(q, m)
      PROVE  /\ received[p] \subseteq received'[p]
             /\ \A x \in Message : handler[p][x] = "acked" => handler'[p][x] = "acked"
  <2>1. CASE Channel!Accept(q, m)
    BY <1>1, <2>1 DEF Channel!Accept
  <2>2. CASE Channel!Deliver(q, m)
    BY <1>1, <2>2 DEF Channel!Deliver
  <2>3. CASE Channel!Confirm(q, m)
    BY <1>1, <2>3 DEF Channel!Confirm
  <2> QED BY <1>3, <2>1, <2>2, <2>3
<1>4. CASE UNCHANGED <<received, handler>>
  BY <1>4
<1> QED BY <1>2, <1>3, <1>4, ChannelStep DEF Channel!Next, Channel!vars

-----------------------------------------------------------------------------
(***************************************************************************)
(* The inductive invariant of the worker, by its tasks.                    *)
(***************************************************************************)

\* Every sealed batch has a transaction, so that there are no more batches than
\* transactions, nor than messages to a peer.
MakerInv ==
    /\ taken \in 0 .. MaxTxs
    /\ currentBatch \in Seq(1 .. MaxTxs) /\ Len(currentBatch) < BatchSize
    /\ batches \in Seq(Seq(1 .. MaxTxs))
    /\ Len(batches) + Len(currentBatch) <= taken
    /\ unsent \subseteq Peer /\ sealing \in BOOLEAN
    /\ sealing => Len(batches) > 0

\* The QuorumWaiter counts peers that have acknowledged the batch it is at.
WaiterInv ==
    /\ rxMessage \in Seq(Batch) /\ Len(rxMessage) <= TaskCap
    /\ \A i \in DOMAIN rxMessage : rxMessage[i] <= Len(batches)
    /\ waiting \in [batch : 0 .. MaxTxs, counted : SUBSET Peer]
    /\ waiting.batch <= Len(batches)
    /\ waiting.counted # {} => waiting.batch \in Batch
    /\ \A p \in waiting.counted : handler[p][waiting.batch] = "acked"

\* The batches that authorities with a quorum of the stake have got.
AtQuorum ==
    {b \in Batch : StakeOf({Me} \cup {p \in Peer : b \in received[p]}) >= quorum_threshold}

\* What is past the QuorumWaiter is at a quorum.
ProcessorInv ==
    /\ rxBatch \in Seq(Batch) /\ Len(rxBatch) <= TaskCap
    /\ \A i \in DOMAIN rxBatch : rxBatch[i] \in AtQuorum
    /\ rxDigest \in Seq(Batch) /\ Len(rxDigest) <= TaskCap
    /\ \A i \in DOMAIN rxDigest : rxDigest[i] \in store
    /\ store \subseteq AtQuorum
    /\ digests \subseteq store
    /\ stored \in [Peer \ Silent -> SUBSET Batch]

WorkerIInv == SenderIInv /\ MakerInv /\ WaiterInv /\ ProcessorInv

-----------------------------------------------------------------------------
(***************************************************************************)
(* The steps of the worker keep the invariant.                             *)
(***************************************************************************)

\* Queues between tasks.
LEMMA QueueFacts ==
    ASSUME NEW S, NEW s \in Seq(S)
    PROVE  /\ Len(s) \in Nat
           /\ s # <<>> => /\ Head(s) \in S /\ Tail(s) \in Seq(S)
                          /\ 1 \in DOMAIN s /\ Head(s) = s[1]
                          /\ Len(s) > 0 /\ Len(Tail(s)) = Len(s) - 1
                          /\ \A i \in DOMAIN Tail(s) : i + 1 \in DOMAIN s /\ Tail(s)[i] = s[i + 1]
           /\ \A e \in S : /\ Append(s, e) \in Seq(S) /\ Len(Append(s, e)) = Len(s) + 1
                           /\ \A i \in DOMAIN Append(s, e) :
                                 (i \in DOMAIN s /\ Append(s, e)[i] = s[i]) \/ Append(s, e)[i] = e
<1>1. Len(s) \in Nat
  OBVIOUS
<1>2. ASSUME s # <<>>
      PROVE  /\ Head(s) \in S /\ Tail(s) \in Seq(S)
             /\ 1 \in DOMAIN s /\ Head(s) = s[1]
             /\ Len(s) > 0 /\ Len(Tail(s)) = Len(s) - 1
             /\ \A i \in DOMAIN Tail(s) : i + 1 \in DOMAIN s /\ Tail(s)[i] = s[i + 1]
  BY <1>2
<1>3. ASSUME NEW e \in S
      PROVE  /\ Append(s, e) \in Seq(S) /\ Len(Append(s, e)) = Len(s) + 1
             /\ \A i \in DOMAIN Append(s, e) :
                   (i \in DOMAIN s /\ Append(s, e)[i] = s[i]) \/ Append(s, e)[i] = e
  BY <1>3
<1> QED BY <1>1, <1>2, <1>3

\* The peers are the other authorities, and batches are messages.
LEMMA WorkerFacts ==
    /\ Me \in Authority /\ Peer \subseteq Authority \ {Me} /\ Peer \subseteq Nat
    /\ MaxTxs \in Nat /\ MaxTxs <= MaxMessages /\ MaxMessages \in Nat
    /\ BatchSize \in Nat \ {0} /\ TaskCap \in Nat \ {0}
    /\ Batch \subseteq Message
    /\ \A b \in Batch : b \in Nat /\ b # 0
  BY WorkerAssumption, SenderAssumption, NAssumption DEF Authority, Batch, Message

\* The broadcast has a next peer: the set of those it goes to is finite.
LEMMA MinFacts ==
    ASSUME NEW S \in SUBSET Nat, S # {}
    PROVE  Min(S) \in S
<1>1. PICK x \in S : \A y \in S : ~ (<<y, x>> \in OpToRel(<, Nat))
  BY NatLessThanWellFounded, WFMin
<1>2. ASSUME NEW y \in S PROVE x <= y
  <2>1. x \in Nat /\ y \in Nat
    OBVIOUS
  <2>2. y < x => <<y, x>> \in OpToRel(<, Nat)
    BY <2>1 DEF OpToRel
  <2>3. ~ (y < x)
    BY <1>1, <2>2
  <2> QED BY <2>1, <2>3
<1> QED BY <1>2 DEF Min

LEMMA KeepsMaker == MakerInv /\ UNCHANGED makerVars => MakerInv'
  BY DEF MakerInv, makerVars

LEMMA KeepsWaiter ==
    ASSUME WaiterInv, UNCHANGED waiterVars, Len(batches) \in Nat, Len(batches') \in Nat,
           Len(batches) <= Len(batches'),
           \A p \in Peer : \A m \in Message : handler[p][m] = "acked" => handler'[p][m] = "acked"
    PROVE  WaiterInv'
<1>1. rxMessage' = rxMessage /\ waiting' = waiting
  BY DEF waiterVars
<1>2. \A i \in DOMAIN rxMessage : rxMessage[i] <= Len(batches')
  <2>1. \A i \in DOMAIN rxMessage : rxMessage[i] \in Nat /\ rxMessage[i] <= Len(batches)
    <3>1. \A i \in DOMAIN rxMessage : rxMessage[i] \in Batch
      BY DEF WaiterInv
    <3> QED BY <3>1, WorkerFacts DEF WaiterInv
  <2> QED BY <2>1
<1>3. waiting.batch \in Nat /\ waiting.batch <= Len(batches')
  <2>1. waiting.batch \in Nat /\ waiting.batch <= Len(batches)
    BY WorkerFacts DEF WaiterInv
  <2> QED BY <2>1
<1>4. \A p \in waiting.counted : handler'[p][waiting.batch] = "acked"
  BY WorkerFacts DEF WaiterInv
<1> QED BY <1>1, <1>2, <1>3, <1>4 DEF WaiterInv

\* A quorum that has a batch keeps it.
LEMMA KeepsQuorum ==
    ASSUME \A p \in Peer : received[p] \subseteq received'[p]
    PROVE  AtQuorum \subseteq AtQuorum'
<1> SUFFICES ASSUME NEW b \in AtQuorum PROVE b \in AtQuorum'
  OBVIOUS
<1> DEFINE S == {Me} \cup {p \in Peer : b \in received[p]}
           T == {Me} \cup {p \in Peer : b \in received'[p]}
<1>1. S \subseteq T /\ T \subseteq Authority
  BY WorkerFacts
<1>2. StakeOf(S) >= quorum_threshold /\ b \in Batch
  BY DEF AtQuorum
<1> HIDE DEF S, T
<1>3. StakeOf(S) <= StakeOf(T) /\ StakeOf(S) \in Nat /\ StakeOf(T) \in Nat
      /\ quorum_threshold \in Nat
  <2>1. S \subseteq Authority
    BY <1>1
  <2>2. StakeOf(S) <= StakeOf(T)
    BY <1>1, StakeMonotone
  <2>3. StakeOf(S) \in Nat /\ StakeOf(T) \in Nat
    BY <1>1, <2>1, StakeNatural
  <2> QED BY <2>2, <2>3, Thresholds
<1>4. StakeOf(T) >= quorum_threshold
  BY <1>2, <1>3
<1> QED BY <1>2, <1>4 DEF AtQuorum, T

LEMMA KeepsProcessor ==
    ASSUME ProcessorInv, UNCHANGED <<rxBatch, store, rxDigest, digests, stored>>,
           \A p \in Peer : received[p] \subseteq received'[p]
    PROVE  ProcessorInv'
<1>1. AtQuorum \subseteq AtQuorum'
  BY KeepsQuorum
<1> QED BY <1>1 DEF ProcessorInv

LEMMA WorkerInitIInv == Init => WorkerIInv
<1> SUFFICES ASSUME Init PROVE WorkerIInv
  OBVIOUS
<1> USE DEF Init
<1>1. SenderIInv
  BY SenderInitIInv
<1>2. \A S : <<>> \in Seq(S) /\ Len(<<>>) = 0 /\ DOMAIN <<>> = {}
  OBVIOUS
<1>3. MakerInv
  <2>1. Len(batches) = 0 /\ Len(currentBatch) = 0 /\ taken = 0 /\ sealing = FALSE /\ unsent = {}
    BY <1>2
  <2>2. batches \in Seq(Seq(1 .. MaxTxs)) /\ currentBatch \in Seq(1 .. MaxTxs)
    BY <1>2
  <2>3. MaxTxs \in Nat /\ BatchSize \in Nat \ {0}
    BY WorkerFacts
  <2> HIDE DEF Init
  <2>4. /\ taken \in 0 .. MaxTxs /\ Len(currentBatch) < BatchSize
        /\ Len(batches) + Len(currentBatch) <= taken
    BY <2>1, <2>3
  <2>5. unsent \subseteq Peer /\ sealing \in BOOLEAN /\ ~ sealing
    BY <2>1
  <2> QED BY <2>2, <2>4, <2>5 DEF MakerInv
<1>4. WaiterInv
  BY <1>2, WorkerFacts DEF WaiterInv, NoBatch
<1>5. ProcessorInv
  BY <1>2, WorkerFacts DEF ProcessorInv
<1> QED BY <1>1, <1>3, <1>4, <1>5 DEF WorkerIInv

\* The worker is a caller of the sender: what it does to it is a step of it.
LEMMA WorkerCalls ==
    ASSUME MakerInv, [Next]_vars
    PROVE  [SenderNext]_senderVars
<1>1. CASE Broadcast
  <2>1. unsent # {} /\ Send(Min(unsent), Len(batches)) /\ sealing
    BY <1>1 DEF Broadcast
  <2>2. Min(unsent) \in Peer
    BY <2>1, MinFacts, WorkerFacts DEF MakerInv
  <2>3. Len(batches) \in Message
    <3>1. /\ Len(batches) \in Nat /\ Len(currentBatch) \in Nat /\ Len(batches) > 0
          /\ Len(batches) + Len(currentBatch) <= taken /\ taken \in Nat /\ taken <= MaxTxs
      BY <2>1, WorkerFacts DEF MakerInv
    <3> QED BY <3>1, WorkerFacts DEF Message
  <2> QED BY <2>1, <2>2, <2>3 DEF SenderNext
<1>2. ASSUME NEW p \in Peer, CountAck(p) PROVE [SenderNext]_senderVars
  <2>1. Cancel(Peer \X {waiting.batch}) \/ UNCHANGED senderVars
    BY <1>2 DEF CountAck
  <2>2. ASSUME Cancel(Peer \X {waiting.batch}) PROVE SenderNext
    <3> DEFINE dropped == (Peer \X {waiting.batch}) \cap (Peer \X Message)
    <3>1. Cancelled(Peer \X {waiting.batch}) = Cancelled(dropped)
      BY DEF Cancelled
    <3>2. Cancel(dropped) /\ dropped \in SUBSET (Peer \X Message)
      BY <2>2, <3>1 DEF Cancel
    <3> QED BY <3>2 DEF SenderNext
  <2> QED BY <2>1, <2>2
<1>3. CASE NetworkStep
  BY <1>3 DEF SenderNext
<1>4. CASE \/ TakeTransaction
           \/ SealOnTimer
           \/ DeliverBatch
           \/ StartWaiting
           \/ StoreBatch
           \/ AnnounceDigest
           \/ \E p \in Peer \ Silent, b \in Batch : StoreOthersBatch(p, b)
  BY <1>4 DEF TakeTransaction, SealOnTimer, DeliverBatch, StartWaiting, StoreBatch,
              AnnounceDigest, StoreOthersBatch
<1>5. CASE UNCHANGED vars
  BY <1>5 DEF vars
<1> QED BY <1>1, <1>2, <1>3, <1>4, <1>5 DEF Next, OwnStep

\* The BatchMaker: batches are sealed when full or on the timer, sent to the
\* peers and handed on.
LEMMA MakerStep ==
    ASSUME WorkerIInv, [Next]_vars
    PROVE  /\ MakerInv'
           /\ Len(batches) \in Nat /\ Len(batches') \in Nat /\ Len(batches) <= Len(batches')
<1>1. /\ taken \in 0 .. MaxTxs
      /\ currentBatch \in Seq(1 .. MaxTxs) /\ Len(currentBatch) < BatchSize
      /\ batches \in Seq(Seq(1 .. MaxTxs))
      /\ Len(batches) + Len(currentBatch) <= taken
      /\ unsent \subseteq Peer /\ sealing \in BOOLEAN /\ (sealing => Len(batches) > 0)
      /\ Len(batches) \in Nat /\ Len(currentBatch) \in Nat
      /\ MaxTxs \in Nat /\ BatchSize \in Nat \ {0} /\ MakerInv
  BY WorkerFacts DEF WorkerIInv, MakerInv
<1>2. ASSUME NEW batch \in Seq(1 .. MaxTxs), batch # <<>>, Seal(batch),
             Len(batches) + Len(batch) <= taken', taken' \in 0 .. MaxTxs
      PROVE  MakerInv' /\ Len(batches') = Len(batches) + 1
  <2>1. /\ batches' \in Seq(Seq(1 .. MaxTxs)) /\ Len(batches') = Len(batches) + 1
        /\ currentBatch' = <<>> /\ unsent' = Peer /\ sealing' = TRUE
    BY <1>1, <1>2, QueueFacts DEF Seal
  <2>2. Len(batch) \in Nat /\ Len(batch) > 0
    BY <1>2
  <2>3. Len(currentBatch') = 0 /\ currentBatch' \in Seq(1 .. MaxTxs)
    BY <2>1
  <2>4. Len(batches') + Len(currentBatch') <= taken' /\ Len(batches') > 0
        /\ Len(currentBatch') < BatchSize
    BY <1>1, <1>2, <2>1, <2>2, <2>3
  <2> QED BY <1>2, <2>1, <2>3, <2>4 DEF MakerInv
<1>3. CASE TakeTransaction
  <2> DEFINE batch == Append(currentBatch, taken + 1)
  <2>1. /\ taken < MaxTxs /\ taken' = taken + 1
        /\ IF Len(batch) >= BatchSize THEN Seal(batch)
           ELSE currentBatch' = batch /\ UNCHANGED <<batches, unsent, sealing>>
    BY <1>3 DEF TakeTransaction
  <2>2. taken + 1 \in 1 .. MaxTxs
    BY <1>1, <2>1
  <2>3. batch \in Seq(1 .. MaxTxs) /\ Len(batch) = Len(currentBatch) + 1 /\ batch # <<>>
    BY <1>1, <2>2, AppendProperties
  <2> HIDE DEF batch
  <2>4. Len(batches) + Len(batch) <= taken' /\ taken' \in 0 .. MaxTxs
    BY <1>1, <2>1, <2>2, <2>3
  <2>5. CASE Len(batch) >= BatchSize
    BY <1>1, <1>2, <2>1, <2>3, <2>4, <2>5
  <2>6. CASE ~ (Len(batch) >= BatchSize)
    <3>1. currentBatch' = batch /\ batches' = batches /\ unsent' = unsent /\ sealing' = sealing
      BY <2>1, <2>6
    <3>2. Len(batch) < BatchSize
      BY <1>1, <2>3, <2>6
    <3> QED BY <1>1, <2>3, <2>4, <3>1, <3>2 DEF MakerInv
  <2> QED BY <2>5, <2>6
<1>4. CASE SealOnTimer
  <2>1. currentBatch # <<>> /\ Seal(currentBatch) /\ taken' = taken
    BY <1>4 DEF SealOnTimer
  <2>2. MakerInv' /\ Len(batches') = Len(batches) + 1
    BY <1>1, <1>2, <2>1
  <2> QED BY <1>1, <2>2
<1>5. CASE Broadcast
  BY <1>1, <1>5 DEF Broadcast, MakerInv
<1>6. CASE DeliverBatch
  <2>1. /\ sealing' = FALSE /\ taken' = taken /\ currentBatch' = currentBatch
        /\ batches' = batches /\ unsent' = unsent
    BY <1>6 DEF DeliverBatch
  <2>2. sealing' \in BOOLEAN /\ (sealing' => Len(batches') > 0)
    BY <2>1
  <2> QED BY <1>1, <2>1, <2>2 DEF MakerInv
<1>7. CASE UNCHANGED makerVars
  <2>1. MakerInv' /\ batches' = batches
    BY <1>1, <1>7, KeepsMaker DEF makerVars
  <2> QED BY <1>1, <2>1
<1>8. CASE \/ StartWaiting
           \/ \E p \in Peer : CountAck(p)
           \/ StoreBatch
           \/ AnnounceDigest
           \/ NetworkStep /\ UNCHANGED workerVars
           \/ \E p \in Peer \ Silent, b \in Batch : StoreOthersBatch(p, b)
           \/ UNCHANGED vars
  BY <1>7, <1>8 DEF StartWaiting, CountAck, StoreBatch, AnnounceDigest, StoreOthersBatch,
                    workerVars, vars
<1> QED BY <1>3, <1>4, <1>5, <1>6, <1>8 DEF Next, OwnStep

\* The QuorumWaiter takes one batch after the other and counts its ACKs.
LEMMA WaiterStep ==
    ASSUME WorkerIInv, [Next]_vars
    PROVE  WaiterInv'
<1>1. Len(batches) \in Nat /\ Len(batches') \in Nat /\ Len(batches) <= Len(batches')
  BY MakerStep
<1>2. \A p \in Peer : \A m \in Message : handler[p][m] = "acked" => handler'[p][m] = "acked"
  BY WorkerCalls, RecordGrows DEF WorkerIInv
<1>3. WaiterInv /\ MakerInv
  BY DEF WorkerIInv
<1>4. CASE UNCHANGED waiterVars
  BY <1>1, <1>2, <1>3, <1>4, KeepsWaiter
<1>5. CASE DeliverBatch
  <2>1. /\ sealing /\ Len(rxMessage) < TaskCap /\ rxMessage' = Append(rxMessage, Len(batches))
        /\ batches' = batches /\ waiting' = waiting /\ handler' = handler
    BY <1>5 DEF DeliverBatch, senderVars
  <2>2. Len(batches) \in Batch
    <3>1. /\ Len(batches) > 0 /\ Len(batches) + Len(currentBatch) <= taken
          /\ Len(currentBatch) \in Nat /\ taken \in Nat /\ taken <= MaxTxs
      BY <1>3, <2>1, WorkerFacts DEF MakerInv
    <3> QED BY <1>1, <3>1, WorkerFacts DEF Batch
  <2>3. /\ rxMessage' \in Seq(Batch) /\ Len(rxMessage') = Len(rxMessage) + 1
        /\ \A i \in DOMAIN rxMessage' :
              (i \in DOMAIN rxMessage /\ rxMessage'[i] = rxMessage[i]) \/ rxMessage'[i] = Len(batches)
        /\ Len(rxMessage) \in Nat
    <3>1. rxMessage \in Seq(Batch)
      BY <1>3 DEF WaiterInv
    <3> QED BY <2>1, <2>2, <3>1, QueueFacts
  <2>4. Len(rxMessage') <= TaskCap
    BY <2>1, <2>3, WorkerFacts
  <2>5. \A i \in DOMAIN rxMessage' : rxMessage'[i] <= Len(batches)
    BY <1>1, <1>3, <2>3 DEF WaiterInv
  <2> QED BY <1>3, <2>1, <2>3, <2>4, <2>5 DEF WaiterInv
<1>6. CASE StartWaiting
  <2>1. /\ rxMessage # <<>> /\ rxMessage' = Tail(rxMessage)
        /\ waiting' = [batch |-> Head(rxMessage), counted |-> {}]
        /\ batches' = batches
    BY <1>6 DEF StartWaiting, makerVars
  <2>2. /\ rxMessage \in Seq(Batch) /\ Len(rxMessage) <= TaskCap
        /\ \A i \in DOMAIN rxMessage : rxMessage[i] <= Len(batches)
    BY <1>3 DEF WaiterInv
  <2>3. /\ Head(rxMessage) \in Batch /\ Tail(rxMessage) \in Seq(Batch)
        /\ 1 \in DOMAIN rxMessage /\ Head(rxMessage) = rxMessage[1]
        /\ Len(rxMessage) \in Nat /\ Len(Tail(rxMessage)) = Len(rxMessage) - 1
        /\ \A i \in DOMAIN Tail(rxMessage) :
              i + 1 \in DOMAIN rxMessage /\ Tail(rxMessage)[i] = rxMessage[i + 1]
    BY <2>1, <2>2, QueueFacts
  <2>4. Head(rxMessage) \in 0 .. MaxTxs /\ Head(rxMessage) <= Len(batches)
    BY <2>2, <2>3, WorkerFacts DEF Batch
  <2>5. Len(rxMessage') <= TaskCap
    BY <2>1, <2>2, <2>3, WorkerFacts
  <2> QED BY <2>1, <2>2, <2>3, <2>4, <2>5 DEF WaiterInv
<1>7. ASSUME NEW p \in Peer, CountAck(p) PROVE WaiterInv'
  <2> DEFINE b == waiting.batch
             counted == waiting.counted \cup {p}
  <2>1. /\ b # 0 /\ handler[p][b] = "acked" /\ rxMessage' = rxMessage
        /\ batches' = batches
        /\ waiting' = NoBatch \/ waiting' = [waiting EXCEPT !.counted = counted]
    BY <1>7 DEF CountAck, makerVars
  <2>2. b \in Batch /\ b <= Len(batches) /\ waiting \in [batch : 0 .. MaxTxs, counted : SUBSET Peer]
    BY <1>3, <2>1 DEF WaiterInv, Batch
  <2>3. CASE waiting' = NoBatch
    BY <1>1, <1>3, <2>1, <2>3, WorkerFacts DEF WaiterInv, NoBatch
  <2>4. CASE waiting' = [waiting EXCEPT !.counted = counted]
    <3>1. waiting'.batch = b /\ waiting'.counted = counted
          /\ waiting' \in [batch : 0 .. MaxTxs, counted : SUBSET Peer]
      BY <2>2, <2>4
    <3>2. \A q \in counted : handler[q][b] = "acked" /\ q \in Peer
      BY <1>3, <2>1, <2>2 DEF WaiterInv
    <3>3. \A q \in counted : handler'[q][b] = "acked"
      BY <1>2, <2>2, <3>2, WorkerFacts
    <3> QED BY <1>3, <2>1, <2>2, <3>1, <3>3 DEF WaiterInv
  <2> QED BY <2>1, <2>3, <2>4
<1>8. CASE \/ TakeTransaction
           \/ SealOnTimer
           \/ Broadcast
           \/ StoreBatch
           \/ AnnounceDigest
           \/ NetworkStep /\ UNCHANGED workerVars
           \/ \E p \in Peer \ Silent, b \in Batch : StoreOthersBatch(p, b)
           \/ UNCHANGED vars
  BY <1>4, <1>8 DEF TakeTransaction, SealOnTimer, Broadcast, StoreBatch, AnnounceDigest,
                    StoreOthersBatch, workerVars, vars
<1> QED BY <1>5, <1>6, <1>7, <1>8 DEF Next, OwnStep

\* The ACKs that are counted, with ourselves, are those of a quorum.
LEMMA CountedIsQuorum ==
    ASSUME SenderIInv, NEW b \in Batch, NEW S \in SUBSET Peer, EnoughAcks(S),
           \A p \in S : handler[p][b] = "acked"
    PROVE  b \in AtQuorum
<1> DEFINE T == {Me} \cup {p \in Peer : b \in received[p]}
           U == S \cup {Me}
<1>1. \A p \in S : b \in received[p]
  BY WorkerFacts DEF SenderIInv, PeerInv, AckedReceived
<1>2. U \subseteq T /\ T \subseteq Authority /\ S \subseteq Authority /\ Me \in Authority \ S
  BY <1>1, WorkerFacts
<1>3. StakeOf(U) = StakeOf(S) + Stake[Me]
  BY <1>2, StakeAdd
<1>4. Stake[Me] + StakeOf(S) >= quorum_threshold
  BY DEF EnoughAcks
<1> HIDE DEF T, U
<1>5. StakeOf(U) <= StakeOf(T)
  BY <1>2, StakeMonotone
<1>6. /\ StakeOf(U) \in Nat /\ StakeOf(T) \in Nat /\ StakeOf(S) \in Nat
      /\ Stake[Me] \in Nat /\ quorum_threshold \in Nat
  <2>1. U \subseteq Authority
    BY <1>2
  <2> QED BY <1>2, <2>1, StakeNatural, StakeAssumption, Thresholds
<1>7. StakeOf(T) >= quorum_threshold
  BY <1>3, <1>4, <1>5, <1>6
<1> QED BY <1>7 DEF AtQuorum, T

\* The Processor and the PrimaryConnector handle what is at a quorum.
LEMMA ProcessorStep ==
    ASSUME WorkerIInv, [Next]_vars
    PROVE  ProcessorInv'
<1>1. \A p \in Peer : received[p] \subseteq received'[p]
  BY WorkerCalls, RecordGrows DEF WorkerIInv
<1>2. ProcessorInv /\ WaiterInv /\ SenderIInv
  BY DEF WorkerIInv
<1>3. AtQuorum \subseteq AtQuorum'
  BY <1>1, KeepsQuorum
<1>4. /\ rxBatch \in Seq(Batch) /\ Len(rxBatch) <= TaskCap
      /\ \A i \in DOMAIN rxBatch : rxBatch[i] \in AtQuorum'
      /\ rxDigest \in Seq(Batch) /\ Len(rxDigest) <= TaskCap
      /\ \A i \in DOMAIN rxDigest : rxDigest[i] \in store
      /\ store \subseteq AtQuorum'
      /\ digests \subseteq store
      /\ stored \in [Peer \ Silent -> SUBSET Batch]
  BY <1>2, <1>3 DEF ProcessorInv
<1>5. CASE UNCHANGED <<rxBatch, store, rxDigest, digests, stored>>
  BY <1>1, <1>2, <1>5, KeepsProcessor
<1>6. ASSUME NEW p \in Peer, CountAck(p) PROVE ProcessorInv'
  <2> DEFINE b == waiting.batch
             counted == waiting.counted \cup {p}
  <2>1. /\ b # 0 /\ handler[p][b] = "acked"
        /\ UNCHANGED <<store, rxDigest, digests, stored>>
        /\ IF EnoughAcks(counted)
           THEN Len(rxBatch) < TaskCap /\ rxBatch' = Append(rxBatch, b)
           ELSE rxBatch' = rxBatch
    BY <1>6 DEF CountAck
  <2>2. CASE ~ EnoughAcks(counted)
    BY <1>5, <2>1, <2>2
  <2>3. CASE EnoughAcks(counted)
    <3>1. b \in Batch /\ counted \subseteq Peer /\ \A q \in counted : handler[q][b] = "acked"
      BY <1>2, <2>1 DEF WaiterInv, Batch
    <3>2. b \in AtQuorum'
      <4> HIDE DEF b, counted
      <4> QED BY <1>2, <1>3, <2>3, <3>1, CountedIsQuorum
    <3>3. /\ rxBatch' \in Seq(Batch) /\ Len(rxBatch') = Len(rxBatch) + 1 /\ Len(rxBatch) \in Nat
          /\ \A i \in DOMAIN rxBatch' :
                (i \in DOMAIN rxBatch /\ rxBatch'[i] = rxBatch[i]) \/ rxBatch'[i] = b
      <4>1. rxBatch' = Append(rxBatch, b) /\ rxBatch \in Seq(Batch) /\ b \in Batch
        BY <1>4, <2>1, <2>3, <3>1
      <4> HIDE DEF b, counted
      <4> QED BY <4>1, QueueFacts
    <3>4. Len(rxBatch') <= TaskCap
      BY <2>1, <2>3, <3>3, WorkerFacts
    <3>5. \A i \in DOMAIN rxBatch' : rxBatch'[i] \in AtQuorum'
      BY <1>4, <3>2, <3>3
    <3> QED BY <1>4, <2>1, <3>3, <3>4, <3>5 DEF ProcessorInv
  <2> QED BY <2>2, <2>3
<1>7. CASE StoreBatch
  <2> DEFINE h == Head(rxBatch)
  <2>1. /\ rxBatch # <<>> /\ Len(rxDigest) < TaskCap
        /\ store' = store \cup {h} /\ rxDigest' = Append(rxDigest, h)
        /\ rxBatch' = Tail(rxBatch) /\ UNCHANGED <<digests, stored>>
    BY <1>7 DEF StoreBatch
  <2>2. /\ h \in Batch /\ Tail(rxBatch) \in Seq(Batch)
        /\ 1 \in DOMAIN rxBatch /\ h = rxBatch[1]
        /\ Len(rxBatch) \in Nat /\ Len(Tail(rxBatch)) = Len(rxBatch) - 1
        /\ \A i \in DOMAIN Tail(rxBatch) : i + 1 \in DOMAIN rxBatch /\ Tail(rxBatch)[i] = rxBatch[i + 1]
    BY <1>4, <2>1, QueueFacts
  <2>3. h \in AtQuorum'
    BY <1>4, <2>2
  <2> HIDE DEF h
  <2>4. /\ rxDigest' \in Seq(Batch) /\ Len(rxDigest') = Len(rxDigest) + 1 /\ Len(rxDigest) \in Nat
        /\ \A i \in DOMAIN rxDigest' :
              (i \in DOMAIN rxDigest /\ rxDigest'[i] = rxDigest[i]) \/ rxDigest'[i] = h
    BY <1>4, <2>1, <2>2, QueueFacts
  <2>5. Len(rxDigest') <= TaskCap /\ Len(rxBatch') <= TaskCap
    BY <1>4, <2>1, <2>2, <2>4, WorkerFacts
  <2>6. \A i \in DOMAIN rxBatch' : rxBatch'[i] \in AtQuorum'
    BY <1>4, <2>1, <2>2
  <2>7. store' \subseteq AtQuorum'
    BY <1>4, <2>1, <2>3
  <2>8. \A i \in DOMAIN rxDigest' : rxDigest'[i] \in store'
    BY <1>4, <2>1, <2>4
  <2>9. /\ rxBatch' \in Seq(Batch) /\ digests' \subseteq store'
        /\ stored' \in [Peer \ Silent -> SUBSET Batch]
    BY <1>4, <2>1, <2>2
  <2> QED BY <2>4, <2>5, <2>6, <2>7, <2>8, <2>9 DEF ProcessorInv
<1>8. CASE AnnounceDigest
  <2>1. /\ rxDigest # <<>> /\ digests' = digests \cup {Head(rxDigest)}
        /\ rxDigest' = Tail(rxDigest) /\ UNCHANGED <<rxBatch, store, stored>>
    BY <1>8 DEF AnnounceDigest
  <2>2. /\ Tail(rxDigest) \in Seq(Batch)
        /\ 1 \in DOMAIN rxDigest /\ Head(rxDigest) = rxDigest[1]
        /\ Len(rxDigest) \in Nat /\ Len(Tail(rxDigest)) = Len(rxDigest) - 1
        /\ \A i \in DOMAIN Tail(rxDigest) :
              i + 1 \in DOMAIN rxDigest /\ Tail(rxDigest)[i] = rxDigest[i + 1]
    BY <1>4, <2>1, QueueFacts
  <2>3. Len(rxDigest') <= TaskCap
    BY <1>4, <2>1, <2>2, WorkerFacts
  <2>4. \A i \in DOMAIN rxDigest' : rxDigest'[i] \in store
    BY <1>4, <2>1, <2>2
  <2>5. digests' \subseteq store
    BY <1>4, <2>1, <2>2
  <2> QED BY <1>4, <2>1, <2>2, <2>3, <2>4, <2>5 DEF ProcessorInv
<1>9. ASSUME NEW p \in Peer \ Silent, NEW b \in Batch, StoreOthersBatch(p, b)
      PROVE  ProcessorInv'
  <2>1. /\ stored' = [stored EXCEPT ![p] = @ \cup {b}]
        /\ UNCHANGED <<rxBatch, store, rxDigest, digests>>
    BY <1>9 DEF StoreOthersBatch, processorVars
  <2>2. stored' \in [Peer \ Silent -> SUBSET Batch]
    BY <1>4, <2>1
  <2> QED BY <1>4, <2>1, <2>2 DEF ProcessorInv
<1>10. CASE \/ TakeTransaction
            \/ SealOnTimer
            \/ Broadcast
            \/ DeliverBatch
            \/ StartWaiting
            \/ NetworkStep /\ UNCHANGED workerVars
            \/ UNCHANGED vars
  BY <1>5, <1>10 DEF TakeTransaction, SealOnTimer, Broadcast, DeliverBatch, StartWaiting,
                     workerVars, processorVars, vars
<1> QED BY <1>6, <1>7, <1>8, <1>9, <1>10 DEF Next, OwnStep

-----------------------------------------------------------------------------
(***************************************************************************)
(* The theorems about the worker.                                          *)
(***************************************************************************)

\* The tasks of a worker keep the invariant, with the sender's.
THEOREM WorkerInvariant == Spec => []WorkerIInv
<1>1. ASSUME WorkerIInv, [Next]_vars PROVE WorkerIInv'
  <2>1. SenderIInv'
    BY <1>1, WorkerCalls, SenderNextIInv DEF WorkerIInv
  <2> QED BY <1>1, <2>1, MakerStep, WaiterStep, ProcessorStep DEF WorkerIInv
<1> QED BY <1>1, WorkerInitIInv, PTL DEF Spec

\* The worker implements the sender with a free caller: BatchMaker and
\* QuorumWaiter send and cancel as they may.
THEOREM WorkerUsesSender == Spec => SenderSpec
<1>1. Init => SenderInit
  BY DEF Init
<1>2. WorkerIInv /\ [Next]_vars => [SenderNext]_senderVars
  BY WorkerCalls DEF WorkerIInv
<1> QED BY <1>1, <1>2, WorkerInvariant, PTL DEF Spec, SenderSpec

\* So the broadcast of batches is that of the abstract channel.
THEOREM WorkerImplementsChannel ==
    Spec => Channel!Init /\ [][Channel!Next]_(Channel!vars)
  BY WorkerUsesSender, SenderImplementsChannel, PTL

\* Type correctness, the bounds of all channels included.
THEOREM TypeCorrect == Spec => []TypeOK
<1>1. WorkerIInv => TypeOK
  <2> SUFFICES ASSUME WorkerIInv PROVE TypeOK
    OBVIOUS
  <2>1. waiting.batch \in 0 .. Len(batches) /\ waiting.counted \subseteq Peer
    <3>1. waiting.batch \in 0 .. MaxTxs /\ waiting.batch <= Len(batches) /\ Len(batches) \in Nat
      BY DEF WorkerIInv, WaiterInv, MakerInv
    <3> QED BY <3>1, WorkerFacts DEF WorkerIInv, WaiterInv
  <2>2. SenderTypeOK
    BY DEF WorkerIInv, SenderIInv
  <2>3. store \subseteq Batch /\ digests \subseteq store
    BY DEF WorkerIInv, ProcessorInv, AtQuorum
  <2> QED BY <2>1, <2>2, <2>3 DEF WorkerIInv, MakerInv, WaiterInv, ProcessorInv, TypeOK
<1> QED BY <1>1, WorkerInvariant, PTL

\* No cancel handler of the QuorumWaiter resolves for a batch that the peer
\* did not get, however connections break.
THEOREM AcksAreTrue == Spec => []AckedWasReceived
<1>1. WorkerIInv => AckedWasReceived
  BY AckedImplied DEF WorkerIInv
<1> QED BY <1>1, WorkerInvariant, PTL

\* The Connection tasks lose, repeat and reorder nothing that is waited for.
THEOREM HoldsInOrder == Spec => []HeldOnceInOrder
<1>1. WorkerIInv => HeldOnceInOrder
  BY HeldImplied DEF WorkerIInv
<1> QED BY <1>1, WorkerInvariant, PTL

\* QuorumWaiter does what it is for: a digest reaches our primary only when
\* authorities with a quorum of the stake have the batch.
THEOREM AnnouncedAtQuorum == Spec => []QuorumHasIt
<1>1. WorkerIInv => QuorumHasIt
  BY DEF WorkerIInv, ProcessorInv, QuorumHasIt, AtQuorum
<1> QED BY <1>1, WorkerInvariant, PTL
=============================================================================
