----------------------------- MODULE TuskProofs -----------------------------
(***************************************************************************)
(* The consensus task for every committee, every DAG and every garbage     *)
(* collection depth, provided the primary sends each certificate once,     *)
(* after its history: no certificate is committed twice, the `expect's of  *)
(* the code never fire, the leaders are a ledger (which is why two tasks   *)
(* agree, module TwoReplicasProofs) and a slice has what its task has not  *)
(* removed of the history of its leader.                                   *)
(***************************************************************************)
EXTENDS Tusk, DagProofs

-----------------------------------------------------------------------------
(***************************************************************************)
(* The inductive invariant.                                                *)
(***************************************************************************)

\* What is delivered above the last committed round is still in the dag,
\* and nothing is delivered without a certificate in each round below it.
HistoryKept ==
    /\ Genesis \subseteq delivered
    /\ delivered \subseteq DOMAIN parents
    /\ dag \subseteq delivered
    /\ \A v \in delivered : round(v) > lastCommittedRound => v \in dag
    /\ \A v \in delivered : \A q \in 0 .. round(v) :
           \E w \in delivered : round(w) = q

\* last_committed_round is the greatest entry of last_committed.
LastRoundExact ==
    /\ \A a \in Authority : lastCommitted[a] <= lastCommittedRound
    /\ \E a \in Authority : lastCommitted[a] = lastCommittedRound

\* The pending leaders are of different rounds, all above the last committed
\* one, and still in the dag.
PendingKept ==
    \A l \in toCommit : /\ l \in dag
                        /\ l = leader(round(l))
                        /\ round(l) > lastCommittedRound

\* A committed certificate that is in the dag is the last committed one of
\* its author, which is the one that order_dag skips.
CommittedMarked ==
    \A i \in 1 .. Len(output) : \A v \in output[i].certificates :
        /\ v \in delivered
        /\ round(v) <= lastCommitted[origin(v)]
        /\ v \in dag => round(v) = lastCommitted[origin(v)]

IInv ==
    /\ TypeOK
    /\ HistoryKept
    /\ LastRoundExact
    /\ PendingKept
    /\ CommittedMarked
    /\ NoDoubleCommit
    /\ NoPanic

-----------------------------------------------------------------------------

\* A slice consists of its leader and of certificates of the dag of earlier
\* rounds that are not the last committed ones of their author (order_dag).
LEMMA SliceFacts ==
    ASSUME NEW l, NEW v \in order_dag(l)
    PROVE  \/ v = l
           \/ /\ v \in dag
              /\ round(v) < round(l)
              /\ lastCommitted[origin(v)] # round(v)
  BY DEF order_dag, Ancestry

\* The leaders to commit with l are l and leaders in the dag of earlier
\* rounds that are not committed (order_leaders).
LEMMA PendingFacts ==
    ASSUME NEW d, NEW l, NEW p \in order_leaders(d, l)
    PROVE  \/ p = l
           \/ p \in d /\ \E r \in EarlierRounds(round(l)) : p = leader(r)
  BY DEF order_leaders

\* The initial state satisfies the invariant.
LEMMA InitIInv == Init => IInv
<1> SUFFICES ASSUME Init PROVE IInv
  OBVIOUS
<1> USE DEF Init
<1>1. WellFormed(parents)
  BY DagsAssumption
<1>2. TypeOK
  <2>1. Genesis \subseteq Certificate
    BY DEF Genesis
  <2>2. 0 \in Round
    BY MaxRoundAssumption DEF Round
  <2>3. output \in Seq(Slice)
    OBVIOUS
  <2> QED BY <1>1, <2>1, <2>2, <2>3 DEF TypeOK
<1>3. HistoryKept
  <2>1. \A v \in Genesis : round(v) = 0
    BY DEF Genesis
  <2>2. Genesis \subseteq DOMAIN parents
    BY <1>1 DEF WellFormed
  <2> QED BY <2>1, <2>2 DEF HistoryKept
<1>4. LastRoundExact
  BY NAssumption DEF LastRoundExact, Authority
<1>5. PendingKept /\ CommittedMarked /\ NoDoubleCommit /\ NoPanic
  BY DEF PendingKept, CommittedMarked, NoDoubleCommit, NoPanic
<1> QED BY <1>2, <1>3, <1>4, <1>5 DEF IInv

\* Receiving a certificate keeps the invariant (one iteration of run).
LEMMA DeliverIInv ==
    ASSUME IInv, NEW v \in DOMAIN parents, Deliver(v)
    PROVE  IInv'
<1> DEFINE d == dag \cup {v}
           lr == LeaderRoundOf(v)
<1> USE DEF IInv
<1>1. /\ v \in Certificate
      /\ v \notin delivered
      /\ round(v) > 0
      /\ parents[v] # {}
      /\ parents[v] \subseteq delivered
      /\ \A u \in parents[v] : round(u) = round(v) - 1
  <2>1. v \in Certificate /\ v \notin Genesis
    BY DEF TypeOK, WellFormed, HistoryKept, Deliver
  <2>2. round(v) # 0
    BY <2>1 DEF Genesis
  <2>3. ValidParents(parents, v)
    BY <2>2 DEF TypeOK, WellFormed
  <2> QED BY <2>1, <2>2, <2>3, CertificateFacts
          DEF Deliver, ValidParents, AtRound
<1>2. /\ delivered' = delivered \cup {v}
      /\ dag' = d
      /\ panicked' = HistoryMissing(d, v)
      /\ toCommit' = IF Commits(d, v) /\ ~ HistoryMissing(d, v)
                     THEN order_leaders(d, leader(lr)) ELSE {}
      /\ UNCHANGED <<parents, lastCommitted, lastCommittedRound, output>>
  BY DEF Deliver, Process
<1>3. d \subseteq Certificate
  BY <1>1 DEF TypeOK
<1>4. HistoryKept'
  <2>1. \A q \in 0 .. round(v) : \E w \in delivered \cup {v} : round(w) = q
    <3> SUFFICES ASSUME NEW q \in 0 .. round(v)
                 PROVE  \E w \in delivered \cup {v} : round(w) = q
      OBVIOUS
    <3>1. CASE q = round(v)
      BY <3>1
    <3>2. CASE q # round(v)
      <4>1. PICK u \in parents[v] : TRUE
        BY <1>1
      <4>2. u \in delivered /\ q \in 0 .. round(u)
        BY <1>1, <4>1, <3>2, CertificateFacts
      <4> QED BY <4>2 DEF HistoryKept
    <3> QED BY <3>1, <3>2
  <2>2. \A w \in delivered \cup {v} : round(w) > lastCommittedRound => w \in d
    BY DEF HistoryKept
  <2> QED BY <1>2, <2>1, <2>2 DEF HistoryKept, Genesis
<1>5. ASSUME Elects(d, v)
      PROVE  /\ lr \in Round
             /\ lr > lastCommittedRound
             /\ lr = round(v) - 3
             /\ leader(lr) \in d
             /\ round(leader(lr)) = lr
  <2>1. lr \in Round
    <3>1. round(v) - 1 >= 4
      BY <1>5 DEF Elects
    <3> QED BY <1>1, <3>1, CertificateFacts, MaxRoundAssumption
            DEF LeaderRoundOf, Round
  <2> QED BY <1>5, <2>1, LeaderFacts DEF Elects, LeaderRoundOf
<1>6. ASSUME NEW p \in toCommit'
      PROVE  p \in d /\ p = leader(round(p)) /\ round(p) > lastCommittedRound
  <2>1. Commits(d, v) /\ p \in order_leaders(d, leader(lr))
    BY <1>2, <1>6
  <2>2. Elects(d, v)
    BY <2>1 DEF Commits
  <2>3. CASE p = leader(lr)
    BY <2>3, <2>2, <1>5
  <2>4. CASE p # leader(lr)
    <3>1. PICK r \in EarlierRounds(lr) : p = leader(r)
      BY <2>1, <2>4, <2>2, <1>5, PendingFacts
    <3>2. p \in d
      BY <2>1, <2>4, PendingFacts
    <3>3. r \in Round /\ r > lastCommittedRound
      BY <2>2, <1>5, MaxRoundAssumption DEF EarlierRounds, Round, TypeOK
    <3> QED BY <3>1, <3>2, <3>3, LeaderFacts
  <2> QED BY <2>3, <2>4
<1>7. TypeOK'
  <2>1. toCommit' \in SUBSET dag'
    BY <1>2, <1>6
  <2>2. panicked' \in BOOLEAN
    BY <1>2 DEF HistoryMissing
  <2> QED BY <1>1, <1>2, <1>3, <2>1, <2>2 DEF TypeOK
<1>8. LastRoundExact'
  BY <1>2 DEF LastRoundExact
<1>9. PendingKept'
  BY <1>2, <1>6 DEF PendingKept
<1>10. CommittedMarked'
  BY <1>1, <1>2 DEF CommittedMarked
<1>11. NoDoubleCommit'
  BY <1>2 DEF NoDoubleCommit
<1>12. NoPanic'
  <2>1. \A q \in (lastCommittedRound + 1) .. round(v) : AtRound(d, q) # {}
    BY <1>2, <1>4, <1>1, CertificateFacts DEF HistoryKept, AtRound, TypeOK, Round
  <2>2. ASSUME Elects(d, v) PROVE AtRound(d, lr + 1) # {}
    <3>1. lr + 1 \in (lastCommittedRound + 1) .. round(v)
      BY <2>2, <1>5, <1>1, CertificateFacts DEF Round, TypeOK
    <3> QED BY <2>1, <3>1
  <2>3. ASSUME Elects(d, v), NEW r \in EarlierRounds(lr), NEW q \in r .. (lr - 1)
        PROVE  AtRound(d, q) # {}
    <3>1. q \in (lastCommittedRound + 1) .. round(v)
      BY <2>3, <1>5, <1>1, CertificateFacts DEF EarlierRounds, Round, TypeOK
    <3> QED BY <2>1, <3>1
  <2>4. ~ HistoryMissing(d, v)
    BY <2>2, <2>3 DEF HistoryMissing
  <2> QED BY <1>2, <2>4 DEF NoPanic
<1> QED BY <1>4, <1>7, <1>8, <1>9, <1>10, <1>11, <1>12

\* What a slice holds and what State::update makes of the marks: the last
\* committed round becomes the round of the leader.
LEMMA MarksAfterCommit ==
    ASSUME IInv, NEW l \in toCommit
    PROVE  LET batch == order_dag(l)
               committed == AfterUpdate(batch)
               top == Max({committed[a] : a \in Authority})
           IN /\ l \in batch
              /\ \A v \in batch : /\ v \in dag
                                  /\ v \in Certificate
                                  /\ round(v) <= round(l)
                                  /\ round(v) # lastCommitted[origin(v)]
              /\ committed \in [Authority -> Round]
              /\ \A a \in Authority :
                    /\ committed[a] \in Round
                    /\ committed[a] >= lastCommitted[a]
                    /\ committed[a] <= top
                    /\ \A v \in batch : origin(v) = a => round(v) <= committed[a]
                    /\ \/ committed[a] = lastCommitted[a]
                       \/ \E v \in batch : origin(v) = a /\ round(v) = committed[a]
              /\ \E a \in Authority : committed[a] = top
              /\ top \in Round
              /\ top >= lastCommittedRound
              /\ top = round(l)
<1> USE DEF IInv
<1> DEFINE batch == order_dag(l)
           committed == AfterUpdate(batch)
           top == Max({committed[a] : a \in Authority})
<1>2. /\ lastCommittedRound \in Nat
      /\ \A a \in Authority : lastCommitted[a] \in 0 .. MaxRound
      /\ \A a \in Authority : lastCommitted[a] <= lastCommittedRound
      /\ \A v \in dag : v \in Certificate
  BY MaxRoundAssumption DEF TypeOK, Round, LastRoundExact
<1>3. l \in dag /\ l \in Certificate /\ round(l) > lastCommittedRound
  BY DEF PendingKept, TypeOK
<1>4. \A v \in batch : /\ v \in dag
                       /\ v \in Certificate
                       /\ round(v) <= round(l)
                       /\ round(v) # lastCommitted[origin(v)]
  <2> SUFFICES ASSUME NEW v \in batch
               PROVE  /\ v \in dag
                      /\ v \in Certificate
                      /\ round(v) <= round(l)
                      /\ round(v) # lastCommitted[origin(v)]
    OBVIOUS
  <2>1. CASE v = l
    BY <2>1, <1>2, <1>3, CertificateFacts
  <2>2. CASE v # l
    BY <2>2, <1>2, <1>3, SliceFacts, CertificateFacts
  <2> QED BY <2>1, <2>2
<1>5. ASSUME NEW a \in Authority
      PROVE  /\ committed[a] \in Round
             /\ committed[a] >= lastCommitted[a]
             /\ committed[a] <= round(l)
             /\ \A v \in batch : origin(v) = a => round(v) <= committed[a]
             /\ \/ committed[a] = lastCommitted[a]
                \/ \E v \in batch : origin(v) = a /\ round(v) = committed[a]
  <2> DEFINE S == {lastCommitted[a]} \cup {round(v) : v \in {w \in batch : origin(w) = a}}
  <2>1. S \subseteq 0 .. MaxRound /\ S # {}
    BY <1>2, <1>4, CertificateFacts
  <2>2. Max(S) \in S /\ \A y \in S : y <= Max(S)
    <3> HIDE DEF S
    <3> QED BY <2>1, MaxOfBounded, MaxRoundAssumption
  <2>3. committed[a] = Max(S)
    BY DEF AfterUpdate
  <2>4. lastCommitted[a] \in S /\ \A v \in batch : origin(v) = a => round(v) \in S
    OBVIOUS
  <2>6. \A y \in S : y = lastCommitted[a] \/ \E v \in batch : origin(v) = a /\ round(v) = y
    OBVIOUS
  <2>5. \A y \in S : y <= round(l)
    <3>1. lastCommitted[a] <= round(l)
      BY <1>2, <1>3, CertificateFacts
    <3> QED BY <3>1, <1>4
  <2> HIDE DEF S, committed, batch
  <2> QED BY <2>1, <2>2, <2>3, <2>4, <2>5, <2>6, <1>2 DEF Round
<1>6. /\ top \in Round
      /\ \A a \in Authority : committed[a] <= top
      /\ \E a \in Authority : committed[a] = top
      /\ top >= lastCommittedRound
      /\ top <= round(l)
  <2> DEFINE S == {committed[a] : a \in Authority}
  <2>1. S \subseteq 0 .. MaxRound
    BY <1>5 DEF Round
  <2>2. PICK b \in Authority : lastCommitted[b] = lastCommittedRound
    BY DEF LastRoundExact
  <2>3. committed[b] \in S
    OBVIOUS
  <2>4. Max(S) \in S /\ \A y \in S : y <= Max(S)
    <3> HIDE DEF S
    <3> QED BY <2>1, <2>3, MaxOfBounded, MaxRoundAssumption
  <2>5. PICK c \in Authority : Max(S) = committed[c]
    BY <2>4
  <2>6. top = Max(S)
    OBVIOUS
  <2>7. \A a \in Authority : committed[a] <= Max(S)
    BY <2>4
  <2> HIDE DEF S, committed, top
  <2> QED BY <2>2, <2>5, <2>6, <2>7, <1>5, <1>2, CertificateFacts, MaxRoundAssumption
          DEF Round
<1>7. l \in batch
  BY <1>2, <1>3, CertificateFacts, GcDepthAssumption DEF order_dag, Ancestry
<1>8. committed \in [Authority -> Round]
  <2>1. committed = [a \in Authority |-> committed[a]]
    BY DEF AfterUpdate
  <2> HIDE DEF committed
  <2> QED BY <2>1, <1>5
<1>9. top = round(l)
  <2>1. origin(l) \in Authority /\ round(l) \in Nat
    BY <1>3, CertificateFacts
  <2>2. round(l) <= committed[origin(l)] /\ committed[origin(l)] <= top
    BY <2>1, <1>5, <1>6, <1>7
  <2>3. committed[origin(l)] \in Nat /\ top \in Nat /\ top <= round(l)
    BY <2>1, <1>5, <1>6, MaxRoundAssumption DEF Round
  <2> HIDE DEF committed, top
  <2> QED BY <2>1, <2>2, <2>3
<1>10. \A a \in Authority :
           /\ committed[a] \in Round
           /\ committed[a] >= lastCommitted[a]
           /\ committed[a] <= top
           /\ \A v \in batch : origin(v) = a => round(v) <= committed[a]
           /\ \/ committed[a] = lastCommitted[a]
              \/ \E v \in batch : origin(v) = a /\ round(v) = committed[a]
  BY <1>5, <1>6
<1> HIDE DEF batch, committed, top
<1> QED BY <1>4, <1>6, <1>7, <1>8, <1>9, <1>10 DEF batch, committed, top

\* Committing a slice keeps the invariant (order_dag and State::update).
LEMMA CommitIInv ==
    ASSUME IInv, CommitLeader
    PROVE  IInv'
<1> USE DEF IInv
<1>1. PICK l \in toCommit :
        LET batch == order_dag(l)
            committed == AfterUpdate(batch)
            top == Max({committed[a] : a \in Authority})
        IN /\ \A o \in toCommit : round(l) <= round(o)
           /\ lastCommitted' = committed
           /\ lastCommittedRound' = top
           /\ dag' = Cleaned(dag, committed, top)
           /\ output' = IF batch = {} THEN output
                        ELSE Append(output, [leader |-> l, certificates |-> batch])
           /\ toCommit' = toCommit \ {l}
           /\ UNCHANGED <<parents, delivered, panicked>>
  BY DEF CommitLeader
<1> DEFINE batch == order_dag(l)
           committed == AfterUpdate(batch)
           top == Max({committed[a] : a \in Authority})
<1>2. /\ lastCommittedRound \in Nat
      /\ \A a \in Authority : lastCommitted[a] \in 0 .. MaxRound
      /\ \A a \in Authority : lastCommitted[a] <= lastCommittedRound
      /\ \A v \in dag : v \in Certificate
  BY MaxRoundAssumption DEF TypeOK, Round, LastRoundExact
<1>3. l \in dag /\ l \in Certificate /\ round(l) > lastCommittedRound
  BY DEF PendingKept, TypeOK
<1>4. \A v \in batch : /\ v \in dag
                       /\ v \in Certificate
                       /\ round(v) <= round(l)
                       /\ round(v) # lastCommitted[origin(v)]
  BY MarksAfterCommit
<1>5. \A a \in Authority :
          /\ committed[a] \in Round
          /\ committed[a] >= lastCommitted[a]
          /\ \A v \in batch : origin(v) = a => round(v) <= committed[a]
  BY MarksAfterCommit
<1>6. /\ top \in Round
      /\ \A a \in Authority : committed[a] <= top
      /\ \E a \in Authority : committed[a] = top
      /\ top >= lastCommittedRound
      /\ top = round(l)
  BY MarksAfterCommit
<1>7. /\ lastCommitted' = committed
      /\ lastCommittedRound' = top
      /\ dag' = Cleaned(dag, committed, top)
      /\ output' = IF batch = {} THEN output
                   ELSE Append(output, [leader |-> l, certificates |-> batch])
      /\ toCommit' = toCommit \ {l}
      /\ parents' = parents /\ delivered' = delivered /\ panicked' = panicked
      /\ \A o \in toCommit : round(l) <= round(o)
  BY <1>1
<1>8. committed \in [Authority -> Round]
  BY MarksAfterCommit
<1>9. batch \subseteq Certificate /\ batch \subseteq delivered
  BY <1>4 DEF HistoryKept
<1> HIDE DEF batch, committed, top
<1>10. \A v \in dag : round(v) > top => v \in dag'
  BY <1>2, <1>5, <1>6, <1>7, CertificateFacts, GcDepthAssumption DEF Cleaned, Round
<1>11. HistoryKept'
  <2>1. \A v \in delivered : round(v) > top => v \in dag'
    BY <1>2, <1>6, <1>10, CertificateFacts DEF HistoryKept, TypeOK, Round
  <2>2. dag' \subseteq delivered
    BY <1>7 DEF HistoryKept, Cleaned
  <2> QED BY <1>7, <2>1, <2>2 DEF HistoryKept, Genesis
<1>12. LastRoundExact'
  BY <1>6, <1>7 DEF LastRoundExact
<1>13. PendingKept'
  <2> SUFFICES ASSUME NEW o \in toCommit \ {l}
               PROVE  o \in dag' /\ o = leader(round(o)) /\ round(o) > top
    BY <1>7 DEF PendingKept
  <2>1. o \in dag /\ o = leader(round(o)) /\ l = leader(round(l))
    BY DEF PendingKept
  <2>2. round(o) > round(l)
    BY <2>1, <1>2, <1>3, <1>7, CertificateFacts
  <2>3. round(o) > top
    BY <2>1, <2>2, <1>2, <1>3, <1>6, CertificateFacts DEF Round
  <2> QED BY <2>1, <2>3, <1>10
<1>14. TypeOK'
  <2>1. output' \in Seq(Slice)
    <3>1. [leader |-> l, certificates |-> batch] \in Slice
      BY <1>3, <1>9 DEF Slice
    <3>2. output \in Seq(Slice)
      BY DEF TypeOK
    <3> QED BY <3>1, <3>2, <1>7
  <2>2. toCommit' \in SUBSET dag'
    BY <1>13 DEF PendingKept
  <2>3. dag' \in SUBSET Certificate
    BY <1>2, <1>7 DEF Cleaned
  <2> QED BY <1>6, <1>7, <1>8, <2>1, <2>2, <2>3 DEF TypeOK
<1>15. \A i \in 1 .. Len(output) : output[i].certificates \cap batch = {}
  BY <1>4 DEF CommittedMarked
<1>16. ASSUME NEW i \in 1 .. Len(output')
       PROVE  \/ i \in 1 .. Len(output) /\ output'[i] = output[i]
              \/ /\ i = Len(output) + 1
                 /\ Len(output') = Len(output) + 1
                 /\ output'[i].certificates = batch
  BY <1>7 DEF TypeOK
<1>17. CommittedMarked'
  <2> SUFFICES ASSUME NEW i \in 1 .. Len(output'), NEW v \in output'[i].certificates
               PROVE  /\ v \in delivered
                      /\ round(v) <= committed[origin(v)]
                      /\ v \in dag' => round(v) = committed[origin(v)]
    BY <1>7 DEF CommittedMarked
  <2>1. v \in delivered /\ v \in Certificate /\ round(v) <= committed[origin(v)]
    <3>1. CASE i \in 1 .. Len(output) /\ output'[i] = output[i]
      <4>1. v \in delivered /\ round(v) <= lastCommitted[origin(v)]
        BY <3>1 DEF CommittedMarked
      <4>2. v \in Certificate
        BY <4>1 DEF TypeOK
      <4> QED BY <4>1, <4>2, <1>2, <1>5, CertificateFacts DEF Round
    <3>2. CASE output'[i].certificates = batch
      BY <3>2, <1>5, <1>9, CertificateFacts
    <3> QED BY <1>16, <3>1, <3>2
  <2>2. v \in dag' => round(v) >= committed[origin(v)]
    BY <1>7 DEF Cleaned
  <2> QED BY <2>1, <2>2, <1>5, CertificateFacts DEF Round
<1>18. NoDoubleCommit'
  <2> SUFFICES ASSUME NEW i \in 1 .. Len(output'), NEW j \in 1 .. Len(output'), i # j
               PROVE  output'[i].certificates \cap output'[j].certificates = {}
    BY DEF NoDoubleCommit
  <2> QED BY <1>15, <1>16 DEF NoDoubleCommit
<1>19. NoPanic'
  BY <1>7 DEF NoPanic
<1> QED BY <1>11, <1>12, <1>13, <1>14, <1>17, <1>18, <1>19

\* The consensus task, given each certificate once and after its history,
\* keeps the invariant for every committee, DAG and depth.
THEOREM SafetyInvariant == Spec => []IInv
<1>1. IInv /\ [Next]_vars => IInv'
  <2> SUFFICES ASSUME IInv, [Next]_vars PROVE IInv'
    OBVIOUS
  <2>1. CASE CommitLeader
    BY <2>1, CommitIInv
  <2>2. CASE \E v \in DOMAIN parents : Deliver(v)
    BY <2>2, DeliverIInv
  <2>3. CASE UNCHANGED vars
    BY <2>3 DEF IInv, vars, TypeOK, HistoryKept, LastRoundExact, PendingKept,
                CommittedMarked, NoDoubleCommit, NoPanic
  <2> QED BY <2>1, <2>2, <2>3 DEF Next
<1> QED BY InitIInv, <1>1, PTL DEF Spec

\* Type correctness of the consensus task.
THEOREM TypeCorrect == Spec => []TypeOK
  BY SafetyInvariant, PTL DEF IInv

\* State::last_committed does what it is kept for: no certificate is
\* committed twice (if the primary sends none twice).
THEOREM NeverCommitsTwice == Spec => []NoDoubleCommit
<1>1. IInv => NoDoubleCommit
  BY DEF IInv
<1> QED BY SafetyInvariant, <1>1, PTL

\* "We should have the whole history by now": the clean-up never removes a
\* round that the commit rule or the search for linked leaders reads.
THEOREM NeverPanics == Spec => []NoPanic
<1>1. IInv => NoPanic
  BY DEF IInv
<1> QED BY SafetyInvariant, <1>1, PTL

-----------------------------------------------------------------------------
(***************************************************************************)
(* The earlier leaders that order_leaders keeps.                           *)
(***************************************************************************)

\* What the walk of order_leaders keeps from round r up.
LatestKept(l, later) == IF later = {} THEN l ELSE leader(Min(later))

KeptStep(d, l, f, r) ==
    IF r \notin EarlierRounds(round(l)) THEN {}
    ELSE IF leader(r) \in d /\ linked(d, LatestKept(l, f[r + 2]), leader(r))
         THEN {r} \cup f[r + 2]
         ELSE f[r + 2]

IsKept(d, l, f) == f = [r \in Nat |-> KeptStep(d, l, f, r)]

Kept(d, l) == CHOOSE f : IsKept(d, l, f)

LEMMA LinkedRoundsKept ==
    ASSUME NEW d, NEW l
    PROVE  LinkedRounds(d, l) = UNION {Kept(d, l)[r] : r \in EarlierRounds(round(l))}
  BY DEF LinkedRounds, Kept, IsKept, KeptStep, LatestKept

\* The recursion of that walk has a solution.
LEMMA KeptExists ==
    ASSUME NEW d, NEW l, NEW hi \in Nat, \A r \in EarlierRounds(round(l)) : r <= hi
    PROVE  \A r \in Nat : Kept(d, l)[r] = KeptStep(d, l, Kept(d, l), r)
<1> DEFINE Fun(f) == f = [r \in Nat |-> f[r]]
           From(f, m) == \A r \in Nat : r + m > hi => f[r] = KeptStep(d, l, f, r)
           Good == {m \in Nat : \E f : Fun(f) /\ From(f, m)}
<1>1. 0 \in Good
  <2> DEFINE f == [r \in Nat |-> {}]
  <2>1. From(f, 0)
    BY DEF KeptStep
  <2>2. Fun(f)
    OBVIOUS
  <2> HIDE DEF From, Fun, f
  <2> QED BY <2>1, <2>2
<1>2. ASSUME NEW m \in Good PROVE m + 1 \in Good
  <2>1. PICK f : Fun(f) /\ From(f, m)
    BY <1>2
  <2> DEFINE g == [r \in Nat |-> KeptStep(d, l, f, r)]
  <2>2. \A r \in Nat : g[r] = KeptStep(d, l, f, r)
    OBVIOUS
  <2>3. Fun(g)
    OBVIOUS
  <2> HIDE DEF g
  <2>4. ASSUME NEW r \in Nat, r + (m + 1) > hi PROVE g[r] = KeptStep(d, l, g, r)
    <3>1. r + 2 \in Nat /\ (r + 2) + m > hi
      BY <2>4
    <3>2. g[r + 2] = f[r + 2]
      BY <3>1, <2>1, <2>2
    <3> QED BY <3>2, <2>2 DEF KeptStep
  <2>5. m + 1 \in Nat /\ From(g, m + 1)
    BY <2>4
  <2> HIDE DEF From, Fun
  <2> QED BY <2>3, <2>5
<1>3. \A m \in Nat : m \in Good
  <2> Good \in SUBSET Nat
    OBVIOUS
  <2> HIDE DEF Good
  <2> QED BY <1>1, <1>2, NatSetInduction
<1>4. PICK f : Fun(f) /\ From(f, hi + 1)
  <2>1. hi + 1 \in Good
    BY <1>3
  <2> QED BY <2>1
<1>5. \A r \in Nat : f[r] = KeptStep(d, l, f, r)
  BY <1>4
<1>6. IsKept(d, l, f)
  <2>1. Fun(f)
    BY <1>4
  <2> QED BY <2>1, <1>5 DEF IsKept
<1>7. IsKept(d, l, Kept(d, l))
  BY <1>6 DEF Kept
<1>8. ASSUME NEW g, g = [r \in Nat |-> KeptStep(d, l, g, r)]
      PROVE  \A r \in Nat : g[r] = KeptStep(d, l, g, r)
  <2> HIDE DEF KeptStep
  <2> QED BY <1>8, Zenon
<1> QED BY <1>7, <1>8 DEF IsKept

\* order_leaders keeps a leader of an earlier round if the task has it and
\* the next one kept after it is linked to it.
LEMMA LinkedRoundsChain ==
    ASSUME NEW d, NEW l, l = leader(round(l)), round(l) \in Nat, lastCommittedRound \in Nat
    PROVE  LET K == LinkedRounds(d, l)
           IN /\ K \subseteq EarlierRounds(round(l))
              /\ \A r \in EarlierRounds(round(l)) :
                    r \in K <=> /\ leader(r) \in d
                                /\ \E s : /\ NextIn(K \cup {round(l)}, s, r)
                                          /\ linked(d, leader(s), leader(r))
<1> DEFINE lr == round(l)
           E == EarlierRounds(lr)
           f == Kept(d, l)
           Q == {r \in E : r \in f[r]}
           Hit(r) == leader(r) \in d /\ linked(d, LatestKept(l, f[r + 2]), leader(r))
           Good == {m \in Nat : \A r \in E : r + m >= lr => f[r] = {q \in Q : q >= r}}
<1>1. E \subseteq Nat /\ \A r \in E : r <= lr - 2 /\ r < lr
  BY DEF EarlierRounds
<1>2. ASSUME NEW r \in E
      PROVE  /\ \A q \in E : q > r => q >= r + 2
             /\ r + 2 \notin E => \A q \in E : ~ q > r
  BY DEF EarlierRounds
<1>3. \A r \in Nat : f[r] = KeptStep(d, l, f, r)
  BY <1>1, KeptExists
<1>20. ASSUME NEW r \in E PROVE \A q \in Q : q > r <=> q >= r + 2
  BY <1>1, <1>2
<1>4. \A r \in Nat : r \notin E => f[r] = {}
  BY <1>3 DEF KeptStep
<1>5. \A r \in E : f[r] = IF Hit(r) THEN {r} \cup f[r + 2] ELSE f[r + 2]
  BY <1>1, <1>3 DEF KeptStep
<1> HIDE DEF f, E, Hit
<1>6. 0 \in Good
  BY <1>1
<1>7. ASSUME NEW m \in Good PROVE m + 1 \in Good
  <2> SUFFICES ASSUME NEW r \in E, r + (m + 1) >= lr PROVE f[r] = {q \in Q : q >= r}
    OBVIOUS
  <2>1. f[r + 2] = {q \in Q : q > r}
    <3>1. CASE r + 2 \in E
      <4>1. f[r + 2] = {q \in Q : q >= r + 2}
        BY <3>1, <1>1, <1>7
      <4>2. \A q \in Q : q > r <=> q >= r + 2
        BY <1>20
      <4> HIDE DEF Q
      <4> QED BY <4>1, <4>2
    <3>2. CASE r + 2 \notin E
      <4>1. f[r + 2] = {}
        BY <3>2, <1>1, <1>4
      <4> QED BY <4>1, <3>2, <1>2
    <3> QED BY <3>1, <3>2
  <2>2. r \notin f[r + 2]
    BY <2>1, <1>1
  <2>3. r \in Q <=> Hit(r)
    BY <2>2, <1>5
  <2>4. \A q \in Q : q >= r <=> q > r \/ q = r
    BY <1>1
  <2>5. f[r] = IF r \in Q THEN {r} \cup f[r + 2] ELSE f[r + 2]
    BY <2>3, <1>5
  <2> HIDE DEF Q
  <2> QED BY <2>1, <2>4, <2>5, <1>1
<1>8. \A m \in Nat : m \in Good
  <2> Good \in SUBSET Nat
    OBVIOUS
  <2> HIDE DEF Good
  <2> QED BY <1>6, <1>7, NatSetInduction
<1>9. \A r \in E : f[r] = {q \in Q : q >= r}
  <2>1. lr \in Good
    BY <1>8
  <2> QED BY <2>1, <1>1
<1>10. LinkedRounds(d, l) = Q
  <2>1. LinkedRounds(d, l) = UNION {f[r] : r \in E}
    BY LinkedRoundsKept DEF f, E
  <2>2. \A q \in Q : q \in f[q] /\ q \in E
    OBVIOUS
  <2>3. \A r \in E : \A q \in f[r] : q \in Q
    BY <1>9
  <2> HIDE DEF Q
  <2> QED BY <2>1, <2>2, <2>3
<1>11. ASSUME NEW r \in E
       PROVE  r \in Q <=> /\ leader(r) \in d
                          /\ \E s : NextIn(Q \cup {lr}, s, r) /\ linked(d, leader(s), leader(r))
  <2> DEFINE later == f[r + 2]
  <2>1. later = {q \in Q : q > r}
    <3>1. CASE r + 2 \in E
      <4>1. f[r + 2] = {q \in Q : q >= r + 2}
        BY <3>1, <1>9
      <4>2. \A q \in Q : q > r <=> q >= r + 2
        BY <1>20
      <4> HIDE DEF Q
      <4> QED BY <4>1, <4>2
    <3>2. CASE r + 2 \notin E
      <4>1. f[r + 2] = {}
        BY <3>2, <1>1, <1>4
      <4> QED BY <4>1, <3>2, <1>2
    <3> QED BY <3>1, <3>2
  <2>2. r \in Q <=> Hit(r)
    <3>1. r \notin f[r + 2]
      BY <2>1, <1>1
    <3> QED BY <3>1, <1>5
  <2> HIDE DEF later, Q
  <2>3. Q \subseteq Nat /\ \A q \in Q : q < lr
    BY <1>1 DEF Q
  <2>4. PICK s : NextIn(Q \cup {lr}, s, r) /\ LatestKept(l, later) = leader(s)
    <3>1. CASE later = {}
      <4>1. NextIn(Q \cup {lr}, lr, r)
        BY <3>1, <2>1, <1>1, <2>3 DEF NextIn
      <4> QED BY <4>1, <3>1 DEF LatestKept
    <3>2. CASE later # {}
      <4>1. Min(later) \in later /\ \A y \in later : Min(later) <= y
        BY <3>2, <2>1, <2>3, MinOfNaturals
      <4>2. NextIn(Q \cup {lr}, Min(later), r)
        <5>1. PICK m : m = Min(later)
          OBVIOUS
        <5>2. m \in Q /\ m > r /\ m \in Nat /\ m < lr
          BY <4>1, <5>1, <2>1, <2>3
        <5>3. \A x \in Q : x > r => m <= x
          BY <4>1, <5>1, <2>1
        <5>4. NextIn(Q \cup {lr}, m, r)
          BY <5>2, <5>3 DEF NextIn
        <5> QED BY <5>1, <5>4
      <4> QED BY <4>2, <3>2 DEF LatestKept
    <3> QED BY <3>1, <3>2
  <2>5. ASSUME NEW t, NextIn(Q \cup {lr}, t, r) PROVE t = s
    BY <2>4, <2>5, <2>3 DEF NextIn
  <2>6. Hit(r) <=> leader(r) \in d /\ linked(d, leader(s), leader(r))
    BY <2>4 DEF Hit, later
  <2> QED BY <2>2, <2>4, <2>5, <2>6
<1> QED BY <1>10, <1>11 DEF E

-----------------------------------------------------------------------------
(***************************************************************************)
(* Ledgers: what is committed follows a chain of the DAG that ends in a    *)
(* leader with f+1 support, and two such sequences never disagree.         *)
(***************************************************************************)

\* A sequence of slices whose leaders are the first ones of a chain, in the
\* order of their rounds, that ends in a leader with f+1 support.
IsLedger(p, S, out) ==
    /\ Chain(p, S)
    /\ \A t \in S : Latest(S, t) => Supported(p, leader(t))
    /\ \A i \in 1 .. Len(out) : /\ round(out[i].leader) \in S
                                /\ out[i].leader = leader(round(out[i].leader))
    /\ \A i, j \in 1 .. Len(out) : i < j => round(out[i].leader) < round(out[j].leader)
    /\ \A i \in 1 .. Len(out) : \A r \in S :
          r < round(out[i].leader) => \E j \in 1 .. Len(out) : round(out[j].leader) = r

\* The first entries of two ledgers of which one chain begins the other.
LEMMA PrefixesAgree ==
    ASSUME NEW p, NEW S, NEW T, NEW a, NEW b, Len(a) \in Nat, Len(b) \in Nat,
           IsLedger(p, S, a), IsLedger(p, T, b), NEW s \in Nat, S = {r \in T : r <= s}
    PROVE  \A i \in 1 .. Len(a) : i <= Len(b) => a[i].leader = b[i].leader
<1> DEFINE x(i) == round(a[i].leader)
           y(i) == round(b[i].leader)
           Good == {n \in Nat : \A i \in 1 .. Len(a) : i <= Len(b) /\ i <= n => x(i) = y(i)}
<1>1. /\ \A i \in 1 .. Len(a) : x(i) \in S /\ x(i) \in T /\ x(i) \in Nat /\ x(i) <= s
      /\ \A i \in 1 .. Len(b) : y(i) \in T /\ y(i) \in Nat
      /\ \A i \in 1 .. Len(b) : y(i) <= s => y(i) \in S
  BY LeaderRoundFacts DEF IsLedger, Chain
<1>2. /\ \A i, j \in 1 .. Len(a) : i < j => x(i) < x(j)
      /\ \A i, j \in 1 .. Len(b) : i < j => y(i) < y(j)
  BY DEF IsLedger
<1>3. /\ \A i \in 1 .. Len(a) : \A r \in S : r < x(i) => \E j \in 1 .. Len(a) : x(j) = r
      /\ \A i \in 1 .. Len(b) : \A r \in T : r < y(i) => \E j \in 1 .. Len(b) : y(j) = r
  BY DEF IsLedger
<1>4. \A i \in 1 .. Len(a) : i <= Len(b) /\ x(i) = y(i) => a[i].leader = b[i].leader
  BY DEF IsLedger
<1> HIDE DEF x, y
<1>5. 0 \in Good
  OBVIOUS
<1>6. ASSUME NEW n \in Good PROVE n + 1 \in Good
  <2> SUFFICES ASSUME NEW i \in 1 .. Len(a), i <= Len(b), i <= n + 1 PROVE x(i) = y(i)
    OBVIOUS
  <2>1. i \in 1 .. Len(b) /\ \A k \in 1 .. (i - 1) : k \in 1 .. Len(a) /\ k \in 1 .. Len(b) /\ x(k) = y(k)
    BY <1>6
  <2>2. ASSUME x(i) < y(i) PROVE FALSE
    <3>1. PICK k \in 1 .. Len(b) : y(k) = x(i)
      BY <1>1, <1>3, <2>1, <2>2
    <3>2. ~ (k >= i)
      BY <3>1, <1>1, <1>2, <2>1, <2>2
    <3>3. k \in 1 .. (i - 1)
      BY <3>2
    <3>4. x(k) = x(i) /\ x(k) < x(i)
      BY <3>1, <3>3, <2>1, <1>2
    <3> QED BY <3>4, <1>1
  <2>3. ASSUME y(i) < x(i) PROVE FALSE
    <3>1. PICK k \in 1 .. Len(a) : x(k) = y(i)
      BY <1>1, <1>3, <2>1, <2>3
    <3>2. ~ (k >= i)
      BY <3>1, <1>1, <1>2, <2>1, <2>3
    <3>3. k \in 1 .. (i - 1)
      BY <3>2
    <3>4. y(k) = y(i) /\ y(k) < y(i)
      BY <3>1, <3>3, <2>1, <1>2
    <3> QED BY <3>4, <1>1, <2>1
  <2> QED BY <1>1, <2>1, <2>2, <2>3
<1>7. \A n \in Nat : n \in Good
  <2> Good \in SUBSET Nat
    OBVIOUS
  <2> HIDE DEF Good
  <2> QED BY <1>5, <1>6, NatSetInduction
<1>8. Len(a) \in Good
  BY <1>7
<1> QED BY <1>4, <1>8

\* Any two ledgers of one DAG agree on the entries both have.
LEMMA LedgersAgree ==
    ASSUME NEW p, WellFormed(p), NEW S, NEW T, NEW a, NEW b, Len(a) \in Nat, Len(b) \in Nat,
           IsLedger(p, S, a), IsLedger(p, T, b)
    PROVE  \A i \in 1 .. Len(a) : i <= Len(b) => a[i].leader = b[i].leader
<1> SUFFICES ASSUME NEW i \in 1 .. Len(a), i <= Len(b) PROVE a[i].leader = b[i].leader
  OBVIOUS
<1>1. i \in 1 .. Len(b) /\ S # {} /\ T # {}
  BY DEF IsLedger
<1>2. PICK s, t : Latest(S, s) /\ Latest(T, t)
  BY <1>1, LatestExists DEF IsLedger, Chain
<1>3. Supported(p, leader(s)) /\ Supported(p, leader(t)) /\ s \in Nat /\ t \in Nat
  BY <1>2, LeaderRoundFacts DEF IsLedger, Latest, Chain
<1>4. CASE s <= t
  <2>1. S = {r \in T : r <= s}
    BY <1>2, <1>3, <1>4, ChainsAgree DEF IsLedger
  <2> QED BY <2>1, <1>1, <1>3, PrefixesAgree
<1>5. CASE t <= s
  <2>1. T = {r \in S : r <= t}
    BY <1>2, <1>3, <1>5, ChainsAgree DEF IsLedger
  <2>2. \A k \in 1 .. Len(b) : k <= Len(a) => b[k].leader = a[k].leader
    BY <2>1, <1>3, PrefixesAgree
  <2> QED BY <2>2, <1>1
<1> QED BY <1>3, <1>4, <1>5

-----------------------------------------------------------------------------
(***************************************************************************)
(* The leaders that a task commits are a ledger.                           *)
(***************************************************************************)

CommittedRounds == {round(output[i].leader) : i \in 1 .. Len(output)}

PendingRounds == {round(l) : l \in toCommit}

\* What is delivered is delivered with its history, and the leaders that are
\* committed or pending form a ledger that ends at the last committed round.
LedgerInv ==
    /\ \A v \in delivered : parents[v] \subseteq delivered
    /\ IsLedger(parents, CommittedRounds \cup PendingRounds, output)
    /\ \A r \in CommittedRounds : r <= lastCommittedRound
    /\ \/ lastCommittedRound = 0 /\ CommittedRounds = {}
       \/ lastCommittedRound \in CommittedRounds

\* A task begins with an empty ledger.
LEMMA InitLedger == Init => LedgerInv
<1> SUFFICES ASSUME Init PROVE LedgerInv
  OBVIOUS
<1>1. WellFormed(parents)
  BY DagsAssumption DEF Init
<1>2. \A v \in delivered : parents[v] \subseteq delivered
  BY <1>1 DEF Init, Genesis, WellFormed
<1>3. CommittedRounds = {} /\ PendingRounds = {} /\ Len(output) = 0 /\ lastCommittedRound = 0
  BY DEF Init, CommittedRounds, PendingRounds
<1>4. IsLedger(parents, CommittedRounds \cup PendingRounds, output)
  BY <1>3 DEF IsLedger, Chain
<1> QED BY <1>2, <1>3, <1>4 DEF LedgerInv

\* The leaders that a certificate commits prolong the chain of those that
\* are committed (order_leaders).
LEMMA DeliverLedger ==
    ASSUME IInv, LedgerInv, NEW v \in DOMAIN parents, Deliver(v)
    PROVE  LedgerInv'
<1> DEFINE d == dag \cup {v}
           lr == LeaderRoundOf(v)
           l == leader(lr)
           C == CommittedRounds
           K == LinkedRounds(d, l)
           E == EarlierRounds(lr)
           lcr == lastCommittedRound
           p == parents
<1>1. /\ delivered' = delivered \cup {v}
      /\ p[v] \subseteq delivered
      /\ toCommit = {}
      /\ toCommit' = IF Commits(d, v) THEN order_leaders(d, l) ELSE {}
      /\ UNCHANGED <<parents, lastCommitted, lastCommittedRound, output>>
  <2>1. ~ panicked'
    BY DeliverIInv DEF IInv, NoPanic
  <2> QED BY <2>1 DEF Deliver, Process
<1>2. /\ WellFormed(p) /\ lcr \in Round /\ lcr \in Nat /\ dag \subseteq delivered
      /\ delivered \subseteq DOMAIN p
      /\ \A w \in delivered : round(w) > lcr => w \in dag
  BY MaxRoundAssumption DEF IInv, TypeOK, HistoryKept, Round
<1>3. \A w \in delivered' : p[w] \subseteq delivered'
  BY <1>1 DEF LedgerInv
<1>4. /\ C' = C /\ PendingRounds = {} /\ IsLedger(p, C, output)
      /\ \A r \in C : r <= lcr
      /\ (lcr = 0 /\ C = {}) \/ lcr \in C
  <2>1. C' = C /\ PendingRounds = {} /\ C \cup PendingRounds = C
    BY <1>1 DEF CommittedRounds, PendingRounds
  <2> QED BY <2>1 DEF LedgerInv
<1>5. CASE ~ Commits(d, v)
  <2>1. PendingRounds' = {} /\ (C \cup PendingRounds)' = C
    BY <1>1, <1>4, <1>5 DEF PendingRounds
  <2> QED BY <1>1, <1>3, <1>4, <2>1 DEF LedgerInv
<1>6. CASE Commits(d, v)
  <2>1. lr \in Round /\ lr % 2 = 0 /\ lr >= 2 /\ lr > lcr /\ l \in d
    <3>1. v \in Certificate /\ round(v) \in Round /\ round(v) \in Nat
      BY <1>2, CertificateFacts DEF WellFormed
    <3>2. /\ (round(v) - 1) % 2 = 0 /\ round(v) - 1 >= 4 /\ round(v) - 3 > lcr
          /\ leader(round(v) - 3) \in d
      BY <1>6 DEF Commits, Elects, LeaderRoundOf
    <3>3. (round(v) - 3) % 2 = 0 /\ round(v) - 3 \in Round
      BY <3>1, <3>2, MaxRoundAssumption DEF Round
    <3> QED BY <3>1, <3>2, <3>3 DEF LeaderRoundOf
  <2>2. lr \in LeaderRound /\ lr \in Nat /\ round(l) = lr
    BY <2>1, LeaderFacts, LeaderRoundFacts DEF LeaderRound
  <2>3. d \subseteq DOMAIN p
    BY <1>2
  <2>4. \A w \in d : \A u \in p[w] : round(u) > lcr => u \in d
    BY <1>1, <1>2, <1>3
  <2>5. C \subseteq LeaderRound /\ C \subseteq Nat /\ Chain(p, C)
    BY <1>4, LeaderRoundFacts DEF IsLedger, Chain
  <2>6. E \subseteq LeaderRound /\ \A r \in LeaderRound : r \in E <=> lcr < r /\ r < lr
    <3>1. lcr % 2 = 0 /\ lr % 2 = 0 /\ lr <= MaxRound
      <4>1. \A r \in LeaderRound : r % 2 = 0
        BY DEF LeaderRound
      <4>2. lcr % 2 = 0
        <5>1. CASE lcr = 0
          BY <5>1
        <5>2. CASE lcr \in C
          BY <5>2, <4>1, <2>5
        <5> QED BY <5>1, <5>2, <1>4
      <4> QED BY <4>1, <4>2, <2>2, LeaderRoundFacts
    <3>2. ASSUME NEW r \in E PROVE r \in LeaderRound
      BY <3>1, <3>2, <1>2, <2>2, MaxRoundAssumption DEF EarlierRounds, LeaderRound, Round
    <3>3. ASSUME NEW r \in LeaderRound PROVE r \in E <=> lcr < r /\ r < lr
      <4>1. r \in Nat /\ r % 2 = 0
        BY LeaderRoundFacts DEF LeaderRound
      <4> QED BY <3>1, <4>1, <1>2, <2>2 DEF EarlierRounds
    <3> QED BY <3>2, <3>3
  <2>7. /\ K \subseteq E
        /\ \A r \in E : r \in K <=> /\ leader(r) \in d
                                    /\ \E s : NextIn(K \cup {lr}, s, r) /\ linked(d, leader(s), leader(r))
    BY <2>2, <1>2, LinkedRoundsChain
  <2> HIDE DEF E, K, C, d, lr
  <2> HIDE DEF p, lcr
  <2>21. ASSUME NEW w \in d
         PROVE  \A k \in 0 .. round(w) :
                    k + lcr < round(w) => Layers(p, d, w)[k] = Layers(p, DOMAIN p, w)[k]
    BY <1>2, <2>3, <2>4, LayersSame
  <2> USE DEF p, lcr
  <2>8. ASSUME NEW r \in E, NEW s \in K \cup {lr}, s > r
        PROVE  (leader(r) \in d /\ linked(d, leader(s), leader(r))) <=> Reaches(p, leader(s), leader(r))
    <3>1. /\ r \in Nat /\ s \in Nat /\ round(leader(r)) = r /\ round(leader(s)) = s /\ r > lcr
          /\ leader(s) \in d
      BY <2>1, <2>2, <2>6, <2>7, LeaderFacts, LeaderRoundFacts
    <3>2. s - r \in 0 .. round(leader(s)) /\ (s - r) + lcr < round(leader(s)) /\ s - r > 0
      BY <3>1, <2>8, <1>2
    <3>3. Layers(p, d, leader(s))[s - r] = Layers(p, DOMAIN p, leader(s))[s - r]
      <4>1. \A k \in 0 .. round(leader(s)) : k + lcr < round(leader(s)) =>
                Layers(p, d, leader(s))[k] = Layers(p, DOMAIN p, leader(s))[k]
        BY <3>1, <2>21
      <4> QED BY <4>1, <3>2
    <3>4. Layers(p, d, leader(s))[s - r] \subseteq d
      BY <3>1, <3>2, <1>2, <2>3, LayerFacts
    <3> QED BY <3>1, <3>3, <3>4 DEF linked, Reaches
  <2>9. ASSUME NEW r \in E
        PROVE  r \in K <=> \E s \in K \cup {lr} :
                               NextIn(K \cup {lr}, s, r) /\ Reaches(p, leader(s), leader(r))
    <3>1. \A s : NextIn(K \cup {lr}, s, r) => s \in K \cup {lr} /\ s > r
      BY DEF NextIn
    <3>2. \E s : NextIn(K \cup {lr}, s, r)
      <4>1. K \cup {lr} \subseteq LeaderRound /\ r \in Nat /\ lr > r
        BY <2>2, <2>6, <2>7, LeaderRoundFacts
      <4> QED BY <4>1, NextExists
    <3> QED BY <3>1, <3>2, <2>7, <2>8
  <2>10. PendingRounds' = K \cup {lr}
    <3>1. toCommit' = {l} \cup {x \in d : \E r \in E \cap K : x = leader(r)}
      BY <1>1, <1>6, <2>2 DEF order_leaders, E, K, lr, d
    <3>2. \A r \in K : r \in E /\ leader(r) \in d /\ round(leader(r)) = r
      BY <2>6, <2>7, LeaderRoundFacts, LeaderFacts
    <3> QED BY <3>1, <3>2, <2>2 DEF PendingRounds
  <2> DEFINE S == C \cup (K \cup {lr})
  <2>11. (CommittedRounds \cup PendingRounds)' = S
    BY <1>4, <2>10 DEF C
  <2>12. /\ S \subseteq LeaderRound
         /\ \A r \in C : r <= lcr /\ r \in Nat
         /\ \A r \in K \cup {lr} : r > lcr /\ r <= lr /\ r \in Nat /\ leader(r) \in DOMAIN p
    BY <1>2, <1>4, <2>1, <2>2, <2>3, <2>5, <2>6, <2>7, LeaderRoundFacts
  <2>13. lcr \in C => Supported(p, leader(lcr)) /\ leader(lcr) \in DOMAIN p
    BY <1>4 DEF IsLedger, Latest, Chain
  <2>14. Chain(p, S)
    <3> SUFFICES ASSUME NEW r \in LeaderRound, \E s \in S : s > r
                 PROVE  r \in S <=> \E s \in S : NextIn(S, s, r) /\ Reaches(p, leader(s), leader(r))
      <4>1. \A r \in S : leader(r) \in DOMAIN p
        BY <2>5, <2>12 DEF Chain
      <4> HIDE DEF S
      <4> QED BY <4>1, <2>12 DEF Chain
    <3>1. r \in Nat /\ r < lr
      BY <2>2, <2>12, <1>2, LeaderRoundFacts
    <3>2. CASE r > lcr
      <4>1. r \in E /\ (r \in S <=> r \in K)
        BY <3>1, <3>2, <2>6, <2>12, <1>2
      <4>2. \A s : NextIn(S, s, r) <=> NextIn(K \cup {lr}, s, r)
        BY <3>1, <3>2, <2>12, <1>2 DEF NextIn
      <4>3. \A s : NextIn(K \cup {lr}, s, r) => s \in K \cup {lr}
        BY DEF NextIn
      <4> HIDE DEF S
      <4>4. \A s : NextIn(S, s, r) => s \in S
        BY DEF NextIn
      <4> QED BY <4>1, <4>2, <4>3, <4>4, <2>9
    <3>3. CASE r = lcr
      <4>1. lcr \in C /\ r \in S
        BY <3>3, <1>4, <2>5 DEF LeaderRound
      <4>2. PICK s : NextIn(S, s, r)
        BY <3>1, <2>12, NextExists
      <4>3. s \in S /\ s > r /\ s \in LeaderRound /\ s >= r + 2 /\ leader(s) \in DOMAIN p
        BY <4>2, <2>5, <2>12, LeaderRoundFacts DEF NextIn, Chain
      <4>4. round(leader(s)) = s /\ round(leader(r)) = r
        BY <4>3, LeaderFacts, LeaderRoundFacts
      <4>5. Reaches(p, leader(s), leader(r))
        BY <4>1, <4>3, <4>4, <3>3, <2>13, <1>2, SupportedIsReached
      <4> QED BY <4>1, <4>2, <4>3, <4>5
    <3>4. CASE r < lcr
      <4>1. lcr \in C
        BY <3>1, <3>4, <1>4
      <4>2. r \in S <=> r \in C
        BY <3>4, <2>12, <1>2
      <4>3. \A s : NextIn(S, s, r) <=> NextIn(C, s, r)
        <5>1. \A s : NextIn(S, s, r) => s \in C
          BY <4>1, <3>4, <2>12, <1>2 DEF NextIn
        <5>2. \A s : NextIn(C, s, r) => s <= lcr
          BY <2>12 DEF NextIn
        <5> QED BY <5>1, <5>2, <2>12, <1>2 DEF NextIn
      <4>4. r \in C <=> \E s \in C : NextIn(C, s, r) /\ Reaches(p, leader(s), leader(r))
        BY <4>1, <3>4, <2>5 DEF Chain
      <4>5. \A s : NextIn(C, s, r) => s \in C /\ s \in S
        BY DEF NextIn
      <4> HIDE DEF S
      <4> QED BY <4>2, <4>3, <4>4, <4>5
    <3> QED BY <3>1, <3>2, <3>3, <3>4, <1>2
  <2>15. Supported(p, l)
    <3> DEFINE A == {origin(w) : w \in {x \in AtRound(d, lr + 1) : l \in p[x]}}
               B == {origin(w) : w \in {x \in AtRound(DOMAIN p, lr + 1) : l \in p[x]}}
    <3>1. StakeOf(A) >= validity_threshold
      BY <1>6, <2>2 DEF Commits, Support, lr, d
    <3>2. A \subseteq B /\ B \subseteq Authority
      BY <2>3, <1>2, CertificateFacts DEF AtRound, WellFormed
    <3>3. StakeOf(A) <= StakeOf(B) /\ StakeOf(A) \in Nat /\ StakeOf(B) \in Nat
      <4> HIDE DEF A, B
      <4> QED BY <3>2, StakeMonotone, StakeNatural
    <3>4. validity_threshold \in Nat
      BY Thresholds
    <3>5. StakeOf(B) >= validity_threshold
      <4> HIDE DEF A, B
      <4> QED BY <3>1, <3>3, <3>4
    <3> QED BY <3>5, <2>2 DEF Supported
  <2>16. \A t \in S : Latest(S, t) => t = lr
    BY <2>12, <2>2, <1>2 DEF Latest
  <2>17. \A i \in 1 .. Len(output) : round(output[i].leader) \in C
    BY DEF C, CommittedRounds
  <2>18. ASSUME NEW i \in 1 .. Len(output), NEW r \in S, r < round(output[i].leader)
         PROVE  \E j \in 1 .. Len(output) : round(output[j].leader) = r
    <3>1. r \in C
      BY <2>12, <2>17, <2>18, <1>2
    <3> QED BY <3>1 DEF C, CommittedRounds
  <2>19. IsLedger(p, S, output)
    <3>1. \A i \in 1 .. Len(output) : round(output[i].leader) \in S
      BY <2>17
    <3> HIDE DEF S
    <3> QED BY <2>14, <2>15, <2>16, <2>18, <3>1, <1>4 DEF IsLedger
  <2> HIDE DEF S
  <2>20. CommittedRounds' = C
    BY <1>4 DEF C
  <2> QED BY <1>1, <1>3, <1>4, <2>11, <2>19, <2>20 DEF LedgerInv
<1> QED BY <1>5, <1>6

\* The oldest pending leader is the next entry.
LEMMA CommitLedger ==
    ASSUME IInv, LedgerInv, CommitLeader
    PROVE  LedgerInv'
<1> DEFINE S == CommittedRounds \cup PendingRounds
<1>1. PICK l \in toCommit :
        LET batch == order_dag(l)
            committed == AfterUpdate(batch)
            top == Max({committed[a] : a \in Authority})
        IN /\ \A o \in toCommit : round(l) <= round(o)
           /\ lastCommittedRound' = top
           /\ output' = IF batch = {} THEN output
                        ELSE Append(output, [leader |-> l, certificates |-> batch])
           /\ toCommit' = toCommit \ {l}
           /\ UNCHANGED <<parents, delivered>>
  BY DEF CommitLeader
<1> DEFINE e == [leader |-> l, certificates |-> order_dag(l)]
           n == Len(output)
<1>2. /\ lastCommittedRound' = round(l)
      /\ output' = Append(output, e)
      /\ toCommit' = toCommit \ {l}
      /\ parents' = parents /\ delivered' = delivered
      /\ \A o \in toCommit : round(l) <= round(o)
  BY <1>1, MarksAfterCommit
<1>3. /\ \A o \in toCommit : o = leader(round(o)) /\ round(o) > lastCommittedRound /\ round(o) \in Nat
      /\ lastCommittedRound \in Nat /\ output \in Seq(Slice) /\ n \in Nat
  BY CertificateFacts, MaxRoundAssumption DEF IInv, PendingKept, TypeOK, Round
<1>4. /\ Len(output') = n + 1 /\ output'[n + 1].leader = l
      /\ \A i \in 1 .. n : output'[i] = output[i]
  BY <1>2, <1>3
<1>5. CommittedRounds' = CommittedRounds \cup {round(l)}
  <2>1. \A i \in 1 .. (n + 1) : i = n + 1 \/ i \in 1 .. n
    BY <1>3
  <2>2. CommittedRounds' = {round(output'[i].leader) : i \in 1 .. (n + 1)}
    BY <1>4 DEF CommittedRounds
  <2>3. 1 .. n \subseteq 1 .. (n + 1) /\ n + 1 \in 1 .. (n + 1)
    BY <1>3
  <2> QED BY <2>1, <2>2, <2>3, <1>4 DEF CommittedRounds
<1>6. PendingRounds' = PendingRounds \ {round(l)} /\ round(l) \in PendingRounds
  <2>1. \A o \in toCommit : o # l => round(o) # round(l)
    BY <1>3
  <2> QED BY <2>1, <1>2 DEF PendingRounds
<1>7. S' = S
  BY <1>5, <1>6
<1>8. IsLedger(parents, S, output) /\ \A r \in CommittedRounds : r <= lastCommittedRound
  BY DEF LedgerInv
<1>9. \A i \in 1 .. n : round(output[i].leader) \in CommittedRounds /\ round(output[i].leader) \in Nat
  <2>1. S \subseteq Nat
    BY <1>8, LeaderRoundFacts DEF IsLedger, Chain
  <2> QED BY <2>1 DEF CommittedRounds
<1>10. \A i \in 1 .. n : round(output[i].leader) < round(l)
  BY <1>3, <1>8, <1>9
<1>11. \A r \in S : r < round(l) => \E j \in 1 .. n : round(output[j].leader) = r
  <2>1. \A r \in PendingRounds : r >= round(l)
    BY <1>2, <1>3 DEF PendingRounds
  <2>2. \A r \in PendingRounds : r \in Nat
    BY <1>3 DEF PendingRounds
  <2> QED BY <2>1, <2>2, <1>3 DEF CommittedRounds
<1>12. round(l) \in S /\ l = leader(round(l))
  BY <1>3, <1>6
<1> HIDE DEF S, e
<1>13. IsLedger(parents, S, output')
  <2>1. \A i \in 1 .. (n + 1) : i = n + 1 \/ i \in 1 .. n
    BY <1>3
  <2>2. \A i \in 1 .. n : i \in 1 .. (n + 1) /\ i < n + 1 /\ ~ (n + 1 < i)
    BY <1>3
  <2>3. \A i \in 1 .. (n + 1) : /\ round(output'[i].leader) \in S
                                /\ output'[i].leader = leader(round(output'[i].leader))
    BY <2>1, <1>4, <1>8, <1>12 DEF IsLedger
  <2>4. \A i, j \in 1 .. (n + 1) : i < j => round(output'[i].leader) < round(output'[j].leader)
    <3> SUFFICES ASSUME NEW i \in 1 .. (n + 1), NEW j \in 1 .. (n + 1), i < j
                 PROVE  round(output'[i].leader) < round(output'[j].leader)
      OBVIOUS
    <3>1. i \in 1 .. n
      BY <1>3
    <3>2. CASE j = n + 1
      BY <3>1, <3>2, <1>4, <1>10
    <3>3. CASE j \in 1 .. n
      BY <3>1, <3>3, <1>4, <1>8 DEF IsLedger
    <3> QED BY <2>1, <3>2, <3>3
  <2>5. ASSUME NEW i \in 1 .. (n + 1), NEW r \in S, r < round(output'[i].leader)
        PROVE  \E j \in 1 .. (n + 1) : round(output'[j].leader) = r
    <3>1. \E j \in 1 .. n : round(output[j].leader) = r
      BY <2>1, <2>5, <1>4, <1>8, <1>11 DEF IsLedger
    <3> QED BY <3>1, <2>2, <1>4
  <2> QED BY <2>3, <2>4, <2>5, <1>4, <1>8 DEF IsLedger
<1>14. \A r \in CommittedRounds' : r <= lastCommittedRound'
  <2>1. \A r \in CommittedRounds : r \in Nat
    BY <1>9 DEF CommittedRounds
  <2> QED BY <2>1, <1>2, <1>3, <1>5, <1>8
<1> QED BY <1>2, <1>5, <1>7, <1>13, <1>14 DEF LedgerInv, S

\* The slices that are sent stay sent: the output only grows, by one slice
\* at a time, and a slice has its leader at least.
LEMMA OutputGrows ==
    IInv /\ [Next]_vars => \/ output' = output
                           \/ \E e \in Slice : e.certificates # {} /\ output' = Append(output, e)
<1> SUFFICES ASSUME IInv, [Next]_vars
             PROVE  \/ output' = output
                    \/ \E e \in Slice : e.certificates # {} /\ output' = Append(output, e)
  OBVIOUS
<1>1. CASE CommitLeader
  <2>1. PICK l \in toCommit :
          LET batch == order_dag(l)
          IN output' = IF batch = {} THEN output
                       ELSE Append(output, [leader |-> l, certificates |-> batch])
    BY <1>1 DEF CommitLeader
  <2>2. l \in Certificate /\ order_dag(l) \subseteq Certificate
    BY MarksAfterCommit DEF IInv, TypeOK
  <2> QED BY <2>1, <2>2 DEF Slice
<1>2. CASE \E v \in DOMAIN parents : Deliver(v)
  BY <1>2 DEF Deliver, Process
<1>3. CASE UNCHANGED vars
  BY <1>3 DEF vars
<1> QED BY <1>1, <1>2, <1>3 DEF Next

\* The invariant of one replica that agreement rests on.
THEOREM LedgerInvariant == Spec => [](IInv /\ LedgerInv)
<1>1. IInv /\ LedgerInv /\ [Next]_vars => LedgerInv'
  <2> SUFFICES ASSUME IInv, LedgerInv, [Next]_vars PROVE LedgerInv'
    OBVIOUS
  <2>1. CASE CommitLeader
    BY <2>1, CommitLedger
  <2>2. CASE \E v \in DOMAIN parents : Deliver(v)
    BY <2>2, DeliverLedger
  <2>3. CASE UNCHANGED vars
    BY <2>3 DEF LedgerInv, vars, CommittedRounds, PendingRounds
  <2> QED BY <2>1, <2>2, <2>3 DEF Next
<1> QED BY InitLedger, SafetyInvariant, <1>1, PTL DEF Spec

-----------------------------------------------------------------------------
(***************************************************************************)
(* The history of the leaders.                                             *)
(***************************************************************************)

\* What a task no longer has was removed by State::update, below a committed
\* certificate of its author or below the garbage collection depth.
HistoryInv ==
    /\ \A a \in Authority : lastCommitted[a] = 0 \/ <<a, lastCommitted[a]>> \in Committed
    /\ \A u \in delivered : \/ u \in dag
                            \/ round(u) < lastCommitted[origin(u)]
                            \/ round(u) + GcDepth < lastCommittedRound
    /\ HistoryCommitted

\* Nothing is committed or removed at the start.
LEMMA InitHistory == Init => HistoryInv
  BY DEF Init, HistoryInv, HistoryCommitted

\* Receiving a certificate removes and commits nothing.
LEMMA DeliverHistory ==
    ASSUME HistoryInv, NEW v \in DOMAIN parents, Deliver(v)
    PROVE  HistoryInv'
<1>1. /\ delivered' = delivered \cup {v} /\ dag' = dag \cup {v}
      /\ UNCHANGED <<parents, lastCommitted, lastCommittedRound, output>>
  BY DEF Deliver, Process
<1> QED BY <1>1 DEF HistoryInv, HistoryCommitted, Committed, CommittedBy

\* The walk of order_dag goes on to every parent that it may still commit.
LEMMA WalkTakesParent ==
    ASSUME IInv, NEW l \in toCommit, NEW v \in order_dag(l), NEW u \in parents[v] \ Genesis,
           u \in dag, lastCommitted[origin(u)] # round(u),
           round(u) + GcDepth >= lastCommittedRound
    PROVE  u \in order_dag(l)
<1> DEFINE open == {w \in dag : lastCommitted[origin(w)] # round(w)}
<1>1. /\ WellFormed(parents) /\ dag \subseteq DOMAIN parents
      /\ l \in dag /\ v \in dag /\ l \in Certificate
  BY MarksAfterCommit DEF IInv, TypeOK, HistoryKept, PendingKept
<1>2. /\ open \subseteq DOMAIN parents /\ l \in DOMAIN parents /\ v \in DOMAIN parents
      /\ u \in open
  BY <1>1
<1>3. round(u) = round(v) - 1 /\ round(u) \in Nat /\ round(v) \in Nat /\ round(l) \in Nat
  BY <1>1, <1>2, ParentFacts, CertificateFacts
<1>4. PICK k \in 0 .. round(l) : v \in Layers(parents, open, l)[k]
  <2>1. CASE v = l
    <3>1. v \in Layers(parents, open, l)[0] /\ 0 \in 0 .. round(l)
      BY <2>1, <1>1, <1>3, LayersStep
    <3> QED BY <3>1
  <2>2. CASE v # l
    BY <2>2 DEF order_dag, Ancestry
  <2> QED BY <2>1, <2>2
<1>5. round(v) = round(l) - k
  BY <1>1, <1>2, <1>4, LayerFacts
<1>6. k + 1 \in 1 .. round(l) /\ (k + 1) - 1 = k /\ k + 1 \in 0 .. round(l) /\ round(u) < round(l)
  BY <1>3, <1>4, <1>5
<1>7. u \in Layers(parents, open, l)[k + 1]
  <2>1. Layers(parents, open, l)[k + 1]
           = open \cap UNION {parents[w] : w \in Layers(parents, open, l)[k]}
    <3> HIDE DEF open
    <3>1. \A j \in 1 .. round(l) : Layers(parents, open, l)[j]
              = open \cap UNION {parents[w] : w \in Layers(parents, open, l)[j - 1]}
      BY <1>1, LayersStep
    <3> QED BY <3>1, <1>6
  <2> QED BY <2>1, <1>2, <1>4
<1> QED BY <1>2, <1>6, <1>7 DEF order_dag, Ancestry

\* The walk of order_dag finds every parent that is not committed or removed.
LEMMA CommitHistory ==
    ASSUME IInv, LedgerInv, HistoryInv, CommitLeader
    PROVE  HistoryInv'
<1>1. PICK l \in toCommit :
        LET batch == order_dag(l)
            committed == AfterUpdate(batch)
            top == Max({committed[a] : a \in Authority})
        IN /\ lastCommitted' = committed
           /\ lastCommittedRound' = top
           /\ dag' = Cleaned(dag, committed, top)
           /\ output' = IF batch = {} THEN output
                        ELSE Append(output, [leader |-> l, certificates |-> batch])
           /\ UNCHANGED <<parents, delivered>>
  BY DEF CommitLeader
<1> DEFINE batch == order_dag(l)
           e == [leader |-> l, certificates |-> batch]
           n == Len(output)
           lcr == lastCommittedRound
           open == {v \in dag : lastCommitted[origin(v)] # round(v)}
<1> DEFINE committed == AfterUpdate(batch)
           top == Max({committed[a] : a \in Authority})
<1>14. /\ l \in batch /\ batch \subseteq dag
       /\ committed \in [Authority -> Round] /\ top \in Round /\ top >= lcr
       /\ \A a \in Authority :
             /\ committed[a] >= lastCommitted[a]
             /\ \/ committed[a] = lastCommitted[a]
                \/ \E v \in batch : origin(v) = a /\ round(v) = committed[a]
  BY MarksAfterCommit
<1>15. /\ lastCommitted' = committed /\ lastCommittedRound' = top
       /\ dag' = Cleaned(dag, committed, top)
       /\ output' = Append(output, e)
       /\ parents' = parents /\ delivered' = delivered
  BY <1>1, <1>14
<1> HIDE DEF committed, top
<1>16. lcr \in Nat /\ \A a \in Authority : lastCommitted[a] \in Nat
  BY MaxRoundAssumption DEF Round, IInv, TypeOK
<1>17. top \in Nat /\ \A a \in Authority : committed[a] \in Nat
  BY <1>14, MaxRoundAssumption DEF Round
<1>2. /\ dag' = Cleaned(dag, lastCommitted', lastCommittedRound')
      /\ output' = Append(output, e)
      /\ parents' = parents /\ delivered' = delivered
      /\ lastCommittedRound' >= lcr /\ lastCommittedRound' \in Nat /\ lcr \in Nat
      /\ \A a \in Authority :
            /\ lastCommitted'[a] \in Nat /\ lastCommitted[a] \in Nat
            /\ lastCommitted'[a] >= lastCommitted[a]
            /\ \/ lastCommitted'[a] = lastCommitted[a]
               \/ \E v \in batch : origin(v) = a /\ round(v) = lastCommitted'[a]
  BY <1>14, <1>15, <1>16, <1>17
<1>3. /\ WellFormed(parents) /\ dag \subseteq delivered /\ delivered \subseteq DOMAIN parents
      /\ \A v \in delivered : v \in Certificate /\ parents[v] \subseteq delivered
      /\ l \in dag
      /\ output \in Seq(Slice) /\ n \in Nat
  BY DEF IInv, TypeOK, HistoryKept, LedgerInv, WellFormed, PendingKept
<1>4. \A v \in Certificate : /\ v = <<origin(v), round(v)>> /\ origin(v) \in Authority
                             /\ round(v) \in Nat
  BY CertificateFacts DEF Certificate, origin, round
<1>5. /\ Len(output') = n + 1 /\ output'[n + 1].certificates = batch
      /\ \A i \in 1 .. n : output'[i] = output[i]
  BY <1>2, <1>3
<1>6. /\ \A i \in 0 .. n : CommittedBy(i)' = CommittedBy(i)
      /\ \A k : k = n + 1 => CommittedBy(k)' = Committed \cup batch
      /\ Committed' = Committed \cup batch
  <2>1. ASSUME NEW i \in 0 .. n PROVE CommittedBy(i)' = CommittedBy(i)
    <3>1. \A j \in 1 .. i : output'[j] = output[j]
      BY <1>3, <1>5
    <3> QED BY <3>1 DEF CommittedBy
  <2>2. \A j \in 1 .. (n + 1) : j \in 1 .. n \/ j = n + 1
    BY <1>3
  <2>3. 1 .. n \subseteq 1 .. (n + 1) /\ n + 1 \in 1 .. (n + 1)
    BY <1>3
  <2>4. ASSUME NEW k, k = n + 1 PROVE CommittedBy(k)' = CommittedBy(n) \cup batch
    <3> HIDE DEF batch
    <3>1. \A j \in 1 .. k : \/ j \in 1 .. n /\ output'[j] = output[j]
                            \/ j = n + 1 /\ output'[j].certificates = batch
      BY <2>2, <2>4, <1>5
    <3>2. \A j \in 1 .. n : j \in 1 .. k /\ output'[j] = output[j]
      BY <2>3, <2>4, <1>5
    <3>3. n + 1 \in 1 .. k /\ output'[n + 1].certificates = batch
      BY <2>3, <2>4, <1>5
    <3>4. CommittedBy(k)' = UNION {output'[j].certificates : j \in 1 .. k}
      BY DEF CommittedBy
    <3> HIDE DEF n
    <3> QED BY <3>1, <3>2, <3>3, <3>4 DEF CommittedBy
  <2>5. Committed = CommittedBy(n)
    BY DEF Committed
  <2>6. Committed' = Committed \cup batch
    <3>1. PICK k : k = n + 1
      OBVIOUS
    <3>2. Committed' = CommittedBy(k)'
      BY <3>1, <1>5 DEF Committed, CommittedBy
    <3> QED BY <3>1, <3>2, <2>4, <2>5
  <2> QED BY <2>1, <2>4, <2>5, <2>6
<1>7. batch \subseteq dag
  BY MarksAfterCommit
<1>8. \A a \in Authority : lastCommitted'[a] = 0 \/ <<a, lastCommitted'[a]>> \in Committed'
  BY <1>2, <1>3, <1>4, <1>6, <1>7 DEF HistoryInv
<1>9. ASSUME NEW u \in delivered
      PROVE  \/ u \in dag'
             \/ round(u) < lastCommitted'[origin(u)]
             \/ round(u) + GcDepth < lastCommittedRound'
  <2>1. origin(u) \in Authority /\ round(u) \in Nat /\ GcDepth \in Nat
    BY <1>3, <1>4, GcDepthAssumption
  <2>2. CASE u \in dag
    BY <2>1, <2>2, <1>2 DEF Cleaned
  <2>3. CASE u \notin dag
    BY <2>1, <2>3, <1>2 DEF HistoryInv
  <2> QED BY <2>2, <2>3
<1>10. lcr = 0 \/ \E w \in Committed : round(w) = lcr
  <2>1. PICK a \in Authority : lastCommitted[a] = lcr
    BY DEF IInv, LastRoundExact
  <2>2. round(<<a, lcr>>) = lcr
    BY DEF round
  <2> QED BY <2>1, <2>2 DEF HistoryInv
<1>11. ASSUME NEW v \in batch, NEW u \in parents[v] \ Genesis, u \in open,
              round(u) + GcDepth >= lcr
       PROVE  u \in batch
  BY <1>11, WalkTakesParent
<1>12. ASSUME NEW v \in batch, NEW u \in parents[v] \ Genesis
       PROVE  \/ u \in Committed \cup batch
              \/ \E w \in Committed : origin(w) = origin(u) /\ round(w) > round(u)
              \/ \E w \in Committed : round(u) + GcDepth < round(w)
  <2>1. u \in delivered /\ u \in Certificate /\ origin(u) \in Authority /\ round(u) \in Nat
        /\ round(u) # 0 /\ GcDepth \in Nat
    <3>1. u \in delivered /\ u \in Certificate
      BY <1>3, <1>7
    <3> QED BY <3>1, <1>4, GcDepthAssumption DEF Genesis
  <2> DEFINE m == <<origin(u), lastCommitted[origin(u)]>>
  <2>2. origin(m) = origin(u) /\ round(m) = lastCommitted[origin(u)]
    BY DEF origin, round
  <2>3. lastCommitted[origin(u)] = 0 \/ m \in Committed
    BY <2>1 DEF HistoryInv
  <2>4. CASE round(u) < lastCommitted[origin(u)]
    BY <2>1, <2>2, <2>3, <2>4
  <2>5. CASE round(u) + GcDepth < lcr
    BY <2>1, <2>5, <1>10
  <2>6. CASE u \in dag /\ ~ (round(u) + GcDepth < lcr)
    <3>1. CASE lastCommitted[origin(u)] = round(u)
      <4>1. m = u
        BY <3>1, <2>1, <1>4
      <4> QED BY <3>1, <4>1, <2>1, <2>3
    <3>2. CASE lastCommitted[origin(u)] # round(u)
      <4>1. round(u) + GcDepth >= lcr
        BY <2>1, <2>6, <1>2
      <4> QED BY <3>2, <4>1, <2>6, <1>11
    <3> QED BY <3>1, <3>2
  <2> QED BY <2>1, <2>4, <2>5, <2>6 DEF HistoryInv
<1>13. HistoryCommitted'
  <2> SUFFICES ASSUME NEW i \in 1 .. (n + 1), NEW v \in output'[i].certificates,
                      NEW u \in parents[v] \ Genesis
               PROVE  \/ u \in CommittedBy(i)'
                      \/ \E w \in CommittedBy(i - 1)' :
                              origin(w) = origin(u) /\ round(w) > round(u)
                      \/ \E w \in CommittedBy(i - 1)' : round(u) + GcDepth < round(w)
    BY <1>2, <1>5 DEF HistoryCommitted, Genesis
  <2>1. CASE i = n + 1
    <3>1. v \in batch /\ CommittedBy(i)' = Committed \cup batch
      <4> HIDE DEF batch
      <4> QED BY <2>1, <1>5, <1>6
    <3>2. CommittedBy(i - 1)' = Committed
      <4>1. i - 1 = n /\ n \in 0 .. n
        BY <2>1, <1>3
      <4> QED BY <4>1, <1>6 DEF Committed
    <3> QED BY <3>1, <3>2, <1>12
  <2>2. CASE i # n + 1
    <3>1. i \in 1 .. n /\ i \in 0 .. n /\ i - 1 \in 0 .. n
      BY <2>2, <1>3
    <3>2. v \in output[i].certificates /\ CommittedBy(i)' = CommittedBy(i)
          /\ CommittedBy(i - 1)' = CommittedBy(i - 1)
      BY <3>1, <1>5, <1>6
    <3> QED BY <3>1, <3>2 DEF HistoryInv, HistoryCommitted
  <2> QED BY <2>1, <2>2
<1> QED BY <1>2, <1>8, <1>9, <1>13 DEF HistoryInv

\* A slice is the whole history of its leader, but for what State::update
\* has removed before.
THEOREM CommitsHistory == Spec => []HistoryCommitted
<1>1. IInv /\ LedgerInv /\ HistoryInv /\ [Next]_vars => HistoryInv'
  <2> SUFFICES ASSUME IInv, LedgerInv, HistoryInv, [Next]_vars PROVE HistoryInv'
    OBVIOUS
  <2>1. CASE CommitLeader
    BY <2>1, CommitHistory
  <2>2. CASE \E v \in DOMAIN parents : Deliver(v)
    BY <2>2, DeliverHistory
  <2>3. CASE UNCHANGED vars
    BY <2>3 DEF HistoryInv, vars, HistoryCommitted, Committed, CommittedBy
  <2> QED BY <2>1, <2>2, <2>3 DEF Next
<1>2. HistoryInv => HistoryCommitted
  BY DEF HistoryInv
<1> QED BY InitHistory, LedgerInvariant, <1>1, <1>2, PTL DEF Spec

\* A parent of a committed certificate that is still in the dag is the last
\* committed one of its author, which order_dag skips.
ParentsSettled ==
    \A v \in Committed : \A u \in parents[v] :
        /\ u \in delivered
        /\ u \in dag => round(u) = lastCommitted[origin(u)]

\* A slice holds no parent of a certificate of an earlier slice.
ParentsEarlier ==
    \A i, j \in 1 .. Len(output) :
        i < j => \A v \in output[i].certificates : parents[v] \cap output[j].certificates = {}

\* Committing a slice settles the parents of what it holds: they are in it,
\* or they were skipped and State::update now removes them for good.
LEMMA CommitParents ==
    ASSUME IInv, LedgerInv, ParentsSettled, ParentsEarlier, CommitLeader
    PROVE  ParentsSettled' /\ ParentsEarlier'
<1>1. PICK l \in toCommit :
        LET batch == order_dag(l)
            committed == AfterUpdate(batch)
            top == Max({committed[a] : a \in Authority})
        IN /\ lastCommitted' = committed
           /\ lastCommittedRound' = top
           /\ dag' = Cleaned(dag, committed, top)
           /\ output' = IF batch = {} THEN output
                        ELSE Append(output, [leader |-> l, certificates |-> batch])
           /\ UNCHANGED <<parents, delivered>>
  BY DEF CommitLeader
<1> DEFINE batch == order_dag(l)
           n == Len(output)
           committed == AfterUpdate(batch)
           top == Max({committed[a] : a \in Authority})
<1>2. /\ l \in batch
      /\ \A v \in batch : v \in dag /\ v \in Certificate /\ round(v) # lastCommitted[origin(v)]
      /\ top \in Round /\ top >= lastCommittedRound
      /\ \A a \in Authority :
            /\ committed[a] \in Round
            /\ committed[a] >= lastCommitted[a]
            /\ \A v \in batch : origin(v) = a => round(v) <= committed[a]
  BY MarksAfterCommit
<1>3. /\ lastCommitted' = committed
      /\ dag' = Cleaned(dag, committed, top)
      /\ output' = Append(output, [leader |-> l, certificates |-> batch])
      /\ parents' = parents /\ delivered' = delivered
  BY <1>1, <1>2
<1>4. ASSUME NEW v \in batch, NEW u \in parents[v] \ Genesis,
             u \in dag, lastCommitted[origin(u)] # round(u),
             round(u) + GcDepth >= lastCommittedRound
      PROVE  u \in batch
  BY <1>4, WalkTakesParent
<1> HIDE DEF batch, committed, top
<1>5. /\ output \in Seq(Slice) /\ n \in Nat /\ dag \subseteq delivered
      /\ delivered \subseteq Certificate
      /\ \A v \in delivered : parents[v] \subseteq delivered
      /\ lastCommittedRound \in Nat /\ GcDepth \in Nat
      /\ \A a \in Authority : lastCommitted[a] \in Nat
  BY GcDepthAssumption, MaxRoundAssumption DEF IInv, TypeOK, HistoryKept, LedgerInv, Round
<1>6. \A a \in Authority : committed[a] \in Nat
  BY <1>2, MaxRoundAssumption DEF Round
<1>7. top \in Nat
  BY <1>2, MaxRoundAssumption DEF Round
<1>8. \A u \in Certificate : origin(u) \in Authority /\ round(u) \in Nat
  BY CertificateFacts
<1>9. \A i \in 1 .. Len(output') :
          \/ i \in 1 .. n /\ output'[i] = output[i]
          \/ i = n + 1 /\ output'[i].certificates = batch
  BY <1>3, <1>5
<1>10. Committed' \subseteq Committed \cup batch
  <2>1. ASSUME NEW v \in Committed' PROVE v \in Committed \cup batch
    <3>1. PICK i \in 1 .. Len(output') : v \in output'[i].certificates
      BY DEF Committed, CommittedBy
    <3>2. CASE i \in 1 .. n /\ output'[i] = output[i]
      BY <3>1, <3>2 DEF Committed, CommittedBy
    <3>3. CASE output'[i].certificates = batch
      BY <3>1, <3>3
    <3> QED BY <3>2, <3>3, <1>9
  <2> QED BY <2>1
<1>11. ASSUME NEW u \in dag', round(u) <= committed[origin(u)]
       PROVE  round(u) = committed[origin(u)]
  <2>1. u \in dag /\ round(u) >= committed[origin(u)]
    BY <1>3 DEF Cleaned
  <2> QED BY <2>1, <1>5, <1>6, <1>8, <1>11
<1>12. ParentsSettled'
  <2> SUFFICES ASSUME NEW v \in Committed', NEW u \in parents[v]
               PROVE  /\ u \in delivered
                      /\ u \in dag' => round(u) = committed[origin(u)]
    BY <1>3 DEF ParentsSettled
  <2>1. CASE v \in Committed
    <3>1. u \in delivered /\ (u \in dag => round(u) = lastCommitted[origin(u)])
      BY <2>1 DEF ParentsSettled
    <3>2. u \in dag' => u \in dag
      BY <1>3 DEF Cleaned
    <3>3. u \in dag' => round(u) <= committed[origin(u)]
      BY <3>1, <3>2, <1>2, <1>5, <1>8
    <3> QED BY <3>1, <3>3, <1>11
  <2>2. CASE v \in batch
    <3>1. u \in delivered
      BY <2>2, <1>2, <1>5
    <3>2. SUFFICES ASSUME u \in dag' PROVE round(u) <= committed[origin(u)]
      BY <3>1, <1>11
    <3>3. u \in dag /\ round(u) + GcDepth >= top
      BY <3>2, <1>3 DEF Cleaned
    <3>4. u \in Certificate /\ origin(u) \in Authority /\ round(u) \in Nat
      BY <3>1, <1>5, <1>8
    <3>5. round(u) + GcDepth >= lastCommittedRound
      BY <3>3, <3>4, <1>2, <1>5, <1>7
    <3>6. CASE u \in Genesis
      BY <3>4, <3>6, <1>6 DEF Genesis
    <3>7. CASE lastCommitted[origin(u)] = round(u)
      BY <3>4, <3>7, <1>2
    <3>8. CASE u \notin Genesis /\ lastCommitted[origin(u)] # round(u)
      <4>1. u \in batch
        BY <2>2, <3>3, <3>5, <3>8, <1>4
      <4> QED BY <4>1, <3>4, <1>2
    <3> QED BY <3>6, <3>7, <3>8
  <2> QED BY <2>1, <2>2, <1>10
<1>13. ParentsEarlier'
  <2> SUFFICES ASSUME NEW i \in 1 .. Len(output'), NEW j \in 1 .. Len(output'), i < j,
                      NEW v \in output'[i].certificates
               PROVE  parents[v] \cap output'[j].certificates = {}
    <3>1. parents' = parents
      BY <1>3
    <3> QED BY <3>1 DEF ParentsEarlier
  <2>1. i \in 1 .. n /\ output'[i] = output[i]
    <3>1. j <= n + 1 /\ j \in Nat
      BY <1>5, <1>9
    <3>2. i # n + 1
      BY <3>1, <1>5
    <3> QED BY <3>2, <1>9
  <2>2. CASE j \in 1 .. n /\ output'[j] = output[j]
    BY <2>1, <2>2 DEF ParentsEarlier
  <2>3. CASE output'[j].certificates = batch
    <3>1. v \in Committed
      BY <2>1 DEF Committed, CommittedBy
    <3>2. ASSUME NEW u \in parents[v], u \in batch PROVE FALSE
      BY <3>1, <3>2, <1>2 DEF ParentsSettled
    <3> QED BY <2>3, <3>2
  <2> QED BY <2>2, <2>3, <1>9
<1> QED BY <1>12, <1>13

\* The slices come in causal order: although State::update may have removed a
\* part of the history of a leader, no slice holds a parent of a certificate
\* that was committed before.
THEOREM CommitsParentsFirst == Spec => []ParentsEarlier
<1>1. Init => ParentsSettled /\ ParentsEarlier
  BY DEF Init, ParentsSettled, ParentsEarlier, Committed, CommittedBy
<1>2. IInv /\ LedgerInv /\ ParentsSettled /\ ParentsEarlier /\ [Next]_vars
         => ParentsSettled' /\ ParentsEarlier'
  <2> SUFFICES ASSUME IInv, LedgerInv, ParentsSettled, ParentsEarlier, [Next]_vars
               PROVE  ParentsSettled' /\ ParentsEarlier'
    OBVIOUS
  <2>1. CASE CommitLeader
    BY <2>1, CommitParents
  <2>2. ASSUME NEW v \in DOMAIN parents, Deliver(v)
        PROVE  ParentsSettled' /\ ParentsEarlier'
    <3>1. /\ v \notin delivered
          /\ delivered' = delivered \cup {v} /\ dag' = dag \cup {v}
          /\ UNCHANGED <<parents, lastCommitted, output>>
      BY <2>2 DEF Deliver, Process
    <3>2. Committed' = Committed
      BY <3>1 DEF Committed, CommittedBy
    <3> QED BY <3>1, <3>2 DEF ParentsSettled, ParentsEarlier
  <2>3. CASE UNCHANGED vars
    BY <2>3 DEF vars, ParentsSettled, ParentsEarlier, Committed, CommittedBy
  <2> QED BY <2>1, <2>2, <2>3 DEF Next
<1> QED BY <1>1, <1>2, LedgerInvariant, PTL DEF Spec
=============================================================================
