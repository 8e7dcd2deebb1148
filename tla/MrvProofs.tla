------------------------------ MODULE MrvProofs ------------------------------
(***************************************************************************)
(* Safety of the MRV executor for every committee size, window and DAG,    *)
(* and for every sequence of slices that holds no certificate twice        *)
(* (SpecAny), so also for the slices of Spec. After that, the algorithm of *)
(* sort_batch (module KosarajuOrder) for batches of every size.            *)
(***************************************************************************)
EXTENDS MrvExecutor, KosarajuOrder, DagProofs, FunctionTheorems

(***************************************************************************)
(* Minima, and the size of a set of certificates.                          *)
(***************************************************************************)

\* Min is the only lower bound of a set of naturals that is in the set.
LEMMA MinIsUnique ==
    ASSUME NEW S, S \subseteq Nat, NEW m \in S, \A y \in S : m <= y
    PROVE  Min(S) = m
<1>1. Min(S) \in S /\ Min(S) <= m /\ m <= Min(S)
  BY MinOfNaturals
<1>2. Min(S) \in Nat /\ m \in Nat
  BY <1>1
<1> QED BY <1>1, <1>2

\* Sets of certificates are finite: a larger one has no fewer elements.
LEMMA CertificateCount ==
    ASSUME NEW S \in SUBSET Certificate, NEW T \in SUBSET S
    PROVE  /\ IsFiniteSet(S)
           /\ Cardinality(S) \in Nat
           /\ Cardinality(T) \in Nat
           /\ Cardinality(T) <= Cardinality(S)
<1>1. IsFiniteSet(Authority) /\ IsFiniteSet(Round)
  BY FS_Interval, NAssumption, MaxRoundAssumption DEF Authority, Round
<1>2. IsFiniteSet(Certificate)
  BY <1>1, FS_Product DEF Certificate
<1>3. IsFiniteSet(S)
  BY <1>2, FS_Subset
<1> QED BY <1>3, FS_Subset, FS_CardinalityType

-----------------------------------------------------------------------------
(***************************************************************************)
(* The inductive invariant.                                                *)
(***************************************************************************)

\* The slice being ingested does not have an entry among the batches yet.
IndexFresh == phase = "ingest" => index > 0 /\ index \notin DOMAIN batches

\* Outside the ingestion every AUF without a horizon is inside its window:
\* apply_window_cap has seen the latest frontier.
CapApplied ==
    phase \in {"finalize", "idle"} =>
        \A u \in DOMAIN auf : auf[u].horizon = None => frontier < round(u) + WindowCap

IInv ==
    /\ TypeOK
    /\ IndexFresh
    /\ ActiveExact
    /\ FloorExact
    /\ HorizonJustified
    /\ CapApplied
    /\ WindowBound

\* The initial state satisfies the invariant.
LEMMA InitIInv == Init => IInv
<1> SUFFICES ASSUME Init PROVE IInv
  OBVIOUS
<1> USE DEF Init
<1>1. WellFormed(parents)
  BY DagsAssumption
<1>2. DOMAIN auf = {} /\ DOMAIN batches = {}
  OBVIOUS
<1>3. 0 \in Round /\ None \in Round \cup {None}
  BY MaxRoundAssumption DEF Round
<1>4. TypeOK
  BY <1>1, <1>2, <1>3 DEF TypeOK
<1>5. IndexFresh /\ ActiveExact /\ CapApplied /\ WindowBound
  BY <1>2 DEF IndexFresh, ActiveExact, CapApplied, WindowBound
<1>6. FloorExact /\ HorizonJustified
  BY <1>2 DEF FloorExact, FloorOf, HorizonJustified
<1> QED BY <1>4, <1>5, <1>6 DEF IInv

\* Receiving a slice keeps the invariant.
LEMMA ReceiveIInv ==
    ASSUME IInv, ReceiveAny
    PROVE  IInv'
<1> USE DEF IInv
<1>1. PICK s \in SUBSET (Certificate \ store) : Take(s)
  BY DEF ReceiveAny
<1>2. /\ phase = "idle" /\ phase' = "ingest"
      /\ index' = index + 1
      /\ slice' = s /\ todo' = s
      /\ leaderRound' \in Round
      /\ parents' = parents /\ store' = store /\ auf' = auf /\ batches' = batches
      /\ floor' = floor /\ frontier' = frontier
  BY <1>1 DEF Take, ReceiveAny
<1>3. TypeOK'
  BY <1>2 DEF TypeOK
<1>4. IndexFresh'
  BY <1>2 DEF IndexFresh, TypeOK
<1>5. ActiveExact'
  <2>1. DOMAIN auf = UNION {batches[i] : i \in DOMAIN batches}
    BY <1>2 DEF ActiveExact
  <2>2. \A i, j \in DOMAIN batches : i # j => batches[i] \cap batches[j] = {}
    BY DEF ActiveExact
  <2>3. \A i \in DOMAIN batches : batches[i] \subseteq store
    BY DEF TypeOK
  <2>4. DOMAIN auf = (UNION {batches[i] : i \in DOMAIN batches}) \cup (s \ s)
    BY <2>1
  <2>5. \A i \in DOMAIN batches : batches[i] \cap s = {}
    BY <2>3
  <2> QED BY <1>2, <2>2, <2>4, <2>5 DEF ActiveExact
<1>6. FloorExact' /\ HorizonJustified'
  BY <1>2 DEF FloorExact, FloorOf, HorizonJustified, seen_count_at
<1>7. CapApplied' /\ WindowBound'
  BY <1>2 DEF CapApplied, WindowBound
<1> QED BY <1>3, <1>4, <1>5, <1>6, <1>7

\* What SeenBy makes of an AUF state: the evidence only grows, and a horizon
\* that is set was not set before, with 2f+1 authors of the round.
LEMMA SeenByFacts ==
    ASSUME NEW s \in AufState, NEW v \in Certificate
    PROVE  /\ SeenBy(s, v) \in AufState
           /\ s.seen \subseteq SeenBy(s, v).seen
           /\ \/ /\ SeenBy(s, v).horizon = s.horizon
                 /\ SeenBy(s, v).mature = s.mature
              \/ /\ s.horizon = None
                 /\ SeenBy(s, v).horizon = round(v)
                 /\ SeenBy(s, v).mature = TRUE
                 /\ Cardinality(AtRound(SeenBy(s, v).seen, round(v))) >= reach_threshold
<1> DEFINE seen == s.seen \cup {v}
           matures == /\ v \notin s.seen
                      /\ s.horizon = None
                      /\ Cardinality(AtRound(seen, round(v))) >= reach_threshold
<1>1. SeenBy(s, v) = [seen |-> seen,
                      horizon |-> IF matures THEN round(v) ELSE s.horizon,
                      mature |-> s.mature \/ matures]
  BY DEF SeenBy
<1>2. /\ s.seen \subseteq Certificate
      /\ s.horizon \in Round \cup {None}
      /\ s.mature \in BOOLEAN
  BY DEF AufState
<1>3. SeenBy(s, v).seen = seen
  BY <1>1
<1>4. CASE matures
  <2>1. SeenBy(s, v) = [seen |-> seen, horizon |-> round(v), mature |-> TRUE]
    BY <1>1, <1>2, <1>4
  <2>2. SeenBy(s, v) \in AufState
    BY <2>1, <1>2, CertificateFacts DEF AufState
  <2>3. Cardinality(AtRound(SeenBy(s, v).seen, round(v))) >= reach_threshold
    BY <1>3, <1>4
  <2>4. SeenBy(s, v).horizon = round(v) /\ SeenBy(s, v).mature = TRUE
    BY <2>1
  <2> QED BY <1>3, <1>4, <2>2, <2>3, <2>4
<1>5. CASE ~ matures
  <2>1. SeenBy(s, v) = [seen |-> seen, horizon |-> s.horizon, mature |-> s.mature]
    BY <1>1, <1>2, <1>5
  <2>2. SeenBy(s, v) \in AufState
    BY <2>1, <1>2 DEF AufState
  <2> QED BY <2>1, <2>2
<1> QED BY <1>4, <1>5

\* Ingesting a certificate keeps the invariant.
LEMMA AddIInv ==
    ASSUME IInv, NEW v \in todo, AddCertificate(v)
    PROVE  IInv'
<1> USE DEF IInv
<1> DEFINE isNew == v \notin DOMAIN auf
           active == DOMAIN auf \cup {v}
           low == IF isNew /\ (floor = None \/ round(v) < floor) THEN round(v)
                  ELSE floor
           entry(u) == IF u \in DOMAIN auf THEN auf[u]
                       ELSE [seen |-> {}, horizon |-> None, mature |-> FALSE]
           walked == VisitedFrom(v, store \cup {v}, low)
<1>1. /\ phase = "ingest"
      /\ frontier' = IF round(v) > frontier THEN round(v) ELSE frontier
      /\ store' = store \cup {v}
      /\ floor' = low
      /\ auf' = [u \in active |-> IF u \in walked THEN SeenBy(entry(u), v) ELSE entry(u)]
      /\ todo' = todo \ {v}
      /\ parents' = parents /\ phase' = phase /\ index' = index
      /\ leaderRound' = leaderRound /\ slice' = slice /\ batches' = batches
  BY DEF AddCertificate
<1> HIDE DEF walked
<1>2. v \in Certificate /\ v \in slice /\ todo \subseteq slice
  BY DEF TypeOK
<1>3. DOMAIN auf' = active
  BY <1>1
<1>4. /\ frontier \in Nat /\ frontier' \in Round /\ frontier <= frontier'
      /\ round(v) <= frontier' /\ frontier' \in Nat
  BY <1>1, <1>2, CertificateFacts, MaxRoundAssumption DEF TypeOK, Round
<1>5. \A u \in active : u \in Certificate /\ entry(u) \in AufState
  <2>1. \A u \in DOMAIN auf : u \in Certificate /\ auf[u] \in AufState
    BY DEF TypeOK
  <2>2. [seen |-> {}, horizon |-> None, mature |-> FALSE] \in AufState
    BY DEF AufState
  <2> QED BY <2>1, <2>2, <1>2
<1>6. ASSUME NEW u \in active
      PROVE  /\ auf'[u] \in AufState
             /\ entry(u).seen \subseteq auf'[u].seen
             /\ \/ /\ auf'[u].horizon = entry(u).horizon
                   /\ auf'[u].mature = entry(u).mature
                \/ /\ entry(u).horizon = None
                   /\ auf'[u].horizon = round(v)
                   /\ auf'[u].mature = TRUE
                   /\ Cardinality(AtRound(auf'[u].seen, round(v))) >= reach_threshold
  <2>1. CASE u \in walked
    <3>1. auf'[u] = SeenBy(entry(u), v)
      BY <1>1, <2>1
    <3>2. entry(u) \in AufState
      BY <1>5
    <3> DEFINE e == entry(u)
    <3> HIDE DEF entry, e
    <3>3. /\ SeenBy(e, v) \in AufState
          /\ e.seen \subseteq SeenBy(e, v).seen
          /\ \/ /\ SeenBy(e, v).horizon = e.horizon
                /\ SeenBy(e, v).mature = e.mature
             \/ /\ e.horizon = None
                /\ SeenBy(e, v).horizon = round(v)
                /\ SeenBy(e, v).mature = TRUE
                /\ Cardinality(AtRound(SeenBy(e, v).seen, round(v))) >= reach_threshold
      BY <1>2, <3>2, SeenByFacts DEF e
    <3> QED BY <3>1, <3>3 DEF e
  <2>2. CASE u \notin walked
    BY <1>1, <1>5, <2>2
  <2> QED BY <2>1, <2>2
<1>7. TypeOK'
  <2>1. floor' \in Round \cup {None}
    BY <1>1, <1>2, CertificateFacts DEF TypeOK
  <2>2. auf' \in [DOMAIN auf' -> AufState]
    BY <1>1, <1>3, <1>6
  <2>3. batches' \in [DOMAIN batches' -> SUBSET store']
    BY <1>1 DEF TypeOK
  <2> QED BY <1>1, <1>2, <1>3, <1>4, <2>1, <2>2, <2>3 DEF TypeOK
<1>8. IndexFresh'
  BY <1>1 DEF IndexFresh
<1>9. ActiveExact'
  <2>1. /\ DOMAIN auf = (UNION {batches[i] : i \in DOMAIN batches}) \cup (slice \ todo)
        /\ \A i, j \in DOMAIN batches : i # j => batches[i] \cap batches[j] = {}
        /\ \A i \in DOMAIN batches : batches[i] \cap slice = {}
    BY <1>1 DEF ActiveExact
  <2>2. (slice \ todo) \cup {v} = slice \ (todo \ {v})
    BY <1>2
  <2>3. active = (UNION {batches[i] : i \in DOMAIN batches}) \cup (slice \ (todo \ {v}))
    BY <2>1, <2>2
  <2> QED BY <1>1, <1>3, <2>1, <2>3 DEF ActiveExact
<1>10. FloorExact'
  <2> DEFINE R == {round(u) : u \in DOMAIN auf}
             Q == {round(u) : u \in active}
  <2>1. R \subseteq Nat /\ Q \subseteq Nat /\ Q = R \cup {round(v)}
    BY <1>5, CertificateFacts
  <2>2. low \in Q /\ \A y \in Q : low <= y
    <3>1. CASE DOMAIN auf = {}
      <4>1. floor = None /\ R = {}
        BY <3>1 DEF FloorExact, FloorOf
      <4> QED BY <3>1, <4>1, <2>1
    <3>2. CASE DOMAIN auf # {}
      <4>1. floor = Min(R) /\ R # {}
        BY <3>2 DEF FloorExact, FloorOf
      <4>2. floor \in R /\ \A y \in R : floor <= y
        <5> HIDE DEF R
        <5> QED BY <4>1, <2>1, MinOfNaturals
      <4>3. floor \in Nat /\ floor # None
        BY <4>2, <2>1 DEF None
      <4>4. CASE isNew /\ round(v) < floor
        BY <4>2, <4>3, <4>4, <2>1
      <4>5. CASE ~ isNew
        <5>1. round(v) \in R
          BY <4>5
        <5> QED BY <4>2, <4>3, <4>5, <5>1, <2>1
      <4>6. CASE isNew /\ ~ (round(v) < floor)
        BY <4>2, <4>3, <4>6, <2>1
      <4> QED BY <4>4, <4>5, <4>6
    <3> QED BY <3>1, <3>2
  <2>3. Min(Q) = low
    <3> HIDE DEF Q, low
    <3> QED BY <2>1, <2>2, MinIsUnique
  <2> QED BY <2>3, <1>1, <1>3 DEF FloorExact, FloorOf
<1>11. HorizonJustified'
  <2> SUFFICES ASSUME NEW u \in active
               PROVE  /\ auf'[u].horizon <= frontier'
                      /\ auf'[u].mature =>
                           /\ auf'[u].horizon # None
                           /\ Cardinality(AtRound(auf'[u].seen, auf'[u].horizon))
                                 >= reach_threshold
                      /\ (~ auf'[u].mature /\ auf'[u].horizon # None) =>
                           auf'[u].horizon = round(u) + WindowCap
    BY <1>3 DEF HorizonJustified, seen_count_at
  <2>1. CASE entry(u).horizon = None /\ auf'[u].horizon = round(v)
             /\ auf'[u].mature = TRUE
             /\ Cardinality(AtRound(auf'[u].seen, round(v))) >= reach_threshold
    BY <2>1, <1>2, <1>4, CertificateFacts DEF None
  <2>2. CASE auf'[u].horizon = entry(u).horizon /\ auf'[u].mature = entry(u).mature
    <3>1. CASE u \notin DOMAIN auf
      BY <2>2, <3>1, <1>4 DEF None
    <3>2. CASE u \in DOMAIN auf
      <4>1. /\ auf[u].horizon <= frontier
            /\ auf[u].mature => /\ auf[u].horizon # None
                                /\ Cardinality(AtRound(auf[u].seen, auf[u].horizon))
                                      >= reach_threshold
            /\ (~ auf[u].mature /\ auf[u].horizon # None) =>
                  auf[u].horizon = round(u) + WindowCap
        BY <3>2 DEF HorizonJustified, seen_count_at
      <4>2. entry(u) = auf[u] /\ auf[u] \in AufState /\ auf'[u] \in AufState
        BY <3>2, <1>5, <1>6
      <4>3. auf[u].horizon \in Int
        BY <4>2 DEF AufState, Round, None
      <4>4. Cardinality(AtRound(auf[u].seen, auf[u].horizon))
               <= Cardinality(AtRound(auf'[u].seen, auf[u].horizon))
        <5>1. auf'[u].seen \subseteq Certificate
          BY <4>2 DEF AufState
        <5>2. /\ AtRound(auf'[u].seen, auf[u].horizon) \in SUBSET Certificate
              /\ AtRound(auf[u].seen, auf[u].horizon)
                    \in SUBSET AtRound(auf'[u].seen, auf[u].horizon)
          BY <5>1, <1>6, <4>2 DEF AtRound
        <5> QED BY <5>2, CertificateCount
      <4>5. /\ Cardinality(AtRound(auf[u].seen, auf[u].horizon)) \in Nat
            /\ Cardinality(AtRound(auf'[u].seen, auf[u].horizon)) \in Nat
        <5>1. /\ AtRound(auf'[u].seen, auf[u].horizon) \in SUBSET Certificate
              /\ AtRound(auf[u].seen, auf[u].horizon) \in SUBSET Certificate
          BY <4>2 DEF AtRound, AufState
        <5> QED BY <5>1, CertificateCount
      <4>6. reach_threshold \in Int
        BY NAssumption DEF reach_threshold, f
      <4>7. auf'[u].horizon <= frontier'
        BY <4>1, <4>2, <4>3, <2>2, <1>4
      <4>8. auf'[u].mature => /\ auf'[u].horizon # None
                              /\ Cardinality(AtRound(auf'[u].seen, auf'[u].horizon))
                                    >= reach_threshold
        <5> SUFFICES ASSUME auf'[u].mature
                     PROVE  /\ auf'[u].horizon # None
                            /\ Cardinality(AtRound(auf'[u].seen, auf'[u].horizon))
                                  >= reach_threshold
          OBVIOUS
        <5>1. auf[u].mature /\ auf'[u].horizon = auf[u].horizon
          BY <4>2, <2>2
        <5>2. Cardinality(AtRound(auf[u].seen, auf[u].horizon)) >= reach_threshold
          BY <4>1, <5>1
        <5>3. Cardinality(AtRound(auf'[u].seen, auf[u].horizon)) >= reach_threshold
          BY <4>4, <4>5, <4>6, <5>2
        <5> QED BY <4>1, <5>1, <5>3
      <4> QED BY <4>1, <4>2, <4>7, <4>8, <2>2
    <3> QED BY <3>1, <3>2
  <2> QED BY <2>1, <2>2, <1>6
<1>12. CapApplied' /\ WindowBound'
  BY <1>1 DEF CapApplied, WindowBound
<1> QED BY <1>7, <1>8, <1>9, <1>10, <1>11, <1>12

\* apply_window_cap and the entry of the new batch keep the invariant.
LEMMA EndIngestIInv ==
    ASSUME IInv, EndIngest
    PROVE  IInv'
<1> USE DEF IInv
<1>1. /\ phase = "ingest" /\ todo = {} /\ phase' = "finalize"
      /\ batches' = IF slice = {} THEN batches
                    ELSE [i \in DOMAIN batches \cup {index} |->
                            IF i = index THEN slice ELSE batches[i]]
      /\ auf' = [u \in DOMAIN auf |-> Capped(u, auf[u])]
      /\ parents' = parents /\ index' = index /\ leaderRound' = leaderRound
      /\ slice' = slice /\ todo' = todo /\ store' = store /\ floor' = floor
      /\ frontier' = frontier
  BY DEF EndIngest
<1>2. DOMAIN auf' = DOMAIN auf
  BY <1>1
<1>3. index \notin DOMAIN batches /\ index \in Nat
  BY <1>1 DEF IndexFresh, TypeOK
<1>4. /\ DOMAIN auf = (UNION {batches[i] : i \in DOMAIN batches}) \cup slice
      /\ \A i, j \in DOMAIN batches : i # j => batches[i] \cap batches[j] = {}
      /\ \A i \in DOMAIN batches : batches[i] \cap slice = {}
  BY <1>1 DEF ActiveExact
<1>5. frontier \in Nat /\ frontier <= MaxRound /\ MaxRound \in Nat /\ WindowCap \in Nat
  BY MaxRoundAssumption, WindowCapAssumption DEF TypeOK, Round
<1>6. ASSUME NEW u \in DOMAIN auf
      PROVE  /\ u \in Certificate
             /\ auf[u] \in AufState
             /\ \/ auf'[u] = auf[u] /\ ~ (auf[u].horizon = None /\ frontier >= round(u) + WindowCap)
                \/ /\ auf[u].horizon = None
                   /\ frontier >= round(u) + WindowCap
                   /\ auf'[u] = [seen |-> auf[u].seen,
                                 horizon |-> round(u) + WindowCap,
                                 mature |-> FALSE]
  <2>1. u \in Certificate /\ auf[u] \in AufState
    BY DEF TypeOK
  <2>2. auf'[u] = Capped(u, auf[u])
    BY <1>1
  <2> QED BY <2>1, <2>2 DEF Capped, AufState
<1>7. ASSUME NEW u \in DOMAIN auf
      PROVE  auf'[u] \in AufState
  <2>1. round(u) \in Nat
    BY <1>6, CertificateFacts
  <2>2. CASE auf'[u] = auf[u]
    BY <2>2, <1>6
  <2>3. CASE /\ frontier >= round(u) + WindowCap
             /\ auf'[u] = [seen |-> auf[u].seen, horizon |-> round(u) + WindowCap,
                           mature |-> FALSE]
    <3>1. round(u) + WindowCap \in Round
      <4>1. round(u) + WindowCap \in Nat /\ round(u) + WindowCap <= MaxRound
        BY <2>1, <2>3, <1>5
      <4> QED BY <4>1, <1>5 DEF Round
    <3>2. auf[u].seen \in SUBSET Certificate
      BY <1>6 DEF AufState
    <3> QED BY <2>3, <3>1, <3>2 DEF AufState
  <2> QED BY <1>6, <2>2, <2>3
<1>8. /\ DOMAIN batches' \in SUBSET (1 .. index)
      /\ batches' \in [DOMAIN batches' -> SUBSET store]
      /\ DOMAIN auf = UNION {batches'[i] : i \in DOMAIN batches'}
      /\ \A i, j \in DOMAIN batches' : i # j => batches'[i] \cap batches'[j] = {}
  <2>1. CASE slice = {}
    <3>1. batches' = batches
      BY <1>1, <2>1
    <3>2. DOMAIN auf = UNION {batches[i] : i \in DOMAIN batches}
      BY <1>4, <2>1
    <3> QED BY <3>1, <3>2, <1>4 DEF TypeOK
  <2>2. CASE slice # {}
    <3>1. batches' = [i \in DOMAIN batches \cup {index} |->
                        IF i = index THEN slice ELSE batches[i]]
      BY <1>1, <2>2
    <3>2. DOMAIN batches' = DOMAIN batches \cup {index}
      BY <3>1
    <3>3. batches'[index] = slice /\ \A i \in DOMAIN batches : batches'[i] = batches[i]
      BY <3>1, <1>3
    <3>4. slice \subseteq store /\ \A i \in DOMAIN batches : batches[i] \subseteq store
      BY <1>4 DEF TypeOK
    <3>5. index \in 1 .. index
      BY <1>1, <1>3 DEF IndexFresh
    <3>6. DOMAIN auf = UNION {batches'[i] : i \in DOMAIN batches'}
      BY <3>2, <3>3, <1>4
    <3>7. \A i, j \in DOMAIN batches' : i # j => batches'[i] \cap batches'[j] = {}
      BY <3>2, <3>3, <1>4
    <3> QED BY <3>1, <3>2, <3>3, <3>4, <3>5, <3>6, <3>7 DEF TypeOK
  <2> QED BY <2>1, <2>2
<1>9. TypeOK'
  <2>1. auf' \in [DOMAIN auf' -> AufState]
    BY <1>1, <1>2, <1>7
  <2> QED BY <1>1, <1>2, <1>8, <2>1 DEF TypeOK
<1>10. IndexFresh' /\ ActiveExact'
  BY <1>1, <1>2, <1>8 DEF IndexFresh, ActiveExact
<1>11. FloorExact'
  BY <1>1, <1>2 DEF FloorExact, FloorOf
<1>12. HorizonJustified'
  <2> SUFFICES ASSUME NEW u \in DOMAIN auf
               PROVE  /\ auf'[u].horizon <= frontier
                      /\ auf'[u].mature =>
                           /\ auf'[u].horizon # None
                           /\ Cardinality(AtRound(auf'[u].seen, auf'[u].horizon))
                                 >= reach_threshold
                      /\ (~ auf'[u].mature /\ auf'[u].horizon # None) =>
                           auf'[u].horizon = round(u) + WindowCap
    BY <1>1, <1>2 DEF HorizonJustified, seen_count_at
  <2>1. CASE auf'[u] = auf[u]
    BY <2>1 DEF HorizonJustified, seen_count_at
  <2>2. CASE /\ frontier >= round(u) + WindowCap
             /\ auf'[u] = [seen |-> auf[u].seen, horizon |-> round(u) + WindowCap,
                           mature |-> FALSE]
    BY <2>2, <1>5, <1>6, CertificateFacts
  <2> QED BY <1>6, <2>1, <2>2
<1>13. CapApplied'
  <2> SUFFICES ASSUME NEW u \in DOMAIN auf, auf'[u].horizon = None
               PROVE  frontier < round(u) + WindowCap
    BY <1>1, <1>2 DEF CapApplied
  <2>1. round(u) \in Nat
    BY <1>6, CertificateFacts
  <2>2. CASE auf'[u] = auf[u] /\ ~ (auf[u].horizon = None /\ frontier >= round(u) + WindowCap)
    BY <2>1, <2>2, <1>5
  <2>3. CASE auf'[u] = [seen |-> auf[u].seen, horizon |-> round(u) + WindowCap,
                        mature |-> FALSE]
    BY <2>1, <2>3, <1>5 DEF None
  <2> QED BY <1>6, <2>2, <2>3
<1>14. WindowBound'
  BY <1>1 DEF WindowBound
<1> QED BY <1>9, <1>10, <1>11, <1>12, <1>13, <1>14

\* Releasing the first batch keeps the invariant: its members leave the
\* active set, and the floor is recomputed when one of them was on it.
LEMMA FinalizeBatchIInv ==
    ASSUME IInv, FinalizeBatch
    PROVE  IInv'
<1> USE DEF IInv
<1> DEFINE members == batches[NextBatch]
           active == DOMAIN auf \ members
           atFloor == \E u \in members \cap DOMAIN auf : round(u) = floor
<1>1. /\ phase = "finalize" /\ DOMAIN batches # {}
      /\ batches' = [i \in DOMAIN batches \ {NextBatch} |-> batches[i]]
      /\ auf' = [u \in active |-> auf[u]]
      /\ floor' = IF atFloor THEN FloorOf(active) ELSE floor
      /\ parents' = parents /\ phase' = phase /\ index' = index
      /\ leaderRound' = leaderRound /\ slice' = slice /\ todo' = todo
      /\ store' = store /\ frontier' = frontier
  BY DEF FinalizeBatch, ActiveWithout, FloorWithout
<1>2. NextBatch \in DOMAIN batches
  <2>1. DOMAIN batches \subseteq Nat
    BY DEF TypeOK
  <2> QED BY <1>1, <2>1, MinOfNaturals DEF NextBatch
<1>3. /\ DOMAIN auf = UNION {batches[i] : i \in DOMAIN batches}
      /\ \A i, j \in DOMAIN batches : i # j => batches[i] \cap batches[j] = {}
  BY <1>1 DEF ActiveExact
<1>4. /\ DOMAIN batches' = DOMAIN batches \ {NextBatch}
      /\ \A i \in DOMAIN batches' : batches'[i] = batches[i]
      /\ DOMAIN auf' = active
      /\ \A u \in active : auf'[u] = auf[u]
  BY <1>1
<1> HIDE DEF NextBatch
<1>5. \A u \in DOMAIN auf : u \in Certificate /\ round(u) \in Nat /\ round(u) \in Round
  BY CertificateFacts DEF TypeOK
<1>6. FloorOf(active) \in Round \cup {None}
  <2>1. CASE active = {}
    BY <2>1 DEF FloorOf
  <2>2. CASE active # {}
    <3> DEFINE Q == {round(u) : u \in active}
    <3>1. Q \subseteq Nat /\ Q \subseteq Round /\ Q # {}
      BY <1>5, <2>2
    <3>2. Min(Q) \in Q
      <4> HIDE DEF Q
      <4> QED BY <3>1, MinOfNaturals
    <3> QED BY <2>2, <3>1, <3>2 DEF FloorOf
  <2> QED BY <2>1, <2>2
<1>7. TypeOK'
  <2>1. DOMAIN auf' \in SUBSET store' /\ auf' \in [DOMAIN auf' -> AufState]
    BY <1>1, <1>4 DEF TypeOK
  <2>2. DOMAIN batches' \in SUBSET (1 .. index') /\ batches' \in [DOMAIN batches' -> SUBSET store']
    BY <1>1, <1>4 DEF TypeOK
  <2>3. floor' \in Round \cup {None}
    BY <1>1, <1>6 DEF TypeOK
  <2> QED BY <1>1, <2>1, <2>2, <2>3 DEF TypeOK
<1>8. IndexFresh'
  BY <1>1 DEF IndexFresh
<1>9. ActiveExact'
  <2>1. active = UNION {batches[i] : i \in DOMAIN batches \ {NextBatch}}
    BY <1>2, <1>3
  <2>2. active = UNION {batches'[i] : i \in DOMAIN batches'}
    BY <2>1, <1>4
  <2>3. \A i, j \in DOMAIN batches' : i # j => batches'[i] \cap batches'[j] = {}
    BY <1>3, <1>4
  <2> QED BY <1>1, <1>4, <2>2, <2>3 DEF ActiveExact
<1>10. FloorExact'
  <2>1. CASE atFloor
    BY <2>1, <1>1, <1>4 DEF FloorExact, FloorOf
  <2>2. CASE ~ atFloor
    <3> DEFINE R == {round(u) : u \in DOMAIN auf}
               Q == {round(u) : u \in active}
    <3>1. floor' = floor /\ R \subseteq Nat /\ Q \subseteq R
      BY <2>2, <1>1, <1>5
    <3>2. CASE DOMAIN auf = {}
      BY <3>1, <3>2, <1>4 DEF FloorExact, FloorOf
    <3>3. CASE DOMAIN auf # {}
      <4>1. floor = Min(R) /\ R # {}
        BY <3>3 DEF FloorExact, FloorOf
      <4>2. floor \in R /\ \A y \in R : floor <= y
        <5> HIDE DEF R
        <5> QED BY <4>1, <3>1, MinOfNaturals
      <4>3. PICK w \in DOMAIN auf : round(w) = floor
        BY <4>2
      <4>4. w \in active
        BY <4>3, <2>2
      <4>5. floor \in Q /\ \A y \in Q : floor <= y
        BY <4>2, <4>3, <4>4, <3>1
      <4>6. Min(Q) = floor
        <5> HIDE DEF Q, R
        <5> QED BY <4>5, <3>1, MinIsUnique
      <4> QED BY <3>1, <4>4, <4>6, <1>4 DEF FloorExact, FloorOf
    <3> QED BY <3>2, <3>3
  <2> QED BY <2>1, <2>2
<1>11. HorizonJustified' /\ CapApplied'
  BY <1>1, <1>4 DEF HorizonJustified, CapApplied, seen_count_at
<1>12. WindowBound'
  BY <1>1 DEF WindowBound
<1> QED BY <1>7, <1>8, <1>9, <1>10, <1>11, <1>12

\* When the executor stops waiting on a batch that is not ready, some member
\* of it has no horizon, and that one is inside its window.
LEMMA FinalizeDoneIInv ==
    ASSUME IInv, FinalizeDone
    PROVE  IInv'
<1> USE DEF IInv
<1>1. /\ phase = "finalize" /\ phase' = "idle"
      /\ DOMAIN batches # {} => ~ Ready(batches[NextBatch])
      /\ parents' = parents /\ index' = index /\ leaderRound' = leaderRound
      /\ slice' = slice /\ todo' = todo /\ store' = store /\ auf' = auf
      /\ batches' = batches /\ floor' = floor /\ frontier' = frontier
  BY DEF FinalizeDone
<1>2. TypeOK' /\ IndexFresh' /\ ActiveExact' /\ CapApplied'
  BY <1>1 DEF TypeOK, IndexFresh, ActiveExact, CapApplied
<1>3. FloorExact' /\ HorizonJustified'
  BY <1>1 DEF FloorExact, FloorOf, HorizonJustified, seen_count_at
<1>4. WindowBound'
  <2> SUFFICES ASSUME DOMAIN batches # {}
               PROVE  \E u \in batches[NextBatch] : frontier < round(u) + WindowCap
    BY <1>1 DEF WindowBound, NextBatch
  <2>1. NextBatch \in DOMAIN batches
    <3>1. DOMAIN batches \subseteq Nat
      BY DEF TypeOK
    <3> QED BY <3>1, MinOfNaturals DEF NextBatch
  <2> HIDE DEF NextBatch
  <2>2. batches[NextBatch] \subseteq DOMAIN auf
    BY <2>1, <1>1 DEF ActiveExact
  <2>3. PICK u \in batches[NextBatch] : ~ (/\ u \in DOMAIN auf
                                           /\ auf[u].horizon # None
                                           /\ auf[u].horizon <= frontier)
    BY <1>1 DEF Ready
  <2>4. u \in DOMAIN auf /\ auf[u].horizon <= frontier
    BY <2>2 DEF HorizonJustified
  <2>5. frontier < round(u) + WindowCap
    BY <2>3, <2>4, <1>1 DEF CapApplied
  <2> QED BY <2>5
<1> QED BY <1>2, <1>3, <1>4

\* A failed send stops the executor where it is.
LEMMA SendFailsIInv ==
    ASSUME IInv, SendFails
    PROVE  IInv'
<1> USE DEF IInv
<1>1. /\ phase = "finalize" /\ phase' = "stopped"
      /\ parents' = parents /\ index' = index /\ leaderRound' = leaderRound
      /\ slice' = slice /\ todo' = todo /\ store' = store /\ auf' = auf
      /\ batches' = batches /\ floor' = floor /\ frontier' = frontier
  BY DEF SendFails
<1>2. TypeOK' /\ IndexFresh' /\ ActiveExact' /\ CapApplied' /\ WindowBound'
  BY <1>1 DEF TypeOK, IndexFresh, ActiveExact, CapApplied, WindowBound
<1>3. FloorExact' /\ HorizonJustified'
  BY <1>1 DEF FloorExact, FloorOf, HorizonJustified, seen_count_at
<1> QED BY <1>2, <1>3

\* Every step of the executor keeps the invariant, whatever slice it is given.
LEMMA StepIInv == IInv /\ [NextAny]_vars => IInv'
<1> SUFFICES ASSUME IInv, [NextAny]_vars PROVE IInv'
  OBVIOUS
<1>1. CASE ReceiveAny
  BY <1>1, ReceiveIInv
<1>2. CASE \E v \in todo : AddCertificate(v)
  BY <1>2, AddIInv
<1>3. CASE EndIngest
  BY <1>3, EndIngestIInv
<1>4. CASE FinalizeBatch
  BY <1>4, FinalizeBatchIInv
<1>5. CASE FinalizeDone
  BY <1>5, FinalizeDoneIInv
<1>6. CASE SendFails
  BY <1>6, SendFailsIInv
<1>7. CASE UNCHANGED vars
  BY <1>7 DEF vars, IInv, TypeOK, IndexFresh, ActiveExact, FloorExact, FloorOf,
              HorizonJustified, CapApplied, WindowBound, NextBatch, seen_count_at
<1> QED BY <1>1, <1>2, <1>3, <1>4, <1>5, <1>6, <1>7 DEF NextAny

\* What the walk of a certificate finds, beside itself.
LEMMA AncestryFacts ==
    ASSUME NEW p, NEW S, NEW v, NEW u
    PROVE  u \in Ancestry(p, S, v) <=>
               \/ u = v
               \/ /\ u \in S /\ round(u) < round(v)
                  /\ \E k \in 0 .. round(v) : u \in Layers(p, S, v)[k]
  BY DEF Ancestry

\* What the executor has received is not past the last leader, and nothing
\* of a slice is left over when the next one comes.
UpToLeader ==
    /\ \A w \in store \cup todo : round(w) \in 1 .. leaderRound
    /\ phase # "ingest" => todo = {}

\* The slice of a leader: its history without what was received before,
\* what is cut off and some of what may have been removed.
LEMMA SliceOfLeader ==
    ASSUME IInv, UpToLeader, NEW l \in DOMAIN parents, Receive(l)
    PROVE  /\ phase = "idle" /\ round(l) > leaderRound /\ leaderRound' = round(l)
           /\ l \notin store /\ l \notin Genesis
           /\ \E s \in SUBSET (DOMAIN parents \ store) :
                 /\ Take(s)
                 /\ \A v \in s : round(v) \in 1 .. round(l)
                 /\ \A v \in s : v # l => v \notin CutOff \cup Genesis
<1> DEFINE history == Ancestry(parents, DOMAIN parents \ Genesis, l)
           rest    == history \ store
<1>1. /\ round(l) > leaderRound /\ leaderRound' = round(l)
      /\ \E gone \in SUBSET (rest \cap Removable) :
            rest \cap CutOff \subseteq gone /\ Take(Ancestry(parents, rest \ gone, l))
  BY DEF Receive
<1>2. PICK gone \in SUBSET rest :
          rest \cap CutOff \subseteq gone /\ Take(Ancestry(parents, rest \ gone, l))
  BY <1>1
<1>3. /\ leaderRound \in Nat
      /\ \A x \in DOMAIN parents : round(x) \in Nat /\ (x \notin Genesis => round(x) # 0)
      /\ \A x \in DOMAIN parents : round(x) # 0 => x \notin Genesis
  <2>1. DOMAIN parents \subseteq Certificate /\ leaderRound \in Nat
    BY MaxRoundAssumption DEF IInv, TypeOK, WellFormed, Round
  <2> QED BY <2>1, CertificateFacts DEF Genesis
<1>4. l \notin Genesis /\ l \notin store
  <2>1. l \notin store
    <3>1. \A w \in store : round(w) <= leaderRound /\ round(w) \in Nat
      BY <1>3 DEF UpToLeader
    <3> QED BY <3>1, <1>1, <1>3
  <2>2. round(l) # 0
    BY <1>1, <1>3
  <2> QED BY <2>1, <2>2, <1>3
<1>5. phase = "idle"
  BY <1>2 DEF Take
<1>6. \A x \in rest : /\ x \in DOMAIN parents /\ x \notin Genesis /\ x \notin store
  BY <1>4, AncestryFacts
<1> HIDE DEF rest
<1> DEFINE s == Ancestry(parents, rest \ gone, l)
<1>7. ASSUME NEW x \in s
      PROVE  x = l \/ (x \in rest \ gone /\ round(x) < round(l))
  BY AncestryFacts
<1> HIDE DEF s
<1>8. /\ s \in SUBSET (DOMAIN parents \ store)
      /\ \A v \in s : v # l => v \notin CutOff \cup Genesis
  BY <1>2, <1>4, <1>6, <1>7
<1>9. \A v \in s : round(v) \in 1 .. round(l)
  <2> SUFFICES ASSUME NEW v \in s PROVE round(v) \in 1 .. round(l)
    OBVIOUS
  <2>1. v \in DOMAIN parents /\ v \notin Genesis
    BY <1>4, <1>6, <1>7
  <2>2. round(v) \in Nat /\ round(v) # 0 /\ round(l) \in Nat
    BY <2>1, <1>3
  <2>3. v = l \/ round(v) < round(l)
    BY <1>7
  <2> QED BY <2>2, <2>3
<1>10. Take(s)
  BY <1>2 DEF s
<1> QED BY <1>1, <1>4, <1>5, <1>8, <1>9, <1>10

\* The slice of a leader is a set of certificates that were not received
\* before, so a step of Spec is a step of SpecAny.
LEMMA StepIsAny ==
    ASSUME IInv, UpToLeader, [Next]_vars
    PROVE  [NextAny]_vars /\ UpToLeader'
<1>1. CASE \E l \in DOMAIN parents : Receive(l)
  <2>1. PICK l \in DOMAIN parents : Receive(l)
    BY <1>1
  <2>2. /\ phase = "idle" /\ round(l) > leaderRound /\ leaderRound' = round(l)
        /\ \E s \in SUBSET (DOMAIN parents \ store) :
              Take(s) /\ \A v \in s : round(v) \in 1 .. round(l)
    BY <2>1, SliceOfLeader
  <2>3. PICK s \in SUBSET (DOMAIN parents \ store) :
            Take(s) /\ \A v \in s : round(v) \in 1 .. round(l)
    BY <2>2
  <2>4. /\ DOMAIN parents \subseteq Certificate /\ leaderRound \in Nat
        /\ round(l) \in Round /\ round(l) \in Nat
    <3>1. DOMAIN parents \subseteq Certificate /\ leaderRound \in Nat
      BY MaxRoundAssumption DEF IInv, TypeOK, WellFormed, Round
    <3> QED BY <3>1, CertificateFacts
  <2>5. s \in SUBSET (Certificate \ store)
    BY <2>4
  <2>6. ReceiveAny
    BY <2>2, <2>3, <2>4, <2>5 DEF ReceiveAny
  <2>7. /\ phase' = "ingest" /\ todo' = s /\ store' = store
    BY <2>3 DEF Take
  <2>8. \A w \in store : round(w) \in 1 .. round(l)
    BY <2>2, <2>4 DEF UpToLeader
  <2> QED BY <2>2, <2>3, <2>6, <2>7, <2>8 DEF NextAny, UpToLeader
<1>2. CASE \E v \in todo : AddCertificate(v)
  <2>1. PICK v \in todo : AddCertificate(v)
    BY <1>2
  <2>2. /\ phase = "ingest" /\ phase' = phase /\ leaderRound' = leaderRound
        /\ store' \cup todo' = store \cup todo
    BY <2>1 DEF AddCertificate
  <2> QED BY <1>2, <2>2 DEF NextAny, UpToLeader
<1>3. CASE EndIngest \/ FinalizeBatch \/ FinalizeDone \/ SendFails
  <2>1. /\ UNCHANGED <<leaderRound, store, todo>>
        /\ todo = {} \/ phase # "ingest"
    BY <1>3 DEF EndIngest, FinalizeBatch, FinalizeDone, SendFails
  <2> QED BY <1>3, <2>1 DEF NextAny, UpToLeader
<1>4. CASE UNCHANGED vars
  BY <1>4 DEF vars, UpToLeader
<1> QED BY <1>1, <1>2, <1>3, <1>4 DEF Next

-----------------------------------------------------------------------------
(***************************************************************************)
(* The theorems.                                                           *)
(***************************************************************************)

\* Whatever slices the consensus outputs, as long as it commits nothing
\* twice, the bookkeeping of the executor is consistent.
THEOREM SafetyForAnySlices == SpecAny => []IInv
<1>1. Init => IInv
  BY InitIInv
<1>2. IInv /\ [NextAny]_vars => IInv'
  BY StepIInv
<1> QED BY <1>1, <1>2, PTL DEF SpecAny

\* The slices of the leaders are such slices, and come round by round.
LEMMA SpecInvariant == Spec => [](IInv /\ UpToLeader)
<1>1. Init => IInv /\ UpToLeader
  BY InitIInv DEF Init, UpToLeader
<1>2. IInv /\ UpToLeader /\ [Next]_vars => IInv' /\ UpToLeader'
  BY StepIsAny, StepIInv
<1> QED BY <1>1, <1>2, PTL DEF Spec

\* The same bookkeeping for the slices of the leaders of the consensus.
THEOREM SafetyInvariant == Spec => []IInv
  BY SpecInvariant, PTL

\* Type correctness of the executor.
THEOREM TypeCorrect == Spec => []TypeOK
<1>1. IInv => TypeOK
  BY DEF IInv
<1> QED BY <1>1, SafetyInvariant, PTL

\* The floor that release_batch and on_committed_batch maintain piecemeal
\* is always the lowest active round.
THEOREM FloorIsExact == Spec => []FloorExact
<1>1. IInv => FloorExact
  BY DEF IInv
<1> QED BY <1>1, SafetyInvariant, PTL

\* The active certificates are those that wait in one batch (or are being
\* ingested): no batch waits for a certificate that the executor forgot.
THEOREM ActiveIsExact == Spec => []ActiveExact
<1>1. IInv => ActiveExact
  BY DEF IInv
<1> QED BY <1>1, SafetyInvariant, PTL

\* Every horizon is the round of a 2f+1 sighting or exactly the cap.
THEOREM HorizonsAreJustified == Spec => []HorizonJustified
<1>1. IInv => HorizonJustified
  BY DEF IInv
<1> QED BY <1>1, SafetyInvariant, PTL

\* The executor never waits past the window: whatever the evidence, the
\* first batch is released once the frontier is WindowCap past its members.
THEOREM DelayIsBounded == Spec => []WindowBound
<1>1. IInv => WindowBound
  BY DEF IInv
<1> QED BY <1>1, SafetyInvariant, PTL

-----------------------------------------------------------------------------
(***************************************************************************)
(* The evidence.                                                           *)
(***************************************************************************)

\* Walks through two sets that have the same certificates from a round on
\* find the same down to that round.
LEMMA LayersAgree ==
    ASSUME NEW p, WellFormed(p), NEW S, S \subseteq DOMAIN p, NEW T, T \subseteq DOMAIN p,
           NEW v \in DOMAIN p, NEW b \in Nat,
           \A u \in DOMAIN p : round(u) >= b => (u \in S <=> u \in T)
    PROVE  \A k \in 0 .. round(v) : k + b <= round(v) => Layers(p, S, v)[k] = Layers(p, T, v)[k]
<1> DEFINE L == Layers(p, S, v)
           G == Layers(p, T, v)
           Good == {k \in Nat : k <= round(v) /\ k + b <= round(v) => L[k] = G[k]}
<1>0. v \in Certificate /\ round(v) \in Nat
  BY ParentFacts, CertificateFacts
<1>1. /\ L[0] = {v} /\ G[0] = {v}
      /\ \A k \in 1 .. round(v) : /\ L[k] = S \cap UNION {p[w] : w \in L[k - 1]}
                                  /\ G[k] = T \cap UNION {p[w] : w \in G[k - 1]}
  BY <1>0, LayersStep
<1>2. /\ \A k \in 0 .. round(v) : /\ L[k] \subseteq S \cup {v}
                                  /\ \A w \in L[k] : round(w) = round(v) - k
      /\ \A k \in 0 .. round(v) : /\ G[k] \subseteq T \cup {v}
                                  /\ \A w \in G[k] : round(w) = round(v) - k
  <2>1. ASSUME NEW k \in 0 .. round(v), NEW w \in Layers(p, S, v)[k]
        PROVE  w \in S \cup {v} /\ round(w) = round(v) - k
    BY LayerFacts
  <2>2. ASSUME NEW k \in 0 .. round(v), NEW w \in Layers(p, T, v)[k]
        PROVE  w \in T \cup {v} /\ round(w) = round(v) - k
    BY LayerFacts
  <2> QED BY <2>1, <2>2
<1> HIDE DEF L, G
<1>3. 0 \in Good
  BY <1>1
<1>4. ASSUME NEW k \in Good PROVE k + 1 \in Good
  <2> SUFFICES ASSUME k + 1 <= round(v), (k + 1) + b <= round(v) PROVE L[k + 1] = G[k + 1]
    OBVIOUS
  <2>1. k + 1 \in 1 .. round(v) /\ (k + 1) - 1 = k /\ k + b <= round(v) /\ k <= round(v)
        /\ k + 1 \in 0 .. round(v)
    BY <1>0
  <2>2. /\ L[k] = G[k]
        /\ L[k + 1] = S \cap UNION {p[w] : w \in L[k]}
        /\ G[k + 1] = T \cap UNION {p[w] : w \in G[k]}
    BY <1>1, <2>1
  <2>3. \A u \in L[k + 1] : u \in T
    BY <1>0, <1>2, <2>1, <2>2
  <2>4. \A u \in G[k + 1] : u \in S
    BY <1>0, <1>2, <2>1, <2>2
  <2> QED BY <2>2, <2>3, <2>4
<1>5. \A k \in Nat : k \in Good
  <2> Good \in SUBSET Nat
    OBVIOUS
  <2> HIDE DEF Good
  <2> QED BY <1>3, <1>4, NatSetInduction
<1> QED BY <1>0, <1>5 DEF L, G

\* The walk of update_seen_for_new_certificate stops at the floor: it finds
\* all there is to find from the floor up.
LEMMA WalkFromFloor ==
    ASSUME NEW p, WellFormed(p), NEW S, S \subseteq DOMAIN p, NEW v \in DOMAIN p,
           NEW b \in Nat, NEW u \in DOMAIN p, round(u) >= b
    PROVE  u \in Ancestry(p, S, v) <=> u \in Ancestry(p, {w \in S : round(w) >= b}, v)
<1> DEFINE C == {w \in S : round(w) >= b}
<1>1. u \in S <=> u \in C
  OBVIOUS
<1>2. /\ C \subseteq DOMAIN p /\ \A x \in DOMAIN p : round(x) >= b => (x \in S <=> x \in C)
      /\ v \in Certificate /\ round(v) \in Nat /\ round(u) \in Nat
  BY ParentFacts, CertificateFacts
<1> HIDE DEF C
<1>3. \A k \in 0 .. round(v) :
          k + b <= round(v) => Layers(p, S, v)[k] = Layers(p, C, v)[k]
  BY <1>2, LayersAgree
<1>4. \A k \in 0 .. round(v) :
          (u \in Layers(p, S, v)[k] \/ u \in Layers(p, C, v)[k]) => round(u) = round(v) - k
  <2>1. C \subseteq DOMAIN p
    BY <1>2
  <2>2. ASSUME NEW k \in 0 .. round(v), NEW x \in Layers(p, S, v)[k]
        PROVE  round(x) = round(v) - k
    BY LayerFacts
  <2>3. ASSUME NEW k \in 0 .. round(v), NEW x \in Layers(p, C, v)[k]
        PROVE  round(x) = round(v) - k
    BY <2>1, LayerFacts
  <2> QED BY <2>2, <2>3
<1>5. \A k \in 0 .. round(v) : u \in Layers(p, S, v)[k] <=> u \in Layers(p, C, v)[k]
  <2> SUFFICES ASSUME NEW k \in 0 .. round(v),
                      u \in Layers(p, S, v)[k] \/ u \in Layers(p, C, v)[k]
               PROVE  Layers(p, S, v)[k] = Layers(p, C, v)[k]
    OBVIOUS
  <2>1. round(u) = round(v) - k
    BY <1>4
  <2>2. k + b <= round(v)
    BY <2>1, <1>2
  <2> QED BY <2>2, <1>3
<1>6. u \in Ancestry(p, S, v) <=> u \in Ancestry(p, C, v)
  BY <1>1, <1>5, AncestryFacts
<1> QED BY <1>6 DEF C

\* What is no parent of the certificates received does not lengthen their walks.
LEMMA WalkKept ==
    ASSUME NEW p, WellFormed(p), NEW S, S \subseteq DOMAIN p, NEW v \in DOMAIN p,
           \A x \in S : v \notin p[x], NEW w \in S
    PROVE  Ancestry(p, S \cup {v}, w) = Ancestry(p, S, w)
<1> DEFINE T == S \cup {v}
           L == Layers(p, S, w)
           G == Layers(p, T, w)
           Good == {k \in Nat : k <= round(w) => L[k] = G[k] /\ L[k] \subseteq S}
<1>0. w \in Certificate /\ round(w) \in Nat /\ w \in DOMAIN p
  BY ParentFacts, CertificateFacts
<1>1. /\ L[0] = {w} /\ G[0] = {w}
      /\ \A k \in 1 .. round(w) : /\ L[k] = S \cap UNION {p[x] : x \in L[k - 1]}
                                  /\ G[k] = T \cap UNION {p[x] : x \in G[k - 1]}
  <2> HIDE DEF T
  <2> QED BY <1>0, LayersStep
<1> HIDE DEF L, G
<1>2. 0 \in Good
  BY <1>1
<1>3. ASSUME NEW k \in Good PROVE k + 1 \in Good
  <2> SUFFICES ASSUME k + 1 <= round(w) PROVE L[k + 1] = G[k + 1] /\ L[k + 1] \subseteq S
    OBVIOUS
  <2>1. k + 1 \in 1 .. round(w) /\ (k + 1) - 1 = k /\ k <= round(w)
    BY <1>0
  <2>2. /\ L[k] = G[k] /\ L[k] \subseteq S
        /\ L[k + 1] = S \cap UNION {p[x] : x \in L[k]}
        /\ G[k + 1] = T \cap UNION {p[x] : x \in G[k]}
    BY <1>1, <2>1
  <2>3. v \notin UNION {p[x] : x \in L[k]}
    BY <2>2
  <2> QED BY <2>2, <2>3
<1>4. \A k \in Nat : k \in Good
  <2> Good \in SUBSET Nat
    OBVIOUS
  <2> HIDE DEF Good
  <2> QED BY <1>2, <1>3, NatSetInduction
<1>5. \A k \in 0 .. round(w) : L[k] = G[k] /\ L[k] \subseteq S
  BY <1>0, <1>4
<1>6. ASSUME NEW u PROVE u \in Ancestry(p, T, w) <=> u \in Ancestry(p, S, w)
  <2>1. \A k \in 0 .. round(w) : /\ u \in Layers(p, T, w)[k] <=> u \in Layers(p, S, w)[k]
                                 /\ u \in Layers(p, S, w)[k] => u \in S
    BY <1>5 DEF L, G
  <2>2. u \in S => u \in T
    OBVIOUS
  <2> HIDE DEF T
  <2> QED BY <2>1, <2>2, AncestryFacts
<1> QED BY <1>6

\* Nothing is received after what refers to it.
ParentsFirst ==
    /\ store \cup slice \subseteq DOMAIN parents
    /\ store \cap todo = {}
    /\ \A w \in store : parents[w] \cap todo = {}

\* Receiving a slice of which nothing is a parent of what was received.
LEMMA TakeSeen ==
    ASSUME IInv, ParentsFirst, SeenExact, NEW s \in SUBSET (DOMAIN parents \ store), Take(s),
           \A w \in store : parents[w] \cap s = {}
    PROVE  ParentsFirst' /\ SeenExact'
<1>1. /\ slice' = s /\ todo' = s
      /\ UNCHANGED <<parents, store, auf>>
  BY DEF Take
<1> QED BY <1>1 DEF ParentsFirst, SeenExact

\* Ingesting a certificate: the active ones that its walk finds above the
\* floor are those that it has in its history, and nobody has seen it yet.
LEMMA AddSeen ==
    ASSUME IInv, ParentsFirst, SeenExact, NEW v \in todo, AddCertificate(v)
    PROVE  ParentsFirst' /\ SeenExact'
<1> DEFINE low == IF v \notin DOMAIN auf /\ (floor = None \/ round(v) < floor) THEN round(v)
                  ELSE floor
           entry(u) == IF u \in DOMAIN auf THEN auf[u]
                       ELSE [seen |-> {}, horizon |-> None, mature |-> FALSE]
           S == store \cup {v}
           walked == VisitedFrom(v, S, low)
<1>1. /\ \A u \in todo : round(v) <= round(u)
      /\ store' = S /\ floor' = low
      /\ auf' = [u \in DOMAIN auf \cup {v} |-> IF u \in walked THEN SeenBy(entry(u), v)
                                               ELSE entry(u)]
      /\ todo' = todo \ {v} /\ parents' = parents /\ slice' = slice
  BY DEF AddCertificate
<1> HIDE DEF low, walked
<1>2. /\ WellFormed(parents) /\ store \subseteq DOMAIN parents /\ v \in DOMAIN parents
      /\ v \notin store /\ DOMAIN auf \subseteq store /\ S \subseteq DOMAIN parents
      /\ \A w \in store : v \notin parents[w]
      /\ slice \subseteq DOMAIN parents /\ todo \subseteq slice
  BY DEF ParentsFirst, IInv, TypeOK
<1>3. \A u \in DOMAIN parents : /\ u \in Certificate /\ round(u) \in Nat
                                /\ \A x \in parents[u] : round(x) = round(u) - 1
  BY <1>2, ParentFacts, CertificateFacts
<1>4. ParentsFirst'
  <2>1. parents[v] \cap todo = {}
    <3> SUFFICES ASSUME NEW x \in parents[v], x \in todo PROVE FALSE
      OBVIOUS
    <3>1. round(x) = round(v) - 1 /\ round(v) <= round(x) /\ round(v) \in Nat
      BY <1>1, <1>2, <1>3
    <3> QED BY <3>1
  <2> QED BY <2>1, <1>1, <1>2 DEF ParentsFirst
<1>5. \A u \in DOMAIN auf \cup {v} : round(u) >= low /\ low \in Nat
  <2>1. FloorExact'
    BY AddIInv DEF IInv
  <2>2. low = Min({round(u) : u \in DOMAIN auf \cup {v}})
    <3>1. DOMAIN auf' = DOMAIN auf \cup {v}
      BY <1>1
    <3> QED BY <2>1, <3>1, <1>1 DEF FloorExact, FloorOf
  <2> DEFINE R == {round(u) : u \in DOMAIN auf \cup {v}}
  <2>3. R \subseteq Nat /\ R # {}
    BY <1>2, <1>3
  <2>4. Min(R) \in R /\ \A y \in R : Min(R) <= y
    <3> HIDE DEF R
    <3> QED BY <2>3, MinOfNaturals
  <2>5. \A u \in DOMAIN auf \cup {v} : round(u) \in R /\ round(u) \in Nat
    BY <1>2, <1>3
  <2> HIDE DEF R
  <2>6. low = Min(R)
    BY <2>2 DEF R
  <2> QED BY <2>3, <2>4, <2>5, <2>6
<1>6. ASSUME NEW u \in DOMAIN auf \cup {v}
      PROVE  u \in walked <=> u \in Ancestry(parents, S, v)
  <2>1. /\ u \in DOMAIN parents /\ round(u) >= low /\ low \in Nat
    BY <1>2, <1>5
  <2>2. u \in Ancestry(parents, S, v) <=> u \in Ancestry(parents, {w \in S : round(w) >= low}, v)
    <3> HIDE DEF S
    <3> QED BY <1>2, <2>1, WalkFromFloor
  <2> QED BY <2>1, <2>2 DEF walked, VisitedFrom
<1>7. \A w \in store : Ancestry(parents, S, w) = Ancestry(parents, store, w)
  BY <1>2, WalkKept
<1>8. ASSUME NEW u \in DOMAIN auf \cup {v}
      PROVE  auf'[u].seen = {w \in S : u \in Ancestry(parents, S, w)}
  <2>1. auf'[u].seen = IF u \in Ancestry(parents, S, v) THEN entry(u).seen \cup {v}
                       ELSE entry(u).seen
    <3>1. auf'[u] = IF u \in walked THEN SeenBy(entry(u), v) ELSE entry(u)
      BY <1>1
    <3>2. SeenBy(entry(u), v).seen = entry(u).seen \cup {v}
      BY DEF SeenBy
    <3> HIDE DEF entry, S
    <3> QED BY <3>1, <3>2, <1>6
  <2>2. entry(u).seen = {w \in store : u \in Ancestry(parents, S, w)}
    <3>1. CASE u \in DOMAIN auf
      <4>1. entry(u) = auf[u]
        BY <3>1
      <4>2. auf[u].seen = {w \in store : u \in Ancestry(parents, store, w)}
        BY <3>1 DEF SeenExact
      <4> HIDE DEF entry, S
      <4> QED BY <4>1, <4>2, <1>7
    <3>2. CASE u \notin DOMAIN auf
      <4>1. u = v /\ entry(u).seen = {}
        BY <3>2
      <4>2. \A w \in store : v \notin Ancestry(parents, store, w)
        BY <1>2, AncestryFacts
      <4> HIDE DEF entry, S
      <4> QED BY <4>1, <4>2, <1>7
    <3> QED BY <3>1, <3>2
  <2> HIDE DEF entry
  <2> QED BY <2>1, <2>2
<1>9. SeenExact'
  <2>1. DOMAIN auf' = DOMAIN auf \cup {v}
    BY <1>1
  <2> HIDE DEF S
  <2> QED BY <2>1, <1>1, <1>8 DEF SeenExact
<1> QED BY <1>4, <1>9

\* The other steps receive nothing and change no evidence.
LEMMA OtherSeen ==
    ASSUME IInv, ParentsFirst, SeenExact, EndIngest \/ FinalizeBatch \/ FinalizeDone \/ SendFails
    PROVE  ParentsFirst' /\ SeenExact'
<1>1. UNCHANGED <<parents, store, slice, todo>>
  BY DEF EndIngest, FinalizeBatch, FinalizeDone, SendFails
<1>2. DOMAIN auf' \subseteq DOMAIN auf /\ \A u \in DOMAIN auf' : auf'[u].seen = auf[u].seen
  <2>1. CASE EndIngest
    <3>1. auf' = [u \in DOMAIN auf |-> Capped(u, auf[u])]
      BY <2>1 DEF EndIngest
    <3>2. \A u \in DOMAIN auf : auf[u] \in AufState
      BY DEF IInv, TypeOK
    <3>3. \A u \in DOMAIN auf : Capped(u, auf[u]).seen = auf[u].seen
      BY <3>2 DEF Capped, AufState
    <3> QED BY <3>1, <3>3
  <2>2. CASE FinalizeBatch
    BY <2>2 DEF FinalizeBatch, ActiveWithout
  <2>3. CASE FinalizeDone \/ SendFails
    BY <2>3 DEF FinalizeDone, SendFails
  <2> QED BY <2>1, <2>2, <2>3
<1> QED BY <1>1, <1>2 DEF ParentsFirst, SeenExact

\* Nothing of the slice of a leader is a parent of what was received before.
LEMMA ReceiveSeen ==
    ASSUME IInv, UpToLeader, ParentsFirst, SeenExact, NEW l \in DOMAIN parents, Receive(l)
    PROVE  ParentsFirst' /\ SeenExact'
<1>1. /\ round(l) > leaderRound /\ l \notin store
      /\ \E s \in SUBSET (DOMAIN parents \ store) :
            Take(s) /\ \A v \in s : v # l => v \notin CutOff \cup Genesis
  BY SliceOfLeader
<1>2. PICK s \in SUBSET (DOMAIN parents \ store) :
          Take(s) /\ \A v \in s : v # l => v \notin CutOff \cup Genesis
  BY <1>1
<1>3. ASSUME NEW w \in store PROVE l \notin parents[w]
  <2> SUFFICES ASSUME l \in parents[w] PROVE FALSE
    OBVIOUS
  <2>1. WellFormed(parents) /\ w \in DOMAIN parents /\ leaderRound \in Nat
    BY MaxRoundAssumption DEF IInv, TypeOK, Round, ParentsFirst
  <2>2. round(l) = round(w) - 1 /\ round(w) \in 1 .. leaderRound
    BY <2>1, ParentFacts DEF UpToLeader
  <2> QED BY <2>1, <2>2, <1>1
<1>4. ASSUME NEW w \in store, NEW v \in parents[w] \cap s PROVE FALSE
  <2>1. v # l /\ v \notin store
    BY <1>3
  <2>2. v \notin CutOff \cup Genesis
    BY <1>2, <2>1
  <2> QED BY <2>1, <2>2 DEF CutOff
<1>5. \A w \in store : parents[w] \cap s = {}
  BY <1>4
<1> QED BY <1>2, <1>5, TakeSeen

\* The executor has exactly the evidence that its part of the DAG holds.
SeenInv == ParentsFirst /\ SeenExact

\* Every step keeps it.
LEMMA SeenInvariant == Spec => [](IInv /\ SeenInv)
<1>1. Init => SeenInv
  BY DEF Init, SeenInv, ParentsFirst, SeenExact
<1>2. IInv /\ UpToLeader /\ SeenInv /\ [Next]_vars => SeenInv'
  <2> SUFFICES ASSUME IInv, UpToLeader, SeenInv, [Next]_vars
               PROVE  ParentsFirst' /\ SeenExact'
    BY DEF SeenInv
  <2>1. CASE \E l \in DOMAIN parents : Receive(l)
    BY <2>1, ReceiveSeen DEF SeenInv
  <2>2. CASE \E v \in todo : AddCertificate(v)
    BY <2>2, AddSeen DEF SeenInv
  <2>3. CASE EndIngest \/ FinalizeBatch \/ FinalizeDone \/ SendFails
    BY <2>3, OtherSeen DEF SeenInv
  <2>4. CASE UNCHANGED vars
    BY <2>4 DEF vars, SeenInv, ParentsFirst, SeenExact
  <2> QED BY <2>1, <2>2, <2>3, <2>4 DEF Next
<1> QED BY <1>1, <1>2, SpecInvariant, PTL DEF Spec

\* The floor cuts the visibility walk without a loss: an active certificate
\* was seen by exactly the committed ones that have it in their history.
THEOREM EvidenceIsExact == Spec => []SeenExact
<1>1. SeenInv => SeenExact
  BY DEF SeenInv
<1> QED BY <1>1, SeenInvariant, PTL

-----------------------------------------------------------------------------
(***************************************************************************)
(* Verdicts.                                                               *)
(***************************************************************************)

\* The executor counts authors where the DAG is built on stake: f+1 authors
\* have the stake of the validity threshold.
CountsCarryStake ==
    \A S \in SUBSET Authority : Cardinality(S) >= f + 1 => StakeOf(S) >= validity_threshold

\* That is so when the authorities have equal stakes.
LEMMA EqualStakesCount ==
    ASSUME NEW s \in Nat, \A a \in Authority : Stake[a] = s
    PROVE  CountsCarryStake
<1> DEFINE Good == {n \in Nat : \A t \in SUBSET Authority :
                                    Cardinality(t) = n => StakeOf(t) = n * s}
<1>1. 0 \in Good
  <2>1. \A t \in SUBSET Authority : Cardinality(t) = 0 => t = {}
    BY FS_EmptySet, AuthorityFinite
  <2> QED BY <2>1, StakeRecursion
<1>2. ASSUME NEW n \in Good PROVE n + 1 \in Good
  <2> SUFFICES ASSUME NEW t \in SUBSET Authority, Cardinality(t) = n + 1
               PROVE  StakeOf(t) = (n + 1) * s
    OBVIOUS
  <2>1. PICK x \in t : TRUE
    BY FS_EmptySet
  <2>2. t \ {x} \in SUBSET Authority /\ Cardinality(t \ {x}) = n
    BY FS_RemoveElement, AuthorityFinite
  <2>3. StakeOf(t \ {x}) = n * s
    BY <2>2
  <2>4. StakeOf(t) = s + StakeOf(t \ {x})
    BY <2>1, StakeRemove
  <2>5. n * s + s = (n + 1) * s
    OBVIOUS
  <2> QED BY <2>3, <2>4, <2>5
<1>3. \A n \in Nat : n \in Good
  <2> Good \in SUBSET Nat
    OBVIOUS
  <2> HIDE DEF Good
  <2> QED BY <1>1, <1>2, NatSetInduction
<1>4. \A t \in SUBSET Authority : Cardinality(t) \in Nat /\ StakeOf(t) = Cardinality(t) * s
  BY <1>3, AuthorityFinite, FS_CardinalityType
<1>5. TotalStake = N * s
  <2>1. Cardinality(Authority) = N
    BY FS_Interval, NAssumption DEF Authority
  <2> QED BY <2>1, <1>4 DEF TotalStake
<1> SUFFICES ASSUME NEW t \in SUBSET Authority, Cardinality(t) >= f + 1
             PROVE  StakeOf(t) >= validity_threshold
  BY DEF CountsCarryStake
<1>6. f \in Nat /\ 3 * (f + 1) >= N
  BY NAssumption DEF f
<1>7. Cardinality(t) \in Nat /\ 3 * Cardinality(t) >= N
  <2>1. Cardinality(t) \in Nat /\ Cardinality(t) >= f + 1
    BY <1>4
  <2> QED BY <2>1, <1>6, NAssumption
<1>8. 3 * Cardinality(t) * s >= N * s
  <2> DEFINE d == 3 * Cardinality(t) - N
  <2>1. d \in Nat /\ 3 * Cardinality(t) = N + d
    BY <1>7, NAssumption
  <2>2. d * s \in Nat /\ (N + d) * s = N * s + d * s
    BY <2>1, NAssumption
  <2> HIDE DEF d
  <2> QED BY <2>1, <2>2, NAssumption
<1>9. 3 * StakeOf(t) >= TotalStake /\ StakeOf(t) \in Nat /\ TotalStake \in Nat
  <2>1. 3 * (Cardinality(t) * s) = 3 * Cardinality(t) * s
    BY <1>7
  <2> QED BY <2>1, <1>4, <1>5, <1>8, StakeNatural, Thresholds
<1> QED BY <1>9 DEF validity_threshold, ValidityOf

\* Certificates of one round are as many as their authors.
LEMMA AuthorsOfRound ==
    ASSUME NEW S \in SUBSET Certificate, NEW r, \A w \in S : round(w) = r
    PROVE  /\ {origin(w) : w \in S} \in SUBSET Authority
           /\ Cardinality({origin(w) : w \in S}) = Cardinality(S)
<1> DEFINE O == {origin(w) : w \in S}
           g == [w \in S |-> origin(w)]
<1>1. \A w, x \in S : origin(w) = origin(x) => w = x
  BY DEF Certificate, origin, round
<1>2. g \in Bijection(S, O)
  <2>1. g \in Injection(S, O)
    BY <1>1 DEF Injection, IsInjective
  <2>2. g \in Surjection(S, O)
    BY DEF Surjection
  <2> QED BY <2>1, <2>2 DEF Bijection
<1>3. ExistsBijection(S, O) /\ IsFiniteSet(S)
  BY <1>2, CertificateCount DEF ExistsBijection
<1>4. Cardinality(O) = Cardinality(S)
  <2> HIDE DEF O
  <2> QED BY <1>3, FS_Bijection
<1>5. O \in SUBSET Authority
  BY CertificateFacts
<1> QED BY <1>4, <1>5

\* What is in the history of a parent is in that of its child.
LEMMA HistoryOfParent ==
    ASSUME NEW p, WellFormed(p), NEW w \in DOMAIN p, NEW x \in p[w],
           NEW u \in Ancestry(p, DOMAIN p, x)
    PROVE  u \in Ancestry(p, DOMAIN p, w)
<1>0. /\ x \in DOMAIN p /\ x \in Certificate /\ w \in Certificate
      /\ round(x) \in Nat /\ round(w) \in Nat /\ round(x) = round(w) - 1
  BY ParentFacts, CertificateFacts
<1>1. PICK k \in 0 .. round(x) : u \in Layers(p, DOMAIN p, x)[k]
  <2>1. CASE u = x
    <3>1. Layers(p, DOMAIN p, x)[0] = {x} /\ 0 \in 0 .. round(x)
      BY <1>0, LayersStep
    <3> QED BY <2>1, <3>1
  <2>2. CASE u # x
    BY <2>2, AncestryFacts
  <2> QED BY <2>1, <2>2
<1>2. u \in Layers(p, DOMAIN p, w)[k + 1] /\ k + 1 \in 0 .. round(w)
  <2>1. x \in p[w] \cap DOMAIN p
    BY <1>0
  <2>2. Layers(p, DOMAIN p, x)[k] \subseteq Layers(p, DOMAIN p, w)[k + 1]
    BY <2>1, LayersOfParent
  <2> QED BY <2>2, <1>0, <1>1
<1>3. u \in DOMAIN p /\ round(u) <= round(x)
  <2>1. CASE u = x
    BY <1>0, <2>1
  <2>2. CASE u # x
    <3>1. u \in DOMAIN p /\ round(u) < round(x)
      BY <2>2, AncestryFacts
    <3>2. round(u) \in Nat
      BY <3>1, ParentFacts, CertificateFacts
    <3> QED BY <3>1, <3>2, <1>0
  <2> QED BY <2>1, <2>2
<1>4. round(u) < round(w)
  <2>1. round(u) \in Nat
    BY <1>3, ParentFacts, CertificateFacts
  <2> QED BY <2>1, <1>0, <1>3
<1> QED BY <1>2, <1>3, <1>4, AncestryFacts

\* The certificates of round r of the DAG that have u in their history.
Seers(p, u, r) == {w \in AtRound(DOMAIN p, r) : u \in Ancestry(p, DOMAIN p, w)}

\* Once f+1 stake of a round has seen a certificate everybody sees it: the
\* parents of every certificate of the next round meet it.
LEMMA SeenByMany ==
    ASSUME NEW p, WellFormed(p), NEW u, NEW r \in Nat,
           StakeOf({origin(w) : w \in Seers(p, u, r)}) >= validity_threshold,
           NEW w \in DOMAIN p, round(w) > r
    PROVE  u \in Ancestry(p, DOMAIN p, w)
<1> DEFINE Good == {k \in Nat : \A x \in DOMAIN p :
                        round(x) = r + 1 + k => u \in Ancestry(p, DOMAIN p, x)}
<1>0. \A x \in DOMAIN p : x \in Certificate /\ round(x) \in Nat /\ origin(x) \in Authority
  BY ParentFacts, CertificateFacts
<1>1. \A x \in DOMAIN p : \A y \in p[x] : y \in DOMAIN p /\ round(y) = round(x) - 1
  BY ParentFacts
<1>2. 0 \in Good
  <2> SUFFICES ASSUME NEW x \in DOMAIN p, round(x) = r + 1 PROVE u \in Ancestry(p, DOMAIN p, x)
    OBVIOUS
  <2> DEFINE F == {origin(y) : y \in Seers(p, u, r)}
             Q == {origin(y) : y \in p[x]}
  <2>1. F \in SUBSET Authority /\ StakeOf(F) >= validity_threshold
    BY <1>0 DEF Seers, AtRound
  <2>2. Q \in SUBSET Authority /\ StakeOf(Q) >= quorum_threshold
    <3>1. ValidParents(p, x)
      BY <1>0, ParentFacts
    <3> QED BY <3>1, <1>0, <1>1 DEF ValidParents
  <2>3. PICK a : a \in Q \cap F
    <3> HIDE DEF Q, F
    <3> QED BY <2>1, <2>2, QuorumMeetsValidity
  <2>4. PICK y \in Seers(p, u, r) : origin(y) = a
    BY <2>3
  <2>5. PICK z \in p[x] : origin(z) = a
    BY <2>3
  <2>6. y = z
    <3>1. y \in Certificate /\ z \in Certificate /\ round(y) = r /\ round(z) = r
      BY <1>0, <1>1, <2>4, <2>5 DEF Seers, AtRound
    <3> QED BY <3>1, <2>4, <2>5 DEF Certificate, origin, round
  <2>7. u \in Ancestry(p, DOMAIN p, z)
    BY <2>4, <2>6 DEF Seers
  <2> QED BY <2>5, <2>7, HistoryOfParent
<1>3. ASSUME NEW k \in Good PROVE k + 1 \in Good
  <2> SUFFICES ASSUME NEW x \in DOMAIN p, round(x) = r + 1 + (k + 1)
               PROVE  u \in Ancestry(p, DOMAIN p, x)
    OBVIOUS
  <2>1. PICK y : y \in p[x]
    <3>1. ValidParents(p, x)
      BY <1>0, ParentFacts
    <3> QED BY <3>1 DEF ValidParents
  <2>2. y \in DOMAIN p /\ round(y) = r + 1 + k
    BY <2>1, <1>0, <1>1
  <2>3. u \in Ancestry(p, DOMAIN p, y)
    BY <2>2
  <2> QED BY <2>1, <2>3, HistoryOfParent
<1>4. \A k \in Nat : k \in Good
  <2> Good \in SUBSET Nat
    OBVIOUS
  <2> HIDE DEF Good
  <2> QED BY <1>2, <1>3, NatSetInduction
<1>5. (round(w) - r) - 1 \in Nat /\ round(w) = r + 1 + ((round(w) - r) - 1)
  BY <1>0
<1> QED BY <1>4, <1>5

\* Where nothing is cut off from the round of an active certificate up, a walk
\* to it through what the executor has received is a walk through the whole DAG.
LEMMA EvidenceOfDag ==
    ASSUME IInv, SeenInv, NEW u \in DOMAIN auf, \A x \in CutOff : round(x) < round(u)
    PROVE  /\ u \in DOMAIN parents /\ store \subseteq DOMAIN parents
           /\ \A r : AtRound(auf[u].seen, r) = Seers(parents, u, r) \cap AtRound(store, r)
<1>1. /\ WellFormed(parents) /\ store \subseteq DOMAIN parents /\ u \in store
      /\ \A w \in store : round(w) \in Nat /\ w \in Certificate
      /\ \A w \in store : \A x \in parents[w] : round(x) >= round(u) => x \in store
  <2>1. WellFormed(parents) /\ store \subseteq DOMAIN parents /\ u \in store
    BY DEF IInv, TypeOK, SeenInv, ParentsFirst
  <2>2. \A w \in store : round(w) \in Nat /\ w \in Certificate
    BY <2>1, ParentFacts, CertificateFacts
  <2>3. ASSUME NEW w \in store, NEW x \in parents[w], round(x) >= round(u) PROVE x \in store
    <3>1. x \in DOMAIN parents /\ round(u) \in Nat
      BY <2>1, <2>2, ParentFacts
    <3>2. round(x) \in Nat
      BY <3>1, <2>1, ParentFacts, CertificateFacts
    <3>3. x \notin CutOff
      BY <2>3, <3>1, <3>2
    <3> QED BY <3>3 DEF CutOff
  <2> QED BY <2>1, <2>2, <2>3
<1>2. ASSUME NEW w \in store
      PROVE  u \in Ancestry(parents, store, w) <=> u \in Ancestry(parents, DOMAIN parents, w)
  <2> DEFINE below == round(u) - 1
  <2>1. /\ below \in Int /\ round(u) \in Nat
        /\ \A x \in store : \A y \in parents[x] : round(y) > below => y \in store
    <3>1. round(u) \in Nat
      BY <1>1
    <3>2. \A x \in store : \A y \in parents[x] : round(y) \in Nat
      BY <1>1, ParentFacts, CertificateFacts
    <3> QED BY <3>1, <3>2, <1>1
  <2> HIDE DEF below
  <2>2. \A k \in 0 .. round(w) : k + below < round(w) =>
            Layers(parents, store, w)[k] = Layers(parents, DOMAIN parents, w)[k]
    <3>1. below \in Int /\ WellFormed(parents) /\ store \subseteq DOMAIN parents
      BY <1>1, <2>1
    <3>2. \A x \in store : \A y \in parents[x] : round(y) > below => y \in store
      BY <2>1
    <3>3. ASSUME NEW d, d = store PROVE \A k \in 0 .. round(w) :
              k + below < round(w) => Layers(parents, d, w)[k] = Layers(parents, DOMAIN parents, w)[k]
      <4>1. /\ d \subseteq DOMAIN parents /\ w \in d
            /\ \A x \in d : \A y \in parents[x] : round(y) > below => y \in d
        BY <3>1, <3>2, <3>3
      <4> QED BY <3>1, <4>1, LayersSame
    <3> QED BY <3>3
  <2>3. ASSUME NEW k \in 0 .. round(w), \/ u \in Layers(parents, store, w)[k]
                                        \/ u \in Layers(parents, DOMAIN parents, w)[k]
        PROVE  k + below < round(w)
    <3>1. w \in DOMAIN parents /\ DOMAIN parents \subseteq DOMAIN parents
      BY <1>1
    <3>2. round(u) = round(w) - k
      BY <1>1, <2>3, <3>1, LayerFacts
    <3> QED BY <3>2, <1>1, <2>1 DEF below
  <2>4. \A k \in 0 .. round(w) : u \in Layers(parents, store, w)[k]
                                     <=> u \in Layers(parents, DOMAIN parents, w)[k]
    BY <2>2, <2>3
  <2> QED BY <1>1, <2>4, AncestryFacts
<1>3. auf[u].seen = {w \in store : u \in Ancestry(parents, store, w)}
  BY DEF SeenInv, SeenExact
<1> QED BY <1>1, <1>2, <1>3 DEF Seers, AtRound

\* The executor has a quorum of every round that is before one of which it has
\* a certificate, if nothing is cut off from that round up.
LEMMA QuorumReceived ==
    ASSUME IInv, SeenInv, CountsCarryStake, NEW r \in Nat \ {0},
           NEW v \in store, round(v) > r, \A x \in CutOff : round(x) < r
    PROVE  /\ Cardinality(AtRound(store, r)) \in Nat
           /\ Cardinality(AtRound(store, r)) + f >= N
<1> DEFINE Good == {k \in Nat : r + 1 + k <= round(v) =>
                        \E x \in store : round(x) = round(v) - k}
<1>1. /\ WellFormed(parents) /\ store \subseteq DOMAIN parents
      /\ \A x \in store : parents[x] \subseteq store \cup CutOff
  BY DEF IInv, TypeOK, SeenInv, ParentsFirst, CutOff
<1>2. ASSUME NEW x \in store, round(x) > r
      PROVE  /\ \A y \in parents[x] : y \in store /\ round(y) = round(x) - 1
             /\ ValidParents(parents, x)
  <2>1. \A y \in parents[x] : round(y) = round(x) - 1
    BY <1>1, ParentFacts
  <2>2. x \in Certificate /\ round(x) \in Nat
    BY <1>1, ParentFacts, CertificateFacts
  <2>3. \A y \in parents[x] : y \notin CutOff
    BY <2>1, <2>2, <1>2
  <2> QED BY <1>1, <1>2, <2>1, <2>2, <2>3, ParentFacts
<1>3. 0 \in Good
  <2>1. round(v) \in Nat
    BY <1>1, ParentFacts, CertificateFacts
  <2> QED BY <2>1
<1>4. ASSUME NEW k \in Good PROVE k + 1 \in Good
  <2> SUFFICES ASSUME r + 1 + (k + 1) <= round(v)
               PROVE  \E x \in store : round(x) = round(v) - (k + 1)
    OBVIOUS
  <2>1. round(v) \in Nat
    BY <1>1, ParentFacts, CertificateFacts
  <2>2. PICK x \in store : round(x) = round(v) - k
    BY <2>1
  <2>3. PICK y : y \in parents[x]
    <3>1. ValidParents(parents, x)
      BY <1>2, <2>1, <2>2
    <3> QED BY <3>1 DEF ValidParents
  <2>4. y \in store /\ round(y) = round(x) - 1
    BY <1>2, <2>1, <2>2, <2>3
  <2> QED BY <2>1, <2>2, <2>4
<1>5. \A k \in Nat : k \in Good
  <2> Good \in SUBSET Nat
    OBVIOUS
  <2> HIDE DEF Good
  <2> QED BY <1>3, <1>4, NatSetInduction
<1>6. PICK x \in store : round(x) = r + 1
  <2>1. round(v) \in Nat
    BY <1>1, ParentFacts, CertificateFacts
  <2>2. (round(v) - r) - 1 \in Nat
    BY <2>1
  <2>3. (round(v) - r) - 1 \in Good
    BY <2>2, <1>5
  <2>4. r + 1 + ((round(v) - r) - 1) <= round(v) /\ round(v) - ((round(v) - r) - 1) = r + 1
    BY <2>1
  <2> QED BY <2>3, <2>4
<1> DEFINE A == {origin(y) : y \in AtRound(store, r)}
           Q == {origin(y) : y \in parents[x]}
<1>7. /\ A \in SUBSET Authority /\ Cardinality(A) = Cardinality(AtRound(store, r))
  <2> DEFINE S == AtRound(store, r)
  <2>1. S \in SUBSET Certificate /\ \A w \in S : round(w) = r
    BY <1>1 DEF AtRound, WellFormed
  <2> HIDE DEF S
  <2>2. {origin(y) : y \in S} \in SUBSET Authority
        /\ Cardinality({origin(y) : y \in S}) = Cardinality(S)
    BY <2>1, AuthorsOfRound
  <2> QED BY <2>2 DEF S
<1>8. Q \subseteq A /\ StakeOf(Q) >= quorum_threshold
  <2>1. ValidParents(parents, x) /\ \A y \in parents[x] : y \in store /\ round(y) = r
    BY <1>2, <1>6
  <2> QED BY <2>1 DEF ValidParents, AtRound
<1> DEFINE C == Authority \ A
<1> HIDE DEF A, Q, C
<1>9. Q \cap C = {} /\ Q \in SUBSET Authority /\ C \in SUBSET Authority
  BY <1>7, <1>8 DEF C
<1>10. ~ (StakeOf(C) >= validity_threshold)
  BY <1>8, <1>9, QuorumMeetsValidity
<1>11. ~ (Cardinality(C) >= f + 1)
  BY <1>9, <1>10 DEF CountsCarryStake
<1>12. Cardinality(C) = N - Cardinality(A) /\ Cardinality(C) \in Nat /\ Cardinality(A) \in Nat
  <2>1. Cardinality(Authority) = N /\ IsFiniteSet(Authority)
    BY FS_Interval, NAssumption DEF Authority
  <2>2. Cardinality(C) = Cardinality(Authority) - Cardinality(Authority \cap A)
    BY <2>1, FS_Difference DEF C
  <2>3. Authority \cap A = A
    BY <1>7
  <2> QED BY <2>1, <2>2, <2>3, <1>7, <1>9, AuthorityFinite, FS_CardinalityType
<1> QED BY <1>7, <1>11, <1>12, NAssumption DEF f

\* The same for f+1 authors: their round is decisive for all that follow.
LEMMA SeenByAuthors ==
    ASSUME CountsCarryStake, NEW p, WellFormed(p), NEW u, NEW r \in Nat,
           Cardinality(Seers(p, u, r)) >= f + 1
    PROVE  \A w \in DOMAIN p : round(w) > r => u \in Ancestry(p, DOMAIN p, w)
<1> DEFINE S == Seers(p, u, r)
<1>1. S \in SUBSET Certificate /\ \A w \in S : round(w) = r
  BY DEF Seers, AtRound, WellFormed
<1>2. /\ {origin(w) : w \in S} \in SUBSET Authority
      /\ Cardinality({origin(w) : w \in S}) = Cardinality(S)
  <2> HIDE DEF S
  <2> QED BY <1>1, AuthorsOfRound
<1>3. StakeOf({origin(w) : w \in S}) >= validity_threshold
  BY <1>2 DEF CountsCarryStake
<1> QED BY <1>3, SeenByMany

\* What a verdict rests on: a leads b by f+1 authors in a round after theirs,
\* and 2f+1 authors of one round have seen b.
LEMMA VerdictFacts ==
    ASSUME IInv, SeenInv, CountsCarryStake, NEW a \in DOMAIN auf, NEW b \in DOMAIN auf,
           Better(a, b)
    PROVE  /\ Max({round(a), round(b)}) \in Nat
           /\ \E r \in Nat \ {0} :
                 /\ r > round(a)
                 /\ seen_count_at(a, r) - seen_count_at(b, r) >= f + 1
                 /\ \E h \in Nat : seen_count_at(b, h) >= 2 * f + 1
<1>1. \A u \in {a, b} : round(u) \in Nat /\ round(u) <= MaxRound
  BY CertificateFacts DEF IInv, TypeOK
<1>2. auf[a].mature /\ auf[b].mature
  BY DEF Better
<1>3. /\ \A u \in {a, b} : auf[u].horizon \in Nat /\ auf[u].horizon <= MaxRound
      /\ seen_count_at(b, auf[b].horizon) >= 2 * f + 1
  <2>1. \A u \in {a, b} : auf[u] \in AufState /\ auf[u].horizon # None
    BY <1>2 DEF IInv, TypeOK, HorizonJustified
  <2>2. \A u \in {a, b} : auf[u].horizon \in 0 .. MaxRound
    BY <2>1 DEF AufState, Round
  <2>3. seen_count_at(b, auf[b].horizon) >= reach_threshold
    BY <1>2 DEF IInv, HorizonJustified
  <2> QED BY <2>2, <2>3, MaxRoundAssumption DEF reach_threshold
<1>4. /\ Max({round(a), round(b)}) \in Nat /\ Max({auf[a].horizon, auf[b].horizon}) \in Nat
      /\ round(a) <= Max({round(a), round(b)})
  <2>1. \A x, y \in Nat : x <= MaxRound /\ y <= MaxRound =>
                              Max({x, y}) \in Nat /\ x <= Max({x, y})
    <3> SUFFICES ASSUME NEW x \in Nat, NEW y \in Nat, x <= MaxRound, y <= MaxRound
                 PROVE  Max({x, y}) \in Nat /\ x <= Max({x, y})
      OBVIOUS
    <3>1. {x, y} \subseteq Nat /\ {x, y} # {} /\ \A z \in {x, y} : z <= MaxRound
      OBVIOUS
    <3>2. Max({x, y}) \in {x, y} /\ \A z \in {x, y} : z <= Max({x, y})
      BY <3>1, MaxOfBounded, MaxRoundAssumption
    <3> QED BY <3>1, <3>2
  <2> QED BY <2>1, <1>1, <1>3
<1>5. PICK r \in (Max({round(a), round(b)}) + 1) .. Max({auf[a].horizon, auf[b].horizon}) :
          seen_count_at(a, r) - seen_count_at(b, r) >= f + 1
  BY DEF Better, delta_threshold
<1>6. r \in Nat \ {0} /\ r > round(a)
  BY <1>1, <1>4, <1>5
<1> QED BY <1>3, <1>4, <1>5, <1>6

\* What the executor decides for a before b is not refuted by any round of
\* the DAG: where it leads, f+1 authors have seen a, so that everybody after
\* them has; had as many seen b before them, a could not lead there; and in
\* that round itself too few certificates are left.
LEMMA VerdictHolds ==
    ASSUME IInv, SeenInv, CountsCarryStake, NEW a \in DOMAIN auf, NEW b \in DOMAIN auf,
           Better(a, b), \A u \in CutOff : round(u) < round(a) /\ round(u) < round(b),
           NEW r \in Nat
    PROVE  ~ (Cardinality(Seers(parents, b, r)) - Cardinality(Seers(parents, a, r)) >= f + 1)
<1>1. PICK l \in Nat \ {0}, h \in Nat :
          /\ l > round(a)
          /\ seen_count_at(a, l) - seen_count_at(b, l) >= f + 1
          /\ seen_count_at(b, h) >= 2 * f + 1
  BY VerdictFacts
<1>2. /\ WellFormed(parents) /\ store \subseteq DOMAIN parents /\ DOMAIN parents \subseteq Certificate
      /\ f \in Nat /\ N <= 3 * f + 3 /\ N \in Nat
  BY EvidenceOfDag, NAssumption DEF IInv, TypeOK, WellFormed, f
<1> DEFINE P(k) == AtRound(store, k)
           W(k) == AtRound(DOMAIN parents, k)
           S(u, k) == Seers(parents, u, k)
<1>3. ASSUME NEW k, NEW u
      PROVE  /\ S(u, k) \in SUBSET Certificate /\ S(u, k) \subseteq W(k)
             /\ W(k) \in SUBSET Certificate /\ P(k) \subseteq W(k)
             /\ \A w \in W(k) : round(w) = k /\ w \in DOMAIN parents
             /\ \A w \in W(k) : u \in Ancestry(parents, DOMAIN parents, w) => w \in S(u, k)
  BY <1>2 DEF Seers, AtRound
<1>4. ASSUME NEW u \in {a, b}, NEW k
      PROVE  seen_count_at(u, k) = Cardinality(S(u, k) \cap P(k))
  BY EvidenceOfDag DEF seen_count_at
<1>5. ASSUME NEW u, NEW k \in Nat, Cardinality(S(u, k)) >= f + 1, NEW m \in Nat, m > k
      PROVE  S(u, m) = W(m)
  <2>1. \A w \in DOMAIN parents : round(w) > k => u \in Ancestry(parents, DOMAIN parents, w)
    <3>1. Cardinality(Seers(parents, u, k)) >= f + 1
      BY <1>5
    <3> QED BY ONLY <1>2, <1>5, <3>1, SeenByAuthors, CountsCarryStake
  <2>2. \A w \in W(m) : w \in S(u, m)
    <3> SUFFICES ASSUME NEW w \in W(m) PROVE w \in S(u, m)
      OBVIOUS
    <3> HIDE DEF P, W, S
    <3>1. round(w) = m /\ w \in DOMAIN parents
      BY <1>3
    <3>2. u \in Ancestry(parents, DOMAIN parents, w)
      BY <2>1, <3>1, <1>5
    <3> QED BY <1>3, <3>2
  <2> HIDE DEF P, W, S
  <2> QED BY <2>2, <1>3
<1> HIDE DEF P, W, S
<1>6. ASSUME NEW T \in SUBSET Certificate, NEW U \in SUBSET T
      PROVE  /\ IsFiniteSet(T) /\ IsFiniteSet(U) /\ Cardinality(T) \in Nat
             /\ Cardinality(U) \in Nat /\ Cardinality(U) <= Cardinality(T)
  BY CertificateCount, FS_Subset
<1>7. ASSUME NEW u \in {a, b}, NEW k, NEW n \in Nat, Cardinality(S(u, k) \cap P(k)) >= n
      PROVE  Cardinality(S(u, k)) >= n
  <2>1. S(u, k) \in SUBSET Certificate /\ S(u, k) \cap P(k) \in SUBSET S(u, k)
    BY <1>3
  <2>2. /\ Cardinality(S(u, k)) \in Nat /\ Cardinality(S(u, k) \cap P(k)) \in Nat
        /\ Cardinality(S(u, k) \cap P(k)) <= Cardinality(S(u, k))
    BY <2>1, <1>6
  <2> QED BY <2>2, <1>7
<1> DEFINE ca == Cardinality(S(a, l) \cap P(l))
           cb == Cardinality(S(b, l) \cap P(l))
<1>8. ca \in Nat /\ cb \in Nat /\ ca - cb >= f + 1
  <2>1. \A u \in {a, b} : S(u, l) \in SUBSET Certificate /\ S(u, l) \cap P(l) \in SUBSET S(u, l)
    BY <1>3
  <2>2. ca \in Nat /\ cb \in Nat
    BY <2>1, <1>6
  <2> QED BY <2>2, <1>1, <1>4
<1>9. Cardinality(S(a, l)) >= f + 1
  <2>1. ca >= f + 1 /\ f + 1 \in Nat
    BY <1>2, <1>8
  <2> QED BY <2>1, <1>7
<1>10. S(b, l) # W(l)
  <2> SUFFICES ASSUME S(b, l) = W(l) PROVE FALSE
    OBVIOUS
  <2>1. S(a, l) \cap P(l) \in SUBSET (S(b, l) \cap P(l)) /\ S(b, l) \cap P(l) \in SUBSET Certificate
    BY <1>3
  <2>2. ca <= cb
    BY <2>1, <1>6
  <2> QED BY <2>2, <1>2, <1>8
<1>11. \A k \in Nat : k < l => ~ (Cardinality(S(b, k)) >= f + 1)
  BY <1>5, <1>10
<1> SUFFICES ASSUME Cardinality(S(b, r)) - Cardinality(S(a, r)) >= f + 1 PROVE FALSE
  BY DEF S
<1>12. /\ Cardinality(S(b, r)) \in Nat /\ Cardinality(S(a, r)) \in Nat
       /\ Cardinality(S(b, r)) >= f + 1 /\ Cardinality(S(b, r)) > Cardinality(S(a, r))
  <2>1. \A u : Cardinality(S(u, r)) \in Nat
    BY <1>3, <1>6
  <2> QED BY <2>1, <1>2
<1>13. ~ (r < l)
  BY <1>11, <1>12
<1>14. ~ (r > l)
  <2> SUFFICES ASSUME r > l PROVE FALSE
    OBVIOUS
  <2>1. S(a, r) = W(r)
    BY <1>5, <1>9
  <2>2. S(b, r) \in SUBSET S(a, r) /\ S(a, r) \in SUBSET Certificate
    BY <2>1, <1>3
  <2>3. Cardinality(S(b, r)) <= Cardinality(S(a, r))
    BY <2>2, <1>6
  <2> QED BY <2>3, <1>12
<1>15. r = l
  BY <1>13, <1>14
<1>16. /\ Cardinality(P(l)) \in Nat
       /\ N <= Cardinality(P(l)) + 2 * f + 1
  <2>1. P(l) \in SUBSET Certificate /\ S(a, l) \cap P(l) \in SUBSET P(l)
    BY <1>3
  <2>2. Cardinality(P(l)) \in Nat /\ ca <= Cardinality(P(l))
    BY <2>1, <1>6
  <2>3. h >= l
    <3> SUFFICES ASSUME h < l PROVE FALSE
      OBVIOUS
    <3>1. Cardinality(S(b, h) \cap P(h)) >= 2 * f + 1 /\ 2 * f + 1 \in Nat
      <4>1. Cardinality(S(b, h) \cap P(h)) = seen_count_at(b, h)
        BY <1>4
      <4> QED BY <4>1, <1>1, <1>2
    <3>2. Cardinality(S(b, h)) >= 2 * f + 1 /\ Cardinality(S(b, h)) \in Nat
      BY <3>1, <1>3, <1>6, <1>7
    <3> QED BY <3>2, <1>2, <1>11
  <2>4. CASE h = l
    <3>1. cb >= 2 * f + 1
      BY <2>4, <1>1, <1>4
    <3> QED BY <3>1, <2>2, <1>2, <1>8
  <2>5. CASE h > l
    <3>1. PICK v : v \in P(h)
      <4>1. Cardinality(S(b, h) \cap P(h)) >= 2 * f + 1
        BY <1>1, <1>4
      <4>2. Cardinality(S(b, h) \cap P(h)) # 0
        BY <4>1, <1>2
      <4>3. S(b, h) \cap P(h) # {}
        BY <4>2, FS_EmptySet
      <4> QED BY <4>3
    <3>2. v \in store /\ round(v) > l
      BY <3>1, <2>5 DEF P, AtRound
    <3>3. Cardinality(P(l)) + f >= N
      <4>1. \A x \in CutOff : round(x) < l
        <5>1. \A x \in CutOff : round(x) \in Nat /\ round(a) \in Nat
          BY <1>2, ParentFacts, CertificateFacts DEF CutOff, IInv, TypeOK
        <5> QED BY <5>1, <1>1
      <4> QED BY <3>2, <4>1, QuorumReceived DEF P
    <3> QED BY <3>3, <2>2, <1>2
  <2> QED BY <2>3, <2>4, <2>5
<1>17. Cardinality(W(l)) <= N /\ Cardinality(W(l)) \in Nat
  <2>1. W(l) \in SUBSET Certificate /\ \A w \in W(l) : round(w) = l
    BY <1>3
  <2>2. {origin(w) : w \in W(l)} \in SUBSET Authority
        /\ Cardinality({origin(w) : w \in W(l)}) = Cardinality(W(l))
    BY <2>1, AuthorsOfRound
  <2>3. Cardinality(Authority) = N /\ IsFiniteSet(Authority)
    BY FS_Interval, NAssumption DEF Authority
  <2>4. Cardinality({origin(w) : w \in W(l)}) <= Cardinality(Authority)
    BY <2>2, <2>3, FS_Subset
  <2> QED BY <2>1, <2>2, <2>3, <2>4, <1>6
<1>18. Cardinality(W(l) \ P(l)) = Cardinality(W(l)) - Cardinality(P(l))
  <2>1. IsFiniteSet(W(l)) /\ W(l) \cap P(l) = P(l)
    BY <1>3, <1>6
  <2> QED BY <2>1, FS_Difference
<1>19. Cardinality(S(b, l)) <= cb + Cardinality(W(l) \ P(l))
  <2> DEFINE X == S(b, l) \cap P(l)
             Y == S(b, l) \ P(l)
             Z == W(l) \ P(l)
  <2>1. /\ X \in SUBSET Certificate /\ Y \in SUBSET Z /\ Z \in SUBSET Certificate
        /\ X \cup Y = S(b, l) /\ X \cap Y = {}
    BY <1>3
  <2> HIDE DEF X, Y, Z
  <2>2. IsFiniteSet(X) /\ IsFiniteSet(Y) /\ Cardinality(Y) <= Cardinality(Z)
        /\ Cardinality(X) \in Nat /\ Cardinality(Y) \in Nat /\ Cardinality(Z) \in Nat
    BY <2>1, <1>6
  <2>3. Cardinality(S(b, l)) = Cardinality(X) + Cardinality(Y) - Cardinality({})
    BY <2>1, <2>2, FS_Union
  <2>4. Cardinality(S(b, l)) <= Cardinality(X) + Cardinality(Z)
    BY <2>2, <2>3, FS_EmptySet
  <2> QED BY <2>4 DEF X, Z
<1>20. ca <= Cardinality(S(a, l))
  <2>1. S(a, l) \in SUBSET Certificate /\ S(a, l) \cap P(l) \in SUBSET S(a, l)
    BY <1>3
  <2> QED BY <2>1, <1>6
<1> QED BY <1>2, <1>8, <1>12, <1>15, <1>16, <1>17, <1>18, <1>19, <1>20

\* What holds of the verdicts in every state with exact evidence.
LEMMA VerdictsHold ==
    ASSUME IInv, SeenInv, CountsCarryStake
    PROVE  RobustVerdicts
<1> SUFFICES ASSUME NEW a \in DOMAIN auf, NEW b \in DOMAIN auf, Better(a, b),
                    \A u \in CutOff : round(u) < Min({round(a), round(b)}),
                    NEW r \in (Max({round(a), round(b)}) + 1) .. MaxRound
             PROVE  ~ (Cardinality(Seers(parents, b, r)) - Cardinality(Seers(parents, a, r))
                           >= delta_threshold)
  BY DEF RobustVerdicts, Seers
<1>1. Max({round(a), round(b)}) \in Nat
  BY VerdictFacts
<1>2. r \in Nat
  BY <1>1, MaxRoundAssumption
<1>3. \A u \in CutOff : round(u) < round(a) /\ round(u) < round(b)
  <2>1. round(a) \in Nat /\ round(b) \in Nat
    BY CertificateFacts DEF IInv, TypeOK
  <2> DEFINE R == {round(a), round(b)}
  <2>2. R \subseteq Nat /\ R # {}
    BY <2>1
  <2>3. Min(R) \in Nat /\ \A y \in R : Min(R) <= y
    <3> HIDE DEF R
    <3> QED BY <2>2, MinOfNaturals
  <2>4. \A u \in CutOff : round(u) \in Nat
    BY ParentFacts, CertificateFacts DEF CutOff, IInv, TypeOK, SeenInv, ParentsFirst
  <2> QED BY <2>1, <2>3, <2>4
<1> QED BY <1>2, <1>3, VerdictHolds DEF delta_threshold

\* A verdict of the executor is robust where its evidence is whole: if nothing
\* from the rounds of the two certificates up is cut off, no round of the whole
\* DAG turns it round, received or not.
THEOREM VerdictsAreRobust ==
    ASSUME CountsCarryStake
    PROVE  Spec => []RobustVerdicts
<1>1. IInv /\ SeenInv => RobustVerdicts
  BY VerdictsHold
<1> QED BY <1>1, SeenInvariant, PTL

\* What is in the history that was received is in the whole one.
LEMMA HistoryGrows ==
    ASSUME NEW p, WellFormed(p), NEW S, S \subseteq DOMAIN p, NEW w \in DOMAIN p,
           NEW u \in Ancestry(p, S, w)
    PROVE  u \in Ancestry(p, DOMAIN p, w)
<1> DEFINE L == Layers(p, S, w)
           G == Layers(p, DOMAIN p, w)
           Good == {k \in Nat : k <= round(w) => L[k] \subseteq G[k]}
<1>0. w \in Certificate /\ round(w) \in Nat
  BY ParentFacts, CertificateFacts
<1>1. /\ L[0] = {w} /\ G[0] = {w}
      /\ \A k \in 1 .. round(w) : /\ L[k] = S \cap UNION {p[x] : x \in L[k - 1]}
                                  /\ G[k] = DOMAIN p \cap UNION {p[x] : x \in G[k - 1]}
  BY <1>0, LayersStep
<1> HIDE DEF L, G
<1>2. 0 \in Good
  BY <1>1
<1>3. ASSUME NEW k \in Good PROVE k + 1 \in Good
  <2> SUFFICES ASSUME k + 1 <= round(w) PROVE L[k + 1] \subseteq G[k + 1]
    OBVIOUS
  <2>1. k + 1 \in 1 .. round(w) /\ (k + 1) - 1 = k /\ k <= round(w)
    BY <1>0
  <2>2. L[k] \subseteq G[k]
    BY <2>1
  <2> QED BY <1>1, <2>1, <2>2
<1>4. \A k \in Nat : k \in Good
  <2> Good \in SUBSET Nat
    OBVIOUS
  <2> HIDE DEF Good
  <2> QED BY <1>2, <1>3, NatSetInduction
<1>5. \A k \in 0 .. round(w) : L[k] \subseteq G[k]
  BY <1>0, <1>4
<1>6. \A k \in 0 .. round(w) : u \in Layers(p, S, w)[k] => u \in Layers(p, DOMAIN p, w)[k]
  BY <1>5 DEF L, G
<1> QED BY <1>6, AncestryFacts

\* A horizon rests on 2f+1 authors of one round, whose stake everybody after
\* them meets among the parents.
LEMMA MatureIsFinal ==
    ASSUME IInv, SeenInv, CountsCarryStake
    PROVE  HorizonIsFinal
<1> SUFFICES ASSUME NEW u \in DOMAIN auf, auf[u].mature,
                    NEW w \in DOMAIN parents, round(w) > auf[u].horizon
             PROVE  u \in Ancestry(parents, DOMAIN parents, w)
  BY DEF HorizonIsFinal
<1> DEFINE h == auf[u].horizon
<1>1. WellFormed(parents) /\ store \subseteq DOMAIN parents /\ auf[u] \in AufState
  BY DEF IInv, TypeOK, SeenInv, ParentsFirst
<1>2. h \in Nat /\ Cardinality(AtRound(auf[u].seen, h)) >= 2 * f + 1
  <2>1. h \in Round
    BY <1>1 DEF IInv, HorizonJustified, AufState
  <2>2. seen_count_at(u, h) >= reach_threshold
    BY DEF IInv, HorizonJustified
  <2> QED BY <2>1, <2>2, MaxRoundAssumption DEF Round, seen_count_at, reach_threshold
<1> HIDE DEF h
<1>3. AtRound(auf[u].seen, h) \subseteq Seers(parents, u, h)
  <2>1. auf[u].seen = {x \in store : u \in Ancestry(parents, store, x)}
    BY DEF SeenInv, SeenExact
  <2> QED BY <2>1, <1>1, HistoryGrows DEF Seers, AtRound
<1>4. Cardinality(Seers(parents, u, h)) >= f + 1
  <2>1. Seers(parents, u, h) \in SUBSET Certificate
    BY <1>1 DEF Seers, AtRound, WellFormed
  <2>2. /\ IsFiniteSet(Seers(parents, u, h))
        /\ Cardinality(AtRound(auf[u].seen, h)) <= Cardinality(Seers(parents, u, h))
    BY <2>1, <1>3, CertificateCount, FS_Subset
  <2>3. Cardinality(AtRound(auf[u].seen, h)) \in Nat /\ Cardinality(Seers(parents, u, h)) \in Nat
    BY <2>2, <1>3, FS_Subset, FS_CardinalityType
  <2> QED BY <2>2, <2>3, <1>2, NAssumption DEF f
<1>5. round(w) > h
  BY DEF h
<1> QED BY <1>1, <1>2, <1>4, <1>5, SeenByAuthors

\* Maturity is final: no certificate of the whole DAG past the horizon of a
\* mature one is without it in its history, although the executor counts on
\* slices that lack a part of the DAG.
THEOREM HorizonsAreFinal ==
    ASSUME CountsCarryStake
    PROVE  Spec => []HorizonIsFinal
<1>1. IInv /\ SeenInv => HorizonIsFinal
  BY MatureIsFinal
<1> QED BY <1>1, SeenInvariant, PTL

-----------------------------------------------------------------------------
(***************************************************************************)
(* The first ones and the others of a sequence.                            *)
(***************************************************************************)

\* What comes after the first k elements.
OnesAfter(s, k) == {s[i] : i \in (k + 1) .. Len(s)}

\* What is at the end of a sequence that another one is appended to.
LEMMA Appended ==
    ASSUME NEW S, NEW s \in Seq(S), NEW t \in Seq(S)
    PROVE  /\ s \o t \in Seq(S)
           /\ Len(s \o t) = Len(s) + Len(t)
           /\ SubSeq(s \o t, 1, Len(s)) = s
           /\ OnesAfter(s \o t, Len(s)) = FirstOnes(t, Len(t))
<1> DEFINE u == s \o t
<1>1. /\ u \in Seq(S)
      /\ Len(s) \in Nat /\ Len(t) \in Nat
      /\ Len(u) = Len(s) + Len(t)
      /\ \A i \in 1 .. Len(s) : u[i] = s[i]
      /\ \A i \in 1 .. Len(t) : u[Len(s) + i] = t[i]
  OBVIOUS
<1> HIDE DEF u
<1>2. SubSeq(u, 1, Len(s)) = s
  <2> DEFINE v == SubSeq(u, 1, Len(s))
  <2>1. /\ v \in Seq(S)
        /\ Len(v) = Len(s)
        /\ \A i \in 1 .. Len(s) : v[i] = s[i]
    BY <1>1
  <2> HIDE DEF v
  <2> QED BY <2>1 DEF v
<1>3. ASSUME NEW i \in (Len(s) + 1) .. Len(u) PROVE u[i] \in {t[j] : j \in 1 .. Len(t)}
  <2>1. i - Len(s) \in 1 .. Len(t) /\ Len(s) + (i - Len(s)) = i
    BY <1>1
  <2>2. u[Len(s) + (i - Len(s))] = t[i - Len(s)]
    BY <1>1, <2>1
  <2> QED BY <2>1, <2>2
<1>4. ASSUME NEW j \in 1 .. Len(t) PROVE t[j] \in {u[i] : i \in (Len(s) + 1) .. Len(u)}
  <2>1. Len(s) + j \in (Len(s) + 1) .. Len(u) /\ u[Len(s) + j] = t[j]
    BY <1>1
  <2> QED BY <2>1
<1> QED BY <1>1, <1>2, <1>3, <1>4 DEF u, OnesAfter, FirstOnes

-----------------------------------------------------------------------------
(***************************************************************************)
(* The batches by ascending index: a new one goes to the end, the first    *)
(* one is taken from the front.                                            *)
(***************************************************************************)

Upto(B, i) == {j \in B : j <= i}

\* The k-th element of a finite set of naturals.
Nth(B, k) == CHOOSE i \in B : Cardinality(Upto(B, i)) = k

\* Nth numbers the elements.
LEMMA NthFacts ==
    ASSUME NEW B \in SUBSET Nat, IsFiniteSet(B)
    PROVE  /\ Cardinality(B) \in Nat
           /\ \A i \in B : /\ Cardinality(Upto(B, i)) \in 1 .. Cardinality(B)
                           /\ Nth(B, Cardinality(Upto(B, i))) = i
           /\ \A k \in 1 .. Cardinality(B) : /\ Nth(B, k) \in B
                                             /\ Cardinality(Upto(B, Nth(B, k))) = k
<1> DEFINE R == {p \in Nat \X Nat : p[1] < p[2]}
           n == Cardinality(B)
           C(i) == Cardinality(Upto(B, i))
<1>1. \A i, j \in Nat : <<i, j>> \in R <=> i < j
  OBVIOUS
<1> HIDE DEF R
<1>2. StrictOrder(B, R)
  <2>1. \A i \in B : i \in Nat
    OBVIOUS
  <2> QED BY <1>1, <2>1 DEF StrictOrder
<1>3. /\ n \in Nat
      /\ \A a \in B : Rank(B, R, a) \in 0 .. (n - 1)
      /\ \A a, b \in B : <<a, b>> \in R <=> Rank(B, R, a) < Rank(B, R, b)
      /\ \A k \in 0 .. (n - 1) : \E a \in B : Rank(B, R, a) = k
  BY <1>2, RanksExact
<1>4. ASSUME NEW i \in B PROVE C(i) = Rank(B, R, i) + 1
  <2> DEFINE P == {b \in B : <<b, i>> \in R}
  <2>1. Upto(B, i) = P \cup {i} /\ i \notin P
    <3>1. \A j \in B : j <= i <=> (<<j, i>> \in R \/ j = i)
      <4>1. i \in Nat /\ \A j \in B : j \in Nat
        OBVIOUS
      <4> QED BY <4>1, <1>1
    <3>2. <<i, i>> \notin R
      BY <1>1
    <3> QED BY <3>1, <3>2 DEF Upto
  <2>2. IsFiniteSet(P)
    BY FS_Subset
  <2>3. Cardinality(P \cup {i}) = Cardinality(P) + 1
    <3> HIDE DEF P
    <3> QED BY <2>1, <2>2, FS_AddElement
  <2> QED BY <2>1, <2>3 DEF Rank
<1> HIDE DEF n, C
<1>5. ASSUME NEW i \in B PROVE C(i) \in 1 .. n
  <2>1. Rank(B, R, i) \in 0 .. (n - 1)
    BY <1>3
  <2> QED BY <2>1, <1>3, <1>4
<1>6. ASSUME NEW i \in B, NEW j \in B, C(i) = C(j) PROVE i = j
  <2>1. Rank(B, R, i) = Rank(B, R, j) /\ Rank(B, R, i) \in Int
    <3>1. Rank(B, R, i) \in 0 .. (n - 1) /\ Rank(B, R, j) \in 0 .. (n - 1)
      BY <1>3
    <3> QED BY <3>1, <1>3, <1>4, <1>6
  <2>2. <<i, j>> \notin R /\ <<j, i>> \notin R
    BY <1>3, <2>1
  <2> QED BY <2>2, <1>1
<1>7. ASSUME NEW k \in 1 .. n PROVE \E i \in B : C(i) = k
  <2>1. k - 1 \in 0 .. (n - 1)
    BY <1>3
  <2>2. PICK i \in B : Rank(B, R, i) = k - 1
    BY <1>3, <2>1
  <2> QED BY <2>2, <1>3, <1>4
<1>8. \A k : Nth(B, k) = CHOOSE i \in B : C(i) = k
  BY DEF Nth, C
<1>9. ASSUME NEW k \in 1 .. n PROVE Nth(B, k) \in B /\ C(Nth(B, k)) = k
  BY <1>7, <1>8
<1>10. ASSUME NEW i \in B PROVE Nth(B, C(i)) = i
  <2>1. Nth(B, C(i)) \in B /\ C(Nth(B, C(i))) = C(i)
    BY <1>5, <1>9
  <2> QED BY <2>1, <1>6
<1> QED BY <1>3, <1>5, <1>9, <1>10 DEF n, C

\* Adding an element above all others makes it the last one.
LEMMA NthAdded ==
    ASSUME NEW B \in SUBSET Nat, IsFiniteSet(B), NEW x \in Nat, \A j \in B : j < x
    PROVE  /\ Cardinality(B \cup {x}) = Cardinality(B) + 1
           /\ Nth(B \cup {x}, Cardinality(B) + 1) = x
           /\ \A k \in 1 .. Cardinality(B) : Nth(B \cup {x}, k) = Nth(B, k)
<1> DEFINE A == B \cup {x}
<1>1. A \in SUBSET Nat /\ x \notin B
  OBVIOUS
<1>2. IsFiniteSet(A) /\ Cardinality(A) = Cardinality(B) + 1
  BY <1>1, FS_AddElement
<1>3. Upto(A, x) = A /\ \A i \in B : Upto(A, i) = Upto(B, i)
  <2>1. \A i \in A : i <= x
    OBVIOUS
  <2>2. \A i \in B : ~ (x <= i)
    OBVIOUS
  <2>3. ASSUME NEW i \in B PROVE Upto(A, i) = Upto(B, i)
    BY <2>2 DEF Upto
  <2> QED BY <2>1, <2>3 DEF Upto
<1>4. x \in A /\ B \subseteq A
  OBVIOUS
<1> HIDE DEF A
<1>5. Nth(A, Cardinality(B) + 1) = x
  <2>1. Nth(A, Cardinality(Upto(A, x))) = x
    BY <1>1, <1>2, <1>4, NthFacts
  <2> QED BY <2>1, <1>2, <1>3
<1>6. ASSUME NEW k \in 1 .. Cardinality(B) PROVE Nth(A, k) = Nth(B, k)
  <2>1. Nth(B, k) \in B /\ Cardinality(Upto(B, Nth(B, k))) = k
    BY NthFacts
  <2>2. Nth(A, Cardinality(Upto(A, Nth(B, k)))) = Nth(B, k)
    BY <1>1, <1>2, <1>4, <2>1, NthFacts
  <2> QED BY <1>3, <2>1, <2>2
<1> QED BY <1>2, <1>5, <1>6 DEF A

\* Removing the least element moves the others up.
LEMMA NthRemoved ==
    ASSUME NEW B \in SUBSET Nat, IsFiniteSet(B), NEW x \in B, \A j \in B : x <= j
    PROVE  /\ Cardinality(B \ {x}) = Cardinality(B) - 1
           /\ Nth(B, 1) = x
           /\ \A k \in 1 .. (Cardinality(B) - 1) : Nth(B \ {x}, k) = Nth(B, k + 1)
<1> DEFINE A == B \ {x}
<1>1. A \in SUBSET Nat /\ x \notin A /\ A \subseteq B
  OBVIOUS
<1>2. /\ IsFiniteSet(A) /\ Cardinality(A) = Cardinality(B) - 1
      /\ Cardinality(B) \in Nat
  BY FS_RemoveElement, FS_CardinalityType
<1>3. Upto(B, x) = {x}
  <2>1. \A j \in B : j <= x <=> j = x
    <3>1. x \in Nat /\ \A j \in B : j \in Nat
      OBVIOUS
    <3> QED BY <3>1
  <2> QED BY <2>1 DEF Upto
<1>4. ASSUME NEW i \in A PROVE Cardinality(Upto(B, i)) = Cardinality(Upto(A, i)) + 1
  <2>1. Upto(B, i) = Upto(A, i) \cup {x} /\ x \notin Upto(A, i)
    BY DEF Upto
  <2>2. IsFiniteSet(Upto(A, i))
    BY <1>2, FS_Subset DEF Upto
  <2> QED BY <2>1, <2>2, FS_AddElement
<1> HIDE DEF A
<1>5. Nth(B, 1) = x
  <2>1. Nth(B, Cardinality(Upto(B, x))) = x
    BY NthFacts
  <2>2. Cardinality(Upto(B, x)) = 1
    BY <1>3, FS_Singleton
  <2> QED BY <2>1, <2>2
<1>6. ASSUME NEW k \in 1 .. (Cardinality(B) - 1) PROVE Nth(A, k) = Nth(B, k + 1)
  <2>1. k \in 1 .. Cardinality(A)
    BY <1>2
  <2>2. Nth(A, k) \in A /\ Cardinality(Upto(A, Nth(A, k))) = k
    BY <1>1, <1>2, <2>1, NthFacts
  <2>3. Cardinality(Upto(B, Nth(A, k))) = k + 1
    BY <1>4, <2>2
  <2>4. Nth(B, Cardinality(Upto(B, Nth(A, k)))) = Nth(A, k)
    BY <1>1, <2>2, NthFacts
  <2> QED BY <2>3, <2>4
<1> QED BY <1>2, <1>5, <1>6 DEF A

\* The values of a function on naturals by ascending argument.
Ascending(q) == [k \in 1 .. Cardinality(DOMAIN q) |-> q[Nth(DOMAIN q, k)]]

LEMMA AscendingSeq ==
    ASSUME NEW q, DOMAIN q \in SUBSET Nat, IsFiniteSet(DOMAIN q),
           NEW T, \A i \in DOMAIN q : q[i] \in T
    PROVE  Ascending(q) \in Seq(T) /\ Len(Ascending(q)) = Cardinality(DOMAIN q)
<1> DEFINE B == DOMAIN q
           n == Cardinality(B)
<1>1. n \in Nat /\ \A k \in 1 .. n : Nth(B, k) \in B
  BY NthFacts
<1> HIDE DEF n
<1>2. \A k \in 1 .. n : q[Nth(B, k)] \in T
  BY <1>1
<1>3. Ascending(q) = [k \in 1 .. n |-> q[Nth(B, k)]]
  BY DEF Ascending, n
<1>4. Ascending(q) \in [1 .. n -> T]
  BY <1>2, <1>3
<1> QED BY <1>1, <1>4 DEF n

\* A new value at the greatest argument is appended.
LEMMA AscendingAdded ==
    ASSUME NEW q, DOMAIN q \in SUBSET Nat, IsFiniteSet(DOMAIN q),
           NEW x \in Nat, \A j \in DOMAIN q : j < x, NEW e,
           NEW p, p = [i \in DOMAIN q \cup {x} |-> IF i = x THEN e ELSE q[i]]
    PROVE  Ascending(p) = Append(Ascending(q), e)
<1> DEFINE B == DOMAIN q
           n == Cardinality(B)
           T == {q[i] : i \in B} \cup {e}
<1>1. /\ Ascending(q) \in Seq(T) /\ Len(Ascending(q)) = n
      /\ n \in Nat /\ \A k \in 1 .. n : Nth(B, k) \in B
  <2>1. \A i \in DOMAIN q : q[i] \in T
    OBVIOUS
  <2> HIDE DEF T
  <2> QED BY <2>1, AscendingSeq, NthFacts
<1>2. /\ Cardinality(B \cup {x}) = n + 1
      /\ Nth(B \cup {x}, n + 1) = x
      /\ \A k \in 1 .. n : Nth(B \cup {x}, k) = Nth(B, k)
  BY NthAdded
<1>3. DOMAIN p = B \cup {x} /\ p[x] = e /\ \A i \in B : p[i] = q[i]
  OBVIOUS
<1> HIDE DEF n, T
<1>4. Ascending(p) = [k \in 1 .. (n + 1) |-> p[Nth(B \cup {x}, k)]]
  BY <1>2, <1>3 DEF Ascending
<1>5. Ascending(q) = [k \in 1 .. n |-> q[Nth(B, k)]]
  BY DEF Ascending, n
<1>6. \A k \in 1 .. n : p[Nth(B \cup {x}, k)] = Ascending(q)[k]
  BY <1>1, <1>2, <1>3, <1>5
<1>7. p[Nth(B \cup {x}, n + 1)] = e
  BY <1>2, <1>3
<1>8. Ascending(p) \in Seq(T) /\ Len(Ascending(p)) = n + 1
  <2>1. \A i \in DOMAIN p : p[i] \in T
    BY <1>3 DEF T
  <2>2. DOMAIN p \in SUBSET Nat /\ IsFiniteSet(DOMAIN p)
    BY <1>3, FS_AddElement
  <2>3. Cardinality(DOMAIN p) = n + 1
    BY <1>2, <1>3
  <2> QED BY <2>1, <2>2, <2>3, AscendingSeq
<1> DEFINE s == Ascending(q)
           t == Ascending(p)
<1>9. e \in T /\ \A k \in 1 .. n : t[k] = s[k]
  <2>1. \A k \in 1 .. n : k \in 1 .. (n + 1)
    BY <1>1
  <2> QED BY <2>1, <1>4, <1>6 DEF T
<1>10. t[n + 1] = e
  <2>1. n + 1 \in 1 .. (n + 1)
    BY <1>1
  <2>2. t[n + 1] = p[Nth(B \cup {x}, n + 1)]
    BY <1>4, <2>1
  <2> QED BY <1>7, <2>2
<1> HIDE DEF s, t
<1>11. /\ s \in Seq(T) /\ Len(s) = n /\ t \in Seq(T) /\ Len(t) = n + 1
  BY <1>1, <1>8 DEF s, t
<1>12. t = Append(s, e)
  <2> DEFINE u == Append(s, e)
  <2>1. /\ u \in Seq(T) /\ Len(u) = n + 1
        /\ \A k \in 1 .. n : u[k] = s[k]
        /\ u[n + 1] = e
    BY <1>1, <1>9, <1>11
  <2>2. \A k \in 1 .. (n + 1) : u[k] = t[k]
    BY <1>1, <1>9, <1>10, <2>1
  <2> HIDE DEF u
  <2>3. u = t
    BY <1>11, <2>1, <2>2
  <2> QED BY <2>3 DEF u
<1> QED BY <1>12 DEF s, t

\* Without the value at the least argument the others move up.
LEMMA AscendingRemoved ==
    ASSUME NEW q, DOMAIN q \in SUBSET Nat, IsFiniteSet(DOMAIN q),
           NEW x \in DOMAIN q, \A j \in DOMAIN q : x <= j
    PROVE  /\ Ascending(q) # <<>>
           /\ Head(Ascending(q)) = q[x]
           /\ Tail(Ascending(q)) = Ascending([i \in DOMAIN q \ {x} |-> q[i]])
<1> DEFINE B == DOMAIN q
           n == Cardinality(B)
           T == {q[i] : i \in B}
           p == [i \in B \ {x} |-> q[i]]
<1>1. /\ Ascending(q) \in Seq(T) /\ Len(Ascending(q)) = n
      /\ n \in Nat /\ \A k \in 1 .. n : Nth(B, k) \in B
  <2>1. \A i \in DOMAIN q : q[i] \in T
    OBVIOUS
  <2> HIDE DEF T
  <2> QED BY <2>1, AscendingSeq, NthFacts
<1>2. n # 0
  BY FS_EmptySet
<1>3. /\ Cardinality(B \ {x}) = n - 1
      /\ Nth(B, 1) = x
      /\ \A k \in 1 .. (n - 1) : Nth(B \ {x}, k) = Nth(B, k + 1)
  BY NthRemoved
<1>4. ASSUME NEW k \in 1 .. (n - 1) PROVE Nth(B \ {x}, k) \in B \ {x}
  <2>1. B \ {x} \in SUBSET Nat /\ IsFiniteSet(B \ {x})
    BY FS_RemoveElement
  <2> HIDE DEF n
  <2> QED BY <2>1, <1>3, NthFacts
<1>5. DOMAIN p = B \ {x} /\ \A i \in B \ {x} : p[i] = q[i]
  OBVIOUS
<1> HIDE DEF n, T, p
<1>6. Ascending(q) = [k \in 1 .. n |-> q[Nth(B, k)]]
  BY DEF Ascending, n
<1>7. Ascending(p) = [k \in 1 .. (n - 1) |-> Ascending(q)[k + 1]]
  <2>1. Ascending(p) = [k \in 1 .. (n - 1) |-> p[Nth(B \ {x}, k)]]
    BY <1>3, <1>5 DEF Ascending
  <2>2. ASSUME NEW k \in 1 .. (n - 1) PROVE p[Nth(B \ {x}, k)] = Ascending(q)[k + 1]
    <3>1. p[Nth(B \ {x}, k)] = q[Nth(B, k + 1)]
      BY <1>3, <1>4, <1>5
    <3>2. k + 1 \in 1 .. n
      BY <1>1
    <3> QED BY <1>6, <3>1, <3>2
  <2> QED BY <2>1, <2>2
<1> DEFINE s == Ascending(q)
<1>8. Head(s) = q[x] /\ s # <<>>
  <2>1. s[1] = q[x]
    BY <1>1, <1>2, <1>3, <1>6
  <2> HIDE DEF s
  <2>2. s \in Seq(T) /\ Len(s) = n
    BY <1>1 DEF s
  <2> QED BY <2>1, <2>2, <1>1, <1>2
<1>9. Tail(s) = Ascending(p)
  <2> DEFINE t == Tail(s)
             u == Ascending(p)
  <2>1. u \in [1 .. (n - 1) -> T]
    <3>1. \A k \in 1 .. (n - 1) : Ascending(q)[k + 1] \in T
      BY <1>1
    <3> QED BY <3>1, <1>7
  <2>2. \A k \in 1 .. (n - 1) : u[k] = s[k + 1]
    BY <1>7
  <2> HIDE DEF s, u
  <2>3. /\ s \in Seq(T) /\ Len(s) = n /\ s # <<>>
    BY <1>1, <1>8 DEF s
  <2>4. /\ t \in Seq(T) /\ Len(t) = n - 1
        /\ \A k \in 1 .. (n - 1) : t[k] = s[k + 1]
    BY <1>1, <1>2, <2>3
  <2> HIDE DEF t
  <2>5. n - 1 \in Nat
    BY <1>1, <1>2
  <2>6. u \in Seq(T) /\ Len(u) = n - 1
    BY <2>1, <2>5
  <2>7. t = u
    BY <2>2, <2>4, <2>6
  <2> QED BY <2>7 DEF t, u
<1> QED BY <1>8, <1>9 DEF p

-----------------------------------------------------------------------------
(***************************************************************************)
(* Every step of the executor is a step of SliceLog, or none: a slice is   *)
(* accepted at the end of its ingestion, released when it is finalized,    *)
(* and cut short when sending fails.                                       *)
(***************************************************************************)

\* What is sent is a sequence of certificates.
SentCertificates == output \in Seq(Certificate)

\* Queue is the batches by ascending index.
LEMMA QueueAscends == Queue = Ascending(batches)
  BY DEF Queue, Ascending, Nth, Upto

\* The indices of the batches.
LEMMA BatchIndices ==
    ASSUME TypeOK
    PROVE  DOMAIN batches \in SUBSET Nat /\ IsFiniteSet(DOMAIN batches)
<1>1. DOMAIN batches \in SUBSET (1 .. index) /\ index \in Nat
  BY DEF TypeOK
<1>2. IsFiniteSet(1 .. index)
  BY <1>1, FS_Interval
<1> QED BY <1>1, <1>2, FS_Subset

\* sort_batch lists the batch.
LEMMA SortBatchLists ==
    ASSUME NEW members \in SUBSET Certificate
    PROVE  IsFiniteSet(members) /\ Lists(sort_batch(members), members)
<1> DEFINE after(a) == {b \in members \ {a} : Better(a, b)}
           above(a) == {b \in members \ {a} : TieBreak(a, b)}
           edges == UNION {{<<a, b>> : b \in after(a)} : a \in members}
           before == UNION {{<<a, b>> : b \in above(a)} : a \in members}
<1>1. IsFiniteSet(members)
  BY CertificateCount
<1>2. sort_batch(members) = Linearize(members, edges, before)
  BY DEF sort_batch
<1>3. \A a, b \in members : <<a, b>> \in before <=> (a # b /\ TieBreak(a, b))
  OBVIOUS
<1> HIDE DEF edges, before
<1>4. \A a \in members : /\ origin(a) \in Nat /\ round(a) \in Nat
                         /\ a = <<origin(a), round(a)>>
  BY NAssumption, MaxRoundAssumption DEF Certificate, Authority, Round, origin, round
<1>5. StrictOrder(members, before)
  <2>1. \A a \in members : <<a, a>> \notin before
    BY <1>3
  <2>2. ASSUME NEW a \in members, NEW b \in members, NEW c \in members,
               <<a, b>> \in before, <<b, c>> \in before
        PROVE  <<a, c>> \in before
    <3>1. TieBreak(a, b) /\ TieBreak(b, c)
      BY <1>3, <2>2
    <3>2. /\ origin(a) \in Nat /\ origin(b) \in Nat /\ origin(c) \in Nat
          /\ round(a) \in Nat /\ round(b) \in Nat /\ round(c) \in Nat
      BY <1>4
    <3>3. TieBreak(a, c) /\ (round(a) # round(c) \/ origin(a) # origin(c))
      BY <3>1, <3>2 DEF TieBreak
    <3> QED BY <1>3, <3>3
  <2>3. ASSUME NEW a \in members, NEW b \in members, a # b
        PROVE  <<a, b>> \in before \/ <<b, a>> \in before
    <3>1. origin(a) # origin(b) \/ round(a) # round(b)
      BY <1>4, <2>3
    <3>2. /\ origin(a) \in Nat /\ origin(b) \in Nat
          /\ round(a) \in Nat /\ round(b) \in Nat
      BY <1>4
    <3>3. TieBreak(a, b) \/ TieBreak(b, a)
      BY <3>1, <3>2 DEF TieBreak
    <3> QED BY <1>3, <2>3, <3>3
  <2> QED BY <2>1, <2>2, <2>3 DEF StrictOrder
<1>6. Lists(Linearize(members, edges, before), members)
  BY <1>1, <1>5, LinearizeLists
<1> QED BY <1>1, <1>2, <1>6

\* The first batch.
LEMMA NextBatchFacts ==
    ASSUME TypeOK, DOMAIN batches # {}
    PROVE  /\ NextBatch \in DOMAIN batches
           /\ \A j \in DOMAIN batches : NextBatch <= j
           /\ batches[NextBatch] \in SUBSET Certificate
           /\ Queue # <<>>
           /\ Head(Queue) = batches[NextBatch]
           /\ Tail(Queue) = Ascending([i \in DOMAIN batches \ {NextBatch} |-> batches[i]])
<1>1. DOMAIN batches \in SUBSET Nat /\ IsFiniteSet(DOMAIN batches)
  BY BatchIndices
<1>2. NextBatch \in DOMAIN batches /\ \A j \in DOMAIN batches : NextBatch <= j
  BY <1>1, MinOfNaturals DEF NextBatch
<1>3. batches[NextBatch] \in SUBSET Certificate
  BY <1>2 DEF TypeOK
<1> HIDE DEF NextBatch
<1> QED BY <1>1, <1>2, <1>3, AscendingRemoved, QueueAscends

\* SliceLog counts with an instance of its own of FiniteSets.
LEMMA SameCount == ASSUME NEW S PROVE Log!Cardinality(S) = Cardinality(S)
  BY DEF Log!Cardinality, Cardinality

\* A part of a batch that is sent, from its beginning.
LEMMA SentPart ==
    ASSUME SentCertificates, NEW members \in SUBSET Certificate,
           NEW k \in 0 .. Len(sort_batch(members)),
           output' = output \o SubSeq(sort_batch(members), 1, k)
    PROVE  /\ SentCertificates'
           /\ \E more \in SUBSET members : Log!Emits(more)
           /\ k = Len(sort_batch(members)) => Log!Emits(members)
<1> DEFINE s == sort_batch(members)
           t == SubSeq(s, 1, k)
           more == FirstOnes(s, k)
<1>1. IsFiniteSet(members) /\ Lists(s, members)
  BY SortBatchLists
<1> HIDE DEF s
<1>2. k \in 0 .. Len(s) /\ output' = output \o t
  BY DEF s
<1>3. /\ more \in SUBSET members
      /\ Cardinality(more) = k
      /\ k = Len(s) => more = members
  <2> HIDE DEF t
  <2>1. k \in 0 .. Len(s)
    BY <1>2
  <2> HIDE DEF more
  <2> QED BY <1>1, <2>1, ListsPrefix DEF more
<1>4. s \in Seq(Certificate)
  BY <1>1 DEF Lists
<1>5. /\ t \in Seq(Certificate)
      /\ Len(t) = k
      /\ \A i \in 1 .. k : t[i] = s[i]
  BY <1>2, <1>4
<1> HIDE DEF t
<1>6. {t[i] : i \in 1 .. Len(t)} = more
  BY <1>5 DEF FirstOnes
<1>7. /\ output' \in Seq(Certificate)
      /\ Len(output') = Len(output) + k
      /\ SubSeq(output', 1, Len(output)) = output
      /\ {output'[i] : i \in (Len(output) + 1) .. Len(output')} = more
  <2> HIDE DEF more
  <2> DEFINE u == output \o t
  <2>1. output \in Seq(Certificate) /\ t \in Seq(Certificate) /\ output' = u
    BY <1>2, <1>5 DEF SentCertificates
  <2>2. /\ u \in Seq(Certificate)
        /\ Len(u) = Len(output) + Len(t)
        /\ SubSeq(u, 1, Len(output)) = output
        /\ OnesAfter(u, Len(output)) = FirstOnes(t, Len(t))
    BY ONLY <2>1, Appended
  <2> HIDE DEF u
  <2> QED BY <2>1, <2>2, <1>5, <1>6 DEF OnesAfter, FirstOnes
<1> HIDE DEF more
<1>8. Log!Emits(more)
  BY <1>3, <1>7, SameCount DEF Log!Emits
<1> QED BY <1>3, <1>7, <1>8 DEF SentCertificates, s

LEMMA InitLog == Init => SentCertificates /\ Log!LogInit
<1> SUFFICES ASSUME Init PROVE SentCertificates /\ Log!LogInit
  OBVIOUS
<1>1. output = <<>> /\ batches = <<>> /\ store = {} /\ phase = "idle"
  BY DEF Init
<1>2. Cardinality(DOMAIN batches) = 0
  BY <1>1, FS_EmptySet
<1>3. Queue = <<>>
  BY <1>2 DEF Queue
<1> QED BY <1>1, <1>3 DEF Log!LogInit, SentCertificates

\* A slice that is taken or ingested is not accepted yet.
LEMMA IngestStutters ==
    ASSUME IInv, SentCertificates,
           ReceiveAny \/ \E v \in todo : AddCertificate(v)
    PROVE  SentCertificates' /\ UNCHANGED Log!logVars
<1>1. /\ output' = output /\ batches' = batches
      /\ phase # "stopped" /\ phase' = "ingest"
  BY DEF ReceiveAny, Take, AddCertificate
<1>2. Queue' = Queue
  BY <1>1 DEF Queue
<1>3. (store \ slice)' = IF phase = "ingest" THEN store \ slice ELSE store
  <2>1. CASE ReceiveAny
    <3>1. phase = "idle" /\ store' = store /\ slice' \cap store = {}
      BY <2>1 DEF ReceiveAny, Take
    <3> QED BY <3>1
  <2>2. ASSUME NEW v \in todo, AddCertificate(v)
        PROVE  (store \ slice)' = IF phase = "ingest" THEN store \ slice ELSE store
    <3>1. phase = "ingest" /\ store' = store \cup {v} /\ slice' = slice /\ v \in slice
      BY <2>2 DEF AddCertificate, IInv, TypeOK
    <3> QED BY <3>1
  <2> QED BY <2>1, <2>2
<1> QED BY <1>1, <1>2, <1>3 DEF Log!logVars, SentCertificates

\* The end of the ingestion accepts the slice.
LEMMA EndIngestAccepts ==
    ASSUME IInv, SentCertificates, EndIngest
    PROVE  SentCertificates' /\ [Log!LogNext]_(Log!logVars)
<1>1. /\ phase = "ingest" /\ phase' = "finalize" /\ todo = {}
      /\ output' = output /\ store' = store /\ slice' = slice
      /\ batches' = IF slice = {} THEN batches
                    ELSE [i \in DOMAIN batches \cup {index} |->
                            IF i = index THEN slice ELSE batches[i]]
  BY DEF EndIngest
<1>2. slice \in SUBSET Certificate /\ slice \subseteq store
  <2>1. slice \ todo \subseteq DOMAIN auf
    BY <1>1 DEF IInv, ActiveExact
  <2> QED BY <1>1, <2>1 DEF IInv, TypeOK
<1>3. CASE slice = {}
  <2>1. Queue' = Queue
    BY <1>1, <1>3 DEF Queue
  <2> QED BY <1>1, <1>3, <2>1 DEF Log!logVars, SentCertificates
<1>4. CASE slice # {}
  <2>1. DOMAIN batches \in SUBSET Nat /\ IsFiniteSet(DOMAIN batches)
    BY BatchIndices DEF IInv
  <2>2. index \in Nat /\ \A j \in DOMAIN batches : j < index
    BY <1>1 DEF IInv, TypeOK, IndexFresh
  <2>3. batches' = [i \in DOMAIN batches \cup {index} |->
                      IF i = index THEN slice ELSE batches[i]]
    BY <1>1, <1>4
  <2>4. Ascending(batches') = Append(Ascending(batches), slice)
    BY <2>1, <2>2, <2>3, AscendingAdded
  <2>5. Queue' = Append(Queue, slice)
    <3>1. Queue = Ascending(batches) /\ Queue' = Ascending(batches')
      BY QueueAscends DEF Ascending, Nth, Upto, Queue
    <3> QED BY <2>4, <3>1
  <2>6. store \ (store \ slice) = slice /\ store \ slice \subseteq store
    BY <1>2
  <2>7. Log!Accept
    BY <1>1, <1>2, <1>4, <2>5, <2>6 DEF Log!Accept
  <2> QED BY <1>1, <2>7 DEF Log!LogNext, SentCertificates
<1> QED BY <1>3, <1>4

\* A batch that is finalized is released.
LEMMA FinalizeReleases ==
    ASSUME IInv, SentCertificates, FinalizeBatch
    PROVE  SentCertificates' /\ Log!Release
<1> DEFINE members == batches[NextBatch]
<1>1. /\ phase = "finalize" /\ phase' = phase /\ store' = store
      /\ DOMAIN batches # {}
      /\ output' = output \o sort_batch(members)
      /\ batches' = [i \in DOMAIN batches \ {NextBatch} |-> batches[i]]
  BY DEF FinalizeBatch
<1>2. /\ members \in SUBSET Certificate
      /\ Queue # <<>>
      /\ Head(Queue) = members
      /\ Tail(Queue) = Ascending([i \in DOMAIN batches \ {NextBatch} |-> batches[i]])
  BY <1>1, NextBatchFacts DEF IInv
<1>3. Queue' = Tail(Queue)
  <2>1. Queue' = Ascending(batches')
    BY DEF Ascending, Nth, Upto, Queue
  <2> QED BY <1>1, <1>2, <2>1
<1> HIDE DEF members
<1>4. SentCertificates' /\ Log!Emits(members)
  <2> DEFINE s == sort_batch(members)
  <2>1. s \in Seq(Certificate) /\ Len(s) \in 0 .. Len(s)
    <3>1. s \in Seq(members)
      BY <1>2, SortBatchLists DEF Lists
    <3> HIDE DEF s
    <3> QED BY <1>2, <3>1
  <2>2. SubSeq(s, 1, Len(s)) = s
    <3> HIDE DEF s
    <3> QED BY <2>1
  <2>3. output' = output \o SubSeq(s, 1, Len(s))
    BY <1>1, <2>2
  <2> QED BY <1>2, <2>1, <2>3, SentPart
<1>5. Log!Release
  BY <1>1, <1>2, <1>3, <1>4 DEF Log!Release
<1> QED BY <1>4, <1>5

\* When sending fails the log is closed.
LEMMA SendFailsCloses ==
    ASSUME IInv, SentCertificates, SendFails
    PROVE  SentCertificates' /\ Log!Close
<1> DEFINE members == batches[NextBatch]
           s == sort_batch(members)
<1>1. /\ phase = "finalize" /\ phase' = "stopped"
      /\ store' = store /\ batches' = batches
      /\ DOMAIN batches # {}
  BY DEF SendFails
<1>2. PICK k \in 0 .. (Len(s) - 1) : output' = output \o SubSeq(s, 1, k)
  BY DEF SendFails
<1>3. members \in SUBSET Certificate /\ Queue # <<>> /\ Head(Queue) = members
  BY <1>1, NextBatchFacts DEF IInv
<1>4. k \in 0 .. Len(s)
  <2>1. Len(s) \in Nat
    <3>1. s \in Seq(members)
      BY <1>3, SortBatchLists DEF Lists
    <3> HIDE DEF s
    <3> QED BY <3>1
  <2> HIDE DEF s
  <2> QED BY <2>1
<1> HIDE DEF members
<1>5. SentCertificates' /\ \E more \in SUBSET members : Log!Emits(more)
  BY <1>2, <1>3, <1>4, SentPart
<1>6. PICK more \in SUBSET members : Log!Emits(more)
  BY <1>5
<1>7. {output'[i] : i \in (Len(output) + 1) .. Len(output')} = more
  BY <1>6 DEF Log!Emits
<1>8. Queue' = Queue
  BY <1>1 DEF Queue
<1>9. Log!Close
  BY <1>1, <1>3, <1>6, <1>7, <1>8 DEF Log!Close
<1> QED BY <1>5, <1>9

LEMMA StepLog ==
    IInv /\ SentCertificates /\ [NextAny]_vars => SentCertificates' /\ [Log!LogNext]_(Log!logVars)
<1> SUFFICES ASSUME IInv, SentCertificates, [NextAny]_vars
             PROVE  SentCertificates' /\ [Log!LogNext]_(Log!logVars)
  OBVIOUS
<1>1. CASE ReceiveAny \/ \E v \in todo : AddCertificate(v)
  BY <1>1, IngestStutters
<1>2. CASE EndIngest
  BY <1>2, EndIngestAccepts
<1>3. CASE FinalizeBatch
  BY <1>3, FinalizeReleases DEF Log!LogNext
<1>4. CASE SendFails
  BY <1>4, SendFailsCloses DEF Log!LogNext
<1>5. CASE FinalizeDone \/ UNCHANGED vars
  <2>1. /\ output' = output /\ batches' = batches /\ store' = store /\ slice' = slice
        /\ phase' = phase \/ (phase = "finalize" /\ phase' = "idle")
    BY <1>5 DEF FinalizeDone, vars
  <2>2. Queue' = Queue
    BY <2>1 DEF Queue
  <2> QED BY <2>1, <2>2 DEF Log!logVars, SentCertificates
<1> QED BY <1>1, <1>2, <1>3, <1>4, <1>5 DEF NextAny

\* Whatever slices the consensus outputs, as long as it commits no certificate
\* twice, the executor sends them whole, once and in order.
THEOREM AnySlicesInOrder == SpecAny => KeepsPromise
<1>1. Init => SentCertificates /\ Log!LogInit
  BY InitLog
<1>2. IInv /\ SentCertificates /\ [NextAny]_vars
         => SentCertificates' /\ [Log!LogNext]_(Log!logVars)
  BY StepLog
<1> QED BY <1>1, <1>2, SafetyForAnySlices, PTL DEF SpecAny, KeepsPromise, Log!LogSpec

\* on_committed_batch and try_finalize_batches release the slices of the
\* leaders as SliceLog says.
THEOREM ReleasesInOrder == Spec => KeepsPromise
<1>1. Init => SentCertificates /\ Log!LogInit
  BY InitLog
<1>2. IInv /\ UpToLeader /\ SentCertificates /\ [Next]_vars
         => SentCertificates' /\ [Log!LogNext]_(Log!logVars)
  BY StepIsAny, StepLog
<1> QED BY <1>1, <1>2, SpecInvariant, PTL DEF Spec, KeepsPromise, Log!LogSpec

-----------------------------------------------------------------------------
(***************************************************************************)
(* The algorithm of sort_batch (module KosarajuOrder), for every number of *)
(* nodes and every graph of verdicts: its two searches find the strongly   *)
(* connected components, and the emission loop puts them out as Linearize  *)
(* does.                                                                   *)
(*                                                                         *)
(* The forward search leaves the nodes in an order in which a node that    *)
(* leads to another one, and is not led back to, is in a component with a  *)
(* node that is finished later (FinishOrder). So what the reverse search   *)
(* collects from the node that finished last, of those without a           *)
(* component, is one component.                                            *)
(***************************************************************************)
(***************************************************************************)
(* The inductive invariant.                                                *)
(***************************************************************************)

\* There is a path from a to b; there is one back as well.
Path(a, b) == <<a, b>> \in Paths(Nodes, graph)

Joined(a, b) == Path(a, b) /\ Path(b, a)

IsComponent(c) == \E a \in Nodes : c = {b \in Nodes : Joined(a, b)}

\* The nodes of the calls in progress, and the finished ones.
Gray == Elements(stack)

Black == Elements(finished)

\* A node that leads to a finished one is led back to, or it is in a
\* component with a node that finishes later.
FinishOrder ==
    \A j \in DOMAIN finished, a \in Nodes :
        Path(a, finished[j]) =>
            \/ Path(finished[j], a)
            \/ \E b \in Nodes : Joined(a, b) /\ \A k \in 1 .. j : finished[k] # b

\* The calls in progress are on one path; what leaves the finished nodes is
\* visited; and a finished node is in a component with one of a call in
\* progress, or leads to finished nodes only.
ForwardInv ==
    /\ visited = Black \cup Gray
    /\ Black \cap Gray = {}
    /\ \A i, j \in DOMAIN stack : stack[i] = stack[j] => i = j
    /\ \A i, j \in DOMAIN stack : i <= j => Path(stack[i], stack[j])
    /\ \A a \in Black : Successors(a) \subseteq visited
    /\ \A a \in Black : \/ \E b \in Gray : Joined(a, b)
                        \/ \A b \in Nodes : Path(a, b) => b \in Black
    /\ components = <<>>

\* The nodes of the components that are complete.
Complete == IF stack = <<>> THEN Len(components) ELSE Len(components) - 1

Assigned == UNION {components[i] : i \in 1 .. Complete}

\* What leads to a visited node, other than one of a call in progress, is
\* visited; and what leads to the node that the last component was begun with
\* is led back to, unless it is in a component already.
ReverseInv ==
    /\ visited = UNION Elements(components)
    /\ Nodes \subseteq visited \cup Black
    /\ \A i \in 1 .. Complete : IsComponent(components[i])
    /\ \A i, j \in DOMAIN components : i # j => components[i] \cap components[j] = {}
    /\ \A a \in visited \ Gray : Predecessors(a) \subseteq visited
    /\ stack # <<>> =>
          /\ components # <<>>
          /\ Gray \subseteq Last(components)
          /\ \A a \in Last(components) : Path(a, stack[1])
          /\ \A a \in Nodes \ Assigned : Path(a, stack[1]) => Path(stack[1], a)

\* The components that are not emitted, and their nodes.
Remaining == {j \in DOMAIN components : components[j] \cap Elements(sorted) = {}}

Rest == Nodes \ Elements(sorted)

ComponentsExact ==
    /\ UNION Elements(components) = Nodes
    /\ \A i \in DOMAIN components : IsComponent(components[i])
    /\ \A i, j \in DOMAIN components : i # j => components[i] \cap components[j] = {}

\* What the linearization makes of the remaining nodes is what is missing.
Continued ==
    /\ sorted \o LinearOrder(Nodes, graph, Less)[Rest] = Linearize(Nodes, graph, Less)
    /\ \A i, j \in DOMAIN sorted :
          (<<sorted[i], sorted[j]>> \in graph /\ j < i) => Path(sorted[j], sorted[i])

\* The in-degrees count the components that remain, and no edge leads from
\* those to one that is emitted.
EmitInv ==
    /\ ComponentsExact
    /\ Rest = UNION {components[j] : j \in Remaining}
    /\ degree = [j \in DOMAIN components |->
                    Cardinality({i \in Remaining : <<i, j>> \in ComponentEdges})]
    /\ ready = {j \in Remaining : degree[j] = 0}
    /\ \A i \in Remaining, j \in DOMAIN components : <<i, j>> \in ComponentEdges => j \in Remaining
    /\ Continued

SortInv ==
    /\ SortTypes
    /\ pc = "forward" => ForwardInv /\ FinishOrder /\ sorted = <<>>
    /\ pc = "reverse" => ReverseInv /\ FinishOrder /\ sorted = <<>>
    /\ pc = "emit" => EmitInv
    /\ pc = "done" => Continued /\ Rest = {}

-----------------------------------------------------------------------------
(***************************************************************************)
(* Nodes, sequences and paths.                                             *)
(***************************************************************************)

\* The nodes are finitely many numbers, ordered by Less; every loop goes on
\* with one of the nodes it has left, the least one.
LEMMA NodesFacts ==
    ASSUME NumNodes \in Nat
    PROVE  /\ IsFiniteSet(Nodes) /\ Cardinality(Nodes) = NumNodes /\ Nodes \subseteq Nat
           /\ StrictOrder(Nodes, Less)
           /\ \A S \in SUBSET Nodes : S # {} => Min(S) \in S /\ \A a \in S : Min(S) <= a
<1>1. IsFiniteSet(Nodes) /\ Cardinality(Nodes) = NumNodes /\ Nodes \subseteq Nat
  BY FS_Interval DEF Nodes
<1>2. StrictOrder(Nodes, Less)
  BY <1>1 DEF StrictOrder, Less
<1>3. \A S \in SUBSET Nodes : S # {} => Min(S) \in S /\ \A a \in S : Min(S) <= a
  BY <1>1, MinOfNaturals
<1> QED BY <1>1, <1>2, <1>3

\* A sequence with an element more.
LEMMA AppendFacts ==
    ASSUME NEW S, NEW s \in Seq(S), NEW a \in S
    PROVE  /\ Append(s, a) \in Seq(S)
           /\ Len(s) \in Nat /\ DOMAIN s = 1 .. Len(s)
           /\ Len(Append(s, a)) = Len(s) + 1
           /\ DOMAIN Append(s, a) = 1 .. (Len(s) + 1)
           /\ \A i \in 1 .. Len(s) : Append(s, a)[i] = s[i]
           /\ Append(s, a)[Len(s) + 1] = a
           /\ Last(Append(s, a)) = a
           /\ Append(s, a) # <<>>
           /\ Elements(Append(s, a)) = Elements(s) \cup {a}
<1>1. /\ Append(s, a) \in Seq(S)
      /\ Len(s) \in Nat /\ DOMAIN s = 1 .. Len(s)
      /\ Len(Append(s, a)) = Len(s) + 1
      /\ DOMAIN Append(s, a) = 1 .. (Len(s) + 1)
      /\ \A i \in 1 .. Len(s) : Append(s, a)[i] = s[i]
      /\ Append(s, a)[Len(s) + 1] = a
  OBVIOUS
<1>2. Append(s, a) # <<>>
  BY <1>1
<1> DEFINE t == Append(s, a)
<1> HIDE DEF t
<1>3. Elements(t) = Elements(s) \cup {a}
  <2>1. DOMAIN t = DOMAIN s \cup {Len(s) + 1}
    BY <1>1 DEF t
  <2>2. \A i \in DOMAIN s : t[i] = s[i]
    BY <1>1 DEF t
  <2>3. t[Len(s) + 1] = a
    BY <1>1 DEF t
  <2> QED BY <2>1, <2>2, <2>3 DEF Elements
<1> QED BY <1>1, <1>2, <1>3 DEF Last, t

\* A sequence without its last element.
LEMMA FrontFacts ==
    ASSUME NEW S, NEW s \in Seq(S), s # <<>>
    PROVE  /\ Front(s) \in Seq(S)
           /\ Len(s) \in Nat \ {0} /\ DOMAIN s = 1 .. Len(s)
           /\ Len(Front(s)) = Len(s) - 1
           /\ DOMAIN Front(s) = 1 .. (Len(s) - 1)
           /\ \A i \in 1 .. (Len(s) - 1) : Front(s)[i] = s[i]
           /\ Last(s) \in S
           /\ Elements(s) = Elements(Front(s)) \cup {Last(s)}
<1>1. Len(s) \in Nat \ {0} /\ DOMAIN s = 1 .. Len(s)
  OBVIOUS
<1>2. /\ Front(s) \in Seq(S)
      /\ Len(Front(s)) = Len(s) - 1
      /\ \A i \in 1 .. (Len(s) - 1) : Front(s)[i] = s[i]
  BY <1>1 DEF Front
<1>3. Last(s) \in S
  BY <1>1 DEF Last
<1> DEFINE t == Front(s)
           n == Len(s)
<1> HIDE DEF t, n
<1>4. DOMAIN t = 1 .. (n - 1)
  <2>1. t \in Seq(S) /\ Len(t) = n - 1
    BY <1>2 DEF t, n
  <2> QED BY <2>1
<1>5. Elements(s) = Elements(t) \cup {s[n]}
  <2>1. DOMAIN s = DOMAIN t \cup {n}
    BY <1>1, <1>4 DEF n
  <2>2. \A i \in DOMAIN t : t[i] = s[i]
    BY <1>2, <1>4 DEF t, n
  <2> QED BY <2>1, <2>2 DEF Elements
<1> QED BY <1>1, <1>2, <1>3, <1>4, <1>5 DEF t, n, Last

\* What sequences have.
LEMMA ElementsFacts ==
    /\ Elements(<<>>) = {}
    /\ \A S : \A s \in Seq(S) : /\ Elements(s) \subseteq S
                                /\ Len(s) \in Nat /\ DOMAIN s = 1 .. Len(s)
                                /\ s # <<>> => Last(s) \in Elements(s) /\ Len(s) \in DOMAIN s
<1>1. Elements(<<>>) = {}
  BY DEF Elements
<1>2. ASSUME NEW S, NEW s \in Seq(S), s # <<>>
      PROVE  Last(s) \in Elements(s) /\ Len(s) \in DOMAIN s
  BY <1>2 DEF Elements, Last
<1> QED BY <1>1, <1>2 DEF Elements

\* The relation of the paths, and its components.
LEMMA PathFacts ==
    ASSUME NumNodes \in Nat
    PROVE  /\ \A a \in Nodes : Path(a, a)
           /\ \A a, b, c \in Nodes : Path(a, b) /\ Path(b, c) => Path(a, c)
           /\ \A a, b \in Nodes : <<a, b>> \in graph => Path(a, b)
  BY NodesFacts, PathsFacts, PathsOfEdges DEF Path

\* A path that leaves a set does it along an edge.
LEMMA PathLeaves ==
    ASSUME NumNodes \in Nat, NEW T \in SUBSET Nodes, NEW a \in T, NEW b \in Nodes \ T, Path(a, b)
    PROVE  \E p \in T, z \in Nodes \ T : <<p, z>> \in graph /\ Path(a, p) /\ Path(a, z)
<1> DEFINE U == {x \in T : Path(a, x)}
<1>1. U \in SUBSET Nodes /\ a \in U /\ b \notin U
  BY PathFacts
<1>2. ~ Closed(Nodes, graph, U)
  <2> HIDE DEF U
  <2> QED BY <1>1, NodesFacts, PathsOfEdges DEF Path
<1>3. PICK p \in U, z \in Nodes : <<p, z>> \in graph /\ z \notin U
  <2> HIDE DEF U
  <2> QED BY <1>2 DEF Closed
<1>4. Path(a, z)
  <2>1. Path(a, p) /\ Path(p, z)
    BY <1>3, PathFacts
  <2> QED BY <2>1, PathFacts
<1> QED BY <1>3, <1>4

-----------------------------------------------------------------------------
(***************************************************************************)
(* The forward search.                                                     *)
(***************************************************************************)

\* A call of dfs_forward goes along an edge from the innermost call.
LEMMA CallForwardInv ==
    ASSUME NumNodes \in Nat, SortTypes, ForwardInv, FinishOrder, CallForward
    PROVE  ForwardInv' /\ FinishOrder'
<1> DEFINE a == Min(ForwardLoop)
           n == Len(stack)
<1>1. /\ a \in Nodes \ visited
      /\ stack # <<>> => <<Last(stack), a>> \in graph
  <2>1. ForwardLoop \in SUBSET Nodes /\ ForwardLoop # {}
    BY DEF CallForward, ForwardLoop, Successors
  <2>2. a \in ForwardLoop
    BY <2>1, NodesFacts
  <2> QED BY <2>1, <2>2 DEF ForwardLoop, Successors
<1>2. /\ stack' = Append(stack, a) /\ visited' = visited \cup {a}
      /\ graph' = graph /\ finished' = finished /\ components' = components
  BY DEF CallForward, Call
<1> HIDE DEF a
<1>3. stack \in Seq(Nodes)
  BY DEF SortTypes
<1>4. /\ n \in Nat /\ DOMAIN stack = 1 .. n
      /\ DOMAIN stack' = 1 .. (n + 1)
      /\ \A i \in 1 .. n : stack'[i] = stack[i] /\ stack[i] \in Nodes
      /\ stack'[n + 1] = a
      /\ Gray' = Gray \cup {a}
  BY <1>1, <1>2, <1>3, AppendFacts DEF Gray
<1>5. stack # <<>> => n \in 1 .. n /\ Last(stack) = stack[n]
  BY <1>3, ElementsFacts DEF Last
<1> HIDE DEF n
<1>6. Black' = Black
  BY <1>2 DEF Black
<1>7. \A i \in 1 .. n : stack[i] \in Gray /\ stack[i] # a
  <2>1. \A i \in 1 .. n : stack[i] \in Gray
    BY <1>4 DEF Gray, Elements
  <2> QED BY <1>1, <2>1 DEF ForwardInv
<1>8. \A i, j \in DOMAIN stack' : stack'[i] = stack'[j] => i = j
  <2>1. \A i, j \in 1 .. n : stack[i] = stack[j] => i = j
    BY <1>4 DEF ForwardInv
  <2>2. \A i \in DOMAIN stack' : i \in 1 .. n \/ i = n + 1
    BY <1>4
  <2> QED BY <1>4, <1>7, <2>1, <2>2
<1>9. \A i, j \in DOMAIN stack' : i <= j => Path(stack'[i], stack'[j])
  <2> SUFFICES ASSUME NEW i \in 1 .. (n + 1), NEW j \in 1 .. (n + 1), i <= j
               PROVE  Path(stack'[i], stack'[j])
    BY <1>4
  <2>1. CASE j \in 1 .. n
    <3>1. i \in 1 .. n
      BY <1>4, <2>1
    <3> QED BY <1>4, <2>1, <3>1 DEF ForwardInv
  <2>2. CASE j = n + 1 /\ i \in 1 .. n
    <3>1. n \in 1 .. n /\ i <= n /\ Last(stack) = stack[n] /\ stack # <<>>
      <4>1. stack # <<>>
        <5>1. stack = <<>> => DOMAIN stack = {}
          OBVIOUS
        <5> QED BY <1>4, <2>2, <5>1
      <4> QED BY <1>4, <1>5, <2>2, <4>1
    <3>2. Path(stack[i], stack[n])
      BY <1>4, <2>2, <3>1 DEF ForwardInv
    <3>3. Path(stack[n], a)
      BY <1>1, <1>4, <3>1, PathFacts
    <3>4. stack[i] \in Nodes /\ stack[n] \in Nodes /\ a \in Nodes
      BY <1>1, <1>4, <2>2, <3>1
    <3>5. Path(stack[i], a)
      BY <3>2, <3>3, <3>4, PathFacts
    <3> QED BY <1>4, <2>2, <3>5
  <2>3. CASE j = n + 1 /\ i = n + 1
    BY <1>1, <1>4, <2>3, PathFacts
  <2> QED BY <1>4, <2>1, <2>2, <2>3
<1>10. ForwardInv'
  <2>1. (visited = Black \cup Gray)' /\ (Black \cap Gray = {})'
    BY <1>1, <1>2, <1>4, <1>6 DEF ForwardInv
  <2>2. (\A i, j \in DOMAIN stack : i <= j => Path(stack[i], stack[j]))'
    BY <1>2, <1>9 DEF Path
  <2>3. (\A b \in Black : Successors(b) \subseteq visited)'
    BY <1>2, <1>6 DEF ForwardInv, Successors
  <2>4. (\A c \in Black : \/ \E b \in Gray : Joined(c, b)
                          \/ \A b \in Nodes : Path(c, b) => b \in Black)'
    BY <1>2, <1>4, <1>6 DEF ForwardInv, Joined, Path
  <2> QED BY <1>2, <1>8, <2>1, <2>2, <2>3, <2>4 DEF ForwardInv
<1>11. \A j \in DOMAIN finished', b \in Nodes :
          Path(b, finished'[j]) =>
             \/ Path(finished'[j], b)
             \/ \E c \in Nodes : Joined(b, c) /\ \A k \in 1 .. j : finished'[k] # c
  BY <1>2 DEF FinishOrder
<1>12. FinishOrder'
  BY <1>2, <1>11 DEF FinishOrder, Joined, Path
<1> QED BY <1>10, <1>12

\* When dfs_forward returns for a node, everything that it leads to and that
\* is not finished is in a component with an outer call.
LEMMA ReturnForwardInv ==
    ASSUME NumNodes \in Nat, SortTypes, ForwardInv, FinishOrder, ReturnForward
    PROVE  ForwardInv' /\ FinishOrder'
<1> DEFINE t == Last(stack)
           n == Len(stack)
           m == Len(finished)
<1>1. /\ stack \in Seq(Nodes) /\ stack # <<>> /\ finished \in Seq(Nodes)
      /\ stack' = Front(stack) /\ finished' = Append(finished, t)
      /\ graph' = graph /\ visited' = visited /\ components' = components
  BY DEF SortTypes, ReturnForward, Return
<1>2. /\ n \in Nat \ {0} /\ DOMAIN stack = 1 .. n
      /\ DOMAIN stack' = 1 .. (n - 1)
      /\ \A i \in 1 .. (n - 1) : stack'[i] = stack[i]
      /\ t \in Nodes /\ t = stack[n]
      /\ Gray = Gray' \cup {t}
  BY <1>1, FrontFacts DEF Gray, Last
<1>3. /\ m \in Nat /\ DOMAIN finished = 1 .. m
      /\ DOMAIN finished' = 1 .. (m + 1)
      /\ \A i \in 1 .. m : finished'[i] = finished[i]
      /\ finished'[m + 1] = t
      /\ Black' = Black \cup {t}
  BY <1>1, <1>2, AppendFacts DEF Black
<1>4. Successors(t) \subseteq visited
  BY <1>1 DEF ReturnForward, ForwardLoop
<1> HIDE DEF t, n, m
<1>5. t \notin Gray' /\ t \in Gray /\ t \notin Black
  <2>1. \A i \in 1 .. (n - 1) : stack[i] # t
    BY <1>2 DEF ForwardInv
  <2>2. t \notin Gray'
    BY <1>2, <2>1 DEF Gray, Elements
  <2> QED BY <1>2, <2>2 DEF ForwardInv
<1>6. \A z \in Gray' : z \in Nodes /\ Path(z, t)
  <2> SUFFICES ASSUME NEW i \in 1 .. (n - 1)
               PROVE  stack[i] \in Nodes /\ Path(stack[i], t)
    BY <1>2 DEF Gray, Elements
  <2>1. i \in 1 .. n /\ n \in 1 .. n /\ i <= n
    BY <1>2
  <2>2. Path(stack[i], stack[n])
    BY <1>2, <2>1 DEF ForwardInv
  <2> QED BY <1>1, <1>2, <2>1, <2>2
<1>7. visited' = Black' \cup Gray' /\ Black' \cap Gray' = {}
  BY <1>1, <1>2, <1>3, <1>5 DEF ForwardInv
<1>8. Black' \subseteq Nodes /\ Black \subseteq Nodes /\ Gray \subseteq Nodes
  <2>1. Black \subseteq Nodes /\ Gray \subseteq Nodes
    BY <1>1, ElementsFacts DEF Black, Gray
  <2> QED BY <1>2, <1>3, <2>1
<1>9. \A a \in Black' : Successors(a) \subseteq visited'
  BY <1>1, <1>3, <1>4 DEF ForwardInv
<1>10. \/ \E b \in Gray' : Joined(t, b)
       \/ \A b \in Nodes : Path(t, b) => b \in Black'
  <2> SUFFICES ASSUME NEW b \in Nodes, Path(t, b), b \notin Black'
               PROVE  \E z \in Gray' : Joined(t, z)
    OBVIOUS
  <2>1. PICK p \in Black', z \in Nodes \ Black' : <<p, z>> \in graph /\ Path(t, z)
    <3>1. Black' \in SUBSET Nodes /\ t \in Black' /\ b \in Nodes \ Black'
      BY <1>3, <1>8
    <3> QED BY <3>1, PathLeaves
  <2>2. z \in Gray'
    BY <1>7, <1>9, <2>1 DEF Successors
  <2> QED BY <1>6, <2>1, <2>2 DEF Joined
<1>11. \A a \in Black' : \/ \E b \in Gray' : Joined(a, b)
                         \/ \A b \in Nodes : Path(a, b) => b \in Black'
  <2> SUFFICES ASSUME NEW a \in Black
               PROVE  \/ \E b \in Gray' : Joined(a, b)
                      \/ \A b \in Nodes : Path(a, b) => b \in Black'
    BY <1>3, <1>10
  <2>1. \/ \E b \in Gray : Joined(a, b)
        \/ \A b \in Nodes : Path(a, b) => b \in Black
    BY DEF ForwardInv
  <2>2. CASE Joined(a, t)
    <3>1. CASE \E b \in Gray' : Joined(t, b)
      <4>1. PICK b \in Gray' : Joined(t, b)
        BY <3>1
      <4>2. Joined(a, b)
        BY <1>2, <1>6, <1>8, <2>2, <4>1, PathFacts DEF Joined
      <4> QED BY <4>2
    <3>2. CASE \A b \in Nodes : Path(t, b) => b \in Black'
      BY <1>2, <1>8, <2>2, <3>2, PathFacts DEF Joined
    <3> QED BY <1>10, <3>1, <3>2
  <2>3. CASE \E b \in Gray' : Joined(a, b)
    BY <2>3
  <2>4. CASE \A b \in Nodes : Path(a, b) => b \in Black
    BY <1>3, <2>4
  <2> QED BY <1>2, <2>1, <2>2, <2>3, <2>4
<1>12. ForwardInv'
  <2>1. (\A i, j \in DOMAIN stack : stack[i] = stack[j] => i = j)'
    <3>1. \A i, j \in 1 .. (n - 1) : stack[i] = stack[j] => i = j
      BY <1>2 DEF ForwardInv
    <3> QED BY <1>2, <3>1
  <2>2. (\A i, j \in DOMAIN stack : i <= j => Path(stack[i], stack[j]))'
    <3>1. \A i, j \in 1 .. (n - 1) : i <= j => Path(stack[i], stack[j])
      BY <1>2 DEF ForwardInv
    <3> QED BY <1>1, <1>2, <3>1 DEF Path
  <2>3. (\A a \in Black : Successors(a) \subseteq visited)'
    BY <1>1, <1>9 DEF Successors
  <2>4. (\A a \in Black : \/ \E b \in Gray : Joined(a, b)
                          \/ \A b \in Nodes : Path(a, b) => b \in Black)'
    BY <1>1, <1>11 DEF Joined, Path
  <2>5. components' = <<>>
    BY <1>1 DEF ForwardInv
  <2> QED BY <1>7, <2>1, <2>2, <2>3, <2>4, <2>5 DEF ForwardInv
<1>13. \A j \in DOMAIN finished', a \in Nodes :
          Path(a, finished'[j]) =>
             \/ Path(finished'[j], a)
             \/ \E b \in Nodes : Joined(a, b) /\ \A k \in 1 .. j : finished'[k] # b
  <2> SUFFICES ASSUME NEW j \in 1 .. (m + 1), NEW a \in Nodes, Path(a, finished'[j]),
                      ~ Path(finished'[j], a)
               PROVE  \E b \in Nodes : Joined(a, b) /\ \A k \in 1 .. j : finished'[k] # b
    BY <1>3
  <2>1. CASE j \in 1 .. m
    <3>1. finished'[j] = finished[j] /\ \A k \in 1 .. j : k \in 1 .. m
      BY <1>3, <2>1
    <3>2. PICK b \in Nodes : Joined(a, b) /\ \A k \in 1 .. j : finished[k] # b
      BY <1>3, <2>1, <3>1 DEF FinishOrder
    <3> QED BY <1>3, <3>1, <3>2
  <2>2. CASE j = m + 1
    <3>1. Path(a, t) /\ ~ Path(t, a)
      BY <1>3, <2>2
    <3>2. \A b \in Nodes \ Black' : \A k \in 1 .. j : finished'[k] # b
      BY <1>3, <2>2 DEF Black, Elements
    <3>3. Joined(a, a)
      BY PathFacts DEF Joined
    <3>4. CASE a \notin Black'
      BY <3>2, <3>3, <3>4
    <3>5. CASE a \in Black'
      <4>1. a \in Black
        BY <1>3, <3>1, <3>5
      <4>2. PICK b \in Gray : Joined(a, b)
        BY <1>2, <1>5, <3>1, <4>1 DEF ForwardInv
      <4>3. b \in Gray' /\ b \in Nodes \ Black'
        BY <1>2, <1>7, <1>8, <3>1, <4>2 DEF Joined
      <4> QED BY <3>2, <4>2, <4>3
    <3> QED BY <3>4, <3>5
  <2> QED BY <1>3, <2>1, <2>2
<1>14. FinishOrder'
  BY <1>1, <1>13 DEF FinishOrder, Joined, Path
<1> QED BY <1>12, <1>14

-----------------------------------------------------------------------------
(***************************************************************************)
(* The reverse search.                                                     *)
(***************************************************************************)

\* The forward search has finished every node.
LEMMA BeginReverseInv ==
    ASSUME NumNodes \in Nat, SortTypes, ForwardInv, FinishOrder, BeginReverse
    PROVE  ReverseInv' /\ FinishOrder'
<1>1. /\ stack = <<>> /\ stack' = <<>> /\ components = <<>> /\ components' = <<>>
      /\ visited' = {} /\ finished' = finished /\ graph' = graph
      /\ Nodes \subseteq visited
  BY DEF BeginReverse, ForwardLoop, ForwardInv
<1>2. Black' = Black /\ Nodes \subseteq Black
  <2>1. Gray = {}
    BY <1>1, ElementsFacts DEF Gray
  <2> QED BY <1>1, <2>1 DEF ForwardInv, Black
<1>3. Elements(components)' = {} /\ DOMAIN components' = {} /\ Complete' = 0
  BY <1>1, ElementsFacts DEF Complete
<1>4. ReverseInv'
  BY <1>1, <1>2, <1>3 DEF ReverseInv
<1>5. \A j \in DOMAIN finished', b \in Nodes :
          Path(b, finished'[j]) =>
             \/ Path(finished'[j], b)
             \/ \E c \in Nodes : Joined(b, c) /\ \A k \in 1 .. j : finished'[k] # c
  BY <1>1 DEF FinishOrder
<1>6. FinishOrder'
  BY <1>1, <1>5 DEF FinishOrder, Joined, Path
<1> QED BY <1>4, <1>6

\* A component is begun with the node that finished last: what leads to it is
\* led back to, unless it is in a component already.
LEMMA PopFinishedInv ==
    ASSUME NumNodes \in Nat, SortTypes, ReverseInv, FinishOrder, PopFinished
    PROVE  ReverseInv' /\ FinishOrder'
<1> DEFINE t == Last(finished)
           m == Len(finished)
           n == Len(components)
<1>1. /\ stack = <<>> /\ finished # <<>> /\ finished' = Front(finished) /\ graph' = graph
      /\ finished \in Seq(Nodes) /\ components \in Seq(SUBSET Nodes) /\ visited \subseteq Nodes
  BY DEF SortTypes, PopFinished
<1>2. /\ m \in Nat \ {0} /\ DOMAIN finished = 1 .. m
      /\ DOMAIN finished' = 1 .. (m - 1)
      /\ \A i \in 1 .. (m - 1) : finished'[i] = finished[i]
      /\ t \in Nodes /\ t = finished[m]
      /\ Black = Black' \cup {t}
  BY <1>1, FrontFacts DEF Black, Last
<1>3. n \in Nat /\ DOMAIN components = 1 .. n /\ Complete = n
  BY <1>1, ElementsFacts DEF Complete
<1>4. IF t \in visited
      THEN stack' = stack /\ visited' = visited /\ components' = components
      ELSE /\ stack' = Append(stack, t) /\ visited' = visited \cup {t}
           /\ components' = Append(components, {t})
  BY DEF PopFinished, Call
<1> HIDE DEF t, m, n
<1>5. FinishOrder'
  <2>1. \A j \in 1 .. (m - 1), a \in Nodes :
           Path(a, finished'[j]) =>
              \/ Path(finished'[j], a)
              \/ \E b \in Nodes : Joined(a, b) /\ \A k \in 1 .. j : finished'[k] # b
    <3> SUFFICES ASSUME NEW j \in 1 .. (m - 1), NEW a \in Nodes, Path(a, finished'[j]),
                        ~ Path(finished'[j], a)
                 PROVE  \E b \in Nodes : Joined(a, b) /\ \A k \in 1 .. j : finished'[k] # b
      OBVIOUS
    <3>1. j \in 1 .. m /\ \A k \in 1 .. j : k \in 1 .. (m - 1)
      BY <1>2
    <3>2. PICK b \in Nodes : Joined(a, b) /\ \A k \in 1 .. j : finished[k] # b
      BY <1>2, <3>1 DEF FinishOrder
    <3> QED BY <1>2, <3>1, <3>2
  <2> QED BY <1>1, <1>2, <2>1 DEF FinishOrder, Joined, Path
<1>6. /\ Gray = {} /\ visited = UNION {components[i] : i \in 1 .. n}
      /\ Assigned = visited
  BY <1>1, <1>3, ElementsFacts DEF ReverseInv, Assigned, Elements, Gray
<1>7. CASE t \in visited
  <2>1. stack' = stack /\ visited' = visited /\ components' = components
    BY <1>4, <1>7
  <2>2. Gray' = Gray /\ Complete' = Complete /\ stack' = <<>>
    BY <1>1, <2>1 DEF Gray, Complete
  <2>3. (Nodes \subseteq visited \cup Black)'
    BY <1>2, <1>7, <2>1 DEF ReverseInv
  <2>4. (\A i \in 1 .. Complete : IsComponent(components[i]))'
    <3>1. \A i \in 1 .. n : IsComponent(components[i])
      BY <1>3 DEF ReverseInv
    <3> QED BY <1>1, <1>3, <2>1, <2>2, <3>1 DEF IsComponent, Joined, Path
  <2>5. (\A a \in visited \ Gray : Predecessors(a) \subseteq visited)'
    BY <1>1, <2>1, <2>2 DEF ReverseInv, Predecessors
  <2> QED BY <1>5, <2>1, <2>2, <2>3, <2>4, <2>5 DEF ReverseInv
<1>8. CASE t \notin visited
  <2>1. /\ stack' = Append(stack, t) /\ visited' = visited \cup {t}
        /\ components' = Append(components, {t})
    BY <1>4, <1>8
  <2>2. stack' # <<>> /\ stack' = <<t>> /\ stack'[1] = t /\ Gray' = {t}
    <3>1. stack' = <<t>>
      BY <1>1, <2>1
    <3> QED BY <3>1 DEF Gray, Elements
  <2>3. /\ DOMAIN components' = 1 .. (n + 1) /\ Len(components') = n + 1
        /\ \A i \in 1 .. n : components'[i] = components[i]
        /\ components'[n + 1] = {t} /\ components' # <<>>
        /\ Elements(components)' = Elements(components) \cup {{t}}
        /\ Last(components)' = {t}
    <3>1. {t} \in SUBSET Nodes
      BY <1>2
    <3>2. n = Len(components)
      BY DEF n
    <3> DEFINE c == {t}
               S == SUBSET Nodes
    <3>0. c \in S /\ components \in Seq(S)
      BY <1>1, <3>1
    <3> HIDE DEF c, S
    <3>3. /\ DOMAIN Append(components, c) = 1 .. (Len(components) + 1)
          /\ Len(Append(components, c)) = Len(components) + 1
          /\ \A i \in 1 .. Len(components) : Append(components, c)[i] = components[i]
          /\ Append(components, c)[Len(components) + 1] = c
          /\ Append(components, c) # <<>>
          /\ Elements(Append(components, c)) = Elements(components) \cup {c}
          /\ Last(Append(components, c)) = c
      BY <3>0, AppendFacts
    <3>4. components' = Append(components, c)
      BY <2>1 DEF c
    <3>5. Last(components)' = c /\ Elements(components)' = Elements(components) \cup {c}
      BY <3>3, <3>4
    <3> QED BY <3>2, <3>3, <3>4, <3>5 DEF c
  <2>4. Complete' = n /\ Assigned' = visited
    <3>1. Complete' = n
      BY <1>3, <2>2, <2>3 DEF Complete
    <3> QED BY <1>6, <2>3, <3>1 DEF Assigned
  <2>5. (visited = UNION Elements(components))'
    <3>1. visited = UNION Elements(components)
      BY <1>3 DEF ReverseInv
    <3>2. visited' = visited \cup {t} /\ Elements(components)' = Elements(components) \cup {{t}}
      BY <2>1, <2>3
    <3> QED BY <3>1, <3>2
  <2>6. (Nodes \subseteq visited \cup Black)'
    BY <1>2, <2>1 DEF ReverseInv
  <2>7. (\A i \in 1 .. Complete : IsComponent(components[i]))'
    <3>1. \A i \in 1 .. n : IsComponent(components[i])
      BY <1>3 DEF ReverseInv
    <3> QED BY <1>1, <2>3, <2>4, <3>1 DEF IsComponent, Joined, Path
  <2>8. (\A i, j \in DOMAIN components : i # j => components[i] \cap components[j] = {})'
    <3>1. \A i, j \in 1 .. n : i # j => components[i] \cap components[j] = {}
      BY <1>3 DEF ReverseInv
    <3>2. \A i \in 1 .. n : t \notin components[i]
      BY <1>6, <1>8
    <3>3. \A i \in DOMAIN components' : i \in 1 .. n \/ i = n + 1
      BY <1>3, <2>3
    <3> QED BY <2>3, <3>1, <3>2, <3>3
  <2>9. (\A a \in visited \ Gray : Predecessors(a) \subseteq visited)'
    BY <1>1, <1>6, <2>1, <2>2 DEF ReverseInv, Predecessors
  <2>10. \A a \in Nodes \ visited : Path(a, t) => Path(t, a)
    <3> SUFFICES ASSUME NEW a \in Nodes \ visited, Path(a, t), ~ Path(t, a)
                 PROVE  FALSE
      OBVIOUS
    <3>1. PICK b \in Nodes : Joined(a, b) /\ \A k \in 1 .. m : finished[k] # b
      BY <1>2 DEF FinishOrder
    <3>2. b \in visited
      BY <1>2, <3>1 DEF ReverseInv, Black, Elements
    <3>3. PICK i \in 1 .. n : b \in components[i]
      BY <1>6, <3>2
    <3>4. PICK c \in Nodes : components[i] = {d \in Nodes : Joined(c, d)}
      BY <1>3 DEF ReverseInv, IsComponent
    <3>5. Joined(c, a)
      BY <3>1, <3>3, <3>4, PathFacts DEF Joined
    <3> QED BY <1>6, <3>4, <3>5
  <2>11. (\A a \in Last(components) : Path(a, stack[1]))'
    <3>1. Path(t, t)
      BY <1>2, PathFacts
    <3> QED BY <1>1, <2>2, <2>3, <3>1 DEF Path
  <2>12. (\A a \in Nodes \ Assigned : Path(a, stack[1]) => Path(stack[1], a))'
    BY <1>1, <2>2, <2>4, <2>10 DEF Path
  <2>13. components' # <<>> /\ Gray' \subseteq Last(components)'
    BY <2>2, <2>3
  <2> QED BY <1>5, <2>5, <2>6, <2>7, <2>8, <2>9, <2>11, <2>12, <2>13 DEF ReverseInv
<1> QED BY <1>7, <1>8

\* A call of dfs_reverse goes against an edge: the node leads to the one that
\* the component was begun with.
LEMMA CallReverseInv ==
    ASSUME NumNodes \in Nat, SortTypes, ReverseInv, FinishOrder, CallReverse
    PROVE  ReverseInv' /\ FinishOrder'
<1> DEFINE a == Min(ReverseLoop)
           n == Len(stack)
           m == Len(components)
<1>1. /\ stack # <<>> /\ stack \in Seq(Nodes) /\ components \in Seq(SUBSET Nodes)
      /\ graph' = graph /\ finished' = finished
  BY DEF SortTypes, CallReverse
<1>2. a \in Nodes \ visited /\ <<a, Last(stack)>> \in graph
  <2>1. ReverseLoop \in SUBSET Nodes /\ ReverseLoop # {}
    BY DEF CallReverse, ReverseLoop, Predecessors
  <2>2. a \in ReverseLoop
    BY <2>1, NodesFacts
  <2> QED BY <2>1, <2>2 DEF ReverseLoop, Predecessors
<1>3. /\ stack' = Append(stack, a) /\ visited' = visited \cup {a}
      /\ components' = [components EXCEPT ![m] = @ \cup {a}]
  BY DEF CallReverse, Call
<1> HIDE DEF a
<1>4. /\ n \in Nat \ {0} /\ stack' # <<>> /\ stack'[1] = stack[1]
      /\ Gray' = Gray \cup {a} /\ Last(stack) \in Gray /\ Last(stack) \in Nodes
  <2>1. /\ n \in Nat \ {0}
    BY <1>1
  <2>2. /\ \A i \in 1 .. n : Append(stack, a)[i] = stack[i]
        /\ Append(stack, a) # <<>>
        /\ Elements(Append(stack, a)) = Elements(stack) \cup {a}
    BY <1>1, <1>2, AppendFacts
  <2>3. Last(stack) \in Elements(stack) /\ Elements(stack) \subseteq Nodes
    BY <1>1, ElementsFacts
  <2> QED BY <1>3, <2>1, <2>2, <2>3 DEF Gray
<1>5. /\ m \in Nat \ {0} /\ DOMAIN components = 1 .. m
      /\ components # <<>> /\ Complete = m - 1
  <2>1. components # <<>>
    BY <1>1 DEF ReverseInv
  <2> QED BY <1>1, <2>1, ElementsFacts DEF Complete
<1>6. Last(components) = components[m]
  BY DEF Last
<1> HIDE DEF n, m
<1>7. /\ DOMAIN components' = 1 .. m
      /\ \A i \in 1 .. (m - 1) : components'[i] = components[i]
      /\ components'[m] = components[m] \cup {a}
  BY <1>1, <1>3, <1>5
<1>8. Len(components') = m /\ components' # <<>>
  <2>1. components' \in Seq(SUBSET Nodes)
    <3>1. components[m] \cup {a} \in SUBSET Nodes
      BY <1>1, <1>2, <1>5
    <3> QED BY <1>1, <1>3, <1>5, <3>1
  <2>2. DOMAIN components' = 1 .. Len(components') /\ Len(components') \in Nat
    BY <2>1, ElementsFacts
  <2>3. Len(components') = m
    BY <1>5, <1>7, <2>2
  <2> QED BY <1>5, <2>3
<1>9. Complete' = m - 1 /\ Assigned' = Assigned
  <2>1. Complete' = m - 1
    BY <1>4, <1>8 DEF Complete
  <2>2. Assigned = UNION {components[i] : i \in 1 .. (m - 1)}
    BY <1>5 DEF Assigned
  <2>3. Assigned' = UNION {components'[i] : i \in 1 .. (m - 1)}
    BY <2>1 DEF Assigned
  <2> QED BY <1>7, <2>1, <2>2, <2>3
<1>10. \A i \in 1 .. m : i \in 1 .. (m - 1) \/ i = m
  BY <1>5
<1>11. visited = UNION {components[i] : i \in 1 .. m}
  BY <1>5 DEF ReverseInv, Elements
<1>12. (visited = UNION Elements(components))'
  <2>1. visited' = UNION {components'[i] : i \in 1 .. m}
    <3>1. \A x : x \in visited' <=> \E i \in 1 .. m : x \in components'[i]
      <4>1. m \in 1 .. m
        BY <1>5
      <4>2. \A x : x \in visited <=> \E i \in 1 .. m : x \in components[i]
        BY <1>11
      <4>3. \A x : \A i \in 1 .. m :
               x \in components'[i] <=> (x \in components[i] \/ (i = m /\ x = a))
        BY <1>7, <1>10
      <4> QED BY <1>3, <4>1, <4>2, <4>3
    <3> QED BY <3>1
  <2> QED BY <1>7, <2>1 DEF Elements
<1>13. (Nodes \subseteq visited \cup Black)'
  BY <1>1, <1>3 DEF ReverseInv, Black
<1>14. (\A i \in 1 .. Complete : IsComponent(components[i]))'
  <2>1. \A i \in 1 .. (m - 1) : IsComponent(components[i])
    BY <1>5 DEF ReverseInv
  <2>2. \A i \in 1 .. (m - 1) : \E b \in Nodes : components'[i] = {c \in Nodes : Joined(b, c)}
    BY <1>7, <2>1 DEF IsComponent
  <2>3. \A b, c \in Nodes : Joined(b, c)' <=> Joined(b, c)
    BY <1>1 DEF Joined, Path
  <2>4. \A b \in Nodes : {c \in Nodes : Joined(b, c)'} = {c \in Nodes : Joined(b, c)}
    BY <2>3
  <2> QED BY <1>9, <2>2, <2>4 DEF IsComponent
<1>15. (\A i, j \in DOMAIN components : i # j => components[i] \cap components[j] = {})'
  <2>1. \A i, j \in 1 .. m : i # j => components[i] \cap components[j] = {}
    BY <1>5 DEF ReverseInv
  <2>2. \A i \in 1 .. m : a \notin components[i]
    BY <1>2, <1>11
  <2> QED BY <1>7, <1>10, <2>1, <2>2
<1>16. (\A b \in visited \ Gray : Predecessors(b) \subseteq visited)'
  <2>1. \A b \in visited \ Gray : Predecessors(b) \subseteq visited
    BY DEF ReverseInv
  <2> QED BY <1>1, <1>3, <1>4, <2>1 DEF Predecessors
<1>17. Last(components)' = Last(components) \cup {a}
  BY <1>6, <1>7, <1>8 DEF Last
<1>18. Gray' \subseteq Last(components)'
  BY <1>1, <1>4, <1>17 DEF ReverseInv
<1>19. Path(a, stack[1])
  <2>1. Path(Last(stack), stack[1])
    BY <1>1, <1>4 DEF ReverseInv
  <2>2. Path(a, Last(stack))
    BY <1>2, <1>4, PathFacts
  <2>3. stack[1] \in Nodes
    BY <1>1
  <2> QED BY <1>2, <1>4, <2>1, <2>2, <2>3, PathFacts
<1>20. (\A b \in Last(components) : Path(b, stack[1]))'
  <2>1. \A b \in Last(components) \cup {a} : Path(b, stack[1])
    BY <1>1, <1>19 DEF ReverseInv
  <2> QED BY <1>1, <1>4, <1>17, <2>1 DEF Path
<1>21. (\A b \in Nodes \ Assigned : Path(b, stack[1]) => Path(stack[1], b))'
  <2>1. \A b \in Nodes \ Assigned : Path(b, stack[1]) => Path(stack[1], b)
    BY <1>1 DEF ReverseInv
  <2> QED BY <1>1, <1>4, <1>9, <2>1 DEF Path
<1>22. ReverseInv'
  BY <1>8, <1>12, <1>13, <1>14, <1>15, <1>16, <1>18, <1>20, <1>21 DEF ReverseInv
<1>23. \A j \in DOMAIN finished', b \in Nodes :
          Path(b, finished'[j]) =>
             \/ Path(finished'[j], b)
             \/ \E c \in Nodes : Joined(b, c) /\ \A k \in 1 .. j : finished'[k] # c
  BY <1>1 DEF FinishOrder
<1>24. FinishOrder'
  BY <1>1, <1>23 DEF FinishOrder, Joined, Path
<1> QED BY <1>22, <1>24

\* When the outermost dfs_reverse returns, no edge leads to a visited node
\* from one that is not: the component is complete.
LEMMA ReturnReverseInv ==
    ASSUME NumNodes \in Nat, SortTypes, ReverseInv, FinishOrder, ReturnReverse
    PROVE  ReverseInv' /\ FinishOrder'
<1> DEFINE t == Last(stack)
           n == Len(stack)
           m == Len(components)
<1>1. /\ stack # <<>> /\ stack \in Seq(Nodes) /\ components \in Seq(SUBSET Nodes)
      /\ stack' = Front(stack) /\ graph' = graph /\ finished' = finished
      /\ visited' = visited /\ components' = components
      /\ Predecessors(t) \subseteq visited /\ visited \subseteq Nodes
  BY DEF SortTypes, ReturnReverse, Return, ReverseLoop
<1>2. /\ n \in Nat \ {0} /\ Len(stack') = n - 1
      /\ \A i \in 1 .. (n - 1) : stack'[i] = stack[i]
      /\ stack' \in Seq(Nodes) /\ stack[1] \in Nodes
      /\ t \in Nodes /\ t = stack[n]
      /\ Gray = Gray' \cup {t}
  BY <1>1, FrontFacts DEF Gray, Last
<1>3. /\ m \in Nat \ {0} /\ DOMAIN components = 1 .. m
      /\ components # <<>> /\ Complete = m - 1
  <2>1. components # <<>>
    BY <1>1 DEF ReverseInv
  <2> QED BY <1>1, <2>1, ElementsFacts DEF Complete
<1>4. Last(components) = components[m]
  BY DEF Last
<1>5. Complete' = IF stack' = <<>> THEN m ELSE m - 1
  BY <1>1 DEF Complete
<1> HIDE DEF t, n, m
<1>6. (visited = UNION Elements(components))'
  BY <1>1 DEF ReverseInv
<1>7. (Nodes \subseteq visited \cup Black)'
  BY <1>1 DEF ReverseInv, Black
<1>8. (\A i, j \in DOMAIN components : i # j => components[i] \cap components[j] = {})'
  BY <1>1 DEF ReverseInv
<1>9. \A a \in visited \ Gray' : Predecessors(a) \subseteq visited
  BY <1>1, <1>2 DEF ReverseInv
<1>10. (\A a \in visited \ Gray : Predecessors(a) \subseteq visited)'
  BY <1>1, <1>9 DEF Predecessors
<1>11. \A i \in 1 .. (m - 1) : IsComponent(components[i])
  BY <1>3 DEF ReverseInv
<1>12. \A j \in DOMAIN finished', b \in Nodes :
          Path(b, finished'[j]) =>
             \/ Path(finished'[j], b)
             \/ \E c \in Nodes : Joined(b, c) /\ \A k \in 1 .. j : finished'[k] # c
  BY <1>1 DEF FinishOrder
<1>13. FinishOrder'
  BY <1>1, <1>12 DEF FinishOrder, Joined, Path
<1>14. Assigned = UNION {components[i] : i \in 1 .. (m - 1)}
  BY <1>3 DEF Assigned
<1>15. CASE stack' # <<>>
  <2>1. Complete' = m - 1 /\ stack'[1] = stack[1]
    <3>1. n - 1 # 0
      BY <1>2, <1>15
    <3>2. 1 \in 1 .. (n - 1)
      BY <1>2, <3>1
    <3> QED BY <1>2, <1>5, <1>15, <3>2
  <2>2. Assigned' = Assigned
    BY <1>1, <1>14, <2>1 DEF Assigned
  <2>3. (\A i \in 1 .. Complete : IsComponent(components[i]))'
    BY <1>1, <1>11, <2>1 DEF IsComponent, Joined, Path
  <2>4. (/\ components # <<>>
         /\ Gray \subseteq Last(components))'
    BY <1>1, <1>2 DEF ReverseInv
  <2>5. (\A a \in Last(components) : Path(a, stack[1]))'
    BY <1>1, <2>1 DEF ReverseInv, Path
  <2>6. (\A a \in Nodes \ Assigned : Path(a, stack[1]) => Path(stack[1], a))'
    BY <1>1, <2>1, <2>2 DEF ReverseInv, Path
  <2>7. ReverseInv'
    BY <1>6, <1>7, <1>8, <1>10, <2>3, <2>4, <2>5, <2>6 DEF ReverseInv
  <2> QED BY <1>13, <2>7
<1>16. CASE stack' = <<>>
  <2>1. n = 1 /\ Gray' = {} /\ Complete' = m /\ t = stack[1]
    <3>1. n = 1
      BY <1>2, <1>16
    <3>2. Gray' = {}
      BY <1>16, ElementsFacts DEF Gray
    <3> QED BY <1>2, <1>5, <1>16, <3>1, <3>2
  <2>2. /\ t \in components[m]
        /\ \A a \in components[m] : Path(a, t)
        /\ \A a \in Nodes \ Assigned : Path(a, t) => Path(t, a)
    BY <1>1, <1>2, <1>4, <2>1 DEF ReverseInv
  <2>3. /\ \A i, j \in 1 .. m : i # j => components[i] \cap components[j] = {}
        /\ visited = UNION {components[i] : i \in 1 .. m}
    BY <1>3 DEF ReverseInv, Elements
  <2>4. components[m] \subseteq {b \in Nodes : Joined(t, b)}
    <3> SUFFICES ASSUME NEW a \in components[m]
                 PROVE  a \in Nodes /\ Joined(t, a)
      OBVIOUS
    <3>1. a \in Nodes
      BY <1>1, <1>3
    <3>2. a \notin Assigned
      <4>1. \A i \in 1 .. (m - 1) : i \in 1 .. m /\ i # m /\ m \in 1 .. m
        BY <1>3
      <4> QED BY <1>14, <2>3, <4>1
    <3> QED BY <2>2, <3>1, <3>2 DEF Joined
  <2>5. \A b \in Nodes : Joined(t, b) => b \in components[m]
    <3> SUFFICES ASSUME NEW b \in Nodes, Joined(t, b)
                 PROVE  b \in components[m]
      OBVIOUS
    <3>1. m \in 1 .. m
      BY <1>3
    <3>2. t \in visited
      BY <2>2, <2>3, <3>1
    <3>3. Closed(Nodes, graph, Nodes \ visited)
      BY <1>9, <2>1 DEF Closed, Predecessors
    <3>4. b \in visited
      BY <1>1, <1>2, <3>2, <3>3, NodesFacts, PathsOfEdges DEF Joined, Path
    <3>5. PICK i \in 1 .. m : b \in components[i]
      BY <2>3, <3>4
    <3>6. CASE i = m
      BY <3>5, <3>6
    <3>7. CASE i # m
      <4>1. i \in 1 .. (m - 1)
        BY <1>3, <3>7
      <4>2. PICK c \in Nodes : components[i] = {d \in Nodes : Joined(c, d)}
        BY <1>11, <4>1 DEF IsComponent
      <4>3. Joined(c, t)
        BY <1>2, <3>5, <4>2, PathFacts DEF Joined
      <4> QED BY <1>2, <2>2, <2>3, <3>1, <3>7, <4>2, <4>3
    <3> QED BY <3>6, <3>7
  <2>6. IsComponent(components[m])
    BY <1>2, <2>4, <2>5 DEF IsComponent
  <2>7. \A i \in 1 .. m : IsComponent(components[i])
    <3>1. \A i \in 1 .. m : i \in 1 .. (m - 1) \/ i = m
      BY <1>3
    <3> QED BY <1>11, <2>6, <3>1
  <2>8. (\A i \in 1 .. Complete : IsComponent(components[i]))'
    BY <1>1, <2>1, <2>7 DEF IsComponent, Joined, Path
  <2>9. ReverseInv'
    BY <1>6, <1>7, <1>8, <1>10, <1>16, <2>8 DEF ReverseInv
  <2> QED BY <1>13, <2>9
<1> QED BY <1>15, <1>16

-----------------------------------------------------------------------------
(***************************************************************************)
(* The emission.                                                           *)
(***************************************************************************)

\* The components of the nodes, when the reverse search is through.
LEMMA BeginEmitInv ==
    ASSUME NumNodes \in Nat, SortTypes, ReverseInv, sorted = <<>>, BeginEmit
    PROVE  EmitInv'
<1>1. /\ stack = <<>> /\ finished = <<>> /\ components \in Seq(SUBSET Nodes)
      /\ visited \subseteq Nodes
      /\ components' = components /\ graph' = graph /\ sorted' = sorted
  BY DEF SortTypes, BeginEmit
<1>2. Black = {} /\ Complete = Len(components) /\ DOMAIN components = 1 .. Len(components)
  BY <1>1, ElementsFacts DEF Black, Complete
<1>3. ComponentsExact
  BY <1>1, <1>2 DEF ReverseInv, ComponentsExact
<1>4. ComponentsExact'
  BY <1>1, <1>3 DEF ComponentsExact, IsComponent, Joined, Path
<1>5. Remaining' = DOMAIN components /\ Rest' = Nodes /\ Elements(sorted)' = {}
  <2>1. Elements(sorted)' = {}
    BY <1>1, ElementsFacts
  <2> QED BY <1>1, <2>1 DEF Remaining, Rest
<1>6. ComponentEdges' = ComponentEdges
  BY <1>1 DEF ComponentEdges
<1>7. (Rest = UNION {components[j] : j \in Remaining})'
  BY <1>1, <1>3, <1>5 DEF ComponentsExact, Elements
<1>8. (degree = [j \in DOMAIN components |->
                    Cardinality({i \in Remaining : <<i, j>> \in ComponentEdges})])'
  BY <1>1, <1>5, <1>6 DEF BeginEmit
<1>9. (ready = {j \in Remaining : degree[j] = 0})'
  BY <1>5 DEF BeginEmit
<1>10. (\A i \in Remaining, j \in DOMAIN components :
           <<i, j>> \in ComponentEdges => j \in Remaining)'
  BY <1>1, <1>5
<1>11. Continued'
  <2>1. sorted' = <<>> /\ DOMAIN sorted' = {}
    BY <1>1
  <2> DEFINE order == LinearOrder(Nodes, graph, Less)
  <2>2. Lists(order[Nodes], Nodes) /\ Linearize(Nodes, graph, Less) = order[Nodes]
    BY NodesFacts, LinearizeLists, LinearizeStep
  <2> HIDE DEF order
  <2>3. <<>> \o order[Nodes] = order[Nodes]
    BY <2>2 DEF Lists
  <2>4. (sorted \o LinearOrder(Nodes, graph, Less)[Rest] = Linearize(Nodes, graph, Less))'
    BY <1>1, <1>5, <2>1, <2>2, <2>3 DEF order
  <2> QED BY <2>1, <2>4 DEF Continued
<1> QED BY <1>4, <1>7, <1>8, <1>9, <1>10, <1>11 DEF EmitInv

\* While components are emitted: no edge leads from what is left to what is
\* emitted, and the ready components are those of the nodes that are ready.
LEMMA ReadyComponents ==
    ASSUME NumNodes \in Nat, SortTypes, EmitInv
    PROVE  /\ IsFiniteSet(Remaining)
           /\ \A j \in Remaining : components[j] \subseteq Rest /\ components[j] # {}
           /\ \A a \in Rest, b \in Nodes : <<a, b>> \in graph => b \in Rest
           /\ \A j \in Remaining : \A a \in components[j] :
                 a \in ReadyIn(Rest, Paths(Nodes, graph)) <=> j \in ready
<1>1. /\ Rest \subseteq Nodes /\ Remaining \subseteq DOMAIN components
      /\ Rest = UNION {components[j] : j \in Remaining}
  BY DEF Rest, Remaining, EmitInv
<1>2. /\ \A i \in DOMAIN components : IsComponent(components[i])
      /\ \A i, j \in DOMAIN components : i # j => components[i] \cap components[j] = {}
      /\ UNION {components[i] : i \in DOMAIN components} = Nodes
  BY DEF EmitInv, ComponentsExact, Elements
<1>3. IsFiniteSet(Remaining)
  <2>1. components \in Seq(SUBSET Nodes)
    BY DEF SortTypes
  <2>2. Len(components) \in Nat /\ DOMAIN components = 1 .. Len(components)
    BY <2>1
  <2>3. IsFiniteSet(1 .. Len(components))
    BY <2>2, FS_Interval
  <2> QED BY <1>1, <2>2, <2>3, FS_Subset
<1>4. \A j \in Remaining : components[j] \subseteq Rest /\ components[j] # {}
  BY <1>1, <1>2, PathFacts DEF IsComponent, Joined
<1>5. \A j \in DOMAIN components : \A a, b \in components[j] : Joined(a, b)
  BY <1>2, PathFacts DEF IsComponent, Joined
<1>6. \A j \in DOMAIN components : \A a \in components[j], b \in Nodes :
         Joined(a, b) => b \in components[j]
  BY <1>2, PathFacts DEF IsComponent, Joined
<1>7. ASSUME NEW a \in Rest, NEW b \in Nodes, <<a, b>> \in graph PROVE b \in Rest
  <2>1. PICK i \in Remaining : a \in components[i]
    BY <1>1
  <2>2. PICK j \in DOMAIN components : b \in components[j]
    BY <1>2
  <2>3. CASE i = j
    BY <1>4, <2>1, <2>2, <2>3
  <2>4. CASE i # j
    <3>1. <<i, j>> \in ComponentEdges
      BY <1>1, <1>7, <2>1, <2>2, <2>4 DEF ComponentEdges
    <3>2. j \in Remaining
      BY <3>1 DEF EmitInv
    <3> QED BY <1>4, <2>2, <3>2
  <2> QED BY <2>3, <2>4
<1>8. \A a \in Rest, b \in Nodes : Path(a, b) => b \in Rest
  <2>1. Closed(Nodes, graph, Rest)
    BY <1>7 DEF Closed
  <2> QED BY <1>1, <2>1, NodesFacts, PathsOfEdges DEF Path
<1>9. ASSUME NEW j \in Remaining, NEW a \in components[j], j \in ready
      PROVE  a \in ReadyIn(Rest, Paths(Nodes, graph))
  <2> SUFFICES ASSUME NEW b \in Rest, Path(b, a)
               PROVE  Path(a, b)
    BY <1>4 DEF ReadyIn, Path
  <2>1. CASE b \in components[j]
    BY <1>1, <1>5, <2>1 DEF Joined
  <2>2. CASE b \notin components[j]
    <3> DEFINE T == Nodes \ components[j]
    <3>1. T \in SUBSET Nodes /\ b \in T /\ a \in Nodes \ T
      BY <1>1, <1>4, <2>2
    <3>2. PICK p \in T, z \in Nodes \ T : <<p, z>> \in graph /\ Path(b, p)
      <4> HIDE DEF T
      <4> QED BY <3>1, PathLeaves
    <3>3. p \in Rest
      BY <1>8, <3>2
    <3>4. PICK i \in Remaining : p \in components[i]
      BY <1>1, <3>3
    <3>5. <<i, j>> \in ComponentEdges
      BY <1>1, <3>2, <3>4 DEF ComponentEdges
    <3>6. Cardinality({k \in Remaining : <<k, j>> \in ComponentEdges}) = 0
      <4>1. degree[j] = 0
        BY <1>9 DEF EmitInv
      <4> QED BY <1>1, <4>1 DEF EmitInv
    <3>7. {k \in Remaining : <<k, j>> \in ComponentEdges} = {}
      <4>1. IsFiniteSet({k \in Remaining : <<k, j>> \in ComponentEdges})
        BY <1>3, FS_Subset
      <4> QED BY <3>6, <4>1, FS_EmptySet
    <3> QED BY <3>5, <3>7
  <2> QED BY <2>1, <2>2
<1>10. ASSUME NEW j \in Remaining, NEW a \in components[j],
              a \in ReadyIn(Rest, Paths(Nodes, graph))
       PROVE  j \in ready
  <2>1. {i \in Remaining : <<i, j>> \in ComponentEdges} = {}
    <3> SUFFICES ASSUME NEW i \in Remaining, <<i, j>> \in ComponentEdges
                 PROVE  FALSE
      OBVIOUS
    <3>1. i # j /\ i \in DOMAIN components /\ j \in DOMAIN components
      BY <1>1 DEF ComponentEdges
    <3>2. PICK x \in components[i], y \in components[j] : <<x, y>> \in graph
      BY DEF ComponentEdges
    <3>3. x \in Rest /\ x \in Nodes /\ y \in Nodes /\ a \in Nodes
      BY <1>1, <1>4, <3>2
    <3>4. Path(x, a)
      <4>1. Path(x, y) /\ Path(y, a)
        BY <1>5, <3>1, <3>2, <3>3, PathFacts DEF Joined
      <4> QED BY <3>3, <4>1, PathFacts
    <3>5. Path(a, x)
      BY <1>10, <3>3, <3>4 DEF ReadyIn, Path
    <3>6. x \in components[j]
      BY <1>6, <3>1, <3>3, <3>4, <3>5 DEF Joined
    <3> QED BY <1>2, <3>1, <3>6
  <2>2. degree[j] = 0
    BY <1>1, <2>1, FS_EmptySet DEF EmitInv
  <2> QED BY <2>2 DEF EmitInv
<1> QED BY <1>3, <1>4, <1>7, <1>9, <1>10

\* The first ready component is the one that Linearize takes.
LEMMA FirstReady ==
    ASSUME NumNodes \in Nat, SortTypes, EmitInv, NEW current \in ready,
           \A j \in ready \ {current} : CompareComponents(components[current], components[j])
    PROVE  FirstComponent(Rest, Paths(Nodes, graph), Less) = components[current]
<1> DEFINE C == components[current]
           R == ReadyIn(Rest, Paths(Nodes, graph))
<1>1. /\ current \in Remaining /\ current \in DOMAIN components
      /\ ready \subseteq Remaining /\ Remaining \subseteq DOMAIN components
      /\ Rest = UNION {components[j] : j \in Remaining}
      /\ Rest \subseteq Nodes
  BY DEF EmitInv, Remaining, Rest
<1>2. /\ C \subseteq Rest /\ C # {}
      /\ \A j \in Remaining : components[j] \subseteq Rest
      /\ \A j \in Remaining : \A a \in components[j] : a \in R <=> j \in ready
  BY <1>1, ReadyComponents
<1>3. Min(C) \in C /\ Min(C) \in Nat /\ Min(C) \in Nodes
  <2>1. C \in SUBSET Nodes
    BY <1>1, <1>2
  <2> HIDE DEF C
  <2> QED BY <1>2, <2>1, NodesFacts
<1>4. PICK least \in R :
         /\ \A b \in R \ {least} : <<least, b>> \in Less
         /\ FirstComponent(Rest, Paths(Nodes, graph), Less) =
               {b \in Rest : /\ <<least, b>> \in Paths(Nodes, graph)
                             /\ <<b, least>> \in Paths(Nodes, graph)}
  <2>1. Rest # {} /\ Rest \in SUBSET Nodes
    BY <1>1, <1>2
  <2> QED BY <2>1, NodesFacts, FirstComponentFacts
<1> HIDE DEF R
<1>5. least \in Rest /\ least \in Nodes
  BY <1>1 DEF R, ReadyIn
<1>6. PICK j \in Remaining : least \in components[j]
  BY <1>1, <1>5
<1>7. j \in ready
  BY <1>2, <1>4, <1>6
<1>8. least \in C
  <2> SUFFICES ASSUME j # current PROVE FALSE
    BY <1>6
  <2>1. Min(C) < Min(components[j])
    BY <1>7 DEF CompareComponents
  <2>2. Min(components[j]) <= least /\ Min(components[j]) \in Nat
    <3>1. components[j] \in SUBSET Nodes
      BY <1>1, <1>2
    <3> QED BY <1>6, <3>1, NodesFacts
  <2>3. Min(C) \in R /\ Min(C) # least
    <3>1. Min(C) \in R
      BY <1>1, <1>2, <1>3
    <3>2. Min(C) # least
      BY <1>3, <1>5, <2>1, <2>2, NodesFacts
    <3> QED BY <3>1, <3>2
  <2>4. <<least, Min(C)>> \in Less
    BY <1>4, <2>3
  <2>5. least < Min(C)
    BY <2>4 DEF Less
  <2> QED BY <1>3, <1>5, <2>1, <2>2, <2>5, NodesFacts
<1>9. PICK c \in Nodes : C = {b \in Nodes : Joined(c, b)}
  BY <1>1 DEF EmitInv, ComponentsExact, IsComponent
<1>10. C = {b \in Rest : Joined(least, b)}
  <2>1. \A b \in Nodes : Joined(c, b) <=> Joined(least, b)
    BY <1>5, <1>8, <1>9, PathFacts DEF Joined
  <2> QED BY <1>1, <1>2, <1>9, <2>1
<1> QED BY <1>4, <1>10 DEF Joined, Path

\* What is emitted is one component more, in order.
LEMMA EmitComponentInv ==
    ASSUME NumNodes \in Nat, SortTypes, EmitInv, EmitComponent
    PROVE  /\ EmitInv' /\ sorted' \in Seq(Nodes)
           /\ Rest' \subseteq Rest /\ Rest' # Rest
<1>1. PICK current \in ready :
         /\ \A j \in ready \ {current} :
               CompareComponents(components[current], components[j])
         /\ LET next == {j \in DOMAIN components : <<current, j>> \in ComponentEdges}
            IN /\ degree' = [j \in DOMAIN components |->
                               IF j \in next THEN degree[j] - 1 ELSE degree[j]]
               /\ ready' = (ready \ {current}) \cup {j \in next : degree'[j] = 0}
         /\ sorted' = sorted \o SortedBy(components[current], Less)
  BY DEF EmitComponent
<1>2. graph' = graph /\ components' = components
  BY DEF EmitComponent
<1> DEFINE C == components[current]
           s == SortedBy(C, Less)
           next == {j \in DOMAIN components : <<current, j>> \in ComponentEdges}
           D == Remaining
<1>3. /\ current \in D /\ D \subseteq DOMAIN components /\ Rest \subseteq Nodes
      /\ Rest = UNION {components[j] : j \in D}
      /\ ready = {j \in D : degree[j] = 0}
      /\ \A j \in DOMAIN components :
            degree[j] = Cardinality({i \in D : <<i, j>> \in ComponentEdges})
      /\ \A i \in D, j \in DOMAIN components : <<i, j>> \in ComponentEdges => j \in D
  BY DEF EmitInv, Remaining, Rest
<1>4. /\ IsFiniteSet(D)
      /\ \A j \in D : components[j] \subseteq Rest /\ components[j] # {}
      /\ \A a \in Rest, b \in Nodes : <<a, b>> \in graph => b \in Rest
  BY ReadyComponents
<1>5. FirstComponent(Rest, Paths(Nodes, graph), Less) = C
  BY <1>1, FirstReady
<1>6. \A i, j \in DOMAIN components : i # j => components[i] \cap components[j] = {}
  BY DEF EmitInv, ComponentsExact
<1>7. /\ s \in Seq(Nodes) /\ Elements(s) = C
      /\ Len(s) \in Nat /\ DOMAIN s = 1 .. Len(s)
  <2>1. C \in SUBSET Nodes
    BY <1>3, <1>4
  <2>2. IsFiniteSet(C) /\ StrictOrder(C, Less)
    <3> HIDE DEF C
    <3>1. IsFiniteSet(C)
      BY <2>1, NodesFacts, FS_Subset
    <3>2. StrictOrder(C, Less)
      BY <2>1, NodesFacts, StrictOrderWithin
    <3> QED BY <3>1, <3>2
  <2> HIDE DEF C
  <2>3. Lists(s, C)
    BY <2>2, SortedByLists
  <2> HIDE DEF s
  <2>4. s \in Seq(C) /\ \A a \in C : \E i \in 1 .. Len(s) : s[i] = a
    BY <2>3 DEF Lists
  <2>5. Len(s) \in Nat /\ DOMAIN s = 1 .. Len(s) /\ \A i \in 1 .. Len(s) : s[i] \in C
    BY <2>4
  <2>6. Elements(s) = C
    BY <2>4, <2>5 DEF Elements
  <2>7. s \in Seq(Nodes)
    BY <2>1, <2>4, <2>5
  <2> QED BY <2>5, <2>6, <2>7
<1>8. sorted \in Seq(Nodes) /\ Len(sorted) \in Nat /\ DOMAIN sorted = 1 .. Len(sorted)
  BY ElementsFacts DEF SortTypes
<1>9. sorted' = sorted \o s
  BY <1>1
<1> HIDE DEF s
<1>10. /\ sorted' \in Seq(Nodes)
       /\ DOMAIN sorted' = 1 .. (Len(sorted) + Len(s))
       /\ \A i \in 1 .. Len(sorted) : sorted'[i] = sorted[i]
       /\ \A i \in 1 .. Len(s) : sorted'[Len(sorted) + i] = s[i]
  BY <1>7, <1>8, <1>9
<1>11. \A i \in DOMAIN sorted' :
          \/ i \in 1 .. Len(sorted) /\ sorted'[i] = sorted[i]
          \/ i - Len(sorted) \in 1 .. Len(s) /\ sorted'[i] = s[i - Len(sorted)]
  <2> SUFFICES ASSUME NEW i \in 1 .. (Len(sorted) + Len(s)), i \notin 1 .. Len(sorted)
               PROVE  i - Len(sorted) \in 1 .. Len(s) /\ sorted'[i] = s[i - Len(sorted)]
    BY <1>10
  <2>1. i - Len(sorted) \in 1 .. Len(s) /\ Len(sorted) + (i - Len(sorted)) = i
    BY <1>7, <1>8
  <2> QED BY <1>10, <2>1
<1>12. Elements(sorted)' = Elements(sorted) \cup C
  <2>1. \A i \in 1 .. Len(sorted) : i \in DOMAIN sorted'
    BY <1>7, <1>8, <1>10
  <2>2. \A i \in 1 .. Len(s) : Len(sorted) + i \in DOMAIN sorted'
    BY <1>7, <1>8, <1>10
  <2>3. Elements(sorted') \subseteq Elements(sorted) \cup C
    BY <1>7, <1>8, <1>11 DEF Elements
  <2>4. Elements(sorted) \subseteq Elements(sorted')
    BY <1>8, <1>10, <2>1 DEF Elements
  <2>5. C \subseteq Elements(sorted')
    <3> SUFFICES ASSUME NEW a \in C PROVE a \in Elements(sorted')
      OBVIOUS
    <3>1. PICK i \in 1 .. Len(s) : s[i] = a
      BY <1>7 DEF Elements
    <3>2. Len(sorted) + i \in DOMAIN sorted' /\ sorted'[Len(sorted) + i] = a
      BY <1>10, <2>2, <3>1
    <3> QED BY <3>2 DEF Elements
  <2> QED BY <2>3, <2>4, <2>5
<1>13. Rest' = Rest \ C
  BY <1>12 DEF Rest
<1>14. Remaining' = D \ {current}
  <2>1. \A j \in D : components[j] \cap (Elements(sorted) \cup C) = {} <=> j # current
    <3>1. C # {}
      BY <1>3, <1>4
    <3> QED BY <1>3, <1>6, <3>1 DEF Remaining
  <2> HIDE DEF C
  <2>2. Remaining' = {j \in DOMAIN components : components[j] \cap (Elements(sorted) \cup C) = {}}
    BY <1>2, <1>12 DEF Remaining
  <2> QED BY <2>1, <2>2 DEF Remaining
<1>15. ComponentEdges' = ComponentEdges
  BY <1>2 DEF ComponentEdges
<1>16. ComponentsExact'
  BY <1>2 DEF EmitInv, ComponentsExact, IsComponent, Joined, Path
<1>17. (Rest = UNION {components[j] : j \in Remaining})'
  <2>1. \A j \in D \ {current} : components[j] \cap C = {}
    BY <1>3, <1>6
  <2>2. Rest \ C = UNION {components[j] : j \in D \ {current}}
    BY <1>3, <2>1
  <2> QED BY <1>2, <1>13, <1>14, <2>2
<1> HIDE DEF C, D
<1>18. \A j \in DOMAIN components :
          /\ degree'[j] = Cardinality({i \in D \ {current} : <<i, j>> \in ComponentEdges})
          /\ j \notin next => degree'[j] = degree[j]
          /\ j \in next => degree[j] # 0
  <2> SUFFICES ASSUME NEW j \in DOMAIN components
               PROVE  /\ degree'[j] = Cardinality({i \in D \ {current} : <<i, j>> \in ComponentEdges})
                      /\ j \notin next => degree'[j] = degree[j]
                      /\ j \in next => degree[j] # 0
    OBVIOUS
  <2> DEFINE E == {i \in D : <<i, j>> \in ComponentEdges}
             F == {i \in D \ {current} : <<i, j>> \in ComponentEdges}
  <2>1. IsFiniteSet(E) /\ Cardinality(E) \in Nat
    BY <1>4, FS_Subset, FS_CardinalityType
  <2>2. degree[j] = Cardinality(E)
    BY <1>3
  <2>3. CASE j \in next
    <3>1. current \in E /\ F = E \ {current}
      BY <1>3, <2>3
    <3>2. degree'[j] = degree[j] - 1
      BY <1>1, <2>3
    <3> HIDE DEF E, F
    <3>3. Cardinality(F) = Cardinality(E) - 1
      BY <2>1, <3>1, FS_RemoveElement
    <3>4. Cardinality(E) # 0
      BY <2>1, <3>1, FS_EmptySet
    <3> QED BY <2>2, <2>3, <3>2, <3>3, <3>4 DEF F
  <2>4. CASE j \notin next
    <3>1. F = E
      BY <2>4
    <3>2. degree'[j] = degree[j]
      BY <1>1, <2>4
    <3> QED BY <2>2, <2>4, <3>1, <3>2
  <2> QED BY <2>3, <2>4
<1>19. DOMAIN degree' = DOMAIN components /\ ready' = (ready \ {current}) \cup {j \in next : degree'[j] = 0}
  BY <1>1
<1>20. (degree = [j \in DOMAIN components |->
                    Cardinality({i \in Remaining : <<i, j>> \in ComponentEdges})])'
  <2>1. degree' = [j \in DOMAIN components |-> degree'[j]]
    BY <1>1
  <2>2. degree' = [j \in DOMAIN components |->
                     Cardinality({i \in D \ {current} : <<i, j>> \in ComponentEdges})]
    BY <1>18, <2>1
  <2> QED BY <1>2, <1>14, <1>15, <2>2
<1>21. \A j \in next : j \in D \ {current}
  BY <1>3 DEF ComponentEdges
<1>22. (ready = {j \in Remaining : degree[j] = 0})'
  <2>1. ready' = {j \in D \ {current} : degree'[j] = 0}
    BY <1>3, <1>18, <1>19, <1>21
  <2> QED BY <1>14, <2>1
<1>23. (\A i \in Remaining, j \in DOMAIN components :
           <<i, j>> \in ComponentEdges => j \in Remaining)'
  <2>1. \A i \in D : <<i, current>> \notin ComponentEdges
    <3>1. IsFiniteSet({i \in D : <<i, current>> \in ComponentEdges})
      BY <1>4, FS_Subset
    <3>2. Cardinality({i \in D : <<i, current>> \in ComponentEdges}) = 0
      BY <1>3
    <3>3. {i \in D : <<i, current>> \in ComponentEdges} = {}
      BY <3>1, <3>2, FS_EmptySet
    <3> QED BY <3>3
  <2> QED BY <1>2, <1>3, <1>14, <1>15, <2>1
<1>24. sorted' \o LinearOrder(Nodes, graph, Less)[Rest'] = Linearize(Nodes, graph, Less)
  <2> DEFINE order == LinearOrder(Nodes, graph, Less)
             t == order[Rest \ C]
  <2>1. order[Rest] = s \o t
    <3>1. Rest # {} /\ Rest \in SUBSET Nodes
      BY <1>3, <1>4
    <3>2. order[Rest] = OrderStep(Paths(Nodes, graph), Less, order, Rest)
      BY <3>1, NodesFacts, LinearizeStep
    <3> HIDE DEF order
    <3> QED BY <1>5, <3>1, <3>2 DEF OrderStep, s
  <2>2. t \in Seq(Nodes)
    <3>1. Rest \ C \in SUBSET Nodes
      BY <1>3
    <3>2. Lists(t, Rest \ C)
      BY <3>1, NodesFacts, LinearizeLists
    <3> HIDE DEF t
    <3>3. t \in Seq(Rest \ C)
      BY <3>2 DEF Lists
    <3> QED BY <3>1, <3>3
  <2>3. sorted \o order[Rest] = Linearize(Nodes, graph, Less)
    BY DEF EmitInv, Continued
  <2> HIDE DEF order, t
  <2>4. sorted \o (s \o t) = (sorted \o s) \o t
    BY <1>7, <1>8, <2>2
  <2> QED BY <1>9, <1>13, <2>1, <2>3, <2>4 DEF order, t
<1>25. \A i, j \in DOMAIN sorted' :
          (<<sorted'[i], sorted'[j]>> \in graph /\ j < i) => Path(sorted'[j], sorted'[i])
  <2> SUFFICES ASSUME NEW i \in DOMAIN sorted', NEW j \in DOMAIN sorted',
                      <<sorted'[i], sorted'[j]>> \in graph, j < i
               PROVE  Path(sorted'[j], sorted'[i])
    OBVIOUS
  <2>1. i \in Nat /\ j \in Nat
    BY <1>7, <1>8, <1>10
  <2>2. CASE i \in 1 .. Len(sorted) /\ sorted'[i] = sorted[i]
    <3>1. j \in 1 .. Len(sorted) /\ sorted'[j] = sorted[j]
      <4>1. j \in 1 .. Len(sorted)
        BY <1>7, <1>8, <1>10, <2>1, <2>2
      <4> QED BY <1>10, <4>1
    <3> QED BY <1>8, <2>2, <3>1 DEF EmitInv, Continued
  <2>3. CASE i - Len(sorted) \in 1 .. Len(s) /\ sorted'[i] = s[i - Len(sorted)]
    <3>1. sorted'[i] \in C
      BY <1>7, <2>3 DEF Elements
    <3>2. sorted'[j] \in Nodes /\ sorted'[i] \in Rest
      BY <1>3, <1>4, <1>7, <1>8, <1>10, <3>1 DEF C
    <3>3. sorted'[j] \in Rest
      BY <1>4, <3>2
    <3>4. sorted'[j] \in C
      <4>1. CASE j \in 1 .. Len(sorted) /\ sorted'[j] = sorted[j]
        <5>1. sorted'[j] \in Elements(sorted)
          BY <1>8, <4>1 DEF Elements
        <5> QED BY <3>3, <5>1 DEF Rest
      <4>2. CASE j - Len(sorted) \in 1 .. Len(s) /\ sorted'[j] = s[j - Len(sorted)]
        BY <1>7, <4>2 DEF Elements
      <4> QED BY <1>11, <4>1, <4>2
    <3>5. PICK c \in Nodes : C = {b \in Nodes : Joined(c, b)}
      BY <1>3 DEF EmitInv, ComponentsExact, IsComponent, C
    <3> DEFINE x == sorted'[i]
               y == sorted'[j]
    <3> HIDE DEF x, y
    <3>6. x \in Nodes /\ y \in Nodes /\ Joined(c, x) /\ Joined(c, y)
      BY <3>1, <3>4, <3>5 DEF x, y
    <3>7. Path(y, x)
      BY <3>5, <3>6, PathFacts DEF Joined
    <3> QED BY <3>7 DEF x, y
  <2> QED BY <1>11, <2>2, <2>3
<1>26. Continued'
  BY <1>2, <1>24, <1>25 DEF Continued, Path
<1>27. Rest' \subseteq Rest /\ Rest' # Rest
  BY <1>3, <1>4, <1>13 DEF C, D
<1> QED BY <1>10, <1>16, <1>17, <1>20, <1>22, <1>23, <1>26, <1>27 DEF EmitInv

\* When nothing is ready, nothing is left.
LEMMA DoneInv ==
    ASSUME NumNodes \in Nat, SortTypes, EmitInv, Done
    PROVE  Rest = {}
<1> SUFFICES ASSUME Rest # {} PROVE FALSE
  OBVIOUS
<1>1. Rest \in SUBSET Nodes
  BY DEF Rest
<1>2. PICK a \in ReadyIn(Rest, Paths(Nodes, graph)) : TRUE
  BY <1>1, NodesFacts, ReadyExists
<1>3. PICK j \in Remaining : a \in components[j]
  BY <1>2 DEF ReadyIn, EmitInv
<1>4. j \in ready
  BY <1>2, <1>3, ReadyComponents
<1> QED BY <1>4 DEF Done

-----------------------------------------------------------------------------
(***************************************************************************)
(* The theorems.                                                           *)
(***************************************************************************)

\* What every step does to the types.
LEMMA TypesKept ==
    ASSUME NumNodes \in Nat, SortInv, SortNext
    PROVE  SortTypes'
<1>1. /\ graph \in SUBSET (Nodes \X Nodes)
      /\ pc \in {"forward", "reverse", "emit", "done"}
      /\ stack \in Seq(Nodes)
      /\ visited \in SUBSET Nodes
      /\ finished \in Seq(Nodes)
      /\ components \in Seq(SUBSET Nodes)
      /\ degree \in [DOMAIN degree -> Nat]
      /\ ready \in SUBSET DOMAIN components
      /\ sorted \in Seq(Nodes)
  BY DEF SortInv, SortTypes
<1>2. CASE CallForward
  <2>1. ForwardLoop \in SUBSET Nodes /\ ForwardLoop # {}
    BY <1>2 DEF CallForward, ForwardLoop, Successors
  <2>2. Min(ForwardLoop) \in Nodes
    BY <2>1, NodesFacts
  <2>3. stack' \in Seq(Nodes) /\ visited' \in SUBSET Nodes
    BY <1>1, <1>2, <2>2, AppendFacts DEF CallForward, Call
  <2> QED BY <1>1, <1>2, <2>3 DEF CallForward, SortTypes
<1>3. CASE ReturnForward
  <2>1. Last(stack) \in Nodes /\ Front(stack) \in Seq(Nodes)
    BY <1>1, <1>3, FrontFacts DEF ReturnForward
  <2>2. stack' \in Seq(Nodes) /\ finished' \in Seq(Nodes)
    BY <1>1, <1>3, <2>1, AppendFacts DEF ReturnForward, Return
  <2> QED BY <1>1, <1>3, <2>2 DEF ReturnForward, SortTypes
<1>4. CASE BeginReverse
  BY <1>1, <1>4 DEF BeginReverse, SortTypes
<1>5. CASE PopFinished
  <2>1. Last(finished) \in Nodes /\ Front(finished) \in Seq(Nodes)
    BY <1>1, <1>5, FrontFacts DEF PopFinished
  <2> DEFINE c == {Last(finished)}
             S == SUBSET Nodes
  <2>2. c \in S /\ components \in Seq(S)
    BY <1>1, <2>1
  <2>3. DOMAIN components = 1 .. Len(components) /\ Len(components) \in Nat
    BY <1>1
  <2> HIDE DEF c, S
  <2>4. /\ Append(components, c) \in Seq(S)
        /\ DOMAIN components \subseteq DOMAIN Append(components, c)
    BY <2>2, <2>3, AppendFacts
  <2>5. CASE Last(finished) \in visited
    BY <1>1, <1>5, <2>1, <2>5 DEF PopFinished, SortTypes
  <2>6. CASE Last(finished) \notin visited
    <3>1. /\ components' = Append(components, c)
          /\ stack' = Append(stack, Last(finished))
          /\ visited' = visited \cup {Last(finished)}
      BY <1>5, <2>6 DEF PopFinished, Call, c
    <3>2. stack' \in Seq(Nodes) /\ visited' \in SUBSET Nodes
      BY <1>1, <2>1, <3>1, AppendFacts
    <3>3. components' \in Seq(SUBSET Nodes) /\ ready \in SUBSET DOMAIN components'
      BY <1>1, <2>4, <3>1 DEF S
    <3> QED BY <1>1, <1>5, <2>1, <3>2, <3>3 DEF PopFinished, SortTypes
  <2> QED BY <2>5, <2>6
<1>6. CASE CallReverse
  <2>1. ReverseLoop \in SUBSET Nodes /\ ReverseLoop # {}
    BY <1>6 DEF CallReverse, ReverseLoop, Predecessors
  <2>2. Min(ReverseLoop) \in Nodes
    BY <2>1, NodesFacts
  <2>3. stack' \in Seq(Nodes) /\ visited' \in SUBSET Nodes
    BY <1>1, <1>6, <2>2, AppendFacts DEF CallReverse, Call
  <2>4. /\ DOMAIN components = 1 .. Len(components) /\ Len(components) \in Nat
        /\ Len(components) \in DOMAIN components
    <3>1. components # <<>>
      BY <1>6 DEF CallReverse, SortInv, ReverseInv
    <3> QED BY <1>1, <3>1, ElementsFacts
  <2> DEFINE c == components[Len(components)] \cup {Min(ReverseLoop)}
  <2>5. c \in SUBSET Nodes
    BY <1>1, <2>2, <2>4
  <2>6. components' = [components EXCEPT ![Len(components)] = c]
    BY <1>6, <2>4 DEF CallReverse
  <2> HIDE DEF c
  <2>7. components' \in Seq(SUBSET Nodes) /\ DOMAIN components' = DOMAIN components
    BY <1>1, <2>4, <2>5, <2>6
  <2> QED BY <1>1, <1>6, <2>3, <2>7 DEF CallReverse, SortTypes
<1>7. CASE ReturnReverse
  <2>1. Front(stack) \in Seq(Nodes)
    BY <1>1, <1>7, FrontFacts DEF ReturnReverse
  <2> QED BY <1>1, <1>7, <2>1 DEF ReturnReverse, Return, SortTypes
<1>8. CASE BeginEmit
  <2>1. \A j \in DOMAIN components :
           Cardinality({i \in DOMAIN components : <<i, j>> \in ComponentEdges}) \in Nat
    <3>1. Len(components) \in Nat /\ DOMAIN components = 1 .. Len(components)
      BY <1>1
    <3>2. IsFiniteSet(DOMAIN components)
      BY <3>1, FS_Interval
    <3> SUFFICES ASSUME NEW j \in DOMAIN components
                 PROVE  Cardinality({i \in DOMAIN components : <<i, j>> \in ComponentEdges}) \in Nat
      OBVIOUS
    <3>3. IsFiniteSet({i \in DOMAIN components : <<i, j>> \in ComponentEdges})
      BY <3>2, FS_Subset
    <3> QED BY <3>3, FS_CardinalityType
  <2>2. degree' \in [DOMAIN degree' -> Nat]
    BY <1>8, <2>1 DEF BeginEmit
  <2>3. ready' \in SUBSET DOMAIN components'
    BY <1>8 DEF BeginEmit
  <2> QED BY <1>1, <1>8, <2>2, <2>3 DEF BeginEmit, SortTypes
<1>9. CASE EmitComponent
  <2>1. EmitInv' /\ sorted' \in Seq(Nodes)
    BY <1>9, EmitComponentInv DEF EmitComponent, SortInv
  <2>2. Remaining' \subseteq DOMAIN components' /\ components' = components
    BY <1>9 DEF Remaining, EmitComponent
  <2>3. IsFiniteSet(Remaining')
    <3>1. Len(components) \in Nat /\ DOMAIN components = 1 .. Len(components)
      BY <1>1
    <3>2. IsFiniteSet(DOMAIN components)
      BY <3>1, FS_Interval
    <3>3. Remaining' \subseteq DOMAIN components
      BY <2>2
    <3> QED BY <3>2, <3>3, FS_Subset
  <2>4. degree' = [j \in DOMAIN components' |->
                     Cardinality({i \in Remaining' : <<i, j>> \in ComponentEdges'})]
    BY <2>1 DEF EmitInv
  <2>5. \A j \in DOMAIN components' :
           Cardinality({i \in Remaining' : <<i, j>> \in ComponentEdges'}) \in Nat
    <3> SUFFICES ASSUME NEW j \in DOMAIN components'
                 PROVE  Cardinality({i \in Remaining' : <<i, j>> \in ComponentEdges'}) \in Nat
      OBVIOUS
    <3>1. IsFiniteSet({i \in Remaining' : <<i, j>> \in ComponentEdges'})
      BY <2>3, FS_Subset
    <3> QED BY <3>1, FS_CardinalityType
  <2>6. degree' \in [DOMAIN degree' -> Nat]
    BY <2>4, <2>5
  <2>7. ready' \in SUBSET DOMAIN components'
    BY <2>1 DEF EmitInv, Remaining
  <2> QED BY <1>1, <1>9, <2>1, <2>6, <2>7 DEF EmitComponent, SortTypes
<1>10. CASE Done
  BY <1>1, <1>10 DEF Done, SortTypes
<1> QED BY <1>2, <1>3, <1>4, <1>5, <1>6, <1>7, <1>8, <1>9, <1>10 DEF SortNext

\* SortInv holds initially, and every step keeps it.
LEMMA SortInvariant ==
    ASSUME NumNodes \in Nat
    PROVE  SortSpec => []SortInv
<1>1. ASSUME SortInit PROVE SortInv
  <2>1. graph \in SUBSET (Nodes \X Nodes)
    BY <1>1 DEF SortInit, Less
  <2>2. SortTypes
    BY <1>1, <2>1 DEF SortInit, SortTypes
  <2>3. Gray = {} /\ Black = {}
    BY <1>1, ElementsFacts DEF SortInit, Gray, Black
  <2>4. ForwardInv
    BY <1>1, <2>3 DEF SortInit, ForwardInv
  <2>5. FinishOrder
    BY <1>1 DEF SortInit, FinishOrder
  <2> QED BY <1>1, <2>2, <2>4, <2>5 DEF SortInit, SortInv
<1>2. ASSUME SortInv, SortNext PROVE SortInv'
  <2>1. SortTypes' /\ SortTypes
    BY <1>2, TypesKept DEF SortInv
  <2>2. CASE CallForward
    BY <1>2, <2>1, <2>2, CallForwardInv DEF SortInv, CallForward
  <2>3. CASE ReturnForward
    BY <1>2, <2>1, <2>3, ReturnForwardInv DEF SortInv, ReturnForward
  <2>4. CASE BeginReverse
    BY <1>2, <2>1, <2>4, BeginReverseInv DEF SortInv, BeginReverse
  <2>5. CASE PopFinished
    BY <1>2, <2>1, <2>5, PopFinishedInv DEF SortInv, PopFinished
  <2>6. CASE CallReverse
    BY <1>2, <2>1, <2>6, CallReverseInv DEF SortInv, CallReverse
  <2>7. CASE ReturnReverse
    BY <1>2, <2>1, <2>7, ReturnReverseInv DEF SortInv, ReturnReverse
  <2>8. CASE BeginEmit
    BY <1>2, <2>1, <2>8, BeginEmitInv DEF SortInv, BeginEmit
  <2>9. CASE EmitComponent
    BY <1>2, <2>1, <2>9, EmitComponentInv DEF SortInv, EmitComponent
  <2>10. CASE Done
    <3>1. Rest = {} /\ Continued
      BY <1>2, <2>1, <2>10, DoneInv DEF SortInv, Done, EmitInv
    <3>2. Rest' = {} /\ Continued'
      BY <2>10, <3>1 DEF Done, Rest, Continued, Path
    <3> QED BY <2>1, <2>10, <3>2 DEF SortInv, Done
  <2> QED BY <1>2, <2>2, <2>3, <2>4, <2>5, <2>6, <2>7, <2>8, <2>9, <2>10 DEF SortNext
<1>3. ASSUME SortInv, UNCHANGED sortVars PROVE SortInv'
  <2>1. /\ graph' = graph /\ pc' = pc /\ stack' = stack /\ visited' = visited
        /\ finished' = finished /\ components' = components /\ degree' = degree
        /\ ready' = ready /\ sorted' = sorted
    BY <1>3 DEF sortVars
  <2>2. SortTypes'
    BY <1>3, <2>1 DEF SortInv, SortTypes
  <2>3. FinishOrder => FinishOrder'
    BY <2>1 DEF FinishOrder, Joined, Path
  <2>4. ForwardInv => ForwardInv'
    BY <2>1 DEF ForwardInv, Gray, Black, Successors, Joined, Path
  <2>5. ReverseInv => ReverseInv'
    BY <2>1 DEF ReverseInv, Complete, Assigned, IsComponent, Gray, Black, Predecessors, Joined, Path
  <2>6. Rest' = Rest /\ (Continued => Continued')
    BY <2>1 DEF Rest, Continued, Path
  <2>7. EmitInv => EmitInv'
    <3>1. Remaining' = Remaining /\ ComponentEdges' = ComponentEdges
      BY <2>1 DEF Remaining, ComponentEdges
    <3>2. ComponentsExact => ComponentsExact'
      BY <2>1 DEF ComponentsExact, IsComponent, Joined, Path
    <3> QED BY <2>1, <2>6, <3>1, <3>2 DEF EmitInv
  <2> QED BY <1>3, <2>1, <2>2, <2>3, <2>4, <2>5, <2>6, <2>7 DEF SortInv
<1> QED BY <1>1, <1>2, <1>3, PTL DEF SortSpec

\* The variables of the algorithm have their types, for any number of nodes.
THEOREM SortTypeOK ==
    ASSUME NumNodes \in Nat
    PROVE  SortSpec => []SortTypes
<1>1. SortInv => SortTypes
  BY DEF SortInv
<1> QED BY <1>1, SortInvariant, PTL

\* sort_batch puts out the linearization that the executor's model uses, for
\* any number of nodes and any graph of verdicts.
THEOREM SortsLikeLinearize ==
    ASSUME NumNodes \in Nat
    PROVE  SortSpec => []SortsAsSpecified
<1>1. ASSUME SortInv PROVE SortsAsSpecified
  <2> SUFFICES ASSUME pc = "done" PROVE sorted = Linearize(Nodes, graph, Less)
    BY DEF SortsAsSpecified
  <2>1. Rest = {} /\ Continued /\ sorted \in Seq(Nodes)
    BY <1>1 DEF SortInv, SortTypes
  <2> DEFINE order == LinearOrder(Nodes, graph, Less)
  <2>2. {} \in SUBSET Nodes /\ order[{}] = <<>>
    <3>1. order[{}] = OrderStep(Paths(Nodes, graph), Less, order, {})
      BY NodesFacts, LinearizeStep
    <3> HIDE DEF order
    <3> QED BY <3>1 DEF OrderStep
  <2>3. sorted \o order[{}] = Linearize(Nodes, graph, Less)
    BY <2>1 DEF Continued
  <2> HIDE DEF order
  <2> QED BY <2>1, <2>2, <2>3
<1> QED BY <1>1, SortInvariant, PTL

\* sort_batch puts out every node once, and a node comes before one that has
\* evidence against it only inside a cycle of verdicts.
THEOREM SortRespectsEvidence ==
    ASSUME NumNodes \in Nat
    PROVE  SortSpec => []EvidenceRespected
<1>1. ASSUME SortInv, SortsAsSpecified PROVE EvidenceRespected
  <2> SUFFICES ASSUME pc = "done"
               PROVE  /\ Len(sorted) = NumNodes
                      /\ Elements(sorted) = Nodes
                      /\ \A i, j \in Nodes :
                            (<<sorted[i], sorted[j]>> \in graph /\ j < i) =>
                               <<sorted[j], sorted[i]>> \in Paths(Nodes, graph)
    BY DEF EvidenceRespected
  <2>1. Rest = {} /\ Continued /\ sorted \in Seq(Nodes)
    BY <1>1 DEF SortInv, SortTypes
  <2>2. Elements(sorted) = Nodes
    BY <2>1, ElementsFacts DEF Rest
  <2>3. Lists(sorted, Nodes)
    BY <1>1, NodesFacts, LinearizeLists DEF SortsAsSpecified
  <2>4. Len(sorted) = NumNodes
    BY <2>3, NodesFacts DEF Lists
  <2>5. DOMAIN sorted = Nodes
    BY <2>1, <2>4 DEF Nodes
  <2> QED BY <2>1, <2>2, <2>4, <2>5 DEF Continued, Path
<1> QED BY <1>1, SortInvariant, SortsLikeLinearize, PTL

-----------------------------------------------------------------------------
(***************************************************************************)
(* Termination.                                                            *)
(***************************************************************************)

\* A bound on the steps that are left: a node is called, returned from and
\* popped once, called and returned from once more, and emitted.
StepsLeft ==
    LET unvisited == NumNodes - Cardinality(visited)
    IN CASE pc = "forward" ->
              3 * NumNodes + 3 + 3 * unvisited + 2 * Len(stack) + Len(finished)
         [] pc = "reverse" -> NumNodes + 2 + 2 * unvisited + Len(stack) + Len(finished)
         [] pc = "emit"    -> Cardinality(Rest) + 1
         [] OTHER          -> 0

\* While a component is ready there is a first one, since components share no
\* node: compare_components is never a tie.
EmissionGoesOn ==
    (pc = "emit" /\ ready # {}) =>
        \E current \in ready : \A j \in ready \ {current} :
            CompareComponents(components[current], components[j])

LEMMA Counts ==
    ASSUME NumNodes \in Nat
    PROVE  \A S \in SUBSET Nodes : /\ IsFiniteSet(S) /\ Cardinality(S) \in 0 .. NumNodes
                                   /\ \A T \in SUBSET S : T # S => Cardinality(T) < Cardinality(S)
                                   /\ \A a \in Nodes \ S : Cardinality(S \cup {a}) = Cardinality(S) + 1
<1> SUFFICES ASSUME NEW S \in SUBSET Nodes
             PROVE  /\ IsFiniteSet(S) /\ Cardinality(S) \in 0 .. NumNodes
                    /\ \A T \in SUBSET S : T # S => Cardinality(T) < Cardinality(S)
                    /\ \A a \in Nodes \ S : Cardinality(S \cup {a}) = Cardinality(S) + 1
  OBVIOUS
<1>1. IsFiniteSet(S) /\ Cardinality(S) <= NumNodes
  BY NodesFacts, FS_Subset
<1>2. Cardinality(S) \in Nat
  BY <1>1, FS_CardinalityType
<1>3. ASSUME NEW T \in SUBSET S, T # S PROVE Cardinality(T) < Cardinality(S)
  <2>1. IsFiniteSet(T) /\ Cardinality(T) <= Cardinality(S) /\ Cardinality(T) # Cardinality(S)
    BY <1>1, <1>3, FS_Subset
  <2>2. Cardinality(T) \in Nat
    BY <2>1, FS_CardinalityType
  <2> QED BY <1>2, <2>1, <2>2
<1>4. \A a \in Nodes \ S : Cardinality(S \cup {a}) = Cardinality(S) + 1
  BY <1>1, FS_AddElement
<1> QED BY <1>1, <1>2, <1>3, <1>4

\* Every step takes one off.
LEMMA StepsDecrease ==
    ASSUME NumNodes \in Nat, SortInv, SortNext
    PROVE  StepsLeft \in Nat /\ StepsLeft' \in Nat /\ StepsLeft' < StepsLeft
<1> DEFINE v == Cardinality(visited)
           w == Cardinality(visited')
<1>1. /\ v \in 0 .. NumNodes
      /\ \A a \in Nodes \ visited : Cardinality(visited \cup {a}) = v + 1
      /\ w \in 0 .. NumNodes
      /\ Len(stack) \in Nat /\ Len(finished) \in Nat
      /\ Len(stack') \in Nat /\ Len(finished') \in Nat
      /\ stack \in Seq(Nodes) /\ finished \in Seq(Nodes) /\ components \in Seq(SUBSET Nodes)
  <2>1. /\ visited \in SUBSET Nodes /\ stack \in Seq(Nodes) /\ finished \in Seq(Nodes)
        /\ components \in Seq(SUBSET Nodes)
    BY DEF SortInv, SortTypes
  <2>2. visited' \in SUBSET Nodes /\ stack' \in Seq(Nodes) /\ finished' \in Seq(Nodes)
    BY TypesKept DEF SortTypes
  <2> QED BY <2>1, <2>2, Counts
<1> HIDE DEF v, w
<1> DEFINE forward(k, s, t) == 3 * NumNodes + 3 + 3 * (NumNodes - k) + 2 * s + t
           reverse(k, s, t) == NumNodes + 2 + 2 * (NumNodes - k) + s + t
<1>2. /\ pc = "forward" => StepsLeft = forward(v, Len(stack), Len(finished))
      /\ pc = "reverse" => StepsLeft = reverse(v, Len(stack), Len(finished))
      /\ pc = "emit" => StepsLeft = Cardinality(Rest) + 1
  BY DEF StepsLeft, v
<1>3. /\ pc' = "forward" => StepsLeft' = forward(w, Len(stack'), Len(finished'))
      /\ pc' = "reverse" => StepsLeft' = reverse(w, Len(stack'), Len(finished'))
      /\ pc' = "emit" => StepsLeft' = Cardinality(Rest') + 1
      /\ pc' = "done" => StepsLeft' = 0
  BY DEF StepsLeft, w
<1>4. Cardinality(Rest) \in 0 .. NumNodes /\ Cardinality(Rest') \in 0 .. NumNodes
  <2>1. Rest \in SUBSET Nodes /\ Rest' \in SUBSET Nodes
    BY DEF Rest
  <2> QED BY <2>1, Counts
<1>5. ASSUME NEW a \in Nodes \ visited, Call(a) PROVE w = v + 1 /\ Len(stack') = Len(stack) + 1
  <2>1. visited' = visited \cup {a} /\ stack' = Append(stack, a)
    BY <1>5 DEF Call
  <2> QED BY <1>1, <2>1, AppendFacts DEF w
<1>6. ASSUME stack # <<>>, Return PROVE Len(stack') = Len(stack) - 1
  BY <1>1, <1>6, FrontFacts DEF Return
<1>7. visited' = visited => w = v
  BY DEF v, w
<1>8. CASE CallForward
  <2>1. Min(ForwardLoop) \in Nodes \ visited
    <3>1. ForwardLoop \in SUBSET (Nodes \ visited) /\ ForwardLoop # {} /\ ForwardLoop \in SUBSET Nodes
      BY <1>8 DEF CallForward, ForwardLoop, Successors
    <3> QED BY <3>1, NodesFacts
  <2>2. w = v + 1 /\ Len(stack') = Len(stack) + 1 /\ finished' = finished
        /\ pc = "forward" /\ pc' = "forward"
    BY <1>5, <1>8, <2>1 DEF CallForward
  <2> QED BY <1>1, <1>2, <1>3, <2>2
<1>9. CASE ReturnForward
  <2>1. Len(stack') = Len(stack) - 1 /\ w = v /\ pc = "forward" /\ pc' = "forward"
    BY <1>6, <1>7, <1>9 DEF ReturnForward
  <2>2. Len(finished') = Len(finished) + 1
    <3>1. finished' = Append(finished, Last(stack)) /\ Last(stack) \in Nodes
      BY <1>1, <1>9, FrontFacts DEF ReturnForward
    <3> QED BY <1>1, <3>1, AppendFacts
  <2> QED BY <1>1, <1>2, <1>3, <2>1, <2>2
<1>10. CASE BeginReverse
  <2>1. /\ stack' = stack /\ finished' = finished /\ pc = "forward" /\ pc' = "reverse"
        /\ w = 0 /\ Len(stack) = 0
    BY <1>10, FS_EmptySet DEF BeginReverse, w
  <2> QED BY <1>1, <1>2, <1>3, <2>1
<1>11. CASE PopFinished
  <2>1. pc = "reverse" /\ pc' = "reverse" /\ Len(finished') = Len(finished) - 1
    BY <1>1, <1>11, FrontFacts DEF PopFinished
  <2>2. \/ w = v /\ stack' = stack
        \/ w = v + 1 /\ Len(stack') = Len(stack) + 1
    <3>1. Last(finished) \in Nodes
      BY <1>1, <1>11, FrontFacts DEF PopFinished
    <3> QED BY <1>5, <1>7, <1>11, <3>1 DEF PopFinished
  <2> QED BY <1>1, <1>2, <1>3, <2>1, <2>2
<1>12. CASE CallReverse
  <2>1. Min(ReverseLoop) \in Nodes \ visited
    <3>1. ReverseLoop \in SUBSET (Nodes \ visited) /\ ReverseLoop # {} /\ ReverseLoop \in SUBSET Nodes
      BY <1>12 DEF CallReverse, ReverseLoop, Predecessors
    <3> QED BY <3>1, NodesFacts
  <2>2. w = v + 1 /\ Len(stack') = Len(stack) + 1 /\ finished' = finished
        /\ pc = "reverse" /\ pc' = "reverse"
    BY <1>5, <1>12, <2>1 DEF CallReverse
  <2> QED BY <1>1, <1>2, <1>3, <2>2
<1>13. CASE ReturnReverse
  <2>1. Len(stack') = Len(stack) - 1 /\ w = v /\ pc = "reverse" /\ pc' = "reverse"
        /\ finished' = finished
    BY <1>6, <1>7, <1>13 DEF ReturnReverse
  <2> QED BY <1>1, <1>2, <1>3, <2>1
<1>14. CASE BeginEmit
  <2>1. pc = "reverse" /\ pc' = "emit"
    BY <1>14 DEF BeginEmit
  <2> QED BY <1>1, <1>2, <1>3, <1>4, <2>1
<1>15. CASE EmitComponent
  <2>1. pc = "emit" /\ pc' = "emit"
    BY <1>15 DEF EmitComponent
  <2>2. Rest' \subseteq Rest /\ Rest' # Rest /\ Rest \subseteq Nodes
    BY <1>15, <2>1, EmitComponentInv DEF SortInv, Rest
  <2>3. Cardinality(Rest') < Cardinality(Rest)
    BY <2>2, Counts
  <2> QED BY <1>2, <1>3, <1>4, <2>1, <2>3
<1>16. CASE Done
  <2>1. pc = "emit" /\ pc' = "done"
    BY <1>16 DEF Done
  <2> QED BY <1>2, <1>3, <1>4, <2>1
<1> QED BY <1>8, <1>9, <1>10, <1>11, <1>12, <1>13, <1>14, <1>15, <1>16 DEF SortNext

\* Of the ready components one has the least node of all.
LEMMA FirstReadyExists ==
    ASSUME NumNodes \in Nat, SortInv
    PROVE  EmissionGoesOn
<1> SUFFICES ASSUME pc = "emit", ready # {}
             PROVE  \E current \in ready : \A j \in ready \ {current} :
                       CompareComponents(components[current], components[j])
  BY DEF EmissionGoesOn
<1>1. /\ SortTypes /\ EmitInv
      /\ ready \subseteq Remaining /\ Remaining \subseteq DOMAIN components
      /\ \A i, j \in DOMAIN components : i # j => components[i] \cap components[j] = {}
  BY DEF SortInv, EmitInv, ComponentsExact, Remaining
<1>2. \A j \in ready : components[j] \subseteq Nodes /\ components[j] # {}
  BY <1>1, ReadyComponents DEF Rest
<1> DEFINE all == UNION {components[j] : j \in ready}
<1>3. all \in SUBSET Nodes /\ all # {}
  BY <1>2
<1>4. Min(all) \in all /\ \A a \in all : Min(all) <= a
  <2> HIDE DEF all
  <2> QED BY <1>3, NodesFacts
<1>5. PICK current \in ready : Min(all) \in components[current]
  BY <1>4
<1>6. \A j \in ready : /\ Min(components[j]) \in components[j]
                       /\ Min(components[j]) \in all /\ Min(components[j]) \in Nat
                       /\ \A a \in components[j] : Min(components[j]) <= a
  <2> SUFFICES ASSUME NEW j \in ready
               PROVE  /\ Min(components[j]) \in components[j]
                      /\ Min(components[j]) \in all /\ Min(components[j]) \in Nat
                      /\ \A a \in components[j] : Min(components[j]) <= a
    OBVIOUS
  <2>1. Min(components[j]) \in components[j] /\ \A a \in components[j] : Min(components[j]) <= a
    BY <1>2, NodesFacts
  <2> QED BY <1>2, <2>1, NodesFacts
<1> HIDE DEF all
<1>7. Min(components[current]) = Min(all)
  <2>1. Min(components[current]) <= Min(all) /\ Min(all) <= Min(components[current])
    BY <1>4, <1>5, <1>6
  <2>2. Min(all) \in Nat
    BY <1>3, <1>4, NodesFacts
  <2> QED BY <1>6, <2>1, <2>2
<1>8. ASSUME NEW j \in ready \ {current}
      PROVE  CompareComponents(components[current], components[j])
  <2>1. Min(components[current]) # Min(components[j])
    <3>1. Min(components[current]) \notin components[j]
      BY <1>1, <1>6
    <3> QED BY <1>6, <3>1
  <2>2. Min(components[current]) <= Min(components[j])
    BY <1>4, <1>6, <1>7
  <2> QED BY <1>6, <2>1, <2>2 DEF CompareComponents
<1> QED BY <1>8

\* sort_batch ends after a number of steps linear in the size of the batch:
\* every step lowers a bound on those that are left, and as long as some
\* component is ready the emission can go on with one.
THEOREM SortTerminates ==
    ASSUME NumNodes \in Nat
    PROVE  SortSpec => /\ StepsLeft = 6 * NumNodes + 3
                   /\ [][StepsLeft' \in Nat /\ StepsLeft' < StepsLeft]_sortVars
                   /\ []EmissionGoesOn
<1>1. SortInit => StepsLeft = 6 * NumNodes + 3
  <2> SUFFICES ASSUME SortInit PROVE StepsLeft = 6 * NumNodes + 3
    OBVIOUS
  <2>1. pc = "forward" /\ Cardinality(visited) = 0 /\ Len(stack) = 0 /\ Len(finished) = 0
    BY FS_EmptySet DEF SortInit
  <2> QED BY <2>1 DEF StepsLeft
<1>2. SortInv /\ [SortNext]_sortVars => [StepsLeft' \in Nat /\ StepsLeft' < StepsLeft]_sortVars
  BY StepsDecrease
<1>3. SortInv => EmissionGoesOn
  BY FirstReadyExists
<1> QED BY <1>1, <1>2, <1>3, SortInvariant, PTL DEF SortSpec
==============================================================================
