----------------------------- MODULE DagProofs -----------------------------
(***************************************************************************)
(* What is true of every committee and of every DAG of certificates: the   *)
(* stake of a set of authorities does not depend on the order it is summed *)
(* in and grows with the set, so that the two thresholds of                *)
(* config/src/lib.rs make quorums meet; what a walk along parent links     *)
(* finds; which certificates descend from a leader with f+1 support; and   *)
(* that two chains of leaders that end in such leaders agree.              *)
(*                                                                         *)
(* Of the linearization (module SliceOrder): what its recursions compute,  *)
(* and that it lists every node once.                                      *)
(*                                                                         *)
(* Induction over naturals is taken from the well-foundedness of < for a   *)
(* set of naturals instead of a predicate.                                 *)
(***************************************************************************)
EXTENDS Dag, SliceOrder, TLAPS, FiniteSetTheorems, FunctionTheorems

\* A set of naturals with 0 and the successors of its elements has them all:
\* the induction that the sums over stake are computed by.
LEMMA NatSetInduction ==
    ASSUME NEW S \in SUBSET Nat, 0 \in S, \A n \in S : n + 1 \in S
    PROVE  \A n \in Nat : n \in S
<1> DEFINE Rest == Nat \ S
<1> SUFFICES ASSUME Rest # {} PROVE FALSE
  OBVIOUS
<1>1. PICK x \in Rest : \A y \in Rest : ~ (<<y, x>> \in OpToRel(<, Nat))
  <2> Rest \subseteq Nat
    OBVIOUS
  <2> HIDE DEF Rest
  <2> QED BY NatLessThanWellFounded, WFMin
<1>2. x \in Nat /\ x # 0
  OBVIOUS
<1>3. x - 1 \in Nat /\ x - 1 < x
  BY <1>2
<1>4. <<x - 1, x>> \in OpToRel(<, Nat)
  BY <1>2, <1>3 DEF OpToRel
<1>5. x - 1 \in S
  BY <1>1, <1>3, <1>4
<1>6. x = (x - 1) + 1
  BY <1>2
<1> QED BY <1>5, <1>6

-----------------------------------------------------------------------------
(***************************************************************************)
(* The sum that StakeOf computes.                                          *)
(***************************************************************************)

Picked(s) == CHOOSE x \in s : TRUE

\* The recursion of MapThenFoldSet, one step of it.
SumStep(f, s) == IF s = {} THEN 0 ELSE Stake[Picked(s)] + f[s \ {Picked(s)}]

IsSum(f, T) == f = [s \in SUBSET T |-> SumStep(f, s)]

SumOver(T) == CHOOSE f : IsSum(f, T)

\* StakeOf is the sum at the whole set.
LEMMA StakeOfIsSum == \A T : StakeOf(T) = SumOver(T)[T]
  BY DEF StakeOf, MapThenSumSet, MapThenFoldSet, SumOver, IsSum, SumStep, Picked

\* The recursion that StakeOf is defined by has a solution on finite sets.
LEMMA SumExists ==
    ASSUME NEW T, IsFiniteSet(T)
    PROVE  IsSum(SumOver(T), T)
<1> DEFINE Upto(f, n) == \A s \in SUBSET T : Cardinality(s) <= n => f[s] = SumStep(f, s)
           Good == {n \in Nat : \E f : DOMAIN f = SUBSET T /\ f = [s \in SUBSET T |-> f[s]]
                                       /\ Upto(f, n)}
<1>1. \A s \in SUBSET T : IsFiniteSet(s) /\ Cardinality(s) \in Nat
                          /\ Cardinality(s) <= Cardinality(T)
  BY FS_Subset, FS_CardinalityType
<1>2. 0 \in Good
  <2> DEFINE f == [s \in SUBSET T |-> 0]
  <2>1. \A s \in SUBSET T : Cardinality(s) <= 0 => s = {}
    BY <1>1, FS_EmptySet
  <2>2. Upto(f, 0)
    BY <2>1 DEF SumStep
  <2> QED BY <2>2
<1>3. ASSUME NEW n \in Good PROVE n + 1 \in Good
  <2>1. PICK f : DOMAIN f = SUBSET T /\ Upto(f, n)
    BY <1>3
  <2> DEFINE g == [s \in SUBSET T |-> SumStep(f, s)]
  <2>2. ASSUME NEW s \in SUBSET T, Cardinality(s) <= n + 1
        PROVE  g[s] = SumStep(g, s)
    <3>1. CASE s = {}
      BY <3>1 DEF SumStep
    <3>2. CASE s # {}
      <4> DEFINE t == s \ {Picked(s)}
      <4>1. Picked(s) \in s
        BY <3>2 DEF Picked
      <4>2. t \in SUBSET T /\ Cardinality(t) = Cardinality(s) - 1
        BY <4>1, <1>1, FS_RemoveElement
      <4>3. Cardinality(t) <= n
        BY <4>2, <2>2, <1>1
      <4>4. f[t] = SumStep(f, t)
        BY <4>2, <4>3, <2>1
      <4>5. g[t] = f[t]
        BY <4>2, <4>4
      <4> QED BY <4>5, <3>2 DEF SumStep
    <3> QED BY <3>1, <3>2
  <2>3. Upto(g, n + 1)
    BY <2>2
  <2> HIDE DEF Upto
  <2>4. DOMAIN g = SUBSET T /\ g = [s \in SUBSET T |-> g[s]]
    OBVIOUS
  <2> HIDE DEF g
  <2> QED BY <2>3, <2>4
<1>4. \A n \in Nat : n \in Good
  <2> Good \in SUBSET Nat
    OBVIOUS
  <2> HIDE DEF Good
  <2> QED BY <1>2, <1>3, NatSetInduction
<1>5. Cardinality(T) \in Good
  BY <1>4, FS_CardinalityType
<1>6. PICK f : f = [s \in SUBSET T |-> f[s]] /\ Upto(f, Cardinality(T))
  BY <1>5
<1>7. \A s \in SUBSET T : f[s] = SumStep(f, s)
  BY <1>6, <1>1
<1>8. IsSum(f, T)
  BY <1>6, <1>7 DEF IsSum
<1> QED BY <1>8 DEF SumOver

\* Sets of authorities are finite, and their stake a natural number.
LEMMA AuthorityFinite ==
    \A S \in SUBSET Authority : IsFiniteSet(S) /\ Cardinality(S) \in Nat
<1>1. IsFiniteSet(Authority)
  BY NAssumption, FS_Interval DEF Authority
<1> QED BY <1>1, FS_Subset, FS_CardinalityType

\* The sum over a set does not depend on the set that the recursion was
\* started from.
LEMMA SumIsStake ==
    ASSUME NEW T \in SUBSET Authority, NEW s \in SUBSET T
    PROVE  SumOver(T)[s] = StakeOf(s)
<1> DEFINE f == SumOver(T)
           g == SumOver(s)
           Same == {n \in Nat : \A t \in SUBSET s : Cardinality(t) = n => f[t] = g[t]}
<1>1. IsSum(f, T) /\ IsSum(g, s)
  BY SumExists, AuthorityFinite
<1>2. \A t \in SUBSET s : f[t] = SumStep(f, t) /\ g[t] = SumStep(g, t)
  BY <1>1 DEF IsSum
<1> HIDE DEF f, g
<1>3. 0 \in Same
  <2>1. \A t \in SUBSET s : Cardinality(t) = 0 => t = {}
    BY FS_EmptySet, AuthorityFinite
  <2> QED BY <2>1, <1>2 DEF SumStep
<1>4. ASSUME NEW n \in Same PROVE n + 1 \in Same
  <2> SUFFICES ASSUME NEW t \in SUBSET s, Cardinality(t) = n + 1 PROVE f[t] = g[t]
    OBVIOUS
  <2>1. t # {}
    BY FS_EmptySet
  <2>2. Picked(t) \in t
    BY <2>1 DEF Picked
  <2>3. t \ {Picked(t)} \in SUBSET s /\ Cardinality(t \ {Picked(t)}) = n
    <3>1. IsFiniteSet(t) /\ n \in Nat
      BY AuthorityFinite
    <3>2. Cardinality(t \ {Picked(t)}) = Cardinality(t) - 1
      BY <2>2, <3>1, FS_RemoveElement
    <3> QED BY <3>1, <3>2
  <2>4. f[t \ {Picked(t)}] = g[t \ {Picked(t)}]
    BY <2>3
  <2> QED BY <2>1, <2>4, <1>2 DEF SumStep
<1>5. \A n \in Nat : n \in Same
  <2> Same \in SUBSET Nat
    OBVIOUS
  <2> HIDE DEF Same
  <2> QED BY <1>3, <1>4, NatSetInduction
<1>6. f[s] = g[s]
  BY <1>5, AuthorityFinite
<1> QED BY <1>6, StakeOfIsSum DEF f, g

\* The empty set has no stake, and the stake of another one is that of the
\* authority that is picked and the rest.
LEMMA StakeRecursion ==
    ASSUME NEW T \in SUBSET Authority
    PROVE  /\ T = {} => StakeOf(T) = 0
           /\ T # {} => /\ Picked(T) \in T
                        /\ StakeOf(T) = Stake[Picked(T)] + StakeOf(T \ {Picked(T)})
<1>1. SumOver(T)[T] = SumStep(SumOver(T), T)
  BY SumExists, AuthorityFinite DEF IsSum
<1>2. T # {} => Picked(T) \in T
  BY DEF Picked
<1> QED BY <1>1, <1>2, SumIsStake DEF SumStep

\* The stake of a set of authorities is a natural number.
LEMMA StakeNatural == \A T \in SUBSET Authority : StakeOf(T) \in Nat
<1> DEFINE Good == {n \in Nat : \A t \in SUBSET Authority :
                                    Cardinality(t) = n => StakeOf(t) \in Nat}
<1>1. 0 \in Good
  <2>1. \A t \in SUBSET Authority : Cardinality(t) = 0 => t = {}
    BY FS_EmptySet, AuthorityFinite
  <2> QED BY <2>1, StakeRecursion
<1>2. ASSUME NEW n \in Good PROVE n + 1 \in Good
  <2> SUFFICES ASSUME NEW t \in SUBSET Authority, Cardinality(t) = n + 1
               PROVE  StakeOf(t) \in Nat
    OBVIOUS
  <2> DEFINE c == Picked(t)
  <2>1. t # {}
    BY FS_EmptySet
  <2>2. c \in t /\ StakeOf(t) = Stake[c] + StakeOf(t \ {c})
    BY <2>1, StakeRecursion
  <2>3. t \ {c} \in SUBSET Authority /\ Cardinality(t \ {c}) = n
    BY <2>2, FS_RemoveElement, AuthorityFinite
  <2>4. StakeOf(t \ {c}) \in Nat
    BY <2>3
  <2>5. Stake[c] \in Nat
    BY <2>2, StakeAssumption
  <2> QED BY <2>2, <2>4, <2>5
<1>3. \A n \in Nat : n \in Good
  <2> Good \in SUBSET Nat
    OBVIOUS
  <2> HIDE DEF Good
  <2> QED BY <1>1, <1>2, NatSetInduction
<1> QED BY <1>3, AuthorityFinite

\* The order in which the authorities are picked does not matter.
LEMMA StakeRemove ==
    ASSUME NEW T \in SUBSET Authority, NEW y \in T
    PROVE  StakeOf(T) = Stake[y] + StakeOf(T \ {y})
<1> DEFINE Fine(t) == \A x \in t : StakeOf(t) = Stake[x] + StakeOf(t \ {x})
           Good == {n \in Nat : \A t \in SUBSET Authority : Cardinality(t) = n => Fine(t)}
<1>1. 0 \in Good
  <2>1. \A t \in SUBSET Authority : Cardinality(t) = 0 => t = {}
    BY FS_EmptySet, AuthorityFinite
  <2> QED BY <2>1
<1>2. ASSUME NEW n \in Good PROVE n + 1 \in Good
  <2> SUFFICES ASSUME NEW t \in SUBSET Authority, Cardinality(t) = n + 1, NEW x \in t
               PROVE  StakeOf(t) = Stake[x] + StakeOf(t \ {x})
    OBVIOUS
  <2> DEFINE c == Picked(t)
             rest == (t \ {c}) \ {x}
  <2>1. c \in t /\ StakeOf(t) = Stake[c] + StakeOf(t \ {c})
    BY StakeRecursion
  <2>2. CASE x = c
    BY <2>1, <2>2
  <2>3. CASE x # c
    <3>1. Cardinality(t \ {c}) = n /\ Cardinality(t \ {x}) = n
      BY <2>1, FS_RemoveElement, AuthorityFinite
    <3>2. Fine(t \ {c}) /\ Fine(t \ {x})
      BY <3>1
    <3>3. StakeOf(t \ {c}) = Stake[x] + StakeOf(rest)
      BY <3>2, <2>3
    <3>4. (t \ {x}) \ {c} = rest
      OBVIOUS
    <3>5. StakeOf(t \ {x}) = Stake[c] + StakeOf(rest)
      BY <3>2, <3>4, <2>1, <2>3
    <3>6. Stake[c] \in Nat /\ Stake[x] \in Nat
      BY <2>1, StakeAssumption
    <3>7. StakeOf(rest) \in Nat /\ StakeOf(t \ {c}) \in Nat /\ StakeOf(t \ {x}) \in Nat
      BY StakeNatural
    <3> HIDE DEF c, rest
    <3> QED BY <2>1, <3>3, <3>5, <3>6, <3>7
  <2> QED BY <2>2, <2>3
<1>3. \A n \in Nat : n \in Good
  <2> Good \in SUBSET Nat
    OBVIOUS
  <2> HIDE DEF Good
  <2> QED BY <1>1, <1>2, NatSetInduction
<1> QED BY <1>3, AuthorityFinite

\* Another authority adds its stake.
LEMMA StakeAdd ==
    ASSUME NEW T \in SUBSET Authority, NEW x \in Authority \ T
    PROVE  StakeOf(T \cup {x}) = StakeOf(T) + Stake[x]
<1>1. (T \cup {x}) \ {x} = T
  OBVIOUS
<1>2. StakeOf(T \cup {x}) = Stake[x] + StakeOf(T)
  BY <1>1, StakeRemove
<1> QED BY <1>2, StakeNatural, StakeAssumption

-----------------------------------------------------------------------------
(***************************************************************************)
(* Stake as a measure, and the thresholds.                                 *)
(***************************************************************************)

\* What two sets have together is what they have in all and in common.
LEMMA StakeModular ==
    ASSUME NEW A \in SUBSET Authority, NEW B \in SUBSET Authority
    PROVE  StakeOf(A \cup B) + StakeOf(A \cap B) = StakeOf(A) + StakeOf(B)
<1> DEFINE Good == {n \in Nat : \A t \in SUBSET Authority : Cardinality(t) = n =>
                        StakeOf(A \cup t) + StakeOf(A \cap t) = StakeOf(A) + StakeOf(t)}
<1>1. 0 \in Good
  <2>1. \A t \in SUBSET Authority : Cardinality(t) = 0 => t = {}
    BY FS_EmptySet, AuthorityFinite
  <2>2. A \cup {} = A /\ A \cap {} = {}
    OBVIOUS
  <2> QED BY <2>1, <2>2
<1>2. ASSUME NEW n \in Good PROVE n + 1 \in Good
  <2> SUFFICES ASSUME NEW t \in SUBSET Authority, Cardinality(t) = n + 1
               PROVE  StakeOf(A \cup t) + StakeOf(A \cap t) = StakeOf(A) + StakeOf(t)
    OBVIOUS
  <2>1. PICK x \in t : TRUE
    BY FS_EmptySet
  <2> DEFINE s == t \ {x}
  <2>2. Cardinality(s) = n /\ s \in SUBSET Authority
    BY FS_RemoveElement, AuthorityFinite
  <2>3. StakeOf(A \cup s) + StakeOf(A \cap s) = StakeOf(A) + StakeOf(s)
    BY <2>2
  <2>4. StakeOf(t) = StakeOf(s) + Stake[x]
    BY <2>2, StakeRemove, StakeNatural, StakeAssumption
  <2>5. /\ StakeOf(A) \in Nat /\ StakeOf(s) \in Nat /\ Stake[x] \in Nat
        /\ StakeOf(A \cup s) \in Nat /\ StakeOf(A \cap s) \in Nat
    <3>1. A \cup s \in SUBSET Authority /\ A \cap s \in SUBSET Authority
      OBVIOUS
    <3> HIDE DEF s
    <3> QED BY <3>1, <2>2, StakeNatural, StakeAssumption
  <2>6. CASE x \in A
    <3>1. A \cup t = A \cup s /\ A \cap t = (A \cap s) \cup {x} /\ x \notin A \cap s
      BY <2>6
    <3>2. /\ StakeOf(A \cap t) = StakeOf(A \cap s) + Stake[x]
          /\ StakeOf(A \cup t) = StakeOf(A \cup s)
      BY <3>1, StakeAdd
    <3> HIDE DEF s
    <3> QED BY <3>2, <2>3, <2>4, <2>5
  <2>7. CASE x \notin A
    <3>1. A \cap t = A \cap s /\ A \cup t = (A \cup s) \cup {x} /\ x \notin A \cup s
      BY <2>7
    <3>2. /\ StakeOf(A \cup t) = StakeOf(A \cup s) + Stake[x]
          /\ StakeOf(A \cap t) = StakeOf(A \cap s)
      BY <3>1, StakeAdd
    <3> HIDE DEF s
    <3> QED BY <3>2, <2>3, <2>4, <2>5
  <2> QED BY <2>6, <2>7
<1>3. \A n \in Nat : n \in Good
  <2> Good \in SUBSET Nat
    OBVIOUS
  <2> HIDE DEF Good
  <2> QED BY <1>1, <1>2, NatSetInduction
<1> QED BY <1>3, AuthorityFinite

\* More authorities do not have less stake.
LEMMA StakeMonotone ==
    ASSUME NEW T \in SUBSET Authority, NEW S \in SUBSET T
    PROVE  StakeOf(S) <= StakeOf(T)
<1>1. S \cup (T \ S) = T /\ S \cap (T \ S) = {}
  OBVIOUS
<1>2. StakeOf(T) + StakeOf({}) = StakeOf(S) + StakeOf(T \ S)
  <2>1. T \ S \in SUBSET Authority /\ S \in SUBSET Authority
    OBVIOUS
  <2> QED BY <1>1, <2>1, StakeModular
<1>3. StakeOf({}) = 0
  BY StakeRecursion
<1> QED BY <1>2, <1>3, StakeNatural

\* No set of authorities has more than the whole committee.
LEMMA StakeBounded == \A T \in SUBSET Authority : StakeOf(T) \in 0 .. TotalStake
  BY StakeMonotone, StakeNatural DEF TotalStake

\* The thresholds of Committee::quorum_threshold and validity_threshold: a
\* quorum can be had, and two quorums exceed the total by f+1.
LEMMA Thresholds ==
    /\ TotalStake \in Nat \ {0}
    /\ quorum_threshold \in 1 .. TotalStake
    /\ validity_threshold \in 1 .. quorum_threshold
    /\ 2 * quorum_threshold >= TotalStake + validity_threshold
    /\ quorum_threshold + validity_threshold > TotalStake
<1>1. TotalStake \in Nat \ {0}
  BY StakeFits
<1>2. \A t \in Nat \ {0} : LET q == (2 * t) \div 3 + 1
                               v == (t + 2) \div 3
                           IN /\ q \in 1 .. t /\ v \in 1 .. q
                              /\ 2 * q >= t + v /\ q + v > t
  OBVIOUS
<1> QED BY <1>1, <1>2 DEF quorum_threshold, validity_threshold, QuorumOf, ValidityOf

\* Two quorums have the stake of the validity threshold in common, so that one
\* of its authorities does not fail: why an author has one certificate per
\* round, and why there is one order.
THEOREM QuorumsIntersect ==
    ASSUME NEW A \in SUBSET Authority, NEW B \in SUBSET Authority,
           StakeOf(A) >= quorum_threshold, StakeOf(B) >= quorum_threshold
    PROVE  StakeOf(A \cap B) >= validity_threshold
<1>1. StakeOf(A \cup B) + StakeOf(A \cap B) = StakeOf(A) + StakeOf(B)
  BY StakeModular
<1>2. StakeOf(A \cup B) <= TotalStake /\ StakeOf(A \cup B) \in Nat
  BY StakeBounded, Thresholds
<1>3. StakeOf(A) \in Nat /\ StakeOf(B) \in Nat /\ StakeOf(A \cap B) \in Nat
  BY StakeNatural
<1> QED BY <1>1, <1>2, <1>3, Thresholds

\* A quorum meets every set with the stake of the validity threshold: a round
\* of the DAG cannot pass by the supporters of a leader that is committed.
THEOREM QuorumMeetsValidity ==
    ASSUME NEW A \in SUBSET Authority, NEW B \in SUBSET Authority,
           StakeOf(A) >= quorum_threshold, StakeOf(B) >= validity_threshold
    PROVE  A \cap B # {}
<1> SUFFICES ASSUME A \cap B = {} PROVE FALSE
  OBVIOUS
<1>1. StakeOf(A \cup B) + StakeOf({}) = StakeOf(A) + StakeOf(B)
  BY StakeModular
<1>2. StakeOf({}) = 0
  BY StakeRecursion
<1>3. StakeOf(A \cup B) <= TotalStake /\ StakeOf(A \cup B) \in Nat
  BY StakeBounded, Thresholds
<1>4. StakeOf(A) \in Nat /\ StakeOf(B) \in Nat
  BY StakeNatural
<1> QED BY <1>1, <1>2, <1>3, <1>4, Thresholds


-----------------------------------------------------------------------------
(***************************************************************************)
(* Bounds of sets of naturals, certificates and leaders.                   *)
(***************************************************************************)

\* A non-empty set of naturals below a bound has a greatest element, so Max
\* (of last_committed, in State::update) is what its name says.
LEMMA MaxOfBounded ==
    ASSUME NEW n \in Nat, NEW S, S \subseteq 0 .. n, S # {}
    PROVE  Max(S) \in S /\ \A y \in S : y <= Max(S)
<1>0. \A s \in S : s \in Nat /\ s <= n
  OBVIOUS
<1> DEFINE T == {n - s : s \in S}
<1>1. T \subseteq Nat /\ T # {}
  <2>1. \A s \in S : n - s \in Nat
    BY <1>0
  <2>2. PICK s \in S : TRUE
    OBVIOUS
  <2>3. n - s \in T
    BY <2>2
  <2> QED BY <2>1, <2>3
<1>3. PICK x \in T : \A y \in T : ~ (<<y, x>> \in OpToRel(<, Nat))
  <2> HIDE DEF T
  <2> QED BY <1>1, NatLessThanWellFounded, WFMin
<1>4. PICK s \in S : x = n - s
  BY <1>3
<1>5. ASSUME NEW y \in S PROVE s >= y
  <2>1. n - y \in T /\ n - y \in Nat /\ x \in Nat
    BY <1>0, <1>4
  <2>2. ~ (n - y < x)
    <3> HIDE DEF T
    <3> QED BY <2>1, <1>3 DEF OpToRel
  <2> QED BY <2>2, <1>0, <1>4
<1>6. \E m \in S : \A y \in S : m >= y
  BY <1>5
<1>7. Max(S) \in S /\ \A y \in S : Max(S) >= y
  BY <1>6 DEF Max
<1> QED BY <1>7, <1>0

\* A non-empty set of naturals has a least element, so Min is what it says.
LEMMA MinOfNaturals ==
    ASSUME NEW S, S \subseteq Nat, S # {}
    PROVE  Min(S) \in S /\ \A y \in S : Min(S) <= y
<1>1. PICK x \in S : \A y \in S : ~ (<<y, x>> \in OpToRel(<, Nat))
  BY NatLessThanWellFounded, WFMin
<1>2. ASSUME NEW y \in S PROVE x <= y
  <2>1. x \in Nat /\ y \in Nat
    OBVIOUS
  <2>2. ~ (y < x)
    BY <1>1, <2>1 DEF OpToRel
  <2> QED BY <2>1, <2>2
<1> QED BY <1>2 DEF Min

\* A certificate is a pair of an author and a round.
LEMMA CertificateFacts ==
    \A v \in Certificate : /\ origin(v) \in Authority
                           /\ round(v) \in Round
                           /\ round(v) \in Nat
                           /\ round(v) <= MaxRound
  BY MaxRoundAssumption DEF Certificate, origin, round, Round

\* The leader of a round is a certificate of that round.
LEMMA LeaderFacts ==
    ASSUME NEW r \in Round
    PROVE  round(leader(r)) = r /\ leader(r) \in Certificate
<1>1. r % N \in 0 .. (N - 1)
  BY NAssumption, MaxRoundAssumption DEF Round
<1> QED BY <1>1 DEF leader, round, Certificate, Authority
-----------------------------------------------------------------------------
(***************************************************************************)
(* The walk along parent links.                                            *)
(***************************************************************************)

\* The layers of a walk: the first is the certificate, each of the next ones
\* the parents, in the set the walk stays in, of the one before.
LEMMA LayersStep ==
    ASSUME NEW p, NEW d, NEW v \in Certificate
    PROVE  /\ Layers(p, d, v)[0] = {v}
           /\ \A k \in 1 .. round(v) :
                 Layers(p, d, v)[k] = d \cap UNION {p[w] : w \in Layers(p, d, v)[k - 1]}
<1> DEFINE n == round(v)
           Above(f, k) == d \cap UNION {p[w] : w \in f[k - 1]}
           Step(f, k) == IF k = 0 THEN {v} ELSE Above(f, k)
           IsWalk(f) == f = [k \in 0 .. n |-> Step(f, k)]
           Good == {m \in Nat : \E f : /\ f = [k \in 0 .. n |-> f[k]]
                                       /\ \A k \in 0 .. n : k <= m => f[k] = Step(f, k)}
<1>0. n \in Nat
  BY CertificateFacts
<1>1. Layers(p, d, v) = CHOOSE f : IsWalk(f)
  BY DEF Layers
<1>2. 0 \in Good
  <2> DEFINE f == [k \in 0 .. n |-> {v}]
  <2>1. f = [k \in 0 .. n |-> f[k]] /\ \A k \in 0 .. n : k <= 0 => f[k] = Step(f, k)
    OBVIOUS
  <2> QED BY <2>1
<1>3. ASSUME NEW m \in Good PROVE m + 1 \in Good
  <2>1. PICK f : /\ f = [k \in 0 .. n |-> f[k]]
                 /\ \A k \in 0 .. n : k <= m => f[k] = Step(f, k)
    BY <1>3
  <2> DEFINE g == [k \in 0 .. n |-> Step(f, k)]
  <2>2. g = [k \in 0 .. n |-> g[k]]
    OBVIOUS
  <2>3. ASSUME NEW k \in 0 .. n, k <= m + 1 PROVE g[k] = Step(g, k)
    <3>1. CASE k = 0
      BY <3>1
    <3>2. CASE k # 0
      <4>1. k - 1 \in 0 .. n /\ k - 1 <= m
        BY <3>2, <2>3, <1>0
      <4>2. f[k - 1] = g[k - 1]
        BY <4>1, <2>1
      <4> HIDE DEF g
      <4>3. Above(f, k) = Above(g, k)
        BY <4>2
      <4>4. g[k] = Step(f, k)
        BY DEF g
      <4> QED BY <4>3, <4>4, <3>2
    <3> QED BY <3>1, <3>2
  <2>4. m + 1 \in Nat
    OBVIOUS
  <2> HIDE DEF g, Step
  <2> QED BY <2>2, <2>3, <2>4
<1>4. n \in Good
  <2> Good \in SUBSET Nat
    OBVIOUS
  <2> HIDE DEF Good
  <2> QED BY <1>0, <1>2, <1>3, NatSetInduction
<1>5. \E f : IsWalk(f)
  <2>1. PICK f : /\ f = [k \in 0 .. n |-> f[k]]
                 /\ \A k \in 0 .. n : k <= n => f[k] = Step(f, k)
    BY <1>4
  <2>2. \A k \in 0 .. n : f[k] = Step(f, k)
    BY <2>1, <1>0
  <2> HIDE DEF Step
  <2>3. IsWalk(f)
    BY <2>1, <2>2
  <2> QED BY <2>3
<1>6. IsWalk(Layers(p, d, v))
  <2> HIDE DEF IsWalk
  <2> QED BY <1>1, <1>5
<1>7. ASSUME NEW f, IsWalk(f)
      PROVE  /\ f[0] = {v}
             /\ \A k \in 1 .. n : f[k] = d \cap UNION {p[w] : w \in f[k - 1]}
  <2>1. \A k \in 0 .. n : f[k] = Step(f, k)
    <3>1. f = [k \in 0 .. n |-> Step(f, k)]
      BY <1>7
    <3> HIDE DEF Step
    <3> QED BY <3>1, Zenon
  <2>2. 0 \in 0 .. n /\ \A k \in 1 .. n : k \in 0 .. n /\ k # 0
    BY <1>0
  <2> QED BY <2>1, <2>2
<1> HIDE DEF IsWalk
<1> QED BY <1>6, <1>7

\* The parents of a certificate are of the round before it.
LEMMA ParentFacts ==
    ASSUME NEW p, WellFormed(p), NEW v \in DOMAIN p
    PROVE  /\ v \in Certificate
           /\ p[v] \subseteq DOMAIN p
           /\ \A u \in p[v] : round(u) = round(v) - 1
           /\ round(v) > 0 => ValidParents(p, v)
<1>1. v \in Certificate /\ round(v) \in Nat
  BY CertificateFacts DEF WellFormed
<1>2. CASE round(v) = 0
  BY <1>1, <1>2 DEF WellFormed
<1>3. CASE round(v) # 0
  <2>1. ValidParents(p, v)
    BY <1>3 DEF WellFormed
  <2> QED BY <1>1, <2>1 DEF ValidParents, AtRound
<1> QED BY <1>2, <1>3

\* A walk finds certificates, k rounds back in its layer k.
LEMMA LayersTypes ==
    ASSUME NEW p, WellFormed(p), NEW d, d \subseteq DOMAIN p, NEW v \in DOMAIN p
    PROVE  \A k \in 0 .. round(v) : /\ Layers(p, d, v)[k] \subseteq d \cup {v}
                                    /\ \A w \in Layers(p, d, v)[k] : round(w) = round(v) - k
<1> DEFINE L == Layers(p, d, v)
           Fine(k) == L[k] \subseteq d \cup {v} /\ \A w \in L[k] : round(w) = round(v) - k
           Good == {k \in Nat : k <= round(v) => Fine(k)}
<1>0. v \in Certificate /\ round(v) \in Nat
  BY ParentFacts, CertificateFacts
<1>1. /\ L[0] = {v}
      /\ \A k \in 1 .. round(v) : L[k] = d \cap UNION {p[w] : w \in L[k - 1]}
  BY <1>0, LayersStep
<1> HIDE DEF L
<1>2. 0 \in Good
  BY <1>0, <1>1
<1>3. ASSUME NEW k \in Good PROVE k + 1 \in Good
  <2> SUFFICES ASSUME k + 1 <= round(v) PROVE Fine(k + 1)
    OBVIOUS
  <2>1. Fine(k) /\ L[k + 1] = d \cap UNION {p[w] : w \in L[k]}
    <3>1. k + 1 \in 1 .. round(v) /\ (k + 1) - 1 = k
      BY <1>0
    <3> QED BY <1>0, <1>1, <3>1
  <2>2. ASSUME NEW u \in L[k + 1] PROVE u \in d /\ round(u) = round(v) - (k + 1)
    <3>1. PICK w \in L[k] : u \in p[w]
      BY <2>1
    <3>2. w \in DOMAIN p /\ round(w) = round(v) - k
      BY <2>1
    <3>3. round(u) = round(w) - 1
      BY <3>1, <3>2, ParentFacts
    <3> QED BY <2>1, <3>2, <3>3, <1>0
  <2> QED BY <2>2
<1>4. \A k \in Nat : k \in Good
  <2> Good \in SUBSET Nat
    OBVIOUS
  <2> HIDE DEF Good
  <2> QED BY <1>2, <1>3, NatSetInduction
<1> QED BY <1>0, <1>4 DEF L

\* The same of one certificate of a layer.
LEMMA LayerFacts ==
    ASSUME NEW p, WellFormed(p), NEW d, d \subseteq DOMAIN p, NEW v \in DOMAIN p,
           NEW k \in 0 .. round(v), NEW x \in Layers(p, d, v)[k]
    PROVE  (x \in d \/ x = v) /\ round(x) = round(v) - k
<1>1. /\ Layers(p, d, v)[k] \subseteq d \cup {v}
      /\ \A w \in Layers(p, d, v)[k] : round(w) = round(v) - k
  BY LayersTypes
<1> QED BY <1>1

\* The walk that `linked' takes through what a task still has finds what a
\* walk through the whole DAG finds, as long as it stays above a round down
\* to which the task has every parent.
LEMMA LayersSame ==
    ASSUME NEW p, WellFormed(p), NEW d, d \subseteq DOMAIN p, NEW v \in d, NEW b \in Int,
           \A w \in d : \A u \in p[w] : round(u) > b => u \in d
    PROVE  \A k \in 0 .. round(v) :
               k + b < round(v) => Layers(p, d, v)[k] = Layers(p, DOMAIN p, v)[k]
<1> DEFINE L == Layers(p, d, v)
           G == Layers(p, DOMAIN p, v)
           Good == {k \in Nat : k <= round(v) /\ k + b < round(v) => L[k] = G[k]}
<1>0. v \in Certificate /\ round(v) \in Nat
  BY ParentFacts, CertificateFacts
<1>1. /\ L[0] = {v} /\ G[0] = {v}
      /\ \A k \in 1 .. round(v) : /\ L[k] = d \cap UNION {p[w] : w \in L[k - 1]}
                                  /\ G[k] = DOMAIN p \cap UNION {p[w] : w \in G[k - 1]}
  BY <1>0, LayersStep
<1>2. \A k \in 0 .. round(v) : L[k] \subseteq d /\ \A w \in L[k] : round(w) = round(v) - k
  <2> SUFFICES ASSUME NEW k \in 0 .. round(v), NEW w \in Layers(p, d, v)[k]
               PROVE  w \in d /\ round(w) = round(v) - k
    OBVIOUS
  <2>1. v \in DOMAIN p
    OBVIOUS
  <2> QED BY <2>1, LayerFacts
<1> HIDE DEF L, G
<1>3. 0 \in Good
  BY <1>1
<1>4. ASSUME NEW k \in Good PROVE k + 1 \in Good
  <2> SUFFICES ASSUME k + 1 <= round(v), (k + 1) + b < round(v) PROVE L[k + 1] = G[k + 1]
    OBVIOUS
  <2>1. k \in 0 .. round(v) /\ k + 1 \in 1 .. round(v) /\ (k + 1) - 1 = k /\ k + b < round(v)
    BY <1>0
  <2>2. /\ L[k] = G[k]
        /\ L[k + 1] = d \cap UNION {p[w] : w \in L[k]}
        /\ G[k + 1] = DOMAIN p \cap UNION {p[w] : w \in G[k]}
    BY <1>1, <2>1
  <2>3. ASSUME NEW w \in L[k], NEW u \in p[w] PROVE u \in d
    <3>1. w \in d /\ round(w) = round(v) - k
      BY <1>2, <2>1
    <3>2. round(u) = round(w) - 1
      BY <3>1, ParentFacts
    <3> QED BY <3>1, <3>2, <2>1, <1>0
  <2> QED BY <2>2, <2>3
<1>5. \A k \in Nat : k \in Good
  <2> Good \in SUBSET Nat
    OBVIOUS
  <2> HIDE DEF Good
  <2> QED BY <1>3, <1>4, NatSetInduction
<1> QED BY <1>0, <1>5 DEF L, G

\* A walk from a certificate goes on as the walks from its parents do.
LEMMA LayersOfParent ==
    ASSUME NEW p, WellFormed(p), NEW d, d \subseteq DOMAIN p, NEW w \in DOMAIN p,
           NEW u \in p[w] \cap d
    PROVE  \A k \in 0 .. round(u) : Layers(p, d, u)[k] \subseteq Layers(p, d, w)[k + 1]
<1> DEFINE L == Layers(p, d, u)
           G == Layers(p, d, w)
           Good == {k \in Nat : k <= round(u) => L[k] \subseteq G[k + 1]}
<1>0. /\ u \in Certificate /\ round(u) \in Nat /\ round(w) \in Nat /\ w \in Certificate
      /\ round(u) = round(w) - 1
  BY ParentFacts, CertificateFacts
<1>1. /\ L[0] = {u} /\ G[0] = {w}
      /\ \A k \in 1 .. round(u) : L[k] = d \cap UNION {p[x] : x \in L[k - 1]}
      /\ \A k \in 1 .. round(w) : G[k] = d \cap UNION {p[x] : x \in G[k - 1]}
  BY <1>0, LayersStep
<1> HIDE DEF L, G
<1>2. 0 \in Good
  <2>1. 1 \in 1 .. round(w) /\ 1 - 1 = 0 /\ 0 + 1 = 1
    BY <1>0
  <2>2. G[1] = d \cap UNION {p[x] : x \in G[0]}
    BY <1>1, <2>1
  <2>3. u \in G[1]
    BY <1>1, <2>2
  <2> QED BY <1>1, <2>1, <2>3
<1>3. ASSUME NEW k \in Good PROVE k + 1 \in Good
  <2> SUFFICES ASSUME k + 1 <= round(u) PROVE L[k + 1] \subseteq G[(k + 1) + 1]
    OBVIOUS
  <2>1. k <= round(u) /\ k + 1 \in 1 .. round(u) /\ (k + 1) - 1 = k
        /\ (k + 1) + 1 \in 1 .. round(w) /\ ((k + 1) + 1) - 1 = k + 1
    BY <1>0
  <2>2. /\ L[k] \subseteq G[k + 1]
        /\ L[k + 1] = d \cap UNION {p[x] : x \in L[k]}
        /\ G[(k + 1) + 1] = d \cap UNION {p[x] : x \in G[k + 1]}
    BY <1>1, <2>1
  <2> QED BY <2>2
<1>4. \A k \in Nat : k \in Good
  <2> Good \in SUBSET Nat
    OBVIOUS
  <2> HIDE DEF Good
  <2> QED BY <1>2, <1>3, NatSetInduction
<1> QED BY <1>0, <1>4 DEF L, G
-----------------------------------------------------------------------------
(***************************************************************************)
(* Leaders with f+1 support.                                               *)
(***************************************************************************)

\* v is an ancestor of w, in the whole DAG.
Reaches(p, w, v) == v \in Layers(p, DOMAIN p, w)[round(w) - round(v)]

\* l has the support that Consensus::run asks for, in the whole DAG.
Supported(p, l) ==
    StakeOf({origin(w) : w \in {x \in AtRound(DOMAIN p, round(l) + 1) : l \in p[x]}})
        >= validity_threshold

\* A leader with f+1 support is an ancestor of every certificate two rounds
\* later or more: the parents of each carry a quorum, which meets the f+1.
LEMMA SupportedIsReached ==
    ASSUME NEW p, WellFormed(p), NEW l \in DOMAIN p, Supported(p, l),
           NEW w \in DOMAIN p, round(w) >= round(l) + 2
    PROVE  Reaches(p, w, l)
<1> DEFINE Good == {k \in Nat : \A x \in DOMAIN p : round(x) = round(l) + 2 + k => Reaches(p, x, l)}
<1>0. \A x \in DOMAIN p : x \in Certificate /\ round(x) \in Nat /\ origin(x) \in Authority
  BY ParentFacts, CertificateFacts
<1>1. ASSUME NEW x \in DOMAIN p, NEW u \in p[x], NEW k \in Nat, k <= round(u),
             l \in Layers(p, DOMAIN p, u)[k]
      PROVE  l \in Layers(p, DOMAIN p, x)[k + 1]
  <2>1. u \in p[x] \cap DOMAIN p
    BY ParentFacts
  <2>2. k \in 0 .. round(u)
    BY <1>0, <1>1, <2>1
  <2> QED BY <2>1, <2>2, <1>1, LayersOfParent
<1>2. \A x \in DOMAIN p : Layers(p, DOMAIN p, x)[0] = {x}
  BY <1>0, LayersStep
<1>3. 0 \in Good
  <2> SUFFICES ASSUME NEW x \in DOMAIN p, round(x) = round(l) + 2 PROVE Reaches(p, x, l)
    BY <1>0
  <2> DEFINE Voters == {y \in AtRound(DOMAIN p, round(l) + 1) : l \in p[y]}
             F == {origin(y) : y \in Voters}
             Q == {origin(y) : y \in p[x]}
  <2>1. F \in SUBSET Authority /\ StakeOf(F) >= validity_threshold
    BY <1>0 DEF Supported, AtRound
  <2>2. Q \in SUBSET Authority /\ StakeOf(Q) >= quorum_threshold
    <3>1. ValidParents(p, x) /\ p[x] \subseteq DOMAIN p
      BY <1>0, ParentFacts
    <3> QED BY <3>1, <1>0 DEF ValidParents
  <2>3. PICK a : a \in Q \cap F
    <3> HIDE DEF Q, F
    <3> QED BY <2>1, <2>2, QuorumMeetsValidity
  <2>4. PICK y \in Voters : origin(y) = a
    BY <2>3
  <2>5. PICK z \in p[x] : origin(z) = a
    BY <2>3
  <2>6. y \in DOMAIN p /\ round(y) = round(l) + 1 /\ l \in p[y]
    BY <2>4 DEF AtRound
  <2>7. z \in DOMAIN p /\ round(z) = round(l) + 1
    BY <1>0, ParentFacts
  <2>8. y = z
    BY <2>4, <2>5, <2>6, <2>7, <1>0 DEF Certificate, origin, round
  <2>9. l \in Layers(p, DOMAIN p, y)[1]
    BY <2>6, <1>0, <1>1, <1>2
  <2>10. l \in Layers(p, DOMAIN p, x)[2]
    BY <2>5, <2>6, <2>8, <2>9, <1>0, <1>1
  <2> QED BY <2>10, <1>0 DEF Reaches
<1>4. ASSUME NEW k \in Good PROVE k + 1 \in Good
  <2> SUFFICES ASSUME NEW x \in DOMAIN p, round(x) = round(l) + 2 + (k + 1) PROVE Reaches(p, x, l)
    BY <1>0
  <2>1. PICK u : u \in p[x]
    <3>1. round(x) > 0
      BY <1>0
    <3>2. ValidParents(p, x)
      BY <3>1, ParentFacts
    <3> QED BY <3>2 DEF ValidParents
  <2>2. u \in DOMAIN p /\ round(u) = round(l) + 2 + k
    BY <2>1, <1>0, ParentFacts
  <2>3. l \in Layers(p, DOMAIN p, u)[k + 2]
    <3>1. round(u) - round(l) = k + 2
      BY <2>2, <1>0
    <3> QED BY <3>1, <2>2 DEF Reaches
  <2>4. k + 2 <= round(u) /\ k + 2 \in Nat
    BY <2>2, <1>0
  <2>5. l \in Layers(p, DOMAIN p, x)[(k + 2) + 1]
    BY <2>1, <2>3, <2>4, <1>1
  <2>6. round(x) - round(l) = (k + 2) + 1
    BY <1>0
  <2> QED BY <2>5, <2>6 DEF Reaches
<1>5. \A k \in Nat : k \in Good
  <2> Good \in SUBSET Nat
    OBVIOUS
  <2> HIDE DEF Good
  <2> QED BY <1>3, <1>4, NatSetInduction
<1>6. (round(w) - round(l)) - 2 \in Nat /\ round(w) = round(l) + 2 + ((round(w) - round(l)) - 2)
  BY <1>0
<1> QED BY <1>5, <1>6
-----------------------------------------------------------------------------
(***************************************************************************)
(* Chains: the leaders that may be committed together.                     *)
(***************************************************************************)

\* s is the next element of a set of rounds after r.
NextIn(S, s, r) == s \in S /\ s > r /\ \A x \in S : x > r => s <= x

LeaderRound == {r \in Round : r >= 2 /\ r % 2 = 0}

\* A set of rounds whose leaders form a chain of the DAG: below the latest,
\* a leader is in it if and only if the next one in it descends from it.
Chain(p, S) ==
    /\ S \subseteq LeaderRound
    /\ \A r \in S : leader(r) \in DOMAIN p
    /\ \A r \in LeaderRound :
          (\E s \in S : s > r) =>
              (r \in S <=> \E s \in S : NextIn(S, s, r) /\ Reaches(p, leader(s), leader(r)))

Latest(S, t) == t \in S /\ \A s \in S : s <= t

LEMMA LeaderRoundFacts ==
    /\ \A r \in LeaderRound : r \in Round /\ r \in Nat /\ r <= MaxRound
    /\ \A r, s \in LeaderRound : s > r => s >= r + 2
  BY MaxRoundAssumption DEF LeaderRound, Round

LEMMA NextExists ==
    ASSUME NEW S, S \subseteq LeaderRound, NEW r \in Nat, \E s \in S : s > r
    PROVE  \E s : NextIn(S, s, r)
<1> DEFINE later == {s \in S : s > r}
<1>1. later \subseteq Nat /\ later # {}
  BY LeaderRoundFacts
<1>2. Min(later) \in later /\ \A y \in later : Min(later) <= y
  <2> HIDE DEF later
  <2> QED BY <1>1, MinOfNaturals
<1>3. NextIn(S, Min(later), r)
  <2>1. PICK m : m = Min(later)
    OBVIOUS
  <2>2. m \in S /\ m > r /\ \A x \in S : x > r => m <= x
    BY <2>1, <1>2
  <2> QED BY <2>1, <2>2 DEF NextIn
<1> QED BY <1>3

LEMMA LatestExists ==
    ASSUME NEW S, S \subseteq LeaderRound, S # {}
    PROVE  \E t : Latest(S, t)
<1>1. S \subseteq 0 .. MaxRound
  BY LeaderRoundFacts DEF Round
<1>2. Max(S) \in S /\ \A y \in S : y <= Max(S)
  BY <1>1, MaxOfBounded, MaxRoundAssumption
<1> QED BY <1>2 DEF Latest

\* Two chains that end in supported leaders agree: the one that ends earlier
\* is the beginning of the other.
LEMMA ChainsAgree ==
    ASSUME NEW p, WellFormed(p), NEW S, NEW T, Chain(p, S), Chain(p, T),
           NEW s, NEW t, Latest(S, s), Latest(T, t), s <= t, Supported(p, leader(s))
    PROVE  S = {r \in T : r <= s}
<1> DEFINE Same(r) == r \in S <=> r \in T
           Good == {m \in Nat : \A r \in LeaderRound : r <= s /\ r + m >= s => Same(r)}
<1>0. /\ s \in LeaderRound /\ s \in Nat /\ s \in S /\ t \in LeaderRound /\ t \in Nat
      /\ S \subseteq LeaderRound /\ T \subseteq LeaderRound
  BY LeaderRoundFacts DEF Chain, Latest
<1>1. s \in T
  <2>1. CASE s = t
    BY <2>1 DEF Latest
  <2>2. CASE s < t
    <3>1. \E x \in T : x > s
      BY <2>2 DEF Latest
    <3>2. PICK x : NextIn(T, x, s)
      BY <3>1, <1>0, NextExists
    <3>3. x \in LeaderRound /\ x >= s + 2 /\ leader(x) \in DOMAIN p /\ leader(s) \in DOMAIN p
      BY <3>2, <1>0, LeaderRoundFacts DEF NextIn, Chain
    <3>4. round(leader(x)) = x /\ round(leader(s)) = s
      BY <3>3, <1>0, LeaderRoundFacts, LeaderFacts
    <3>5. Reaches(p, leader(x), leader(s))
      BY <3>3, <3>4, SupportedIsReached
    <3>6. x \in T
      BY <3>2 DEF NextIn
    <3> QED BY <3>1, <3>2, <3>5, <3>6, <1>0 DEF Chain
  <2> QED BY <1>0, <2>1, <2>2
<1>2. 0 \in Good
  BY <1>0, <1>1, LeaderRoundFacts
<1>3. ASSUME NEW m \in Good PROVE m + 1 \in Good
  <2> SUFFICES ASSUME NEW r \in LeaderRound, r <= s, r + (m + 1) >= s PROVE Same(r)
    OBVIOUS
  <2>1. CASE r = s
    BY <2>1, <1>0, <1>1
  <2>2. CASE r # s
    <3>0. r \in Nat /\ r < s
      BY <2>2, <1>0, LeaderRoundFacts
    <3>1. \A q \in LeaderRound : q > r /\ q <= s => Same(q)
      BY <1>0, <1>3, <3>0, LeaderRoundFacts
    <3>2. ASSUME NEW x PROVE NextIn(S, x, r) <=> NextIn(T, x, r)
      <4>1. ASSUME NextIn(S, x, r) PROVE NextIn(T, x, r)
        <5>1. x \in LeaderRound /\ x <= s /\ x > r /\ x \in Nat
          BY <4>1, <1>0, <3>0, LeaderRoundFacts DEF NextIn
        <5>2. x \in T
          BY <4>1, <5>1, <3>1 DEF NextIn
        <5>3. \A y \in T : y > r => x <= y
          BY <4>1, <5>1, <3>1, <1>0, LeaderRoundFacts DEF NextIn
        <5> QED BY <5>1, <5>2, <5>3 DEF NextIn
      <4>2. ASSUME NextIn(T, x, r) PROVE NextIn(S, x, r)
        <5>1. x \in LeaderRound /\ x <= s /\ x > r /\ x \in Nat
          BY <4>2, <1>0, <1>1, <3>0, LeaderRoundFacts DEF NextIn
        <5>2. x \in S
          BY <4>2, <5>1, <3>1 DEF NextIn
        <5>3. \A y \in S : y > r => x <= y
          BY <4>2, <5>1, <3>1, <1>0, LeaderRoundFacts DEF NextIn
        <5> QED BY <5>1, <5>2, <5>3 DEF NextIn
      <4> QED BY <4>1, <4>2
    <3>3. (\E x \in S : x > r) /\ (\E x \in T : x > r)
      BY <3>0, <1>0, <1>1
    <3>4. /\ r \in S <=> \E x \in S : NextIn(S, x, r) /\ Reaches(p, leader(x), leader(r))
          /\ r \in T <=> \E x \in T : NextIn(T, x, r) /\ Reaches(p, leader(x), leader(r))
      BY <3>3 DEF Chain
    <3>5. /\ \A x : NextIn(S, x, r) => x \in S
          /\ \A x : NextIn(T, x, r) => x \in T
      BY DEF NextIn
    <3> QED BY <3>2, <3>4, <3>5
  <2> QED BY <2>1, <2>2
<1>4. \A m \in Nat : m \in Good
  <2> Good \in SUBSET Nat
    OBVIOUS
  <2> HIDE DEF Good
  <2> QED BY <1>2, <1>3, NatSetInduction
<1>5. \A r \in LeaderRound : r <= s => Same(r)
  <2>1. s \in Good
    BY <1>0, <1>4
  <2> QED BY <2>1, <1>0, LeaderRoundFacts
<1> QED BY <1>0, <1>5 DEF Latest
-----------------------------------------------------------------------------
(***************************************************************************)
(* Listings: the nodes of a finite set in a strict total order, and the    *)
(* linearization of SliceOrder, list each node once.                       *)
(***************************************************************************)

\* The pairs of R order S: none of them both ways, every two of them one way.
StrictOrder(S, R) ==
    /\ \A a \in S : <<a, a>> \notin R
    /\ \A a, b, c \in S : <<a, b>> \in R /\ <<b, c>> \in R => <<a, c>> \in R
    /\ \A a, b \in S : a = b \/ <<a, b>> \in R \/ <<b, a>> \in R

\* How many come before a.
Rank(S, R, a) == Cardinality({b \in S : <<b, a>> \in R})

\* The ranks of the elements of a finite set are all different: each of 0 to
\* its size less one is the rank of one element.
LEMMA RanksExact ==
    ASSUME NEW S, IsFiniteSet(S), NEW R, StrictOrder(S, R)
    PROVE  /\ Cardinality(S) \in Nat
           /\ \A a \in S : Rank(S, R, a) \in 0 .. (Cardinality(S) - 1)
           /\ \A a, b \in S : <<a, b>> \in R <=> Rank(S, R, a) < Rank(S, R, b)
           /\ \A k \in 0 .. (Cardinality(S) - 1) : \E a \in S : Rank(S, R, a) = k
<1> DEFINE n == Cardinality(S)
           Before(a) == {b \in S : <<b, a>> \in R}
           ranks == [a \in S |-> Cardinality(Before(a))]
<1>1. n \in Nat
  BY FS_CardinalityType
<1>2. ASSUME NEW a \in S PROVE IsFiniteSet(Before(a)) /\ Cardinality(Before(a)) \in 0 .. (n - 1)
  <2>1. Before(a) \in SUBSET (S \ {a})
    BY DEF StrictOrder
  <2>2. IsFiniteSet(S \ {a}) /\ Cardinality(S \ {a}) = n - 1
    BY FS_RemoveElement
  <2> HIDE DEF Before, n
  <2>3. IsFiniteSet(Before(a)) /\ Cardinality(Before(a)) <= n - 1
    BY <2>1, <2>2, FS_Subset
  <2>4. Cardinality(Before(a)) \in Nat
    BY <2>3, FS_CardinalityType
  <2> QED BY <1>1, <2>3, <2>4
<1>3. ASSUME NEW a \in S, NEW b \in S, <<a, b>> \in R
      PROVE  Cardinality(Before(a)) < Cardinality(Before(b))
  <2>1. Before(a) \in SUBSET Before(b) /\ a \in Before(b) /\ a \notin Before(a)
    BY <1>3 DEF StrictOrder
  <2>2. /\ IsFiniteSet(Before(b))
        /\ Cardinality(Before(a)) \in Nat /\ Cardinality(Before(b)) \in Nat
    BY <1>2, <1>1
  <2> HIDE DEF Before
  <2>3. Cardinality(Before(a)) <= Cardinality(Before(b)) /\ Cardinality(Before(a)) # Cardinality(Before(b))
    BY <2>1, <2>2, FS_Subset
  <2> QED BY <2>2, <2>3
<1>4. \A a, b \in S : <<a, b>> \in R <=> Cardinality(Before(a)) < Cardinality(Before(b))
  <2> SUFFICES ASSUME NEW a \in S, NEW b \in S,
                      Cardinality(Before(a)) < Cardinality(Before(b))
               PROVE  <<a, b>> \in R
    BY <1>3
  <2>1. a # b /\ ~ (Cardinality(Before(b)) < Cardinality(Before(a)))
    <3> HIDE DEF Before
    <3> QED BY <1>1, <1>2
  <2> QED BY <2>1, <1>3 DEF StrictOrder
<1>5. ranks \in Injection(S, 0 .. (n - 1))
  <2>1. ranks \in [S -> 0 .. (n - 1)]
    BY <1>2
  <2>2. ASSUME NEW a \in S, NEW b \in S, ranks[a] = ranks[b] PROVE a = b
    <3>1. Cardinality(Before(a)) = Cardinality(Before(b))
      BY <2>2
    <3>2. Cardinality(Before(a)) \in Int
      <4> HIDE DEF Before
      <4> QED BY <1>1, <1>2
    <3>3. <<a, b>> \notin R /\ <<b, a>> \notin R
      <4> HIDE DEF Before
      <4> QED BY <1>3, <3>1, <3>2
    <3> QED BY <3>3 DEF StrictOrder
  <2> HIDE DEF ranks, n
  <2> QED BY <2>1, <2>2 DEF Injection, IsInjective
<1>6. IsFiniteSet(0 .. (n - 1)) /\ Cardinality(0 .. (n - 1)) = n
  <2> HIDE DEF n
  <2> QED BY <1>1, FS_Interval
<1>7. ranks \in Surjection(S, 0 .. (n - 1))
  <2> HIDE DEF ranks
  <2> QED BY <1>5, <1>6, FS_Injection
<1>8. \A k \in 0 .. (n - 1) : \E a \in S : ranks[a] = k
  <2> HIDE DEF ranks
  <2> QED BY <1>7 DEF Surjection
<1> QED BY <1>1, <1>2, <1>4, <1>8 DEF Rank

\* A sequence that lists a set, each element once.
Lists(s, S) ==
    /\ s \in Seq(S)
    /\ Len(s) = Cardinality(S)
    /\ \A a \in S : \E i \in 1 .. Len(s) : s[i] = a

\* SortedBy lists the nodes.
LEMMA SortedByLists ==
    ASSUME NEW S, IsFiniteSet(S), NEW R, StrictOrder(S, R)
    PROVE  Lists(SortedBy(S, R), S)
<1> DEFINE n == Cardinality(S)
           s == SortedBy(S, R)
<1>1. /\ n \in Nat
      /\ \A a \in S : Rank(S, R, a) \in 0 .. (n - 1)
      /\ \A a, b \in S : <<a, b>> \in R <=> Rank(S, R, a) < Rank(S, R, b)
      /\ \A k \in 0 .. (n - 1) : \E a \in S : Rank(S, R, a) = k
  BY RanksExact
<1>2. s = [i \in 1 .. n |-> CHOOSE a \in S : Rank(S, R, a) = i - 1]
  BY DEF SortedBy, Rank
<1> HIDE DEF s, n
<1>3. ASSUME NEW i \in 1 .. n PROVE s[i] \in S /\ Rank(S, R, s[i]) = i - 1
  <2>1. i - 1 \in 0 .. (n - 1)
    BY <1>1
  <2>2. \E a \in S : Rank(S, R, a) = i - 1
    BY <1>1, <2>1
  <2> QED BY <1>2, <2>2
<1>4. s \in [1 .. n -> S]
  BY <1>2, <1>3
<1>5. s \in Seq(S) /\ Len(s) = n
  BY <1>1, <1>4
<1>6. ASSUME NEW a \in S PROVE \E i \in 1 .. n : s[i] = a
  <2>1. Rank(S, R, a) + 1 \in 1 .. n /\ Rank(S, R, a) \in Nat
    BY <1>1
  <2> DEFINE i == Rank(S, R, a) + 1
  <2>2. Rank(S, R, s[i]) = Rank(S, R, a) /\ s[i] \in S
    BY <1>3, <2>1
  <2>3. s[i] = a
    <3>1. <<s[i], a>> \notin R /\ <<a, s[i]>> \notin R
      BY <1>1, <2>1, <2>2
    <3> QED BY <3>1, <2>2 DEF StrictOrder
  <2> QED BY <2>1, <2>3
<1> QED BY <1>5, <1>6 DEF s, n, Lists

\* There is a first one.
LEMMA FirstExists ==
    ASSUME NEW S, IsFiniteSet(S), S # {}, NEW R, StrictOrder(S, R)
    PROVE  \E a \in S : \A b \in S \ {a} : <<a, b>> \in R
<1>1. /\ Cardinality(S) \in Nat /\ Cardinality(S) # 0
      /\ \A a \in S : Rank(S, R, a) \in 0 .. (Cardinality(S) - 1)
      /\ \A a, b \in S : <<a, b>> \in R <=> Rank(S, R, a) < Rank(S, R, b)
      /\ \A k \in 0 .. (Cardinality(S) - 1) : \E a \in S : Rank(S, R, a) = k
  BY RanksExact, FS_EmptySet
<1>2. PICK a \in S : Rank(S, R, a) = 0
  BY <1>1
<1>3. ASSUME NEW b \in S \ {a} PROVE <<a, b>> \in R
  <2>1. ~ (<<b, a>> \in R)
    BY <1>1, <1>2
  <2> QED BY <2>1 DEF StrictOrder
<1> QED BY <1>3

-----------------------------------------------------------------------------
(***************************************************************************)
(* The paths of SliceOrder are the reflexive and transitive closure of the *)
(* edges: its recursion computes the least closed set.                     *)
(***************************************************************************)

\* A set of nodes that no edge leaves.
Closed(nodes, edges, T) == \A c \in T, b \in nodes : <<c, b>> \in edges => b \in T

\* The least such set that contains S.
Closure(nodes, edges, S) ==
    {x \in nodes : \A T \in SUBSET nodes : S \subseteq T /\ Closed(nodes, edges, T) => x \in T}

Beyond(nodes, edges, S) == {b \in nodes \ S : \E c \in S : <<c, b>> \in edges}

GrownStep(nodes, edges, g, S) ==
    IF Beyond(nodes, edges, S) = {} THEN S ELSE g[S \cup Beyond(nodes, edges, S)]

IsGrown(nodes, edges, g) == g = [S \in SUBSET nodes |-> GrownStep(nodes, edges, g, S)]

\* The function that Reachable is defined by.
Grown(nodes, edges) == CHOOSE g : IsGrown(nodes, edges, g)

LEMMA ReachableIsGrown ==
    ASSUME NEW nodes, NEW edges, NEW a
    PROVE  Reachable(nodes, edges, a) = Grown(nodes, edges)[{a}]
  BY DEF Reachable, Grown, IsGrown, GrownStep, Beyond

\* The closure of a set solves the recursion of Reachable.
LEMMA ClosureStep ==
    ASSUME NEW nodes, NEW edges, NEW S \in SUBSET nodes
    PROVE  /\ Closure(nodes, edges, S) \in SUBSET nodes
           /\ S \subseteq Closure(nodes, edges, S)
           /\ Closed(nodes, edges, Closure(nodes, edges, S))
           /\ Closure(nodes, edges, S) =
                 GrownStep(nodes, edges, [U \in SUBSET nodes |-> Closure(nodes, edges, U)], S)
<1> DEFINE next == Beyond(nodes, edges, S)
           g == [U \in SUBSET nodes |-> Closure(nodes, edges, U)]
<1>1. Closure(nodes, edges, S) \in SUBSET nodes /\ S \subseteq Closure(nodes, edges, S)
  BY DEF Closure
<1>2. Closed(nodes, edges, Closure(nodes, edges, S))
  <2> SUFFICES ASSUME NEW c \in Closure(nodes, edges, S), NEW b \in nodes, <<c, b>> \in edges,
                      NEW T \in SUBSET nodes, S \subseteq T, Closed(nodes, edges, T)
               PROVE  b \in T
    BY DEF Closed, Closure
  <2>1. c \in T
    BY DEF Closure
  <2> QED BY <2>1 DEF Closed
<1>3. CASE next = {}
  <2>1. Closed(nodes, edges, S)
    BY <1>3 DEF Beyond, Closed
  <2>2. Closure(nodes, edges, S) = S
    BY <2>1 DEF Closure
  <2> QED BY <1>1, <1>2, <1>3, <2>2 DEF GrownStep
<1>4. CASE next # {}
  <2>1. S \cup next \in SUBSET nodes
    BY DEF Beyond
  <2>2. \A T \in SUBSET nodes : S \subseteq T /\ Closed(nodes, edges, T) => next \subseteq T
    BY DEF Beyond, Closed
  <2>3. Closure(nodes, edges, S) = Closure(nodes, edges, S \cup next)
    <3> HIDE DEF next
    <3> QED BY <2>2 DEF Closure
  <2>4. g[S \cup next] = Closure(nodes, edges, S \cup next)
    <3> HIDE DEF next
    <3> QED BY <2>1
  <2>5. GrownStep(nodes, edges, g, S) = g[S \cup next]
    BY <1>4 DEF GrownStep
  <2> QED BY <1>1, <1>2, <2>3, <2>4, <2>5
<1> QED BY <1>3, <1>4

\* The recursion of Reachable computes the closure.
LEMMA GrownIsClosure ==
    ASSUME NEW nodes, IsFiniteSet(nodes), NEW edges
    PROVE  \A S \in SUBSET nodes : Grown(nodes, edges)[S] = Closure(nodes, edges, S)
<1> DEFINE g == Grown(nodes, edges)
           h == [U \in SUBSET nodes |-> Closure(nodes, edges, U)]
           Good == {m \in Nat : \A S \in SUBSET nodes :
                       Cardinality(nodes \ S) <= m => g[S] = Closure(nodes, edges, S)}
<1>1. IsGrown(nodes, edges, h)
  BY ClosureStep DEF IsGrown
<1>2. IsGrown(nodes, edges, g)
  <2> HIDE DEF h
  <2> QED BY <1>1 DEF Grown
<1>3. \A S \in SUBSET nodes : g[S] = GrownStep(nodes, edges, g, S)
  <2> HIDE DEF g
  <2>1. g = [S \in SUBSET nodes |-> GrownStep(nodes, edges, g, S)]
    BY <1>2 DEF IsGrown
  <2> QED BY <2>1, Zenon
<1>4. ASSUME NEW S \in SUBSET nodes PROVE IsFiniteSet(nodes \ S) /\ Cardinality(nodes \ S) \in Nat
  <2>1. nodes \ S \in SUBSET nodes
    OBVIOUS
  <2>2. IsFiniteSet(nodes \ S)
    BY <2>1, FS_Subset
  <2> QED BY <2>2, FS_CardinalityType
<1> HIDE DEF g
<1>5. ASSUME NEW S \in SUBSET nodes, Beyond(nodes, edges, S) = {}
      PROVE  g[S] = Closure(nodes, edges, S)
  <2>1. g[S] = S
    BY <1>3, <1>5 DEF GrownStep
  <2>2. Closure(nodes, edges, S) = GrownStep(nodes, edges, h, S)
    BY ClosureStep
  <2> HIDE DEF h
  <2> QED BY <1>5, <2>1, <2>2 DEF GrownStep
<1>6. ASSUME NEW S \in SUBSET nodes, Beyond(nodes, edges, S) # {}
      PROVE  /\ S \cup Beyond(nodes, edges, S) \in SUBSET nodes
             /\ Cardinality(nodes \ (S \cup Beyond(nodes, edges, S))) < Cardinality(nodes \ S)
             /\ g[S] = g[S \cup Beyond(nodes, edges, S)]
             /\ Closure(nodes, edges, S) = Closure(nodes, edges, S \cup Beyond(nodes, edges, S))
  <2> DEFINE U == S \cup Beyond(nodes, edges, S)
  <2>1. U \in SUBSET nodes /\ nodes \ U \in SUBSET (nodes \ S) /\ nodes \ U # nodes \ S
    BY <1>6 DEF Beyond
  <2>2. g[S] = g[U]
    BY <1>3, <1>6 DEF GrownStep
  <2>3. Closure(nodes, edges, S) = h[U]
    BY <1>6, ClosureStep DEF GrownStep
  <2> HIDE DEF U
  <2>4. Cardinality(nodes \ U) <= Cardinality(nodes \ S) /\ Cardinality(nodes \ U) # Cardinality(nodes \ S)
    BY <1>4, <2>1, FS_Subset
  <2>5. Cardinality(nodes \ U) < Cardinality(nodes \ S)
    BY <1>4, <2>1, <2>4
  <2>6. h[U] = Closure(nodes, edges, U)
    BY <2>1
  <2> QED BY <2>1, <2>2, <2>3, <2>5, <2>6 DEF U
<1>7. 0 \in Good
  <2> SUFFICES ASSUME NEW S \in SUBSET nodes, Cardinality(nodes \ S) <= 0
               PROVE  g[S] = Closure(nodes, edges, S)
    OBVIOUS
  <2>1. CASE Beyond(nodes, edges, S) = {}
    BY <1>5, <2>1
  <2>2. CASE Beyond(nodes, edges, S) # {}
    <3> DEFINE U == S \cup Beyond(nodes, edges, S)
    <3>1. U \in SUBSET nodes /\ Cardinality(nodes \ U) < Cardinality(nodes \ S)
      BY <1>6, <2>2
    <3> HIDE DEF U
    <3>2. Cardinality(nodes \ U) \in Nat /\ Cardinality(nodes \ S) \in Nat
      BY <1>4, <3>1
    <3> QED BY <3>1, <3>2
  <2> QED BY <2>1, <2>2
<1>8. ASSUME NEW m \in Good PROVE m + 1 \in Good
  <2> SUFFICES ASSUME NEW S \in SUBSET nodes, Cardinality(nodes \ S) <= m + 1
               PROVE  g[S] = Closure(nodes, edges, S)
    OBVIOUS
  <2>1. CASE Beyond(nodes, edges, S) = {}
    BY <1>5, <2>1
  <2>2. CASE Beyond(nodes, edges, S) # {}
    <3> DEFINE U == S \cup Beyond(nodes, edges, S)
    <3>1. /\ U \in SUBSET nodes /\ Cardinality(nodes \ U) < Cardinality(nodes \ S)
          /\ g[S] = g[U] /\ Closure(nodes, edges, S) = Closure(nodes, edges, U)
      BY <1>6, <2>2
    <3> HIDE DEF U
    <3>2. Cardinality(nodes \ U) \in Nat /\ Cardinality(nodes \ S) \in Nat
      BY <1>4, <3>1
    <3>3. Cardinality(nodes \ U) <= m
      BY <3>1, <3>2
    <3> QED BY <3>1, <3>3
  <2> QED BY <2>1, <2>2
<1>9. \A m \in Nat : m \in Good
  <2> Good \in SUBSET Nat
    OBVIOUS
  <2> HIDE DEF Good
  <2> QED BY <1>7, <1>8, NatSetInduction
<1>10. ASSUME NEW S \in SUBSET nodes PROVE g[S] = Closure(nodes, edges, S)
  <2>1. Cardinality(nodes \ S) \in Nat /\ Cardinality(nodes \ S) <= Cardinality(nodes \ S)
    BY <1>4
  <2> QED BY <2>1, <1>9
<1> QED BY <1>10 DEF g

\* Paths is reflexive and transitive.
LEMMA PathsFacts ==
    ASSUME NEW nodes, IsFiniteSet(nodes), NEW edges
    PROVE  /\ \A a \in nodes : <<a, a>> \in Paths(nodes, edges)
           /\ \A a, b, c \in nodes : /\ <<a, b>> \in Paths(nodes, edges)
                                     /\ <<b, c>> \in Paths(nodes, edges)
                                     => <<a, c>> \in Paths(nodes, edges)
<1>1. \A a, b \in nodes : <<a, b>> \in Paths(nodes, edges) <=> b \in Closure(nodes, edges, {a})
  <2>1. \A a \in nodes : Reachable(nodes, edges, a) = Closure(nodes, edges, {a})
    <3> TAKE a \in nodes
    <3>1. {a} \in SUBSET nodes
      OBVIOUS
    <3> QED BY <3>1, ReachableIsGrown, GrownIsClosure
  <2> QED BY <2>1 DEF Paths
<1>2. ASSUME NEW a \in nodes PROVE <<a, a>> \in Paths(nodes, edges)
  <2>1. {a} \in SUBSET nodes
    OBVIOUS
  <2>2. {a} \subseteq Closure(nodes, edges, {a})
    BY <2>1, ClosureStep
  <2> QED BY <2>2, <1>1
<1>3. ASSUME NEW a \in nodes, NEW b \in nodes, NEW c \in nodes,
             b \in Closure(nodes, edges, {a}), c \in Closure(nodes, edges, {b})
      PROVE  c \in Closure(nodes, edges, {a})
  <2>1. {a} \in SUBSET nodes
    OBVIOUS
  <2>2. /\ Closure(nodes, edges, {a}) \in SUBSET nodes
        /\ Closed(nodes, edges, Closure(nodes, edges, {a}))
    BY <2>1, ClosureStep
  <2>3. {b} \subseteq Closure(nodes, edges, {a})
    BY <1>3
  <2> DEFINE T == Closure(nodes, edges, {a})
  <2> HIDE DEF T
  <2>4. c \in T
    BY <2>2, <2>3, <1>3 DEF Closure, T
  <2> QED BY <2>4 DEF T
<1> QED BY <1>1, <1>2, <1>3

-----------------------------------------------------------------------------
(***************************************************************************)
(* The components come out one by one until nothing is left.               *)
(***************************************************************************)

\* Paths join nodes.
LEMMA PathsType ==
    ASSUME NEW nodes, IsFiniteSet(nodes), NEW edges
    PROVE  Paths(nodes, edges) \in SUBSET (nodes \X nodes)
<1>1. ASSUME NEW a \in nodes PROVE Reachable(nodes, edges, a) \subseteq nodes
  <2>1. {a} \in SUBSET nodes
    OBVIOUS
  <2>2. Reachable(nodes, edges, a) = Grown(nodes, edges)[{a}]
    BY ReachableIsGrown
  <2>3. Grown(nodes, edges)[{a}] = Closure(nodes, edges, {a})
    BY <2>1, GrownIsClosure
  <2>4. Closure(nodes, edges, {a}) \in SUBSET nodes
    BY <2>1, ClosureStep
  <2> QED BY <2>2, <2>3, <2>4
<1> QED BY <1>1 DEF Paths

\* Paths are what the edges make: an edge is a path, and a path does not
\* leave a set that no edge leaves, nor enter one that no edge enters.
LEMMA PathsOfEdges ==
    ASSUME NEW nodes, IsFiniteSet(nodes), NEW edges
    PROVE  /\ \A a, b \in nodes : <<a, b>> \in edges => <<a, b>> \in Paths(nodes, edges)
           /\ \A T \in SUBSET nodes, a, b \in nodes :
                 <<a, b>> \in Paths(nodes, edges) =>
                    /\ (Closed(nodes, edges, T) /\ a \in T) => b \in T
                    /\ (Closed(nodes, edges, nodes \ T) /\ b \in T) => a \in T
<1>1. \A a, b \in nodes : <<a, b>> \in Paths(nodes, edges) <=> b \in Closure(nodes, edges, {a})
  <2>1. \A a \in nodes : Reachable(nodes, edges, a) = Closure(nodes, edges, {a})
    <3> TAKE a \in nodes
    <3>1. {a} \in SUBSET nodes
      OBVIOUS
    <3> QED BY <3>1, ReachableIsGrown, GrownIsClosure
  <2> QED BY <2>1 DEF Paths
<1>2. ASSUME NEW T \in SUBSET nodes, NEW a \in nodes, NEW b \in nodes,
             <<a, b>> \in Paths(nodes, edges), Closed(nodes, edges, T), a \in T
      PROVE  b \in T
  <2>1. b \in Closure(nodes, edges, {a})
    BY <1>1, <1>2
  <2> QED BY <2>1, <1>2 DEF Closure
<1>3. ASSUME NEW a \in nodes, NEW b \in nodes, <<a, b>> \in edges
      PROVE  <<a, b>> \in Paths(nodes, edges)
  <2>1. {a} \in SUBSET nodes
    OBVIOUS
  <2>2. /\ {a} \subseteq Closure(nodes, edges, {a})
        /\ Closed(nodes, edges, Closure(nodes, edges, {a}))
    BY <2>1, ClosureStep
  <2>3. b \in Closure(nodes, edges, {a})
    BY <2>2, <1>3 DEF Closed
  <2> QED BY <2>3, <1>1
<1>4. ASSUME NEW T \in SUBSET nodes, NEW a \in nodes, NEW b \in nodes,
             <<a, b>> \in Paths(nodes, edges), Closed(nodes, edges, nodes \ T), b \in T
      PROVE  a \in T
  <2> DEFINE U == nodes \ T
  <2>1. U \in SUBSET nodes /\ b \notin U /\ Closed(nodes, edges, U)
    BY <1>4
  <2> HIDE DEF U
  <2>2. a \notin U
    BY <2>1, <1>2, <1>4
  <2> QED BY <2>2 DEF U
<1> QED BY <1>2, <1>3, <1>4

LEMMA StrictOrderWithin ==
    ASSUME NEW S, NEW R, StrictOrder(S, R), NEW T \in SUBSET S
    PROVE  StrictOrder(T, R)
  BY DEF StrictOrder

\* The nodes of what is left to which no node of another component leads.
ReadyIn(rest, paths) ==
    {a \in rest : \A b \in rest : <<b, a>> \in paths => <<a, b>> \in paths}

\* There is one: a node with the fewest nodes that lead to it.
LEMMA ReadyExists ==
    ASSUME NEW nodes, IsFiniteSet(nodes), NEW edges, NEW rest \in SUBSET nodes, rest # {}
    PROVE  ReadyIn(rest, Paths(nodes, edges)) # {}
<1> DEFINE paths == Paths(nodes, edges)
           Above(a) == {b \in rest : <<b, a>> \in paths}
           Sizes == {Cardinality(Above(a)) : a \in rest}
           ready == {a \in rest : \A b \in rest : <<b, a>> \in paths => <<a, b>> \in paths}
<1>1. /\ \A a \in rest : <<a, a>> \in paths
      /\ \A a, b, c \in rest : <<a, b>> \in paths /\ <<b, c>> \in paths => <<a, c>> \in paths
  BY PathsFacts
<1> HIDE DEF paths
<1>2. IsFiniteSet(rest)
  BY FS_Subset
<1>3. ASSUME NEW a \in rest PROVE IsFiniteSet(Above(a)) /\ Cardinality(Above(a)) \in Nat
  <2>1. Above(a) \in SUBSET rest
    OBVIOUS
  <2> HIDE DEF Above
  <2> QED BY <2>1, <1>2, FS_Subset, FS_CardinalityType
<1>4. PICK a \in rest : \A b \in rest : Cardinality(Above(a)) <= Cardinality(Above(b))
  <2>1. Sizes \subseteq Nat /\ Sizes # {}
    <3> HIDE DEF Above
    <3> QED BY <1>3
  <2>2. PICK m \in Sizes : \A y \in Sizes : m <= y
    <3> HIDE DEF Sizes
    <3> QED BY <2>1, MinOfNaturals
  <2> HIDE DEF Above
  <2> QED BY <2>2
<1>5. a \in ready
  <2> SUFFICES ASSUME NEW b \in rest, <<b, a>> \in paths PROVE <<a, b>> \in paths
    OBVIOUS
  <2>1. Above(b) \in SUBSET Above(a) /\ a \in Above(a)
    BY <1>1
  <2>2. Cardinality(Above(b)) <= Cardinality(Above(a)) /\ Cardinality(Above(a)) <= Cardinality(Above(b))
    <3> HIDE DEF Above
    <3> QED BY <1>3, <1>4, <2>1, FS_Subset
  <2>3. Above(b) = Above(a)
    <3> HIDE DEF Above
    <3> QED BY <1>3, <2>1, <2>2, FS_Subset
  <2> QED BY <2>1, <2>3
<1> QED BY <1>5 DEF ReadyIn, paths

\* The component that comes first is the one of the first ready node; it is
\* part of what is left, and not empty.
LEMMA FirstComponentFacts ==
    ASSUME NEW nodes, IsFiniteSet(nodes), NEW edges, NEW before, StrictOrder(nodes, before),
           NEW rest \in SUBSET nodes, rest # {}
    PROVE  /\ FirstComponent(rest, Paths(nodes, edges), before) \in SUBSET rest
           /\ FirstComponent(rest, Paths(nodes, edges), before) # {}
           /\ \E least \in ReadyIn(rest, Paths(nodes, edges)) :
                 /\ \A b \in ReadyIn(rest, Paths(nodes, edges)) \ {least} : <<least, b>> \in before
                 /\ FirstComponent(rest, Paths(nodes, edges), before) =
                       {b \in rest : /\ <<least, b>> \in Paths(nodes, edges)
                                     /\ <<b, least>> \in Paths(nodes, edges)}
<1> DEFINE paths == Paths(nodes, edges)
           ready == ReadyIn(rest, paths)
           least == CHOOSE a \in ready : \A b \in ready \ {a} : <<a, b>> \in before
<1>1. \A a \in rest : <<a, a>> \in paths
  BY PathsFacts
<1>2. least \in ready /\ \A b \in ready \ {least} : <<least, b>> \in before
  <2>1. ready \in SUBSET rest /\ ready # {}
    BY ReadyExists DEF ReadyIn
  <2>2. StrictOrder(ready, before) /\ IsFiniteSet(ready)
    <3> HIDE DEF ready
    <3>1. ready \in SUBSET nodes
      BY <2>1
    <3> QED BY <3>1, StrictOrderWithin, FS_Subset
  <2> HIDE DEF ready
  <2>3. \E c \in ready : \A b \in ready \ {c} : <<c, b>> \in before
    BY <2>1, <2>2, FirstExists
  <2> QED BY <2>3
<1> HIDE DEF paths
<1>3. FirstComponent(rest, paths, before) =
         {b \in rest : <<least, b>> \in paths /\ <<b, least>> \in paths}
  BY DEF FirstComponent, ReadyIn
<1> HIDE DEF least
<1>4. least \in FirstComponent(rest, paths, before)
  BY <1>1, <1>2, <1>3 DEF ReadyIn
<1> QED BY <1>2, <1>3, <1>4 DEF paths

OrderStep(paths, before, order, rest) ==
    IF rest = {} THEN <<>>
    ELSE SortedBy(FirstComponent(rest, paths, before), before)
             \o order[rest \ FirstComponent(rest, paths, before)]

IsOrder(nodes, paths, before, order) ==
    order = [rest \in SUBSET nodes |-> OrderStep(paths, before, order, rest)]

\* The recursion of Linearize has a solution.
LEMMA OrderExists ==
    ASSUME NEW nodes, IsFiniteSet(nodes), NEW edges, NEW before, StrictOrder(nodes, before)
    PROVE  \E order : IsOrder(nodes, Paths(nodes, edges), before, order)
<1> DEFINE paths == Paths(nodes, edges)
           Component(rest) == FirstComponent(rest, paths, before)
           Step(order, rest) == OrderStep(paths, before, order, rest)
           Small(m) == {rest \in SUBSET nodes : Cardinality(rest) <= m}
           Partial(order, m) == order = [rest \in Small(m) |-> Step(order, rest)]
           Good == {m \in Nat : \E order : Partial(order, m)}
<1>1. ASSUME NEW rest \in SUBSET nodes
      PROVE  IsFiniteSet(rest) /\ Cardinality(rest) \in Nat
  BY FS_Subset, FS_CardinalityType
<1>2. ASSUME NEW rest \in SUBSET nodes, rest # {}
      PROVE  /\ rest \ Component(rest) \in SUBSET nodes
             /\ Cardinality(rest \ Component(rest)) < Cardinality(rest)
  <2>1. Component(rest) \in SUBSET rest /\ Component(rest) # {}
    BY <1>2, FirstComponentFacts
  <2> HIDE DEF Component
  <2>2. rest \ Component(rest) \in SUBSET rest /\ rest \ Component(rest) # rest
    BY <2>1
  <2> DEFINE less == rest \ Component(rest)
  <2>3. less \in SUBSET rest /\ less # rest /\ less \in SUBSET nodes
    BY <2>2
  <2> HIDE DEF less
  <2>4. Cardinality(less) <= Cardinality(rest) /\ Cardinality(less) # Cardinality(rest)
    BY <1>1, <2>3, FS_Subset
  <2>5. Cardinality(less) < Cardinality(rest)
    BY <1>1, <2>3, <2>4
  <2> QED BY <2>3, <2>5 DEF less
<1>3. ASSUME NEW rest \in SUBSET nodes, NEW g, NEW h,
             rest # {} => g[rest \ Component(rest)] = h[rest \ Component(rest)]
      PROVE  Step(g, rest) = Step(h, rest)
  BY <1>3 DEF OrderStep
<1> HIDE DEF Step, Component
<1>4. 0 \in Good
  <2> DEFINE order == [rest \in Small(0) |-> Step(<<>>, rest)]
  <2>1. ASSUME NEW rest \in Small(0) PROVE Step(<<>>, rest) = Step(order, rest)
    <3>1. rest = {}
      BY <1>1, FS_EmptySet
    <3> HIDE DEF order
    <3> QED BY <3>1, <1>3
  <2>2. Partial(order, 0)
    <3>1. order = [rest \in Small(0) |-> Step(order, rest)]
      BY <2>1
    <3> QED BY <3>1
  <2> QED BY <2>2
<1>5. ASSUME NEW m \in Good PROVE m + 1 \in Good
  <2>1. PICK g : Partial(g, m)
    BY <1>5
  <2> DEFINE h == [rest \in Small(m + 1) |-> Step(g, rest)]
  <2>2. ASSUME NEW rest \in Small(m) PROVE h[rest] = g[rest]
    <3>1. rest \in Small(m + 1)
      BY <1>1
    <3>2. g[rest] = Step(g, rest)
      <4> HIDE DEF Small, h
      <4> QED BY <2>1, Zenon
    <3> HIDE DEF Small
    <3> QED BY <3>1, <3>2
  <2>3. ASSUME NEW rest \in Small(m + 1) PROVE Step(g, rest) = Step(h, rest)
    <3>1. ASSUME rest # {} PROVE rest \ Component(rest) \in Small(m)
      <4>1. /\ rest \ Component(rest) \in SUBSET nodes
            /\ Cardinality(rest \ Component(rest)) < Cardinality(rest)
        BY <1>2, <3>1
      <4>2. Cardinality(rest \ Component(rest)) \in Nat /\ Cardinality(rest) \in Nat
        BY <1>1, <4>1
      <4> QED BY <4>1, <4>2
    <3>2. rest # {} => g[rest \ Component(rest)] = h[rest \ Component(rest)]
      <4> HIDE DEF h, Small
      <4> QED BY <3>1, <2>2
    <3>3. rest \in SUBSET nodes
      OBVIOUS
    <3> HIDE DEF h, Small
    <3> QED BY <3>2, <3>3, <1>3
  <2>4. Partial(h, m + 1)
    <3> HIDE DEF Small
    <3>1. h = [rest \in Small(m + 1) |-> Step(h, rest)]
      BY <2>3
    <3> QED BY <3>1
  <2>5. m + 1 \in Nat
    OBVIOUS
  <2> HIDE DEF h, Partial
  <2> QED BY <2>4, <2>5
<1>6. Cardinality(nodes) \in Good
  <2>1. \A m \in Nat : m \in Good
    <3> Good \in SUBSET Nat
      OBVIOUS
    <3> HIDE DEF Good
    <3> QED BY <1>4, <1>5, NatSetInduction
  <2> HIDE DEF Good
  <2> QED BY <2>1, FS_CardinalityType
<1>7. Small(Cardinality(nodes)) = SUBSET nodes
  <2>1. \A rest \in SUBSET nodes : Cardinality(rest) <= Cardinality(nodes)
    BY FS_Subset
  <2> QED BY <2>1
<1>8. PICK order : Partial(order, Cardinality(nodes))
  BY <1>6
<1>9. order = [rest \in SUBSET nodes |-> Step(order, rest)]
  <2> HIDE DEF Small
  <2> QED BY <1>7, <1>8, Zenon
<1>10. IsOrder(nodes, paths, before, order)
  BY <1>9 DEF IsOrder, Step
<1> QED BY <1>10

\* The function that Linearize is defined by.
LinearOrder(nodes, edges, before) ==
    CHOOSE order : IsOrder(nodes, Paths(nodes, edges), before, order)

\* It takes the first component of what is left, then those of the rest.
LEMMA LinearizeStep ==
    ASSUME NEW nodes, IsFiniteSet(nodes), NEW edges, NEW before, StrictOrder(nodes, before)
    PROVE  /\ Linearize(nodes, edges, before) = LinearOrder(nodes, edges, before)[nodes]
           /\ \A rest \in SUBSET nodes :
                 LinearOrder(nodes, edges, before)[rest] =
                    OrderStep(Paths(nodes, edges), before, LinearOrder(nodes, edges, before), rest)
<1> DEFINE paths == Paths(nodes, edges)
           order == CHOOSE o : IsOrder(nodes, paths, before, o)
<1>1. Linearize(nodes, edges, before) = order[nodes]
  <2> DEFINE linear == [p \in SUBSET (nodes \X nodes) |->
                           (CHOOSE o : IsOrder(nodes, p, before, o))[nodes]]
  <2>1. Linearize(nodes, edges, before) = linear[paths]
    BY DEF Linearize, IsOrder, OrderStep
  <2>2. paths \in SUBSET (nodes \X nodes)
    BY PathsType
  <2> QED BY <2>1, <2>2
<1>2. IsOrder(nodes, paths, before, order)
  <2> HIDE DEF paths
  <2>1. \E o : IsOrder(nodes, paths, before, o)
    BY OrderExists DEF paths
  <2> QED BY <2>1
<1> HIDE DEF order
<1>3. \A rest \in SUBSET nodes : order[rest] = OrderStep(paths, before, order, rest)
  <2> HIDE DEF paths
  <2>1. order = [rest \in SUBSET nodes |-> OrderStep(paths, before, order, rest)]
    BY <1>2 DEF IsOrder
  <2> QED BY <2>1, Zenon
<1> QED BY <1>1, <1>3 DEF order, LinearOrder, paths

\* The linearization lists the nodes, and that of what is left those left.
LEMMA LinearizeLists ==
    ASSUME NEW nodes, IsFiniteSet(nodes), NEW edges, NEW before, StrictOrder(nodes, before)
    PROVE  /\ Lists(Linearize(nodes, edges, before), nodes)
           /\ \A rest \in SUBSET nodes : Lists(LinearOrder(nodes, edges, before)[rest], rest)
<1> DEFINE paths == Paths(nodes, edges)
           order == LinearOrder(nodes, edges, before)
           Good == {m \in Nat : \A rest \in SUBSET nodes :
                       Cardinality(rest) <= m => Lists(order[rest], rest)}
<1>1. /\ Linearize(nodes, edges, before) = order[nodes]
      /\ \A rest \in SUBSET nodes : order[rest] = OrderStep(paths, before, order, rest)
  BY LinearizeStep
<1> HIDE DEF order
<1>4. ASSUME NEW rest \in SUBSET nodes
      PROVE  IsFiniteSet(rest) /\ Cardinality(rest) \in Nat
  BY FS_Subset, FS_CardinalityType
<1>5. Lists(<<>>, {})
  BY FS_EmptySet DEF Lists
<1>6. 0 \in Good
  <2>1. ASSUME NEW rest \in SUBSET nodes, Cardinality(rest) <= 0 PROVE Lists(order[rest], rest)
    <3>1. rest = {}
      BY <1>4, <2>1, FS_EmptySet
    <3>2. order[rest] = <<>>
      BY <3>1, <1>1 DEF OrderStep
    <3> QED BY <3>1, <3>2, <1>5
  <2> QED BY <2>1
<1>7. ASSUME NEW m \in Good PROVE m + 1 \in Good
  <2>1. ASSUME NEW rest \in SUBSET nodes, Cardinality(rest) <= m + 1, rest # {}
        PROVE  Lists(order[rest], rest)
    <3> DEFINE c == FirstComponent(rest, paths, before)
               s == SortedBy(c, before)
               t == order[rest \ c]
    <3>1. c \in SUBSET rest /\ c # {}
      BY <2>1, FirstComponentFacts
    <3>2. order[rest] = s \o t
      BY <2>1, <1>1 DEF OrderStep
    <3> HIDE DEF c
    <3>3. IsFiniteSet(c) /\ StrictOrder(c, before) /\ c \in SUBSET nodes
      BY <3>1, <1>4, StrictOrderWithin
    <3>4. Lists(s, c)
      BY <3>3, SortedByLists
    <3>5. Cardinality(rest) = Cardinality(c) + Cardinality(rest \ c)
      <4>1. rest = c \cup (rest \ c) /\ c \cap (rest \ c) = {}
        BY <3>1
      <4>2. IsFiniteSet(rest \ c)
        BY <1>4, FS_Subset
      <4>3. Cardinality(c \cup (rest \ c)) =
               Cardinality(c) + Cardinality(rest \ c) - Cardinality(c \cap (rest \ c))
        BY <4>2, <3>3, FS_Union
      <4>4. Cardinality(c \cap (rest \ c)) = 0
        BY <4>1, FS_EmptySet
      <4>5. rest \ c \in SUBSET nodes
        OBVIOUS
      <4>6. Cardinality(c) \in Nat /\ Cardinality(rest \ c) \in Nat
        BY <4>5, <3>3, <1>4
      <4> QED BY <4>1, <4>3, <4>4, <4>6
    <3>6. Cardinality(c) # 0 /\ Cardinality(c) \in Nat
      BY <3>1, <3>3, <1>4, FS_EmptySet
    <3>7. Lists(t, rest \ c)
      <4>1. rest \ c \in SUBSET nodes
        OBVIOUS
      <4>2. Cardinality(rest \ c) \in Nat
        BY <4>1, <1>4
      <4>3. Cardinality(rest \ c) <= m
        BY <2>1, <3>5, <3>6, <4>2
      <4> QED BY <4>1, <4>3
    <3> HIDE DEF s, t
    <3>8. /\ s \in Seq(rest) /\ t \in Seq(rest)
          /\ Len(s) \in Nat /\ Len(t) \in Nat
      BY <3>1, <3>4, <3>7 DEF Lists
    <3>9. /\ s \o t \in Seq(rest)
          /\ Len(s \o t) = Len(s) + Len(t)
          /\ \A i \in 1 .. Len(s) : (s \o t)[i] = s[i]
          /\ \A i \in 1 .. Len(t) : (s \o t)[Len(s) + i] = t[i]
      BY <3>8
    <3>10. Len(s \o t) = Cardinality(rest)
      BY <3>4, <3>5, <3>7, <3>9 DEF Lists
    <3>11. ASSUME NEW a \in rest PROVE \E i \in 1 .. Len(s \o t) : (s \o t)[i] = a
      <4>1. CASE a \in c
        <5>1. PICK i \in 1 .. Len(s) : s[i] = a
          BY <3>4, <4>1 DEF Lists
        <5>2. i \in 1 .. Len(s \o t)
          BY <3>8, <3>9
        <5> QED BY <5>1, <5>2, <3>9
      <4>2. CASE a \notin c
        <5>1. PICK i \in 1 .. Len(t) : t[i] = a
          BY <3>7, <4>2 DEF Lists
        <5>2. Len(s) + i \in 1 .. Len(s \o t)
          BY <3>8, <3>9
        <5> QED BY <5>1, <5>2, <3>9
      <4> QED BY <4>1, <4>2
    <3> QED BY <3>2, <3>9, <3>10, <3>11 DEF Lists
  <2>2. ASSUME NEW rest \in SUBSET nodes, rest = {} PROVE Lists(order[rest], rest)
    <3>1. order[rest] = <<>>
      BY <2>2, <1>1 DEF OrderStep
    <3> QED BY <2>2, <3>1, <1>5
  <2>3. m + 1 \in Nat
    OBVIOUS
  <2> QED BY <2>1, <2>2, <2>3
<1>8. \A m \in Nat : m \in Good
  <2> Good \in SUBSET Nat
    OBVIOUS
  <2> HIDE DEF Good
  <2> QED BY <1>6, <1>7, NatSetInduction
<1>9. \A rest \in SUBSET nodes : Lists(order[rest], rest)
  <2> SUFFICES ASSUME NEW rest \in SUBSET nodes
               PROVE  Lists(order[rest], rest)
    OBVIOUS
  <2>1. Cardinality(rest) \in Nat /\ Cardinality(rest) <= Cardinality(rest)
    BY <1>4
  <2> QED BY <2>1, <1>8
<1>10. Lists(order[nodes], nodes)
  BY <1>9
<1> QED BY <1>1, <1>9, <1>10 DEF order

FirstOnes(s, k) == {s[i] : i \in 1 .. k}

\* The first k elements of a listing are k different ones.
LEMMA ListsPrefix ==
    ASSUME NEW S, IsFiniteSet(S), NEW s, Lists(s, S), NEW k \in 0 .. Len(s)
    PROVE  /\ FirstOnes(s, k) \in SUBSET S
           /\ Cardinality(FirstOnes(s, k)) = k
           /\ k = Len(s) => FirstOnes(s, k) = S
<1> DEFINE n == Len(s)
           T == {s[i] : i \in 1 .. k}
           first == [i \in 1 .. k |-> s[i]]
<1>1. /\ n \in Nat /\ n = Cardinality(S) /\ k \in Nat /\ k <= n
      /\ s \in [1 .. n -> S]
      /\ \A a \in S : \E i \in 1 .. n : s[i] = a
  BY FS_CardinalityType DEF Lists
<1> HIDE DEF n
<1>2. s \in Surjection(1 .. n, S)
  BY <1>1 DEF Surjection
<1>3. s \in Injection(1 .. n, S)
  <2>1. IsFiniteSet(1 .. n) /\ Cardinality(1 .. n) = n
    BY <1>1, FS_Interval
  <2> QED BY <1>1, <1>2, <2>1, FS_SurjSameCardinalityImpliesInj
<1>4. \A i, j \in 1 .. n : s[i] = s[j] => i = j
  BY <1>3 DEF Injection, IsInjective
<1>5. T \in SUBSET S
  BY <1>1
<1>6. first \in Bijection(1 .. k, T)
  <2>1. first \in [1 .. k -> T]
    OBVIOUS
  <2>2. \A i, j \in 1 .. k : first[i] = first[j] => i = j
    BY <1>1, <1>4
  <2>3. \A a \in T : \E i \in 1 .. k : first[i] = a
    OBVIOUS
  <2> HIDE DEF first, T
  <2> QED BY <2>1, <2>2, <2>3 DEF Bijection, Injection, IsInjective, Surjection
<1>7. Cardinality(T) = k
  <2>1. IsFiniteSet(1 .. k) /\ Cardinality(1 .. k) = k
    BY <1>1, FS_Interval
  <2>2. ExistsBijection(1 .. k, T)
    <3> HIDE DEF first, T
    <3> QED BY <1>6 DEF ExistsBijection
  <2> HIDE DEF T
  <2> QED BY <2>1, <2>2, FS_Bijection
<1>8. k = n => T = S
  BY <1>1
<1> QED BY <1>5, <1>7, <1>8 DEF n, FirstOnes
=============================================================================
