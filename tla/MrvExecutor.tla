---------------------------- MODULE MrvExecutor ----------------------------
(***************************************************************************)
(* The MRV executor of mrv_executor/src/lib.rs: it receives the slices     *)
(* that the consensus commits, counts for every active certificate (AUF)   *)
(* the authors of each round whose certificates have it in their history,  *)
(* fixes the horizon of an AUF once 2f+1 authors of a round have seen it   *)
(* or once the window cap has passed, and releases the slices in index     *)
(* order, each linearized by the pairwise verdicts.                        *)
(*                                                                         *)
(* seen_by_round[r] of an AUF is a set of authors; since an author has one *)
(* certificate per round it is kept as the set of the seeing certificates. *)
(*                                                                         *)
(* on_committed_batch handles one slice to the end before the next one is  *)
(* received; its loops are steps of their own, driven by `phase'.          *)
(***************************************************************************)
EXTENDS Dag, SliceOrder

CONSTANTS WindowCap,   \* window_cap
          Dags         \* the DAGs the authorities may build

ASSUME DagsAssumption == \A p \in Dags : WellFormed(p)

ASSUME WindowCapAssumption == WindowCap \in Nat \ {0}

VARIABLES parents,    \* the DAG of this execution
          phase,      \* where the executor is in on_committed_batch
          index,      \* batch_index of the slice received last
          leaderRound,\* leader_round of the slice received last
          slice,      \* its certificates
          todo,       \* those the ingesting loop has not come to yet
          store,      \* all the certificates received
          auf,        \* auf_states: the active certificates
          batches,    \* the slices that are not released
          floor,      \* active_floor_round
          frontier,   \* frontier_round
          output      \* the certificates sent to tx_output

vars == <<parents, phase, index, leaderRound, slice, todo, store, auf, batches,
          floor, frontier, output>>

None == -1

f == (N - 1) \div 3

reach_threshold == 2 * f + 1

delta_threshold == f + 1

AufState == [seen : SUBSET Certificate, horizon : Round \cup {None}, mature : BOOLEAN]

\* The functions whose domain is a subset of S.
PartialFunctions(S, T) == UNION {[D -> T] : D \in SUBSET S}

TypeOK ==
    /\ WellFormed(parents)
    /\ phase \in {"idle", "ingest", "finalize", "stopped"}
    /\ index \in Nat
    /\ leaderRound \in Round
    /\ slice \in SUBSET Certificate
    /\ todo \in SUBSET slice
    /\ store \in SUBSET Certificate
    /\ DOMAIN auf \in SUBSET store
    /\ auf \in [DOMAIN auf -> AufState]
    /\ DOMAIN batches \in SUBSET (1 .. index)
    /\ batches \in [DOMAIN batches -> SUBSET store]
    /\ floor \in Round \cup {None}
    /\ frontier \in Round

-----------------------------------------------------------------------------

\* tie_break: by round, then by author.
TieBreak(a, b) ==
    \/ round(a) < round(b)
    \/ round(a) = round(b) /\ origin(a) < origin(b)

\* Mutant of VisitedFrom: the walk stops above the floor.
VisitedAboveFloor(v, known, low) ==
    {u \in Ancestry(parents, {w \in known : round(w) > low}, v) : round(u) > low}

\* The certificates that update_seen_for_new_certificate visits: a walk back
\* from v in the store that does not go below the lowest active round.
VisitedFrom(v, known, low) ==
    {u \in Ancestry(parents, {w \in known : round(w) >= low}, v) : round(u) >= low}

seen_count_at(a, r) == Cardinality(AtRound(auf[a].seen, r))

\* Mutant of SeenBy: the sightings of all rounds are counted together.
SeenByTotal(s, v) ==
    LET seen == s.seen \cup {v}
        matures == /\ v \notin s.seen
                   /\ s.horizon = None
                   /\ Cardinality(seen) >= reach_threshold
    IN [seen |-> seen,
        horizon |-> IF matures THEN round(v) ELSE s.horizon,
        mature |-> s.mature \/ matures]

\* What AUF state s becomes when it is seen by certificate v.
SeenBy(s, v) ==
    LET seen == s.seen \cup {v}
        matures == /\ v \notin s.seen
                   /\ s.horizon = None
                   /\ Cardinality(AtRound(seen, round(v))) >= reach_threshold
    IN [seen |-> seen,
        horizon |-> IF matures THEN round(v) ELSE s.horizon,
        mature |-> s.mature \/ matures]

\* Mutant of Better: the difference has the wrong sign.
BetterReversed(a, b) ==
    LET last == Max({auf[a].horizon, auf[b].horizon})
        window == (Max({round(a), round(b)}) + 1) .. last
        lead(x, y) == \E r \in window :
                         seen_count_at(y, r) - seen_count_at(x, r) >= delta_threshold
    IN /\ auf[a].mature
       /\ auf[b].mature
       /\ lead(a, b)
       /\ ~ lead(b, a)

\* compare_pair finds one-sided evidence for a before b: in some round of
\* the window a is seen by delta more authors, and b in none.
Better(a, b) ==
    LET last == Max({auf[a].horizon, auf[b].horizon})
        window == (Max({round(a), round(b)}) + 1) .. last
        lead(x, y) == \E r \in window :
                         seen_count_at(x, r) - seen_count_at(y, r) >= delta_threshold
    IN /\ auf[a].mature
       /\ auf[b].mature
       /\ lead(a, b)
       /\ ~ lead(b, a)

sort_batch(members) ==
    LET after(a) == {b \in members \ {a} : Better(a, b)}
        first(a) == {b \in members \ {a} : TieBreak(a, b)}
    IN Linearize(members,
                 UNION {{<<a, b>> : b \in after(a)} : a \in members},
                 UNION {{<<a, b>> : b \in first(a)} : a \in members})

\* Mutants of Capped: without the test of the frontier, and one round late.
CappedAtOnce(u, s) ==
    IF s.horizon = None
    THEN [s EXCEPT !.horizon = round(u) + WindowCap, !.mature = FALSE]
    ELSE s

CappedLate(u, s) ==
    IF s.horizon = None /\ frontier > round(u) + WindowCap
    THEN [s EXCEPT !.horizon = round(u) + WindowCap, !.mature = FALSE]
    ELSE s

\* apply_window_cap on one AUF.
Capped(u, s) ==
    IF s.horizon = None /\ frontier >= round(u) + WindowCap
    THEN [s EXCEPT !.horizon = round(u) + WindowCap, !.mature = FALSE]
    ELSE s

\* recompute_active_floor_round.
FloorOf(active) == IF active = {} THEN None ELSE Min({round(u) : u \in active})

\* The AUFs that are left when release_batch has removed a batch.
ActiveWithout(members) == DOMAIN auf \ members

\* Mutant of FloorWithout: the wrong comparison.
FloorBelowWithout(members) ==
    IF \E u \in members \cap DOMAIN auf : round(u) < floor
    THEN FloorOf(ActiveWithout(members))
    ELSE floor

\* The floor after that: recomputed when a removed AUF was on it.
FloorWithout(members) ==
    IF \E u \in members \cap DOMAIN auf : round(u) = floor
    THEN FloorOf(ActiveWithout(members))
    ELSE floor

\* The next batch is ready: batch_horizon is Some and not past the frontier.
Ready(members) ==
    \A u \in members : /\ u \in DOMAIN auf
                       /\ auf[u].horizon # None
                       /\ auf[u].horizon <= frontier

-----------------------------------------------------------------------------

Init ==
    /\ parents \in Dags
    /\ phase = "idle"
    /\ index = 0
    /\ leaderRound = 0
    /\ slice = {}
    /\ todo = {}
    /\ store = {}
    /\ auf = <<>>
    /\ batches = <<>>
    /\ floor = None
    /\ frontier = 0
    /\ output = <<>>

\* The executor receives a slice.
Take(certificates) ==
    /\ phase = "idle"
    /\ phase' = "ingest"
    /\ index' = index + 1
    /\ slice' = certificates
    /\ todo' = certificates
    /\ UNCHANGED <<parents, store, auf, batches, floor, frontier, output>>

\* Parents of received certificates that the consensus has dropped: a parent
\* is output no later than its child, or never.
CutOff == (UNION {parents[w] : w \in store}) \ store

\* What State::update removes from the dag of the consensus, if it was there
\* before the last slice: what is older than a committed certificate of its
\* author, or below the garbage collection depth, which is also the window.
Removable ==
    {u \in DOMAIN parents \ (store \cup Genesis) :
        \/ \E w \in store : origin(w) = origin(u) /\ round(w) > round(u)
        \/ round(u) + WindowCap < frontier}

\* The consensus commits the next slice: the history of a later leader that
\* it has not output yet and has not removed, where no leader in between is
\* linked to this one. What may have been removed was removed or not,
\* depending on when it arrived.
Receive(l) ==
    LET history == Ancestry(parents, DOMAIN parents \ Genesis, l)
        rest    == history \ store
    IN /\ round(l) % 2 = 0
       /\ round(l) > leaderRound
       /\ l = leader(round(l))
       /\ \A r \in (leaderRound + 1) .. (round(l) - 1) :
             r % 2 = 0 => leader(r) \notin history
       /\ leaderRound' = round(l)
       /\ \E gone \in SUBSET (rest \cap Removable) :
             /\ rest \cap CutOff \subseteq gone
             /\ Take(Ancestry(parents, rest \ gone, l))

\* One iteration of the loop over the certificates of the slice, which are
\* sorted by round.
AddCertificate(v) ==
    /\ phase = "ingest"
    /\ v \in todo
    /\ \A u \in todo : round(v) <= round(u)
    /\ LET isNew   == v \notin DOMAIN auf
           active  == DOMAIN auf \cup {v}
           low     == IF isNew /\ (floor = None \/ round(v) < floor) THEN round(v)
                      ELSE floor
           entry(u) == IF u \in DOMAIN auf THEN auf[u]
                       ELSE [seen |-> {}, horizon |-> None, mature |-> FALSE]
           visited == VisitedFrom(v, store \cup {v}, low)
       IN /\ frontier' = IF round(v) > frontier THEN round(v) ELSE frontier
          /\ store' = store \cup {v}
          /\ floor' = low
          /\ auf' = [u \in active |-> IF u \in visited THEN SeenBy(entry(u), v)
                                      ELSE entry(u)]
    /\ todo' = todo \ {v}
    /\ UNCHANGED <<parents, phase, index, leaderRound, slice, batches, output>>

\* The end of the ingestion: the slice becomes a batch, the cap is applied.
EndIngest ==
    /\ phase = "ingest"
    /\ todo = {}
    /\ phase' = "finalize"
    /\ batches' = IF slice = {} THEN batches
                  ELSE [i \in DOMAIN batches \cup {index} |->
                          IF i = index THEN slice ELSE batches[i]]
    /\ auf' = [u \in DOMAIN auf |-> Capped(u, auf[u])]
    /\ UNCHANGED <<parents, index, leaderRound, slice, todo, store, floor,
                   frontier, output>>

\* Mutant of NextBatch: of the batches that are ready, not the first one.
LastReadyBatch ==
    LET ready == {i \in DOMAIN batches : Ready(batches[i])}
    IN IF ready = {} THEN Min(DOMAIN batches) ELSE Max(ready)

\* The lowest index of a waiting batch.
NextBatch == Min(DOMAIN batches)

\* One iteration of try_finalize_batches: the first batch is ready, it is
\* sorted, sent and released.
FinalizeBatch ==
    /\ phase = "finalize"
    /\ DOMAIN batches # {}
    /\ Ready(batches[NextBatch])
    /\ LET members == batches[NextBatch]
       IN /\ output' = output \o sort_batch(members)
          /\ batches' = [i \in DOMAIN batches \ {NextBatch} |-> batches[i]]
          /\ auf' = [u \in ActiveWithout(members) |-> auf[u]]
          /\ floor' = FloorWithout(members)
    /\ UNCHANGED <<parents, phase, index, leaderRound, slice, todo, store, frontier>>

\* The first batch is not ready, or there is none: wait for the next slice.
FinalizeDone ==
    /\ phase = "finalize"
    /\ DOMAIN batches # {} => ~ Ready(batches[NextBatch])
    /\ phase' = "idle"
    /\ UNCHANGED <<parents, index, leaderRound, slice, todo, store, auf, batches,
                   floor, frontier, output>>

\* The receiver of tx_output is dropped while a batch is being sent: what
\* was sent stays sent, and the executor returns.
SendFails ==
    /\ phase = "finalize"
    /\ DOMAIN batches # {}
    /\ Ready(batches[NextBatch])
    /\ LET sorted == sort_batch(batches[NextBatch])
       IN \E k \in 0 .. (Len(sorted) - 1) : output' = output \o SubSeq(sorted, 1, k)
    /\ phase' = "stopped"
    /\ UNCHANGED <<parents, index, leaderRound, slice, todo, store, auf, batches,
                   floor, frontier>>

Next ==
    \/ \E l \in DOMAIN parents : Receive(l)
    \/ \E v \in todo : AddCertificate(v)
    \/ EndIngest
    \/ FinalizeBatch
    \/ FinalizeDone
    \/ SendFails

Spec == Init /\ [][Next]_vars

\* The executor under a weaker contract: the consensus may output any
\* slices at all, as long as it commits no certificate twice.
ReceiveAny ==
    /\ \E s \in SUBSET (Certificate \ store) : Take(s)
    /\ leaderRound' \in Round

NextAny ==
    \/ ReceiveAny
    \/ \E v \in todo : AddCertificate(v)
    \/ EndIngest
    \/ FinalizeBatch
    \/ FinalizeDone
    \/ SendFails

SpecAny == Init /\ [][NextAny]_vars

-----------------------------------------------------------------------------

\* The cached floor is the lowest round of an active AUF; release_batch only
\* recomputes it when it thinks it may have changed.
FloorExact == floor = FloorOf(DOMAIN auf)

\* The walk that is cut off at the floor loses no evidence: an active AUF
\* has been seen by exactly the committed certificates that have it in
\* their history.
SeenExact ==
    \A u \in DOMAIN auf :
        auf[u].seen = {w \in store : u \in Ancestry(parents, store, w)}

\* A horizon is justified: a mature AUF was seen by 2f+1 authors in the
\* round of its horizon, a capped one is exactly a window behind, and no
\* horizon is past the frontier.
HorizonJustified ==
    \A u \in DOMAIN auf :
        /\ auf[u].horizon <= frontier
        /\ auf[u].mature => /\ auf[u].horizon # None
                            /\ seen_count_at(u, auf[u].horizon) >= reach_threshold
        /\ (~ auf[u].mature /\ auf[u].horizon # None) =>
               auf[u].horizon = round(u) + WindowCap

\* Every waiting certificate is active and every active one waits (or is in
\* the slice being ingested), in one batch only: batch_horizon never meets a
\* member it does not know, which would block the executor for good.
ActiveExact ==
    /\ DOMAIN auf = (UNION {batches[i] : i \in DOMAIN batches})
                     \cup (IF phase = "ingest" THEN slice \ todo ELSE {})
    /\ \A i, j \in DOMAIN batches :
          i # j => batches[i] \cap batches[j] = {}
    /\ phase = "ingest" => \A i \in DOMAIN batches : batches[i] \cap slice = {}

\* The delay is bounded by the window: once the frontier is a window past
\* every certificate of the first batch, the executor does not wait for it.
WindowBound ==
    (phase = "idle" /\ DOMAIN batches # {}) =>
        \E u \in batches[NextBatch] : frontier < round(u) + WindowCap

\* The horizon is a safe moment to stop counting, although the slices may
\* lack a part of the DAG: every certificate of a later round, received or
\* not, has the mature AUF in its history, so that no later round can tell
\* two AUFs apart, and compare_pair misses no evidence past its window.
HorizonIsFinal ==
    \A u \in DOMAIN auf : auf[u].mature =>
        \A w \in DOMAIN parents :
            round(w) > auf[u].horizon => u \in Ancestry(parents, DOMAIN parents, w)

\* A verdict is "Byzantine-robust" where the evidence is whole: if nothing
\* from the rounds of a and b up is cut off, and the executor decides a
\* before b on the part of the DAG that it has, then the whole DAG has no
\* round after theirs in which b leads. Evidence may appear or fade while
\* slices come in, but it is never turned round. (What State::update removes
\* can turn it: see VerdictsFollowAncestry of module MCVerdicts.)
RobustVerdicts ==
    LET Seers(u, r) == {w \in AtRound(DOMAIN parents, r) :
                            u \in Ancestry(parents, DOMAIN parents, w)}
        leads(x, y, r) == Cardinality(Seers(x, r)) - Cardinality(Seers(y, r))
                              >= delta_threshold
        Whole(a, b) == \A u \in CutOff : round(u) < Min({round(a), round(b)})
    IN \A a, b \in DOMAIN auf :
          (a # b /\ Better(a, b) /\ Whole(a, b)) =>
              \A r \in (Max({round(a), round(b)}) + 1) .. MaxRound : ~ leads(b, a, r)

-----------------------------------------------------------------------------

\* The batches by ascending index.
Queue ==
    [k \in 1 .. Cardinality(DOMAIN batches) |->
        batches[CHOOSE i \in DOMAIN batches :
                   Cardinality({j \in DOMAIN batches : j <= i}) = k]]

Log ==
    INSTANCE SliceLog WITH
        Item <- Certificate,
        queue <- Queue,
        accepted <- IF phase = "ingest" THEN store \ slice ELSE store,
        sent <- output,
        closed <- phase = "stopped"

\* The executor outputs every slice it accepts exactly once, whole, and in
\* the order of the batch indices, whatever the order in which the slices
\* become ready.
KeepsPromise == Log!LogSpec
=============================================================================
