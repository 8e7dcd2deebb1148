# MRV in TLA+

This directory specifies MRV (a Narwhal/Tusk DAG with the MRV execution layer)
from the transactions of a worker to the order of the executor: the worker, the
network sender and the store below it, one primary with its synchronization,
the consensus task, the MRV executor, and the pipeline they form. The modules are translated from the
Rust code under `src/`; TLC checks them on small instances and TLAPS proves the
main safety properties for all instances.

Run TLC and tlapm in this directory, e.g. `tlc -config Tusk.cfg MCTusk.tla` and
`tlapm TuskProofs.tla`.

## 1. The system

One authority runs a primary, some workers, the consensus and the executor, all
as tokio tasks joined by bounded channels.

| part | state | operations | talks to |
|---|---|---|---|
| **Worker** (`worker/`) | current batch, acknowledgements, pending batch requests | seal and broadcast batches, count acknowledgements, sync batches | its primary (digests), other workers |
| **Proposer** (`primary/src/proposer.rs`) | round, last parents, digests | advance the round, make a header | Core |
| **Core** (`primary/src/core.rs`, `aggregators.rs`, `synchronizer.rs`) | last_voted, processing, current header and its votes, certificate aggregators, gc_round; the store | handle headers, votes, certificates; clean up after every message | other primaries, waiters, Proposer, consensus |
| **HeaderWaiter, CertificateWaiter** | suspended headers and certificates, sync requests | ask for what is missing, loop back, retry, cancel | Core, store, other primaries |
| **Helper, PayloadReceiver, GarbageCollector** | (store), consensus_round | answer requests, record batches, publish the committed round | store, workers, Core |
| **Consensus** (`consensus/`, Tusk) | the recent DAG, last committed round per authority | insert a certificate, elect and commit leaders, output slices | Core (certificates, feedback), executor |
| **MRV executor** (`mrv_executor/`) | all certificates, visibility counts of the active ones, waiting batches, floor, frontier | ingest a slice, cap, finalize and sort batches | application |
| **Store, network, crypto, config** | key-value map with read obligations; resend buffers; keys; committee | | everyone |

What is hard about it:

- certificates reach the consensus of each replica in a different order, and its
  clean-up removes state by author and by round while later leaders still read it;
- the executor keeps incremental counts and a cached floor, releases batches
  that become ready out of order, and freezes verdicts on counts that still grow
  and that lack what the consensus has dropped;
- the primary handles the same header several times (received, looped back,
  embedded in a certificate), cleans up by rounds while messages wait, and
  reads `consensus_round` while another task writes it;
- a resend buffer matches acknowledgements without names to messages by position,
  across connections that break and callers that cancel;
- requests, replies and digests are sent unreliably and, some of them, once; waiters
  on the store race with writes, cancellations and repeated requests;
- the tasks block on each other through bounded channels.

What makes each part correct:

- *consensus*: replicas commit the same leaders in the same order; nothing is
  committed twice; a slice holds the history of its leader; the `expect`s never
  fire; a supported leader is committed;
- *executor*: slices come out whole, once, in order; the evidence is what the
  slices say; where nothing is cut off no verdict is contradicted by the rest of the DAG; the wait is bounded by the window;
- *primary*: one vote per author and round; the consensus gets history first;
  own headers and certificates are valid; what is suspended is resumed;
- *synchronization*: what a suspended header misses stays requested, from somebody who
  can help, unless a faulty author interferes as section 4 says;
- *worker*: a digest is announced only when a quorum holds the batch and enough of it
  stores the batch; every transaction is announced; batches asked for are obtained;
- *network, store*: acknowledged means delivered, accepted means delivered in the end, in
  order; the store is atomic and wakes everyone who waits for a key.

`PROJECT.json` lists every component with its status, and every hazard with
its line in the code and the properties that cover it.

## 2. The modules

```
Committee          authorities, stake, thresholds
  Dag              certificates, parents, leaders, walks along parent links
                                                   <- DagProofs (of both)
    Tusk           the consensus task              <- TuskProofs
      TwoReplicas  two of them on one DAG          <- TwoReplicasProofs
                                                     implements Ledger
    MrvExecutor    the executor (uses SliceOrder)  <- MrvProofs
                                                     implements SliceLog
    Pipeline       Tusk + MrvExecutor joined by the channel of slices
                                                   <- PipelineProofs
  Primary          Core, aggregators, synchronizer, waiters, proposer, gc
    Synchronization  with the requests of the HeaderWaiter and the Helpers
                                                   <- PrimaryProofs (of both)
ReliableSender     one connection task per peer      implements Delivery
  Worker           the batches of one worker on top of it (and Committee)
                                                   <- WorkerProofs (of both)
Store              the store task                    implements AtomicStore
  BatchSync        the worker's Synchronizer and the Helpers on top of it
                                                   <- BatchSyncProofs (of both)
SliceOrder         the linearization, declaratively (lemmas in DagProofs)
  KosarajuOrder    the algorithm that computes it  <- MrvProofs
                   (checked in MCMrv)
SmallDags, MC*     instances for TLC
```

**Committee, Dag.** An authority is its rank in the sorted list of keys, which
is what leader election and tie-breaks use. A certificate is the pair of author
and round; a DAG maps certificates to their parents. `WellFormed` is what every
voter checks of the parents of a header (`core.rs:159-171`).

**Tusk** (`consensus/src/lib.rs`). `dag`, `lastCommitted` and
`lastCommittedRound` are the fields of `State`. `Deliver(v)` is one iteration of
the loop up to the list of leaders, `CommitLeader` the body of the loop over
that list (`order_dag`, `State::update` for each certificate, the send); the code
awaits between the leaders, so they are separate steps, and takes no new
certificate before the list is empty. `panicked` records an `expect`. A
constant, `Dags`, is the set of DAGs the committee may build: the environment
is one of them, chosen in `Init`, delivered in any causal order. The slice is
kept as a set; the order inside it (by round) is not read by the executor, which
sorts it again, except that it ingests by ascending round.

**TwoReplicas, Ledger.** Two instances of Tusk. `OneLedger` is the refinement
of the abstract ledger: logs of leaders that only grow and never disagree.

**MrvExecutor** (`mrv_executor/src/lib.rs`). `Receive`/`Take` receive a slice,
`AddCertificate` is one iteration of the ingesting loop (store, floor, visibility
walk), `EndIngest` the creation of the batch and the window cap, `FinalizeBatch`
one iteration of `try_finalize_batches`, `FinalizeDone` its exit, `SendFails` the
early return when the application is gone. Of the visibility counts
`seen_by_round` only the set of seeing certificates is kept, which has the same
cardinalities since an author has one certificate per round. The order of a batch is
`Linearize` of module SliceOrder, applied to the verdicts of `compare_pair`.
`Next` receives the slices that a consensus with its clean-up may commit. `Receive` takes the
history of the next leader without what was output before and without some set `gone` of what
`State::update` may have removed (`Removable`: older than a committed certificate of its author, or
below the gc depth); which of it arrived in time to be committed is left open. What was cut off from an earlier slice
(`CutOff`) is gone for good. That makes the slices a superset of those of Tusk: in the run `pipeline` each slice that
Tusk sends is one that `Receive` allows (`SlicesAsExpected`).
`NextAny` receives any slices at all that repeat nothing.

**KosarajuOrder** (`mrv_executor/src/lib.rs:277-368` and `448-532`). What `sort_batch`
does after the verdicts, step by step, to show that it computes `Linearize`. The
searches are recursive in the code: `stack` holds the nodes of the calls in progress, and a step is
a call (`CallForward`, `CallReverse`), a return (`ReturnForward`, `ReturnReverse`), the pop of a finished node
(`PopFinished`), or one iteration of the emission loop (`EmitComponent`). `Init` takes any
verdict for every pair. In-degrees are counted down as in the code; the order of the members in
a component is not kept, since the code sorts them before it uses them.

**Pipeline** (`node/src/main.rs:93-131`). The two tasks, the bounded channel
between them (its content is the part of Tusk's output that the executor has not
received) and the window cap that is the gc depth. `MrvExecutor` alone takes it as given that no certificate is
in two slices; here the slices are what `order_dag` puts out, and `WaitingAreActive` would show a
certificate that is released with one batch while another one waits for it.

**Primary** (`primary/src/`). One action per handler of `Core::run`, each ending
in the cleanup of `core.rs:400-409`: `ReceiveHeader`, `LoopHeader`,
`ReceiveCertificate`, `LoopCertificate`, `ProposeHeader`, `ReceiveVote`, `Refuse`;
actions of the other tasks: `WakeHeader`, `CancelHeaders`, `WakeCertificate`,
`AdvanceRound`, `MakeHeader`, `StorePayload`, `CollectGarbage`. The HeaderWaiter's
own cleanup (`StillPending`) ends each of its iterations. A header is its
author, round and a tag that tells apart two headers of a faulty author. The
other authorities are the environment: their headers (`Announced`) and
certificates (`Certified`, with parents `Links`) arrive in any order and any
number of times, votes come from anyone for whatever we proposed. The store is one atomic
map, as the single store task makes it. `cancel_handlers` (they stop
retransmissions) and the payload digests in our own headers are left out.

**Synchronization** (`header_waiter.rs`, `helper.rs`, `primary.rs`). Adds to Primary
`parent_requests` and `batch_requests` and the messages they stand for. In each step that
suspends a header, `SyncParents` and `SyncBatches` enter what is not requested yet and send
the requests; `ResumeHeader` removes them, `RetryParent` and `IdleTick` are the timer,
`AnswerRequest` the Helper of another authority, `LoseRequest` the SimpleSender. A
certificate reaches the primary only if its author's broadcast does (`Broadcast`) or in a reply,
and a batch only if our worker was given it (`Delivered`) or told to synchronize it.

**ReliableSender, Delivery** (`network/src/reliable_sender.rs`). Per peer: the channel, the
buffer, the message being written, `pending_replies`, and the frames in every connection so
far, of which an old one may still be read by the peer. `DrainChannel` and `Connect` are
`Connection::run`; `PopBuffer`, `Write`, `TakeMessage`, `ReadAck` and `Break` are
`keep_alive` with its select. A frame is the number of its message, an acknowledgement has
none. `Delivery` promises: a message is delivered before it is confirmed, for the first time in
the order of sending, and in the end unless it is withdrawn.

**Worker** (`batch_maker.rs`, `quorum_waiter.rs`, `processor.rs`, `primary_connector.rs`,
`worker.rs`). `TakeTransaction` and `SealOnTimer` fill and seal batches, `Broadcast` is one
`send` of the loop over the peers, which waits for room in the channel of that peer, then
`DeliverBatch`, `StartWaiting`, `CountAck` (which drops the remaining handlers, that is,
cancels), `StoreBatch`, `AnnounceDigest`, and `StoreOthersBatch` on the side of the peers,
after the acknowledgement, as in the code. All channels are bounded.

**Store, AtomicStore** (`store/src/lib.rs`). Calls enter the channel of the store task,
which serves them in turn; `obligations` are the callers of `notify_read` whose key is not
there. `AtomicStore` has no task: a call takes effect at one instant.

**BatchSync** (`worker/src/synchronizer.rs`, `helper.rs`). `StartSynchronize` handles a
message up to the await on the store, `EndSynchronize` the rest; `Cleanup`, `CompleteWaiter`,
`EndCancelled` and `Retry` are the other branches of the select; `PollWaiter` is the first poll
of a waiter. A waiter is named by the message it was made for, so that an older one of the
same digest may still be around.

Modules hold, just before some definitions, a second version of it named as a
mutant: a plausible bug with which one of the properties fails. They are not
part of the specification.

## 3. What TLC checks

| run | question | bounds |
|---|---|---|
| tusk | does one consensus task commit once, with full history, without a panic, and every supported leader in the end? | 3 authorities (stakes 2, 1, 1), rounds to 9, gc depth 1, 153 DAGs |
| two_replicas | do two tasks commit one ledger of leaders? | rounds to 7, gc depth 3; B starts after A has ended |
| mrv | on slices with and without cut-offs: are floor and counts exact, is maturity final, is the wait bounded, does the whole DAG contradict a verdict on certificates above the cut, does the executor implement the slice log; does the SCC code compute the linearization? | 4 authorities, 180 DAGs of 6 or 8 rounds, window 4; all 3^10 verdict graphs on 5 nodes |
| pipeline | is the composition in order, exact and free of deadlock, and are its slices those that MrvExecutor expects? | 4 authorities, rounds to 9 (three leaders), gc depth and window 4, channel of 1 |
| primary | one vote per round, history first, valid proposals, a quorum on our certificates, increasing rounds? | 3 authorities (1, 1, 2), 3 rounds of our own, 2 of the others, gc depth 0, two headers of one author and round, late payload |
| sync | does what is missing stay requested, and is what is suspended stored in the end? | 3 authorities, 2 rounds, gc depth 0, one certificate that its faulty author sends to one authority only and names as a parent in a header of the same round |
| worker | is what is announced held and stored by enough, is everything announced, does the sender implement the delivery? | 2 peers (one silent, one whose connection breaks twice), 2 transactions in batches of up to 2, all channels of 1, sockets of 2 |
| batch_sync | are batches asked for obtained, is the store atomic, is no waiter forgotten? | 1 batch, 2 peers (one has it), 4 Synchronize messages, rounds to 4, gc depth 2, a store channel of 2 |

MCMrv runs the executor and, from initial states of their own, the algorithm of
`sort_batch` on every graph of verdicts over five nodes, 59049 of them and most of the run's 1.7
million states; the executor's DAGs hardly give cycles. Five nodes have room for two components
of several nodes each, and for a component between two others.

*Why the bounds are enough to be interesting.* Tusk decides the leader of round
2 in round 5 and the leader of round 4 in round 7, so seven rounds contain a
leader that is committed directly, one that is committed only through the next,
one that is skipped or absent, and slices after a clean-up; with nine rounds and a gc
depth of one, garbage collection cuts into the slice of the leader of round 6. In SmallDags and MCTusk only the
certificates near the leaders choose their parents; the other certificates have
fixed ones. With three authorities of stakes 2, 1, 1 a quorum and f+1 support
differ and the last authority may lag behind without blocking. Four authorities of
equal stake are the least with f = 1, where maturity (3), evidence (2) and a
missing author are all distinct. With a window of four some leaders of round 2 are
mature one slice later, some two (their batch and the next become ready together), and in
`ThinRefs` one is capped; in `SlowDags` a slow author's certificates of rounds 3 to 5 come
with the slice of round 8. `DropRefs` lets the leader of round 2 not link to its author's certificate of round
1, and the slow author's older ones are skipped, so that slices lack something. In the primary, two rounds hold a
certificate that must be suspended, two headers of one author and a collected
round, and three rounds let our own certificates complete the quorums we propose on; stakes 1, 1, 2 let the others go on without us.
In the synchronization, two headers of different rounds share a missing parent, which only a retry obtains;
its author never answers. Either of them may be suspended first, the lower one's round may be
collected while the other waits, and the parent may arrive before or after that. The rounds are too few for an ancestor to be too
old while a certificate waits for it, so that exception of `SynchronizedOrTooOld` is never used in the run; the other one is.
In the worker, two batches are on their way at once, an acknowledgement may be lost with its
connection, the frame it was for be read again from the old one, and a cancelled batch be
in any place when the connection breaks. In BatchSync, four messages for one batch make up to four
waiters: one cancelled, one completed, one pending and one being made.

*TwoReplicas* orders the replicas: B starts after A has delivered everything. The
replicas share no variable and outputs only grow, so any pair of outputs that is
reachable otherwise is a pair of prefixes of one that is reached this way, and
`OneLedger` is closed under prefixes.

*Fairness.* `Tusk!FairSpec`: the task runs when it has work, and there is a certificate to
take until all are delivered (certificates are sent by ReliableSender until
acknowledged and asked for when missing). `Pipeline!FairSpec`: both tasks are
scheduled; nothing is assumed of the channel. `SyncFairSpec`: the tasks of the primary run,
the timer comes back to every authority that answers (it picks them at random), a request that
is sent again and again is answered in the end (strong fairness: the network may lose any
number of messages but not all), and a reply that has arrived is handled. Nothing is assumed of
the broadcasts. `Worker!FairSpec`: the batch timer fires, every task and connection task runs,
and the peers that are not silent accept a connection, read it and store what they got; nothing
is assumed of the silent ones. A connection may break `MaxConnections` - 1 times.
`BatchSync!FairSpec`: the store serves its channel, a task that waits for room there gets it in turn
(strong fairness, the semaphore of tokio's channel is fair), and between this worker
and one that has the batch not everything is lost.

*Deadlock* checking is off in every run: all instances stop when the bounded DAG is
used up. That the pipeline does not stop earlier is the property `Drains`.

## 4. Where the code and its texts disagree

Four runs are expected to end in a violation; each states what a comment or an
assertion says.

- `two_replicas_slices` — `order_dag` says of an absent parent "We already ordered or GC
  up to here" (`lib.rs:303`), but `State::update` drops every certificate of an author below the
  author's last committed round, ordered or not, and it acts on what the replica has
  received so far. So two replicas that agree on the leaders may output different slices for
  one leader. What does hold, and is checked, is agreement on the leaders.
- `primary_own_vote` — `.expect("Failed to process our own vote")`
  (`core.rs:197`) fires when the quorum on our header is complete only after its
  round was collected.
- `sync_batches` — "synchronize with other nodes (through our workers)"
  (`primary/src/synchronizer.rs:47-48`): the HeaderWaiter sends `Synchronize` to the worker of
  the header's author (`header_waiter.rs:164-168`), with that author as the target, so that the
  author's worker asks itself, and our worker is never told. The request is not repeated
  either. A header whose batch did not reach us by the author's broadcast waits until it is
  collected. With our own worker in that place the property holds in the same instance.
- `worker_stalled` — "Drain the channel into the buffer to not saturate the channel
  and block the caller task" (`reliable_sender.rs:171`) is done between connections only. A peer
  that is connected and reads nothing lets `writer.send` wait (line 200); the channel fills up,
  and the BatchMaker, which awaits room in the channel of every peer in turn, stops for good
  although a quorum reads. In the code this takes a socket full of batches and
  1000 more in the channel; in the run, four batches. The run `worker` keeps below that limit.

Five more observations have no run of their own.

*Evidence that was cut off.* The repository's `README.md:17-18` says "count which creators' committed AUFs see each
target AUF through DAG ancestry" and "a one-sided Byzantine-robust visibility signal". The walk of the executor goes through what it has received
(`mrv_executor/src/lib.rs:153-156`), and what `State::update` dropped it never receives; so `RobustVerdicts` is about pairs
above the cut only. `MCVerdicts` with `PipelineVerdicts.cfg` is an instance of Pipeline that shows what happens below it:
seven authorities, one DAG, delivered round by round. The certificate of authority 4 in
round 3 is dropped when its certificate of round 4 is committed. It was the only way from four certificates of
round 5 to that of authority 5 in round 2. All four are committed but not counted, and a certificate of round 4 is put before
that one of round 2, which in the DAG is ahead of it by f+1 = 3 authors in the round compared. The two are in
one slice, so the output changes. `VerdictsFollowAncestry`, in that module, states the sentence; TLC finds it violated in seconds.

*Requests that end too early.* "The synchronizer will gather them and trigger re-processing of this
certificate" (`core.rs:267-268`). There is one request per missing parent, with the round of the
header that it was made for first, and it goes when that round is collected (`header_waiter.rs:208-211`, `:289`). A
faulty author may name the parent in a header of a lower round, which is suspended before the rounds of
its parents are compared with its own (`core.rs:153-156`, `:159-171`). When that round is collected nobody asks for the parent
any more, and an honest author's certificate with that parent stays suspended, although another authority
would answer the next retry, until a later header with the same parent comes or its ancestor is too old. The
run `sync` reaches this: without the disjunct `GivenUp`, TLC finds `SynchronizedOrTooOld` violated in it.

*Others.* The primary does not look whether a
certificate is already stored (`core.rs:251-304`); sent again below the author's last committed round
it would be committed again, in spite of `last_committed` being there to "ensure we don't commit
twice the same certificate" (`consensus/src/lib.rs:30-31`; the TODO at lines 62-63 knows of the
risk). So `NoDoubleCommit` supposes that the primary sends each certificate once. `sort_batch` has only evidence and a
tie-break by round, so with seven authorities evidence may put a certificate before its own parent
in a slice, although the repository's README lists causal constraints. And "frozen pair verdicts"
(`mrv_executor/src/lib.rs:274`) are frozen in their horizon only: a late certificate of a slow author
may turn a tie between two mature AUFs into an edge. `HorizonIsFinal` says that no certificate past the
horizon matters any more, and `RobustVerdicts` that where nothing is cut off from the rounds of the two up, the whole DAG
has no evidence for the opposite. Where something is, `MCVerdicts` shows that it may.

That a suspended certificate is re-processed has another exception:
when an ancestor is refused as too old (`core.rs:338-342`), it stays in the
CertificateWaiter. The property `SynchronizedOrTooOld` states it with that exception.

## 5. What is proved

TLAPS checks the following for every committee, stake, DAG, set of headers, gc depth, window
and channel capacity (the theorems on verdicts and maturity suppose something of the stakes). Each module has its inductive invariant, one theorem for each
property of it that a run checks, and a few for properties that no run checks (`HorizonJustified`,
`ActiveExact` and `EvidenceRespected` of the executor, `HorizonsFinal` and `VerdictsRobust` of the
pipeline).

**DagProofs**, about Committee: the sum of stakes is what it should be (`StakeOf` folds over a set, so
its recursion is unfolded by an induction over sets of naturals, `NatSetInduction`, once
and for all), hence two quorums have f+1 stake in common
(`QuorumsIntersect`) and a quorum meets every set of f+1 stake (`QuorumMeetsValidity`), with the
thresholds as the code rounds them. PrimaryProofs and WorkerProofs take what they need of this from
an instance of the module.

About Dag: the layers of a walk (`Layers` is a recursive function; `LayersStep` shows that it
satisfies its recursion); a leader with f+1 support is an ancestor of every certificate two
rounds above it or more, because the parents of each carry a quorum (`SupportedIsReached`);
two chains of leaders that end in supported ones agree (`ChainsAgree`).

About SliceOrder: what `Linearize` puts out is a permutation of the batch (`LinearizeLists`).
The recursion of `Reachable` computes the least closed set (`GrownIsClosure`), so paths compose
(`PathsFacts`); therefore a node that the fewest others lead to is ready and each component emitted is a
non-empty part of what is left (`FirstComponentFacts`); and the tie-break is a total order, which numbers
the nodes of a component (`RanksExact`). So the emission ends, and lists every node once.

**TuskProofs**: `TypeOK`, `NoDoubleCommit`, `NoPanic`, `HistoryCommitted`, under the assumptions
of Committee, Dag and Tusk (the DAG is well formed) and with each certificate delivered once, after its
history. The properties are not inductive: whether a certificate can be committed again
depends on what the dag still holds. The invariant `IInv` adds

- `CommittedMarked`: a committed certificate that is still in `dag` is the last committed one
  of its author, which is the one `order_dag` skips;
- `LastRoundExact`: `last_committed_round` is the greatest entry of `last_committed`;
- `PendingKept`: the pending leaders are in `dag`, above the last committed round (a slice
  of an earlier leader does not remove a later one);
- `HistoryKept`: what was delivered above the last committed round is in `dag`, and
  below any delivered certificate every round has a delivered one. With the rounds that the
  election and `linked` read being above the last committed round, no `expect` fires.

`Deliver` keeps `CommittedMarked` because a delivered certificate was never committed;
`CommitLeader` because `State::update` removes what is below the new marks.

On top of `IInv` come two more invariants. `LedgerInv`: the leaders committed and pending are a
chain of the whole DAG that ends in a leader with f+1 support, and the committed ones are its
beginning. The step that matters is a new election: `linked` reads the task's own dag, where
`State::update` has removed things, but above the last committed round that walk finds what a walk
through the whole DAG finds (`LayersSame`); and the last leader committed before has f+1 support,
so the new one descends from it and the old chain is not contradicted. `HistoryInv`: what is
no longer in the dag was removed below a committed certificate of its author or below the gc depth, which is what
`HistoryCommitted` lets a slice miss. `CommitsParentsFirst` adds that what a slice misses is gone for
good: no slice holds a parent of what an earlier one has committed, because a parent that is
still in the dag is the last committed certificate of its author, which `order_dag` skips (`ParentsSettled`).

**TwoReplicasProofs**: `OneLedger` (theorem `Agreement`). By `LedgerInv` the outputs of both tasks follow chains of the
same DAG that end in supported leaders; by `ChainsAgree` one is a prefix of the other; so each
step of either task extends the longer of both logs by one leader, extends the shorter one by what the
longer has, or changes neither: the steps of `Ledger`.

**MrvProofs**: `TypeOK`, `FloorExact`, `ActiveExact`, `HorizonJustified`, `WindowBound`,
`SeenExact`, `HorizonIsFinal`, `RobustVerdicts`, and the refinement `KeepsPromise`.
`SafetyForAnySlices` proves the inductive invariant `IInv` for `SpecAny`, where the
consensus may output any slices that repeat nothing; `SafetyInvariant` carries it
over to `Spec`. Besides the first five properties `IInv` has `IndexFresh` (the slice being ingested
has no batch yet) and `CapApplied` (after the cap every active certificate without a horizon
is within a window of the frontier), which is what `WindowBound` follows from: a batch
that is not ready has a member without a horizon, because no horizon passes the frontier.
`SeenExact` needs the floor to be exact (`FloorExact`), so that a walk cut off there still
finds every active ancestor (`WalkFromFloor`), and that no certificate is received after one that refers
to it (`ParentsFirst`), so that its count begins with itself and old walks stay as they were (`WalkKept`). For the
slices of `Spec` that follows from what is cut off being gone for good (`ReceiveSeen`).

`ReleasesInOrder` (for `Spec`) and `AnySlicesInOrder` (for `SpecAny`) show that every step of the executor is
a step of `SliceLog` or none. Two things carry it. What `sort_batch` sends is a permutation of the batch
(`LinearizeLists`). And the batches by index are a queue: a slice gets an index above all others and goes to
the end, the lowest index is its head (`AscendingAdded`, `AscendingRemoved`).

`VerdictsAreRobust`: `RobustVerdicts`, for `Spec`. Suppose nothing is cut off from the rounds of a and b up, a
leads b by f+1 authors in what the executor has
received of a round, and b leads a by f+1 in some round of the whole DAG. What f+1 authors of a round have
seen is seen by every certificate of later rounds (`SeenByMany`: a quorum of parents meets them). So in the later of
the two rounds the one that led earlier is seen by all and cannot be behind; and if the rounds are the same, at
most f certificates of it are not received (`QuorumReceived`), too few to make up the difference. Without the
condition on the cut-off the sightings counted are not those of the DAG, and the statement is false
(`MCVerdicts`). `HorizonsAreFinal`: the 2f+1 authors that made a certificate mature did see it in the DAG, because the walks
only miss sightings and never invent one, so every later quorum meets them, cut-off or not. Both are
about what `SeenInv` keeps (`SeenExact` and `ParentsFirst`), which the pipeline keeps as well: `VerdictsStayRobust` and
`HorizonsStayFinal` of PipelineProofs say the same of the slices that Tusk outputs. They
have one hypothesis, `CountsCarryStake`: any f+1 authorities have the
stake of the validity threshold. The executor counts authors (`2f+1` and `f+1` of the size of the committee) while
the DAG is built on stake, so without it f+1 authors may weigh too little to be met by every quorum.
Equal stakes satisfy it (`EqualStakesCount`), among them those of the runs.

About KosarajuOrder, in the same module: the algorithm of `sort_batch` for any number of certificates and
any graph of verdicts. `SortInv` has a part for each phase.

- Forward search (`ForwardInv`): the calls in progress are on one path; a finished node is in
  a component with one of them, or all it leads to is finished. From this follows the fact that
  Kosaraju's algorithm rests on, `FinishOrder`: a node that leads to a finished one is led back to, or is in a
  component with a node that finishes later.
- Reverse search (`ReverseInv`): what is complete are strongly connected components, and what leads
  to them is in components that came earlier. So what the search collects from the
  node that finished last, of those without a component, leads to that node, and by `FinishOrder` is led back to.
- Emission (`EmitInv`): an in-degree is the number of components not yet emitted with an edge to this one,
  those with none are ready, and what is sorted, followed by the declarative linearization of
  the rest, is the linearization of all nodes (`Continued`). The first ready
  component is the one the declarative linearization takes next (`FirstReady`).

Hence `SortsLikeLinearize` and `SortRespectsEvidence`. `SortTerminates` bounds the number of steps without
fairness: each step lowers `StepsLeft`, which begins at 6n + 3, and `EmitComponent` can be taken as
long as something is ready (`EmissionGoesOn`: two components never tie, because they share no node).

**PipelineProofs**: `WholeSlicesInOrder`, `EvidenceExact`, `WaitingAreActive`, `HorizonsFinal` and `VerdictsRobust`,
of both tasks and the channel. A step
of the executor leaves the consensus alone, so a behaviour of the pipeline is one of Tusk and keeps the
invariants of TuskProofs (`RunsConsensus`). The steps in MrvProofs
require of a slice only that it repeats nothing and holds no parent of what was received before, and
`NoDoubleCommit` and `CommitsParentsFirst` provide that (`ReceiveStep`). What joins the two tasks is
`HandedOver`: the store holds the first slices of the consensus but for what is left to ingest, and the
batches are the slices after the released ones, each under its index. So `NextBatch` is the slice
after the last released one, and `sort_batch` sends all of it (`SortBatchLists`).

**PrimaryProofs**, about Primary: `TypeOK`, `OneVotePerRound`, `HistoryFirst`, `ProposalsValid`,
`CertifiedByQuorum`, `RoundsIncrease`, whatever headers the others send, several of one author and
round among them. The parts of `IInv` are named for the state they are about: `VotesKept` (a vote
is remembered in `last_voted` as long as its round is not collected, which `gc_round` being behind
`consensus_round` makes precise), `QuorumsGathered` (aggregators hold stored certificates of their round, and
what is on its way to the Proposer carries a quorum), `ProposerAhead` (the Proposer has a quorum of the round before its
own, or has used it), `ProposalsOrdered` (headers reach the Core in ascending rounds, above the
current one and above any vote of ours for a header of ours), `TallyBacked` (what the votes aggregator counted are votes for
`current_header`, ours first), `OwnAccepted` (a header of ours that is voted for or stored was made) and `Waiting`.

About Synchronization: `SyncImplementsPrimary`, every step of the primary that requests what it
misses is a step of Primary or none, so that all of the above holds of it; and `AskedFor` (`StaysRequested`), for
all sets of headers, those of faulty authors included. `RequestsNamed` says that each request has the round of a header with that
parent. So if the cleanup drops a request while the header that needs it is above the collected round,
it was made for a header of a lower one (`DroppedIsCollected`), and that stays so since `consensus_round` never
goes back (`CollectedStays`); a header that resumes drops only requests for what is there. The
exception in `AskedFor` cannot be left out (section 4). With honest authors only it
is void, since headers that share a parent are of one round then.

**WorkerProofs**, about ReliableSender: `AckedWasReceived`, `HeldOnceInOrder`, and
`SenderImplementsChannel`, the steps of `Delivery`. The invariant `SenderIInv` says of each peer that
its channel, buffer, current message and pending replies together hold the messages in the order of sending, and
that the frames and acknowledgements on the wires of the live connection are those of `pending_replies` from
the front, which is what matching by position relies on. About Worker: `TypeOK`,
`QuorumHasIt`, and that it only uses the sender as a caller may, so that the sender's theorems
hold of it. Its invariant follows a batch through the channels (`MakerInv`,
`WaiterInv`, `ProcessorInv`): a peer is counted after its handler has resolved, and it has the batch then.
The fairness in `DeliversReliably` stays with TLC.

**BatchSyncProofs**: `TypeOK`, `NoLostWakeUp`, `PendingIsWatched`, `OnlyDroppedWhenOld` and
`StoreIsAtomic` for
every set of batches and peers, every capacity of the store's channel, gc depth and number of
requests. `IInv` adds to the types that waiters are made one after the other (`SyncInv`), and
`CallsInv`: a call of `notify_read`, whether it is a command in the channel, an obligation or
has returned, is for the batch of its waiter, and that batch is in the store once it has returned.
`OnlyDroppedWhenOld` needs it because `CompleteWaiter` removes the entry by the digest of a
waiter, which may be an older one of the same batch; `PendingIsWatched` holds because an entry
names a waiter of its own batch, so that what a Cleanup or another waiter's end cancels is not
the waiter of an entry that stays. For `StoreIsAtomic`, each command takes effect when the store
task serves it; `QueueInv` says that a caller has at most one command in the channel.

Only model-checked: the liveness properties, since they rest on fairness and ENABLED, which
this prover does not handle: `SupportedLeaderCommits`, `Drains`, `SynchronizedOrTooOld`,
`DeliversReliably`, `StaysAvailable`, `TransactionsAnnounced`, `Obtained`; and `SlicesAsExpected`, on
which no theorem rests, since PipelineProofs argues from Tusk's own slices. Every other invariant,
action property or refinement that a passing run checks is a theorem.

## 6. Not modelled

- Signatures and hashes are ideal; the encoding of messages and the sizes of batches
  are left out.
- Crash and restart: the code has no recovery path (the consensus and the primary start from
  genesis while the store keeps the certificates), so there is no handler to model.
- The bounded channels between Core, HeaderWaiter and Proposer (1000 places each).
- What becomes of a digest between the PrimaryConnector and the primary, and the digests in
  our own headers: Worker ends with the announcement, Synchronization begins with what is
  delivered. A lost digest is in the list of hazards.
- Failures of RocksDB, which `write` ignores and `read` turns into a panic.
- Faulty peers of the worker only omit: they do not accept a connection, do not read or do not store. An
  acknowledgement sent early or unasked, and a batch that is not what its author made, are not modelled, so
  what a quorum of acknowledgements says is said of peers that follow the protocol.
- The second vote for an author and round whose round was collected in between: `OneVotePerRound` is about the
  rounds that are kept.
- A full socket in the run `worker`: its sockets hold all messages, and what a peer that stops reading does to
  the others is the subject of `worker_stalled`.
- SimpleSender's pool of connections, the delay between reconnections, the benchmark client and
  harness, the command line, and the import and export of configuration files.

A header of the last collected round that is suspended is dropped in the same
iteration of the HeaderWaiter, after its requests were sent; Synchronization does
not send these. The bounds in guards are `MaxRound`, `MaxTxs`, `MaxMessages`,
`MaxConnections`, `MaxRequests` and `LastProposal`.

## 7. Plan

1. Done: Committee, Dag, Tusk, TwoReplicas, SliceOrder, KosarajuOrder,
   MrvExecutor, Pipeline, Primary, Synchronization, ReliableSender, Worker, Store,
   BatchSync, and the eight modules of proofs.
2. Several primaries exchanging headers, votes and certificates with a faulty
   one: certificates are unique per author and round.
