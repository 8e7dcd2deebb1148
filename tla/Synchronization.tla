-------------------------- MODULE Synchronization --------------------------
(***************************************************************************)
(* How one primary gets the certificates and batches it misses: the        *)
(* request side of the HeaderWaiter with its retry timer, the Helpers of   *)
(* the other primaries, and the Synchronize messages to the workers, added *)
(* to module Primary. Certificates no longer arrive at any time, but by    *)
(* the broadcast of their authors or in a reply. Requests and replies      *)
(* travel by SimpleSender and may be lost; a lost reply is a lost request. *)
(*                                                                         *)
(* A batch goes by the name of the header it is for, and the workers of an *)
(* authority are one. A worker that is told to synchronize a batch obtains *)
(* it, which is the subject of module BatchSync.                           *)
(***************************************************************************)
EXTENDS Primary

CONSTANTS Broadcast,   \* the certificates whose author's broadcast reaches us
          Answering,   \* authorities with all certificates, whose Helpers answer
          Delivered    \* the batches that the author's worker gives to ours

ASSUME SynchronizationAssumption ==
    /\ Broadcast \subseteq Certified
    /\ Answering \subseteq Authority \ {Me}
    /\ Delivered \subseteq Loaded

VARIABLES parentRequests,  \* parent_requests: certificates and rounds
          batchRequests,   \* batch_requests: batches and rounds
          certRequests,    \* CertificatesRequest messages, by receiver
          certReplies,     \* certificates on their way in reply
          synchronize      \* Synchronize messages handled, by worker

requestVars == <<parentRequests, batchRequests>>

messageVars == <<certRequests, certReplies, synchronize>>

syncVars == <<requestVars, messageVars>>

allVars == <<vars, syncVars>>

Requested(requests) == {x[1] : x \in requests}

SyncInit ==
    /\ Init
    /\ parentRequests = {}
    /\ batchRequests = {}
    /\ certRequests = {}
    /\ certReplies = {}
    /\ synchronize = {}

-----------------------------------------------------------------------------
(***************************************************************************)
(* The HeaderWaiter.                                                       *)
(***************************************************************************)

\* The cleanup that ends every iteration.
StillRequested(S) ==
    {x \in S : consensusRound > GcDepth => x[2] > consensusRound - GcDepth}

\* The headers that a step suspends. One of the last collected round, which the
\* cleanup of the same iteration drops again, is requested for nothing by the
\* code and not at all here.
NewlyPending(why) == {x[1] : x \in {y \in pending' \ pending : y[2] = why}}

\* The missing parents of a new header that are not requested yet, with it.
Unrequested ==
    {x \in Others \X NewlyPending("parents") :
        x[1] \in MissingParents(x[2]) \ Requested(parentRequests)}

\* Mutant of ParentEntry: the round of the parent.
ParentEntryByParent(p, h) == <<p, round(p)>>

\* What is remembered of a request: the round of the header that needs it.
ParentEntry(p, h) == <<p, round(h)>>

\* SyncParents: the parents are requested from the author of the header.
SyncParents ==
    /\ parentRequests' =
          IF pending' = pending THEN parentRequests
          ELSE StillRequested(parentRequests \cup {ParentEntry(x[1], x[2]) : x \in Unrequested})
    /\ certRequests' = certRequests \cup
          {y \in {<<author(x[2]), x[1]>> : x \in Unrequested} : y[1] \in Answering}

\* The worker that is told to synchronize the batch of h: its author's.
SyncWorker(h) == author(h)

\* SyncBatches: the same for batches, but they are requested only once.
SyncBatches ==
    LET missing == NewlyPending("payload") \ Requested(batchRequests)
    IN /\ batchRequests' =
             IF pending' = pending THEN batchRequests
             ELSE StillRequested(batchRequests \cup {<<h, round(h)>> : h \in missing})
       /\ synchronize' = synchronize \cup {<<SyncWorker(h), h>> : h \in missing}

\* A header is complete: its parents and batches are no longer requested.
ResumeHeader(h) ==
    /\ WakeHeader(h)
    /\ parentRequests' = StillRequested({x \in parentRequests : x[1] \notin ParentsOf(h)})
    /\ batchRequests' = StillRequested({x \in batchRequests : x[1] # h})
    /\ UNCHANGED messageVars

\* The timer wakes the HeaderWaiter, and the cleanup follows.
Tick ==
    /\ pending' = StillPending(pending)
    /\ parentRequests' = StillRequested(parentRequests)
    /\ batchRequests' = StillRequested(batchRequests)
    /\ UNCHANGED <<coreVars, suspended, headerLoop, certificateLoop, proposerVars,
                   tallyVars, envVars, certReplies, synchronize>>

\* Nothing is old enough to be requested again.
IdleTick == Tick /\ UNCHANGED certRequests

\* Mutant of RetryParent: only the author is asked again.
RetryAuthor(a, p) ==
    /\ a = author(p)
    /\ p \in Requested(parentRequests)
    /\ certRequests' = certRequests \cup {<<a, p>>}
    /\ Tick

\* What is requested for long enough is requested again, from some of the
\* authorities at random; one step per certificate and authority that answers.
RetryParent(a, p) ==
    /\ p \in Requested(parentRequests)
    /\ certRequests' = certRequests \cup {<<a, p>>}
    /\ Tick

-----------------------------------------------------------------------------
(***************************************************************************)
(* The network, the Helpers and the workers.                               *)
(***************************************************************************)

\* The Helper of authority a replies with what it has stored; a parent without
\* a certificate is requested from it for nothing.
AnswerRequest(a, p) ==
    /\ <<a, p>> \in certRequests
    /\ certRequests' = certRequests \ {<<a, p>>}
    /\ certReplies' = certReplies \cup {p}
    /\ UNCHANGED <<vars, requestVars, synchronize>>

LoseRequest(a, p) ==
    /\ <<a, p>> \in certRequests
    /\ certRequests' = certRequests \ {<<a, p>>}
    /\ UNCHANGED <<vars, requestVars, certReplies, synchronize>>

\* Our worker announces a batch that it was given or told to synchronize.
AnnouncePayload(h) ==
    /\ h \in Delivered \/ <<Me, h>> \in synchronize
    /\ StorePayload(h)
    /\ UNCHANGED syncVars

\* A certificate arrives, by broadcast or in a reply.
CertificateArrives(c) ==
    /\ c \in Broadcast \cup certReplies
    /\ ReceiveCertificate(c)
    /\ certReplies' = certReplies \ {c}
    /\ SyncParents /\ SyncBatches

-----------------------------------------------------------------------------

SyncNext ==
    \/ \E c \in Certified : CertificateArrives(c)
    \/ CoreStep /\ SyncParents /\ SyncBatches /\ UNCHANGED certReplies
    \/ OtherStep /\ UNCHANGED syncVars
    \/ \E h \in Header : ResumeHeader(h)
    \/ IdleTick
    \/ \E a \in Answering, p \in Others : RetryParent(a, p) \/ LoseRequest(a, p)
    \/ \E a \in Answering, p \in Certified : AnswerRequest(a, p)
    \/ \E h \in Loaded : AnnouncePayload(h)

SyncSpec == SyncInit /\ [][SyncNext]_allVars

\* The tasks run when they can and the channels are served in turn, the timer
\* comes back to every authority, and a request that is sent again and again
\* is answered in the end.
SyncFairSpec ==
    /\ SyncSpec
    /\ WF_allVars(\E c \in suspended : WakeCertificate(c) /\ UNCHANGED syncVars)
    /\ WF_allVars(\E c \in certificateLoop :
                     LoopCertificate(c) /\ SyncParents /\ SyncBatches /\ UNCHANGED certReplies)
    /\ \A p \in Certified :
          /\ WF_allVars(p \in certReplies /\ CertificateArrives(p))
          /\ \A a \in Answering :
                /\ WF_allVars(RetryParent(a, p))
                /\ SF_allVars(AnswerRequest(a, p))

-----------------------------------------------------------------------------

\* The request for p may be gone: a header of a lower round has that parent
\* too, and its round, which the HeaderWaiter may remember for the request of
\* both, is collected. No honest author makes such a header, but the parents of
\* a header are only checked once they are there.
RequestCollected(p, h) ==
    \E g \in Others :
        /\ p \in ParentsOf(g)
        /\ round(g) < round(h)
        /\ consensusRound > GcDepth
        /\ round(g) <= consensusRound - GcDepth

\* What a suspended header waits for stays requested for as long as the header
\* waits, although the request was made for another header, which may resume,
\* be cancelled or be collected before: the retries stop for nobody who still
\* needs them. The one exception is the request that was made for a header of
\* a lower, collected round.
AskedFor ==
    \A h \in Header :
        <<h, "parents">> \in pending =>
            \A p \in MissingParents(h) \ Requested(parentRequests) : RequestCollected(p, h)

\* "Synchronize with other nodes (through our workers)": the batch that a
\* suspended header waits for was given to our worker or asked from it.
OurWorkerAsked ==
    \A h \in Loaded :
        <<h, "payload">> \in pending => h \in Delivered \/ <<Me, h>> \in synchronize

\* The ancestors of a certificate, genesis left out.
AncestorsOf(c) ==
    LET layer[k \in 0 .. round(c)] ==
            IF k = 0 THEN {c} ELSE UNION {ParentsOf(d) : d \in layer[k - 1]} \ Genesis
    IN UNION {layer[k] : k \in 1 .. round(c)}

TooOld(p) == consensusRound > GcDepth /\ round(p) < consensusRound - GcDepth

\* The header of c waits for a parent that is no longer requested, which by
\* AskedFor is one that a header of a lower, collected round has too.
GivenUp(c) ==
    /\ <<c, "parents">> \in pending
    /\ MissingParents(c) \ Requested(parentRequests) # {}

\* A certificate that is suspended is processed again ("the synchronizer
\* will gather them and trigger re-processing") and stored, although no
\* author broadcasts what is missing and messages are lost (or the task
\* panics), unless one of its ancestors is too old before it is there, or it
\* or one of them is given up. Without the second exception the sentence is
\* wrong in the run's instance.
SynchronizedOrTooOld ==
    \A c \in Certified :
        c \in suspended ~> \/ c \in store \/ panicked
                           \/ \E p \in AncestorsOf(c) \ store : TooOld(p)
                           \/ \E d \in ({c} \cup AncestorsOf(c)) \ store : GivenUp(d)
=============================================================================
