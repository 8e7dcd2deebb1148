----------------------------- MODULE BatchSync -----------------------------
(***************************************************************************)
(* The Synchronizer of a worker (worker/src/synchronizer.rs): on request   *)
(* of a primary it asks other workers for batches, again and again, until  *)
(* they are in its store or too old; with the Helper of the workers that   *)
(* are asked, the Processor that stores what comes, and the store itself.  *)
(* Requests and batches travel by SimpleSender and may be lost.            *)
(*                                                                         *)
(* A message Synchronize names one batch; a waiter is named by the number  *)
(* of the message it was made for.                                         *)
(***************************************************************************)
EXTENDS Store

CONSTANTS Digest,
          Peer,         \* the other workers with our id
          Holders,      \* Holders[d]: those that have batch d and answer
          GcDepth,      \* gc_depth
          MaxRound,     \* bound on the rounds of Cleanup messages
          MaxRequests   \* bound on the Synchronize messages

ASSUME BatchSyncAssumption ==
    /\ Key = Digest
    /\ Waiter = 1 .. MaxRequests
    /\ Reader = {"synchronizer"}
    /\ Holders \in [Digest -> SUBSET Peer]
    /\ GcDepth \in Nat /\ MaxRound \in Nat /\ MaxRequests \in Nat

VARIABLES round,      \* round: of the last Cleanup
          handling,   \* the Synchronize message at store.read, if any
          made,       \* the number of waiters made so far
          waiter,     \* waiter[i]: its batch and state
          cancelled,  \* the waiters whose tx_cancel was used or dropped
          pending,    \* pending[d]: the waiter and the round, if d is pending
          requests,   \* BatchRequests on their way, as pairs of peer and digest
          replies     \* batches on their way to us

syncVars == <<round, handling, made, waiter, cancelled, pending>>

netVars == <<requests, replies>>

vars == <<storeVars, syncVars, netVars>>

Me == "synchronizer"

None == "none"

Idle == [digest |-> None, target |-> None]

NotPending == [waiter |-> 0, round |-> 0]

TypeOK ==
    /\ StoreTypeOK
    /\ round \in 0 .. MaxRound
    /\ handling = Idle \/ (handling.digest \in Digest /\ handling.target \in Peer)
    /\ made \in 0 .. MaxRequests
    /\ \A i \in 1 .. made : waiter[i].digest \in Digest
                            /\ waiter[i].state \in {"made", "asked", "done"}
    /\ cancelled \subseteq 1 .. made
    /\ \A d \in Digest : pending[d].waiter \in 0 .. made /\ pending[d].round \in 0 .. round
    /\ requests \subseteq Peer \X Digest
    /\ replies \subseteq Digest

Init ==
    /\ StoreInit
    /\ round = 0
    /\ handling = Idle
    /\ made = 0
    /\ waiter = [i \in Waiter |-> [digest |-> None, state |-> "unmade"]]
    /\ cancelled = {}
    /\ pending = [d \in Digest |-> NotPending]
    /\ requests = {}
    /\ replies = {}

-----------------------------------------------------------------------------
(***************************************************************************)
(* The main loop. While it awaits store.read it does nothing else: neither *)
(* the waiters nor the timer are polled.                                   *)
(***************************************************************************)

AtSelect == handling = Idle

\* Synchronize: a batch that is not pending is looked up in the store.
StartSynchronize(d, target) ==
    /\ AtSelect
    /\ made < MaxRequests
    /\ pending[d].waiter = 0
    /\ Read(Me, d)
    /\ handling' = [digest |-> d, target |-> target]
    /\ UNCHANGED <<round, made, waiter, cancelled, pending, netVars>>

\* The batch becomes pending with a waiter of its own, even if it is there;
\* if it is not, the target is asked for it.
EndSynchronize ==
    LET d == handling.digest
        i == made + 1
    IN /\ ~ AtSelect
       /\ EndRead(Me)
       /\ made' = i
       /\ waiter' = [waiter EXCEPT ![i] = [digest |-> d, state |-> "made"]]
       /\ pending' = [pending EXCEPT ![d] = [waiter |-> i, round |-> round]]
       /\ requests' = IF reply[Me] = "none" THEN requests \cup {<<handling.target, d>>}
                      ELSE requests
       /\ handling' = Idle
       /\ UNCHANGED <<round, cancelled, replies>>

\* Mutant of Expired: a batch is dropped one round early.
ExpiredEarly(d, r) == pending[d].waiter # 0 /\ r >= GcDepth /\ pending[d].round <= r - GcDepth + 1

\* What a Cleanup of round r cancels.
Expired(d, r) == pending[d].waiter # 0 /\ r >= GcDepth /\ pending[d].round <= r - GcDepth

\* Mutant of Cleanup: what is cancelled stays in `pending'.
CleanupKeeping(r) ==
    /\ AtSelect
    /\ r > round
    /\ round' = r
    /\ cancelled' = cancelled \cup {pending[d].waiter : d \in {d \in Digest : Expired(d, r)}}
    /\ UNCHANGED <<handling, made, waiter, pending, storeVars, netVars>>

Cleanup(r) ==
    /\ AtSelect
    /\ r > round
    /\ round' = r
    /\ pending' = [d \in Digest |-> IF Expired(d, r) THEN NotPending ELSE pending[d]]
    /\ cancelled' = cancelled \cup {pending[d].waiter : d \in {d \in Digest : Expired(d, r)}}
    /\ UNCHANGED <<handling, made, waiter, storeVars, netVars>>

\* A waiter is polled for the first time only by the loop: it calls
\* notify_read, even if it was cancelled before.
PollWaiter(i) ==
    /\ AtSelect
    /\ waiter[i].state = "made"
    /\ NotifyRead(i, waiter[i].digest)
    /\ waiter' = [waiter EXCEPT ![i].state = "asked"]
    /\ UNCHANGED <<round, handling, made, cancelled, pending, netVars>>

\* The batch is there. The entry in `pending' goes, with its tx_cancel.
CompleteWaiter(i) ==
    LET d == waiter[i].digest
    IN /\ AtSelect
       /\ waiter[i].state = "asked"
       /\ i \in notified
       /\ waiter' = [waiter EXCEPT ![i].state = "done"]
       /\ pending' = [pending EXCEPT ![d] = NotPending]
       /\ cancelled' = cancelled \cup ({pending[d].waiter} \ {0})
       /\ UNCHANGED <<round, handling, made, storeVars, netVars>>

\* A cancelled waiter ends, maybe without having called notify_read.
EndCancelled(i) ==
    /\ AtSelect
    /\ i \in cancelled
    /\ waiter[i].state \in {"made", "asked"}
    /\ waiter' = [waiter EXCEPT ![i].state = "done"]
    /\ UNCHANGED <<round, handling, made, cancelled, pending, storeVars, netVars>>

\* The timer: what is pending for long enough is asked for again, from some
\* peers at random; one step per batch and peer.
Retry(p, d) ==
    /\ AtSelect
    /\ pending[d].waiter # 0
    /\ requests' = requests \cup {<<p, d>>}
    /\ UNCHANGED <<storeVars, syncVars, replies>>

-----------------------------------------------------------------------------
(***************************************************************************)
(* The other workers, the network and the Processor.                       *)
(***************************************************************************)

\* The Helper of worker p sends what its store has.
Answer(p, d) ==
    /\ <<p, d>> \in requests
    /\ p \in Holders[d]
    /\ requests' = requests \ {<<p, d>>}
    /\ replies' = replies \cup {d}
    /\ UNCHANGED <<storeVars, syncVars>>

\* A request is lost, or the worker has no such batch; a reply is lost.
LoseRequest(p, d) ==
    /\ <<p, d>> \in requests
    /\ requests' = requests \ {<<p, d>>}
    /\ UNCHANGED <<storeVars, syncVars, replies>>

LoseReply(d) ==
    /\ d \in replies
    /\ replies' = replies \ {d}
    /\ UNCHANGED <<storeVars, syncVars, requests>>

\* A batch arrives, and the Processor stores it.
StoreReply(d) ==
    /\ d \in replies
    /\ replies' = replies \ {d}
    /\ Write(d)
    /\ UNCHANGED <<syncVars, requests>>

\* The broadcast of the batch's author arrives after all.
StoreBroadcast(d) ==
    /\ d \notin db
    /\ Write(d)
    /\ UNCHANGED <<syncVars, netVars>>

ServeStore == Serve /\ UNCHANGED <<syncVars, netVars>>

LoopStep ==
    \/ EndSynchronize
    \/ \E i \in Waiter : PollWaiter(i) \/ CompleteWaiter(i) \/ EndCancelled(i)

Next ==
    \/ \E d \in Digest, p \in Peer : StartSynchronize(d, p)
    \/ LoopStep
    \/ \E r \in 1 .. MaxRound : Cleanup(r)
    \/ \E d \in Digest, p \in Peer : Retry(p, d) \/ Answer(p, d) \/ LoseRequest(p, d)
    \/ \E d \in Digest : LoseReply(d) \/ StoreReply(d) \/ StoreBroadcast(d)
    \/ ServeStore

Spec == Init /\ [][Next]_vars

\* The tasks run (who waits for room in the channel of the store gets it in
\* turn), the timer picks every peer again and again, and not all the requests
\* and replies between us and a worker that has the batch are lost.
FairSpec ==
    /\ Spec
    /\ WF_vars(ServeStore)
    /\ SF_vars(LoopStep)
    /\ \A d \in Digest :
          /\ SF_vars(StoreReply(d))
          /\ \A p \in Holders[d] : SF_vars(Retry(p, d)) /\ SF_vars(Answer(p, d))

-----------------------------------------------------------------------------

\* A batch that is pending has a waiter that will hear of it: it was not
\* cancelled and has not ended, whatever was cancelled, completed and asked for
\* again before.
PendingIsWatched ==
    \A d \in Digest :
        LET i == pending[d].waiter
        IN i # 0 => /\ waiter[i].digest = d
                    /\ waiter[i].state \in {"made", "asked"}
                    /\ i \notin cancelled

\* A batch stays pending "until we get the missing batches in the store or
\* we no longer need them": as long as some worker that answers has it, it is
\* obtained, unless a Cleanup drops it first, gc_depth rounds after the
\* request.
Obtained ==
    \A d \in Digest :
        (pending[d].waiter # 0 /\ Holders[d] # {}) ~> (pending[d].waiter = 0)

OnlyDroppedWhenOld ==
    [][\A d \in Digest :
         (pending[d].waiter # 0 /\ pending'[d].waiter = 0) =>
            d \in db \/ round' >= pending[d].round + GcDepth]_vars
=============================================================================
