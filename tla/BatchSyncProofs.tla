-------------------------- MODULE BatchSyncProofs --------------------------
(***************************************************************************)
(* Safety of the worker's Synchronizer on the store task, for any batches, *)
(* peers, capacity of the store's channel and garbage collection depth:    *)
(* nobody waits for a key that is stored, a pending batch has a waiter     *)
(* that will hear of it, and what leaves `pending' is stored or old.       *)
(***************************************************************************)
EXTENDS BatchSync, TLAPS

-----------------------------------------------------------------------------
(***************************************************************************)
(* The inductive invariant.                                                *)
(***************************************************************************)

Command ==
    [op : {"Write"}, key : Key] \cup [op : {"Read"}, key : Key, reader : Reader]
        \cup [op : {"NotifyRead"}, key : Key, waiter : Waiter]

StoreInv ==
    /\ commands \in Seq(Command) /\ Len(commands) <= StoreCap
    /\ db \subseteq Key
    /\ obligations \in [Key -> SUBSET Waiter]
    /\ reply \in [Reader -> {"idle", "called", "some", "none"}]
    /\ notified \subseteq Waiter

\* Waiters are made one after the other, and a message that is being handled
\* may still make one.
SyncInv ==
    /\ round \in 0 .. MaxRound
    /\ made \in 0 .. MaxRequests
    /\ ~ AtSelect => handling.digest \in Digest /\ handling.target \in Peer
                     /\ made < MaxRequests
    /\ waiter \in [Waiter -> [digest : Digest \cup {None},
                              state : {"unmade", "made", "asked", "done"}]]
    /\ \A i \in Waiter : IF i <= made THEN waiter[i].digest \in Digest /\ waiter[i].state # "unmade"
                         ELSE waiter[i].state = "unmade"
    /\ cancelled \subseteq 1 .. made
    /\ pending \in [Digest -> [waiter : 0 .. MaxRequests, round : 0 .. MaxRound]]
    /\ \A d \in Digest : pending[d].waiter <= made /\ pending[d].round <= round
    /\ requests \subseteq Peer \X Digest
    /\ replies \subseteq Digest

\* A call of notify_read, wherever it is, asks for the batch of a waiter that
\* was made, and one that returned found it.
CallOf(w, k) == w \in 1 .. made /\ waiter[w].digest = k

CallsInv ==
    /\ \A j \in DOMAIN commands :
          commands[j].op = "NotifyRead" => CallOf(commands[j].waiter, commands[j].key)
    /\ \A k \in Key : \A w \in obligations[k] : CallOf(w, k)
    /\ \A w \in notified : w \in 1 .. made /\ waiter[w].digest \in db

IInv == StoreInv /\ SyncInv /\ CallsInv /\ NoLostWakeUp /\ PendingIsWatched

-----------------------------------------------------------------------------
(***************************************************************************)
(* The channel of the store.                                               *)
(***************************************************************************)

\* What the store task reads in a command is there and of the right kind.
LEMMA CommandFields ==
    ASSUME NEW c \in Command
    PROVE  /\ c.key \in Key
           /\ c.op \in {"Write", "Read", "NotifyRead"}
           /\ c.op = "Read" => c.reader \in Reader
           /\ c.op = "NotifyRead" => c.waiter \in Waiter
  BY DEF Command

\* A call adds its command at the end, and only where there is room.
LEMMA EnqueueKeeps ==
    ASSUME commands \in Seq(Command), NEW c \in Command, Enqueue(c)
    PROVE  /\ commands' \in Seq(Command)
           /\ Len(commands') <= StoreCap
           /\ \A j \in DOMAIN commands' : \/ j \in DOMAIN commands /\ commands'[j] = commands[j]
                                        \/ commands'[j] = c
<1>1. commands' = Append(commands, c) /\ Len(commands) < StoreCap
  BY DEF Enqueue
<1>2. commands' \in Seq(Command) /\ Len(commands') = Len(commands) + 1
  BY <1>1
<1>3. Len(commands') <= StoreCap
  BY <1>1, <1>2, StoreAssumption
<1>4. ASSUME NEW j \in DOMAIN commands'
      PROVE  (j \in DOMAIN commands /\ commands'[j] = commands[j]) \/ commands'[j] = c
  BY <1>1, <1>2
<1> QED BY <1>2, <1>3, <1>4

\* The task takes the first command; the others stay as they are.
LEMMA ServeKeeps ==
    ASSUME commands \in Seq(Command), commands # <<>>, commands' = Tail(commands)
    PROVE  /\ commands' \in Seq(Command)
           /\ Len(commands') <= Len(commands)
           /\ 1 \in DOMAIN commands /\ Head(commands) = commands[1] /\ Head(commands) \in Command
           /\ \A j \in DOMAIN commands' : j + 1 \in DOMAIN commands
                                          /\ commands'[j] = commands[j + 1]
<1>1. Len(commands) \in Nat /\ Len(commands) >= 1 /\ Len(commands') = Len(commands) - 1
  OBVIOUS
<1>2. \A j \in DOMAIN commands' : commands'[j] = commands[j + 1]
  BY <1>1
<1> QED BY <1>1, <1>2

\* Every call of the store of this system is a command.
LEMMA CallsAreCommands ==
    /\ \A k \in Key : [op |-> "Write", key |-> k] \in Command
    /\ \A r \in Reader, k \in Key : [op |-> "Read", key |-> k, reader |-> r] \in Command
    /\ \A w \in Waiter, k \in Key : [op |-> "NotifyRead", key |-> k, waiter |-> w] \in Command
  BY DEF Command

-----------------------------------------------------------------------------
(***************************************************************************)
(* The initial state and the steps, one part of the invariant at a time.   *)
(***************************************************************************)

LEMMA InitEstablishes == Init => IInv
<1> SUFFICES ASSUME Init PROVE IInv
  OBVIOUS
<1>1. StoreInv
  BY StoreAssumption DEF Init, StoreInit, StoreInv
<1>2. SyncInv
  BY BatchSyncAssumption DEF Init, SyncInv, AtSelect, NotPending
<1>3. CallsInv
  BY DEF Init, StoreInit, CallsInv
<1>4. NoLostWakeUp /\ PendingIsWatched
  BY DEF Init, StoreInit, NoLostWakeUp, PendingIsWatched, NotPending
<1> QED BY <1>1, <1>2, <1>3, <1>4 DEF IInv

\* The actions that do not touch the store.
Elsewhere ==
    \/ \E r \in 1 .. MaxRound : Cleanup(r)
    \/ \E i \in Waiter : CompleteWaiter(i) \/ EndCancelled(i)
    \/ \E d \in Digest, p \in Peer : Retry(p, d) \/ Answer(p, d) \/ LoseRequest(p, d)
    \/ \E d \in Digest : LoseReply(d)

\* The cases of every step.
LEMMA StepCases ==
    ASSUME Next
    PROVE  \/ \E d \in Digest, p \in Peer : StartSynchronize(d, p)
           \/ EndSynchronize
           \/ \E i \in Waiter : PollWaiter(i)
           \/ \E d \in Digest : StoreReply(d) \/ StoreBroadcast(d)
           \/ ServeStore
           \/ Elsewhere
  BY DEF Next, LoopStep, Elsewhere

LEMMA ElsewhereKeepsStore ==
    ASSUME Elsewhere PROVE UNCHANGED storeVars
  BY DEF Elsewhere, Cleanup, CompleteWaiter, EndCancelled, Retry, Answer, LoseRequest, LoseReply

\* The store keeps its type.
LEMMA StoreStep ==
    ASSUME StoreInv, SyncInv, [Next]_vars PROVE StoreInv'
<1> USE BatchSyncAssumption
<1>1. CASE \E d \in Digest, p \in Peer : StartSynchronize(d, p)
  <2>1. PICK d \in Digest, p \in Peer : StartSynchronize(d, p)
    BY <1>1
  <2>2. Read(Me, d) /\ Me \in Reader
    BY <2>1 DEF StartSynchronize, Me
  <2>3. commands' \in Seq(Command) /\ Len(commands') <= StoreCap
    BY <2>2, EnqueueKeeps, CallsAreCommands DEF Read, StoreInv
  <2> QED BY <2>2, <2>3 DEF Read, StoreInv
<1>2. CASE EndSynchronize
  BY <1>2 DEF EndSynchronize, EndRead, StoreInv
<1>3. CASE \E i \in Waiter : PollWaiter(i)
  <2>1. PICK i \in Waiter : PollWaiter(i)
    BY <1>3
  <2>2. waiter[i].digest \in Key
    BY <2>1 DEF PollWaiter, SyncInv
  <2>3. NotifyRead(i, waiter[i].digest)
    BY <2>1 DEF PollWaiter
  <2>4. commands' \in Seq(Command) /\ Len(commands') <= StoreCap
    BY <2>2, <2>3, EnqueueKeeps, CallsAreCommands DEF NotifyRead, StoreInv
  <2> QED BY <2>3, <2>4 DEF NotifyRead, StoreInv
<1>4. CASE \E d \in Digest : StoreReply(d) \/ StoreBroadcast(d)
  <2>1. PICK d \in Digest : Write(d)
    BY <1>4 DEF StoreReply, StoreBroadcast
  <2>2. commands' \in Seq(Command) /\ Len(commands') <= StoreCap
    BY <2>1, EnqueueKeeps, CallsAreCommands DEF Write, StoreInv
  <2> QED BY <2>1, <2>2 DEF Write, StoreInv
<1>5. CASE ServeStore
  <2> DEFINE c == Head(commands)
  <2>1. c \in Command /\ commands' \in Seq(Command) /\ Len(commands') <= Len(commands)
    BY <1>5, ServeKeeps DEF ServeStore, Serve, StoreInv
  <2>2. Len(commands') <= StoreCap
    BY <2>1, StoreAssumption DEF StoreInv
  <2>3. CASE c.op = "Write" /\ ServeWrite(c.key)
    BY <2>1, <2>2, <2>3, CommandFields DEF ServeWrite, StoreInv
  <2>4. CASE c.op = "Read" /\ ServeRead(c.reader, c.key)
    BY <2>1, <2>2, <2>4, CommandFields DEF ServeRead, StoreInv
  <2>5. CASE c.op = "NotifyRead" /\ ServeNotifyRead(c.waiter, c.key)
    <3>1. c.key \in Key /\ c.waiter \in Waiter
      BY <2>1, <2>5, CommandFields
    <3>2. obligations' \in [Key -> SUBSET Waiter]
      BY <2>5, <3>1 DEF ServeNotifyRead, StoreInv
    <3>3. notified' \subseteq Waiter /\ db' = db /\ reply' = reply
      BY <2>5, <3>1 DEF ServeNotifyRead, StoreInv
    <3> QED BY <2>1, <2>2, <3>2, <3>3 DEF StoreInv
  <2> QED BY <1>5, <2>3, <2>4, <2>5 DEF ServeStore, Serve
<1>6. CASE Elsewhere
  BY <1>6, ElsewhereKeepsStore DEF storeVars, StoreInv
<1>7. CASE UNCHANGED vars
  BY <1>7 DEF vars, storeVars, StoreInv
<1> QED BY <1>1, <1>2, <1>3, <1>4, <1>5, <1>6, <1>7, StepCases

\* A waiter that was made goes on to its next state, and no other one changes.
WaiterMoves(i) ==
    /\ waiter[i].state \in {"made", "asked"}
    /\ \E next \in {"asked", "done"} : waiter' = [waiter EXCEPT ![i].state = next]
    /\ made' = made

\* Then the waiters keep their types and batches.
LEMMA MovesKeepTypes ==
    ASSUME SyncInv, NEW i \in Waiter, WaiterMoves(i)
    PROVE  /\ waiter' \in [Waiter -> [digest : Digest \cup {None},
                                      state : {"unmade", "made", "asked", "done"}]]
           /\ \A w \in Waiter : IF w <= made'
                                THEN waiter'[w].digest \in Digest /\ waiter'[w].state # "unmade"
                                ELSE waiter'[w].state = "unmade"
           /\ \A w \in Waiter : waiter'[w].digest = waiter[w].digest
           /\ \A w \in Waiter \ {i} : waiter'[w] = waiter[w]
<1>1. PICK next \in {"asked", "done"} : waiter' = [waiter EXCEPT ![i].state = next]
  BY DEF WaiterMoves
<1>2. waiter' \in [Waiter -> [digest : Digest \cup {None},
                             state : {"unmade", "made", "asked", "done"}]]
  BY <1>1 DEF SyncInv
<1>3. \A w \in Waiter \ {i} : waiter'[w] = waiter[w]
  BY <1>1 DEF SyncInv
<1>4. waiter'[i].digest = waiter[i].digest /\ waiter'[i].state = next
  BY <1>1 DEF SyncInv
<1>5. i <= made
  BY DEF WaiterMoves, SyncInv
<1> QED BY <1>2, <1>3, <1>4, <1>5 DEF SyncInv, WaiterMoves

\* The variables of the Synchronizer keep their types, and waiters are made
\* in order.
LEMMA SyncStep ==
    ASSUME StoreInv, SyncInv, [Next]_vars PROVE SyncInv'
<1> USE BatchSyncAssumption
<1>1. CASE \E d \in Digest, p \in Peer : StartSynchronize(d, p)
  BY <1>1 DEF StartSynchronize, SyncInv, AtSelect, netVars
<1>2. CASE EndSynchronize
  <2> DEFINE d == handling.digest
  <2> DEFINE i == made + 1
  <2>1. /\ d \in Digest /\ handling.target \in Peer
        /\ i \in Waiter /\ i \in 1 .. MaxRequests /\ made' = i /\ handling' = Idle
        /\ round' = round /\ cancelled' = cancelled /\ replies' = replies
        /\ waiter' = [waiter EXCEPT ![i] = [digest |-> d, state |-> "made"]]
        /\ pending' = [pending EXCEPT ![d] = [waiter |-> i, round |-> round]]
        /\ requests' \subseteq requests \cup {<<handling.target, d>>}
    BY <1>2 DEF EndSynchronize, SyncInv
  <2>2. /\ waiter' \in [Waiter -> [digest : Digest \cup {None},
                                   state : {"unmade", "made", "asked", "done"}]]
        /\ \A w \in Waiter : IF w <= made'
                             THEN waiter'[w].digest \in Digest /\ waiter'[w].state # "unmade"
                             ELSE waiter'[w].state = "unmade"
    BY <2>1 DEF SyncInv
  <2>3. /\ pending' \in [Digest -> [waiter : 0 .. MaxRequests, round : 0 .. MaxRound]]
        /\ \A e \in Digest : pending'[e].waiter <= made' /\ pending'[e].round <= round'
    BY <2>1 DEF SyncInv
  <2>4. requests' \subseteq Peer \X Digest /\ cancelled' \subseteq 1 .. made'
    BY <2>1 DEF SyncInv
  <2>5. AtSelect' /\ made' \in 0 .. MaxRequests
    BY <2>1 DEF AtSelect
  <2> QED BY <2>1, <2>2, <2>3, <2>4, <2>5 DEF SyncInv
<1>3. CASE \E i \in Waiter : PollWaiter(i)
  <2>1. PICK i \in Waiter : PollWaiter(i)
    BY <1>3
  <2>2. WaiterMoves(i)
    BY <2>1 DEF PollWaiter, WaiterMoves
  <2> QED BY <2>1, <2>2, MovesKeepTypes DEF PollWaiter, SyncInv, AtSelect, netVars
<1>4. CASE \E d \in Digest : StoreReply(d) \/ StoreBroadcast(d)
  <2>1. UNCHANGED <<syncVars, requests>> /\ replies' \subseteq replies
    BY <1>4 DEF StoreReply, StoreBroadcast, netVars
  <2> QED BY <2>1 DEF SyncInv, AtSelect, syncVars
<1>5. CASE ServeStore
  BY <1>5 DEF ServeStore, SyncInv, AtSelect, syncVars, netVars
<1>6. CASE Elsewhere
  <2>1. CASE \E r \in 1 .. MaxRound : Cleanup(r)
    <3>1. PICK r \in 1 .. MaxRound : Cleanup(r)
      BY <2>1
    <3>2. /\ pending' \in [Digest -> [waiter : 0 .. MaxRequests, round : 0 .. MaxRound]]
          /\ \A d \in Digest : pending'[d].waiter <= made' /\ pending'[d].round <= round'
      BY <3>1 DEF Cleanup, SyncInv, NotPending
    <3>3. \A d \in Digest : Expired(d, r) => pending[d].waiter \in 1 .. made
      BY DEF Expired, SyncInv
    <3>4. cancelled' \subseteq 1 .. made'
      <4>1. {pending[d].waiter : d \in {d \in Digest : Expired(d, r)}} \subseteq 1 .. made
        BY <3>3
      <4> QED BY <3>1, <4>1 DEF Cleanup, SyncInv
    <3>5. AtSelect' /\ round' \in 0 .. MaxRound
      BY <3>1 DEF Cleanup, AtSelect
    <3> QED BY <3>1, <3>2, <3>4, <3>5 DEF Cleanup, SyncInv, netVars
  <2>2. CASE \E i \in Waiter : CompleteWaiter(i)
    <3>1. PICK i \in Waiter : CompleteWaiter(i)
      BY <2>2
    <3>2. i <= made /\ waiter[i].digest \in Digest
      BY <3>1 DEF CompleteWaiter, SyncInv
    <3>3. WaiterMoves(i)
      BY <3>1 DEF CompleteWaiter, WaiterMoves
    <3>4. /\ pending' \in [Digest -> [waiter : 0 .. MaxRequests, round : 0 .. MaxRound]]
          /\ \A d \in Digest : pending'[d].waiter <= made' /\ pending'[d].round <= round'
      BY <3>1, <3>2 DEF CompleteWaiter, SyncInv, NotPending
    <3>5. cancelled' \subseteq 1 .. made'
      BY <3>1, <3>2 DEF CompleteWaiter, SyncInv
    <3> QED BY <3>1, <3>3, <3>4, <3>5, MovesKeepTypes DEF CompleteWaiter, SyncInv, AtSelect, netVars
  <2>3. CASE \E i \in Waiter : EndCancelled(i)
    <3>1. PICK i \in Waiter : EndCancelled(i)
      BY <2>3
    <3>2. WaiterMoves(i)
      BY <3>1 DEF EndCancelled, WaiterMoves
    <3> QED BY <3>1, <3>2, MovesKeepTypes DEF EndCancelled, SyncInv, AtSelect, netVars
  <2>4. CASE \E d \in Digest, p \in Peer : Retry(p, d) \/ Answer(p, d) \/ LoseRequest(p, d)
    <3>1. PICK d \in Digest, p \in Peer : Retry(p, d) \/ Answer(p, d) \/ LoseRequest(p, d)
      BY <2>4
    <3>2. /\ UNCHANGED syncVars
          /\ requests' \subseteq requests \cup {<<p, d>>} /\ replies' \subseteq replies \cup {d}
      BY <3>1 DEF Retry, Answer, LoseRequest
    <3> QED BY <3>2 DEF SyncInv, AtSelect, syncVars
  <2>5. CASE \E d \in Digest : LoseReply(d)
    BY <2>5 DEF LoseReply, SyncInv, AtSelect, syncVars
  <2> QED BY <1>6, <2>1, <2>2, <2>3, <2>4, <2>5 DEF Elsewhere
<1>7. CASE UNCHANGED vars
  BY <1>7 DEF vars, syncVars, netVars, SyncInv, AtSelect
<1> QED BY <1>1, <1>2, <1>3, <1>4, <1>5, <1>6, <1>7, StepCases

\* A waiter that was made stays made, for the same batch.
LEMMA BatchesStay ==
    ASSUME SyncInv, [Next]_vars
    PROVE  \A w \in 1 .. made : w \in 1 .. made' /\ waiter'[w].digest = waiter[w].digest
<1> USE BatchSyncAssumption
<1>1. CASE \E d \in Digest, p \in Peer : StartSynchronize(d, p)
  BY <1>1 DEF StartSynchronize
<1>2. CASE EndSynchronize
  <2>1. made' = made + 1 /\ made \in Nat
    BY <1>2 DEF EndSynchronize, SyncInv
  <2>2. \A w \in 1 .. made : waiter'[w] = waiter[w]
    BY <1>2, <2>1 DEF EndSynchronize, SyncInv
  <2> QED BY <2>1, <2>2
<1>3. CASE \E i \in Waiter : PollWaiter(i) \/ CompleteWaiter(i) \/ EndCancelled(i)
  <2>1. PICK i \in Waiter : PollWaiter(i) \/ CompleteWaiter(i) \/ EndCancelled(i)
    BY <1>3
  <2>2. WaiterMoves(i)
    BY <2>1 DEF PollWaiter, CompleteWaiter, EndCancelled, WaiterMoves
  <2>3. made' = made /\ 1 .. made \subseteq Waiter
    BY <2>2 DEF WaiterMoves, SyncInv
  <2> QED BY <2>2, <2>3, MovesKeepTypes
<1>4. CASE UNCHANGED <<made, waiter>>
  BY <1>4
<1>5. \/ \E d \in Digest, p \in Peer : StartSynchronize(d, p)
      \/ EndSynchronize
      \/ \E i \in Waiter : PollWaiter(i) \/ CompleteWaiter(i) \/ EndCancelled(i)
      \/ UNCHANGED <<made, waiter>>
  <2>1. CASE \E d \in Digest : StoreReply(d) \/ StoreBroadcast(d)
    BY <2>1 DEF StoreReply, StoreBroadcast, syncVars
  <2>2. CASE ServeStore
    BY <2>2 DEF ServeStore, syncVars
  <2>3. CASE \/ \E r \in 1 .. MaxRound : Cleanup(r)
             \/ \E d \in Digest : LoseReply(d)
    BY <2>3 DEF Cleanup, LoseReply, syncVars
  <2>4. CASE \E d \in Digest, p \in Peer : Retry(p, d) \/ Answer(p, d) \/ LoseRequest(p, d)
    BY <2>4 DEF Retry, Answer, LoseRequest, syncVars
  <2>5. CASE UNCHANGED vars
    BY <2>5 DEF vars, syncVars
  <2> QED BY <2>1, <2>2, <2>3, <2>4, <2>5, StepCases DEF Elsewhere
<1> QED BY <1>1, <1>2, <1>3, <1>4, <1>5

\* What CallsInv says of a call that is known already is not disturbed.
LEMMA CallsStay ==
    ASSUME SyncInv, [Next]_vars, NEW w, NEW k, CallOf(w, k)
    PROVE  CallOf(w, k)'
  BY BatchesStay DEF CallOf

\* A new command that is not a call of notify_read, or one for the batch of
\* its waiter, is right.
LEMMA NewCallStep ==
    ASSUME StoreInv, SyncInv, CallsInv, [Next]_vars,
           NEW c \in Command, Enqueue(c), UNCHANGED <<db, obligations, notified>>,
           c.op = "NotifyRead" => CallOf(c.waiter, c.key)
    PROVE  CallsInv'
<1>1. ASSUME NEW j \in DOMAIN commands', commands'[j].op = "NotifyRead"
      PROVE  CallOf(commands'[j].waiter, commands'[j].key)
  <2>1. (j \in DOMAIN commands /\ commands'[j] = commands[j]) \/ commands'[j] = c
    BY EnqueueKeeps DEF StoreInv
  <2> QED BY <1>1, <2>1 DEF CallsInv
<1>2. \A j \in DOMAIN commands' :
         commands'[j].op = "NotifyRead" =>
             commands'[j].waiter \in 1 .. made'
             /\ waiter'[commands'[j].waiter].digest = commands'[j].key
  BY <1>1, BatchesStay DEF CallOf
<1>3. \A k \in Key : \A w \in obligations'[k] : CallOf(w, k)'
  BY CallsStay DEF CallsInv
<1>4. \A w \in notified' : w \in 1 .. made' /\ waiter'[w].digest \in db'
  BY BatchesStay DEF CallsInv
<1> QED BY <1>2, <1>3, <1>4 DEF CallsInv, CallOf

\* Every call of notify_read asks for the right batch, and returns when it is
\* there.
LEMMA CallsStep ==
    ASSUME StoreInv, SyncInv, CallsInv, [Next]_vars PROVE CallsInv'
<1> USE BatchSyncAssumption
<1>1. CASE \E d \in Digest, p \in Peer : StartSynchronize(d, p)
  <2>1. PICK d \in Digest : Read(Me, d) /\ Me \in Reader
    BY <1>1 DEF StartSynchronize, Me
  <2> DEFINE c == [op |-> "Read", key |-> d, reader |-> Me]
  <2>2. c \in Command /\ c.op # "NotifyRead"
    BY <2>1, CallsAreCommands
  <2>3. Enqueue(c) /\ UNCHANGED <<db, obligations, notified>>
    BY <2>1 DEF Read
  <2> HIDE DEF c
  <2> QED BY <2>2, <2>3, NewCallStep
<1>2. CASE \E i \in Waiter : PollWaiter(i)
  <2>1. PICK i \in Waiter : PollWaiter(i)
    BY <1>2
  <2> DEFINE c == [op |-> "NotifyRead", key |-> waiter[i].digest, waiter |-> i]
  <2>2. i \in 1 .. made /\ waiter[i].digest \in Key
    BY <2>1 DEF PollWaiter, SyncInv
  <2>3. c \in Command /\ CallOf(c.waiter, c.key)
    BY <2>2, CallsAreCommands DEF CallOf
  <2>4. Enqueue(c) /\ UNCHANGED <<db, obligations, notified>>
    BY <2>1 DEF PollWaiter, NotifyRead
  <2> HIDE DEF c
  <2> QED BY <2>3, <2>4, NewCallStep
<1>3. CASE \E d \in Digest : StoreReply(d) \/ StoreBroadcast(d)
  <2>1. PICK d \in Digest : Write(d)
    BY <1>3 DEF StoreReply, StoreBroadcast
  <2> DEFINE c == [op |-> "Write", key |-> d]
  <2>2. c \in Command /\ c.op # "NotifyRead"
    BY <2>1, CallsAreCommands
  <2>3. Enqueue(c) /\ UNCHANGED <<db, obligations, notified>>
    BY <2>1 DEF Write
  <2> HIDE DEF c
  <2> QED BY <2>2, <2>3, NewCallStep
<1>4. CASE ServeStore
  <2> DEFINE c == Head(commands)
  <2>1. /\ c \in Command
        /\ c.op = "NotifyRead" => CallOf(c.waiter, c.key)
        /\ \A j \in DOMAIN commands' : j + 1 \in DOMAIN commands
                                       /\ commands'[j] = commands[j + 1]
    BY <1>4, ServeKeeps DEF ServeStore, Serve, StoreInv, CallsInv
  <2>2. \A j \in DOMAIN commands' :
           commands'[j].op = "NotifyRead" =>
             commands'[j].waiter \in 1 .. made'
             /\ waiter'[commands'[j].waiter].digest = commands'[j].key
    BY <2>1, BatchesStay DEF CallsInv, CallOf
  <2>3. made' = made /\ waiter' = waiter
    BY <1>4 DEF ServeStore, syncVars
  <2>4. CASE c.op = "Write" /\ ServeWrite(c.key)
    <3>1. c.key \in Key
      BY <2>1, CommandFields
    <3>2. \A k \in Key : \A w \in obligations'[k] : CallOf(w, k)
      BY <2>4, <3>1 DEF ServeWrite, CallsInv, StoreInv
    <3>3. \A w \in notified' : w \in 1 .. made /\ waiter[w].digest \in db'
      BY <2>4, <3>1 DEF ServeWrite, CallsInv, CallOf
    <3> QED BY <2>2, <2>3, <3>2, <3>3 DEF CallsInv, CallOf
  <2>5. CASE c.op = "Read" /\ ServeRead(c.reader, c.key)
    BY <2>2, <2>3, <2>5 DEF ServeRead, CallsInv, CallOf
  <2>6. CASE c.op = "NotifyRead" /\ ServeNotifyRead(c.waiter, c.key)
    <3>1. c.key \in Key /\ CallOf(c.waiter, c.key)
      BY <2>1, <2>6, CommandFields
    <3>2. \A k \in Key : \A w \in obligations'[k] : CallOf(w, k)
      BY <2>6, <3>1 DEF ServeNotifyRead, CallsInv, StoreInv
    <3>3. \A w \in notified' : w \in 1 .. made /\ waiter[w].digest \in db'
      BY <2>6, <3>1 DEF ServeNotifyRead, CallsInv, CallOf
    <3> QED BY <2>2, <2>3, <3>2, <3>3 DEF CallsInv, CallOf
  <2> QED BY <1>4, <2>4, <2>5, <2>6 DEF ServeStore, Serve
<1>5. CASE UNCHANGED <<commands, db, obligations, notified>>
  <2>1. \A j \in DOMAIN commands' :
           commands'[j].op = "NotifyRead" =>
             commands'[j].waiter \in 1 .. made'
             /\ waiter'[commands'[j].waiter].digest = commands'[j].key
    BY <1>5, BatchesStay DEF CallsInv, CallOf
  <2>2. \A k \in Key : \A w \in obligations'[k] : CallOf(w, k)'
    BY <1>5, CallsStay DEF CallsInv
  <2>3. \A w \in notified' : w \in 1 .. made' /\ waiter'[w].digest \in db'
    BY <1>5, BatchesStay DEF CallsInv
  <2> QED BY <2>1, <2>2, <2>3 DEF CallsInv, CallOf
<1>6. CASE EndSynchronize
  BY <1>5, <1>6 DEF EndSynchronize, EndRead
<1>7. CASE Elsewhere \/ UNCHANGED vars
  BY <1>5, <1>7, ElsewhereKeepsStore DEF vars, storeVars
<1> QED BY <1>1, <1>2, <1>3, <1>4, <1>6, <1>7, StepCases

-----------------------------------------------------------------------------
(***************************************************************************)
(* The safety properties.                                                  *)
(***************************************************************************)

\* A write settles all obligations of its key at once, and a key is looked up
\* and its obligation entered in one step of the task.
LEMMA WakeUpStep ==
    ASSUME StoreInv, SyncInv, NoLostWakeUp, [Next]_vars PROVE NoLostWakeUp'
<1>1. CASE ServeStore
  <2> DEFINE c == Head(commands)
  <2>1. c \in Command
    BY <1>1, ServeKeeps DEF ServeStore, Serve, StoreInv
  <2>2. c.key \in Key
    BY <2>1, CommandFields
  <2>3. CASE c.op = "Write" /\ ServeWrite(c.key)
    BY <2>2, <2>3 DEF ServeWrite, NoLostWakeUp, StoreInv
  <2>4. CASE c.op = "Read" /\ ServeRead(c.reader, c.key)
    BY <2>4 DEF ServeRead, NoLostWakeUp
  <2>5. CASE c.op = "NotifyRead" /\ ServeNotifyRead(c.waiter, c.key)
    BY <2>2, <2>5 DEF ServeNotifyRead, NoLostWakeUp, StoreInv
  <2> QED BY <1>1, <2>3, <2>4, <2>5 DEF ServeStore, Serve
<1>2. CASE UNCHANGED <<db, obligations>>
  BY <1>2 DEF NoLostWakeUp
<1>3. ServeStore \/ UNCHANGED <<db, obligations>>
  <2>1. CASE Elsewhere \/ UNCHANGED vars
    BY <2>1, ElsewhereKeepsStore DEF vars, storeVars
  <2>2. CASE \E d \in Digest, p \in Peer : StartSynchronize(d, p)
    BY <2>2 DEF StartSynchronize, Read
  <2>3. CASE EndSynchronize
    BY <2>3 DEF EndSynchronize, EndRead
  <2>4. CASE \E i \in Waiter : PollWaiter(i)
    BY <2>4 DEF PollWaiter, NotifyRead
  <2>5. CASE \E d \in Digest : StoreReply(d) \/ StoreBroadcast(d)
    BY <2>5 DEF StoreReply, StoreBroadcast, Write
  <2> QED BY <2>1, <2>2, <2>3, <2>4, <2>5, StepCases
<1> QED BY <1>1, <1>2, <1>3

\* A waiter is cancelled or ends only when its batch leaves `pending', and the
\* next request for the batch makes another waiter.
LEMMA WatchedStep ==
    ASSUME SyncInv, PendingIsWatched, [Next]_vars PROVE PendingIsWatched'
<1> USE BatchSyncAssumption
<1>1. CASE UNCHANGED <<waiter, cancelled, pending>>
  BY <1>1 DEF PendingIsWatched
<1>2. CASE EndSynchronize
  <2> DEFINE d == handling.digest
  <2> DEFINE i == made + 1
  <2>1. /\ d \in Digest /\ i \in Waiter /\ i \notin cancelled /\ cancelled' = cancelled
        /\ waiter' = [waiter EXCEPT ![i] = [digest |-> d, state |-> "made"]]
        /\ pending' = [pending EXCEPT ![d] = [waiter |-> i, round |-> round]]
    BY <1>2 DEF EndSynchronize, SyncInv
  <2>2. ASSUME NEW e \in Digest, pending'[e].waiter # 0
        PROVE  LET j == pending'[e].waiter
               IN waiter'[j].digest = e /\ waiter'[j].state \in {"made", "asked"}
                  /\ j \notin cancelled'
    <3>1. CASE e = d
      <4>1. pending'[e].waiter = i
        BY <2>1, <3>1 DEF SyncInv
      <4>2. waiter'[i] = [digest |-> d, state |-> "made"]
        BY <2>1 DEF SyncInv
      <4> QED BY <2>1, <3>1, <4>1, <4>2
    <3>2. CASE e # d
      <4>1. pending'[e] = pending[e] /\ pending[e].waiter \in 1 .. made
        BY <2>1, <2>2, <3>2 DEF SyncInv
      <4>2. waiter'[pending[e].waiter] = waiter[pending[e].waiter]
        BY <2>1, <4>1 DEF SyncInv
      <4> QED BY <2>1, <2>2, <4>1, <4>2 DEF PendingIsWatched
    <3> QED BY <3>1, <3>2
  <2> QED BY <2>2 DEF PendingIsWatched
<1>3. CASE \E i \in Waiter : PollWaiter(i)
  <2>1. PICK i \in Waiter : PollWaiter(i)
    BY <1>3
  <2>2. \A w \in Waiter : waiter'[w].digest = waiter[w].digest
                       /\ (waiter'[w].state = waiter[w].state \/ waiter'[w].state = "asked")
    BY <2>1 DEF PollWaiter, SyncInv
  <2>3. \A d \in Digest : pending[d].waiter # 0 => pending[d].waiter \in Waiter
    BY DEF SyncInv
  <2> QED BY <2>1, <2>2, <2>3 DEF PollWaiter, PendingIsWatched
<1>4. CASE \E r \in 1 .. MaxRound : Cleanup(r)
  <2>1. PICK r \in 1 .. MaxRound : Cleanup(r)
    BY <1>4
  <2>2. ASSUME NEW e \in Digest, pending'[e].waiter # 0
        PROVE  LET j == pending'[e].waiter
               IN waiter'[j].digest = e /\ waiter'[j].state \in {"made", "asked"}
                  /\ j \notin cancelled'
    <3>1. pending'[e] = pending[e] /\ ~ Expired(e, r) /\ waiter' = waiter
      BY <2>1, <2>2 DEF Cleanup, NotPending
    <3>2. \A d \in Digest : Expired(d, r) => pending[d].waiter # pending[e].waiter
      BY <2>2, <3>1 DEF PendingIsWatched, Expired
    <3>3. pending[e].waiter \notin {pending[d].waiter : d \in {d \in Digest : Expired(d, r)}}
      BY <3>2
    <3> QED BY <2>1, <2>2, <3>1, <3>3 DEF Cleanup, PendingIsWatched
  <2> QED BY <2>2 DEF PendingIsWatched
<1>5. CASE \E i \in Waiter : CompleteWaiter(i)
  <2>1. PICK i \in Waiter : CompleteWaiter(i)
    BY <1>5
  <2> DEFINE d == waiter[i].digest
  <2>2. /\ waiter' = [waiter EXCEPT ![i].state = "done"]
        /\ pending' = [pending EXCEPT ![d] = NotPending]
        /\ cancelled' = cancelled \cup ({pending[d].waiter} \ {0})
        /\ d \in Digest
    BY <2>1 DEF CompleteWaiter, SyncInv
  <2>3. ASSUME NEW e \in Digest, pending'[e].waiter # 0
        PROVE  LET j == pending'[e].waiter
               IN waiter'[j].digest = e /\ waiter'[j].state \in {"made", "asked"}
                  /\ j \notin cancelled'
    <3>1. e # d /\ pending'[e] = pending[e]
      BY <2>2, <2>3 DEF SyncInv, NotPending
    <3>2. pending[e].waiter # i /\ pending[e].waiter # pending[d].waiter
      BY <2>2, <2>3, <3>1 DEF PendingIsWatched
    <3>3. waiter'[pending[e].waiter] = waiter[pending[e].waiter]
      BY <2>2, <3>2 DEF SyncInv
    <3> QED BY <2>2, <2>3, <3>1, <3>2, <3>3 DEF PendingIsWatched
  <2> QED BY <2>3 DEF PendingIsWatched
<1>6. CASE \E i \in Waiter : EndCancelled(i)
  <2>1. PICK i \in Waiter : EndCancelled(i)
    BY <1>6
  <2>2. /\ i \in cancelled /\ pending' = pending /\ cancelled' = cancelled
        /\ \A w \in Waiter \ {i} : waiter'[w] = waiter[w]
    BY <2>1 DEF EndCancelled, SyncInv
  <2>3. \A d \in Digest : pending[d].waiter # 0 => pending[d].waiter \in Waiter \ {i}
    BY <2>2 DEF SyncInv, PendingIsWatched
  <2> QED BY <2>2, <2>3 DEF PendingIsWatched
<1>7. \/ EndSynchronize
      \/ \E i \in Waiter : PollWaiter(i) \/ CompleteWaiter(i) \/ EndCancelled(i)
      \/ \E r \in 1 .. MaxRound : Cleanup(r)
      \/ UNCHANGED <<waiter, cancelled, pending>>
  <2>1. CASE \E d \in Digest, p \in Peer : StartSynchronize(d, p)
    BY <2>1 DEF StartSynchronize
  <2>2. CASE \E d \in Digest : StoreReply(d) \/ StoreBroadcast(d) \/ LoseReply(d)
    BY <2>2 DEF StoreReply, StoreBroadcast, LoseReply, syncVars
  <2>3. CASE ServeStore
    BY <2>3 DEF ServeStore, syncVars
  <2>4. CASE \E d \in Digest, p \in Peer : Retry(p, d) \/ Answer(p, d) \/ LoseRequest(p, d)
    BY <2>4 DEF Retry, Answer, LoseRequest, syncVars
  <2>5. CASE UNCHANGED vars
    BY <2>5 DEF vars, syncVars
  <2> QED BY <2>1, <2>2, <2>3, <2>4, <2>5, StepCases DEF Elsewhere
<1> QED BY <1>1, <1>2, <1>3, <1>4, <1>5, <1>6, <1>7

\* The inductive invariant of the Synchronizer and the store (Synchronizer::run
\* and the task of Store::new).
THEOREM SafetyInvariant == Spec => []IInv
<1>1. Init => IInv
  BY InitEstablishes
<1>2. IInv /\ [Next]_vars => IInv'
  <2> SUFFICES ASSUME IInv, [Next]_vars PROVE IInv'
    OBVIOUS
  <2>1. StoreInv /\ SyncInv /\ CallsInv /\ NoLostWakeUp /\ PendingIsWatched
    BY DEF IInv
  <2>2. StoreInv' /\ SyncInv' /\ CallsInv'
    BY <2>1, StoreStep, SyncStep, CallsStep
  <2>3. NoLostWakeUp' /\ PendingIsWatched'
    BY <2>1, WakeUpStep, WatchedStep
  <2> QED BY <2>2, <2>3 DEF IInv
<1> QED BY <1>1, <1>2, PTL DEF Spec

\* The state of the store and of the Synchronizer keeps its type; the channel
\* of the store never holds more than its capacity.
THEOREM TypeCorrect == Spec => []TypeOK
<1>1. IInv => TypeOK
  <2> SUFFICES ASSUME IInv PROVE TypeOK
    OBVIOUS
  <2>1. StoreInv /\ SyncInv
    BY DEF IInv
  <2>2. StoreTypeOK
    <3>1. \A j \in DOMAIN commands : commands[j] \in Command
      BY <2>1 DEF StoreInv
    <3>2. \A j \in DOMAIN commands : commands[j].key \in Key
                                     /\ commands[j].op \in {"Write", "Read", "NotifyRead"}
      BY <3>1, CommandFields
    <3> QED BY <2>1, <3>2 DEF StoreInv, StoreTypeOK
  <2>3. \A i \in 1 .. made : waiter[i].digest \in Digest
                            /\ waiter[i].state \in {"made", "asked", "done"}
    BY <2>1, BatchSyncAssumption DEF SyncInv
  <2>4. \A d \in Digest : pending[d].waiter \in 0 .. made /\ pending[d].round \in 0 .. round
    BY <2>1 DEF SyncInv
  <2> QED BY <2>1, <2>2, <2>3, <2>4 DEF SyncInv, TypeOK, AtSelect
<1> QED BY <1>1, SafetyInvariant, PTL

\* Store: no call of notify_read waits for a key that has been written.
THEOREM NoWakeUpIsLost == Spec => []NoLostWakeUp
<1>1. IInv => NoLostWakeUp
  BY DEF IInv
<1> QED BY <1>1, SafetyInvariant, PTL

\* Synchronizer: the waiter of a pending batch was neither cancelled nor has
\* it ended, whatever was requested and cancelled before.
THEOREM PendingBatchesAreWatched == Spec => []PendingIsWatched
<1>1. IInv => PendingIsWatched
  BY DEF IInv
<1> QED BY <1>1, SafetyInvariant, PTL

\* Synchronizer: a batch that leaves `pending' is in the store, or gc_depth
\* rounds have passed since it was asked for.
THEOREM DroppedWhenOldOnly == Spec => OnlyDroppedWhenOld
<1> USE BatchSyncAssumption
<1> DEFINE Dropped(d) == (pending[d].waiter # 0 /\ pending'[d].waiter = 0) =>
                            d \in db \/ round' >= pending[d].round + GcDepth
<1>1. ASSUME IInv, [Next]_vars PROVE [\A d \in Digest : Dropped(d)]_vars
  <2>1. SyncInv /\ CallsInv
    BY <1>1 DEF IInv
  <2>2. CASE UNCHANGED pending
    BY <2>2
  <2>3. CASE \E d \in Digest : pending' = [pending EXCEPT ![d] = [waiter |-> made + 1, round |-> round]]
    BY <2>1, <2>3 DEF SyncInv
  <2>4. CASE \E r \in 1 .. MaxRound : Cleanup(r)
    <3>1. PICK r \in 1 .. MaxRound : Cleanup(r)
      BY <2>4
    <3>2. ASSUME NEW d \in Digest, pending[d].waiter # 0, pending'[d].waiter = 0
          PROVE  round' >= pending[d].round + GcDepth
      <4>1. Expired(d, r) /\ round' = r
        BY <3>1, <3>2 DEF Cleanup
      <4>2. pending[d].round \in Nat /\ r \in Nat
        BY <2>1 DEF SyncInv
      <4> QED BY <4>1, <4>2 DEF Expired
    <3> QED BY <3>2
  <2>5. CASE \E i \in Waiter : CompleteWaiter(i)
    <3>1. PICK i \in Waiter : CompleteWaiter(i)
      BY <2>5
    <3>2. waiter[i].digest \in db
      BY <2>1, <3>1 DEF CompleteWaiter, CallsInv
    <3>3. \A d \in Digest : d # waiter[i].digest => pending'[d] = pending[d]
      BY <2>1, <3>1 DEF CompleteWaiter, SyncInv
    <3> QED BY <3>2, <3>3
  <2>6. CASE EndSynchronize
    <3>1. handling.digest \in Digest
          /\ pending' = [pending EXCEPT ![handling.digest] = [waiter |-> made + 1, round |-> round]]
      BY <2>1, <2>6 DEF EndSynchronize, SyncInv
    <3> QED BY <2>3, <3>1
  <2>7. \/ UNCHANGED pending
        \/ EndSynchronize
        \/ \E r \in 1 .. MaxRound : Cleanup(r)
        \/ \E i \in Waiter : CompleteWaiter(i)
    <3>1. CASE \E d \in Digest, p \in Peer : StartSynchronize(d, p)
      BY <3>1 DEF StartSynchronize
    <3>2. CASE \E d \in Digest : StoreReply(d) \/ StoreBroadcast(d) \/ LoseReply(d)
      BY <3>2 DEF StoreReply, StoreBroadcast, LoseReply, syncVars
    <3>3. CASE ServeStore
      BY <3>3 DEF ServeStore, syncVars
    <3>4. CASE \E d \in Digest, p \in Peer : Retry(p, d) \/ Answer(p, d) \/ LoseRequest(p, d)
      BY <3>4 DEF Retry, Answer, LoseRequest, syncVars
    <3>5. CASE \E i \in Waiter : PollWaiter(i) \/ EndCancelled(i)
      BY <3>5 DEF PollWaiter, EndCancelled
    <3>6. CASE UNCHANGED vars
      BY <3>6 DEF vars, syncVars
    <3> QED BY <1>1, <3>1, <3>2, <3>3, <3>4, <3>5, <3>6, StepCases DEF Elsewhere
  <2> QED BY <2>2, <2>4, <2>5, <2>6, <2>7
<1>2. IInv /\ [Next]_vars => [\A d \in Digest : Dropped(d)]_vars
  BY <1>1
<1> QED BY <1>2, SafetyInvariant, PTL DEF Spec, OnlyDroppedWhenOld

-----------------------------------------------------------------------------
(***************************************************************************)
(* The store is atomic. First, sequences of commands: what was written     *)
(* before one of them, and what a read among them will return.             *)
(***************************************************************************)

IsWrite(c) == c.op = "Write"

IsRead(c, r) == c.op = "Read" /\ c.reader = r

IsCall(c, w) == c.op = "NotifyRead" /\ c.waiter = w

\* The operators of the refinement mapping for any channel s, database d and
\* replies.
WrittenIn(s, d, i) == d \cup {s[j].key : j \in {j \in 1 .. (i - 1) : s[j].op = "Write"}}

AnswerIn(s, d, replies_, r) ==
    IF replies_[r] # "called" THEN replies_[r]
    ELSE LET i == CHOOSE i \in DOMAIN s : s[i].op = "Read" /\ s[i].reader = r
         IN IF s[i].key \in WrittenIn(s, d, i) THEN "some" ELSE "none"

LEMMA MappingIs ==
    /\ Contents = WrittenIn(commands, db, Len(commands) + 1)
    /\ Contents' = WrittenIn(commands', db', Len(commands') + 1)
    /\ Answers = [r \in Reader |-> AnswerIn(commands, db, reply, r)]
    /\ Answers' = [r \in Reader |-> AnswerIn(commands', db', reply', r)]
<1>1. /\ Contents = WrittenIn(commands, db, Len(commands) + 1)
      /\ Contents' = WrittenIn(commands', db', Len(commands') + 1)
  BY DEF Contents, WrittenBefore, WrittenIn
<1>2. Answers = [r \in Reader |-> AnswerIn(commands, db, reply, r)]
  BY DEF Answers, AnswerOf, AnswerIn, WrittenBefore, WrittenIn
<1>3. Answers' = [r \in Reader |-> AnswerIn(commands', db', reply', r)]
  BY DEF Answers, AnswerOf, AnswerIn, WrittenBefore, WrittenIn
<1> QED BY <1>1, <1>2, <1>3

LEMMA AppendedCommand ==
    ASSUME NEW s \in Seq(Command), NEW c \in Command
    PROVE  /\ Append(s, c) \in Seq(Command) /\ Len(s) \in Nat
           /\ Len(Append(s, c)) = Len(s) + 1
           /\ DOMAIN s = 1 .. Len(s) /\ DOMAIN Append(s, c) = 1 .. (Len(s) + 1)
           /\ \A j \in 1 .. Len(s) : Append(s, c)[j] = s[j]
           /\ Append(s, c)[Len(s) + 1] = c
  OBVIOUS

LEMMA ServedCommand ==
    ASSUME NEW s \in Seq(Command), s # <<>>
    PROVE  /\ Len(s) \in Nat /\ Len(s) >= 1 /\ Len(Tail(s)) = Len(s) - 1
           /\ DOMAIN s = 1 .. Len(s) /\ DOMAIN Tail(s) = 1 .. (Len(s) - 1)
           /\ \A j \in 1 .. (Len(s) - 1) : Tail(s)[j] = s[j + 1]
           /\ Head(s) = s[1] /\ Head(s) \in Command
  OBVIOUS

\* A new command changes nothing before it.
LEMMA WrittenAppend ==
    ASSUME NEW s \in Seq(Command), NEW c \in Command, NEW d
    PROVE  /\ \A i \in 1 .. (Len(s) + 1) : WrittenIn(Append(s, c), d, i) = WrittenIn(s, d, i)
           /\ WrittenIn(Append(s, c), d, Len(s) + 2) =
                 WrittenIn(s, d, Len(s) + 1) \cup {x \in {c.key} : IsWrite(c)}
<1> DEFINE t == Append(s, c)
<1>1. /\ Len(s) \in Nat /\ \A j \in 1 .. Len(s) : t[j] = s[j]
      /\ t[Len(s) + 1] = c
  BY AppendedCommand
<1> HIDE DEF t
<1>2. ASSUME NEW i \in 1 .. (Len(s) + 1) PROVE WrittenIn(t, d, i) = WrittenIn(s, d, i)
  <2>1. \A j \in 1 .. (i - 1) : t[j] = s[j]
    BY <1>1
  <2> QED BY <2>1 DEF WrittenIn
<1>3. ASSUME NEW x
      PROVE  x \in WrittenIn(t, d, Len(s) + 2) <=>
                x \in WrittenIn(s, d, Len(s) + 1) \/ (IsWrite(c) /\ x = c.key)
  <2>1. 1 .. (Len(s) + 2 - 1) = 1 .. Len(s) \cup {Len(s) + 1}
        /\ 1 .. (Len(s) + 1 - 1) = 1 .. Len(s)
    BY <1>1
  <2>2. x \in WrittenIn(t, d, Len(s) + 2) <=>
           \/ x \in d
           \/ \E j \in 1 .. Len(s) \cup {Len(s) + 1} : t[j].op = "Write" /\ x = t[j].key
    BY <2>1 DEF WrittenIn
  <2>3. x \in WrittenIn(s, d, Len(s) + 1) <=>
           x \in d \/ \E j \in 1 .. Len(s) : s[j].op = "Write" /\ x = s[j].key
    BY <2>1 DEF WrittenIn
  <2> QED BY <1>1, <2>2, <2>3 DEF IsWrite
<1> QED BY <1>2, <1>3 DEF t

\* Serving the first command changes nothing for those behind it.
LEMMA WrittenTail ==
    ASSUME NEW s \in Seq(Command), s # <<>>, NEW d,
           NEW i \in 1 .. Len(s)
    PROVE  WrittenIn(Tail(s), d \cup {x \in {Head(s).key} : IsWrite(Head(s))}, i)
              = WrittenIn(s, d, i + 1)
<1> DEFINE t == Tail(s)
           h == Head(s)
           e == d \cup {x \in {h.key} : IsWrite(h)}
<1>1. /\ Len(s) \in Nat /\ \A j \in 1 .. (Len(s) - 1) : t[j] = s[j + 1]
      /\ h = s[1]
  BY ServedCommand
<1> HIDE DEF t, h
<1>2. ASSUME NEW x PROVE x \in WrittenIn(t, e, i) <=> x \in WrittenIn(s, d, i + 1)
  <2>1. x \in WrittenIn(t, e, i) <=>
           \/ x \in d \/ (IsWrite(h) /\ x = h.key)
           \/ \E j \in 1 .. (i - 1) : t[j].op = "Write" /\ x = t[j].key
    BY DEF WrittenIn
  <2>2. x \in WrittenIn(s, d, i + 1) <=>
           x \in d \/ \E j \in 1 .. (i + 1 - 1) : s[j].op = "Write" /\ x = s[j].key
    BY DEF WrittenIn
  <2>3. \A j \in 1 .. (i - 1) : t[j] = s[j + 1] /\ j + 1 \in 1 .. (i + 1 - 1)
    BY <1>1
  <2>4. \A j \in 1 .. (i + 1 - 1) : j = 1 \/ (j - 1 \in 1 .. (i - 1) /\ s[j] = t[j - 1])
    BY <1>1
  <2>5. 1 \in 1 .. (i + 1 - 1)
    BY <1>1
  <2> QED BY <1>1, <2>1, <2>2, <2>3, <2>4, <2>5 DEF IsWrite
<1> QED BY <1>2 DEF t, h

\* The answer to the one read of r in the channel.
LEMMA AnswerFound ==
    ASSUME NEW s, NEW d, NEW replies_, NEW r, replies_[r] = "called",
           NEW i \in DOMAIN s, IsRead(s[i], r),
           \A j \in DOMAIN s : IsRead(s[j], r) => j = i
    PROVE  AnswerIn(s, d, replies_, r) = IF s[i].key \in WrittenIn(s, d, i) THEN "some" ELSE "none"
<1>1. (CHOOSE j \in DOMAIN s : s[j].op = "Read" /\ s[j].reader = r) = i
  BY DEF IsRead
<1> QED BY <1>1 DEF AnswerIn

-----------------------------------------------------------------------------
(***************************************************************************)
(* What is in the channel: a read per reader that waits for its answer,    *)
(* and a call of notify_read per waiter that made one.                     *)
(***************************************************************************)

Asked(w) == waiter[w].state \in {"asked", "done"}

QueueInv ==
    /\ \A r \in Reader : \A i, j \in DOMAIN commands :
          IsRead(commands[i], r) /\ IsRead(commands[j], r) => i = j
    /\ \A r \in Reader : reply[r] = "called" <=> \E i \in DOMAIN commands : IsRead(commands[i], r)
    /\ \A w \in Waiter : \A i, j \in DOMAIN commands :
          IsCall(commands[i], w) /\ IsCall(commands[j], w) => i = j
    /\ \A w \in Waiter : \A i \in DOMAIN commands : IsCall(commands[i], w) =>
          Asked(w) /\ \A k \in Key : w \notin obligations[k]
    /\ \A w \in Waiter : (w \in notified \/ \E k \in Key : w \in obligations[k]) => Asked(w)

LEMMA QueueInit == Init => QueueInv
  BY DEF Init, StoreInit, QueueInv

\* Who has asked stays so.
LEMMA AskedStays ==
    ASSUME SyncInv, [Next]_vars
    PROVE  \A w \in Waiter : waiter[w].state \in {"asked", "done"} =>
                                waiter'[w].state \in {"asked", "done"}
<1> SUFFICES ASSUME NEW w \in Waiter, waiter[w].state \in {"asked", "done"}
             PROVE  waiter'[w].state \in {"asked", "done"}
  OBVIOUS
<1> USE BatchSyncAssumption
<1>1. CASE EndSynchronize
  <2>1. waiter' = [waiter EXCEPT ![made + 1] = [digest |-> handling.digest, state |-> "made"]]
    BY <1>1 DEF EndSynchronize
  <2>2. w # made + 1
    BY DEF SyncInv
  <2> QED BY <2>1, <2>2 DEF SyncInv
<1>2. ASSUME NEW i \in Waiter, PollWaiter(i) \/ CompleteWaiter(i) \/ EndCancelled(i)
      PROVE  waiter'[w].state \in {"asked", "done"}
  <2>1. PICK next \in {"asked", "done"} : waiter' = [waiter EXCEPT ![i].state = next]
    BY <1>2 DEF PollWaiter, CompleteWaiter, EndCancelled
  <2> QED BY <2>1 DEF SyncInv
<1>3. CASE waiter' = waiter
  BY <1>3
<1>4. \/ EndSynchronize
      \/ \E i \in Waiter : PollWaiter(i) \/ CompleteWaiter(i) \/ EndCancelled(i)
      \/ waiter' = waiter
  BY DEF Next, LoopStep, StartSynchronize, Cleanup, Retry, Answer, LoseRequest, LoseReply,
         StoreReply, StoreBroadcast, ServeStore, syncVars, vars
<1> QED BY <1>1, <1>2, <1>3, <1>4

\* A reader has one command in the channel at a time, and a waiter calls once.
LEMMA QueueEnqueue ==
    ASSUME StoreInv, QueueInv, NEW c \in Command, Enqueue(c),
           UNCHANGED <<obligations, notified>>,
           IF c.op = "Read"
           THEN reply[c.reader] # "called" /\ reply' = [reply EXCEPT ![c.reader] = "called"]
           ELSE reply' = reply,
           c.op = "NotifyRead" => ~ Asked(c.waiter) /\ waiter'[c.waiter].state = "asked",
           \A w \in Waiter : waiter[w].state \in {"asked", "done"} =>
                                waiter'[w].state \in {"asked", "done"}
    PROVE  QueueInv'
<1> DEFINE n == Len(commands)
<1>1. /\ n \in Nat /\ DOMAIN commands = 1 .. n /\ DOMAIN commands' = 1 .. (n + 1)
      /\ \A j \in 1 .. n : commands'[j] = commands[j]
      /\ commands'[n + 1] = c
  <2>1. commands' = Append(commands, c) /\ commands \in Seq(Command)
    BY DEF Enqueue, StoreInv
  <2> QED BY <2>1, AppendedCommand
<1> HIDE DEF n
<1>2. \A j \in DOMAIN commands' : (j \in DOMAIN commands /\ commands'[j] = commands[j])
                                  \/ (j = n + 1 /\ commands'[j] = c)
  BY <1>1
<1>3. \A j \in DOMAIN commands : j \in DOMAIN commands' /\ commands'[j] = commands[j]
  BY <1>1
<1>4. n + 1 \in DOMAIN commands' /\ commands'[n + 1] = c
  BY <1>1
<1>5. ASSUME NEW r \in Reader
      PROVE  /\ \A i, j \in DOMAIN commands' :
                   IsRead(commands'[i], r) /\ IsRead(commands'[j], r) => i = j
             /\ reply'[r] = "called" <=> \E i \in DOMAIN commands' : IsRead(commands'[i], r)
  <2>1. reply[r] = "called" <=> \E i \in DOMAIN commands : IsRead(commands[i], r)
    BY DEF QueueInv
  <2>2. CASE IsRead(c, r)
    <3>1. reply[r] # "called" /\ reply'[r] = "called"
      BY <2>2 DEF IsRead, StoreInv
    <3>2. \A i \in DOMAIN commands : ~ IsRead(commands[i], r)
      BY <2>1, <3>1
    <3> QED BY <1>2, <1>4, <2>2, <3>1, <3>2
  <2>3. CASE ~ IsRead(c, r)
    <3>1. reply'[r] = reply[r]
      BY <2>3 DEF IsRead, StoreInv
    <3>2. \A i, j \in DOMAIN commands : IsRead(commands[i], r) /\ IsRead(commands[j], r) => i = j
      BY DEF QueueInv
    <3> QED BY <1>2, <1>3, <2>1, <2>3, <3>1, <3>2
  <2> QED BY <2>2, <2>3
<1>6. ASSUME NEW w \in Waiter
      PROVE  /\ \A i, j \in DOMAIN commands' :
                   IsCall(commands'[i], w) /\ IsCall(commands'[j], w) => i = j
             /\ \A i \in DOMAIN commands' : IsCall(commands'[i], w) =>
                   /\ waiter'[w].state \in {"asked", "done"}
                   /\ \A k \in Key : w \notin obligations'[k]
  <2>1. \A i \in DOMAIN commands : IsCall(commands[i], w) =>
           Asked(w) /\ \A k \in Key : w \notin obligations[k]
    BY DEF QueueInv
  <2>2. CASE IsCall(c, w)
    <3>1. ~ Asked(w) /\ waiter'[w].state = "asked"
      BY <2>2 DEF IsCall
    <3>2. \A i \in DOMAIN commands : ~ IsCall(commands[i], w)
      BY <2>1, <3>1
    <3>3. \A k \in Key : w \notin obligations[k]
      BY <3>1 DEF QueueInv
    <3> QED BY <1>2, <1>4, <2>2, <3>1, <3>2, <3>3
  <2>3. CASE ~ IsCall(c, w)
    <3>1. \A i, j \in DOMAIN commands : IsCall(commands[i], w) /\ IsCall(commands[j], w) => i = j
      BY DEF QueueInv
    <3> QED BY <1>2, <2>1, <2>3, <3>1 DEF Asked
  <2> QED BY <2>2, <2>3
<1>7. \A w \in Waiter : (w \in notified' \/ \E k \in Key : w \in obligations'[k]) =>
         waiter'[w].state \in {"asked", "done"}
  BY DEF QueueInv, Asked
<1> QED BY <1>5, <1>6, <1>7 DEF QueueInv, Asked

\* The task takes the first command; an obligation it enters is that of the
\* command.
LEMMA QueueServe ==
    ASSUME StoreInv, QueueInv, Serve, waiter' = waiter
    PROVE  QueueInv'
<1> DEFINE n == Len(commands)
           c == Head(commands)
<1>1. /\ n \in Nat /\ n >= 1 /\ DOMAIN commands = 1 .. n /\ DOMAIN commands' = 1 .. (n - 1)
      /\ \A j \in 1 .. (n - 1) : commands'[j] = commands[j + 1]
      /\ c = commands[1] /\ c \in Command
  <2>1. commands' = Tail(commands) /\ commands \in Seq(Command) /\ commands # <<>>
    BY DEF Serve, StoreInv
  <2> QED BY <2>1, ServedCommand
<1>2. \/ c.op = "Write" /\ ServeWrite(c.key)
      \/ c.op = "Read" /\ ServeRead(c.reader, c.key)
      \/ c.op = "NotifyRead" /\ ServeNotifyRead(c.waiter, c.key)
  BY DEF Serve
<1> HIDE DEF n, c
<1>3. \A j \in DOMAIN commands' : j + 1 \in DOMAIN commands /\ commands'[j] = commands[j + 1]
  BY <1>1
<1>4. \A j \in DOMAIN commands :
         (j = 1 /\ commands[j] = c) \/ (j - 1 \in DOMAIN commands' /\ commands'[j - 1] = commands[j])
  BY <1>1
<1>5. 1 \in DOMAIN commands /\ commands[1] = c
  BY <1>1
<1>6. /\ DOMAIN commands \subseteq Nat /\ DOMAIN commands' \subseteq Nat
      /\ \A j \in DOMAIN commands' : j + 1 # 1
      /\ \A i, j \in DOMAIN commands' : i + 1 = j + 1 => i = j
  BY <1>1
<1>7. ASSUME NEW r \in Reader
      PROVE  /\ \A i, j \in DOMAIN commands' :
                   IsRead(commands'[i], r) /\ IsRead(commands'[j], r) => i = j
             /\ reply'[r] = "called" <=> \E i \in DOMAIN commands' : IsRead(commands'[i], r)
  <2>1. /\ \A i, j \in DOMAIN commands : IsRead(commands[i], r) /\ IsRead(commands[j], r) => i = j
        /\ reply[r] = "called" <=> \E i \in DOMAIN commands : IsRead(commands[i], r)
    BY DEF QueueInv
  <2>2. \A i, j \in DOMAIN commands' :
           IsRead(commands'[i], r) /\ IsRead(commands'[j], r) => i = j
    BY <1>3, <1>6, <2>1
  <2>3. CASE IsRead(c, r)
    <3>1. reply'[r] # "called"
      BY <1>2, <2>3 DEF IsRead, ServeRead, StoreInv
    <3>2. \A i \in DOMAIN commands' : ~ IsRead(commands'[i], r)
      BY <1>3, <1>5, <1>6, <2>1, <2>3
    <3> QED BY <2>2, <3>1, <3>2
  <2>4. CASE ~ IsRead(c, r)
    <3>1. reply'[r] = reply[r]
      BY <1>2, <2>4 DEF IsRead, ServeRead, ServeWrite, ServeNotifyRead, StoreInv
    <3>2. (\E i \in DOMAIN commands : IsRead(commands[i], r))
             <=> \E i \in DOMAIN commands' : IsRead(commands'[i], r)
      BY <1>3, <1>4, <2>4
    <3> QED BY <2>1, <2>2, <3>1, <3>2
  <2> QED BY <2>3, <2>4
<1>8. ASSUME NEW w \in Waiter
      PROVE  /\ \A i, j \in DOMAIN commands' :
                   IsCall(commands'[i], w) /\ IsCall(commands'[j], w) => i = j
             /\ \A i \in DOMAIN commands' : IsCall(commands'[i], w) =>
                   Asked(w) /\ \A k \in Key : w \notin obligations'[k]
             /\ (w \in notified' \/ \E k \in Key : w \in obligations'[k]) => Asked(w)
  <2>1. /\ \A i, j \in DOMAIN commands : IsCall(commands[i], w) /\ IsCall(commands[j], w) => i = j
        /\ \A i \in DOMAIN commands : IsCall(commands[i], w) =>
              Asked(w) /\ \A k \in Key : w \notin obligations[k]
        /\ (w \in notified \/ \E k \in Key : w \in obligations[k]) => Asked(w)
    BY DEF QueueInv
  <2>2. \A k \in Key : w \in obligations'[k] => w \in obligations[k] \/ IsCall(c, w)
    BY <1>1, <1>2, CommandFields DEF IsCall, ServeRead, ServeWrite, ServeNotifyRead, StoreInv
  <2>3. w \in notified' => w \in notified \/ (\E k \in Key : w \in obligations[k]) \/ IsCall(c, w)
    BY <1>1, <1>2, CommandFields DEF IsCall, ServeRead, ServeWrite, ServeNotifyRead, StoreInv
  <2>4. \A i \in DOMAIN commands' : IsCall(commands'[i], w) => ~ IsCall(c, w)
    BY <1>3, <1>5, <1>6, <2>1
  <2>5. \A i, j \in DOMAIN commands' : IsCall(commands'[i], w) /\ IsCall(commands'[j], w) => i = j
    BY <1>3, <1>6, <2>1
  <2>6. \A i \in DOMAIN commands' : IsCall(commands'[i], w) =>
                   Asked(w) /\ \A k \in Key : w \notin obligations'[k]
    BY <1>3, <2>1, <2>2, <2>4
  <2>7. (w \in notified' \/ \E k \in Key : w \in obligations'[k]) => Asked(w)
    BY <1>5, <2>1, <2>2, <2>3
  <2> QED BY <2>5, <2>6, <2>7
<1> QED BY <1>7, <1>8 DEF QueueInv, Asked

LEMMA QueueStep ==
    ASSUME StoreInv, SyncInv, QueueInv, [Next]_vars PROVE QueueInv'
<1> USE BatchSyncAssumption
<1> DEFINE Stays == \A w \in Waiter : waiter[w].state \in {"asked", "done"} =>
                                         waiter'[w].state \in {"asked", "done"}
<1>0. Stays
  BY AskedStays
<1>1. CASE \E d \in Digest, p \in Peer : StartSynchronize(d, p)
  <2>1. PICK d \in Digest : Read(Me, d) /\ Me \in Reader
    BY <1>1 DEF StartSynchronize, Me
  <2> DEFINE c == [op |-> "Read", key |-> d, reader |-> Me]
  <2>2. c \in Command /\ c.op = "Read" /\ c.reader = Me
    BY <2>1, CallsAreCommands
  <2>3. /\ Enqueue(c) /\ UNCHANGED <<obligations, notified>>
        /\ reply[Me] # "called" /\ reply' = [reply EXCEPT ![Me] = "called"]
    BY <2>1 DEF Read
  <2> HIDE DEF c
  <2> QED BY <1>0, <2>2, <2>3, QueueEnqueue
<1>2. CASE \E i \in Waiter : PollWaiter(i)
  <2>1. PICK i \in Waiter : PollWaiter(i)
    BY <1>2
  <2> DEFINE c == [op |-> "NotifyRead", key |-> waiter[i].digest, waiter |-> i]
  <2>2. waiter[i].digest \in Key
    BY <2>1 DEF PollWaiter, SyncInv
  <2>3. c \in Command /\ c.op = "NotifyRead" /\ c.waiter = i
    BY <2>2, CallsAreCommands
  <2>4. Enqueue(c) /\ UNCHANGED <<obligations, notified, reply>>
    BY <2>1 DEF PollWaiter, NotifyRead
  <2>5. ~ Asked(i) /\ waiter'[i].state = "asked"
    BY <2>1 DEF PollWaiter, Asked, SyncInv
  <2> HIDE DEF c
  <2> QED BY <1>0, <2>3, <2>4, <2>5, QueueEnqueue
<1>3. CASE \E d \in Digest : StoreReply(d) \/ StoreBroadcast(d)
  <2>1. PICK d \in Digest : Write(d)
    BY <1>3 DEF StoreReply, StoreBroadcast
  <2> DEFINE c == [op |-> "Write", key |-> d]
  <2>2. c \in Command /\ c.op = "Write"
    BY <2>1, CallsAreCommands
  <2>3. Enqueue(c) /\ UNCHANGED <<obligations, notified, reply>>
    BY <2>1 DEF Write
  <2> HIDE DEF c
  <2> QED BY <1>0, <2>2, <2>3, QueueEnqueue
<1>4. CASE ServeStore
  BY <1>4, QueueServe DEF ServeStore, syncVars
<1>5. CASE EndSynchronize
  <2>1. /\ reply[Me] \in {"some", "none"} /\ reply' = [reply EXCEPT ![Me] = "idle"]
        /\ UNCHANGED <<commands, obligations, notified>>
    BY <1>5 DEF EndSynchronize, EndRead
  <2>2. \A r \in Reader : reply'[r] = "called" <=> reply[r] = "called"
    BY <2>1 DEF StoreInv
  <2> QED BY <1>0, <2>1, <2>2 DEF QueueInv, Asked
<1>6. CASE Elsewhere \/ UNCHANGED vars
  <2>1. UNCHANGED storeVars
    BY <1>6, ElsewhereKeepsStore DEF vars
  <2> QED BY <1>0, <2>1 DEF QueueInv, Asked, storeVars
<1> QED BY <1>1, <1>2, <1>3, <1>4, <1>5, <1>6, StepCases

-----------------------------------------------------------------------------
(***************************************************************************)
(* The steps of the store implement those of the atomic store.             *)
(***************************************************************************)

\* The calls of notify_read that did not return, one by one.
LEMMA WaitsAre ==
    /\ \A x : x \in Waits <=>
          \/ \E j \in DOMAIN commands :
                commands[j].op = "NotifyRead" /\ x = <<commands[j].waiter, commands[j].key>>
          \/ \E k \in Key : \E w \in obligations[k] : x = <<w, k>>
    /\ \A x : x \in Waits' <=>
          \/ \E j \in DOMAIN commands' :
                commands'[j].op = "NotifyRead" /\ x = <<commands'[j].waiter, commands'[j].key>>
          \/ \E k \in Key : \E w \in obligations'[k] : x = <<w, k>>
<1>1. ASSUME NEW x
      PROVE  x \in Waits <=>
          \/ \E j \in DOMAIN commands :
                commands[j].op = "NotifyRead" /\ x = <<commands[j].waiter, commands[j].key>>
          \/ \E k \in Key : \E w \in obligations[k] : x = <<w, k>>
  <2>1. x \in UNION {obligations[k] \X {k} : k \in Key} <=>
           \E k \in Key : \E w \in obligations[k] : x = <<w, k>>
    OBVIOUS
  <2>2. x \in {<<c.waiter, c.key>> : c \in CallsInChannel} <=>
           \E j \in DOMAIN commands :
                commands[j].op = "NotifyRead" /\ x = <<commands[j].waiter, commands[j].key>>
    BY DEF CallsInChannel
  <2> QED BY <2>1, <2>2 DEF Waits
<1>2. ASSUME NEW x
      PROVE  x \in Waits' <=>
          \/ \E j \in DOMAIN commands' :
                commands'[j].op = "NotifyRead" /\ x = <<commands'[j].waiter, commands'[j].key>>
          \/ \E k \in Key : \E w \in obligations'[k] : x = <<w, k>>
  <2>1. x \in UNION {obligations'[k] \X {k} : k \in Key} <=>
           \E k \in Key : \E w \in obligations'[k] : x = <<w, k>>
    OBVIOUS
  <2>2. x \in {<<c.waiter, c.key>> : c \in CallsInChannel'} <=>
           \E j \in DOMAIN commands' :
                commands'[j].op = "NotifyRead" /\ x = <<commands'[j].waiter, commands'[j].key>>
    BY DEF CallsInChannel
  <2> QED BY <2>1, <2>2 DEF Waits
<1> QED BY <1>1, <1>2

\* A call takes effect when it enters the channel: a write at once, and a read
\* gets the answer that the contents now say.
LEMMA EnqueueMapped ==
    ASSUME StoreInv, QueueInv, QueueInv', NEW c \in Command, Enqueue(c),
           UNCHANGED <<db, obligations>>,
           IF c.op = "Read"
           THEN reply[c.reader] # "called" /\ reply' = [reply EXCEPT ![c.reader] = "called"]
           ELSE reply' = reply
    PROVE  /\ Contents' = Contents \cup {x \in {c.key} : IsWrite(c)}
           /\ IF c.op = "Read"
              THEN Answers' = [Answers EXCEPT ![c.reader] =
                                  IF c.key \in Contents THEN "some" ELSE "none"]
              ELSE Answers' = Answers
           /\ Waits' = Waits \cup (IF c.op = "NotifyRead" THEN {<<c.waiter, c.key>>} ELSE {})
<1> DEFINE n == Len(commands)
<1>1. commands' = Append(commands, c) /\ commands \in Seq(Command)
  BY DEF Enqueue, StoreInv
<1>2. /\ n \in Nat /\ Len(commands') = n + 1
      /\ DOMAIN commands = 1 .. n /\ DOMAIN commands' = 1 .. (n + 1)
      /\ \A j \in 1 .. n : commands'[j] = commands[j]
      /\ commands'[n + 1] = c
  BY <1>1, AppendedCommand
<1>3. /\ \A i \in 1 .. (n + 1) : WrittenIn(commands', db, i) = WrittenIn(commands, db, i)
      /\ WrittenIn(commands', db, n + 2)
            = WrittenIn(commands, db, n + 1) \cup {x \in {c.key} : IsWrite(c)}
  BY <1>1, WrittenAppend
<1> HIDE DEF n
<1>4. Contents = WrittenIn(commands, db, n + 1)
  BY MappingIs DEF n
<1>5. Contents' = WrittenIn(commands', db, n + 2)
  <2>1. n + 1 + 1 = n + 2 /\ db' = db
    BY <1>2
  <2> QED BY <1>2, <2>1, MappingIs
<1>6. ASSUME NEW r \in Reader, ~ IsRead(c, r)
      PROVE  AnswerIn(commands', db', reply', r) = AnswerIn(commands, db, reply, r)
  <2>1. reply'[r] = reply[r] /\ db' = db
    BY <1>6 DEF IsRead, StoreInv
  <2>2. CASE reply[r] # "called"
    BY <2>1, <2>2 DEF AnswerIn
  <2>3. CASE reply[r] = "called"
    <3>1. PICK i \in DOMAIN commands : IsRead(commands[i], r)
      BY <2>3 DEF QueueInv
    <3>2. i \in 1 .. (n + 1) /\ i \in DOMAIN commands' /\ commands'[i] = commands[i]
      BY <1>2, <3>1
    <3>3. /\ \A j \in DOMAIN commands : IsRead(commands[j], r) => j = i
          /\ \A j \in DOMAIN commands' : IsRead(commands'[j], r) => j = i
      BY <3>1, <3>2 DEF QueueInv
    <3>4. AnswerIn(commands, db, reply, r) =
             IF commands[i].key \in WrittenIn(commands, db, i) THEN "some" ELSE "none"
      BY <2>3, <3>1, <3>3, AnswerFound
    <3>5. AnswerIn(commands', db', reply', r) =
             IF commands'[i].key \in WrittenIn(commands', db', i) THEN "some" ELSE "none"
      BY <2>1, <2>3, <3>1, <3>2, <3>3, AnswerFound
    <3> QED BY <1>3, <2>1, <3>2, <3>4, <3>5
  <2> QED BY <2>2, <2>3
<1>7. ASSUME NEW r \in Reader, IsRead(c, r)
      PROVE  AnswerIn(commands', db', reply', r) =
                IF c.key \in Contents THEN "some" ELSE "none"
  <2>1. reply'[r] = "called" /\ db' = db
    BY <1>7 DEF IsRead, StoreInv
  <2>2. n + 1 \in DOMAIN commands' /\ commands'[n + 1] = c
    BY <1>2
  <2>3. \A j \in DOMAIN commands' : IsRead(commands'[j], r) => j = n + 1
    BY <1>7, <2>2 DEF QueueInv
  <2>4. AnswerIn(commands', db', reply', r) =
             IF c.key \in WrittenIn(commands', db', n + 1) THEN "some" ELSE "none"
    BY <1>7, <2>1, <2>2, <2>3, AnswerFound
  <2>5. WrittenIn(commands', db', n + 1) = Contents
    BY <1>2, <1>3, <1>4, <2>1
  <2> QED BY <2>4, <2>5
<1>8. IF c.op = "Read"
      THEN Answers' = [Answers EXCEPT ![c.reader] = IF c.key \in Contents THEN "some" ELSE "none"]
      ELSE Answers' = Answers
  <2>1. /\ Answers = [r \in Reader |-> AnswerIn(commands, db, reply, r)]
        /\ Answers' = [r \in Reader |-> AnswerIn(commands', db', reply', r)]
    BY MappingIs
  <2>2. CASE c.op = "Read"
    <3>1. IsRead(c, c.reader) /\ \A r \in Reader : r # c.reader => ~ IsRead(c, r)
      BY <2>2 DEF IsRead
    <3>2. \A r \in Reader : Answers'[r] = IF r = c.reader
                                         THEN IF c.key \in Contents THEN "some" ELSE "none"
                                         ELSE Answers[r]
      BY <1>6, <1>7, <2>1, <3>1
    <3> QED BY <2>1, <2>2, <3>2
  <2>3. CASE c.op # "Read"
    <3>1. \A r \in Reader : ~ IsRead(c, r)
      BY <2>3 DEF IsRead
    <3>2. \A r \in Reader : AnswerIn(commands', db', reply', r) = AnswerIn(commands, db, reply, r)
      BY <1>6, <3>1
    <3> QED BY <2>1, <2>3, <3>2
  <2> QED BY <2>2, <2>3
<1>9. Waits' = Waits \cup (IF c.op = "NotifyRead" THEN {<<c.waiter, c.key>>} ELSE {})
  <2>1. \A j \in DOMAIN commands' : (j \in DOMAIN commands /\ commands'[j] = commands[j])
                                    \/ commands'[j] = c
    BY <1>2
  <2>2. \A j \in DOMAIN commands : j \in DOMAIN commands' /\ commands'[j] = commands[j]
    BY <1>2
  <2>3. \E j \in DOMAIN commands' : commands'[j] = c
    BY <1>2
  <2>4. ASSUME NEW x
        PROVE  x \in Waits' <=> x \in Waits \/ (c.op = "NotifyRead" /\ x = <<c.waiter, c.key>>)
    <3>1. (\E j \in DOMAIN commands' :
             commands'[j].op = "NotifyRead" /\ x = <<commands'[j].waiter, commands'[j].key>>)
          <=> \/ \E j \in DOMAIN commands :
                   commands[j].op = "NotifyRead" /\ x = <<commands[j].waiter, commands[j].key>>
              \/ c.op = "NotifyRead" /\ x = <<c.waiter, c.key>>
      BY <2>1, <2>2, <2>3
    <3> QED BY <3>1, WaitsAre
  <2> QED BY <2>4
<1> QED BY <1>3, <1>4, <1>5, <1>8, <1>9

\* Serving a command changes nothing that the callers see but the answers to
\* calls of notify_read, whose key is there.
LEMMA ServeMapped ==
    ASSUME StoreInv, QueueInv, QueueInv', Serve
    PROVE  /\ Contents' = Contents
           /\ Answers' = Answers
           /\ \E told \in SUBSET {x \in Waits : x[2] \in Contents} :
                 Waits' = Waits \ told /\ notified' = notified \cup {x[1] : x \in told}
<1> DEFINE n == Len(commands)
           c == Head(commands)
<1>1. commands' = Tail(commands) /\ commands \in Seq(Command) /\ commands # <<>>
  BY DEF Serve, StoreInv
<1>2. /\ n \in Nat /\ n >= 1 /\ Len(commands') = n - 1
      /\ DOMAIN commands = 1 .. n /\ DOMAIN commands' = 1 .. (n - 1)
      /\ \A j \in 1 .. (n - 1) : commands'[j] = commands[j + 1]
      /\ c = commands[1] /\ c \in Command
  BY <1>1, ServedCommand
<1>3. \/ c.op = "Write" /\ ServeWrite(c.key)
      \/ c.op = "Read" /\ ServeRead(c.reader, c.key)
      \/ c.op = "NotifyRead" /\ ServeNotifyRead(c.waiter, c.key)
  BY DEF Serve
<1>4. db' = db \cup {x \in {c.key} : IsWrite(c)}
  BY <1>3 DEF ServeWrite, ServeRead, ServeNotifyRead, IsWrite
<1>5. \A i \in 1 .. n : WrittenIn(commands', db', i) = WrittenIn(commands, db, i + 1)
  BY <1>1, <1>4, WrittenTail
<1>6. Contents = WrittenIn(commands, db, n + 1)
  BY MappingIs
<1> HIDE DEF n, c
<1>7. Contents' = Contents
  <2>1. n \in 1 .. n /\ n - 1 + 1 = n
    BY <1>2
  <2>2. Contents' = WrittenIn(commands', db', n)
    BY <1>2, <2>1, MappingIs
  <2> QED BY <1>5, <1>6, <2>1, <2>2
<1>8. c.key \in Key /\ (c.op = "NotifyRead" => c.waiter \in Waiter)
  BY <1>2, CommandFields
<1>9. ASSUME NEW r \in Reader
      PROVE  AnswerIn(commands', db', reply', r) = AnswerIn(commands, db, reply, r)
  <2>1. CASE IsRead(c, r)
    <3>1. 1 \in DOMAIN commands /\ IsRead(commands[1], r)
      BY <1>2, <2>1
    <3>2. reply[r] = "called" /\ \A j \in DOMAIN commands : IsRead(commands[j], r) => j = 1
      BY <3>1 DEF QueueInv
    <3>3. AnswerIn(commands, db, reply, r) =
             IF c.key \in WrittenIn(commands, db, 1) THEN "some" ELSE "none"
      BY <1>2, <3>1, <3>2, AnswerFound
    <3>4. WrittenIn(commands, db, 1) = db
      BY DEF WrittenIn
    <3>5. reply'[r] = IF c.key \in db THEN "some" ELSE "none"
      BY <1>3, <2>1 DEF IsRead, ServeRead, StoreInv
    <3>6. AnswerIn(commands', db', reply', r) = reply'[r]
      BY <3>5 DEF AnswerIn
    <3> QED BY <3>3, <3>4, <3>5, <3>6
  <2>2. CASE ~ IsRead(c, r)
    <3>1. reply'[r] = reply[r]
      BY <1>3, <2>2 DEF IsRead, ServeRead, ServeWrite, ServeNotifyRead, StoreInv
    <3>2. CASE reply[r] # "called"
      BY <3>1, <3>2 DEF AnswerIn
    <3>3. CASE reply[r] = "called"
      <4>1. PICK i \in DOMAIN commands : IsRead(commands[i], r)
        BY <3>3 DEF QueueInv
      <4>2. /\ i \in 1 .. n /\ i # 1 /\ i - 1 \in 1 .. (n - 1) /\ i - 1 \in 1 .. n
            /\ i - 1 \in DOMAIN commands' /\ i - 1 + 1 = i
        BY <1>2, <2>2, <4>1
      <4>3. commands'[i - 1] = commands[i]
        BY <1>2, <4>2
      <4> DEFINE k == i - 1
      <4>4. k \in DOMAIN commands' /\ commands'[k] = commands[i] /\ IsRead(commands'[k], r)
            /\ k \in 1 .. n /\ k + 1 = i
        BY <4>1, <4>2, <4>3
      <4> HIDE DEF k
      <4>5. /\ \A j \in DOMAIN commands : IsRead(commands[j], r) => j = i
            /\ \A j \in DOMAIN commands' : IsRead(commands'[j], r) => j = k
        BY <4>1, <4>4 DEF QueueInv
      <4>6. AnswerIn(commands, db, reply, r) =
               IF commands[i].key \in WrittenIn(commands, db, i) THEN "some" ELSE "none"
        BY <3>3, <4>1, <4>5, AnswerFound
      <4>7. AnswerIn(commands', db', reply', r) =
               IF commands'[k].key \in WrittenIn(commands', db', k) THEN "some" ELSE "none"
        BY <3>1, <3>3, <4>4, <4>5, AnswerFound
      <4>8. WrittenIn(commands', db', k) = WrittenIn(commands, db, i)
        BY <1>5, <4>4
      <4> QED BY <4>4, <4>6, <4>7, <4>8
    <3> QED BY <3>2, <3>3
  <2> QED BY <2>1, <2>2
<1>10. Answers' = Answers
  BY <1>9, MappingIs
<1>11. \E told \in SUBSET {x \in Waits : x[2] \in Contents} :
          Waits' = Waits \ told /\ notified' = notified \cup {x[1] : x \in told}
  <2> DEFINE Queued(x) == \E j \in DOMAIN commands :
                 commands[j].op = "NotifyRead" /\ x = <<commands[j].waiter, commands[j].key>>
             StillQueued(x) == \E j \in DOMAIN commands' :
                 commands'[j].op = "NotifyRead" /\ x = <<commands'[j].waiter, commands'[j].key>>
             Owed(x) == \E k \in Key : \E w \in obligations[k] : x = <<w, k>>
             StillOwed(x) == \E k \in Key : \E w \in obligations'[k] : x = <<w, k>>
             call == <<c.waiter, c.key>>
  <2>1. /\ \A x : x \in Waits <=> Queued(x) \/ Owed(x)
        /\ \A x : x \in Waits' <=> StillQueued(x) \/ StillOwed(x)
    BY WaitsAre
  <2>2. \A x : Queued(x) <=> StillQueued(x) \/ (c.op = "NotifyRead" /\ x = call)
    <3>1. \A j \in DOMAIN commands :
             commands[j] = c \/ (j - 1 \in DOMAIN commands' /\ commands'[j - 1] = commands[j])
      BY <1>2
    <3>2. \A j \in DOMAIN commands' : j + 1 \in DOMAIN commands /\ commands'[j] = commands[j + 1]
      BY <1>2
    <3>3. 1 \in DOMAIN commands /\ commands[1] = c
      BY <1>2
    <3> QED BY <3>1, <3>2, <3>3
  <2>3. \A x : StillQueued(x) => \E j \in DOMAIN commands' : IsCall(commands'[j], x[1])
                                   /\ x[1] \in Waiter
    <3>1. \A j \in DOMAIN commands' : commands'[j] \in Command
      BY <1>2 DEF StoreInv
    <3> QED BY <3>1, CommandFields DEF IsCall
  <2>4. \A j \in DOMAIN commands' :
           j + 1 \in DOMAIN commands /\ j + 1 # 1 /\ commands'[j] = commands[j + 1]
    BY <1>2
  <2>5. ASSUME Waits' = Waits, notified' = notified
        PROVE  \E told \in SUBSET {x \in Waits : x[2] \in Contents} :
                  Waits' = Waits \ told /\ notified' = notified \cup {x[1] : x \in told}
    <3>1. {} \in SUBSET {x \in Waits : x[2] \in Contents}
      OBVIOUS
    <3>2. Waits' = Waits \ {} /\ notified' = notified \cup {x[1] : x \in {}}
      BY <2>5
    <3> QED BY <3>1, <3>2
  <2>6. /\ db' \subseteq Contents /\ db \subseteq Contents
        /\ obligations \in [Key -> SUBSET Waiter]
    BY <1>4, <1>7, MappingIs DEF WrittenIn, StoreInv
  <2> HIDE DEF Queued, StillQueued, call
  <2>7. CASE c.op = "Write" /\ ServeWrite(c.key)
    <3> DEFINE told == obligations[c.key] \X {c.key}
    <3>1. /\ notified' = notified \cup obligations[c.key] /\ c.key \in db'
          /\ obligations' = [obligations EXCEPT ![c.key] = {}]
      BY <2>7 DEF ServeWrite
    <3>2. \A x : Owed(x) <=> StillOwed(x) \/ x \in told
      BY <1>8, <2>6, <3>1
    <3>3. \A x \in told : ~ StillOwed(x)
      BY <1>8, <2>6, <3>1
    <3>4. ASSUME NEW x \in told, StillQueued(x) PROVE FALSE
      <4>1. PICK j \in DOMAIN commands' : IsCall(commands'[j], x[1]) /\ x[1] \in Waiter
        BY <2>3, <3>4
      <4>2. x[1] \in obligations[c.key]
        OBVIOUS
      <4> QED BY <1>8, <2>4, <4>1, <4>2 DEF QueueInv
    <3>5. \A x : x \in Waits' <=> x \in Waits \ told
      BY <2>1, <2>2, <2>7, <3>2, <3>3, <3>4
    <3>6. told \subseteq {x \in Waits : x[2] \in Contents}
      BY <2>1, <2>6, <3>1, <3>2
    <3>7. {x[1] : x \in told} = obligations[c.key]
      <4>1. \A w \in obligations[c.key] : <<w, c.key>> \in told /\ <<w, c.key>>[1] = w
        OBVIOUS
      <4>2. \A x \in told : x[1] \in obligations[c.key]
        OBVIOUS
      <4> HIDE DEF told
      <4> QED BY <4>1, <4>2
    <3> HIDE DEF told
    <3>8. Waits' = Waits \ told /\ notified' = notified \cup {x[1] : x \in told}
      BY <3>1, <3>5, <3>7
    <3> QED BY <3>6, <3>8
  <2>8. CASE c.op = "Read" /\ ServeRead(c.reader, c.key)
    <3>1. notified' = notified /\ obligations' = obligations
      BY <2>8 DEF ServeRead
    <3>2. Waits' = Waits
      BY <2>1, <2>2, <2>8, <3>1
    <3> QED BY <2>5, <3>1, <3>2
  <2>9. CASE c.op = "NotifyRead" /\ ServeNotifyRead(c.waiter, c.key)
    <3>0. c.waiter \in Waiter /\ 1 \in DOMAIN commands /\ IsCall(commands[1], c.waiter)
      BY <1>2, <1>8, <2>9 DEF IsCall
    <3>1. \A k \in Key : c.waiter \notin obligations[k]
      BY <3>0 DEF QueueInv
    <3>2. ASSUME StillQueued(call) PROVE FALSE
      <4>1. call[1] = c.waiter
        BY DEF call
      <4>2. PICK j \in DOMAIN commands' : IsCall(commands'[j], c.waiter)
        BY <2>3, <3>2, <4>1
      <4>3. j + 1 \in DOMAIN commands /\ j + 1 # 1 /\ IsCall(commands[j + 1], c.waiter)
        BY <2>4, <4>2
      <4> QED BY <3>0, <4>3 DEF QueueInv
    <3>3. CASE c.key \in db
      <4>1. notified' = notified \cup {c.waiter} /\ obligations' = obligations
        BY <2>9, <3>3 DEF ServeNotifyRead
      <4>2. ~ Owed(call)
        BY <3>1 DEF call
      <4>3. Waits' = Waits \ {call}
        BY <2>1, <2>2, <2>9, <3>2, <4>1, <4>2
      <4>4. call \in Waits /\ call[2] = c.key /\ call[1] = c.waiter
        BY <2>1, <2>2, <2>9 DEF call
      <4>5. {x[1] : x \in {call}} = {c.waiter}
        BY <4>4
      <4>6. {call} \in SUBSET {x \in Waits : x[2] \in Contents}
        BY <2>6, <3>3, <4>4
      <4> QED BY <4>1, <4>3, <4>5, <4>6
    <3>4. CASE c.key \notin db
      <4>1. notified' = notified
            /\ obligations' = [obligations EXCEPT ![c.key] = @ \cup {c.waiter}]
        BY <2>9, <3>4 DEF ServeNotifyRead
      <4>2. \A x : StillOwed(x) <=> Owed(x) \/ x = call
        BY <1>8, <2>6, <4>1 DEF call
      <4>3. Waits' = Waits
        BY <2>1, <2>2, <2>9, <4>2
      <4> QED BY <2>5, <4>1, <4>3
    <3> QED BY <3>3, <3>4
  <2> QED BY <1>3, <2>7, <2>8, <2>9
<1> QED BY <1>7, <1>10, <1>11

\* A command that enters the channel is a call of the atomic store.
LEMMA CallMapped ==
    ASSUME StoreInv, QueueInv, QueueInv', NEW c \in Command, Enqueue(c),
           UNCHANGED <<db, obligations, notified>>,
           IF c.op = "Read"
           THEN reply[c.reader] = "idle" /\ reply' = [reply EXCEPT ![c.reader] = "called"]
           ELSE reply' = reply,
           c.op = "NotifyRead" => ~ Asked(c.waiter)
    PROVE  Atomic!Next
<1>1. /\ c.key \in Key /\ c.op \in {"Write", "Read", "NotifyRead"}
      /\ c.op = "Read" => c.reader \in Reader
      /\ c.op = "NotifyRead" => c.waiter \in Waiter
  BY CommandFields
<1>2. /\ Contents' = Contents \cup {x \in {c.key} : IsWrite(c)}
      /\ IF c.op = "Read"
         THEN Answers' = [Answers EXCEPT ![c.reader] =
                             IF c.key \in Contents THEN "some" ELSE "none"]
         ELSE Answers' = Answers
      /\ Waits' = Waits \cup (IF c.op = "NotifyRead" THEN {<<c.waiter, c.key>>} ELSE {})
  BY EnqueueMapped
<1>3. CASE c.op = "Write"
  <2>1. Contents' = Contents \cup {c.key} /\ UNCHANGED <<Answers, Waits, notified>>
    BY <1>2, <1>3 DEF IsWrite
  <2>2. Atomic!Write(c.key)
    BY <2>1 DEF Atomic!Write
  <2> QED BY <1>1, <2>2 DEF Atomic!Next
<1>4. CASE c.op = "Read"
  <2>1. Answers[c.reader] = "idle"
    <3>1. AnswerIn(commands, db, reply, c.reader) = "idle"
      BY <1>4 DEF AnswerIn
    <3> QED BY <1>1, <1>4, <3>1, MappingIs
  <2>2. /\ Answers' = [Answers EXCEPT ![c.reader] = IF c.key \in Contents THEN "some" ELSE "none"]
        /\ UNCHANGED <<Contents, Waits, notified>>
    BY <1>2, <1>4 DEF IsWrite
  <2>3. Atomic!Read(c.reader, c.key)
    BY <2>1, <2>2 DEF Atomic!Read
  <2> QED BY <1>1, <1>4, <2>3 DEF Atomic!Next
<1>5. CASE c.op = "NotifyRead"
  <2> DEFINE w == c.waiter
  <2>1. w \in Waiter /\ ~ Asked(w)
    BY <1>1, <1>5
  <2> HIDE DEF w
  <2>2. w \notin notified /\ \A l \in Key : <<w, l>> \notin Waits
    <3>1. \A l \in Key : w \notin obligations[l]
      BY <2>1 DEF QueueInv
    <3>2. \A j \in DOMAIN commands : ~ IsCall(commands[j], w)
      BY <2>1 DEF QueueInv
    <3>3. ASSUME NEW l \in Key, <<w, l>> \in Waits PROVE FALSE
      BY <3>1, <3>2, <3>3, WaitsAre DEF IsCall
    <3> QED BY <2>1, <3>3 DEF QueueInv
  <2>3. Waits' = Waits \cup {<<w, c.key>>} /\ UNCHANGED <<Contents, Answers, notified>>
    BY <1>2, <1>5 DEF IsWrite, w
  <2>4. Atomic!NotifyRead(w, c.key)
    BY <2>2, <2>3 DEF Atomic!NotifyRead
  <2> QED BY <1>1, <2>1, <2>4 DEF Atomic!Next
<1> QED BY <1>1, <1>3, <1>4, <1>5

\* What leaves the store as it is leaves the atomic store as it is.
LEMMA UnchangedMapped ==
    UNCHANGED <<commands, db, obligations, reply, notified>> => UNCHANGED Atomic!vars
<1> SUFFICES ASSUME UNCHANGED <<commands, db, obligations, reply, notified>>
             PROVE  UNCHANGED Atomic!vars
  OBVIOUS
<1>1. Contents' = Contents /\ Answers' = Answers
  BY MappingIs
<1>2. Waits' = Waits
  BY DEF Waits, CallsInChannel
<1> QED BY <1>1, <1>2 DEF Atomic!vars

LEMMA MappedStep ==
    ASSUME StoreInv, SyncInv, QueueInv, QueueInv', [Next]_vars
    PROVE  [Atomic!Next]_(Atomic!vars)
<1> USE BatchSyncAssumption
<1>1. CASE \E d \in Digest, p \in Peer : StartSynchronize(d, p)
  <2>1. PICK d \in Digest : Read(Me, d) /\ Me \in Reader
    BY <1>1 DEF StartSynchronize, Me
  <2> DEFINE c == [op |-> "Read", key |-> d, reader |-> Me]
  <2>2. c \in Command /\ c.op = "Read" /\ c.reader = Me
    BY <2>1, CallsAreCommands
  <2>3. /\ Enqueue(c) /\ UNCHANGED <<db, obligations, notified>>
        /\ reply[Me] = "idle" /\ reply' = [reply EXCEPT ![Me] = "called"]
    BY <2>1 DEF Read
  <2> HIDE DEF c
  <2> QED BY <2>2, <2>3, CallMapped
<1>2. CASE \E i \in Waiter : PollWaiter(i)
  <2>1. PICK i \in Waiter : PollWaiter(i)
    BY <1>2
  <2> DEFINE c == [op |-> "NotifyRead", key |-> waiter[i].digest, waiter |-> i]
  <2>2. waiter[i].digest \in Key
    BY <2>1 DEF PollWaiter, SyncInv
  <2>3. c \in Command /\ c.op = "NotifyRead" /\ c.waiter = i
    BY <2>2, CallsAreCommands
  <2>4. Enqueue(c) /\ UNCHANGED <<db, obligations, notified, reply>>
    BY <2>1 DEF PollWaiter, NotifyRead
  <2>5. ~ Asked(i)
    BY <2>1 DEF PollWaiter, Asked
  <2> HIDE DEF c
  <2> QED BY <2>3, <2>4, <2>5, CallMapped
<1>3. CASE \E d \in Digest : StoreReply(d) \/ StoreBroadcast(d)
  <2>1. PICK d \in Digest : Write(d)
    BY <1>3 DEF StoreReply, StoreBroadcast
  <2> DEFINE c == [op |-> "Write", key |-> d]
  <2>2. c \in Command /\ c.op = "Write"
    BY <2>1, CallsAreCommands
  <2>3. Enqueue(c) /\ UNCHANGED <<db, obligations, notified, reply>>
    BY <2>1 DEF Write
  <2> HIDE DEF c
  <2> QED BY <2>2, <2>3, CallMapped
<1>4. CASE ServeStore
  <2>1. Serve
    BY <1>4 DEF ServeStore
  <2>2. Atomic!Notify
    BY <2>1, ServeMapped DEF Atomic!Notify
  <2> QED BY <2>2 DEF Atomic!Next
<1>5. CASE EndSynchronize
  <2>1. /\ reply[Me] \in {"some", "none"} /\ reply' = [reply EXCEPT ![Me] = "idle"]
        /\ UNCHANGED <<commands, db, obligations, notified>> /\ Me \in Reader
    BY <1>5 DEF EndSynchronize, EndRead, Me
  <2>2. Contents' = Contents /\ Waits' = Waits
    BY <2>1, MappingIs DEF Waits, CallsInChannel
  <2>3. Answers[Me] # "idle"
    <3>1. AnswerIn(commands, db, reply, Me) = reply[Me]
      BY <2>1 DEF AnswerIn
    <3> QED BY <2>1, <3>1, MappingIs
  <2>4. Answers' = [Answers EXCEPT ![Me] = "idle"]
    <3>1. AnswerIn(commands', db', reply', Me) = "idle"
      BY <2>1 DEF AnswerIn, StoreInv
    <3>2. \A r \in Reader \ {Me} :
             AnswerIn(commands', db', reply', r) = AnswerIn(commands, db, reply, r)
      <4>1. \A r \in Reader \ {Me} : reply'[r] = reply[r]
        BY <2>1 DEF StoreInv
      <4> QED BY <2>1, <4>1 DEF AnswerIn
    <3> QED BY <3>1, <3>2, MappingIs
  <2>5. Atomic!EndRead(Me)
    BY <2>1, <2>2, <2>3, <2>4 DEF Atomic!EndRead
  <2> QED BY <2>1, <2>5 DEF Atomic!Next
<1>6. CASE Elsewhere \/ UNCHANGED vars
  <2>1. UNCHANGED storeVars
    BY <1>6, ElsewhereKeepsStore DEF vars
  <2> QED BY <2>1, UnchangedMapped DEF storeVars
<1> QED BY <1>1, <1>2, <1>3, <1>4, <1>5, <1>6, StepCases

\* The store of the worker, with its task, channel and obligations, is an
\* atomic set of keys for its callers: a write and a read take effect in the
\* order in which they enter the channel, and a notify_read returns when, and
\* only when, its key was written.
THEOREM StoreImplementsAtomic == Spec => StoreIsAtomic
<1>1. Init => Atomic!Init
  <2> SUFFICES ASSUME Init PROVE Atomic!Init
    OBVIOUS
  <2>1. /\ commands = <<>> /\ db = {} /\ reply = [r \in Reader |-> "idle"] /\ notified = {}
        /\ obligations = [k \in Key |-> {}]
    BY DEF Init, StoreInit
  <2>2. Contents = {}
    BY <2>1, MappingIs DEF WrittenIn
  <2>3. Answers = [r \in Reader |-> "idle"]
    <3>1. \A r \in Reader : AnswerIn(commands, db, reply, r) = "idle"
      BY <2>1 DEF AnswerIn
    <3> QED BY <3>1, MappingIs
  <2>4. Waits = {}
    BY <2>1, WaitsAre
  <2> QED BY <2>1, <2>2, <2>3, <2>4 DEF Atomic!Init
<1>2. Spec => []QueueInv
  <2>1. IInv /\ QueueInv /\ [Next]_vars => QueueInv'
    BY QueueStep DEF IInv
  <2> QED BY <2>1, QueueInit, SafetyInvariant, PTL DEF Spec
<1>3. IInv /\ QueueInv /\ QueueInv' /\ [Next]_vars => [Atomic!Next]_(Atomic!vars)
  BY MappedStep DEF IInv
<1> QED BY <1>1, <1>2, <1>3, SafetyInvariant, PTL DEF Spec, StoreIsAtomic, Atomic!Spec
=============================================================================
