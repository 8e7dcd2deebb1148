------------------------------- MODULE Store -------------------------------
(***************************************************************************)
(* The store of store/src/lib.rs: one task serves the commands of a        *)
(* bounded channel on the database; a notify_read of a key that is not     *)
(* there becomes an obligation, which the write of the key settles.        *)
(***************************************************************************)
EXTENDS Integers, Sequences

CONSTANTS Key, Reader, Waiter,
          StoreCap     \* capacity of the channel of commands

ASSUME StoreAssumption == StoreCap \in Nat \ {0}

VARIABLES commands,    \* the channel
          db,          \* the keys in the database
          obligations, \* obligations[k]: the calls of notify_read that wait for k
          reply,       \* reply[r]: "idle", "called", or the reply of a read
          notified     \* the calls of notify_read that got their reply

storeVars == <<commands, db, obligations, reply, notified>>

StoreTypeOK ==
    /\ Len(commands) <= StoreCap
    /\ \A i \in DOMAIN commands :
          /\ commands[i].key \in Key
          /\ commands[i].op \in {"Write", "Read", "NotifyRead"}
    /\ db \subseteq Key
    /\ obligations \in [Key -> SUBSET Waiter]
    /\ reply \in [Reader -> {"idle", "called", "some", "none"}]
    /\ notified \subseteq Waiter

StoreInit ==
    /\ commands = <<>>
    /\ db = {}
    /\ obligations = [k \in Key |-> {}]
    /\ reply = [r \in Reader |-> "idle"]
    /\ notified = {}

-----------------------------------------------------------------------------
(***************************************************************************)
(* The calls, which wait for room in the channel.                          *)
(***************************************************************************)

\* Mutant of Enqueue: the channel has no bound.
EnqueueUnbounded(command) == commands' = Append(commands, command)

Enqueue(command) ==
    /\ Len(commands) < StoreCap
    /\ commands' = Append(commands, command)

Write(k) ==
    /\ Enqueue([op |-> "Write", key |-> k])
    /\ UNCHANGED <<db, obligations, reply, notified>>

Read(r, k) ==
    /\ reply[r] = "idle"
    /\ Enqueue([op |-> "Read", key |-> k, reader |-> r])
    /\ reply' = [reply EXCEPT ![r] = "called"]
    /\ UNCHANGED <<db, obligations, notified>>

\* The caller goes on with the reply.
EndRead(r) ==
    /\ reply[r] \in {"some", "none"}
    /\ reply' = [reply EXCEPT ![r] = "idle"]
    /\ UNCHANGED <<commands, db, obligations, notified>>

NotifyRead(w, k) ==
    /\ Enqueue([op |-> "NotifyRead", key |-> k, waiter |-> w])
    /\ UNCHANGED <<db, obligations, reply, notified>>

-----------------------------------------------------------------------------
(***************************************************************************)
(* The task.                                                               *)
(***************************************************************************)

\* Mutant of ServeWrite: only one of the waiting calls is served.
ServeWriteOnce(k) ==
    /\ db' = db \cup {k}
    /\ \E told \in SUBSET obligations[k] :
          /\ obligations[k] # {} => \E w \in told : told = {w}
          /\ notified' = notified \cup told
          /\ obligations' = [obligations EXCEPT ![k] = @ \ told]
    /\ reply' = reply

ServeWrite(k) ==
    /\ db' = db \cup {k}
    /\ notified' = notified \cup obligations[k]
    /\ obligations' = [obligations EXCEPT ![k] = {}]
    /\ reply' = reply

ServeRead(r, k) ==
    /\ reply' = [reply EXCEPT ![r] = IF k \in db THEN "some" ELSE "none"]
    /\ UNCHANGED <<db, obligations, notified>>

\* Mutant of ServeNotifyRead: only the first call for a key is remembered.
ServeNotifyReadFirst(w, k) ==
    /\ IF k \in db
       THEN notified' = notified \cup {w} /\ UNCHANGED obligations
       ELSE /\ obligations' = [obligations EXCEPT ![k] = IF @ = {} THEN {w} ELSE @]
            /\ UNCHANGED notified
    /\ UNCHANGED <<db, reply>>

\* Mutant of ServeNotifyRead: answered at once, whether or not the key is there.
ServeNotifyAtOnce(w, k) ==
    /\ notified' = notified \cup {w}
    /\ UNCHANGED <<db, obligations, reply>>

ServeNotifyRead(w, k) ==
    /\ IF k \in db
       THEN notified' = notified \cup {w} /\ UNCHANGED obligations
       ELSE obligations' = [obligations EXCEPT ![k] = @ \cup {w}] /\ UNCHANGED notified
    /\ UNCHANGED <<db, reply>>

Serve ==
    /\ commands # <<>>
    /\ commands' = Tail(commands)
    /\ LET c == Head(commands)
       IN \/ c.op = "Write" /\ ServeWrite(c.key)
          \/ c.op = "Read" /\ ServeRead(c.reader, c.key)
          \/ c.op = "NotifyRead" /\ ServeNotifyRead(c.waiter, c.key)

-----------------------------------------------------------------------------

\* No wake-up is lost: a call of notify_read never waits for a key that is in
\* the database, in whatever order the write and the call come in.
NoLostWakeUp == \A k \in Key : obligations[k] # {} => k \notin db

\* The keys in the database when command i is served.
WrittenBefore(i) ==
    db \cup {commands[j].key : j \in {j \in 1 .. (i - 1) : commands[j].op = "Write"}}

\* What a read in the channel will return.
AnswerOf(r) ==
    IF reply[r] # "called" THEN reply[r]
    ELSE LET i == CHOOSE i \in DOMAIN commands :
                    commands[i].op = "Read" /\ commands[i].reader = r
         IN IF commands[i].key \in WrittenBefore(i) THEN "some" ELSE "none"

CallsInChannel == {commands[i] : i \in {i \in DOMAIN commands : commands[i].op = "NotifyRead"}}

\* What the callers of the store see: the keys they wrote, the answers to their
\* reads and the calls of notify_read that did not return.
Contents == WrittenBefore(Len(commands) + 1)

Answers == [r \in Reader |-> AnswerOf(r)]

Waits ==
    {<<c.waiter, c.key>> : c \in CallsInChannel} \cup UNION {obligations[k] \X {k} : k \in Key}

\* The store is atomic: the order of the channel is the order of the calls.
Atomic == INSTANCE AtomicStore WITH contents <- Contents, answer <- Answers, waits <- Waits

StoreIsAtomic == Atomic!Spec
=============================================================================
