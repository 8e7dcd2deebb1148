--------------------------- MODULE ReliableSender ---------------------------
(***************************************************************************)
(* The reliable sender of network/src/reliable_sender.rs: one Connection   *)
(* task per peer, which keeps what it has not transmitted in a buffer and  *)
(* what was not acknowledged in pending_replies, and starts over when the  *)
(* connection breaks. An ACK is a frame without a name: it counts for the  *)
(* oldest message of pending_replies.                                      *)
(*                                                                         *)
(* The peer reads every connection in order (network/src/receiver.rs), and *)
(* a connection that broke here may still hold frames that it reads later, *)
(* or never. Message m is the m-th one that is sent to a peer.             *)
(***************************************************************************)
EXTENDS Integers, Sequences

CONSTANTS Peer,            \* the destinations
          Silent,          \* those that need not listen or answer
          MaxMessages,     \* bound on the messages to one peer
          ChannelCap,      \* capacity of the channel to a Connection task
          SocketCap,       \* frames the sockets hold until the peer reads
          MaxConnections   \* MaxConnections[p]: bound on the connections to p

Message == 1 .. MaxMessages

ASSUME SenderAssumption ==
    /\ Silent \subseteq Peer
    /\ MaxMessages \in Nat
    /\ ChannelCap \in Nat \ {0}
    /\ SocketCap \in Nat \ {0}
    /\ MaxConnections \in [Peer -> Nat]

VARIABLES channel,         \* channel[p]: on the way to the Connection task of p
          buffer,          \* buffer
          writing,         \* the message that writer.send is working on, if any
          pendingReplies,  \* pending_replies
          connected,       \* keep_alive is running
          wires,           \* wires[p]: the frames in each connection so far
          acks,            \* ACKs in the live connection, not read yet
          received,        \* received[p]: what the handler of p was given
          handler          \* handler[p][m]: the state of the cancel handler

senderVars == <<channel, buffer, writing, pendingReplies, connected, wires, acks,
                received, handler>>

\* The number of the live connection (of the last one, between connections).
Live(p) == Len(wires[p])

Open(p, m) == handler[p][m] # "closed"

\* What the Connection task of p holds and its channel, oldest first.
Unacknowledged(p) == pendingReplies[p] \o writing[p] \o buffer[p] \o channel[p]

SenderTypeOK ==
    /\ channel \in [Peer -> Seq(Message)] /\ \A p \in Peer : Len(channel[p]) <= ChannelCap
    /\ buffer \in [Peer -> Seq(Message)]
    /\ writing \in [Peer -> {<<>>} \cup {<<m>> : m \in Message}]
    /\ pendingReplies \in [Peer -> Seq(Message)]
    /\ connected \in [Peer -> BOOLEAN]
    /\ wires \in [Peer -> Seq(Seq(Message))]
    /\ \A p \in Peer : Live(p) <= MaxConnections[p]
    /\ acks \in [Peer -> Nat]
    /\ received \in [Peer -> SUBSET Message]
    /\ handler \in [Peer -> [Message -> {"unused", "waiting", "acked", "closed"}]]

-----------------------------------------------------------------------------

SenderInit ==
    /\ channel = [p \in Peer |-> <<>>]
    /\ buffer = [p \in Peer |-> <<>>]
    /\ writing = [p \in Peer |-> <<>>]
    /\ pendingReplies = [p \in Peer |-> <<>>]
    /\ connected = [p \in Peer |-> FALSE]
    /\ wires = [p \in Peer |-> <<>>]
    /\ acks = [p \in Peer |-> 0]
    /\ received = [p \in Peer |-> {}]
    /\ handler = [p \in Peer |-> [m \in Message |-> "unused"]]

\* ReliableSender::send: the message and its handler go into the channel of
\* the Connection task; the caller waits while that is full.
Send(p, m) ==
    /\ handler[p][m] = "unused"
    /\ \A k \in 1 .. (m - 1) : handler[p][k] # "unused"
    /\ Len(channel[p]) < ChannelCap
    /\ channel' = [channel EXCEPT ![p] = Append(@, m)]
    /\ handler' = [handler EXCEPT ![p][m] = "waiting"]
    /\ UNCHANGED <<buffer, writing, pendingReplies, connected, wires, acks, received>>

\* The caller drops the cancel handlers in `dropped'.
Cancelled(dropped) ==
    [p \in Peer |-> [m \in Message |->
        IF <<p, m>> \in dropped /\ handler[p][m] = "waiting" THEN "closed"
        ELSE handler[p][m]]]

Cancel(dropped) ==
    /\ handler' = Cancelled(dropped)
    /\ UNCHANGED <<channel, buffer, writing, pendingReplies, connected, wires, acks,
                   received>>

-----------------------------------------------------------------------------
(***************************************************************************)
(* The Connection task of peer p.                                          *)
(***************************************************************************)

\* buffer.retain: s without the cancelled messages. (A recursive function in
\* the place of SelectSeq, whose definition is not open to proofs.)
Retained(p, s) ==
    LET kept[i \in 0 .. Len(s)] ==
            IF i = 0 THEN <<>>
            ELSE IF Open(p, s[i]) THEN Append(kept[i - 1], s[i]) ELSE kept[i - 1]
    IN kept[Len(s)]

\* Between two attempts to connect the channel is drained into the buffer,
\* which is cleared of cancelled messages.
DrainChannel(p) ==
    /\ ~ connected[p]
    /\ channel[p] # <<>>
    /\ buffer' = [buffer EXCEPT ![p] = Retained(p, Append(@, Head(channel[p])))]
    /\ channel' = [channel EXCEPT ![p] = Tail(@)]
    /\ UNCHANGED <<writing, pendingReplies, connected, wires, acks, received, handler>>

\* The attempt succeeds: keep_alive starts with no pending replies.
Connect(p) ==
    /\ ~ connected[p]
    /\ Live(p) < MaxConnections[p]
    /\ connected' = [connected EXCEPT ![p] = TRUE]
    /\ wires' = [wires EXCEPT ![p] = Append(@, <<>>)]
    /\ UNCHANGED <<channel, buffer, writing, pendingReplies, acks, received, handler>>

\* The next message of the buffer is skipped if it was cancelled; the task
\* looks at the handler once and then writes.
PopBuffer(p) ==
    /\ connected[p]
    /\ writing[p] = <<>>
    /\ buffer[p] # <<>>
    /\ buffer' = [buffer EXCEPT ![p] = Tail(@)]
    /\ writing' = IF Open(p, Head(buffer[p]))
                  THEN [writing EXCEPT ![p] = <<Head(buffer[p])>>] ELSE writing
    /\ UNCHANGED <<channel, pendingReplies, connected, wires, acks, received, handler>>

\* writer.send is done: it waits for room in the sockets.
Write(p) ==
    /\ connected[p]
    /\ writing[p] # <<>>
    /\ Len(wires[p][Live(p)]) < SocketCap
    /\ wires' = [wires EXCEPT ![p][Live(p)] = @ \o writing[p]]
    /\ pendingReplies' = [pendingReplies EXCEPT ![p] = @ \o writing[p]]
    /\ writing' = [writing EXCEPT ![p] = <<>>]
    /\ UNCHANGED <<channel, buffer, connected, acks, received, handler>>

\* The task takes a new message or an ACK only when the buffer is empty.
AtSelect(p) == connected[p] /\ writing[p] = <<>> /\ buffer[p] = <<>>

TakeMessage(p) ==
    /\ AtSelect(p)
    /\ channel[p] # <<>>
    /\ buffer' = [buffer EXCEPT ![p] = <<Head(channel[p])>>]
    /\ channel' = [channel EXCEPT ![p] = Tail(@)]
    /\ UNCHANGED <<writing, pendingReplies, connected, wires, acks, received, handler>>

\* An ACK counts for the oldest pending message; nobody may be waiting for it.
ReadAck(p) ==
    /\ AtSelect(p)
    /\ acks[p] > 0
    /\ LET m == Head(pendingReplies[p])
       IN handler' = IF Open(p, m) THEN [handler EXCEPT ![p][m] = "acked"] ELSE handler
    /\ pendingReplies' = [pendingReplies EXCEPT ![p] = Tail(@)]
    /\ acks' = [acks EXCEPT ![p] = @ - 1]
    /\ UNCHANGED <<channel, buffer, writing, connected, wires, received>>

\* Mutant of Break: what was written but not acknowledged is sent last.
BreakBehind(p) ==
    /\ connected[p]
    /\ Live(p) < MaxConnections[p]
    /\ connected' = [connected EXCEPT ![p] = FALSE]
    /\ buffer' = [buffer EXCEPT ![p] = writing[p] \o @ \o pendingReplies[p]]
    /\ writing' = [writing EXCEPT ![p] = <<>>]
    /\ pendingReplies' = [pendingReplies EXCEPT ![p] = <<>>]
    /\ acks' = [acks EXCEPT ![p] = 0]
    /\ UNCHANGED <<channel, wires, received, handler>>

\* Mutant of Break: pending_replies outlives the connection.
BreakKeepingPending(p) ==
    /\ connected[p]
    /\ Live(p) < MaxConnections[p]
    /\ connected' = [connected EXCEPT ![p] = FALSE]
    /\ buffer' = [buffer EXCEPT ![p] = writing[p] \o @]
    /\ writing' = [writing EXCEPT ![p] = <<>>]
    /\ acks' = [acks EXCEPT ![p] = 0]
    /\ UNCHANGED <<channel, pendingReplies, wires, received, handler>>

\* Mutant of Break: the message that could not be written is lost.
BreakLosing(p) ==
    /\ connected[p]
    /\ Live(p) < MaxConnections[p]
    /\ connected' = [connected EXCEPT ![p] = FALSE]
    /\ buffer' = [buffer EXCEPT ![p] = pendingReplies[p] \o @]
    /\ writing' = [writing EXCEPT ![p] = <<>>]
    /\ pendingReplies' = [pendingReplies EXCEPT ![p] = <<>>]
    /\ acks' = [acks EXCEPT ![p] = 0]
    /\ UNCHANGED <<channel, wires, received, handler>>

\* A write fails, or the connection is closed: what was not acknowledged goes
\* back to the front of the buffer, and the ACKs on their way are lost. The
\* last connection that MaxConnections allows does not break.
Break(p) ==
    /\ connected[p]
    /\ Live(p) < MaxConnections[p]
    /\ connected' = [connected EXCEPT ![p] = FALSE]
    /\ buffer' = [buffer EXCEPT ![p] = pendingReplies[p] \o writing[p] \o @]
    /\ writing' = [writing EXCEPT ![p] = <<>>]
    /\ pendingReplies' = [pendingReplies EXCEPT ![p] = <<>>]
    /\ acks' = [acks EXCEPT ![p] = 0]
    /\ UNCHANGED <<channel, wires, received, handler>>

\* The steps the task makes by itself.
TaskStep(p) ==
    \/ DrainChannel(p)
    \/ PopBuffer(p)
    \/ Write(p)
    \/ TakeMessage(p)
    \/ ReadAck(p)

-----------------------------------------------------------------------------

\* The peer reads the next frame of its n-th connection and replies with an
\* ACK, which is lost unless the connection is live.
Receive(p, n) ==
    /\ wires[p][n] # <<>>
    /\ received' = [received EXCEPT ![p] = @ \cup {Head(wires[p][n])}]
    /\ wires' = [wires EXCEPT ![p][n] = Tail(@)]
    /\ acks' = IF connected[p] /\ n = Live(p) THEN [acks EXCEPT ![p] = @ + 1] ELSE acks
    /\ UNCHANGED <<channel, buffer, writing, pendingReplies, connected, handler>>

ReceiveLive(p) == connected[p] /\ Receive(p, Live(p))

NetworkStep ==
    \E p \in Peer :
        \/ TaskStep(p)
        \/ Connect(p)
        \/ Break(p)
        \/ \E n \in 1 .. Live(p) : Receive(p, n)

\* The sender with a caller that sends and cancels as it likes.
SenderNext ==
    \/ NetworkStep
    \/ \E p \in Peer, m \in Message : Send(p, m)
    \/ \E dropped \in SUBSET (Peer \X Message) : Cancel(dropped)

SenderSpec == SenderInit /\ [][SenderNext]_senderVars

-----------------------------------------------------------------------------

\* An ACK is never credited to a message that the peer did not get, although
\* ACKs carry no name and connections break with ACKs on their way:
\* the handler then reports a delivery that did not happen.
AckedWasReceived ==
    \A p \in Peer, m \in Message : handler[p][m] = "acked" => m \in received[p]

\* Whatever breaks, a message that is waited for is held in exactly one
\* place, and the places are in the order of sending.
HeldOnceInOrder ==
    \A p \in Peer :
        LET held == Unacknowledged(p)
        IN /\ \A i, j \in DOMAIN held : i < j => held[i] < held[j]
           /\ \A m \in Message : handler[p][m] = "waiting" => \E i \in DOMAIN held : held[i] = m

\* The sender implements the abstract channel: in order, at least once, and
\* acknowledged only when delivered; and for the peers that answer, everything
\* that is not cancelled is delivered and acknowledged in the end.
Channel == INSTANCE Delivery WITH delivered <- received, outcome <- handler

DeliversReliably == Channel!Spec
=============================================================================
