------------------------------ MODULE Delivery ------------------------------
(***************************************************************************)
(* What the reliable sender of the network crate promises, seen by the     *)
(* task that sends and the handlers at the peers: the messages to a peer   *)
(* arrive in the order they were sent, each one until it is withdrawn, and *)
(* a cancel handler resolves only when the message has been delivered.     *)
(* How often a message is delivered is left open.                          *)
(***************************************************************************)
EXTENDS Integers

CONSTANTS Peer,         \* the destinations
          MaxMessages,  \* bound on the messages to one peer
          Silent        \* the peers that need not answer

VARIABLES delivered,    \* delivered[p]: the messages that p's handler was given
          outcome       \* outcome[p][m]: what the handler of message m says

vars == <<delivered, outcome>>

\* The m-th message that is sent to a peer.
Message == 1 .. MaxMessages

Init ==
    /\ delivered = [p \in Peer |-> {}]
    /\ outcome = [p \in Peer |-> [m \in Message |-> "unused"]]

Accept(p, m) ==
    /\ outcome[p][m] = "unused"
    /\ \A k \in 1 .. (m - 1) : outcome[p][k] # "unused"
    /\ outcome' = [outcome EXCEPT ![p][m] = "waiting"]
    /\ UNCHANGED delivered

\* The caller drops handlers, of several messages or peers at once.
Withdraw ==
    /\ \E dropped \in SUBSET (Peer \X Message) :
         outcome' = [p \in Peer |-> [m \in Message |->
                        IF <<p, m>> \in dropped /\ outcome[p][m] = "waiting"
                        THEN "closed" ELSE outcome[p][m]]]
    /\ UNCHANGED delivered

Deliver(p, m) ==
    /\ outcome[p][m] # "unused"
    /\ m \notin delivered[p]
    /\ \A k \in 1 .. (m - 1) : k \in delivered[p] \/ outcome[p][k] = "closed"
    /\ delivered' = [delivered EXCEPT ![p] = @ \cup {m}]
    /\ UNCHANGED outcome

Confirm(p, m) ==
    /\ outcome[p][m] = "waiting"
    /\ m \in delivered[p]
    /\ \A k \in 1 .. (m - 1) : outcome[p][k] # "waiting"
    /\ outcome' = [outcome EXCEPT ![p][m] = "acked"]
    /\ UNCHANGED delivered

Next ==
    \/ Withdraw
    \/ \E p \in Peer, m \in Message : Accept(p, m) \/ Deliver(p, m) \/ Confirm(p, m)

\* What is not withdrawn goes on, for the peers that answer.
Proceed(p) ==
    \E m \in Message : outcome[p][m] = "waiting" /\ (Deliver(p, m) \/ Confirm(p, m))

Spec == Init /\ [][Next]_vars /\ \A p \in Peer \ Silent : WF_vars(Proceed(p))
=============================================================================
