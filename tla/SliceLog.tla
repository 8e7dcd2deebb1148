------------------------------ MODULE SliceLog ------------------------------
(***************************************************************************)
(* What the MRV executor promises to the application: the slices come out  *)
(* in the order they came in, one after the other, each as some            *)
(* permutation of its certificates and none of them twice. When the        *)
(* application goes away the last slice may be cut short.                  *)
(***************************************************************************)
EXTENDS Integers, FiniteSets, Sequences

CONSTANT Item

VARIABLES queue,    \* the slices that are in but not out
          accepted, \* every item that has come in
          sent,     \* the items that have come out
          closed    \* the application is gone

logVars == <<queue, accepted, sent, closed>>

LogInit ==
    /\ queue = <<>>
    /\ accepted = {}
    /\ sent = <<>>
    /\ closed = FALSE

\* `sent' grows by a sequence of distinct items, and more is the set of them.
Emits(more) ==
    /\ Len(sent') = Len(sent) + Cardinality(more)
    /\ SubSeq(sent', 1, Len(sent)) = sent
    /\ {sent'[i] : i \in (Len(sent) + 1) .. Len(sent')} = more

Accept ==
    /\ \E s \in {accepted' \ accepted} :
          s \in SUBSET Item /\ s # {} /\ queue' = Append(queue, s)
    /\ accepted \subseteq accepted'
    /\ UNCHANGED <<sent, closed>>

Release ==
    /\ ~ closed
    /\ queue # <<>>
    /\ Emits(Head(queue))
    /\ queue' = Tail(queue)
    /\ UNCHANGED <<accepted, closed>>

Close ==
    /\ ~ closed
    /\ queue # <<>>
    /\ LET more == {sent'[i] : i \in (Len(sent) + 1) .. Len(sent')}
       IN more \subseteq Head(queue) /\ Emits(more)
    /\ closed' = TRUE
    /\ UNCHANGED <<queue, accepted>>

LogNext == Accept \/ Release \/ Close

LogSpec == LogInit /\ [][LogNext]_logVars
=============================================================================
