---------------------------- MODULE AtomicStore ----------------------------
(***************************************************************************)
(* What the store promises its callers: a set of keys in which a write and *)
(* a read take effect the moment they are called, and notify_read calls    *)
(* that are answered when, and only when, their key is there. Values are   *)
(* left out: the keys are digests of what is stored under them.            *)
(***************************************************************************)
EXTENDS FiniteSets

CONSTANTS Key,
          Reader,    \* the tasks that read, each one call at a time
          Waiter     \* the calls of notify_read

VARIABLES contents,  \* the keys written
          answer,    \* answer[r]: what reader r gets, or "idle"
          waits,     \* the calls of notify_read without an answer, with keys
          notified   \* the answered ones

vars == <<contents, answer, waits, notified>>

Init ==
    /\ contents = {}
    /\ answer = [r \in Reader |-> "idle"]
    /\ waits = {}
    /\ notified = {}

Write(k) ==
    /\ contents' = contents \cup {k}
    /\ UNCHANGED <<answer, waits, notified>>

Read(r, k) ==
    /\ answer[r] = "idle"
    /\ answer' = [answer EXCEPT ![r] = IF k \in contents THEN "some" ELSE "none"]
    /\ UNCHANGED <<contents, waits, notified>>

EndRead(r) ==
    /\ answer[r] # "idle"
    /\ answer' = [answer EXCEPT ![r] = "idle"]
    /\ UNCHANGED <<contents, waits, notified>>

NotifyRead(w, k) ==
    /\ w \notin notified
    /\ \A l \in Key : <<w, l>> \notin waits
    /\ waits' = waits \cup {<<w, k>>}
    /\ UNCHANGED <<contents, answer, notified>>

\* Some of the calls whose key is there are answered.
Notify ==
    \E told \in SUBSET {x \in waits : x[2] \in contents} :
        /\ waits' = waits \ told
        /\ notified' = notified \cup {x[1] : x \in told}
        /\ UNCHANGED <<contents, answer>>

Next ==
    \/ \E k \in Key : Write(k)
    \/ \E r \in Reader, k \in Key : Read(r, k)
    \/ \E r \in Reader : EndRead(r)
    \/ \E w \in Waiter, k \in Key : NotifyRead(w, k)
    \/ Notify

Spec == Init /\ [][Next]_vars
=============================================================================
