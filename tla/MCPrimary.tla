----------------------------- MODULE MCPrimary -----------------------------
(***************************************************************************)
(* Three authorities with 1, 1 and 2 votes: any two with the last one are  *)
(* a quorum, so the others may build the DAG without this primary, and     *)
(* faulty authority 1 signs two headers in round 1.                        *)
(***************************************************************************)
EXTENDS Primary

MCStake == <<1, 1, 2>>

StakeByRank == [a \in 0 .. 2 |-> MCStake[a + 1]]

ByOthers == {<<a, r, 0>> : a \in {1, 2}, r \in 1 .. MaxRound}

Twin == <<1, 1, 1>>

MCOthers == ByOthers \cup {Twin}

MCLinks ==
    [h \in MCOthers |-> IF round(h) = 1 THEN Genesis
                        ELSE {<<1, round(h) - 1, 0>>, <<2, round(h) - 1, 0>>}]

NoHeaders == {}

\* Round 2 is certified for the authority with two votes only.
FewByOthers == {<<1, 1, 0>>, <<2, 1, 0>>, <<2, 2, 0>>}

FewOthers == FewByOthers \cup {Twin}

FewLinks == [h \in FewOthers |-> MCLinks[h]]

\* The other header of faulty authority 1 is first seen in its certificate.
MCAnnounced == {Twin, <<2, 1, 0>>, <<2, 2, 0>>}

MCLoaded == {Twin}

\* The certificates of the others arrive by round and author.
Before(c, d) == round(c) < round(d) \/ (round(c) = round(d) /\ author(c) < author(d))

Sorted ==
    /\ \A c \in (store' \ store) \ Own, d \in Certified \ store' : Before(c, d)
    /\ suspended' = {}
=============================================================================
