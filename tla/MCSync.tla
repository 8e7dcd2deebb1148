------------------------------- MODULE MCSync -------------------------------
(***************************************************************************)
(* Three authorities with 1, 1 and 2 votes, as in MCPrimary. The others    *)
(* certify their headers of round 1, and authority 2 one of round 2.       *)
(* Authority 1 is faulty: it sends its certificate to authority 2 only,    *)
(* and names it as a parent in another header of the same round.           *)
(***************************************************************************)
EXTENDS Synchronization

MCStake == <<1, 1, 2>>

StakeByRank == [a \in 0 .. 2 |-> MCStake[a + 1]]

RoundOne == {<<1, 1, 0>>, <<2, 1, 0>>}

Top == <<2, 2, 0>>

\* The header that names a certificate of its own round as a parent.
Early == <<1, 1, 1>>

MCOthers == RoundOne \cup {Top, Early}

MCLinks ==
    [h \in MCOthers |-> IF h = Early THEN {<<1, 1, 0>>}
                        ELSE IF round(h) = 1 THEN Genesis ELSE RoundOne]

MCCertified == RoundOne \cup {Top}

MCAnnounced == {Early}

Nothing == {}

\* The certificate of authority 1 is to be had from authority 2 only.
MCBroadcast == {<<2, 1, 0>>, Top}

TopOnly == {Top}

MCAnswering == {2}
=============================================================================
