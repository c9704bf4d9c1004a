----------------------------- MODULE MCElection -----------------------------
(* Instances of Election for TLC: three peers, and one or two sessions whose *)
(* experts lists hold the same peers in different orders.                    *)
EXTENDS Election

CONSTANTS p1, p2, p3, c1, c2

MCPeers == {p1, p2, p3}
MCExperts ==
    [c \in Coordinators |-> IF c = c1 THEN <<p1, p2, p3>> ELSE <<p3, p1, p2>>]
MCLeaderIdx == [c \in Coordinators |-> IF c = c1 THEN 0 ELSE 2]

\* Fresh peers, and peers with terms persisted from earlier elections.
FreshTerms == [p \in Peers |-> 0]
PersistedTerms == [p \in Peers |-> IF p = p1 THEN 0 ELSE 2]
MixedTerms == [p \in Peers |-> IF p = p1 THEN 0 ELSE 1]
=============================================================================
