------------------------- MODULE MCRoundCollection -------------------------
(* Instances of RoundCollection for TLC.                                     *)
EXTENDS RoundCollection, TLC

CONSTANTS a1, a2, a3

\* a1 comes from an older session in which it accepted round 2.
OneStale == [a \in Agents |-> IF a = a1 THEN 2 ELSE 0]
=============================================================================
