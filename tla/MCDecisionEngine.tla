-------------------------- MODULE MCDecisionEngine --------------------------
(* Instances of DecisionEngine for TLC: three agents, two outputs and None.  *)
EXTENDS DecisionEngine

CONSTANTS a1, a2, a3

=============================================================================
