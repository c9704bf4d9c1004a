----------------------------- MODULE DecisionRule -----------------------------
(***************************************************************************)
(* The alpha/beta decision rule of aegean/decision_engine.py as operators: *)
(* one step of DecisionEngine, without its state.                          *)
(*                                                                         *)
(* Outputs are numbers, in the order of _sort_key; 0 is Python's None,     *)
(* which the engine uses both as an output and as "no candidate".          *)
(***************************************************************************)
EXTENDS Integers, FiniteSets

None == 0

\* The outputs of a round, or of a refinement set: outs[i] for who, or whatever
\* position, contributed it.
ValuesOf(outs) == {outs[i] : i \in DOMAIN outs}

\* The size of v's cluster (cluster_by_alpha_equivalence under ==).
Support(outs, v) == Cardinality({i \in DOMAIN outs : outs[i] = v})

\* Fault: one supporter too few is enough.
EligibleOneShort(prev, outs, alpha) ==
    {v \in ValuesOf(outs) \cap prev : Support(outs, v) >= alpha - 1}

\* Fault: alpha supporters are not enough.
EligibleOneOver(prev, outs, alpha) ==
    {v \in ValuesOf(outs) \cap prev : Support(outs, v) > alpha}

\* eligible_vals: clusters of at least alpha outputs that meet R-bar of the
\* previous round.
Eligible(prev, outs, alpha) ==
    {v \in ValuesOf(outs) \cap prev : Support(outs, v) >= alpha}

\* chosen: min(eligible_vals, key=_sort_key).
Least(S) == CHOOSE v \in S : \A w \in S : v <= w

\* Fault: an overturned candidate keeps the count of the old one.
StabilityKept(candidate, stability, chosen) ==
    IF candidate = None THEN 1 ELSE stability + 1

\* self._stability after a step that chose a value.
Stability(candidate, stability, chosen) ==
    IF candidate = None \/ candidate # chosen THEN 1 ELSE stability + 1

NoDecision ==
    [committed |-> FALSE, value |-> None, stability |-> 0, eligible |-> None,
     overturned |-> FALSE]

\* DecisionStepResult of a step from <<candidate, stability>>.
Decision(candidate, stability, prev, outs, alpha, beta) ==
    LET eligible == Eligible(prev, outs, alpha)
        chosen == Least(eligible)
        s == Stability(candidate, stability, chosen)
    IN  IF eligible = {} THEN NoDecision
        ELSE [committed |-> s >= beta,
              value |-> IF s >= beta THEN chosen ELSE None,
              stability |-> s,
              eligible |-> chosen,
              overturned |-> candidate # None /\ candidate # chosen]
===============================================================================
