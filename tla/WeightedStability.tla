-------------------------- MODULE WeightedStability --------------------------
(***************************************************************************)
(* What the weighted stability of semantic mode promises across rounds: of *)
(* every round that chose an output it keeps the output and its weight,    *)
(* and it decides an output exactly when the rounds that chose it without  *)
(* interruption, up to the last one, weigh enough together.                *)
(***************************************************************************)
EXTENDS Integers, Sequences, Functions

CONSTANTS
    Values,     \* the outputs a round can choose
    Weights,    \* the weights a choice can have
    Bottom,     \* nothing is decided
    Threshold   \* stability_score_threshold

VARIABLES
    log,        \* what the rounds chose, with what weight, oldest first
    verdict     \* the output decided by the last call, or Bottom

\* The entries at the end of l that have the value of the last one, back to the
\* first with another value, ...
LastRun(l) == {i \in 1..Len(l) : \A j \in i..Len(l) : l[j].value = l[Len(l)].value}

\* ... and what they weigh together.
RunWeight(l) == SumFunction([i \in LastRun(l) |-> l[i].weight])

Init == log = <<>> /\ verdict = Bottom

Observe(v, w) ==
    /\ log' = Append(log, [value |-> v, weight |-> w])
    /\ verdict' = IF RunWeight(log') >= Threshold THEN v ELSE Bottom

\* A round without a choice neither adds to a run nor ends it.
Skip == verdict' = Bottom /\ UNCHANGED log

Next == (\E v \in Values : \E w \in Weights : Observe(v, w)) \/ Skip

Spec == Init /\ [][Next]_<<log, verdict>>
=============================================================================
