---------------------------- MODULE BetaStability ----------------------------
(***************************************************************************)
(* What the decision engine promises across rounds: it keeps the candidate *)
(* of every step of the current term, and decides a value exactly when the *)
(* last Beta steps all had it as their candidate.  A fleeting value is the *)
(* exception: the engine does not remember having chosen it, so that no    *)
(* more than one step ever speaks for it (Python's None).                  *)
(***************************************************************************)
EXTENDS Integers, Sequences

CONSTANTS
    Values,   \* the outputs a step can choose
    Bottom,   \* no admissible candidate
    Fleeting, \* the values that are forgotten as soon as they are chosen
    Beta      \* AegeanConfig.beta

VARIABLES
    log,      \* the candidates of the current term, oldest first
    verdict   \* the value decided by the last call, or Bottom

\* The last Beta candidates of l are v, and one is enough if v is fleeting.
StableIn(l, v) ==
    /\ v \in Fleeting => Beta = 1
    /\ Len(l) >= Beta
    /\ \A i \in (Len(l) - Beta + 1)..Len(l) : l[i] = v

Init == log = <<>> /\ verdict = Bottom

Observe(v) ==
    /\ log' = Append(log, v)
    /\ verdict' = IF v # Bottom /\ StableIn(log', v) THEN v ELSE Bottom

NewTerm == log' = <<>> /\ verdict' = Bottom

\* The first term number is announced: nothing was observed in an older term.
FirstTerm == verdict' = Bottom /\ UNCHANGED log

Next == (\E v \in Values \cup {Bottom} : Observe(v)) \/ NewTerm \/ FirstTerm

Spec == Init /\ [][Next]_<<log, verdict>>
=============================================================================
