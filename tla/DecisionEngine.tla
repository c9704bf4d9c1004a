--------------------------- MODULE DecisionEngine ---------------------------
(***************************************************************************)
(* aegean/decision_engine.py: the stateful DecisionEngine, called with any *)
(* previous refinement set and any outputs, and told of any new term.      *)
(* alpha_same and beta_same are their defaults, equality.                  *)
(***************************************************************************)
EXTENDS DecisionRule, Sequences

CONSTANTS
    Agents,    \* who may contribute an output to a round
    Outputs,   \* the outputs an agent may return
    Alpha, Beta,
    MaxTerm,   \* bound: term numbers announced
    MaxSteps   \* bound: steps within one term

ASSUME EngineAssumption ==
    /\ Outputs \subseteq Nat
    /\ IsFiniteSet(Agents)
    /\ Alpha \in Nat \ {0}   \* the constructor raises ValueError otherwise
    /\ Beta \in Nat \ {0}
    /\ MaxTerm \in Nat
    /\ MaxSteps \in Nat

VARIABLES
    termNum,    \* _term_num, 0 for None
    candidate,  \* _candidate
    stability,  \* _stability
    result,     \* the DecisionStepResult of the last call
    hist        \* history: the candidate of every step of this term

vars == <<termNum, candidate, stability, result, hist>>

Bottom == -1

\* The outputs of the agents that were accepted in a round.
Rounds == UNION {[S -> Outputs] : S \in SUBSET Agents}

Init ==
    /\ termNum = 0
    /\ candidate = None
    /\ stability = 0
    /\ result = NoDecision
    /\ hist = <<>>

\* on_new_term for the first time: only the number is noted.
FirstTerm(t) ==
    /\ termNum = 0
    /\ termNum' = t
    /\ result' = NoDecision
    /\ UNCHANGED <<candidate, stability, hist>>

\* Fault: the count survives the change of term.
NewTermKeepsCount(t) ==
    /\ termNum # 0
    /\ t # termNum
    /\ termNum' = t
    /\ result' = NoDecision
    /\ hist' = <<>>
    /\ UNCHANGED <<candidate, stability>>

\* on_new_term with another number: stability does not cross the term boundary.
NewTerm(t) ==
    /\ termNum # 0
    /\ t # termNum
    /\ termNum' = t
    /\ candidate' = None
    /\ stability' = 0
    /\ result' = NoDecision
    /\ hist' = <<>>

\* step(r_bar_prev, current_round_outputs): alpha within the round.
Step(prev, outs) ==
    LET d == Decision(candidate, stability, prev, outs, Alpha, Beta) IN
    /\ Len(hist) < MaxSteps
    /\ candidate' = d.eligible
    /\ stability' = d.stability
    /\ result' = d
    /\ hist' = Append(hist, IF d.stability = 0 THEN Bottom ELSE d.eligible)
    /\ UNCHANGED termNum

Next ==
    \/ \E t \in 1..MaxTerm : FirstTerm(t) \/ NewTerm(t)
    \/ \E prev \in SUBSET Outputs, outs \in Rounds : Step(prev, outs)

Spec == Init /\ [][Next]_vars
-----------------------------------------------------------------------------
(* Properties.                                                             *)

Results ==
    [committed : BOOLEAN, value : Outputs \cup {None}, stability : Nat,
     eligible : Outputs \cup {None}, overturned : BOOLEAN]

TypeOK ==
    /\ termNum \in 0..MaxTerm
    /\ candidate \in Outputs \cup {None}
    /\ stability \in Nat
    /\ result \in Results
    /\ hist \in Seq(Outputs \cup {Bottom})

\* The counter is the length of the run of the candidate at the end of the
\* steps of this term: not shorter, not longer, and never across an overturned
\* candidate or a step without one.  None, which also means "no candidate", is
\* counted anew by every step that chooses it (decision_engine.py:122).
CountIsRun ==
    /\ stability <= Len(hist)
    /\ \A i \in (Len(hist) - stability + 1)..Len(hist) : hist[i] = candidate
    /\ candidate # None =>
           /\ stability > 0
           /\ stability < Len(hist) => hist[Len(hist) - stability] # candidate
    /\ candidate = None => stability <= 1
    /\ (stability = 0 /\ hist # <<>>) => hist[Len(hist)] = Bottom

\* The engine, which keeps one candidate and one counter, decides exactly as if
\* it kept every candidate of the term and looked at the last Beta of them.
Beta_ == INSTANCE BetaStability
           WITH Values <- Outputs, Fleeting <- {None}, log <- hist,
                verdict <- IF result.committed THEN result.value ELSE Bottom
ImplementsBetaStability == Beta_!Spec
=============================================================================
