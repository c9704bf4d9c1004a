------------------------ MODULE DecisionEngine_proofs ------------------------
(***************************************************************************)
(* Proofs about DecisionEngine.                                            *)
(***************************************************************************)
EXTENDS DecisionEngine, DecisionRule_proofs

-----------------------------------------------------------------------------
(* The engine.                                                              *)

IInv == TypeOK /\ CountIsRun

LEMMA EligibleAreOutputs ==
    ASSUME NEW prev, NEW outs \in Rounds
    PROVE  Eligible(prev, outs, Alpha) \subseteq Outputs
BY DEF Eligible, ValuesOf, Rounds

LEMMA InitIInv == Init => IInv
BY EngineAssumption DEF Init, IInv, TypeOK, CountIsRun, NoDecision, Results, None, Bottom

\* A step without an admissible candidate.
LEMMA BottomStep ==
    ASSUME IInv, NEW prev, NEW outs \in Rounds, Step(prev, outs),
           Eligible(prev, outs, Alpha) = {}
    PROVE  /\ hist' = Append(hist, Bottom)
           /\ candidate' = None /\ stability' = 0
           /\ result' = NoDecision /\ termNum' = termNum
BY DEF Step, Decision, NoDecision

\* A step that chooses a value.
LEMMA ChoosingStep ==
    ASSUME IInv, NEW prev, NEW outs \in Rounds, Step(prev, outs),
           Eligible(prev, outs, Alpha) # {}
    PROVE  /\ candidate' \in Outputs
           /\ stability' = Stability(candidate, stability, candidate')
           /\ stability' \in Nat \ {0}
           /\ hist' = Append(hist, candidate')
           /\ result' = [committed |-> stability' >= Beta,
                         value |-> IF stability' >= Beta THEN candidate' ELSE None,
                         stability |-> stability',
                         eligible |-> candidate',
                         overturned |-> candidate # None /\ candidate # candidate']
           /\ termNum' = termNum
<1> DEFINE E == Eligible(prev, outs, Alpha)
           c == Least(E)
           s == Stability(candidate, stability, c)
<1>1. c \in Outputs
  BY LeastInSet, EligibleAreOutputs, EngineAssumption
<1>2. s \in Nat \ {0}
  BY DEF Stability, IInv, TypeOK
<1>3. Decision(candidate, stability, prev, outs, Alpha, Beta) =
        [committed |-> s >= Beta, value |-> IF s >= Beta THEN c ELSE None,
         stability |-> s, eligible |-> c,
         overturned |-> candidate # None /\ candidate # c]
  BY DEF Decision
<1> HIDE DEF c, s
<1>4. candidate' = c /\ stability' = s /\ hist' = Append(hist, c) /\ termNum' = termNum
  BY <1>2, <1>3 DEF Step
<1>5. result' = Decision(candidate, stability, prev, outs, Alpha, Beta)
  BY DEF Step
<1> QED
  BY <1>1, <1>2, <1>3, <1>4, <1>5 DEF s

\* The property of the runs is the predicate on histories of DecisionRule_proofs.
LEMMA CountIsRunCounts ==
    /\ TypeOK => hist \in Seq(Int) /\ (CountIsRun <=> Counts(hist, candidate, stability))
    /\ TypeOK' => hist' \in Seq(Int) /\ (CountIsRun' <=> Counts(hist', candidate', stability'))
<1>1. ASSUME NEW h \in Seq(Outputs \cup {Bottom})
      PROVE  h \in Seq(Int) /\ Len(h) \in Nat /\ (h # <<>> <=> Len(h) > 0)
  <2>1. Outputs \cup {Bottom} \subseteq Int
    BY EngineAssumption DEF Bottom
  <2> QED  BY <2>1
<1>2. TypeOK => hist \in Seq(Int) /\ (CountIsRun <=> Counts(hist, candidate, stability))
  BY <1>1 DEF TypeOK, CountIsRun, Counts, Bottom
<1>3. TypeOK' => hist' \in Seq(Int) /\ (CountIsRun' <=> Counts(hist', candidate', stability'))
  BY <1>1 DEF TypeOK, CountIsRun, Counts, Bottom
<1> QED  BY <1>2, <1>3

LEMMA StepInv ==
    ASSUME IInv, NEW prev, NEW outs \in Rounds, Step(prev, outs)
    PROVE  IInv'
<1>0. TypeOK /\ hist \in Seq(Int) /\ Counts(hist, candidate, stability)
  BY CountIsRunCounts DEF IInv
<1>1. CASE Eligible(prev, outs, Alpha) = {}
  <2>1. /\ hist' = Append(hist, Bottom) /\ candidate' = None /\ stability' = 0
        /\ result' = NoDecision /\ termNum' = termNum
    BY <1>1, BottomStep
  <2>2. TypeOK'
    BY <1>0, <2>1 DEF TypeOK, NoDecision, Results
  <2>3. Counts(hist', candidate', stability')
    BY <1>0, <2>1, CountBroken DEF Bottom
  <2> QED
    BY <2>2, <2>3, CountIsRunCounts DEF IInv
<1>2. CASE Eligible(prev, outs, Alpha) # {}
  <2>1. /\ candidate' \in Outputs
        /\ stability' = Stability(candidate, stability, candidate')
        /\ hist' = Append(hist, candidate')
        /\ stability' \in Nat \ {0}
        /\ termNum' = termNum
        /\ result' = [committed |-> stability' >= Beta,
                      value |-> IF stability' >= Beta THEN candidate' ELSE None,
                      stability |-> stability',
                      eligible |-> candidate',
                      overturned |-> candidate # None /\ candidate # candidate']
    BY <1>2, ChoosingStep
  <2>2. result' \in Results
    <3>1. (stability' >= Beta) \in BOOLEAN /\ (candidate # None /\ candidate # candidate') \in BOOLEAN
      OBVIOUS
    <3>2. (IF stability' >= Beta THEN candidate' ELSE None) \in Outputs \cup {None}
      BY <2>1
    <3> QED
      BY <2>1, <3>1, <3>2 DEF Results
  <2>3. TypeOK'
    BY <1>0, <2>1, <2>2 DEF TypeOK
  <2>4. Counts(hist', candidate', stability')
    <3>1. stability \in Nat /\ candidate' \in Nat
      BY <1>0, <2>1, EngineAssumption DEF TypeOK
    <3> QED
      BY <1>0, <2>1, <3>1, CountGoesOn
  <2> QED
    BY <2>3, <2>4, CountIsRunCounts DEF IInv
<1> QED
  BY <1>1, <1>2

LEMMA NewTermInv ==
    ASSUME IInv, NEW t \in 1..MaxTerm, FirstTerm(t) \/ NewTerm(t)
    PROVE  IInv'
<1>1. CASE FirstTerm(t)
  BY <1>1, EngineAssumption DEF FirstTerm, IInv, TypeOK, CountIsRun, NoDecision, Results
<1>2. CASE NewTerm(t)
  BY <1>2, EngineAssumption
     DEF NewTerm, IInv, TypeOK, CountIsRun, NoDecision, Results, None, Bottom
<1> QED
  BY <1>1, <1>2

LEMMA NextIInv == IInv /\ [Next]_vars => IInv'
<1> SUFFICES ASSUME IInv, [Next]_vars PROVE IInv'
  OBVIOUS
<1>1. CASE UNCHANGED vars
  BY <1>1 DEF vars, IInv, TypeOK, CountIsRun
<1>2. CASE Next
  BY <1>2, StepInv, NewTermInv DEF Next
<1> QED
  BY <1>1, <1>2

\* The engine's counter is the length of the candidate's run, whatever rounds it
\* is shown (DecisionEngine.step, DecisionEngine.on_new_term).
THEOREM CounterIsTheRun == Spec => []CountIsRun
<1>1. IInv => CountIsRun
  BY DEF IInv
<1> QED
  BY InitIInv, NextIInv, <1>1, PTL DEF Spec

\* The state of the engine always has its type.
THEOREM TypeCorrect == Spec => []TypeOK
<1>1. IInv => TypeOK
  BY DEF IInv
<1> QED
  BY InitIInv, NextIInv, <1>1, PTL DEF Spec
-----------------------------------------------------------------------------
(* Refinement of BetaStability.                                            *)

\* The engine, with its one candidate and one counter, implements the rule that
\* looks at the last Beta candidates of the term, None among them
\* (DecisionEngine.step, DecisionEngine.on_new_term).
THEOREM Refinement == Spec => ImplementsBetaStability
<1> DEFINE verdict == IF result.committed THEN result.value ELSE Bottom
<1>1. Init => Beta_!Init
  BY DEF Init, Beta_!Init, NoDecision
<1>2. ASSUME IInv, IInv', [Next]_vars PROVE [Beta_!Next]_<<hist, verdict>>
  <2>1. CASE UNCHANGED vars
    BY <2>1 DEF vars
  <2>2. ASSUME NEW t \in 1..MaxTerm, FirstTerm(t) \/ NewTerm(t)
        PROVE  Beta_!FirstTerm \/ Beta_!NewTerm
    BY <2>2 DEF FirstTerm, NewTerm, NoDecision, Beta_!FirstTerm, Beta_!NewTerm
  <2>3. ASSUME NEW prev, NEW outs \in Rounds, Step(prev, outs)
        PROVE  \E v \in Outputs \cup {Bottom} : Beta_!Observe(v)
    <3>1. CASE Eligible(prev, outs, Alpha) = {}
      <4>1. Beta_!Observe(Bottom)
        BY <1>2, <2>3, <3>1, BottomStep DEF Beta_!Observe, NoDecision
      <4> QED
        BY <4>1
    <3>2. CASE Eligible(prev, outs, Alpha) # {}
      <4>0. /\ candidate' \in Outputs /\ stability' \in Nat \ {0}
            /\ hist' = Append(hist, candidate')
            /\ result' = [committed |-> stability' >= Beta,
                          value |-> IF stability' >= Beta THEN candidate' ELSE None,
                          stability |-> stability',
                          eligible |-> candidate',
                          overturned |-> candidate # None /\ candidate # candidate']
        BY <1>2, <2>3, <3>2, ChoosingStep
      <4>1. verdict' = IF stability' >= Beta THEN candidate' ELSE Bottom
        <5>1. CASE stability' >= Beta
          <6>1. result'.committed = TRUE /\ result'.value = candidate'
            BY <4>0, <5>1
          <6> QED
            BY <5>1, <6>1
        <5>2. CASE ~(stability' >= Beta)
          <6>1. result'.committed = (stability' >= Beta)
            BY <4>0
          <6>2. (stability' >= Beta) = FALSE
            BY <5>2
          <6> QED
            BY <5>2, <6>1, <6>2
        <5> QED
          BY <5>1, <5>2
      <4>5. candidate' # Bottom
        BY <4>0, EngineAssumption DEF Bottom
      <4>2. stability' >= Beta <=> Beta_!StableIn(hist', candidate')
        <5>1. hist' \in Seq(Int) /\ Counts(hist', candidate', stability')
          BY <1>2, CountIsRunCounts DEF IInv
        <5>2. Beta \in Nat \ {0} /\ stability' \in Nat \ {0}
          BY <4>0, EngineAssumption
        <5>3. Beta_!StableIn(hist', candidate') <=>
                 /\ candidate' = None => Beta = 1
                 /\ Len(hist') >= Beta
                 /\ \A i \in (Len(hist') - Beta + 1)..Len(hist') : hist'[i] = candidate'
          BY DEF Beta_!StableIn
        <5> QED
          BY <5>1, <5>2, <5>3, CountDecides
      <4>3. Beta_!Observe(candidate')
        BY <4>0, <4>1, <4>5, <4>2 DEF Beta_!Observe
      <4> QED
        BY <4>0, <4>3
    <3> QED
      BY <3>1, <3>2
  <2> QED
    BY <1>2, <2>1, <2>2, <2>3 DEF Next, Beta_!Next
<1> QED
  BY <1>1, <1>2, InitIInv, NextIInv, PTL DEF Spec, ImplementsBetaStability, Beta_!Spec
=============================================================================
