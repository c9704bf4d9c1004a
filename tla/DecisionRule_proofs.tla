------------------------- MODULE DecisionRule_proofs -------------------------
(***************************************************************************)
(* Lemmas about one step of the decision rule, for the modules that take   *)
(* such steps.                                                             *)
(***************************************************************************)
EXTENDS DecisionRule, Sequences, FiniteSetTheorems, WellFoundedInduction, TLAPS

\* With alpha above half of the outputs, no two clusters are large enough: the
\* order of _sort_key decides nothing (decision_engine.py:119).
THEOREM AtMostOneEligible ==
    ASSUME NEW outs, NEW prev, NEW alpha \in Nat,
           IsFiniteSet(DOMAIN outs),
           2 * alpha > Cardinality(DOMAIN outs),
           NEW v \in Eligible(prev, outs, alpha),
           NEW w \in Eligible(prev, outs, alpha)
    PROVE  v = w
<1> DEFINE D == DOMAIN outs
           V == {i \in D : outs[i] = v}
           W == {i \in D : outs[i] = w}
<1>1. Cardinality(V) >= alpha /\ Cardinality(W) >= alpha
  BY DEF Eligible, Support
<1>2. IsFiniteSet(V) /\ IsFiniteSet(W) /\ IsFiniteSet(V \cup W) /\ IsFiniteSet(V \cap W)
  BY FS_Subset, FS_Union
<1>3. Cardinality(V \cup W) = Cardinality(V) + Cardinality(W) - Cardinality(V \cap W)
  BY <1>2, FS_Union
<1>4. Cardinality(V \cup W) <= Cardinality(D)
  BY FS_Subset
<1>5. /\ Cardinality(V) \in Nat /\ Cardinality(W) \in Nat /\ Cardinality(V \cap W) \in Nat
      /\ Cardinality(D) \in Nat /\ Cardinality(V \cup W) \in Nat
  BY <1>2, FS_CardinalityType
<1>6. Cardinality(V \cap W) # 0
  BY <1>1, <1>3, <1>4, <1>5
<1>7. V \cap W # {}
  BY <1>6, FS_EmptySet
<1> QED
  BY <1>7

\* min() of the eligible values is one of them.
LEMMA LeastInSet ==
    ASSUME NEW S \in SUBSET Nat, S # {}
    PROVE  Least(S) \in S
<1>1. PICK n \in S : \A m \in S : ~(<<m, n>> \in OpToRel(<, Nat))
  BY NatLessThanWellFounded, WFMin
<1>2. ASSUME NEW m \in S PROVE n <= m
  <2>1. <<m, n>> \in OpToRel(<, Nat) <=> m < n
    BY DEF OpToRel
  <2>2. ~(m < n)
    BY <1>1, <2>1, Zenon
  <2> QED
    BY <2>2
<1> QED
  BY <1>2 DEF Least

\* What a step decides when nothing is eligible, ...
LEMMA NothingEligible ==
    ASSUME NEW c, NEW s, NEW prev, NEW outs, NEW alpha, NEW beta,
           Eligible(prev, outs, alpha) = {}
    PROVE  Decision(c, s, prev, outs, alpha, beta) = NoDecision
BY DEF Decision

\* ... and when something is.
LEMMA SomethingEligible ==
    ASSUME NEW c, NEW s \in Nat, NEW prev, NEW outs, NEW alpha, NEW beta \in Nat,
           Eligible(prev, outs, alpha) # {},
           Eligible(prev, outs, alpha) \subseteq Nat
    PROVE  \E v \in Eligible(prev, outs, alpha) :
               /\ Decision(c, s, prev, outs, alpha, beta) =
                      [committed |-> Stability(c, s, v) >= beta,
                       value |-> IF Stability(c, s, v) >= beta THEN v ELSE None,
                       stability |-> Stability(c, s, v),
                       eligible |-> v,
                       overturned |-> c # None /\ c # v]
               /\ Stability(c, s, v) \in Nat \ {0}
<1> DEFINE v == Least(Eligible(prev, outs, alpha))
<1>1. v \in Eligible(prev, outs, alpha)
  BY LeastInSet
<1>2. Stability(c, s, v) \in Nat \ {0}
  BY DEF Stability
<1>3. Decision(c, s, prev, outs, alpha, beta) =
          [committed |-> Stability(c, s, v) >= beta,
           value |-> IF Stability(c, s, v) >= beta THEN v ELSE None,
           stability |-> Stability(c, s, v),
           eligible |-> v,
           overturned |-> c # None /\ c # v]
  BY DEF Decision
<1> HIDE DEF v
<1> QED  BY <1>1, <1>2, <1>3
-----------------------------------------------------------------------------
(* One counter in place of a history of candidates, -1 where there was none. *)

\* s is the length of the run of c at the end of l; a run of None, which the engine
\* forgets, has the length 1.
Counts(l, c, s) ==
    /\ s <= Len(l)
    /\ \A i \in (Len(l) - s + 1)..Len(l) : l[i] = c
    /\ c # None => s > 0 /\ (s < Len(l) => l[Len(l) - s] # c)
    /\ c = None => s <= 1
    /\ (s = 0 /\ Len(l) > 0) => l[Len(l)] = -1

LEMMA NothingCounted == Counts(<<>>, None, 0)
BY DEF Counts

\* A step without an eligible value ends the run, ...
LEMMA CountBroken ==
    ASSUME NEW l \in Seq(Int)
    PROVE  Counts(Append(l, -1), None, 0)
BY DEF Counts

\* ... and one that chooses v starts a run or continues it, as Stability says.
LEMMA CountGoesOn ==
    ASSUME NEW l \in Seq(Int), NEW c, NEW s \in Nat, Counts(l, c, s), NEW v \in Nat
    PROVE  Counts(Append(l, v), v, Stability(c, s, v))
<1> DEFINE h == Append(l, v)
<1>1. /\ Len(l) \in Nat /\ Len(h) = Len(l) + 1 /\ h[Len(l) + 1] = v
      /\ \A i \in 1..Len(l) : h[i] = l[i]
  OBVIOUS
<1> HIDE DEF h
<1>2. CASE c = None \/ c # v
  <2>1. Stability(c, s, v) = 1
    BY <1>2 DEF Stability
  <2>2. v # None /\ Len(l) > 0 => l[Len(l)] # v
    <3>1. CASE s = 0
      BY <3>1 DEF Counts
    <3>2. CASE s # 0
      <4>1. Len(l) > 0 => Len(l) \in (Len(l) - s + 1)..Len(l)
        BY <1>1, <3>2
      <4> QED  BY <1>2, <4>1 DEF Counts
    <3> QED  BY <3>1, <3>2
  <2> QED  BY <1>1, <2>1, <2>2 DEF Counts, h
<1>3. CASE c # None /\ c = v
  <2>1. Stability(c, s, v) = s + 1 /\ s > 0
    BY <1>3 DEF Stability, Counts
  <2>2. ASSUME NEW i \in (Len(h) - (s + 1) + 1)..Len(h) PROVE h[i] = v
    <3>1. CASE i = Len(l) + 1
      BY <1>1, <3>1
    <3>2. CASE i # Len(l) + 1
      <4>1. i \in (Len(l) - s + 1)..Len(l) /\ i \in 1..Len(l)
        BY <1>1, <3>2 DEF Counts
      <4> QED  BY <1>1, <1>3, <4>1 DEF Counts
    <3> QED  BY <3>1, <3>2
  <2>3. s + 1 < Len(h) => h[Len(h) - (s + 1)] # v
    <3> HAVE s + 1 < Len(h)
    <3>1. Len(h) - (s + 1) = Len(l) - s /\ Len(l) - s \in 1..Len(l) /\ s < Len(l)
      BY <1>1
    <3> QED  BY <1>1, <1>3, <3>1 DEF Counts
  <2>4. s + 1 <= Len(h)
    BY <1>1 DEF Counts
  <2>5. Counts(h, v, s + 1)
    BY <1>1, <1>3, <2>1, <2>2, <2>3, <2>4 DEF Counts
  <2> QED  BY <2>1, <2>5 DEF h
<1> QED  BY <1>2, <1>3

\* Whether the counter has reached beta can be read off the history.
LEMMA CountDecides ==
    ASSUME NEW l \in Seq(Int), NEW c, NEW s \in Nat \ {0}, Counts(l, c, s),
           NEW beta \in Nat \ {0}
    PROVE  s >= beta <=>
               /\ c = None => beta = 1
               /\ Len(l) >= beta
               /\ \A i \in (Len(l) - beta + 1)..Len(l) : l[i] = c
<1>1. Len(l) \in Nat
  OBVIOUS
<1>2. ASSUME s >= beta
      PROVE  /\ c = None => beta = 1
             /\ Len(l) >= beta
             /\ \A i \in (Len(l) - beta + 1)..Len(l) : l[i] = c
  BY <1>1, <1>2 DEF Counts
<1>3. ASSUME s < beta, c = None => beta = 1, Len(l) >= beta,
             \A i \in (Len(l) - beta + 1)..Len(l) : l[i] = c
      PROVE  FALSE
  <2>1. c # None
    BY <1>3
  <2>2. s < Len(l) /\ Len(l) - s \in (Len(l) - beta + 1)..Len(l)
    BY <1>1, <1>3
  <2> QED  BY <1>3, <2>1, <2>2 DEF Counts
<1> QED  BY <1>2, <1>3
=============================================================================
