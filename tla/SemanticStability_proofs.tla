---------------------- MODULE SemanticStability_proofs ----------------------
(***************************************************************************)
(* Proofs about SemanticStability.                                         *)
(***************************************************************************)
EXTENDS SemanticStability, FiniteSetTheorems, WellFoundedInduction, TLAPS

-----------------------------------------------------------------------------
(* Sums over finite sets.  SumFunctionOnSet is a recursive function on the  *)
(* subsets of the set; every induction over them is a smallest              *)
(* counterexample.                                                          *)

\* The element a sum takes first.
First(T) == CHOOSE x \in T : TRUE

\* g is the sum of f over the subsets of S.
SumsUp(f, S, g) ==
    g = [T \in SUBSET S |-> IF T = {} THEN 0 ELSE f[First(T)] + g[T \ {First(T)}]]

\* A non-empty set of subsets of a finite set has a minimal one.
LEMMA SmallestSubset ==
    ASSUME NEW S, IsFiniteSet(S), NEW Bad \in SUBSET (SUBSET S), Bad # {}
    PROVE  \E T \in Bad : \A U \in SUBSET T : U # T => U \notin Bad
<1>1. IsWellFoundedOn(StrictSubsetOrdering(S), SUBSET S)
  BY FS_StrictSubsetOrderingWellFounded, FS_FiniteSubsetsOfFinite
<1>2. PICK T \in Bad : \A U \in Bad : ~(<<U, T>> \in StrictSubsetOrdering(S))
  BY <1>1, WFMin
<1>3. ASSUME NEW U \in SUBSET T, U # T, U \in Bad PROVE FALSE
  <2>1. <<U, T>> \in StrictSubsetOrdering(S)
    BY <1>3 DEF StrictSubsetOrdering
  <2> QED
    BY <1>2, <1>3, <2>1
<1> QED
  BY <1>2, <1>3

\* Two such functions agree where both are defined, ...
LEMMA SumsAgree ==
    ASSUME NEW f, NEW S, IsFiniteSet(S), NEW U \in SUBSET S, NEW V \in SUBSET S,
           NEW g, NEW h, SumsUp(f, U, g), SumsUp(f, V, h),
           NEW T \in SUBSET (U \cap V)
    PROVE  g[T] = h[T]
<1> DEFINE Bad == {W \in SUBSET (U \cap V) : g[W] # h[W]}
<1>1. ASSUME Bad # {} PROVE FALSE
  <2>1. PICK W \in Bad : \A X \in SUBSET W : X # W => X \notin Bad
    <3>1. Bad \in SUBSET (SUBSET S)
      OBVIOUS
    <3> HIDE DEF Bad
    <3> QED
      BY <1>1, <3>1, SmallestSubset
  <2>2. W # {}
    BY DEF SumsUp
  <2> DEFINE X == W \ {First(W)}
  <2>3. First(W) \in W
    BY <2>2 DEF First
  <2>4. g[X] = h[X]
    BY <2>1, <2>3
  <2>5. g[W] = f[First(W)] + g[X] /\ h[W] = f[First(W)] + h[X]
    BY <2>2 DEF SumsUp
  <2> QED
    BY <2>1, <2>4, <2>5
<1> QED
  BY <1>1

\* ... and there is one for every finite set.
LEMMA SumsExist ==
    ASSUME NEW f, NEW S, IsFiniteSet(S)
    PROVE  \E g : SumsUp(f, S, g)
<1> DEFINE Bad == {U \in SUBSET S : ~ \E g : SumsUp(f, U, g)}
<1>1. ASSUME Bad # {} PROVE FALSE
  <2>1. PICK U \in Bad : \A V \in SUBSET U : V # U => V \notin Bad
    <3>1. Bad \in SUBSET (SUBSET S)
      OBVIOUS
    <3> HIDE DEF Bad
    <3> QED
      BY <1>1, <3>1, SmallestSubset
  <2> DEFINE G == [V \in (SUBSET U) \ {U} |-> CHOOSE g : SumsUp(f, V, g)]
             h == [T \in SUBSET U |->
                     IF T = {} THEN 0
                     ELSE IF T = U THEN f[First(U)] + G[U \ {First(U)}][U \ {First(U)}]
                     ELSE G[T][T]]
  <2>2. ASSUME NEW V \in SUBSET U, V # U PROVE SumsUp(f, V, G[V])
    <3>1. \E g : SumsUp(f, V, g)
      BY <2>1, <2>2
    <3> QED
      BY <3>1, <2>2
  <2>3. ASSUME NEW T \in SUBSET U, T # {}
        PROVE  h[T] = f[First(T)] + h[T \ {First(T)}]
    <3> DEFINE X == T \ {First(T)}
    <3>1. First(T) \in T
      BY <2>3 DEF First
    <3>2. X \in SUBSET U /\ X # U /\ X # T
      BY <3>1
    <3>3. h[X] = G[X][X]
      <4>1. CASE X = {}
        <5>1. SumsUp(f, X, G[X])
          BY <3>2, <2>2
        <5>2. G[X][X] = 0
          BY <5>1, <4>1 DEF SumsUp
        <5> QED
          BY <4>1, <5>2
      <4>2. CASE X # {}
        BY <3>2, <4>2
      <4> QED
        BY <4>1, <4>2
    <3>4. CASE T = U
      BY <3>2, <3>3, <3>4, <2>3
    <3>5. CASE T # U
      <4>1. SumsUp(f, T, G[T]) /\ SumsUp(f, X, G[X])
        BY <2>2, <3>2, <3>5
      <4>2. G[T][T] = f[First(T)] + G[T][X]
        BY <4>1, <2>3 DEF SumsUp
      <4>3. G[T][X] = G[X][X]
        <5> HIDE DEF G, X
        <5>1. T \in SUBSET S /\ X \in SUBSET S /\ X \in SUBSET (T \cap X)
          BY DEF X
        <5> QED
          BY <4>1, <5>1, SumsAgree
      <4>4. h[T] = G[T][T]
        BY <2>3, <3>5
      <4> QED
        BY <3>3, <4>2, <4>3, <4>4
    <3> QED
      BY <3>4, <3>5
  <2>4. SumsUp(f, U, h)
    <3>1. \A T \in SUBSET U : h[T] = IF T = {} THEN 0 ELSE f[First(T)] + h[T \ {First(T)}]
      <4>1. h[{}] = 0
        OBVIOUS
      <4> HIDE DEF h
      <4> QED
        BY <2>3, <4>1
    <3>2. h = [T \in SUBSET U |-> h[T]]
      OBVIOUS
    <3> HIDE DEF h
    <3> QED
      BY <3>1, <3>2 DEF SumsUp
  <2> QED
    BY <2>1, <2>4
<1> QED
  BY <1>1

\* SumFunctionOnSet(f, S) is the value of such a function.
LEMMA SumIsSum ==
    ASSUME NEW f, NEW S, IsFiniteSet(S), NEW g, SumsUp(f, S, g), NEW T \in SUBSET S
    PROVE  SumFunctionOnSet(f, T) = g[T]
<1> DEFINE it == CHOOSE it : it = [s \in SUBSET T |->
                    IF s = {} THEN 0 ELSE f[First(s)] + it[s \ {First(s)}]]
<1>1. SumFunctionOnSet(f, T) = it[T]
  BY DEF SumFunctionOnSet, FoldFunctionOnSet, MapThenFoldSet, First
<1>2. SumsUp(f, T, it)
  <2>1. IsFiniteSet(T)
    BY FS_Subset
  <2>2. PICK h : SumsUp(f, T, h)
    BY <2>1, SumsExist
  <2>3. h = [s \in SUBSET T |->
                    IF s = {} THEN 0 ELSE f[First(s)] + h[s \ {First(s)}]]
    BY <2>2 DEF SumsUp
  <2>4. it = [s \in SUBSET T |->
                    IF s = {} THEN 0 ELSE f[First(s)] + it[s \ {First(s)}]]
    BY <2>3, Zenon
  <2> HIDE DEF it
  <2> QED
    BY <2>4, Zenon DEF SumsUp
<1> QED
  BY <1>1, <1>2, SumsAgree

\* The two cases of a sum, ...
LEMMA SumEmpty == ASSUME NEW f PROVE SumFunctionOnSet(f, {}) = 0
<1>1. IsFiniteSet({})
  BY FS_EmptySet
<1>2. PICK g : SumsUp(f, {}, g)
  BY <1>1, SumsExist
<1>3. SumFunctionOnSet(f, {}) = g[{}]
  BY <1>1, <1>2, SumIsSum
<1> QED
  BY <1>2, <1>3 DEF SumsUp

LEMMA SumFirst ==
    ASSUME NEW f, NEW T, IsFiniteSet(T), T # {}
    PROVE  SumFunctionOnSet(f, T) = f[First(T)] + SumFunctionOnSet(f, T \ {First(T)})
<1>1. PICK g : SumsUp(f, T, g)
  BY SumsExist
<1>2. SumFunctionOnSet(f, T) = g[T]
  BY <1>1, SumIsSum
<1>3. SumFunctionOnSet(f, T \ {First(T)}) = g[T \ {First(T)}]
  BY <1>1, SumIsSum
<1> QED
  BY <1>1, <1>2, <1>3 DEF SumsUp

\* ... its type, ...
LEMMA SumType ==
    ASSUME NEW f, NEW S, IsFiniteSet(S), \A x \in S : f[x] \in Int
    PROVE  SumFunctionOnSet(f, S) \in Int
<1> DEFINE Bad == {T \in SUBSET S : SumFunctionOnSet(f, T) \notin Int}
<1>1. ASSUME Bad # {} PROVE FALSE
  <2>1. PICK T \in Bad : \A U \in SUBSET T : U # T => U \notin Bad
    <3>1. Bad \in SUBSET (SUBSET S)
      OBVIOUS
    <3> HIDE DEF Bad
    <3> QED
      BY <1>1, <3>1, SmallestSubset
  <2>2. T # {}
    BY SumEmpty
  <2>3. First(T) \in T
    BY <2>2 DEF First
  <2>4. SumFunctionOnSet(f, T \ {First(T)}) \in Int
    BY <2>1, <2>3
  <2>5. IsFiniteSet(T)
    BY FS_Subset
  <2>6. SumFunctionOnSet(f, T) = f[First(T)] + SumFunctionOnSet(f, T \ {First(T)})
    BY <2>2, <2>5, SumFirst
  <2>7. f[First(T)] \in Int
    BY <2>3
  <2> QED
    BY <2>4, <2>6, <2>7
<1> QED
  BY <1>1

\* ... its bounds, when no summand is further than b from 0, ...
LEMMA SumBound ==
    ASSUME NEW f, NEW S, IsFiniteSet(S), NEW b \in Nat, \A x \in S : f[x] \in -b..b
    PROVE  SumFunctionOnSet(f, S) \in -(b * Cardinality(S))..b * Cardinality(S)
<1> DEFINE Within(T) == SumFunctionOnSet(f, T) \in -(b * Cardinality(T))..b * Cardinality(T)
           Bad == {T \in SUBSET S : ~Within(T)}
<1>1. ASSUME Bad # {} PROVE FALSE
  <2>1. PICK T \in Bad : \A U \in SUBSET T : U # T => U \notin Bad
    <3>1. Bad \in SUBSET (SUBSET S)
      OBVIOUS
    <3> HIDE DEF Bad
    <3> QED
      BY <1>1, <3>1, SmallestSubset
  <2>2. T # {}
    <3>1. Within({})
      BY SumEmpty, FS_EmptySet
    <3> QED
      BY <3>1
  <2>3. First(T) \in T
    BY <2>2 DEF First
  <2> DEFINE U == T \ {First(T)}
  <2>4. Within(U)
    BY <2>1, <2>3
  <2>5. IsFiniteSet(T) /\ IsFiniteSet(U)
    BY FS_Subset
  <2>6. SumFunctionOnSet(f, T) = f[First(T)] + SumFunctionOnSet(f, U)
    BY <2>2, <2>5, SumFirst
  <2>7. Cardinality(U) = Cardinality(T) - 1 /\ Cardinality(T) \in Nat /\ Cardinality(U) \in Nat
    BY <2>3, <2>5, FS_RemoveElement, FS_CardinalityType
  <2>8. SumFunctionOnSet(f, U) \in Int /\ f[First(T)] \in -b..b
    <3>1. \A x \in U : f[x] \in Int
      OBVIOUS
    <3> QED
      BY <2>3, <2>5, <3>1, SumType
  <2>9. b * Cardinality(T) = b * Cardinality(U) + b
    <3>1. Cardinality(T) = Cardinality(U) + 1
      BY <2>7
    <3>2. \A n \in Nat : b * (n + 1) = b * n + b
      OBVIOUS
    <3> QED
      BY <2>7, <3>1, <3>2
  <2>10. b * Cardinality(U) \in Nat
    BY <2>7
  <2>11. ~Within(T)
    OBVIOUS
  <2> HIDE DEF U, Bad
  <2> QED
    BY <2>4, <2>6, <2>8, <2>9, <2>10, <2>11
<1> QED
  BY <1>1

\* ... its value when any other element is taken first, ...
LEMMA SumRemove ==
    ASSUME NEW f, NEW S, IsFiniteSet(S), \A x \in S : f[x] \in Int, NEW y \in S
    PROVE  SumFunctionOnSet(f, S) = f[y] + SumFunctionOnSet(f, S \ {y})
<1> DEFINE Sum(T) == SumFunctionOnSet(f, T)
           Bad == {T \in SUBSET S : \E x \in T : Sum(T) # f[x] + Sum(T \ {x})}
<1>1. ASSUME Bad # {} PROVE FALSE
  <2>1. PICK T \in Bad : \A U \in SUBSET T : U # T => U \notin Bad
    <3>1. Bad \in SUBSET (SUBSET S)
      OBVIOUS
    <3> HIDE DEF Bad
    <3> QED
      BY <1>1, <3>1, SmallestSubset
  <2>2. PICK x \in T : Sum(T) # f[x] + Sum(T \ {x})
    OBVIOUS
  <2> DEFINE z == First(T)
  <2>3. z \in T
    BY DEF First
  <2>4. IsFiniteSet(T) /\ T \in SUBSET S
    BY FS_Subset
  <2> HIDE DEF z
  <2>5. Sum(T) = f[z] + Sum(T \ {z})
    BY <2>2, <2>4, SumFirst DEF z
  <2>6. x # z
    BY <2>2, <2>5
  <2> DEFINE V == T \ {z, x}
  <2>7. Sum(T \ {z}) = f[x] + Sum(V)
    <3>1. T \ {z} \notin Bad /\ x \in T \ {z} /\ T \ {z} \in SUBSET S
      BY <2>1, <2>3, <2>4, <2>6
    <3>2. (T \ {z}) \ {x} = V
      OBVIOUS
    <3> QED
      BY <3>1, <3>2
  <2>8. Sum(T \ {x}) = f[z] + Sum(V)
    <3>1. T \ {x} \notin Bad /\ z \in T \ {x} /\ T \ {x} \in SUBSET S
      BY <2>1, <2>3, <2>4, <2>6
    <3>2. (T \ {x}) \ {z} = V
      OBVIOUS
    <3> QED
      BY <3>1, <3>2
  <2>9. Sum(V) \in Int /\ f[x] \in Int /\ f[z] \in Int
    <3>1. IsFiniteSet(V) /\ \A u \in V : f[u] \in Int
      BY <2>4, FS_Subset
    <3> QED
      BY <2>3, <2>4, <3>1, SumType
  <2> HIDE DEF Sum, V
  <2> QED
    BY <2>2, <2>5, <2>7, <2>8, <2>9
<1> QED
  BY <1>1

\* ... and it depends on the summands alone.
LEMMA SumSame ==
    ASSUME NEW f, NEW g, NEW S, IsFiniteSet(S), \A x \in S : f[x] = g[x]
    PROVE  SumFunctionOnSet(f, S) = SumFunctionOnSet(g, S)
<1> DEFINE Bad == {T \in SUBSET S : SumFunctionOnSet(f, T) # SumFunctionOnSet(g, T)}
<1>1. ASSUME Bad # {} PROVE FALSE
  <2>1. PICK T \in Bad : \A U \in SUBSET T : U # T => U \notin Bad
    <3>1. Bad \in SUBSET (SUBSET S)
      OBVIOUS
    <3> HIDE DEF Bad
    <3> QED
      BY <1>1, <3>1, SmallestSubset
  <2>2. T # {}
    BY SumEmpty
  <2>3. First(T) \in T /\ IsFiniteSet(T) /\ T \in SUBSET S
    BY <2>2, FS_Subset DEF First
  <2> DEFINE U == T \ {First(T)}
  <2>4. SumFunctionOnSet(f, U) = SumFunctionOnSet(g, U)
    BY <2>1, <2>3
  <2>5. /\ SumFunctionOnSet(f, T) = f[First(T)] + SumFunctionOnSet(f, U)
        /\ SumFunctionOnSet(g, T) = g[First(T)] + SumFunctionOnSet(g, U)
    BY <2>2, <2>3, SumFirst
  <2> HIDE DEF U
  <2> QED
    BY <2>3, <2>4, <2>5
<1> QED
  BY <1>1

\* What more is summed that is not negative does not lower a sum.
LEMMA SumMonotone ==
    ASSUME NEW f, NEW S, IsFiniteSet(S), NEW R0 \in SUBSET S, \A x \in S : f[x] \in Int,
           \A x \in S \ R0 : f[x] >= 0
    PROVE  SumFunctionOnSet(f, R0) <= SumFunctionOnSet(f, S)
<1> DEFINE Sum(T) == SumFunctionOnSet(f, T)
           Bad == {T \in SUBSET S : R0 \in SUBSET T /\ ~(Sum(R0) <= Sum(T))}
<1>0. \A T \in SUBSET S : IsFiniteSet(T) /\ Sum(T) \in Int
  <2>1. ASSUME NEW T \in SUBSET S PROVE IsFiniteSet(T) /\ \A x \in T : f[x] \in Int
    BY FS_Subset
  <2> QED
    BY <2>1, SumType
<1>1. ASSUME Bad # {} PROVE FALSE
  <2>1. PICK T \in Bad : \A U \in SUBSET T : U # T => U \notin Bad
    <3>1. Bad \in SUBSET (SUBSET S)
      OBVIOUS
    <3> HIDE DEF Bad
    <3> QED
      BY <1>1, <3>1, SmallestSubset
  <2>2. T \in SUBSET S /\ R0 \in SUBSET T /\ ~(Sum(R0) <= Sum(T))
    OBVIOUS
  <2>3. PICK y \in T \ R0 : TRUE
    <3>1. T # R0
      BY <1>0, <2>2
    <3> QED
      BY <2>2, <3>1
  <2> DEFINE U == T \ {y}
  <2>4. U \in SUBSET T /\ U # T /\ U \in SUBSET S /\ R0 \in SUBSET U
    BY <2>2, <2>3
  <2>5. Sum(R0) <= Sum(U)
    <3> HIDE DEF U, Sum
    <3>1. U \notin Bad
      BY <2>1, <2>4
    <3> QED
      BY <2>4, <3>1
  <2>6. Sum(T) = f[y] + Sum(U)
    <3>1. \A x \in T : f[x] \in Int
      BY <2>2
    <3> QED
      BY <1>0, <2>2, <2>3, <3>1, SumRemove
  <2>7. f[y] \in Int /\ f[y] >= 0
    BY <2>2, <2>3
  <2>8. Sum(U) \in Int /\ Sum(R0) \in Int /\ Sum(T) \in Int
    BY <1>0, <2>2, <2>4
  <2> HIDE DEF U, Sum, Bad
  <2> QED
    BY <2>2, <2>5, <2>6, <2>7, <2>8
<1> QED
  BY <1>1 DEF Bad
-----------------------------------------------------------------------------
(* Extreme elements.                                                       *)

\* min() of a non-empty set of numbers is one of them.
LEMMA MinInSet ==
    ASSUME NEW S \in SUBSET Nat, S # {}
    PROVE  Min(S) \in S /\ \A m \in S : Min(S) <= m
<1>1. PICK n \in S : \A m \in S : ~(<<m, n>> \in OpToRel(<, Nat))
  BY NatLessThanWellFounded, WFMin
<1>2. ASSUME NEW m \in S PROVE n <= m
  <2>1. <<m, n>> \in OpToRel(<, Nat) <=> m < n
    BY DEF OpToRel
  <2>2. ~(m < n)
    BY <1>1, <2>1, Zenon
  <2> QED
    BY <2>2
<1> QED
  BY <1>2 DEF Min

\* max() of finitely many numbers f[x] is one of them.
LEMMA LargestExists ==
    ASSUME NEW f, NEW S, IsFiniteSet(S), S # {}, \A x \in S : f[x] \in Int
    PROVE  \E x \in S : \A y \in S : f[y] <= f[x]
<1> DEFINE Bad == {T \in SUBSET S : T # {} /\ ~ \E x \in T : \A y \in T : f[y] <= f[x]}
<1>1. ASSUME Bad # {} PROVE FALSE
  <2>1. PICK T \in Bad : \A U \in SUBSET T : U # T => U \notin Bad
    <3>1. Bad \in SUBSET (SUBSET S)
      OBVIOUS
    <3> HIDE DEF Bad
    <3> QED
      BY <1>1, <3>1, SmallestSubset
  <2>2. PICK z \in T : TRUE
    OBVIOUS
  <2>3. T \ {z} # {} => \E x \in T \ {z} : \A y \in T \ {z} : f[y] <= f[x]
    <3> DEFINE U == T \ {z}
    <3>1. U \in SUBSET T /\ U # T /\ U \in SUBSET S
      BY <2>2
    <3>2. U \notin Bad
      <4> HIDE DEF U, Bad
      <4> QED
        BY <2>1, <3>1
    <3> HIDE DEF U
    <3>3. U # {} => \E x \in U : \A y \in U : f[y] <= f[x]
      BY <3>1, <3>2
    <3> QED
      BY <3>3 DEF U
  <2>4. CASE T \ {z} = {}
    BY <2>2, <2>4
  <2>5. CASE T \ {z} # {}
    <3>1. PICK x \in T \ {z} : \A y \in T \ {z} : f[y] <= f[x]
      BY <2>3, <2>5
    <3>2. f[x] \in Int /\ f[z] \in Int
      BY <2>2
    <3>3. CASE f[z] <= f[x]
      BY <3>1, <3>3
    <3>4. CASE f[x] <= f[z]
      BY <3>1, <3>2, <3>4
    <3> QED
      BY <3>2, <3>3, <3>4
  <2> QED
    BY <2>4, <2>5
<1> QED
  BY <1>1
-----------------------------------------------------------------------------
(* One decision step.                                                      *)

LEMMA AnswersType ==
    ASSUME NEW outs \in Answers
    PROVE  /\ DOMAIN outs \in SUBSET Agents
           /\ IsFiniteSet(DOMAIN outs)
           /\ \A i \in DOMAIN outs : outs[i] \in Outputs
           /\ \A i \in DOMAIN outs : Conclusion[outs[i]] \in Conclusions
           /\ Cardinality(DOMAIN outs) <= Cardinality(Agents)
<1>1. PICK S \in SUBSET Agents : outs \in [S -> Outputs]
  BY DEF Answers, Quorums
<1>2. /\ IsFiniteSet(S)
      /\ Cardinality(S) <= Cardinality(Agents)
  BY SemanticAssumption, FS_Subset
<1> QED
  BY <1>1, <1>2 DEF Conclusions

\* A mean of numbers between -u and u.
LEMMA QuotientRange ==
    ASSUME NEW a \in Int, NEW n \in Nat, n > 0, NEW u \in Nat, -(u * n) <= a, a <= u * n
    PROVE  a \div n \in -u..u
<1>1. u * n \in Int /\ -(u * n) = (-u) * n
  OBVIOUS
<1>2. a \div n \in Int
  OBVIOUS
<1>3. a \div n <= u
  BY <1>1
<1>4. -u <= a \div n
  BY <1>1
<1> QED
  BY <1>2, <1>3, <1>4

\* An agreement is a part of the full similarity, ...
LEMMA SVRange ==
    ASSUME NEW outs \in Answers, NEW group \in SUBSET DOMAIN outs, NEW i \in group
    PROVE  SV(outs, group, i) \in -Unit..Unit
<1>1. CASE group = {i}
  BY <1>1, SemanticAssumption DEF SV
<1>2. CASE group # {i}
  <2> DEFINE others == group \ {i}
             f == [j \in others |-> Similarity[Conclusion[outs[i]]][Conclusion[outs[j]]]]
             n == Cardinality(others)
             sum == SumFunctionOnSet(f, others)
  <2>1. IsFiniteSet(group) /\ IsFiniteSet(others)
    BY AnswersType, FS_Subset
  <2>2. n = Cardinality(group) - 1 /\ n \in Nat /\ n > 0
    <3>1. n \in Nat /\ Cardinality(group) \in Nat /\ n = Cardinality(group) - 1
      BY <2>1, FS_CardinalityType, FS_RemoveElement
    <3>2. n # 0
      BY <1>2, <2>1, FS_EmptySet
    <3> QED
      BY <3>1, <3>2
  <2>3. \A j \in others : f[j] \in -Unit..Unit
    BY AnswersType, SemanticAssumption
  <2>4. Unit \in Nat /\ \A j \in others : f[j] \in Int
    BY <2>3, SemanticAssumption
  <2>5. SV(outs, group, i) = sum \div n
    <3>1. DOMAIN f = others
      OBVIOUS
    <3>2. SumFunction(f) = sum
      BY <3>1 DEF SumFunction
    <3> QED
      BY <1>2, <2>2, <3>2 DEF SV
  <2> HIDE DEF f, others
  <2>6. sum \in Int /\ -(Unit * n) <= sum /\ sum <= Unit * n
    BY <2>1, <2>3, <2>4, SumType, SumBound
  <2> HIDE DEF sum, n
  <2> QED
    BY <2>2, <2>4, <2>5, <2>6, QuotientRange
<1> QED
  BY <1>1, <1>2

\* ... and a round weighs at most one full similarity for each agent.
LEMMA SumSVRange ==
    ASSUME NEW outs \in Answers, NEW group \in SUBSET DOMAIN outs
    PROVE  SumSV(outs, group) \in -(Unit * Cardinality(Agents))..Unit * Cardinality(Agents)
<1> DEFINE f == [i \in group |-> SV(outs, group, i)]
<1>1. IsFiniteSet(group) /\ Cardinality(group) <= Cardinality(DOMAIN outs)
  BY AnswersType, FS_Subset
<1>2. \A i \in group : f[i] \in -Unit..Unit
  BY SVRange
<1>3. Unit \in Nat /\ \A i \in group : f[i] \in Int
  BY <1>2, SemanticAssumption
<1>4. SumSV(outs, group) = SumFunctionOnSet(f, group)
  <2>1. DOMAIN f = group
    OBVIOUS
  <2> QED
    BY <2>1 DEF SumSV, SumFunction
<1> HIDE DEF f
<1>5. /\ SumSV(outs, group) \in Int
      /\ -(Unit * Cardinality(group)) <= SumSV(outs, group)
      /\ SumSV(outs, group) <= Unit * Cardinality(group)
  BY <1>1, <1>2, <1>3, <1>4, SumType, SumBound
<1>6. /\ Cardinality(group) \in Nat /\ Cardinality(Agents) \in Nat
      /\ Cardinality(group) <= Cardinality(Agents)
  BY <1>1, AnswersType, SemanticAssumption, FS_CardinalityType
<1>7. Unit * Cardinality(group) <= Unit * Cardinality(Agents)
  BY <1>3, <1>6
<1>8. Unit * Cardinality(group) \in Nat /\ Unit * Cardinality(Agents) \in Nat
  BY <1>3, <1>6
<1> QED
  BY <1>5, <1>7, <1>8

\* The winner is an output of an eligible member of the group.
LEMMA WinnerIsEligible ==
    ASSUME NEW outs \in Answers, NEW group \in SUBSET DOMAIN outs,
           NEW eligible \in SUBSET group, eligible # {}
    PROVE  \E i \in eligible : Winner(outs, group, eligible) = outs[i]
<1> DEFINE f == [i \in eligible |-> SV(outs, group, i)]
           best == {i \in eligible : \A j \in eligible \ {i} :
                       SV(outs, group, j) <= SV(outs, group, i)}
           outputs == {outs[i] : i \in best}
<1>1. IsFiniteSet(eligible) /\ \A i \in eligible : f[i] \in Int
  BY AnswersType, FS_Subset, SVRange
<1>2. PICK i \in eligible : \A j \in eligible : f[j] <= f[i]
  BY <1>1, LargestExists
<1>3. outputs \in SUBSET Nat /\ outputs # {}
  <2>1. i \in best
    BY <1>2
  <2>2. \A j \in best : outs[j] \in Nat
    BY AnswersType, SemanticAssumption
  <2> QED
    BY <2>1, <2>2
<1>4. Min(outputs) \in outputs
  BY <1>3, MinInSet
<1>5. Winner(outs, group, eligible) = Min(outputs)
  BY DEF Winner
<1> QED
  BY <1>4, <1>5

\* The minority is told what some agents stated, and never what won.
LEMMA DissentType ==
    ASSUME NEW outs \in Answers, NEW labels, DOMAIN labels = DOMAIN outs, NEW winner
    PROVE  /\ DissentOf(outs, labels, winner) \in SUBSET Conclusions
           /\ Conclusion[winner] \notin DissentOf(outs, labels, winner)
<1> DEFINE others == IF Clusters(labels) = {} THEN {}
                     ELSE Clusters(labels) \ {DominantLabel(labels)}
           heads == {Min(Members(labels, c)) : c \in others}
           noise == IF DiscardNoise THEN {} ELSE Members(labels, Noise)
<1>1. ASSUME NEW c \in others PROVE Min(Members(labels, c)) \in DOMAIN outs
  <2>1. c \in Clusters(labels)
    BY DEF Clusters
  <2>2. Members(labels, c) # {} /\ Members(labels, c) \in SUBSET DOMAIN outs
    BY <2>1 DEF Members, Clusters
  <2>3. Members(labels, c) \in SUBSET Nat
    BY <2>2, AnswersType, SemanticAssumption
  <2> QED
    BY <2>2, <2>3, MinInSet
<1>2. heads \in SUBSET DOMAIN outs
  BY <1>1
<1>3. noise \in SUBSET DOMAIN outs
  BY DEF Members
<1>4. DissentOf(outs, labels, winner) =
          {Conclusion[outs[i]] : i \in heads \cup noise} \ {Empty, Conclusion[winner]}
  BY DEF DissentOf
<1> HIDE DEF others, heads, noise
<1>5. \A i \in heads \cup noise : Conclusion[outs[i]] \in Conclusions
  BY <1>2, <1>3, AnswersType
<1> QED
  BY <1>4, <1>5

\* What a decision step returns.
LEMMA StepType ==
    ASSUME NEW outs \in Answers, NEW labels \in Labelings(DOMAIN outs), NEW prev,
           NEW s, s = SemanticStep(outs, labels, prev)
    PROVE  /\ s.skip \in BOOLEAN
           /\ s.dissent \in SUBSET Conclusions
           /\ ~s.skip => /\ s.winner \in Outputs
                         /\ s.weight \in -(Unit * Cardinality(Agents))..Unit * Cardinality(Agents)
                         /\ Conclusion[s.winner] \notin s.dissent
<1> DEFINE group == Dominant(labels)
           eligible == EligibleIn(outs, group, prev)
           winner == Winner(outs, group, eligible)
<1>1. DOMAIN labels = DOMAIN outs
  BY DEF Labelings
<1>2. group \in SUBSET DOMAIN outs /\ eligible \in SUBSET group
  BY <1>1 DEF Dominant, Members, EligibleIn
<1>3. ConclusionsOf(outs) \in SUBSET Conclusions
  BY AnswersType DEF ConclusionsOf
<1>4. CASE Cardinality(group) < Alpha \/ eligible = {}
  BY <1>3, <1>4 DEF SemanticStep
<1>5. CASE ~(Cardinality(group) < Alpha \/ eligible = {})
  <2>1. s = [skip |-> FALSE, winner |-> winner, weight |-> SumSV(outs, group),
             dissent |-> DissentOf(outs, labels, winner)]
    BY <1>5 DEF SemanticStep
  <2>2. winner \in Outputs
    BY <1>2, <1>5, WinnerIsEligible, AnswersType
  <2>3. SumSV(outs, group) \in -(Unit * Cardinality(Agents))..Unit * Cardinality(Agents)
    BY <1>2, SumSVRange
  <2>4. /\ DissentOf(outs, labels, winner) \in SUBSET Conclusions
        /\ Conclusion[winner] \notin DissentOf(outs, labels, winner)
    BY <1>1, DissentType
  <2> QED
    BY <2>1, <2>2, <2>3, <2>4
<1> QED
  BY <1>4, <1>5
-----------------------------------------------------------------------------
(***************************************************************************)
(* The inductive invariant.  No more rounds can have chosen something than *)
(* the session has gone through; what is tracked is the last choice, and   *)
(* its score is what the choices of it without interruption weigh.         *)
(***************************************************************************)
CountInv ==
    /\ Len(hist) <= MaxRounds
    /\ Running => Len(hist) < round

TrackInv ==
    /\ tracked = IF hist = <<>> THEN None ELSE hist[Len(hist)].value
    /\ score = Weighted!RunWeight(hist)
    /\ Running => outcome = NoOutcome

IInv == TypeOK /\ CountInv /\ TrackInv /\ PromptIsCoherent /\ ScoreIsAccounted
-----------------------------------------------------------------------------
(* The weight of a run.                                                    *)

Chosen == [value : Outputs, weight : Int]

\* The sums of the abstract specification are the same.
LEMMA RunWeightIsSum ==
    ASSUME NEW l
    PROVE  Weighted!RunWeight(l) =
               SumFunctionOnSet([i \in Weighted!LastRun(l) |-> l[i].weight], Weighted!LastRun(l))
<1> DEFINE f == [i \in Weighted!LastRun(l) |-> l[i].weight]
<1>1. DOMAIN f = Weighted!LastRun(l)
  OBVIOUS
<1>2. Weighted!RunWeight(l) = Weighted!SumFunctionOnSet(f, DOMAIN f)
  BY DEF Weighted!RunWeight, Weighted!SumFunction
<1> HIDE DEF f
<1>3. Weighted!SumFunctionOnSet(f, DOMAIN f) = SumFunctionOnSet(f, DOMAIN f)
  BY DEF Weighted!SumFunctionOnSet, Weighted!FoldFunctionOnSet, Weighted!MapThenFoldSet,
     SumFunctionOnSet, FoldFunctionOnSet, MapThenFoldSet
<1> QED
  BY <1>1, <1>2, <1>3 DEF f

LEMMA RunWeightEmpty == Weighted!RunWeight(<<>>) = 0
<1>1. Weighted!LastRun(<<>>) = {}
  BY DEF Weighted!LastRun
<1>2. SumFunctionOnSet([i \in {} |-> <<>>[i].weight], {}) = 0
  BY SumEmpty
<1> QED
  BY <1>1, <1>2, RunWeightIsSum

\* A new choice adds to the run it continues, or starts a run of its own.
LEMMA LastRunAppend ==
    ASSUME NEW l \in Seq(Chosen), NEW e \in Chosen
    PROVE  Weighted!LastRun(Append(l, e)) =
               (IF l # <<>> /\ l[Len(l)].value = e.value THEN Weighted!LastRun(l) ELSE {})
               \cup {Len(l) + 1}
<1> DEFINE m == Append(l, e)
           n == Len(l)
<1>1. /\ n \in Nat /\ Len(m) = n + 1 /\ m[n + 1] = e
      /\ \A i \in 1..n : m[i] = l[i]
  OBVIOUS
<1> HIDE DEF m, n
<1>2. Weighted!LastRun(m) = {i \in 1..n + 1 : \A j \in i..n + 1 : m[j].value = e.value}
  BY <1>1 DEF Weighted!LastRun
<1>3. n + 1 \in Weighted!LastRun(m)
  BY <1>1, <1>2
<1>4. CASE l # <<>> /\ l[n].value = e.value
  <2>1. n >= 1
    BY <1>4 DEF n
  <2>2. Weighted!LastRun(l) = {i \in 1..n : \A j \in i..n : l[j].value = e.value}
    BY <1>4 DEF Weighted!LastRun, n
  <2>3. ASSUME NEW i \in 1..n
        PROVE  (\A j \in i..n + 1 : m[j].value = e.value)
                   <=> (\A j \in i..n : l[j].value = e.value)
    <3>1. \A j \in i..n : j \in 1..n /\ j \in i..n + 1
      BY <1>1
    <3>2. \A j \in i..n + 1 : j \in i..n \/ j = n + 1
      BY <1>1
    <3> QED
      BY <1>1, <3>1, <3>2
  <2>4. Weighted!LastRun(m) = Weighted!LastRun(l) \cup {n + 1}
    BY <1>1, <1>2, <1>3, <2>2, <2>3
  <2> QED
    BY <1>4, <2>4 DEF m, n
<1>5. CASE ~(l # <<>> /\ l[n].value = e.value)
  <2>1. ASSUME NEW i \in 1..n, \A j \in i..n + 1 : m[j].value = e.value PROVE FALSE
    <3>1. n \in i..n + 1 /\ n \in 1..n
      BY <1>1
    <3>2. l[n].value = e.value
      BY <1>1, <2>1, <3>1
    <3>3. l # <<>>
      BY <3>1 DEF n
    <3> QED
      BY <1>5, <3>2, <3>3
  <2>2. \A i \in 1..n + 1 : i \in 1..n \/ i = n + 1
    BY <1>1
  <2>3. Weighted!LastRun(m) = {n + 1}
    BY <1>2, <1>3, <2>1, <2>2
  <2> QED
    BY <1>5, <2>3 DEF m, n
<1> QED
  BY <1>4, <1>5

LEMMA RunWeightAppend ==
    ASSUME NEW l \in Seq(Chosen), NEW e \in Chosen
    PROVE  /\ Weighted!RunWeight(l) \in Int
           /\ Weighted!RunWeight(Append(l, e)) =
               (IF l # <<>> /\ l[Len(l)].value = e.value THEN Weighted!RunWeight(l) ELSE 0)
               + e.weight
<1> DEFINE m == Append(l, e)
           n == Len(l) + 1
           old == Weighted!LastRun(l)
           run == Weighted!LastRun(m)
           g == [i \in old |-> l[i].weight]
           f == [i \in run |-> m[i].weight]
<1>1. /\ Len(l) \in Nat /\ Len(m) = n /\ m[n] = e /\ n \notin 1..Len(l)
      /\ m \in Seq(Chosen) /\ \A i \in 1..Len(l) : m[i] = l[i]
      /\ \A i \in 1..Len(l) : l[i] \in Chosen
      /\ \A i \in 1..n : m[i] \in Chosen
  OBVIOUS
<1>2. /\ old \in SUBSET (1..Len(l)) /\ IsFiniteSet(old)
      /\ run \in SUBSET (1..n) /\ IsFiniteSet(run)
  <2>1. old \in SUBSET (1..Len(l)) /\ run \in SUBSET (1..n)
    BY <1>1 DEF Weighted!LastRun
  <2>2. IsFiniteSet(1..Len(l)) /\ IsFiniteSet(1..n)
    BY <1>1, FS_Interval
  <2> QED
    BY <2>1, <2>2, FS_Subset
<1>3. /\ Weighted!RunWeight(l) = SumFunctionOnSet(g, old)
      /\ Weighted!RunWeight(m) = SumFunctionOnSet(f, run)
  BY RunWeightIsSum
<1>4. /\ \A i \in old : g[i] \in Int
      /\ \A i \in run : f[i] \in Int
  BY <1>1, <1>2 DEF Chosen
<1>5. run = (IF l # <<>> /\ l[Len(l)].value = e.value THEN old ELSE {}) \cup {n}
  BY LastRunAppend
<1>6. f[n] = e.weight
  BY <1>1, <1>5
<1>7. ASSUME NEW i \in old \cap run PROVE f[i] = g[i]
  BY <1>1, <1>2
<1>8. n \notin old
  BY <1>1, <1>2
<1> HIDE DEF f, g, old, run
<1>9. SumFunctionOnSet(g, old) \in Int
  BY <1>2, <1>4, SumType
<1>10. SumFunctionOnSet(f, run) = f[n] + SumFunctionOnSet(f, run \ {n})
  BY <1>2, <1>4, <1>5, SumRemove
<1>11. e.weight \in Int
  BY DEF Chosen
<1> HIDE DEF m, n
<1>12. ASSUME l # <<>> /\ l[Len(l)].value = e.value
       PROVE  Weighted!RunWeight(m) = Weighted!RunWeight(l) + e.weight
  <2>1. run \ {n} = old /\ old = old \cap run
    BY <1>5, <1>8, <1>12
  <2>2. \A i \in old : f[i] = g[i]
    BY <1>7, <2>1
  <2>3. SumFunctionOnSet(f, old) = SumFunctionOnSet(g, old)
    BY <1>2, <2>2, SumSame
  <2>4. e.weight + SumFunctionOnSet(g, old) = SumFunctionOnSet(g, old) + e.weight
    BY <1>9, <1>11
  <2>5. SumFunctionOnSet(f, run) = e.weight + SumFunctionOnSet(g, old)
    BY <1>6, <1>10, <2>1, <2>3
  <2> QED
    BY <1>3, <2>4, <2>5
<1>13. ASSUME ~(l # <<>> /\ l[Len(l)].value = e.value)
       PROVE  Weighted!RunWeight(m) = 0 + e.weight
  <2>1. run \ {n} = {}
    BY <1>5, <1>13
  <2>2. SumFunctionOnSet(f, {}) = 0
    BY SumEmpty
  <2>3. SumFunctionOnSet(f, run) = e.weight + 0
    BY <1>6, <1>10, <2>1, <2>2
  <2> QED
    BY <1>3, <1>11, <2>3
<1> QED
  BY <1>3, <1>9, <1>12, <1>13 DEF m
-----------------------------------------------------------------------------
(* The accumulator.                                                        *)

Rows == [answer : Conclusions, score : Int, won : Nat]

\* The best row has the highest score.
LEMMA BestRowIsBest ==
    ASSUME NEW rows \in Seq(Rows), rows # <<>>
    PROVE  /\ BestRow(rows) \in DOMAIN rows
           /\ \A j \in DOMAIN rows : rows[j].score <= rows[BestRow(rows)].score
<1> DEFINE D == 1..Len(rows)
           f == [k \in D |-> rows[k].score]
           top == {k \in D : \A j \in D : f[j] <= f[k]}
<1>1. DOMAIN rows = D /\ D # {} /\ IsFiniteSet(D)
  <2>1. DOMAIN rows = D /\ Len(rows) \in Nat /\ Len(rows) # 0
    OBVIOUS
  <2>2. IsFiniteSet(D)
    BY <2>1, FS_Interval
  <2>3. 1 \in D
    BY <2>1
  <2> QED
    BY <2>1, <2>2, <2>3
<1>2. \A k \in D : rows[k].score \in Int /\ f[k] = rows[k].score
  <2>1. \A k \in D : rows[k] \in Rows
    OBVIOUS
  <2> QED
    BY <2>1 DEF Rows
<1>3. PICK t \in D : \A j \in D : f[j] <= f[t]
  BY <1>1, <1>2, LargestExists
<1>4. top # {} /\ top \in SUBSET Nat
  <2>1. t \in top
    BY <1>3
  <2>2. top \in SUBSET D /\ D \in SUBSET Nat
    OBVIOUS
  <2> QED
    BY <2>1, <2>2
<1> DEFINE b == Min(top)
<1>5. b \in top /\ \A m \in top : b <= m
  BY <1>4, MinInSet
<1> HIDE DEF b
<1>6. ASSUME NEW j \in D
      PROVE  rows[j].score < rows[b].score \/ (rows[j].score = rows[b].score /\ b <= j)
  <2>1. f[j] <= f[b] /\ b \in D
    BY <1>5
  <2>2. CASE f[j] = f[b]
    <3>1. j \in top
      BY <1>5, <2>2
    <3> QED
      BY <1>2, <1>5, <2>1, <2>2, <3>1
  <2>3. CASE f[j] # f[b]
    BY <1>2, <2>1, <2>3
  <2> QED
    BY <2>2, <2>3
<1> DEFINE first(k) == \A j \in DOMAIN rows :
             rows[j].score < rows[k].score \/ (rows[j].score = rows[k].score /\ k <= j)
<1>7. b \in DOMAIN rows /\ first(b)
  BY <1>1, <1>5, <1>6
<1>8. BestRow(rows) \in DOMAIN rows /\ first(BestRow(rows))
  <2>1. BestRow(rows) = CHOOSE k \in DOMAIN rows : first(k)
    BY DEF BestRow
  <2> HIDE DEF first
  <2> QED
    BY <1>7, <2>1
<1> QED
  BY <1>1, <1>2, <1>8

Distinct(rows) == \A j, k \in DOMAIN rows : rows[j].answer = rows[k].answer => j = k

\* A win is recorded in the row of its conclusion, which is added if need be.
Recorded(new, rows, c, w) ==
    /\ new \in Seq(Rows)
    /\ Distinct(new)
    /\ \A k \in DOMAIN rows :
           /\ k \in DOMAIN new /\ new[k].answer = rows[k].answer
           /\ rows[k].answer = c => new[k].score = rows[k].score + w /\ new[k].won = rows[k].won + 1
           /\ rows[k].answer # c => new[k].score = rows[k].score /\ new[k].won = rows[k].won
    /\ \A k \in DOMAIN new \ DOMAIN rows :
           /\ new[k].answer = c /\ new[k].score = w /\ new[k].won = 1
           /\ \A j \in DOMAIN rows : rows[j].answer # c
    /\ \E k \in DOMAIN new : new[k].answer = c

LEMMA RecordRecords ==
    ASSUME NEW rows \in Seq(Rows), Distinct(rows), NEW c \in Conclusions, NEW w \in Int
    PROVE  Recorded(Record(rows, c, w), rows, c, w)
<1> DEFINE new == Record(rows, c, w)
<1>1. CASE \E k \in DOMAIN rows : rows[k].answer = c
  <2>1. new = [k \in DOMAIN rows |->
                 IF rows[k].answer = c
                 THEN [rows[k] EXCEPT !.score = @ + w, !.won = @ + 1] ELSE rows[k]]
    BY <1>1 DEF Record
  <2> HIDE DEF new
  <2>2. \A k \in DOMAIN rows : rows[k] \in Rows
    OBVIOUS
  <2>3. ASSUME NEW k \in DOMAIN rows
        PROVE  /\ new[k] \in Rows /\ new[k].answer = rows[k].answer
               /\ rows[k].answer = c => new[k].score = rows[k].score + w /\ new[k].won = rows[k].won + 1
               /\ rows[k].answer # c => new[k].score = rows[k].score /\ new[k].won = rows[k].won
    <3> DEFINE r == rows[k]
    <3>1. /\ r.answer \in Conclusions /\ r.score \in Int /\ r.won \in Nat
          /\ r = [answer |-> r.answer, score |-> r.score, won |-> r.won]
      BY <2>2 DEF Rows
    <3>2. CASE r.answer = c
      <4>1. new[k] = [r EXCEPT !.score = @ + w, !.won = @ + 1]
        BY <2>1, <3>2
      <4> HIDE DEF r
      <4>2. new[k] = [answer |-> r.answer, score |-> r.score + w, won |-> r.won + 1]
        BY <3>1, <4>1
      <4>3. new[k] \in Rows
        BY <3>1, <4>2 DEF Rows
      <4> QED
        BY <3>2, <4>2, <4>3 DEF r
    <3>3. CASE r.answer # c
      <4>1. new[k] = r
        BY <2>1, <3>3
      <4> QED
        BY <2>2, <3>3, <4>1
    <3> QED
      BY <3>2, <3>3
  <2>4. DOMAIN new = DOMAIN rows
    BY <2>1
  <2>5. new \in Seq(Rows)
    <3>1. DOMAIN rows = 1..Len(rows) /\ Len(rows) \in Nat
      OBVIOUS
    <3>2. new = [k \in 1..Len(rows) |-> new[k]]
      BY <2>1, <3>1
    <3>3. new \in [1..Len(rows) -> Rows]
      BY <2>3, <3>1, <3>2
    <3> QED
      BY <3>1, <3>3
  <2>6. PICK k \in DOMAIN rows : rows[k].answer = c
    BY <1>1
  <2>7. new[k].answer = c
    BY <2>3, <2>6
  <2> QED
    BY <2>3, <2>4, <2>5, <2>6, <2>7 DEF Recorded, Distinct, new
<1>2. CASE ~ \E k \in DOMAIN rows : rows[k].answer = c
  <2> DEFINE row == [answer |-> c, score |-> w, won |-> 1]
  <2>1. new = Append(rows, row)
    BY <1>2 DEF Record
  <2> HIDE DEF new
  <2>2. row \in Rows
    BY DEF Rows
  <2>3. /\ new \in Seq(Rows) /\ Len(rows) \in Nat
        /\ DOMAIN rows = 1..Len(rows) /\ DOMAIN new = 1..Len(rows) + 1
        /\ new[Len(rows) + 1] = row
        /\ \A k \in 1..Len(rows) : new[k] = rows[k]
    BY <2>1, <2>2
  <2>4. \A k \in DOMAIN new : k \in DOMAIN rows \/ k = Len(rows) + 1
    BY <2>3
  <2> QED
    BY <1>2, <2>3, <2>4 DEF Recorded, Distinct, new
<1> QED
  BY <1>1, <1>2
-----------------------------------------------------------------------------
(* The books: the rows against the list of all choices.                    *)

Books(rows, l) ==
    /\ {rows[k].answer : k \in DOMAIN rows} = {Conclusion[l[i].value] : i \in DOMAIN l}
    /\ \A k \in DOMAIN rows :
           /\ rows[k].score = Gathered(l, rows[k].answer)
           /\ rows[k].won = Cardinality(Wins(l, rows[k].answer))

LEMMA IndicesCount ==
    ASSUME NEW n \in Nat
    PROVE  IsFiniteSet(1..n) /\ Cardinality(1..n) = n
<1>1. IsFiniteSet(1..n) /\ Cardinality(1..n) = IF 1 > n THEN 0 ELSE n - 1 + 1
  BY FS_Interval
<1>2. n - 1 + 1 = n /\ (1 > n => n = 0)
  OBVIOUS
<1> QED
  BY <1>1, <1>2

LEMMA WinsType ==
    ASSUME NEW l \in Seq(Chosen), NEW c
    PROVE  /\ Wins(l, c) \in SUBSET (1..Len(l)) /\ IsFiniteSet(Wins(l, c))
           /\ \A i \in Wins(l, c) : l[i].weight \in Int
           /\ Cardinality(Wins(l, c)) \in 0..Len(l)
           /\ Gathered(l, c) = SumFunctionOnSet([i \in Wins(l, c) |-> l[i].weight], Wins(l, c))
           /\ Gathered(l, c) \in Int
<1>1. Len(l) \in Nat /\ DOMAIN l = 1..Len(l) /\ \A i \in 1..Len(l) : l[i] \in Chosen
  OBVIOUS
<1>2. Wins(l, c) \in SUBSET (1..Len(l)) /\ \A i \in Wins(l, c) : l[i].weight \in Int
  BY <1>1 DEF Wins, Chosen
<1>3. /\ IsFiniteSet(Wins(l, c)) /\ Cardinality(Wins(l, c)) \in Nat
      /\ Cardinality(Wins(l, c)) <= Len(l)
  <2>1. IsFiniteSet(1..Len(l)) /\ Cardinality(1..Len(l)) = Len(l)
    BY <1>1, IndicesCount
  <2> QED
    BY <1>2, <2>1, FS_Subset, FS_CardinalityType
<1> DEFINE f == [i \in Wins(l, c) |-> l[i].weight]
<1>4. Gathered(l, c) = SumFunctionOnSet(f, Wins(l, c))
  <2>1. DOMAIN f = Wins(l, c)
    OBVIOUS
  <2> QED
    BY <2>1 DEF Gathered, SumFunction
<1>5. \A i \in Wins(l, c) : f[i] \in Int
  BY <1>2
<1>6. SumFunctionOnSet(f, Wins(l, c)) \in Int
  <2> HIDE DEF f
  <2> QED
    BY <1>3, <1>5, SumType
<1> QED
  BY <1>1, <1>2, <1>3, <1>4, <1>6

\* A choice counts for its conclusion, and for no other.
LEMMA GatheredAppend ==
    ASSUME NEW l \in Seq(Chosen), NEW e \in Chosen, NEW c
    PROVE  /\ Conclusion[e.value] = c =>
                  /\ Gathered(Append(l, e), c) = Gathered(l, c) + e.weight
                  /\ Cardinality(Wins(Append(l, e), c)) = Cardinality(Wins(l, c)) + 1
           /\ Conclusion[e.value] # c =>
                  /\ Gathered(Append(l, e), c) = Gathered(l, c)
                  /\ Wins(Append(l, e), c) = Wins(l, c)
<1> DEFINE m == Append(l, e)
           n == Len(l) + 1
           old == Wins(l, c)
           new == Wins(m, c)
           g == [i \in old |-> l[i].weight]
           f == [i \in new |-> m[i].weight]
<1>1. /\ Len(l) \in Nat /\ n \notin 1..Len(l) /\ m[n] = e /\ m \in Seq(Chosen)
      /\ DOMAIN l = 1..Len(l) /\ DOMAIN m = 1..Len(l) \cup {n}
      /\ \A i \in 1..Len(l) : m[i] = l[i]
  OBVIOUS
<1>2. /\ old \in SUBSET (1..Len(l)) /\ IsFiniteSet(old) /\ IsFiniteSet(new)
      /\ Gathered(l, c) = SumFunctionOnSet(g, old) /\ Gathered(l, c) \in Int
      /\ Gathered(m, c) = SumFunctionOnSet(f, new)
      /\ \A i \in new : m[i].weight \in Int
  BY <1>1, WinsType
<1>3. new = IF Conclusion[e.value] = c THEN old \cup {n} ELSE old
  BY <1>1 DEF Wins
<1>4. \A i \in new : f[i] \in Int
  BY <1>2
<1>5. \A i \in old : f[i] = g[i]
  BY <1>1, <1>2, <1>3
<1>6. Conclusion[e.value] = c => f[n] = e.weight
  BY <1>1, <1>3
<1>7. n \notin old /\ e.weight \in Int
  BY <1>1, <1>2 DEF Chosen
<1> HIDE DEF f, g, old, new
<1>8. SumFunctionOnSet(f, old) = SumFunctionOnSet(g, old)
  BY <1>2, <1>5, SumSame
<1>9. ASSUME Conclusion[e.value] = c
      PROVE  /\ Gathered(m, c) = Gathered(l, c) + e.weight
             /\ Cardinality(new) = Cardinality(old) + 1
  <2>1. new = old \cup {n} /\ n \in new /\ new \ {n} = old
    BY <1>3, <1>7, <1>9
  <2>2. SumFunctionOnSet(f, new) = f[n] + SumFunctionOnSet(f, old)
    BY <1>2, <1>4, <2>1, SumRemove
  <2>3. Cardinality(new) = Cardinality(old) + 1
    BY <1>2, <1>7, <2>1, FS_AddElement
  <2> QED
    BY <1>2, <1>6, <1>7, <1>8, <1>9, <2>2, <2>3
<1>10. Conclusion[e.value] # c => Gathered(m, c) = Gathered(l, c) /\ new = old
  BY <1>2, <1>3, <1>8
<1> QED
  BY <1>9, <1>10 DEF old, new, m

\* A conclusion that nobody chose has won nothing.
LEMMA GatheredNothing ==
    ASSUME NEW l \in Seq(Chosen), NEW c, \A i \in DOMAIN l : Conclusion[l[i].value] # c
    PROVE  Gathered(l, c) = 0 /\ Cardinality(Wins(l, c)) = 0
<1>1. Wins(l, c) = {}
  BY DEF Wins
<1>2. Gathered(l, c) = SumFunctionOnSet([i \in {} |-> l[i].weight], {})
  BY <1>1, WinsType
<1> QED
  BY <1>1, <1>2, SumEmpty, FS_EmptySet

\* Recording a choice keeps the books.
LEMMA BooksKept ==
    ASSUME NEW rows \in Seq(Rows), Distinct(rows), NEW l \in Seq(Chosen), NEW e \in Chosen,
           Books(rows, l), Conclusion[e.value] \in Conclusions,
           NEW new, Recorded(new, rows, Conclusion[e.value], e.weight)
    PROVE  Books(new, Append(l, e))
<1> DEFINE m == Append(l, e)
           c == Conclusion[e.value]
<1>1. /\ DOMAIN m = DOMAIN l \cup {Len(l) + 1} /\ Len(l) + 1 \notin DOMAIN l
      /\ m[Len(l) + 1] = e /\ \A i \in DOMAIN l : m[i] = l[i]
  OBVIOUS
<1>2. {Conclusion[m[i].value] : i \in DOMAIN m} = {Conclusion[l[i].value] : i \in DOMAIN l} \cup {c}
  BY <1>1
<1>3. {new[k].answer : k \in DOMAIN new} = {rows[k].answer : k \in DOMAIN rows} \cup {c}
  <2>1. ASSUME NEW k \in DOMAIN new PROVE new[k].answer \in {rows[j].answer : j \in DOMAIN rows} \cup {c}
    BY <2>1 DEF Recorded
  <2>2. ASSUME NEW k \in DOMAIN rows PROVE rows[k].answer \in {new[j].answer : j \in DOMAIN new}
    BY <2>2 DEF Recorded
  <2>3. c \in {new[j].answer : j \in DOMAIN new}
    BY DEF Recorded
  <2> HIDE DEF c
  <2> QED
    BY <2>1, <2>2, <2>3
<1>4. {new[k].answer : k \in DOMAIN new} = {Conclusion[m[i].value] : i \in DOMAIN m}
  BY <1>2, <1>3 DEF Books
<1>5. ASSUME NEW k \in DOMAIN new
      PROVE  /\ new[k].score = Gathered(m, new[k].answer)
             /\ new[k].won = Cardinality(Wins(m, new[k].answer))
  <2> DEFINE a == new[k].answer
  <2>1. CASE k \in DOMAIN rows
    <3>1. /\ a = rows[k].answer
          /\ rows[k].score = Gathered(l, a) /\ rows[k].won = Cardinality(Wins(l, a))
      BY <2>1 DEF Recorded, Books
    <3>2. /\ a = c => new[k].score = rows[k].score + e.weight /\ new[k].won = rows[k].won + 1
          /\ a # c => new[k].score = rows[k].score /\ new[k].won = rows[k].won
      BY <2>1, <3>1 DEF Recorded
    <3> HIDE DEF a
    <3>3. /\ c = a => /\ Gathered(m, a) = Gathered(l, a) + e.weight
                      /\ Cardinality(Wins(m, a)) = Cardinality(Wins(l, a)) + 1
          /\ c # a => Gathered(m, a) = Gathered(l, a) /\ Wins(m, a) = Wins(l, a)
      BY GatheredAppend
    <3> QED
      BY <3>1, <3>2, <3>3 DEF a
  <2>2. CASE k \notin DOMAIN rows
    <3>1. /\ a = c /\ new[k].score = e.weight /\ new[k].won = 1
          /\ \A j \in DOMAIN rows : rows[j].answer # c
      BY <2>2 DEF Recorded
    <3>2. \A i \in DOMAIN l : Conclusion[l[i].value] # c
      <4>1. c \notin {rows[j].answer : j \in DOMAIN rows}
        BY <3>1
      <4>2. c \notin {Conclusion[l[i].value] : i \in DOMAIN l}
        BY <4>1 DEF Books
      <4> QED
        BY <4>2
    <3> HIDE DEF c
    <3>3. Gathered(l, c) = 0 /\ Cardinality(Wins(l, c)) = 0
      BY <3>2, GatheredNothing
    <3>4. /\ Gathered(m, c) = Gathered(l, c) + e.weight
          /\ Cardinality(Wins(m, c)) = Cardinality(Wins(l, c)) + 1
      BY GatheredAppend DEF c
    <3>5. e.weight \in Int
      BY DEF Chosen
    <3> QED
      BY <3>1, <3>3, <3>4, <3>5
  <2> QED
    BY <2>1, <2>2
<1> QED
  BY <1>4, <1>5 DEF Books

\* A run of an output is a part of the wins of its conclusion; if the other wins do not
\* weigh less than nothing, the conclusion has gathered at least the weight of the run.
LEMMA RunIsGathered ==
    ASSUME NEW l \in Seq(Chosen), l # <<>>, NEW c, c = Conclusion[l[Len(l)].value]
    PROVE  \/ Weighted!RunWeight(l) <= Gathered(l, c)
           \/ \E i \in Wins(l, c) : l[i].weight < 0
<1> SUFFICES ASSUME \A i \in Wins(l, c) : ~(l[i].weight < 0)
             PROVE  Weighted!RunWeight(l) <= Gathered(l, c)
  OBVIOUS
<1> DEFINE run == Weighted!LastRun(l)
           wins == Wins(l, c)
           g == [i \in run |-> l[i].weight]
           f == [i \in wins |-> l[i].weight]
<1>1. run \in SUBSET wins
  <2>1. ASSUME NEW i \in run PROVE i \in wins
    <3>1. i \in 1..Len(l) /\ i \in i..Len(l) /\ Len(l) \in Nat
      BY DEF Weighted!LastRun
    <3>2. l[i].value = l[Len(l)].value
      BY <3>1 DEF Weighted!LastRun
    <3> QED
      BY <3>1, <3>2 DEF Wins
  <2> QED
    BY <2>1
<1>2. /\ IsFiniteSet(wins) /\ \A i \in wins : l[i].weight \in Int
      /\ Gathered(l, c) = SumFunctionOnSet(f, wins)
  BY WinsType
<1>3. Weighted!RunWeight(l) = SumFunctionOnSet(g, run)
  BY RunWeightIsSum
<1>4. /\ \A i \in wins : f[i] \in Int /\ f[i] >= 0
      /\ \A i \in run : g[i] = f[i]
  BY <1>1, <1>2
<1> HIDE DEF f, g, run, wins
<1>5. IsFiniteSet(run)
  BY <1>1, <1>2, FS_Subset
<1>6. SumFunctionOnSet(g, run) = SumFunctionOnSet(f, run)
  BY <1>4, <1>5, SumSame
<1>7. SumFunctionOnSet(f, run) <= SumFunctionOnSet(f, wins)
  BY <1>1, <1>2, <1>4, SumMonotone
<1> QED
  BY <1>2, <1>3, <1>6, <1>7
-----------------------------------------------------------------------------
(* The invariant holds.                                                    *)

MaxWeight == Unit * Cardinality(Agents)

LEMMA ConstantsType ==
    /\ Unit \in Nat /\ MaxWeight \in Nat /\ Threshold \in Int /\ MaxRounds \in Nat
    /\ Outputs \subseteq Nat /\ None \notin Outputs
    /\ NoText \notin Conclusions /\ \A o \in Outputs : Conclusion[o] \in Conclusions
    /\ NoOutcome \in Outcomes
<1>1. Cardinality(Agents) \in Nat /\ Unit \in Nat
  BY SemanticAssumption, FS_CardinalityType
<1>2. MaxWeight \in Nat
  BY <1>1 DEF MaxWeight
<1>3. NoText \notin Conclusions /\ \A o \in Outputs : Conclusion[o] \in Conclusions
  BY SemanticAssumption DEF Conclusions, NoText
<1>4. NoOutcome \in Outcomes
  BY DEF NoOutcome, Outcomes, Texts
<1> QED
  BY <1>1, <1>2, <1>3, <1>4, SemanticAssumption DEF None

LEMMA InitIInv == Init => IInv
<1> SUFFICES ASSUME Init PROVE IInv
  OBVIOUS
<1>1. TypeOK
  <2>1. bar \subseteq Conclusions
    BY AnswersType DEF Init, ConclusionsOf
  <2>2. round \in 1..MaxRounds + 1
    BY ConstantsType DEF Init
  <2> QED
    BY <2>1, <2>2, ConstantsType DEF Init, TypeOK, Texts
<1>2. CountInv
  BY ConstantsType DEF Init, CountInv
<1>3. TrackInv
  BY RunWeightEmpty DEF Init, TrackInv
<1>4. PromptIsCoherent /\ ScoreIsAccounted
  BY ConstantsType DEF Init, PromptIsCoherent, ScoreIsAccounted, NoOutcome
<1> QED
  BY <1>1, <1>2, <1>3, <1>4 DEF IInv

\* The answers of a round with a quorum, and how they are clustered.
LEMMA QuorumAnswers ==
    ASSUME RefmQuorum
    PROVE  \E outs \in Answers : \E labels \in Labelings(DOMAIN outs) : Decide(outs, labels)
<1>1. PICK who \in Quorums :
          \E labels \in Labelings(who) : \E outs \in [who -> Outputs] : Decide(outs, labels)
  BY DEF RefmQuorum
<1>2. PICK labels \in Labelings(who) : \E outs \in [who -> Outputs] : Decide(outs, labels)
  BY <1>1
<1>3. PICK outs \in [who -> Outputs] : Decide(outs, labels)
  BY <1>2
<1>4. outs \in Answers /\ DOMAIN outs = who
  BY DEF Answers
<1> QED
  BY <1>3, <1>4

\* A round without quorum.
LEMMA NoQuorumInv == ASSUME IInv, NoRefmQuorum PROVE IInv'
<1>1. round' \in 1..MaxRounds + 1
  BY ConstantsType DEF IInv, TypeOK, NoRefmQuorum, RoundsLeft
<1>2. TypeOK'
  BY <1>1 DEF IInv, TypeOK, NoRefmQuorum, trackerVars, tellVars
<1>3. CountInv'
  <2>1. Len(hist) \in Nat
    BY DEF IInv, TypeOK
  <2> QED
    BY <2>1 DEF IInv, TypeOK, CountInv, NoRefmQuorum, trackerVars, Running
<1>4. UNCHANGED <<score, tracked, hist, ledger, dissent, reference, outcome>>
  BY DEF NoRefmQuorum, trackerVars, tellVars
<1>5. TrackInv' /\ PromptIsCoherent'
  BY <1>4 DEF IInv, TrackInv, PromptIsCoherent, Running
<1>6. ScoreIsAccounted'
  BY <1>4 DEF IInv, ScoreIsAccounted
<1> QED
  BY <1>2, <1>3, <1>5, <1>6 DEF IInv

\* A round with a quorum that chose nothing.
LEMMA SkipInv ==
    ASSUME IInv, NEW outs \in Answers, NEW labels \in Labelings(DOMAIN outs),
           Running, RoundsLeft, Decide(outs, labels), SemanticStep(outs, labels, bar).skip
    PROVE  IInv' /\ UNCHANGED <<hist, outcome>>
<1> DEFINE s == SemanticStep(outs, labels, bar)
<1>1. s.dissent \in SUBSET Conclusions
  BY StepType
<1>2. /\ Running /\ RoundsLeft /\ UNCHANGED <<score, tracked, hist, ledger, minority, outcome>>
      /\ dissent' = s.dissent /\ reference' = NoText
  BY DEF Decide, trackerVars, ReferenceAfter
<1>3. bar' = ConclusionsOf(outs) /\ round' = round + 1
  BY <1>2 DEF Decide, Running
<1>4. bar' \subseteq Conclusions
  BY <1>3, AnswersType DEF ConclusionsOf
<1> HIDE DEF s
<1>5. TypeOK'
  <2>1. round' \in 1..MaxRounds + 1
    BY <1>2, <1>3, ConstantsType DEF IInv, TypeOK, RoundsLeft
  <2> QED
    BY <1>1, <1>2, <1>4, <2>1 DEF IInv, TypeOK, Texts
<1>6. CountInv'
  <2>1. Len(hist) \in Nat
    BY DEF IInv, TypeOK
  <2> QED
    BY <1>2, <1>3, <2>1 DEF IInv, TypeOK, CountInv, Running
<1>7. TrackInv' /\ PromptIsCoherent'
  BY <1>2 DEF IInv, TrackInv, PromptIsCoherent, Running
<1>8. ScoreIsAccounted'
  BY <1>2 DEF IInv, ScoreIsAccounted
<1> QED
  BY <1>2, <1>5, <1>6, <1>7, <1>8 DEF IInv

\* What a round that chose does to the tracker, ...
LEMMA ChooseTracks ==
    ASSUME IInv, NEW s, s.winner \in Outputs, s.weight \in -MaxWeight..MaxWeight, Running, Choose(s)
    PROVE  /\ hist' = Append(hist, [value |-> s.winner, weight |-> s.weight])
           /\ hist' \in Seq(Chosen) /\ Len(hist') = Len(hist) + 1 /\ Len(hist) \in Nat
           /\ hist'[Len(hist')] = [value |-> s.winner, weight |-> s.weight]
           /\ tracked' = s.winner
           /\ score' \in Int
           /\ score' = Weighted!RunWeight(hist')
           /\ score' = (IF tracked = s.winner THEN score ELSE 0) + s.weight
           /\ outcome' = IF score' >= Threshold
                         THEN [NoOutcome EXCEPT !.reason = "consensus", !.value = s.winner]
                         ELSE NoOutcome
<1> DEFINE e == [value |-> s.winner, weight |-> s.weight]
<1>1. e \in Chosen /\ s.weight \in Int
  BY ConstantsType DEF Chosen
<1>2. hist \in Seq(Chosen) /\ score \in Int
  BY DEF IInv, TypeOK, Chosen
<1>3. /\ hist' = Append(hist, e) /\ tracked' = s.winner /\ score' = ScoreAfter(s)
      /\ outcome' = IF score' >= Threshold
                    THEN [NoOutcome EXCEPT !.reason = "consensus", !.value = s.winner]
                    ELSE NoOutcome
  BY DEF Choose, IInv, TrackInv
<1>4. score' = (IF tracked = s.winner THEN score ELSE 0) + s.weight
  BY <1>3 DEF ScoreAfter
<1>5. score' \in Int
  BY <1>1, <1>2, <1>4
<1>6. hist' \in Seq(Chosen) /\ Len(hist') = Len(hist) + 1 /\ Len(hist) \in Nat
      /\ hist'[Len(hist')] = e
  BY <1>1, <1>2, <1>3
<1>7. score' = Weighted!RunWeight(hist')
  <2>1. Weighted!RunWeight(hist') =
          (IF hist # <<>> /\ hist[Len(hist)].value = s.winner
           THEN Weighted!RunWeight(hist) ELSE 0) + s.weight
    <3>1. e.value = s.winner /\ e.weight = s.weight
      OBVIOUS
    <3> HIDE DEF e
    <3> QED
      BY <1>1, <1>2, <1>3, <3>1, RunWeightAppend
  <2>2. tracked = s.winner <=> hist # <<>> /\ hist[Len(hist)].value = s.winner
    BY ConstantsType DEF IInv, TrackInv
  <2>3. score = Weighted!RunWeight(hist)
    BY DEF IInv, TrackInv
  <2> QED
    BY <1>4, <2>1, <2>2, <2>3
<1> QED
  BY <1>3, <1>4, <1>5, <1>6, <1>7

\* ... and to the accumulator.
LEMMA ChooseRecords ==
    ASSUME IInv, NEW s, s.winner \in Outputs, s.weight \in -MaxWeight..MaxWeight, Running, RoundsLeft,
           Choose(s)
    PROVE  /\ ledger' \in Seq([answer : Conclusions, score : Int, won : 1..MaxRounds])
           /\ Distinct(ledger')
           /\ Books(ledger', hist')
<1> DEFINE c == Conclusion[s.winner]
           e == [value |-> s.winner, weight |-> s.weight]
           Row == [answer : Conclusions, score : Int, won : 1..MaxRounds]
<1>1. c \in Conclusions /\ s.weight \in Int /\ e \in Chosen
      /\ e.value = s.winner /\ e.weight = s.weight
  <2>1. c \in Conclusions
    BY DEF Conclusions
  <2>2. s.weight \in Int
    BY ConstantsType
  <2>3. e \in Chosen
    BY <2>2 DEF Chosen
  <2> QED
    BY <2>1, <2>2, <2>3
<1>2. /\ hist \in Seq(Chosen) /\ hist' = Append(hist, e) /\ hist' \in Seq(Chosen)
      /\ Len(hist') \in Nat /\ Len(hist') <= MaxRounds
  <2>1. Len(hist) < round /\ round <= MaxRounds /\ round \in Int /\ MaxRounds \in Nat
    BY ConstantsType DEF IInv, TypeOK, CountInv, RoundsLeft
  <2>2. /\ hist' = Append(hist, e) /\ hist' \in Seq(Chosen)
        /\ Len(hist') = Len(hist) + 1 /\ Len(hist) \in Nat
    BY ChooseTracks
  <2> QED
    BY <2>1, <2>2 DEF IInv, TypeOK, Chosen
<1>3. ledger \in Seq(Rows)
  <2>1. Row \subseteq Rows
    BY ConstantsType DEF Rows
  <2>2. ledger \in Seq(Row)
    BY DEF IInv, TypeOK
  <2> HIDE DEF Row
  <2> QED
    BY <2>1, <2>2
<1>4. Distinct(ledger) /\ Books(ledger, hist)
  BY DEF IInv, TypeOK, ScoreIsAccounted, Distinct, Books
<1>5. ledger' = Record(ledger, c, s.weight)
  BY DEF Choose
<1> HIDE DEF c, e, Row
<1>6. Recorded(ledger', ledger, c, s.weight)
  BY <1>1, <1>3, <1>4, <1>5, RecordRecords
<1>7. Books(ledger', hist')
  <2>1. c = Conclusion[e.value]
    BY <1>1 DEF c
  <2>2. Recorded(ledger', ledger, Conclusion[e.value], e.weight)
    BY <1>1, <1>6, <2>1
  <2>3. Books(ledger', Append(hist, e))
    BY <1>1, <1>2, <1>3, <1>4, <2>1, <2>2, BooksKept
  <2> QED
    BY <1>2, <2>3
<1>8. ASSUME NEW k \in DOMAIN ledger' PROVE ledger'[k] \in Row
  <2> DEFINE a == ledger'[k].answer
  <2>1. ledger'[k] \in Rows
    BY <1>6 DEF Recorded
  <2>2. ledger'[k].won = Cardinality(Wins(hist', a))
    BY <1>7 DEF Books
  <2>3. \E i \in DOMAIN hist' : Conclusion[hist'[i].value] = a
    <3>1. a \in {Conclusion[hist'[i].value] : i \in DOMAIN hist'}
      BY <1>7 DEF Books
    <3> QED
      BY <3>1
  <2> HIDE DEF a
  <2>4. /\ Cardinality(Wins(hist', a)) \in 0..Len(hist')
        /\ IsFiniteSet(Wins(hist', a))
    BY <1>2, WinsType
  <2>5. Wins(hist', a) # {}
    BY <2>3 DEF Wins
  <2>6. Cardinality(Wins(hist', a)) # 0
    BY <2>4, <2>5, FS_EmptySet
  <2>7. ledger'[k].won \in 1..MaxRounds
    BY <1>2, <2>2, <2>4, <2>6, ConstantsType
  <2> QED
    BY <2>1, <2>7 DEF Rows, Row
<1>9. ledger' \in Seq(Row)
  <2>1. /\ DOMAIN ledger' = 1..Len(ledger') /\ Len(ledger') \in Nat
        /\ ledger' = [k \in 1..Len(ledger') |-> ledger'[k]]
    BY <1>6 DEF Recorded
  <2>2. ledger' \in [1..Len(ledger') -> Row]
    BY <1>8, <2>1
  <2> QED
    BY <2>1, <2>2
<1> QED
  BY <1>6, <1>7, <1>9 DEF Recorded, Row

\* A round with a quorum that chose an output.
LEMMA ChooseInv ==
    ASSUME IInv, NEW outs \in Answers, NEW labels \in Labelings(DOMAIN outs),
           Running, RoundsLeft, Decide(outs, labels), ~SemanticStep(outs, labels, bar).skip
    PROVE  IInv'
<1> DEFINE s == SemanticStep(outs, labels, bar)
           won == [NoOutcome EXCEPT !.reason = "consensus", !.value = s.winner]
<1>1. /\ s.winner \in Outputs /\ s.weight \in -MaxWeight..MaxWeight
      /\ s.dissent \in SUBSET Conclusions /\ Conclusion[s.winner] \notin s.dissent
  BY StepType DEF MaxWeight
<1>2. /\ Running /\ RoundsLeft /\ Choose(s)
      /\ dissent' = s.dissent /\ reference' = Conclusion[s.winner]
      /\ minority' = minority \cup s.dissent
  BY DEF Decide, ReferenceAfter, Choose
<1>3. IF outcome'.reason = "consensus" THEN UNCHANGED <<bar, round>>
      ELSE bar' = ConclusionsOf(outs) /\ round' = round + 1
  BY DEF Decide
<1> HIDE DEF s
<1>4. /\ hist' \in Seq(Chosen) /\ Len(hist') = Len(hist) + 1 /\ Len(hist) \in Nat
      /\ hist'[Len(hist')].value = s.winner
      /\ tracked' = s.winner /\ score' \in Int /\ score' = Weighted!RunWeight(hist')
      /\ outcome' = IF score' >= Threshold THEN won ELSE NoOutcome
  <2>1. /\ hist' \in Seq(Chosen) /\ Len(hist') = Len(hist) + 1 /\ Len(hist) \in Nat
        /\ hist'[Len(hist')] = [value |-> s.winner, weight |-> s.weight]
    BY <1>1, <1>2, ChooseTracks
  <2>2. tracked' = s.winner /\ score' \in Int /\ score' = Weighted!RunWeight(hist')
    BY <1>1, <1>2, ChooseTracks
  <2>3. outcome' = IF score' >= Threshold THEN won ELSE NoOutcome
    BY <1>1, <1>2, ChooseTracks
  <2> QED
    BY <2>1, <2>2, <2>3
<1>5. /\ won \in Outcomes /\ won.reason = "consensus" /\ won.value = s.winner
      /\ NoOutcome.reason = "none"
  <2>1. NoOutcome \in Outcomes /\ NoOutcome.reason = "none"
    BY DEF NoOutcome, Outcomes, Texts
  <2>2. won \in Outcomes
    BY <1>1, <2>1 DEF Outcomes
  <2>3. won.reason = "consensus" /\ won.value = s.winner
    BY DEF NoOutcome
  <2> QED
    BY <2>1, <2>2, <2>3
<1> HIDE DEF won
<1>6. round' \in 1..MaxRounds + 1 /\ bar' \subseteq Conclusions
      /\ (outcome'.reason # "consensus" => round' = round + 1)
  <2>1. ConclusionsOf(outs) \subseteq Conclusions
    BY AnswersType DEF ConclusionsOf
  <2>2. round + 1 \in 1..MaxRounds + 1
    BY <1>2, ConstantsType DEF IInv, TypeOK, RoundsLeft
  <2> QED
    BY <1>3, <2>1, <2>2 DEF IInv, TypeOK
<1>7. TypeOK'
  <2>1. outcome' \in Outcomes
    BY <1>4, <1>5, ConstantsType
  <2>2. /\ ledger' \in Seq([answer : Conclusions, score : Int, won : 1..MaxRounds])
        /\ \A j, k \in DOMAIN ledger' : ledger'[j].answer = ledger'[k].answer => j = k
    BY <1>1, <1>2, ChooseRecords DEF Distinct
  <2>3. minority' \subseteq Conclusions /\ dissent' \subseteq Conclusions /\ reference' \in Texts
        /\ tracked' \in Outputs \cup {None}
    BY <1>1, <1>2, <1>4, ConstantsType DEF IInv, TypeOK, Texts
  <2> QED
    BY <1>4, <1>6, <2>1, <2>2, <2>3 DEF TypeOK, Chosen
<1>8. CountInv'
  <2>2. Len(hist) < round /\ round <= MaxRounds /\ round \in Int /\ MaxRounds \in Nat
    BY <1>2, ConstantsType DEF IInv, TypeOK, CountInv, RoundsLeft
  <2>3. Running' => round' = round + 1
    BY <1>6 DEF Running
  <2> QED
    BY <1>4, <2>2, <2>3 DEF CountInv
<1>9. TrackInv'
  <2>1. hist' # <<>>
    BY <1>4
  <2>2. Running' => outcome' = NoOutcome
    BY <1>4, <1>5 DEF Running
  <2> QED
    BY <1>4, <2>1, <2>2 DEF TrackInv
<1>10. PromptIsCoherent'
  BY <1>1, <1>2, <1>4, ConstantsType DEF PromptIsCoherent
<1>11. ScoreIsAccounted'
  <2>1. Books(ledger', hist')
    BY <1>1, <1>2, ChooseRecords
  <2>2. hist' # <<>> /\ score' >= Threshold <=> outcome'.reason = "consensus"
    BY <1>4, <1>5
  <2>3. outcome'.reason = "consensus" => outcome'.value = tracked'
    BY <1>4, <1>5
  <2>4. outcome'.reason # "no_consensus"
    BY <1>4, <1>5
  <2>5. \/ score' <= Gathered(hist', Conclusion[tracked'])
        \/ \E i \in Wins(hist', Conclusion[tracked']) : hist'[i].weight < 0
    <3>1. hist' \in Seq(Chosen) /\ hist' # <<>>
      BY <1>4
    <3> DEFINE c == Conclusion[hist'[Len(hist')].value]
    <3>2. Conclusion[tracked'] = c
      BY <1>4
    <3> HIDE DEF c
    <3>3. \/ Weighted!RunWeight(hist') <= Gathered(hist', c)
          \/ \E i \in Wins(hist', c) : hist'[i].weight < 0
      BY <3>1, RunIsGathered DEF c
    <3> QED
      BY <1>4, <3>2, <3>3
  <2> QED
    BY <2>1, <2>2, <2>3, <2>4, <2>5 DEF ScoreIsAccounted, Books
<1> QED
  BY <1>7, <1>8, <1>9, <1>10, <1>11 DEF IInv

\* The session ends without consensus.
LEMMA OutOfRoundsInv == ASSUME IInv, OutOfRounds PROVE IInv'
<1>1. UNCHANGED <<round, bar, score, tracked, hist, ledger, minority, dissent, reference>>
      /\ outcome' = NoConsensus /\ Running
  BY DEF OutOfRounds, trackerVars, tellVars
<1>2. ~(hist # <<>> /\ score >= Threshold)
  BY <1>1 DEF IInv, ScoreIsAccounted, Running
<1>3. /\ outcome'.reason = "no_consensus" /\ outcome'.value = None
      /\ outcome'.candidate = IF ledger = <<>> THEN NoText ELSE ledger[BestRow(ledger)].answer
      /\ outcome'.confidence = IF ledger = <<>> \/ Threshold <= 0 THEN 0
                               ELSE ledger[BestRow(ledger)].score
      /\ outcome'.minority = minority
  BY <1>1 DEF NoConsensus
<1>4. ledger \in Seq(Rows) /\ Books(ledger, hist) /\ hist \in Seq(Chosen)
  <2> DEFINE Row == [answer : Conclusions, score : Int, won : 1..MaxRounds]
  <2>1. Row \subseteq Rows
    BY ConstantsType DEF Rows
  <2>2. ledger \in Seq(Row)
    BY DEF IInv, TypeOK
  <2> HIDE DEF Row
  <2>3. ledger \in Seq(Rows)
    BY <2>1, <2>2
  <2> QED
    BY <2>3 DEF IInv, TypeOK, ScoreIsAccounted, Books, Chosen
<1>5. \A k \in DOMAIN ledger : ledger[k].answer \in Conclusions /\ ledger[k].score \in Int
  <2>1. \A k \in DOMAIN ledger : ledger[k] \in Rows
    BY <1>4
  <2> QED
    BY <2>1 DEF Rows
<1>6. ASSUME ledger # <<>>
      PROVE  /\ outcome'.candidate \in Conclusions
             /\ \E i \in DOMAIN hist : outcome'.candidate = Conclusion[hist[i].value]
             /\ \A i \in DOMAIN hist :
                    Gathered(hist, Conclusion[hist[i].value]) <= Gathered(hist, outcome'.candidate)
             /\ outcome'.confidence = IF Threshold <= 0 THEN 0 ELSE Gathered(hist, outcome'.candidate)
             /\ outcome'.confidence \in Int
  <2> DEFINE b == BestRow(ledger)
             a == ledger[b].answer
  <2>1. b \in DOMAIN ledger /\ \A j \in DOMAIN ledger : ledger[j].score <= ledger[b].score
    BY <1>4, <1>6, BestRowIsBest
  <2>2. outcome'.candidate = a
        /\ outcome'.confidence = IF Threshold <= 0 THEN 0 ELSE ledger[b].score
    BY <1>3, <1>6
  <2> HIDE DEF b
  <2>3. a \in Conclusions /\ ledger[b].score = Gathered(hist, a) /\ ledger[b].score \in Int
    BY <1>4, <1>5, <2>1 DEF Books
  <2>4. \E i \in DOMAIN hist : a = Conclusion[hist[i].value]
    <3>1. a \in {Conclusion[hist[i].value] : i \in DOMAIN hist}
      BY <1>4, <2>1 DEF Books
    <3> QED
      BY <3>1
  <2>5. ASSUME NEW i \in DOMAIN hist
        PROVE  Gathered(hist, Conclusion[hist[i].value]) <= Gathered(hist, a)
    <3>1. Conclusion[hist[i].value] \in {ledger[k].answer : k \in DOMAIN ledger}
      BY <1>4 DEF Books
    <3>2. PICK k \in DOMAIN ledger : ledger[k].answer = Conclusion[hist[i].value]
      BY <3>1
    <3>3. ledger[k].score = Gathered(hist, Conclusion[hist[i].value])
      BY <1>4, <3>2 DEF Books
    <3> QED
      BY <2>1, <2>3, <3>3
  <2> HIDE DEF a
  <2> QED
    BY <2>2, <2>3, <2>4, <2>5
<1>7. ledger = <<>> <=> hist = <<>>
  <2>1. {ledger[k].answer : k \in DOMAIN ledger} = {Conclusion[hist[i].value] : i \in DOMAIN hist}
    BY <1>4 DEF Books
  <2>2. DOMAIN ledger = {} <=> DOMAIN hist = {}
    BY ONLY <2>1, ZenonT(30)
  <2>3. ledger = <<>> <=> DOMAIN ledger = {}
    BY <1>4
  <2>4. hist = <<>> <=> DOMAIN hist = {}
    BY <1>4
  <2> QED
    BY <2>2, <2>3, <2>4
<1>8. outcome' \in Outcomes
  <2>1. outcome' = [reason |-> "no_consensus", value |-> None,
                    candidate |-> outcome'.candidate, confidence |-> outcome'.confidence,
                    minority |-> minority]
    BY <1>1 DEF NoConsensus
  <2>2. minority \in SUBSET Conclusions
    BY DEF IInv, TypeOK
  <2>3. outcome'.candidate \in Texts /\ outcome'.confidence \in Int
    BY <1>3, <1>6 DEF Texts
  <2> QED
    BY <2>1, <2>2, <2>3 DEF Outcomes
<1>9. TypeOK'
  BY <1>1, <1>8 DEF IInv, TypeOK
<1>10. CountInv' /\ TrackInv'
  BY <1>1, <1>3 DEF IInv, CountInv, TrackInv, Running
<1>11. PromptIsCoherent'
  BY <1>1 DEF IInv, PromptIsCoherent
<1>12. ScoreIsAccounted'
  <2>1. Books(ledger', hist')
    BY <1>1, <1>4
  <2>2. /\ hist' # <<>> /\ score' >= Threshold <=> outcome'.reason = "consensus"
        /\ outcome'.reason = "consensus" => outcome'.value = tracked'
    BY <1>1, <1>2, <1>3
  <2>3. hist' # <<>> =>
           /\ \E i \in DOMAIN hist' : outcome'.candidate = Conclusion[hist'[i].value]
           /\ \A i \in DOMAIN hist' :
                  Gathered(hist', Conclusion[hist'[i].value]) <= Gathered(hist', outcome'.candidate)
           /\ Threshold > 0 => outcome'.confidence = Gathered(hist', outcome'.candidate)
    BY <1>1, <1>6, <1>7, ConstantsType
  <2>4. tracked' # None =>
           \/ score' <= Gathered(hist', Conclusion[tracked'])
           \/ \E i \in Wins(hist', Conclusion[tracked']) : hist'[i].weight < 0
    BY <1>1 DEF IInv, ScoreIsAccounted
  <2> QED
    BY <2>1, <2>2, <2>3, <2>4 DEF ScoreIsAccounted, Books
<1> QED
  BY <1>9, <1>10, <1>11, <1>12 DEF IInv

LEMMA CancelledInv == ASSUME IInv, Cancelled PROVE IInv'
<1>1. UNCHANGED <<round, bar, score, tracked, hist, ledger, minority, dissent, reference>>
      /\ outcome' = [NoOutcome EXCEPT !.reason = "cancelled"] /\ Running
  BY DEF Cancelled, trackerVars, tellVars
<1>2. outcome' \in Outcomes /\ outcome'.reason = "cancelled"
  BY <1>1 DEF NoOutcome, Outcomes, Texts
<1>3. ~(hist # <<>> /\ score >= Threshold)
  BY <1>1 DEF IInv, ScoreIsAccounted, Running
<1>4. TypeOK'
  BY <1>1, <1>2 DEF IInv, TypeOK
<1>5. CountInv' /\ TrackInv' /\ PromptIsCoherent'
  BY <1>1, <1>2 DEF IInv, CountInv, TrackInv, PromptIsCoherent, Running
<1>6. ScoreIsAccounted'
  <2>1. UNCHANGED <<score, tracked, hist, ledger>>
    BY <1>1
  <2>2. hist' # <<>> /\ score' >= Threshold <=> outcome'.reason = "consensus"
    BY <1>2, <1>3, <2>1
  <2> QED
    BY <1>2, <2>1, <2>2 DEF IInv, ScoreIsAccounted
<1> QED
  BY <1>4, <1>5, <1>6 DEF IInv

LEMMA NextIInv == IInv /\ [Next]_vars => IInv'
<1> SUFFICES ASSUME IInv, [Next]_vars PROVE IInv'
  OBVIOUS
<1>1. CASE RefmQuorum
  <2>1. PICK outs \in Answers : \E labels \in Labelings(DOMAIN outs) : Decide(outs, labels)
    BY <1>1, QuorumAnswers
  <2>2. PICK labels \in Labelings(DOMAIN outs) : Decide(outs, labels)
    BY <2>1
  <2>3. Running /\ RoundsLeft
    BY <1>1 DEF RefmQuorum
  <2> QED
    BY <2>2, <2>3, SkipInv, ChooseInv
<1>2. CASE UNCHANGED vars
  <2>1. UNCHANGED <<round, bar, score, tracked, hist, ledger, minority, dissent, reference,
                    outcome>>
    BY <1>2 DEF vars, trackerVars, tellVars
  <2>2. TypeOK'
    BY <2>1 DEF IInv, TypeOK
  <2>3. CountInv' /\ TrackInv' /\ PromptIsCoherent'
    BY <2>1 DEF IInv, CountInv, TrackInv, PromptIsCoherent, Running
  <2>4. ScoreIsAccounted'
    BY <2>1 DEF IInv, ScoreIsAccounted
  <2> QED
    BY <2>2, <2>3, <2>4 DEF IInv
<1> QED
  BY <1>1, <1>2, NoQuorumInv, OutOfRoundsInv, CancelledInv DEF Next

THEOREM Invariance == Spec => []IInv
<1> QED  BY InitIInv, NextIInv, PTL DEF Spec

\* The state of a session in semantic mode always has its type; in particular the
\* rows of the accumulator have different answers, and no answer wins more rounds
\* than there are.
THEOREM TypeCorrect == Spec => []TypeOK
<1>1. IInv => TypeOK
  BY DEF IInv
<1> QED  BY Invariance, <1>1, PTL

\* What the agents are told after a round is of one piece, for every similarity of
\* answers and every clustering (protocol.py:743).
THEOREM PromptCoherent == Spec => []PromptIsCoherent
<1>1. IInv => PromptIsCoherent
  BY DEF IInv
<1> QED  BY Invariance, <1>1, PTL

\* The books hold exactly the rounds that chose, the session commits exactly when the
\* running score is enough, and one without consensus names a conclusion that gathered
\* most, for similarities of either sign: only a conclusion that has won a round of
\* negative weight can have gathered less than the running score
\* (semantic_equivalence.py, StabilityTracker.apply_round and the accumulator's
\* record_round).
THEOREM ScoreAccounted == Spec => []ScoreIsAccounted
<1>1. IInv => ScoreIsAccounted
  BY DEF IInv
<1> QED  BY Invariance, <1>1, PTL
-----------------------------------------------------------------------------
(* Refinement of WeightedStability.                                        *)

\* One candidate and one running score decide as the whole list of choices would.
THEOREM Refinement == Spec => ImplementsWeightedStability
<1>1. Init => Weighted!Init
  BY DEF Init, Weighted!Init, NoOutcome
<1>2. ASSUME IInv, IInv', [Next]_vars PROVE [Weighted!Next]_<<hist, outcome.value>>
  <2>1. CASE UNCHANGED vars
    BY <2>1 DEF vars, trackerVars
  <2>2. CASE NoRefmQuorum
    BY <2>2 DEF NoRefmQuorum, trackerVars
  <2>3. CASE OutOfRounds \/ Cancelled
    <3>1. outcome'.value = None /\ hist' = hist
      BY <2>3 DEF OutOfRounds, Cancelled, NoConsensus, NoOutcome, trackerVars
    <3> QED
      BY <3>1 DEF Weighted!Next, Weighted!Skip
  <2>4. CASE RefmQuorum
    <3>1. PICK outs \in Answers : \E labels \in Labelings(DOMAIN outs) : Decide(outs, labels)
      BY <2>4, QuorumAnswers
    <3>2. PICK labels \in Labelings(DOMAIN outs) : Decide(outs, labels)
      BY <3>1
    <3>3. Running /\ RoundsLeft
      BY <2>4 DEF RefmQuorum
    <3> DEFINE s == SemanticStep(outs, labels, bar)
    <3>4. CASE s.skip
      <4>1. UNCHANGED <<hist, outcome>>
        BY <1>2, <3>2, <3>3, <3>4, SkipInv
      <4> QED
        BY <4>1
    <3>5. CASE ~s.skip
      <4>1. s.winner \in Outputs /\ s.weight \in -MaxWeight..MaxWeight
        BY <3>5, StepType DEF MaxWeight
      <4>2. Running /\ Choose(s)
        BY <3>2, <3>3, <3>5 DEF Decide
      <4> HIDE DEF s
      <4>3. /\ hist' = Append(hist, [value |-> s.winner, weight |-> s.weight])
            /\ score' = Weighted!RunWeight(hist')
        BY <1>2, <4>1, <4>2, ChooseTracks
      <4>4. outcome' = IF score' >= Threshold
                       THEN [NoOutcome EXCEPT !.reason = "consensus", !.value = s.winner]
                       ELSE NoOutcome
        BY <1>2, <4>1, <4>2, ChooseTracks
      <4>5. outcome'.value = IF score' >= Threshold THEN s.winner ELSE None
        BY <4>4 DEF NoOutcome
      <4>6. Weighted!Observe(s.winner, s.weight)
        BY <4>3, <4>5 DEF Weighted!Observe
      <4> QED
        BY <4>1, <4>6 DEF Weighted!Next, MaxWeight
    <3> QED
      BY <3>4, <3>5
  <2> QED
    BY <1>2, <2>1, <2>2, <2>3, <2>4 DEF Next
<1> QED
  BY <1>1, <1>2, InitIInv, NextIInv, PTL DEF Spec, ImplementsWeightedStability, Weighted!Spec
=============================================================================
