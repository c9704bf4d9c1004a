---------------------------- MODULE Aegean_proofs ----------------------------
(***************************************************************************)
(* Safety of a session for any experts, fault bound, alpha, beta, outputs  *)
(* (None included), acks and round tracks, with failures and cancel().     *)
(***************************************************************************)
EXTENDS Aegean, DecisionRule_proofs

Waits == {"solnWait", "refmWait"}
InRefm == {"refm", "refmWait"}

\* What is still untouched, by the place of execute.
PlaceInv ==
    /\ pc \in {"start", "elect", "acks", "soln", "solnWait"} =>
           rounds = <<>> /\ ~recovered /\ refRound = 1
    /\ pc \notin {"start", "elect", "done"} => leader \in Agents
    /\ pc = "refmWait" => refRound <= MaxRounds
    /\ pc # "done" => result = NoResult

\* A round that is waited for was begun before cancel().
CancelInv ==
    /\ ~cancelled => sinceCancel = 0
    /\ pc \in {"start", "elect", "acks", "soln"} \cup Waits => sinceCancel = 0

\* How the rows follow each other, Round 0 or not.
First == IF recovered THEN 0 ELSE 1
RowsInv ==
    /\ pc \in InRefm => refRound = Len(rounds) + 1 - First
    /\ \A i \in 1..Len(rounds) :
           \/ rounds[i].phase = "proposal" /\ rounds[i].round = 0 /\ i = 1 /\ ~recovered
           \/ rounds[i].phase = "refinement" /\ rounds[i].round = i - First /\ i > First
           \/ /\ rounds[i].phase = "commit" /\ i = Len(rounds) /\ i > 1
              /\ rounds[i].round = rounds[i-1].round
              /\ rounds[i-1].phase = "refinement"
              /\ result.reason = "consensus"

\* The rows of a commit.
CommitInv ==
    result.reason = "consensus" =>
        LET n == Len(rounds) IN
        /\ n > 1
        /\ rounds[n].phase = "commit" /\ rounds[n].bar = <<result.value>>
        /\ rounds[n-1].phase = "refinement" /\ rounds[n-1].round = result.cert.round
        /\ rounds[n-1].decision.committed /\ rounds[n-1].leader = leader
        /\ result.value \in ValuesOf(rounds[n-1].bar)

\* broadcast_bar holds what the last round with a quorum put there.
BarInv ==
    pc # "done" =>
        \A i \in 1..Len(rounds) :
            HadQuorum(i) /\ (\A k \in i+1..Len(rounds) : ~HadQuorum(k))
                => ValuesOf(bar) = Shown(i)

\* The engine's count: so many of the last rounds with a quorum confirm its candidate.
StabilityInv ==
    /\ stability <= Cardinality(QuorumRounds)
    /\ \A i \in QuorumRounds : AmongLast(i, stability) => Confirms(i, candidate)
    /\ result.reason = "consensus" => result.value = candidate /\ stability >= Beta

IInv ==
    /\ TypeOK /\ PlaceInv /\ CancelInv /\ RowsInv /\ CommitInv /\ BarInv /\ StabilityInv
    /\ BarFollowsQuorum /\ CertificateIsSound /\ OneRoundAfterCancel /\ EndsForAReason
-----------------------------------------------------------------------------
(* The constants, the acks and the answers.                                 *)

LEMMA Constants ==
    /\ N \in Nat /\ N >= 3 /\ IsFiniteSet(Agents) /\ Agents \subseteq Nat
    /\ R \in Nat /\ R >= 1
    /\ Outputs \subseteq Nat /\ Outputs \subseteq Values /\ None \in Values
<1>1. N \in Nat /\ N >= 3
  BY SessionAssumption DEF N, ValidFaultBound
<1>2. \A i \in 1..N : Experts[i] \in Nat
  BY SessionAssumption DEF N
<1>3. Agents \subseteq Nat
  BY <1>2 DEF Agents
<1>4. IsFiniteSet(Agents)
  <2>1. IsFiniteSet(1..N)
    BY <1>1, FS_Interval
  <2>2. Experts \in Surjection(1..N, Agents)
    <3>1. Experts = [i \in 1..N |-> Experts[i]]
      BY SessionAssumption DEF N
    <3>2. \A i \in 1..N : Experts[i] \in Agents
      BY DEF Agents
    <3>3. Experts \in [1..N -> Agents]
      BY <3>1, <3>2
    <3>4. \A a \in Agents : \E i \in 1..N : Experts[i] = a
      BY DEF Agents
    <3> QED  BY <3>3, <3>4 DEF Surjection
  <2> QED  BY <2>1, <2>2, FS_Surjection
<1>5. F <= N \div 2 /\ F \in Nat
  BY <1>1, SessionAssumption DEF ValidFaultBound, MaxFaults
<1>6. N \div 2 < N /\ N \div 2 \in Nat
  BY <1>1
<1>7. R \in Nat /\ R >= 1
  BY <1>1, <1>5, <1>6 DEF R, QuorumSize
<1>8. Outputs \subseteq Nat
  BY ConfigAssumption DEF Outputs
<1>9. Outputs \subseteq Values /\ None \in Values
  BY DEF Values
<1> QED  BY <1>1, <1>3, <1>4, <1>7, <1>8, <1>9

\* The leader of an attempt is one of the experts.
LEMMA LeaderIsExpert ==
    ASSUME NEW t \in Nat
    PROVE  t > 0 => Experts[((LeaderIdx + t - 1) % N) + 1] \in Agents
<1>1. N \in Nat /\ N > 0 /\ LeaderIdx \in Nat
  BY Constants, SessionAssumption
<1> HAVE t > 0
<1>2. (LeaderIdx + t - 1) % N \in 0..N-1
  BY <1>1
<1> QED  BY <1>1, <1>2 DEF Agents

\* The answers of a join are outputs of the agents that were asked.
LEMMA AnswersType ==
    ASSUME NEW S \in SUBSET Agents, NEW outs \in Answers(S)
    PROVE  /\ outs \in PartialOutputs(Agents)
           /\ DOMAIN outs \subseteq S /\ IsFiniteSet(DOMAIN outs)
           /\ \A a \in DOMAIN outs : outs[a] \in Outputs
           /\ ValuesOf(outs) \subseteq Outputs
<1>1. PICK T \in SUBSET S : outs \in [T -> Outputs]
  BY DEF Answers
<1>2. IsFiniteSet(T)
  BY Constants, FS_Subset
<1> QED  BY <1>1, <1>2 DEF PartialOutputs, ValuesOf

\* A finite set of acks with a set to recover has a newest one.
LEMMA NewestAck ==
    ASSUME NEW acks \in AckLists, \E a \in acks : ~a.bottom
    PROVE  SelectRecoveryAck(acks) \in acks
<1> DEFINE A == {a \in acks : ~a.bottom}
           Above(a) == {b \in A : ~AckBefore(b, a)}
           Ranks == {Cardinality(Above(a)) : a \in A}
<1>1. IsFiniteSet(A) /\ A # {}
  BY ConfigAssumption, FS_Subset
<1>2. \A a \in A : a.term \in Nat /\ a.round \in Nat /\ a.agent \in Nat
  BY Constants, ConfigAssumption
<1>3. \A a, b \in A : a.agent = b.agent => a = b
  BY ConfigAssumption
<1>4. \A a \in A : IsFiniteSet(Above(a)) /\ Cardinality(Above(a)) \in Nat
  BY <1>1, FS_Subset, FS_CardinalityType
<1>5. Ranks \subseteq Nat /\ Ranks # {}
  BY <1>1, <1>4
<1>6. PICK n \in Ranks : \A m \in Ranks : n <= m
  <2>1. PICK n \in Ranks : \A m \in Ranks : ~(<<m, n>> \in OpToRel(<, Nat))
    BY <1>5, NatLessThanWellFounded, WFMin
  <2>2. ASSUME NEW m \in Ranks PROVE n <= m
    <3>1. m \in Nat /\ n \in Nat
      BY <1>5
    <3>2. <<m, n>> \in OpToRel(<, Nat) <=> m < n
      BY <3>1 DEF OpToRel
    <3>3. ~(m < n)
      BY <2>1, <3>2, Zenon
    <3> QED  BY <3>1, <3>3
  <2> QED  BY <2>2
<1>7. PICK a \in A : n = Cardinality(Above(a))
  OBVIOUS
<1>8. ASSUME NEW b \in A PROVE AckBefore(b, a)
  <2>1. SUFFICES ASSUME ~AckBefore(b, a) PROVE FALSE
    OBVIOUS
  <2>2. Above(b) \subseteq Above(a)
    <3>1. ASSUME NEW x \in A, ~AckBefore(x, b), AckBefore(x, a) PROVE FALSE
      BY <1>2, <2>1, <3>1 DEF AckBefore
    <3> QED  BY <3>1
  <2>3. b \in Above(a) /\ b \notin Above(b)
    BY <1>2, <2>1 DEF AckBefore
  <2>4. /\ Cardinality(Above(b)) <= Cardinality(Above(a))
        /\ Cardinality(Above(b)) # Cardinality(Above(a))
    BY <1>4, <2>2, <2>3, FS_Subset
  <2>5. Cardinality(Above(a)) <= Cardinality(Above(b))
    BY <1>6, <1>7
  <2>6. Cardinality(Above(a)) \in Nat /\ Cardinality(Above(b)) \in Nat
    BY <1>4
  <2> QED  BY <2>4, <2>5, <2>6
<1>9. ~a.bottom /\ \A b \in acks : b.bottom \/ AckBefore(b, a)
  BY <1>8
<1> QED  BY <1>9 DEF SelectRecoveryAck

\* The set of an ack is a sequence of values.
LEMMA AckType ==
    ASSUME NEW acks \in AckLists, NEW a \in acks
    PROVE  a.term \in Nat /\ a.refm \in Seq(Values)
<1>1. a.term \in Nat /\ a.refm \in Seq(Nat)
  BY ConfigAssumption
<1>2. \A i \in 1..Len(a.refm) : a.refm[i] \in Values
  BY <1>1 DEF Values, ValuesOf
<1>3. Len(a.refm) \in Nat /\ a.refm = [i \in 1..Len(a.refm) |-> a.refm[i]]
  BY <1>1
<1> QED  BY SMTT(30), <1>1, <1>2, <1>3
-----------------------------------------------------------------------------
(* What the three kinds of round do, in the terms of the invariant.         *)

LEMMA RowType ==
    ASSUME NEW phase \in {"proposal", "refinement", "commit"}, NEW r \in Nat,
           NEW shown \in PartialOutputs(Agents) \cup Seq(Values),
           NEW outs \in PartialOutputs(Agents), NEW wall \in BOOLEAN,
           NEW d \in Decisions, leader \in Agents
    PROVE  Row(phase, r, shown, outs, wall, d) \in Rows
BY DEF Row, Rows

LEMMA PlainTypes ==
    /\ NoDecision \in Decisions /\ NoResult \in Results /\ NoCert \in Certificates
    /\ \A reason \in {"max_rounds", "timeout", "cancelled", "error"} :
           [reason |-> reason, value |-> None, cert |-> NoCert] \in Results
<1>1. NoDecision \in Decisions
  BY DEF NoDecision, Decisions
<1>2. NoCert \in Certificates
  BY Constants DEF NoCert, Certificates
<1> QED  BY <1>1, <1>2, Constants DEF NoResult, Results

\* Without a leader's solution the session ends; otherwise there is one row, and the
\* refinement set is what was returned, None left out.
LEMMA SolnFacts ==
    ASSUME IInv, NEW outs \in Answers(Agents), NEW wall \in WallTimeouts(outs),
           SolnRound(outs, wall)
    PROVE  /\ pc = "solnWait" /\ rounds = <<>>
           /\ UNCHANGED <<cancelled, term, leader, recovered, track, refRound, engineVars>>
           /\ sinceCancel' = IF cancelled THEN sinceCancel + 1 ELSE sinceCancel
           /\ \/ /\ UNCHANGED <<bar, rounds>>
                 /\ pc' = "done"
                 /\ result' = [reason |-> "error", value |-> None, cert |-> NoCert]
              \/ /\ bar' \in PartialOutputs(Agents)
                 /\ ValuesOf(bar') = ValuesOf(outs) \ {None}
                 /\ \E row \in Rows :
                        /\ rounds' = <<row>>
                        /\ row.phase = "proposal" /\ row.round = 0 /\ row.outs = outs
                        /\ row.wall = wall
                 /\ \/ pc' = "refm" /\ result' = result /\ HasQuorum(outs)
                    \/ /\ pc' = "done"
                       /\ ~HasQuorum(outs)
                       /\ result' = [reason |-> IF wall THEN "timeout" ELSE "max_rounds",
                                     value |-> None, cert |-> NoCert]
<1>1. /\ pc = "solnWait" /\ rounds = <<>> /\ leader \in Agents
      /\ UNCHANGED <<cancelled, term, leader, recovered, track, refRound, engineVars>>
      /\ sinceCancel' = IF cancelled THEN sinceCancel + 1 ELSE sinceCancel
  BY DEF IInv, PlaceInv, SolnRound, CountIfCancelled
<1>2. CASE leader \notin DOMAIN outs
  BY <1>1, <1>2 DEF SolnRound, Finish
<1>3. CASE leader \in DOMAIN outs
  <2> DEFINE kept == {b \in DOMAIN outs : outs[b] # None}
             row == Row("proposal", 0, bar', outs, wall, NoDecision)
  <2>1. bar' = [a \in kept |-> outs[a]] /\ rounds' = Append(rounds, row)
    BY <1>3 DEF SolnRound
  <2>2. outs \in PartialOutputs(Agents) /\ (\A a \in DOMAIN outs : outs[a] \in Outputs)
        /\ DOMAIN outs \subseteq Agents
    BY AnswersType
  <2>3. bar' \in PartialOutputs(Agents)
    <3>1. kept \in SUBSET Agents /\ bar' \in [kept -> Outputs]
      BY <2>1, <2>2
    <3> HIDE DEF kept
    <3> QED  BY <3>1 DEF PartialOutputs
  <2>4. ValuesOf(bar') = ValuesOf(outs) \ {None}
    BY <2>1 DEF ValuesOf
  <2>5. row \in Rows
    BY <1>1, <2>2, <2>3, RowType, PlainTypes DEF WallTimeouts
  <2>6. row.phase = "proposal" /\ row.round = 0 /\ row.outs = outs /\ row.wall = wall
    BY DEF Row
  <2>7. rounds' = <<row>>
    BY <1>1, <2>1
  <2>8. \/ pc' = "refm" /\ result' = result /\ HasQuorum(outs)
        \/ /\ pc' = "done"
           /\ ~HasQuorum(outs)
           /\ result' = [reason |-> IF wall THEN "timeout" ELSE "max_rounds",
                         value |-> None, cert |-> NoCert]
    BY <1>3 DEF SolnRound, Finish
  <2> HIDE DEF row
  <2> QED  BY <1>1, <2>3, <2>4, <2>5, <2>6, <2>7, <2>8
<1> QED  BY <1>2, <1>3

\* A refinement row, whatever comes of it.
RefmRow(row, outs) ==
    /\ row \in Rows
    /\ row.phase = "refinement" /\ row.round = refRound
    /\ row.bar = bar /\ row.outs = outs /\ row.leader = leader

LEMMA RefmFacts ==
    ASSUME IInv, NEW outs \in Answers(Willing(refRound)), NEW wall \in WallTimeouts(outs),
           NoRefmQuorum(outs, wall) \/ RefmQuorum(outs, wall)
    PROVE  /\ pc = "refmWait" /\ leader \in Agents /\ refRound \in 1..MaxRounds
           /\ outs \in PartialOutputs(Agents) /\ IsFiniteSet(DOMAIN outs)
           /\ DOMAIN outs \subseteq Agents
           /\ ValuesOf(outs) \subseteq Outputs
           /\ \A a \in DOMAIN outs : track'[a] = refRound
           /\ track' \in [Agents -> Nat]
           /\ UNCHANGED <<cancelled, term, leader, recovered>>
           /\ sinceCancel' = IF cancelled THEN sinceCancel + 1 ELSE sinceCancel
<1>1. Willing(refRound) \in SUBSET Agents
  BY DEF Willing
<1>2. /\ outs \in PartialOutputs(Agents) /\ IsFiniteSet(DOMAIN outs)
      /\ DOMAIN outs \subseteq Willing(refRound) /\ ValuesOf(outs) \subseteq Outputs
  BY <1>1, AnswersType
<1>3. pc = "refmWait" /\ leader \in Agents /\ refRound \in 1..MaxRounds
  BY ConfigAssumption DEF IInv, TypeOK, PlaceInv, NoRefmQuorum, RefmQuorum
<1>4. track' = [a \in Agents |-> IF a \in Willing(refRound) THEN refRound ELSE track[a]]
  BY DEF NoRefmQuorum, RefmQuorum, BroadcastAccepted
<1>5. track \in [Agents -> Nat]
  BY DEF IInv, TypeOK
<1> QED
  BY <1>1, <1>2, <1>3, <1>4, <1>5 DEF NoRefmQuorum, RefmQuorum, CountIfCancelled

LEMMA NoQuorumFacts ==
    ASSUME IInv, NEW outs \in Answers(Willing(refRound)), NEW wall \in WallTimeouts(outs),
           NoRefmQuorum(outs, wall)
    PROVE  /\ ~HasQuorum(outs)
           /\ \E row : RefmRow(row, outs) /\ rounds' = Append(rounds, row)
           /\ pc' = "refm" /\ refRound' = refRound + 1
           /\ UNCHANGED <<bar, engineVars, result>>
<1> DEFINE row == Row("refinement", refRound, bar, outs, wall, NoDecision)
<1>a. wall \in BOOLEAN
  BY DEF WallTimeouts
<1>b. bar \in PartialOutputs(Agents) \cup Seq(Values)
  BY DEF IInv, TypeOK
<1>c. refRound \in Nat /\ leader \in Agents /\ outs \in PartialOutputs(Agents)
  BY RefmFacts
<1>1. row \in Rows
  BY <1>a, <1>b, <1>c, RowType, PlainTypes
<1>2. RefmRow(row, outs)
  BY <1>1 DEF RefmRow, Row
<1>3. rounds' = Append(rounds, row)
  BY DEF NoRefmQuorum
<1> HIDE DEF row
<1> QED  BY <1>2, <1>3 DEF NoRefmQuorum, BarWithoutQuorum

\* The engine starts again, starts a count, or goes on counting, ...
LEMMA EngineFacts ==
    ASSUME IInv, NEW outs \in Answers(Willing(refRound)), NEW wall \in WallTimeouts(outs),
           RefmQuorum(outs, wall)
    PROVE  /\ Decide(outs) \in Decisions
           /\ candidate' = Decide(outs).eligible /\ stability' = Decide(outs).stability
           /\ candidate' \in Outputs \cup {None} /\ stability' \in Nat
           /\ \/ stability' = 0 /\ ~Decide(outs).committed
              \/ /\ candidate' \in Eligible(ValuesOf(bar), outs, Alpha)
                 /\ \/ stability' = 1
                    \/ stability' = stability + 1 /\ candidate' = candidate
                 /\ Decide(outs).committed => Decide(outs).value = candidate'
                 /\ Decide(outs).committed <=> stability' >= Beta
<1> DEFINE E == Eligible(ValuesOf(bar), outs, Alpha)
           d == Decide(outs)
<1>1. candidate' = d.eligible /\ stability' = d.stability
  BY DEF RefmQuorum
<1>2. stability \in Nat /\ Alpha \in Nat /\ Beta \in Nat /\ Beta > 0
  BY ConfigAssumption DEF IInv, TypeOK
<1>3. E \subseteq Outputs /\ E \subseteq Nat
  BY RefmFacts, Constants DEF Eligible
<1>4. CASE E = {}
  <2>1. d = NoDecision
    BY <1>4, NothingEligible DEF Decide
  <2> QED  BY <1>1, <2>1, PlainTypes DEF NoDecision
<1>5. CASE E # {}
  <2>1. PICK v \in E :
            /\ d = [committed |-> Stability(candidate, stability, v) >= Beta,
                    value |-> IF Stability(candidate, stability, v) >= Beta THEN v ELSE None,
                    stability |-> Stability(candidate, stability, v),
                    eligible |-> v,
                    overturned |-> candidate # None /\ candidate # v]
            /\ Stability(candidate, stability, v) \in Nat \ {0}
    BY <1>2, <1>3, <1>5, SomethingEligible DEF Decide
  <2> HIDE DEF d
  <2>2. candidate' = v /\ stability' = Stability(candidate, stability, v)
    BY <1>1, <2>1
  <2>3. v \in Outputs
    BY <1>3
  <2>4. d \in Decisions
    <3>1. /\ (Stability(candidate, stability, v) >= Beta) \in BOOLEAN
          /\ (candidate # None /\ candidate # v) \in BOOLEAN
      OBVIOUS
    <3>2. (IF Stability(candidate, stability,
    v) >= Beta THEN v ELSE None) \in Outputs \cup {None}
      BY <2>3
    <3> QED  BY <2>1, <2>3, <3>1, <3>2 DEF Decisions
  <2>5. stability' = 1 \/ (stability' = stability + 1 /\ candidate' = candidate)
    <3>1. CASE candidate = None \/ candidate # v
      BY <2>2, <3>1 DEF Stability
    <3>2. CASE ~(candidate = None \/ candidate # v)
      BY <2>2, <3>2 DEF Stability
    <3> QED  BY <3>1, <3>2
  <2>6. d.committed <=> stability' >= Beta
    <3>1. d.committed = (Stability(candidate, stability, v) >= Beta)
      BY <2>1
    <3> QED  BY <2>2, <3>1
  <2>7. d.committed => d.value = v
    <3>1. d.value = IF Stability(candidate, stability, v) >= Beta THEN v ELSE None
      BY <2>1
    <3> QED  BY <2>2, <2>6, <3>1
  <2> QED  BY <1>1, <2>1, <2>2, <2>3, <2>4, <2>5, <2>6, <2>7 DEF d
<1> QED  BY <1>4, <1>5

\* ... and the session commits, or goes on with the outputs of the round.
LEMMA QuorumFacts ==
    ASSUME IInv, NEW outs \in Answers(Willing(refRound)), NEW wall \in WallTimeouts(outs),
           RefmQuorum(outs, wall)
    PROVE  /\ HasQuorum(outs)
           /\ \E row : RefmRow(row, outs) /\ row.decision = Decide(outs) /\
                  \/ /\ ~Decide(outs).committed
                     /\ rounds' = Append(rounds, row)
                     /\ bar' = outs /\ refRound' = refRound + 1 /\ pc' = "refm"
                     /\ result' = result
                  \/ /\ Decide(outs).committed
                     /\ \E commit \in Rows :
                            /\ commit.phase = "commit" /\ commit.round = refRound
                            /\ commit.outs = <<>> /\ commit.bar = <<candidate'>>
                            /\ rounds' = rounds \o <<row, commit>>
                     /\ pc' = "done" /\ UNCHANGED <<bar, refRound>>
                     /\ result' = [reason |-> "consensus", value |-> candidate',
                                   cert |-> Certificate(outs, candidate')]
<1> DEFINE d == Decide(outs)
           row == Row("refinement", refRound, bar, outs, wall, d)
           commit == Row("commit", refRound, <<d.value>>, <<>>, FALSE, NoDecision)
<1>a. wall \in BOOLEAN
  BY DEF WallTimeouts
<1>b. bar \in PartialOutputs(Agents) \cup Seq(Values)
  BY DEF IInv, TypeOK
<1>c. refRound \in Nat /\ leader \in Agents /\ outs \in PartialOutputs(Agents)
  BY RefmFacts
<1>1. row \in Rows
  BY <1>a, <1>b, <1>c, EngineFacts, RowType
<1>2. RefmRow(row, outs) /\ row.decision = d
  BY <1>1 DEF RefmRow, Row
<1>3. HasQuorum(outs)
  BY DEF RefmQuorum
<1>4. CASE ~d.committed
  <2>1. /\ rounds' = Append(rounds, row) /\ bar' = outs /\ refRound' = refRound + 1
        /\ pc' = "refm" /\ result' = result
    BY <1>4 DEF RefmQuorum
  <2> HIDE DEF row, d
  <2> QED  BY <1>2, <1>3, <1>4, <2>1 DEF d
<1>5. CASE d.committed
  <2>1. d.value = candidate'
    BY <1>5, EngineFacts
  <2>2. commit \in Rows
    <3>1. d.value \in Values
      BY <2>1, EngineFacts, Constants
    <3>2. <<d.value>> \in Seq(Values)
      BY <3>1
    <3>3. <<>> \in PartialOutputs(Agents)
      <4>1. <<>> \in [{} -> Outputs]
        OBVIOUS
      <4> QED  BY <4>1 DEF PartialOutputs
    <3> QED  BY <1>a, <1>b, <1>c, <3>2, <3>3, RowType, PlainTypes
  <2>3. /\ commit.phase = "commit" /\ commit.round = refRound
        /\ commit.outs = <<>> /\ commit.bar = <<candidate'>>
    BY <2>1 DEF Row
  <2>4. /\ rounds' = rounds \o <<row, commit>>
        /\ pc' = "done" /\ UNCHANGED <<bar, refRound>>
        /\ result' = [reason |-> "consensus", value |-> candidate',
                      cert |-> Certificate(outs, candidate')]
    BY <1>5, <2>1 DEF RefmQuorum, Finish
  <2> HIDE DEF row, commit, d
  <2> QED  BY <1>2, <1>3, <1>5, <2>2, <2>3, <2>4 DEF d
<1> QED  BY <1>4, <1>5
-----------------------------------------------------------------------------
(* The steps that make no round.                                            *)

Quiet ==
    \/ Cancel \/ Start \/ (\E t \in 1..MaxElectionAttempts : Elect(t)) \/ ElectionFails
    \/ (\E acks \in AckLists : NothingToRecover(acks) \/ Recover(acks))
    \/ JoinCancelled \/ Join \/ OutOfRounds

LEMMA NextCases ==
    ASSUME Next
    PROVE  \/ Quiet
           \/ \E outs \in Answers(Agents) : \E wall \in WallTimeouts(outs) :
                  SolnRound(outs, wall)
           \/ \E outs \in Answers(Willing(refRound)) : \E wall \in WallTimeouts(outs) :
                  NoRefmQuorum(outs, wall) \/ RefmQuorum(outs, wall)
BY DEF Next, Execute, RunRound, Quiet

PlainResults ==
    {[reason |-> reason, value |-> None, cert |-> NoCert] :
        reason \in {"max_rounds", "timeout", "cancelled", "error"}}

\* They leave the rounds and the engine alone, and end without a certificate.
LEMMA QuietFacts ==
    ASSUME IInv, Quiet
    PROVE  /\ UNCHANGED <<rounds, track, refRound, candidate, stability>>
           /\ UNCHANGED <<recovered, bar>> \/ (rounds = <<>> /\ recovered' /\ refRound = 1)
           /\ pc # "done" /\ result = NoResult
           /\ \/ pc' # "done" /\ result' = result
              \/ pc' = "done" /\ result' \in PlainResults
           /\ sinceCancel' \in {0, sinceCancel}
           /\ (pc' \in InRefm /\ UNCHANGED recovered) => pc \in InRefm
<1> USE DEF engineVars, Finish, IInv, PlaceInv, InRefm, PlainResults
<1>1. CASE Cancel
  BY <1>1 DEF Cancel
<1>2. CASE Start
  BY <1>2 DEF Start
<1>3. ASSUME NEW t \in 1..MaxElectionAttempts, Elect(t)
      PROVE  /\ UNCHANGED <<rounds, track, refRound, candidate, stability>>
             /\ UNCHANGED <<recovered, bar>>
             /\ pc # "done" /\ pc' # "done" /\ result' = result
             /\ sinceCancel' = sinceCancel
             /\ pc' \notin InRefm
  BY <1>3 DEF Elect
<1>4. CASE ElectionFails
  BY <1>4 DEF ElectionFails
<1>5. ASSUME NEW acks \in AckLists, NothingToRecover(acks)
      PROVE  /\ UNCHANGED <<rounds, track, refRound, candidate, stability>>
             /\ UNCHANGED <<recovered, bar>>
             /\ pc # "done" /\ pc' # "done" /\ result' = result
             /\ sinceCancel' = sinceCancel
             /\ pc' \notin InRefm
  BY <1>5 DEF NothingToRecover
<1>6. ASSUME NEW acks \in AckLists, Recover(acks)
      PROVE  /\ UNCHANGED <<rounds, track, refRound, candidate, stability>>
             /\ rounds = <<>> /\ ~recovered /\ recovered' /\ refRound = 1
             /\ pc # "done"
             /\ \/ pc' # "done" /\ result' = result
                \/ pc' = "done" /\ result' \in PlainResults
             /\ sinceCancel' = sinceCancel
  BY <1>6 DEF Recover
<1>7. CASE JoinCancelled
  BY <1>7 DEF JoinCancelled
<1>8. CASE Join
  BY <1>8 DEF Join
<1>9. CASE OutOfRounds
  BY <1>9 DEF OutOfRounds
<1> QED  BY <1>1, <1>2, <1>3, <1>4, <1>5, <1>6, <1>7, <1>8, <1>9 DEF Quiet

OwnTypes ==
    /\ pc \in Places /\ cancelled \in BOOLEAN /\ term \in Nat
    /\ leader \in Agents \cup {0} /\ recovered \in BOOLEAN
    /\ bar \in PartialOutputs(Agents) \cup Seq(Values)

LEMMA QuietTypes == ASSUME IInv, Quiet PROVE TypeOK'
<1>a. TypeOK
  BY DEF IInv
<1>b. result' \in Results
  BY <1>a, QuietFacts, PlainTypes DEF PlainResults, TypeOK
<1>c. /\ rounds' \in Seq(Rows) /\ track' \in [Agents -> Nat] /\ refRound' \in 1..MaxRounds + 1
      /\ candidate' \in Outputs \cup {None} /\ stability' \in Nat /\ sinceCancel' \in Nat
  BY <1>a, QuietFacts DEF TypeOK
<1>d. OwnTypes'
  <2> USE <1>a DEF TypeOK, OwnTypes, Places, Finish
  <2>1. CASE Cancel
    BY <2>1 DEF Cancel
  <2>2. CASE Start
    BY <2>2 DEF Start
  <2>3. ASSUME NEW t \in 1..MaxElectionAttempts, Elect(t) PROVE OwnTypes'
    <3>1. t \in Nat /\ t > 0
      BY SessionAssumption
    <3>2. leader' \in Agents
      BY <2>3, <3>1, LeaderIsExpert DEF Elect
    <3> QED  BY <2>3, <3>1, <3>2 DEF Elect
  <2>4. CASE ElectionFails
    BY <2>4 DEF ElectionFails
  <2>5. ASSUME NEW acks \in AckLists, NothingToRecover(acks) PROVE OwnTypes'
    BY <2>5 DEF NothingToRecover
  <2>6. ASSUME NEW acks \in AckLists, Recover(acks) PROVE OwnTypes'
    <3>1. SelectRecoveryAck(acks) \in acks
      BY <2>6, NewestAck DEF Recover
    <3>2. term' \in Nat /\ bar' \in Seq(Values)
      BY <2>6, <3>1, AckType DEF Recover
    <3> QED  BY <2>6, <3>2 DEF Recover
  <2>7. CASE JoinCancelled
    BY <2>7 DEF JoinCancelled
  <2>8. CASE Join
    BY <2>8 DEF Join
  <2>9. CASE OutOfRounds
    BY <2>9 DEF OutOfRounds
  <2> QED  BY <2>1, <2>2, <2>3, <2>4, <2>5, <2>6, <2>7, <2>8, <2>9 DEF Quiet
<1> QED  BY <1>b, <1>c, <1>d DEF TypeOK, OwnTypes

LEMMA QuietPlaces ==
    ASSUME IInv, Quiet
    PROVE  PlaceInv' /\ CancelInv' /\ OneRoundAfterCancel'
<1> USE DEF IInv, TypeOK, PlaceInv, CancelInv, OneRoundAfterCancel, Finish, Waits,
   engineVars,
            NoResult
<1>1. CASE Cancel
  BY <1>1 DEF Cancel
<1>2. CASE Start
  BY <1>2 DEF Start
<1>3. ASSUME NEW t \in 1..MaxElectionAttempts, Elect(t)
      PROVE  PlaceInv' /\ CancelInv' /\ OneRoundAfterCancel'
  <2>1. t \in Nat /\ t > 0
    BY SessionAssumption
  <2>2. leader' \in Agents
    BY <1>3, <2>1, LeaderIsExpert DEF Elect
  <2> QED  BY <1>3, <2>2 DEF Elect
<1>4. CASE ElectionFails
  BY <1>4 DEF ElectionFails
<1>5. ASSUME NEW acks \in AckLists, NothingToRecover(acks)
      PROVE  PlaceInv' /\ CancelInv' /\ OneRoundAfterCancel'
  BY <1>5 DEF NothingToRecover
<1>6. ASSUME NEW acks \in AckLists, Recover(acks)
      PROVE  PlaceInv' /\ CancelInv' /\ OneRoundAfterCancel'
  BY <1>6 DEF Recover
<1>7. CASE JoinCancelled
  BY <1>7 DEF JoinCancelled
<1>8. CASE Join
  BY <1>8 DEF Join, RoundsLeft, MayJoin
<1>9. CASE OutOfRounds
  BY <1>9 DEF OutOfRounds
<1> QED  BY <1>1, <1>2, <1>3, <1>4, <1>5, <1>6, <1>7, <1>8, <1>9 DEF Quiet

LEMMA QuietRounds ==
    ASSUME IInv, Quiet
    PROVE  /\ RowsInv' /\ CommitInv' /\ BarInv' /\ StabilityInv'
           /\ BarFollowsQuorum' /\ CertificateIsSound'
<1>1. rounds' = rounds /\ candidate' = candidate /\ stability' = stability
  BY QuietFacts
<1>2. result'.reason # "consensus" /\ result'.cert = NoCert /\ result.reason # "consensus"
  BY QuietFacts DEF NoResult, PlainResults
<1>3. RefmRounds' = RefmRounds /\ QuorumRounds' = QuorumRounds
  BY <1>1 DEF RefmRounds, QuorumRounds, HasQuorum
<1>4. RowsInv'
  <2>0. refRound' = refRound /\ RowsInv
    BY QuietFacts DEF IInv
  <2>1. CASE UNCHANGED recovered
    <3>1. pc' \in InRefm => pc \in InRefm
      BY <2>1, QuietFacts
    <3> QED  BY <1>1, <1>2, <2>0, <2>1, <3>1 DEF RowsInv, First
  <2>2. CASE rounds = <<>> /\ recovered' /\ refRound = 1
    BY <1>1, <2>0, <2>2 DEF RowsInv, First
  <2> QED  BY <2>1, <2>2, QuietFacts
<1>5. BarInv'
  <2>1. CASE rounds = <<>>
    BY <1>1, <2>1 DEF BarInv
  <2>2. CASE bar' = bar
    BY <1>1, <2>2, QuietFacts DEF IInv, BarInv, HadQuorum, Shown, HasQuorum
  <2> QED  BY <2>1, <2>2, QuietFacts
<1>6. StabilityInv'
  BY <1>1, <1>2, <1>3 DEF IInv, StabilityInv, AmongLast, Confirms
<1>7. BarFollowsQuorum'
  BY <1>1, <1>3 DEF IInv, BarFollowsQuorum, HadQuorum, Shown, HasQuorum
<1>8. CertificateIsSound'
  BY <1>2 DEF CertificateIsSound
<1>9. CommitInv'
  BY <1>2 DEF CommitInv
<1> QED  BY <1>4, <1>5, <1>6, <1>7, <1>8, <1>9

\* The loop ends after MaxRounds refinement rows, and these alone follow Round 0.
LEMMA QuietEnds == ASSUME IInv, Quiet PROVE EndsForAReason'
<1>0. /\ TypeOK /\ PlaceInv /\ RowsInv /\ pc # "done" /\ result = NoResult
      /\ rounds' = rounds
  BY QuietFacts DEF IInv
<1>1. RefmRounds' = RefmRounds
  BY <1>0 DEF RefmRounds
<1>2. CASE result'.reason \notin {"timeout", "max_rounds"}
  BY <1>2 DEF EndsForAReason
<1>3. ASSUME NEW acks \in AckLists, Recover(acks) PROVE EndsForAReason'
  <2>1. rounds = <<>> /\ recovered'
    BY <1>0, <1>3 DEF Recover, PlaceInv
  <2>2. result' = result
        \/ (result' = [reason |-> "max_rounds", value |-> None, cert |-> NoCert] /\ Len(bar') < R)
    BY <1>3 DEF Recover, Finish
  <2> QED  BY <1>0, <2>1, <2>2 DEF EndsForAReason, NoResult
<1>4. CASE OutOfRounds
  <2>1. /\ pc = "refm" /\ ~(refRound <= MaxRounds)
        /\ result'.reason = IF AnyWallTimeout(rounds) THEN "timeout" ELSE "max_rounds"
    BY <1>4 DEF OutOfRounds, RoundsLeft, Finish
  <2>2. refRound = MaxRounds + 1 /\ MaxRounds \in Nat
    BY <1>0, <2>1, ConfigAssumption DEF TypeOK
  <2>3. Len(rounds) \in Nat /\ First \in {0, 1} /\ Len(rounds) - First = MaxRounds
    BY <1>0, <2>1, <2>2 DEF RowsInv, InRefm, TypeOK, First
  <2>4. \A i \in 1..Len(rounds) :
            \/ rounds[i].phase = "proposal" /\ i = 1 /\ First = 1
            \/ rounds[i].phase = "refinement" /\ i > First
    BY <1>0 DEF RowsInv, NoResult, First
  <2>5. DOMAIN rounds = 1..Len(rounds)
    BY <1>0 DEF TypeOK
  <2>6. RefmRounds = First + 1..Len(rounds)
    BY <2>3, <2>4, <2>5 DEF RefmRounds
  <2>7. Cardinality(RefmRounds) = MaxRounds
    <3>1. PICK a \in Int, b \in Int : a = First + 1 /\ b = Len(rounds)
      BY <2>3
    <3>2. Cardinality(a..b) = IF a > b THEN 0 ELSE b - a + 1
      BY FS_Interval
    <3>3. b - a + 1 = MaxRounds /\ (a > b => MaxRounds = 0)
      BY <2>2, <2>3, <3>1
    <3> QED  BY <2>6, <3>1, <3>2, <3>3
  <2> QED  BY <1>0, <1>1, <2>1, <2>7 DEF EndsForAReason, AnyWallTimeout
<1>5. result'.reason \in {"timeout", "max_rounds"} =>
          (\E acks \in AckLists : Recover(acks)) \/ OutOfRounds
  BY <1>0 DEF Quiet, Cancel, Start, Elect, ElectionFails, NothingToRecover, JoinCancelled,
     Join,
              Finish, NoResult
<1> QED  BY <1>2, <1>3, <1>4, <1>5
-----------------------------------------------------------------------------
(* The rounds.                                                              *)

LEMMA OneMore ==
    ASSUME rounds \in Seq(Rows), NEW row \in Rows, rounds' = Append(rounds, row)
    PROVE  /\ rounds' \in Seq(Rows)
           /\ Len(rounds) \in Nat /\ Len(rounds') = Len(rounds) + 1
           /\ DOMAIN rounds = 1..Len(rounds) /\ DOMAIN rounds' = 1..Len(rounds')
           /\ rounds'[Len(rounds) + 1] = row
           /\ \A i \in 1..Len(rounds) : rounds'[i] = rounds[i]
OBVIOUS

LEMMA TwoMore ==
    ASSUME rounds \in Seq(Rows), NEW row \in Rows, NEW commit \in Rows,
           rounds' = rounds \o <<row, commit>>
    PROVE  /\ rounds' \in Seq(Rows)
           /\ Len(rounds) \in Nat /\ Len(rounds') = Len(rounds) + 2
           /\ DOMAIN rounds = 1..Len(rounds) /\ DOMAIN rounds' = 1..Len(rounds')
           /\ rounds'[Len(rounds) + 1] = row /\ rounds'[Len(rounds) + 2] = commit
           /\ \A i \in 1..Len(rounds) : rounds'[i] = rounds[i]
<1>1. <<row, commit>> \in Seq(Rows) /\ Len(<<row, commit>>) = 2
  OBVIOUS
<1> QED  BY <1>1

\* A refinement row at m, with at most commit rows behind it.
NewRow(m) ==
    /\ rounds \in Seq(Rows) /\ rounds' \in Seq(Rows)
    /\ m = Len(rounds) + 1 /\ Len(rounds') >= m
    /\ \A i \in 1..Len(rounds) : rounds'[i] = rounds[i]
    /\ rounds'[m].phase = "refinement"
    /\ \A i \in 1..Len(rounds') : i > m => rounds'[i].phase = "commit"

LEMMA NewRowSets ==
    ASSUME NEW m, NewRow(m)
    PROVE  /\ m \in Nat /\ m \in 1..Len(rounds') /\ QuorumRounds \subseteq 1..m-1
           /\ IsFiniteSet(QuorumRounds)
           /\ RefmRounds' = RefmRounds \cup {m}
           /\ RefmRounds \subseteq 1..m-1
           /\ QuorumRounds' = IF HasQuorum(rounds'[m].outs) THEN QuorumRounds \cup {m}
                                                            ELSE QuorumRounds
<1>1. /\ Len(rounds) \in Nat /\ Len(rounds') \in Nat
      /\ DOMAIN rounds = 1..Len(rounds) /\ DOMAIN rounds' = 1..Len(rounds')
  BY DEF NewRow
<1>2. RefmRounds' = RefmRounds \cup {m} /\ RefmRounds \subseteq 1..m-1
  BY <1>1 DEF NewRow, RefmRounds
<1>3. QuorumRounds' = IF HasQuorum(rounds'[m].outs) THEN QuorumRounds \cup {m} ELSE QuorumRounds
  <2>1. \A i \in RefmRounds : rounds'[i] = rounds[i]
    BY <1>1, <1>2 DEF NewRow
  <2>2. QuorumRounds' = {i \in RefmRounds \cup {m} : HasQuorum(rounds'[i].outs)}
    BY <1>2 DEF QuorumRounds, HasQuorum
  <2>3. m \notin RefmRounds
    BY <1>1, <1>2 DEF NewRow
  <2> QED  BY <2>1, <2>2, <2>3 DEF QuorumRounds
<1>4. QuorumRounds \subseteq 1..m-1
  BY <1>2 DEF QuorumRounds
<1>5. m \in Nat /\ m \in 1..Len(rounds') /\ m - 1 \in Int
  BY <1>1 DEF NewRow
<1>6. IsFiniteSet(QuorumRounds)
  <2>1. IsFiniteSet(1..m-1)
    BY <1>5, FS_Interval
  <2> QED  BY <1>4, <2>1, FS_Subset
<1> QED  BY <1>2, <1>3, <1>4, <1>5, <1>6

\* A new number above a set of numbers.
LEMMA OneAbove ==
    ASSUME NEW Q, IsFiniteSet(Q), NEW m \in Nat, Q \subseteq 1..m-1
    PROVE  /\ Cardinality(Q) \in Nat /\ Cardinality(Q \cup {m}) = Cardinality(Q) + 1
           /\ \A i \in Q :
                  /\ Cardinality({j \in Q : j > i}) \in Nat
                  /\ Cardinality({j \in Q \cup {m} : j > i}) = Cardinality({j \in Q : j > i}) + 1
<1>1. m \notin Q
  OBVIOUS
<1>2. Cardinality(Q) \in Nat /\ Cardinality(Q \cup {m}) = Cardinality(Q) + 1
  BY <1>1, FS_CardinalityType, FS_AddElement
<1>3. ASSUME NEW i \in Q
      PROVE  /\ Cardinality({j \in Q : j > i}) \in Nat
             /\ Cardinality({j \in Q \cup {m} : j > i}) = Cardinality({j \in Q : j > i}) + 1
  <2> DEFINE above == {j \in Q : j > i}
  <2>1. {j \in Q \cup {m} : j > i} = above \cup {m} /\ m \notin above
    BY <1>1, <1>3
  <2>2. IsFiniteSet(above)
    BY FS_Subset
  <2> QED  BY <2>1, <2>2, FS_CardinalityType, FS_AddElement
<1> QED  BY <1>2, <1>3

\* A round shows what the last one with a quorum put there.
LEMMA BarFollows ==
    ASSUME IInv, NEW m, NewRow(m), pc # "done", rounds'[m].bar = bar
    PROVE  BarFollowsQuorum'
<1>1. /\ m \in Nat /\ m - 1 = Len(rounds) /\ RefmRounds' = RefmRounds \cup {m}
      /\ RefmRounds \subseteq 1..m-1
  BY NewRowSets DEF NewRow
<1>2. \A i \in 1..m-1 : rounds'[i] = rounds[i]
  BY <1>1 DEF NewRow
<1>3. \A i \in 1..m-1 : (HadQuorum(i)' <=> HadQuorum(i)) /\ Shown(i)' = Shown(i)
  BY <1>2 DEF HadQuorum, Shown, HasQuorum
<1>4. SUFFICES ASSUME NEW j \in RefmRounds \cup {m}, NEW i \in 1..j-1,
                      HadQuorum(i)', \A k \in i+1..j-1 : ~HadQuorum(k)'
               PROVE  ValuesOf(rounds'[j].bar) = Shown(i)'
  BY <1>1 DEF BarFollowsQuorum
<1>5. CASE j \in RefmRounds
  <2>1. j \in 1..m-1 /\ i \in 1..m-1 /\ \A k \in i+1..j-1 : k \in 1..m-1
    BY <1>1, <1>5
  <2>2. HadQuorum(i) /\ \A k \in i+1..j-1 : ~HadQuorum(k)
    BY <1>3, <1>4, <2>1
  <2>3. ValuesOf(rounds[j].bar) = Shown(i)
    BY <1>5, <2>2 DEF IInv, BarFollowsQuorum
  <2> QED  BY <1>2, <1>3, <2>1, <2>3
<1>6. CASE j = m
  <2>1. i \in 1..m-1 /\ \A k \in i+1..m-1 : k \in 1..m-1
    BY <1>1, <1>6
  <2>2. HadQuorum(i) /\ \A k \in i+1..Len(rounds) : ~HadQuorum(k)
    BY <1>1, <1>3, <1>4, <1>6, <2>1
  <2>3. ValuesOf(bar) = Shown(i)
    BY <1>1, <2>1, <2>2 DEF IInv, BarInv
  <2> QED  BY <1>3, <1>6, <2>1, <2>3
<1> QED  BY <1>5, <1>6

\* The next refinement row takes its place behind the others.
LEMMA RowsGoOn ==
    ASSUME RowsInv, refRound \in Nat, refRound >= 1, pc = "refmWait", result = NoResult,
           Len(rounds) \in Nat, NEW m \in Nat, m = Len(rounds) + 1, Len(rounds') = m,
           \A i \in 1..Len(rounds) : rounds'[i] = rounds[i],
           rounds'[m].phase = "refinement", rounds'[m].round = refRound,
           refRound' = refRound + 1, UNCHANGED <<recovered, result>>
    PROVE  RowsInv'
<1>1. First' = First /\ First \in {0, 1} /\ refRound = m - First /\ m > First
  BY DEF RowsInv, First, InRefm
<1>2. result.reason # "consensus"
  BY DEF NoResult
<1>3. ASSUME NEW i \in 1..m
      PROVE  \/ /\ rounds'[i].phase = "proposal" /\ rounds'[i].round = 0 /\ i = 1
                /\ ~recovered'
             \/ rounds'[i].phase = "refinement" /\ rounds'[i].round = i - First' /\ i > First'
  <2>1. CASE i = m
    BY <1>1, <2>1
  <2>2. CASE i # m
    <3>1. i \in 1..Len(rounds) /\ rounds'[i] = rounds[i]
      BY <2>2
    <3> QED  BY <1>1, <1>2, <3>1 DEF RowsInv
  <2> QED  BY <2>1, <2>2
<1> QED  BY <1>1, <1>3 DEF RowsInv, InRefm

\* Round 0.
LEMMA SolnInv ==
    ASSUME IInv, NEW outs \in Answers(Agents), NEW wall \in WallTimeouts(outs),
           SolnRound(outs, wall)
    PROVE  IInv'
<1>0. TypeOK /\ PlaceInv /\ CancelInv /\ OneRoundAfterCancel /\ StabilityInv
  BY DEF IInv
<1>1. /\ pc = "solnWait" /\ rounds = <<>> /\ ~recovered /\ refRound = 1
      /\ leader \in Agents /\ result = NoResult /\ sinceCancel = 0
  BY <1>0, SolnFacts DEF PlaceInv, CancelInv, Waits
<1>2. /\ UNCHANGED <<cancelled, term, leader, recovered, track, refRound>>
      /\ candidate' = candidate /\ stability' = stability
      /\ sinceCancel' = IF cancelled THEN sinceCancel + 1 ELSE sinceCancel
  BY SolnFacts DEF engineVars
<1>3. stability' = 0
  <2>1. QuorumRounds = {}
    BY <1>1 DEF QuorumRounds, RefmRounds
  <2> QED  BY <1>0, <1>2, <2>1, FS_EmptySet DEF StabilityInv, TypeOK
<1>4. pc' \in {"refm", "done"} /\ result'.cert = NoCert /\ result'.reason # "consensus"
      /\ result' \in Results /\ (pc' # "done" => result' = NoResult)
  BY <1>1, SolnFacts, PlainTypes DEF NoResult
<1>5. RefmRounds' = {} /\ QuorumRounds' = {}
  <2>1. RefmRounds' = {}
    BY <1>1, SolnFacts DEF RefmRounds
  <2> QED  BY <2>1 DEF QuorumRounds
<1>6. bar' \in PartialOutputs(Agents) \cup Seq(Values) /\ rounds' \in Seq(Rows)
  <2>1. CASE UNCHANGED <<bar, rounds>>
    BY <1>0, <2>1 DEF TypeOK
  <2>2. ASSUME bar' \in PartialOutputs(Agents), NEW row \in Rows, rounds' = <<row>>
        PROVE  bar' \in PartialOutputs(Agents) \cup Seq(Values) /\ rounds' \in Seq(Rows)
    <3>1. <<row>> \in Seq(Rows)
      OBVIOUS
    <3> QED  BY <2>2, <3>1
  <2> QED  BY <2>1, <2>2, SolnFacts
<1>7. TypeOK'
  BY <1>0, <1>2, <1>4, <1>6 DEF TypeOK, Places
<1>8. PlaceInv' /\ CancelInv' /\ OneRoundAfterCancel'
  BY <1>0, <1>1, <1>2, <1>4 DEF PlaceInv, CancelInv, OneRoundAfterCancel, Waits
<1>9. StabilityInv' /\ BarFollowsQuorum' /\ CertificateIsSound'
  BY <1>3, <1>4, <1>5, FS_EmptySet DEF StabilityInv, BarFollowsQuorum, CertificateIsSound
<1>10. RowsInv' /\ BarInv'
  <2>1. CASE pc' = "done"
    BY <1>1, <1>2, <2>1, SolnFacts DEF RowsInv, First, InRefm, BarInv
  <2>2. CASE pc' # "done"
    <3>1. PICK row \in Rows :
              /\ rounds' = <<row>> /\ row.phase = "proposal" /\ row.round = 0
              /\ row.outs = outs
      BY <2>2, SolnFacts
    <3>2. ValuesOf(bar') = ValuesOf(outs) \ {None}
      BY <2>2, SolnFacts
    <3>3. Len(rounds') = 1 /\ rounds'[1] = row
      BY <3>1
    <3> QED
      BY <1>1, <1>2, <3>1, <3>2, <3>3 DEF RowsInv, First, InRefm, BarInv, Shown
  <2> QED  BY <2>1, <2>2
<1>11. CommitInv'
  BY <1>4 DEF CommitInv
<1>12. EndsForAReason'
  <2>1. CASE result'.reason \notin {"timeout", "max_rounds"}
    BY <2>1 DEF EndsForAReason
  <2>2. ASSUME NEW row \in Rows, rounds' = <<row>>, row.wall = wall, row.outs = outs,
               ~HasQuorum(outs),
               result'.reason = IF wall THEN "timeout" ELSE "max_rounds"
        PROVE  EndsForAReason'
    <3>1. Len(rounds') = 1 /\ rounds'[1] = row /\ DOMAIN rounds' = 1..1
      BY <2>2
    <3>2. (~HasQuorum(rounds[1].outs))'
      BY <2>2, <3>1 DEF HasQuorum
    <3>3. result'.reason = "timeout" <=> \E i \in DOMAIN rounds' : rounds'[i].wall
      BY <2>2, <3>1
    <3> QED  BY <3>1, <3>2, <3>3 DEF EndsForAReason
  <2> QED  BY <2>1, <2>2, SolnFacts, <1>1 DEF NoResult
<1> QED  BY <1>7, <1>8, <1>9, <1>10, <1>11, <1>12 DEF IInv

\* A round without a quorum.
LEMMA NoQuorumInv ==
    ASSUME IInv, NEW outs \in Answers(Willing(refRound)), NEW wall \in WallTimeouts(outs),
           NoRefmQuorum(outs, wall)
    PROVE  IInv'
<1>0. /\ TypeOK /\ PlaceInv /\ CancelInv /\ OneRoundAfterCancel /\ StabilityInv /\ RowsInv
      /\ BarInv
  BY DEF IInv
<1>1. /\ pc = "refmWait" /\ refRound \in 1..MaxRounds /\ leader \in Agents
      /\ track' \in [Agents -> Nat] /\ UNCHANGED <<cancelled, term, leader, recovered>>
      /\ sinceCancel' = IF cancelled THEN sinceCancel + 1 ELSE sinceCancel
  BY RefmFacts
<1>2. /\ ~HasQuorum(outs) /\ pc' = "refm" /\ refRound' = refRound + 1
      /\ bar' = bar /\ candidate' = candidate /\ stability' = stability /\ result' = result
  BY NoQuorumFacts DEF engineVars
<1>3. PICK row : RefmRow(row, outs) /\ rounds' = Append(rounds, row)
  BY NoQuorumFacts
<1>4. /\ rounds \in Seq(Rows) /\ row \in Rows /\ row.phase = "refinement"
      /\ row.round = refRound /\ row.bar = bar /\ row.outs = outs
  BY <1>0, <1>3 DEF TypeOK, RefmRow
<1>m. PICK m \in Nat : m = Len(rounds) + 1
  BY <1>4
<1>5. /\ rounds' \in Seq(Rows) /\ Len(rounds) \in Nat /\ Len(rounds') = m
      /\ rounds'[m] = row /\ \A i \in 1..Len(rounds) : rounds'[i] = rounds[i]
  BY <1>3, <1>4, <1>m, OneMore
<1>6. NewRow(m)
  BY <1>4, <1>5, <1>m DEF NewRow
<1>7. QuorumRounds' = QuorumRounds /\ QuorumRounds \subseteq 1..Len(rounds)
  BY <1>2, <1>4, <1>5, <1>6, <1>m, NewRowSets
<1>8. TypeOK'
  BY <1>0, <1>1, <1>2, <1>5, ConfigAssumption DEF TypeOK, Places
<1>9. result = NoResult /\ sinceCancel = 0
  BY <1>0, <1>1 DEF PlaceInv, CancelInv, Waits
<1>10. /\ PlaceInv' /\ CancelInv' /\ OneRoundAfterCancel' /\ CertificateIsSound'
       /\ CommitInv' /\ EndsForAReason'
  BY <1>1, <1>2, <1>9 DEF PlaceInv, CancelInv, OneRoundAfterCancel, CertificateIsSound,
     Waits,
     NoResult, CommitInv, EndsForAReason
<1>11. RowsInv'
  BY <1>0, <1>1, <1>2, <1>4, <1>5, <1>9, <1>m, RowsGoOn
<1>12. BarInv'
  <2>2. ~HadQuorum(m)'
    BY <1>2, <1>4, <1>5 DEF HadQuorum, HasQuorum
  <2>3. \A i \in 1..Len(rounds) : (HadQuorum(i)' <=> HadQuorum(i)) /\ Shown(i)' = Shown(i)
    BY <1>5 DEF HadQuorum, Shown, HasQuorum
  <2>4. ASSUME NEW i \in 1..Len(rounds'), HadQuorum(i)',
               \A k \in i+1..Len(rounds') : ~HadQuorum(k)'
        PROVE  ValuesOf(bar') = Shown(i)'
    <3>1. i \in 1..Len(rounds) /\ \A k \in i+1..Len(rounds) : k \in 1..Len(rounds')
      BY <1>5, <1>m, <2>2, <2>4
    <3>2. HadQuorum(i) /\ \A k \in i+1..Len(rounds) : ~HadQuorum(k)
      BY <1>5, <1>m, <2>3, <2>4, <3>1
    <3> QED  BY <1>0, <1>1, <1>2, <2>3, <3>1, <3>2 DEF BarInv
  <2> QED  BY <2>4 DEF BarInv
<1>13. StabilityInv'
  BY <1>0, <1>2, <1>5, <1>7, <1>9 DEF StabilityInv, AmongLast, Confirms, NoResult
<1>14. BarFollowsQuorum'
  BY <1>1, <1>4, <1>5, <1>6, BarFollows
<1> QED  BY <1>8, <1>10, <1>11, <1>12, <1>13, <1>14 DEF IInv

\* The engine's count after a round with a quorum: a count that goes on, or begins,
\* is backed by this round; one that goes on, by the older ones too.
LEMMA Counted ==
    ASSUME IInv, NEW m, NewRow(m), HasQuorum(rounds'[m].outs), stability' \in Nat,
           \/ stability' = 0
           \/ /\ Support(rounds'[m].outs, candidate') >= Alpha
              /\ candidate' \in ValuesOf(rounds'[m].bar)
              /\ \/ stability' = 1
                 \/ stability' = stability + 1 /\ candidate' = candidate
    PROVE  /\ stability' <= Cardinality(QuorumRounds')
           /\ \A i \in QuorumRounds' : AmongLast(i, stability)' => Confirms(i, candidate)'
<1> DEFINE Q == QuorumRounds
<1>1. /\ m \in Nat /\ Q \subseteq 1..m-1 /\ IsFiniteSet(Q) /\ QuorumRounds' = Q \cup {m}
      /\ stability \in Nat
  BY NewRowSets DEF IInv, TypeOK
<1>2. \A i \in Q : rounds'[i] = rounds[i]
  BY <1>1 DEF NewRow
<1> HIDE DEF Q
<1>3. /\ Cardinality(Q) \in Nat /\ Cardinality(Q \cup {m}) = Cardinality(Q) + 1
      /\ \A i \in Q :
             /\ Cardinality({j \in Q : j > i}) \in Nat
             /\ Cardinality({j \in Q \cup {m} : j > i}) = Cardinality({j \in Q : j > i}) + 1
  BY <1>1, OneAbove
<1>4. stability <= Cardinality(Q)
  BY DEF IInv, StabilityInv, Q
<1>5. stability' <= Cardinality(QuorumRounds')
  BY <1>1, <1>3, <1>4
<1>6. ASSUME NEW i \in Q \cup {m}, Cardinality({j \in Q \cup {m} : j > i}) < stability'
      PROVE  Support(rounds'[i].outs, candidate') >= Alpha /\ candidate' \in ValuesOf(rounds'[i].bar)
  <2>1. stability' # 0
    <3>1. IsFiniteSet({j \in Q \cup {m} : j > i})
      BY <1>1, FS_AddElement, FS_Subset
    <3>2. Cardinality({j \in Q \cup {m} : j > i}) \in Nat
      BY <3>1, FS_CardinalityType
    <3> QED  BY <1>6, <3>2
  <2>2. CASE i = m
    BY <2>1, <2>2
  <2>3. CASE i \in Q
    <3>1. Cardinality({j \in Q : j > i}) + 1 < stability' /\ Cardinality({j \in Q : j > i}) \in Nat
      BY <1>3, <1>6, <2>3
    <3>2. stability' = stability + 1 /\ candidate' = candidate
      BY <2>1, <3>1
    <3>3. Cardinality({j \in Q : j > i}) < stability
      BY <1>1, <3>1, <3>2
    <3>4. Confirms(i, candidate)
      BY <2>3, <3>3 DEF IInv, StabilityInv, AmongLast, Q
    <3> QED  BY <1>2, <2>3, <3>2, <3>4 DEF Confirms
  <2> QED  BY <2>2, <2>3
<1> QED  BY <1>1, <1>5, <1>6 DEF AmongLast, Confirms

\* The certificate of a commit: the row at m is the last of refinement.
LEMMA Certified ==
    ASSUME IInv, NEW outs, NEW m, NewRow(m), rounds'[m].outs = outs,
           rounds'[m].round = refRound, refRound \in Nat, refRound >= 1,
           HasQuorum(outs), Support(outs, candidate') >= Alpha,
           \A a \in DOMAIN outs : track'[a] = refRound,
           UNCHANGED <<term, leader>>,
           result' = [reason |-> "consensus", value |-> candidate',
                      cert |-> Certificate(outs, candidate')]
    PROVE  CertificateIsSound'
<1> DEFINE c == Certificate(outs, candidate')
<1>1. c = [term |-> term, round |-> refRound, leader |-> leader, value |-> candidate',
           supporters |-> DOMAIN outs]
  BY DEF Certificate
<1>2. result'.cert = c /\ result'.reason = "consensus" /\ result'.value = candidate'
  OBVIOUS
<1>3. c # NoCert
  BY <1>1 DEF NoCert
<1>4. LastRefm' = m
  <2>1. RefmRounds' = RefmRounds \cup {m} /\ RefmRounds \subseteq 1..m-1 /\ m \in Nat
    BY NewRowSets
  <2> HIDE DEF RefmRounds
  <2>2. m \in RefmRounds' /\ \A j \in RefmRounds' : j <= m
    BY <2>1
  <2>3. \A i \in RefmRounds' : (\A j \in RefmRounds' : j <= i) => i = m
    BY <2>1, <2>2
  <2> QED  BY <2>2, <2>3 DEF LastRefm
<1>5. Cardinality(DOMAIN outs) >= R
  BY DEF HasQuorum
<1>6. Cardinality({a \in DOMAIN outs : outs[a] = candidate'}) >= Alpha
  BY DEF Support
<1> HIDE DEF c
<1>7. /\ c.term = term' /\ c.leader = leader' /\ c.round = rounds'[m].round
      /\ c.value = result'.value /\ c.supporters = DOMAIN outs
  BY <1>1, <1>2
<1>8. Cardinality({a \in c.supporters : rounds'[m].outs[a] = c.value}) >= Alpha
  BY <1>2, <1>6, <1>7
<1>9. /\ Cardinality(c.supporters) >= R
      /\ \A a \in c.supporters : track'[a] = c.round
  BY <1>5, <1>7
<1> QED
  BY <1>2, <1>3, <1>4, <1>7, <1>8, <1>9 DEF CertificateIsSound

\* A round with a quorum.
LEMMA QuorumInv ==
    ASSUME IInv, NEW outs \in Answers(Willing(refRound)), NEW wall \in WallTimeouts(outs),
           RefmQuorum(outs, wall)
    PROVE  IInv'
<1>0. /\ TypeOK /\ PlaceInv /\ CancelInv /\ OneRoundAfterCancel /\ StabilityInv /\ RowsInv
      /\ BarInv
  BY DEF IInv
<1>1. /\ pc = "refmWait" /\ refRound \in 1..MaxRounds /\ leader \in Agents
      /\ track' \in [Agents -> Nat] /\ UNCHANGED <<cancelled, term, leader, recovered>>
      /\ outs \in PartialOutputs(Agents) /\ DOMAIN outs \subseteq Agents
      /\ \A a \in DOMAIN outs : track'[a] = refRound
      /\ sinceCancel' = IF cancelled THEN sinceCancel + 1 ELSE sinceCancel
  BY RefmFacts
<1>2. result = NoResult /\ sinceCancel = 0
  BY <1>0, <1>1 DEF PlaceInv, CancelInv, Waits
<1>3. candidate' \in Outputs \cup {None} /\ stability' \in Nat
  BY EngineFacts
<1>4. HasQuorum(outs)
  BY QuorumFacts
<1>5. rounds \in Seq(Rows) /\ Len(rounds) \in Nat
  BY <1>0 DEF TypeOK
<1>m. PICK m \in Nat : m = Len(rounds) + 1
  BY <1>5
<1>6. PICK row :
          /\ RefmRow(row, outs) /\ row.decision = Decide(outs)
          /\ \/ /\ ~Decide(outs).committed
                /\ rounds' = Append(rounds, row)
                /\ bar' = outs /\ refRound' = refRound + 1 /\ pc' = "refm"
                /\ result' = result
             \/ /\ Decide(outs).committed
                /\ \E commit \in Rows :
                       /\ commit.phase = "commit" /\ commit.round = refRound
                       /\ commit.outs = <<>> /\ commit.bar = <<candidate'>>
                       /\ rounds' = rounds \o <<row, commit>>
                /\ pc' = "done" /\ UNCHANGED <<bar, refRound>>
                /\ result' = [reason |-> "consensus", value |-> candidate',
                              cert |-> Certificate(outs, candidate')]
  BY QuorumFacts
<1>7. /\ row \in Rows /\ row.phase = "refinement" /\ row.round = refRound
      /\ row.bar = bar /\ row.outs = outs /\ row.leader = leader
  BY <1>6 DEF RefmRow
<1>8. candidate' \in Eligible(ValuesOf(bar), outs, Alpha) =>
          Support(outs, candidate') >= Alpha /\ candidate' \in ValuesOf(bar)
  BY DEF Eligible
<1>9. CASE ~Decide(outs).committed
  <2>1. /\ rounds' = Append(rounds, row) /\ bar' = outs /\ refRound' = refRound + 1
        /\ pc' = "refm" /\ result' = result
    BY <1>6, <1>9
  <2>2. /\ rounds' \in Seq(Rows) /\ Len(rounds') = m /\ rounds'[m] = row
        /\ \A i \in 1..Len(rounds) : rounds'[i] = rounds[i]
    BY <1>5, <1>7, <1>m, <2>1, OneMore
  <2>3. NewRow(m)
    BY <1>5, <1>7, <1>m, <2>2 DEF NewRow
  <2>4. TypeOK'
    BY <1>0, <1>1, <1>2, <1>3, <2>1, <2>2, ConfigAssumption DEF TypeOK, Places
  <2>5. /\ PlaceInv' /\ CancelInv' /\ OneRoundAfterCancel' /\ CertificateIsSound'
        /\ CommitInv' /\ EndsForAReason'
    BY <1>1, <1>2, <2>1 DEF PlaceInv, CancelInv, OneRoundAfterCancel, CertificateIsSound,
       Waits,
       NoResult, CommitInv, EndsForAReason
  <2>6. RowsInv'
    BY <1>0, <1>1, <1>2, <1>5, <1>7, <1>m, <2>1, <2>2, RowsGoOn
  <2>7. BarInv'
    <3>1. HadQuorum(m)' /\ Shown(m)' = ValuesOf(bar')
      BY <1>4, <1>7, <2>1, <2>2 DEF HadQuorum, Shown, HasQuorum
    <3>2. ASSUME NEW i \in 1..Len(rounds'), \A k \in i+1..Len(rounds') : ~HadQuorum(k)'
          PROVE  i = m
      BY <1>m, <2>2, <3>1, <3>2
    <3> QED  BY <3>1, <3>2 DEF BarInv
  <2>8. StabilityInv'
    BY <1>2, <1>3, <1>4, <1>7, <1>8, <2>1, <2>2, <2>3, EngineFacts, Counted
       DEF StabilityInv, NoResult
  <2>9. BarFollowsQuorum'
    BY <1>1, <1>7, <2>2, <2>3, BarFollows
  <2> QED  BY <2>4, <2>5, <2>6, <2>7, <2>8, <2>9 DEF IInv
<1>10. CASE Decide(outs).committed
  <2>1. PICK commit \in Rows :
            /\ commit.phase = "commit" /\ commit.round = refRound
            /\ commit.bar = <<candidate'>>
            /\ rounds' = rounds \o <<row, commit>>
    BY <1>6, <1>10
  <2>2. /\ pc' = "done" /\ bar' = bar /\ refRound' = refRound
        /\ result' = [reason |-> "consensus", value |-> candidate',
                      cert |-> Certificate(outs, candidate')]
    BY <1>6, <1>10
  <2>3. /\ rounds' \in Seq(Rows) /\ Len(rounds') = m + 1
        /\ rounds'[m] = row /\ rounds'[m + 1] = commit
        /\ \A i \in 1..Len(rounds) : rounds'[i] = rounds[i]
    BY <1>5, <1>7, <1>m, <2>1, TwoMore
  <2>4. NewRow(m)
    BY <1>5, <1>7, <1>m, <2>1, <2>3 DEF NewRow
  <2>5. /\ candidate' \in Eligible(ValuesOf(bar), outs, Alpha)
        /\ stability' = 1 \/ (stability' = stability + 1 /\ candidate' = candidate)
        /\ stability' >= Beta
    BY <1>10, EngineFacts
  <2>6. result' \in Results
    <3>1. Certificate(outs, candidate') \in Certificates
      <4>1. candidate' \in Values
        BY <1>3, Constants
      <4>2. term \in Nat /\ refRound \in Nat
        BY <1>0, <1>1, ConfigAssumption DEF TypeOK
      <4> QED  BY <1>1, <4>1, <4>2 DEF Certificate, Certificates
    <3> QED  BY <1>3, <2>2, <3>1, Constants DEF Results
  <2>7. TypeOK'
    BY <1>0, <1>1, <1>2, <1>3, <2>2, <2>3, <2>6 DEF TypeOK, Places
  <2>8. PlaceInv' /\ CancelInv' /\ OneRoundAfterCancel' /\ BarInv' /\ EndsForAReason'
    BY <1>1, <1>2, <2>2
       DEF PlaceInv, CancelInv, OneRoundAfterCancel, BarInv, Waits, EndsForAReason
  <2>9. RowsInv'
    <3>1. First' = First /\ First \in {0, 1} /\ refRound = m - First /\ m > First
      BY <1>0, <1>1, <1>m DEF RowsInv, First, InRefm
    <3>2. result.reason # "consensus" /\ result'.reason = "consensus"
      BY <1>2, <2>2 DEF NoResult
    <3>3. ASSUME NEW i \in 1..m
          PROVE  \/ /\ rounds'[i].phase = "proposal" /\ rounds'[i].round = 0 /\ i = 1
                    /\ ~recovered'
                 \/ /\ rounds'[i].phase = "refinement"
                    /\ rounds'[i].round = i - First' /\ i > First'
      <4>1. CASE i = m
        BY <1>7, <2>3, <3>1, <4>1
      <4>2. CASE i # m
        <5>1. i \in 1..Len(rounds) /\ rounds'[i] = rounds[i]
          BY <1>m, <2>3, <4>2
        <5> QED  BY <1>0, <1>1, <3>1, <3>2, <5>1 DEF RowsInv
      <4> QED  BY <4>1, <4>2
    <3>4. /\ rounds'[m + 1].phase = "commit" /\ m + 1 > 1
          /\ rounds'[m + 1].round = rounds'[m].round /\ rounds'[m].phase = "refinement"
      BY <1>7, <1>m, <1>5, <2>1, <2>3
    <3>5. \A i \in 1..Len(rounds') : i \in 1..m \/ i = m + 1
      BY <2>3
    <3> QED  BY <2>2, <2>3, <3>2, <3>3, <3>4, <3>5 DEF RowsInv, InRefm
  <2>10. StabilityInv'
    BY <1>3, <1>4, <1>7, <1>8, <2>2, <2>3, <2>4, <2>5, Counted DEF StabilityInv
  <2>11. BarFollowsQuorum'
    BY <1>1, <1>7, <2>3, <2>4, BarFollows
  <2>12. CertificateIsSound'
    BY <1>1, <1>4, <1>7, <1>8, <2>2, <2>3, <2>4, <2>5, Certified
  <2>13. CommitInv'
    <3>1. Certificate(outs, candidate').round = refRound
      BY DEF Certificate
    <3>2. /\ result'.value = candidate' /\ result'.cert = Certificate(outs, candidate')
          /\ Len(rounds') > 1 /\ Len(rounds') - 1 = m
      BY <1>5, <1>m, <2>2, <2>3
    <3>3. row.decision.committed /\ candidate' \in ValuesOf(row.bar)
      BY <1>6, <1>7, <1>8, <1>10, <2>5
    <3> QED  BY <1>1, <1>7, <2>1, <2>3, <3>1, <3>2, <3>3 DEF CommitInv
  <2> QED  BY <2>7, <2>8, <2>9, <2>10, <2>11, <2>12, <2>13 DEF IInv
<1> QED  BY <1>9, <1>10
-----------------------------------------------------------------------------
LEMMA InitIInv == Init => IInv
<1> SUFFICES ASSUME Init PROVE IInv
  OBVIOUS
<1>1. TypeOK
  <2>1. <<>> \in Seq(Values) /\ <<>> \in Seq(Rows)
    OBVIOUS
  <2>2. 1 \in 1..MaxRounds + 1
    BY ConfigAssumption
  <2>3. track \in [Agents -> Nat]
    BY ConfigAssumption DEF Init
  <2> QED  BY <2>1, <2>2, <2>3, PlainTypes DEF Init, TypeOK, Places
<1>2. RefmRounds = {} /\ QuorumRounds = {}
  <2>1. RefmRounds = {}
    BY DEF Init, RefmRounds
  <2> QED  BY <2>1 DEF QuorumRounds
<1>3. PlaceInv /\ CancelInv /\ RowsInv /\ BarInv
  BY DEF Init, PlaceInv, CancelInv, RowsInv, BarInv, InRefm, Waits
<1>4. /\ StabilityInv /\ BarFollowsQuorum /\ CertificateIsSound /\ OneRoundAfterCancel
      /\ CommitInv /\ EndsForAReason
  BY <1>2, FS_EmptySet
     DEF Init, StabilityInv, BarFollowsQuorum, CertificateIsSound, OneRoundAfterCancel,
        NoResult,
         CommitInv, EndsForAReason
<1> QED  BY <1>1, <1>3, <1>4 DEF IInv

LEMMA NextIInv == IInv /\ [Next]_vars => IInv'
<1> SUFFICES ASSUME IInv, [Next]_vars PROVE IInv'
  OBVIOUS
<1>1. CASE UNCHANGED vars
  <2>1. RefmRounds' = RefmRounds /\ QuorumRounds' = QuorumRounds /\ LastRefm' = LastRefm
    BY <1>1 DEF vars, RefmRounds, QuorumRounds, HasQuorum, LastRefm
  <2>2. TypeOK' /\ PlaceInv' /\ CancelInv' /\ OneRoundAfterCancel'
    BY <1>1 DEF vars, engineVars, IInv, TypeOK, PlaceInv, CancelInv, OneRoundAfterCancel
  <2>3. RowsInv' /\ BarInv'
    BY <1>1
       DEF vars, engineVars, IInv, RowsInv, First, BarInv, HadQuorum, HasQuorum, Shown
  <2>4. StabilityInv'
    BY <1>1, <2>1 DEF vars, engineVars, IInv, StabilityInv, AmongLast, Confirms
  <2>5. BarFollowsQuorum'
    BY <1>1, <2>1 DEF vars, IInv, BarFollowsQuorum, HadQuorum, HasQuorum, Shown
  <2>6. CertificateIsSound'
    BY <1>1, <2>1 DEF vars, IInv, CertificateIsSound
  <2>7. CommitInv' /\ EndsForAReason'
    BY <1>1, <2>1 DEF vars, IInv, CommitInv, EndsForAReason, HasQuorum
  <2> QED  BY <2>2, <2>3, <2>4, <2>5, <2>6, <2>7 DEF IInv
<1>2. CASE Quiet
  BY <1>2, QuietTypes, QuietPlaces, QuietRounds, QuietEnds DEF IInv
<1>3. ASSUME NEW outs \in Answers(Agents), NEW wall \in WallTimeouts(outs),
             SolnRound(outs, wall)
      PROVE  IInv'
  BY <1>3, SolnInv
<1>4. ASSUME NEW outs \in Answers(Willing(refRound)), NEW wall \in WallTimeouts(outs),
             NoRefmQuorum(outs, wall)
      PROVE  IInv'
  BY <1>4, NoQuorumInv
<1>5. ASSUME NEW outs \in Answers(Willing(refRound)), NEW wall \in WallTimeouts(outs),
             RefmQuorum(outs, wall)
      PROVE  IInv'
  BY <1>5, QuorumInv
<1> QED  BY <1>1, <1>2, <1>3, <1>4, <1>5, NextCases

\* The parts support each other: what a commit rests on is the count, the count the
\* set shown, the set shown the rows.
THEOREM Invariance == Spec => []IInv
BY InitIInv, NextIInv, PTL DEF Spec

\* Type correctness of a session (protocol.py:271-1018).
THEOREM TypeCorrect == Spec => []TypeOK
<1>1. IInv => TypeOK
  BY DEF IInv
<1> QED  BY Invariance, <1>1, PTL

\* A committed value was confirmed by Alpha agents in each of the last Beta rounds with
\* a quorum, whatever failed in between, for any Alpha, Beta and outputs, None included
\* (protocol.py:852-927, decision_engine.py:89-147).
THEOREM CommitsAreBacked == Spec => []CommitIsBacked
<1>1. IInv => CommitIsBacked
  <2> SUFFICES ASSUME IInv, result.reason = "consensus"
               PROVE  /\ Cardinality(QuorumRounds) >= Beta
                      /\ \A i \in QuorumRounds : AmongLast(i, Beta) => Confirms(i, result.value)
    BY DEF CommitIsBacked
  <2>1. /\ stability <= Cardinality(QuorumRounds) /\ stability >= Beta
        /\ result.value = candidate
        /\ \A i \in QuorumRounds : AmongLast(i, stability) => Confirms(i, candidate)
    BY DEF IInv, StabilityInv
  <2>2. /\ IsFiniteSet(QuorumRounds)
        /\ stability \in Nat /\ Beta \in Nat
    <3>1. Len(rounds) \in Nat /\ QuorumRounds \subseteq 1..Len(rounds)
      BY DEF IInv, TypeOK, QuorumRounds, RefmRounds
    <3>2. IsFiniteSet(1..Len(rounds))
      BY <3>1, FS_Interval
    <3> QED  BY <3>1, <3>2, FS_Subset, ConfigAssumption DEF IInv, TypeOK
  <2>3. Cardinality(QuorumRounds) \in Nat
    BY <2>2, FS_CardinalityType
  <2>4. ASSUME NEW i \in QuorumRounds, AmongLast(i, Beta) PROVE Confirms(i, result.value)
    <3>1. IsFiniteSet({j \in QuorumRounds : j > i})
      BY <2>2, FS_Subset
    <3>2. Cardinality({j \in QuorumRounds : j > i}) \in Nat
      BY <3>1, FS_CardinalityType
    <3>3. AmongLast(i, stability)
      BY <2>1, <2>2, <2>4, <3>2 DEF AmongLast
    <3> QED  BY <2>1, <3>3
  <2> QED  BY <2>1, <2>2, <2>3, <2>4
<1> QED  BY Invariance, <1>1, PTL

\* The agents are always shown the last set that had a quorum (protocol.py:518-528,
\* 838-852, 958).
THEOREM BarsFollowQuorums == Spec => []BarFollowsQuorum
<1>1. IInv => BarFollowsQuorum
  BY DEF IInv
<1> QED  BY Invariance, <1>1, PTL

\* A certificate tells the truth about its round (protocol.py:884-927).
THEOREM CertificatesAreSound == Spec => []CertificateIsSound
<1>1. IInv => CertificateIsSound
  BY DEF IInv
<1> QED  BY Invariance, <1>1, PTL

\* cancel() lets no more than the round under way be used (protocol.py:263-269).
THEOREM CancelStopsRounds == Spec => []OneRoundAfterCancel
<1>1. IInv => OneRoundAfterCancel
  BY DEF IInv
<1> QED  BY Invariance, <1>1, PTL

\* The reason of an ending without consensus fits its rounds (protocol.py:555-570,
\* 961-985).
THEOREM EndingsHaveReasons == Spec => []EndsForAReason
<1>1. IInv => EndsForAReason
  BY DEF IInv
<1> QED  BY Invariance, <1>1, PTL

\* The replay check of commit_semantics.py accepts every finished session that began
\* with Round 0 (commit_semantics.py:40-150).
THEOREM SessionsReplay == Spec => []SolnSessionsReplay
<1>1. IInv => SolnSessionsReplay
  <2> SUFFICES ASSUME IInv, ~recovered, rounds # <<>>
               PROVE  ReplayAccepts(rounds, result.cert, result.reason)
    BY DEF SolnSessionsReplay
  <2>0. PICK n \in Nat : n = Len(rounds)
    BY DEF IInv, TypeOK
  <2>c. PICK c : c = result.cert
    OBVIOUS
  <2>1. n > 0 /\ DOMAIN rounds = 1..n /\ First = 1
    BY <2>0 DEF IInv, TypeOK, First
  <2>2. ASSUME NEW i \in 1..n
        PROVE  \/ rounds[i].phase = "proposal" /\ rounds[i].round = 0 /\ i = 1
               \/ rounds[i].phase = "refinement" /\ rounds[i].round = i - 1 /\ i > 1
               \/ /\ rounds[i].phase = "commit" /\ i = n /\ i > 1
                  /\ rounds[i].round = rounds[i-1].round
                  /\ rounds[i-1].phase = "refinement"
                  /\ result.reason = "consensus"
    BY <2>0, <2>1 DEF IInv, RowsInv
  <2>3. rounds[1].phase = "proposal" /\ rounds[1].round = 0
    <3>1. 1 \in 1..n /\ ~(1 > 1)
      BY <2>1
    <3> QED  BY <2>2, <3>1
  <2>4. ASSUME NEW i \in 2..n
        PROVE  \/ rounds[i].phase = "refinement" /\ rounds[i].round >= 1
               \/ /\ rounds[i].phase = "commit"
                  /\ rounds[i-1].phase = "refinement"
                  /\ rounds[i-1].round = rounds[i].round
    <3>1. i \in 1..n /\ i # 1 /\ i - 1 >= 1
      OBVIOUS
    <3> QED  BY <2>2, <3>1
  <2>5. (result.reason = "consensus") <=> (c # NoCert)
    BY <2>c DEF IInv, CertificateIsSound
  <2>6. CASE c = NoCert
    <3>1. ASSUME NEW i \in 1..n PROVE rounds[i].phase # "commit"
      BY <2>2, <2>5, <2>6
    <3> QED  BY <2>0, <2>c, <2>1, <2>3, <2>4, <2>6, <3>1 DEF ReplayAccepts
  <2>7. CASE c # NoCert
    <3> DEFINE refs == {i \in DOMAIN rounds :
                           rounds[i].phase = "refinement" /\ rounds[i].round = c.round}
               last == CHOOSE i \in refs : \A j \in refs : j <= i
               commits == {i \in DOMAIN rounds :
                              rounds[i].phase = "commit" /\ rounds[i].round = c.round}
    <3>1. /\ n > 1 /\ rounds[n].phase = "commit" /\ rounds[n].bar = <<result.value>>
          /\ rounds[n-1].phase = "refinement" /\ rounds[n-1].round = c.round
          /\ rounds[n-1].decision.committed /\ rounds[n-1].leader = leader
          /\ result.value \in ValuesOf(rounds[n-1].bar)
      BY <2>0, <2>c, <2>5, <2>7 DEF IInv, CommitInv
    <3>2. c.leader = leader /\ c.value = result.value
      BY <2>c, <2>7 DEF IInv, CertificateIsSound
    <3>3. n - 1 \in 1..n /\ n \in 1..n /\ n - 1 # n /\ c.round = n - 2
      <4>1. n - 1 \in 1..n /\ n \in 1..n /\ n - 1 # n
        BY <3>1
      <4>2. rounds[n-1].round = (n - 1) - 1
        BY <2>2, <3>1, <4>1
      <4> QED  BY <3>1, <4>1, <4>2
    <3>4. refs = {n - 1}
      <4>1. ASSUME NEW i \in refs PROVE i = n - 1
        <5>1. i \in 1..n /\ rounds[i].phase = "refinement" /\ rounds[i].round = c.round
          BY <2>1
        <5>2. rounds[i].round = i - 1
          BY <2>2, <5>1
        <5> QED  BY <3>3, <5>1, <5>2
      <4>2. n - 1 \in refs
        BY <2>1, <3>1, <3>3
      <4> QED  BY <4>1, <4>2
    <3>5. commits = {n} /\ Cardinality(commits) = 1
      <4>1. ASSUME NEW i \in commits PROVE i = n
        <5>1. i \in 1..n /\ rounds[i].phase = "commit"
          BY <2>1
        <5> QED  BY <2>2, <5>1
      <4>2. n \in commits
        <5>1. rounds[n].round = rounds[n-1].round
          BY <2>2, <3>1, <3>3
        <5> QED  BY <2>1, <3>1, <3>3, <5>1
      <4>3. commits = {n}
        BY <4>1, <4>2
      <4> QED  BY <4>3, FS_Singleton
    <3> HIDE DEF refs
    <3>6. last = n - 1
      BY <3>3, <3>4
    <3> HIDE DEF last, commits
    <3>7. /\ rounds[last].decision.committed /\ rounds[last].leader = c.leader
          /\ c.value \in ValuesOf(rounds[last].bar)
          /\ \A i \in commits : rounds[i].bar = <<c.value>>
      BY <3>1, <3>2, <3>5, <3>6
    <3>8. refs # {} /\ result.reason = "consensus"
      BY <2>5, <2>7, <3>4
    <3>9. \A i \in 2..Len(rounds) :
             \/ rounds[i].phase = "refinement" /\ rounds[i].round >= 1
             \/ /\ rounds[i].phase = "commit"
                /\ rounds[i-1].phase = "refinement"
                /\ rounds[i-1].round = rounds[i].round
      BY <2>0, <2>4
    <3>10. ReplayAccepts(rounds, c, result.reason)
      BY <2>3, <2>7, <3>5, <3>7, <3>8, <3>9, Zenon DEF ReplayAccepts, refs, last, commits
    <3> QED  BY <2>c, <3>10
  <2> QED  BY <2>6, <2>7
<1> QED  BY Invariance, <1>1, PTL
-----------------------------------------------------------------------------
(* Refinement of BetaStability.  First the numbering of a finite set of     *)
(* naturals in ascending order: each number from 1 on has one member.       *)

Before(Q, i) == {j \in Q : j < i}
Nth(Q, k) == CHOOSE i \in Q : Cardinality(Before(Q, i)) = k - 1

LEMMA Ranks ==
    ASSUME NEW Q \in SUBSET Nat, IsFiniteSet(Q), NEW i \in Q
    PROVE  /\ Cardinality(Before(Q, i)) \in 0..Cardinality(Q) - 1
           /\ \A k \in Q : i < k => Cardinality(Before(Q, i)) < Cardinality(Before(Q, k))
<1> DEFINE C(k) == Cardinality(Before(Q, k))
<1>1. ASSUME NEW k \in Q PROVE IsFiniteSet(Before(Q, k)) /\ C(k) \in Nat
  BY FS_Subset, FS_CardinalityType DEF Before
<1>2. C(i) < Cardinality(Q)
  <2>1. Before(Q, i) \in SUBSET Q /\ Before(Q, i) # Q
    BY DEF Before
  <2>2. C(i) <= Cardinality(Q) /\ C(i) # Cardinality(Q)
    BY <2>1, FS_Subset
  <2> QED  BY <1>1, <2>2, FS_CardinalityType
<1>3. ASSUME NEW k \in Q, i < k PROVE C(i) < C(k)
  <2>1. Before(Q, i) \in SUBSET Before(Q, k) /\ Before(Q, i) # Before(Q, k)
    <3>1. \A j \in Q : j \in Nat
      OBVIOUS
    <3>2. i \in Before(Q, k) /\ i \notin Before(Q, i)
      BY <1>3, <3>1 DEF Before
    <3>3. \A j \in Before(Q, i) : j \in Before(Q, k)
      BY <1>3, <3>1 DEF Before
    <3> QED  BY <3>2, <3>3
  <2>2. C(i) <= C(k) /\ C(i) # C(k)
    BY <1>1, <2>1, FS_Subset
  <2> QED  BY <1>1, <2>2
<1> HIDE DEF C
<1>4. C(i) \in 0..Cardinality(Q) - 1
  BY <1>1, <1>2, FS_CardinalityType
<1> QED  BY <1>3, <1>4 DEF C

LEMMA NthIs ==
    ASSUME NEW Q \in SUBSET Nat, IsFiniteSet(Q), NEW i \in Q, NEW k \in Int,
           Cardinality(Before(Q, i)) = k - 1
    PROVE  Nth(Q, k) = i
<1>1. ASSUME NEW h \in Q, Cardinality(Before(Q, h)) = k - 1 PROVE h = i
  <2>1. ~(h < i) /\ ~(i < h)
    BY <1>1, Ranks
  <2> QED  BY <2>1
<1> QED  BY <1>1 DEF Nth

LEMMA NthExists ==
    ASSUME NEW Q \in SUBSET Nat, IsFiniteSet(Q), NEW k \in 1..Cardinality(Q)
    PROVE  Nth(Q, k) \in Q /\ Cardinality(Before(Q, Nth(Q, k))) = k - 1
<1> DEFINE T == 0..Cardinality(Q) - 1
           f == [i \in Q |-> Cardinality(Before(Q, i))]
<1>1. Cardinality(Q) \in Nat
  BY FS_CardinalityType
<1>2. IsFiniteSet(T) /\ Cardinality(T) = Cardinality(Q)
  <2>1. 0 \in Int /\ Cardinality(Q) - 1 \in Int
    BY <1>1
  <2>2. IsFiniteSet(T)
        /\ Cardinality(T) = IF 0 > Cardinality(Q) - 1 THEN 0 ELSE (Cardinality(Q) - 1) - 0 + 1
    BY <2>1, FS_Interval
  <2> QED  BY <1>1, <2>2
<1>3. f \in Injection(Q, T)
  <2>1. f \in [Q -> T]
    BY Ranks
  <2>2. ASSUME NEW i \in Q, NEW h \in Q, f[i] = f[h] PROVE i = h
    <3>1. ~(h < i) /\ ~(i < h)
      BY <2>2, Ranks
    <3> QED  BY <3>1
  <2> QED  BY <2>1, <2>2 DEF Injection, IsInjective
<1>4. f \in Surjection(Q, T)
  BY <1>2, <1>3, FS_Injection
<1>5. k - 1 \in T
  BY <1>1
<1>6. PICK i \in Q : f[i] = k - 1
  BY <1>4, <1>5 DEF Surjection
<1> QED  BY <1>6, NthIs

\* A number above all of them is the last, and the others keep their places.
LEMMA NthGrows ==
    ASSUME NEW Q, IsFiniteSet(Q), NEW m \in Nat, Q \subseteq 1..m-1
    PROVE  /\ Cardinality(Q) \in Nat /\ Cardinality(Q \cup {m}) = Cardinality(Q) + 1
           /\ Nth(Q \cup {m}, Cardinality(Q) + 1) = m
           /\ \A k \in 1..Cardinality(Q) : Nth(Q, k) \in Q /\ Nth(Q \cup {m}, k) = Nth(Q, k)
<1> DEFINE P == Q \cup {m}
<1>1. Cardinality(Q) \in Nat /\ Cardinality(P) = Cardinality(Q) + 1
  BY OneAbove
<1>2. IsFiniteSet(P) /\ P \in SUBSET Nat /\ Q \in SUBSET Nat
  BY FS_AddElement
<1>3. Nth(P, Cardinality(Q) + 1) = m
  <2>1. Before(P, m) = Q
    <3>1. (\A j \in Q : j < m) /\ ~(m < m)
      OBVIOUS
    <3> QED  BY <3>1, Zenon DEF Before
  <2>2. Cardinality(Before(P, m)) = (Cardinality(Q) + 1) - 1
    BY <1>1, <2>1
  <2>3. m \in P /\ Cardinality(Q) + 1 \in Int
    BY <1>1
  <2> HIDE DEF P
  <2> QED  BY <1>2, <2>2, <2>3, NthIs
<1>4. ASSUME NEW k \in 1..Cardinality(Q)
      PROVE  Nth(Q, k) \in Q /\ Nth(P, k) = Nth(Q, k)
  <2>1. Nth(Q, k) \in Q /\ Cardinality(Before(Q, Nth(Q, k))) = k - 1
    BY <1>2, NthExists
  <2>2. Before(P, Nth(Q, k)) = Before(Q, Nth(Q, k))
    <3>1. ~(m < Nth(Q, k))
      <4>1. \A j \in Q : ~(m < j)
        OBVIOUS
      <4> QED  BY <2>1, <4>1
    <3> QED  BY <3>1, Zenon DEF Before
  <2>3. Nth(Q, k) \in P /\ k \in Int
    BY <1>1, <2>1
  <2> HIDE DEF P
  <2> QED  BY <1>2, <2>1, <2>2, <2>3, NthIs
<1> QED  BY <1>1, <1>3, <1>4

-----------------------------------------------------------------------------
LEMMA CandidatesType ==
    ASSUME TypeOK
    PROVE  IsFiniteSet(QuorumRounds) /\ Candidates \in Seq(Int)
<1>1. /\ Len(rounds) \in Nat /\ DOMAIN rounds = 1..Len(rounds)
      /\ \A i \in 1..Len(rounds) : rounds[i] \in Rows
  BY DEF TypeOK
<1>2. QuorumRounds \in SUBSET (1..Len(rounds))
  BY <1>1 DEF QuorumRounds, RefmRounds
<1>3. IsFiniteSet(QuorumRounds) /\ Cardinality(QuorumRounds) \in Nat
  <2>1. IsFiniteSet(1..Len(rounds))
    BY <1>1, FS_Interval
  <2> QED  BY <1>2, <2>1, FS_Subset, FS_CardinalityType
<1>4. ASSUME NEW row \in Rows PROVE CandidateOf(row) \in Int
  <2>1. row.decision.eligible \in Outputs \cup {None}
    BY DEF Rows, Decisions
  <2>2. Outputs \cup {None} \subseteq Int
    BY Constants DEF None
  <2>3. row.decision.eligible \in Int
    BY <2>1, <2>2
  <2> QED  BY <2>3 DEF CandidateOf
<1>5. ASSUME NEW k \in 1..Cardinality(QuorumRounds)
      PROVE  CandidateOf(rounds[QuorumRound(k)]) \in Int
  <2>1. QuorumRound(k) = Nth(QuorumRounds, k)
    BY DEF QuorumRound, Nth, Before
  <2>2. QuorumRounds \in SUBSET Nat
    BY <1>2
  <2>3. Nth(QuorumRounds, k) \in QuorumRounds
    BY <1>3, <2>2, NthExists
  <2> QED  BY <1>1, <1>2, <1>4, <2>1, <2>3
<1> QED  BY <1>3, <1>5 DEF Candidates

\* A refinement row adds its candidate if it has a quorum, and nothing otherwise.
LEMMA NewRowCandidates ==
    ASSUME TypeOK, NEW m, NewRow(m)
    PROVE  Candidates' = IF HasQuorum(rounds'[m].outs)
                         THEN Append(Candidates, CandidateOf(rounds'[m]))
                         ELSE Candidates
<1>1. /\ m \in Nat /\ QuorumRounds \subseteq 1..m-1 /\ IsFiniteSet(QuorumRounds)
      /\ QuorumRounds' = IF HasQuorum(rounds'[m].outs) THEN QuorumRounds \cup {m}
                                                       ELSE QuorumRounds
  BY NewRowSets
<1>2. \A i \in QuorumRounds : rounds'[i] = rounds[i]
  BY <1>1 DEF NewRow
<1> DEFINE Q == QuorumRounds
           n == Cardinality(Q)
<1>3. /\ n \in Nat /\ Cardinality(Q \cup {m}) = n + 1
      /\ Nth(Q \cup {m}, n + 1) = m
      /\ \A k \in 1..n : Nth(Q, k) \in Q /\ Nth(Q \cup {m}, k) = Nth(Q, k)
  BY <1>1, NthGrows
<1>4. /\ Candidates = [k \in 1..n |-> CandidateOf(rounds[Nth(Q, k)])]
      /\ Candidates' = [k \in 1..Cardinality(Q') |-> CandidateOf(rounds'[Nth(Q', k)])]
  BY DEF Candidates, QuorumRound, Nth, Before, CandidateOf
<1> HIDE DEF Q
<1>5. CASE HasQuorum(rounds'[m].outs)
  <2>1. Q' = Q \cup {m}
    BY <1>1, <1>5 DEF Q
  <2> DEFINE W == Append(Candidates, CandidateOf(rounds'[m]))
  <2>2. Len(Candidates) = n /\ Candidates \in Seq(Int)
    BY <1>3, <1>4, CandidatesType
  <2>3. DOMAIN W = 1..n+1 /\ W[n + 1] = CandidateOf(rounds'[m])
        /\ \A k \in 1..n : W[k] = Candidates[k]
    BY <1>3, <2>2
  <2>4. W = [k \in 1..n+1 |-> W[k]]
    BY <2>2, <2>3
  <2> HIDE DEF W
  <2>5. ASSUME NEW k \in 1..n+1 PROVE W[k] = CandidateOf(rounds'[Nth(Q \cup {m}, k)])
    <3>1. CASE k = n + 1
      BY <1>3, <2>3, <3>1
    <3>2. CASE k # n + 1
      <4>1. k \in 1..n
        BY <1>3, <3>2
      <4>2. Nth(Q \cup {m}, k) = Nth(Q, k) /\ rounds'[Nth(Q, k)] = rounds[Nth(Q, k)]
        BY <1>2, <1>3, <4>1 DEF Q
      <4> QED  BY <1>4, <2>3, <4>1, <4>2
    <3> QED  BY <3>1, <3>2
  <2>6. Candidates' = W
    BY <1>3, <1>4, <2>1, <2>4, <2>5
  <2> QED  BY <1>5, <2>6 DEF W
<1>6. CASE ~HasQuorum(rounds'[m].outs)
  <2>1. Q' = Q
    BY <1>1, <1>6 DEF Q
  <2>2. \A k \in 1..n : rounds'[Nth(Q, k)] = rounds[Nth(Q, k)]
    BY <1>2, <1>3 DEF Q
  <2> QED  BY <1>4, <1>6, <2>1, <2>2
<1> QED  BY <1>5, <1>6

\* What the engine counts is the run at the end of these candidates.
LogInv == Counts(Candidates, candidate, stability)

\* The steps without a quorum of refined answers.
LEMMA SilentSteps ==
    ASSUME IInv, [Next]_vars
    PROVE  \/ /\ UNCHANGED <<Candidates, candidate, stability>>
              /\ result' = result \/ result'.reason # "consensus"
           \/ \E outs \in Answers(Willing(refRound)) : \E wall \in WallTimeouts(outs) :
                  RefmQuorum(outs, wall)
<1>0. TypeOK
  BY DEF IInv
<1>1. CASE UNCHANGED vars
  <2>1. QuorumRounds' = QuorumRounds /\ rounds' = rounds
    BY <1>1 DEF vars, RefmRounds, QuorumRounds, HasQuorum
  <2>2. Candidates' = Candidates
    BY <2>1 DEF Candidates, QuorumRound, CandidateOf
  <2> QED  BY <1>1, <2>2 DEF vars, engineVars
<1>2. CASE Quiet
  <2>1. rounds' = rounds /\ candidate' = candidate /\ stability' = stability
    BY <1>2, QuietFacts
  <2>2. QuorumRounds' = QuorumRounds
    BY <2>1 DEF RefmRounds, QuorumRounds, HasQuorum
  <2>3. Candidates' = Candidates
    BY <2>1, <2>2 DEF Candidates, QuorumRound, CandidateOf
  <2>4. result' = result \/ result'.reason # "consensus"
    BY <1>2, QuietFacts DEF PlainResults
  <2> QED  BY <2>1, <2>3, <2>4
<1>3. ASSUME NEW outs \in Answers(Agents), NEW wall \in WallTimeouts(outs),
             SolnRound(outs, wall)
      PROVE  /\ UNCHANGED <<Candidates, candidate, stability>>
             /\ result' = result \/ result'.reason # "consensus"
  <2>1. /\ rounds = <<>> /\ UNCHANGED engineVars
        /\ \/ rounds' = <<>> /\ result'.reason = "error"
           \/ /\ \E row \in Rows : rounds' = <<row>> /\ row.phase = "proposal"
              /\ \/ result' = result
                 \/ result'.reason = IF wall THEN "timeout" ELSE "max_rounds"
    BY <1>3, SolnFacts
  <2>2. QuorumRounds = {} /\ QuorumRounds' = {}
    BY <2>1 DEF QuorumRounds, RefmRounds
  <2>3. Cardinality(QuorumRounds) = 0 /\ Cardinality(QuorumRounds') = 0
    BY <2>2, FS_EmptySet
  <2>4. Candidates = <<>> /\ Candidates' = <<>>
    <3>1. \A k : k \notin 1..0
      OBVIOUS
    <3> QED  BY <2>3 DEF Candidates
  <2> QED  BY <2>1, <2>4 DEF engineVars
<1>4. ASSUME NEW outs \in Answers(Willing(refRound)), NEW wall \in WallTimeouts(outs),
             NoRefmQuorum(outs, wall)
      PROVE  UNCHANGED <<Candidates, candidate, stability, result>>
  <2>1. PICK row : RefmRow(row, outs) /\ rounds' = Append(rounds, row)
    BY <1>4, NoQuorumFacts
  <2>2. row \in Rows /\ row.outs = outs /\ row.phase = "refinement"
    BY <2>1 DEF RefmRow
  <2>3. rounds \in Seq(Rows)
    BY <1>0 DEF TypeOK
  <2> DEFINE m == Len(rounds) + 1
  <2>4. NewRow(m) /\ rounds'[m] = row
    BY <2>1, <2>2, <2>3, OneMore DEF NewRow
  <2>5. ~HasQuorum(outs) /\ UNCHANGED <<engineVars, result>>
    BY <1>4, NoQuorumFacts
  <2> HIDE DEF m
  <2>6. Candidates' = Candidates
    BY <1>0, <2>2, <2>4, <2>5, NewRowCandidates
  <2> QED  BY <2>5, <2>6 DEF engineVars
<1> QED  BY <1>1, <1>2, <1>3, <1>4, NextCases

\* The engine's answer to a quorum of refined answers, told exactly.
LEMMA EngineCounts ==
    ASSUME IInv, NEW outs \in Answers(Willing(refRound)), NEW wall \in WallTimeouts(outs),
           RefmQuorum(outs, wall)
    PROVE  \/ stability' = 0 /\ candidate' = None
           \/ /\ candidate' \in Outputs /\ stability' \in Nat \ {0}
              /\ stability' = Stability(candidate, stability, candidate')
<1> DEFINE E == Eligible(ValuesOf(bar), outs, Alpha)
<1>1. candidate' = Decide(outs).eligible /\ stability' = Decide(outs).stability
  BY DEF RefmQuorum
<1>2. stability \in Nat /\ Alpha \in Nat /\ Beta \in Nat
  BY ConfigAssumption DEF IInv, TypeOK
<1>3. E \subseteq Outputs /\ E \subseteq Nat
  BY RefmFacts, Constants DEF Eligible
<1>4. CASE E = {}
  BY <1>1, <1>4, NothingEligible DEF Decide, NoDecision
<1>5. CASE E # {}
  <2>1. PICK v \in E :
            /\ Decide(outs) =
                   [committed |-> Stability(candidate, stability, v) >= Beta,
                    value |-> IF Stability(candidate, stability, v) >= Beta THEN v ELSE None,
                    stability |-> Stability(candidate, stability, v),
                    eligible |-> v,
                    overturned |-> candidate # None /\ candidate # v]
            /\ Stability(candidate, stability, v) \in Nat \ {0}
    BY <1>2, <1>3, <1>5, SomethingEligible DEF Decide
  <2>2. candidate' = v /\ stability' = Stability(candidate, stability, v)
    BY <1>1, <2>1
  <2> QED  BY <1>3, <2>1, <2>2
<1> QED  BY <1>4, <1>5

\* A quorum of refined answers adds the candidate, and commits it or goes on.
LEMMA QuorumLog ==
    ASSUME IInv, NEW outs \in Answers(Willing(refRound)), NEW wall \in WallTimeouts(outs),
           RefmQuorum(outs, wall)
    PROVE  /\ Candidates' = Append(Candidates, IF stability' = 0 THEN -1 ELSE candidate')
           /\ result = NoResult
           /\ IF stability' # 0 /\ stability' >= Beta
              THEN result'.reason = "consensus" /\ result'.value = candidate'
              ELSE result' = NoResult
<1>0. TypeOK /\ rounds \in Seq(Rows)
  BY DEF IInv, TypeOK
<1>a. PICK row :
          /\ RefmRow(row, outs) /\ row.decision = Decide(outs)
          /\ \/ /\ ~Decide(outs).committed
                /\ rounds' = Append(rounds, row)
                /\ result' = result
             \/ /\ Decide(outs).committed
                /\ \E commit \in Rows :
                       commit.phase = "commit" /\ rounds' = rounds \o <<row, commit>>
                /\ result' = [reason |-> "consensus", value |-> candidate',
                              cert |-> Certificate(outs, candidate')]
  BY QuorumFacts
<1>b. /\ RefmRow(row, outs) /\ row.decision = Decide(outs)
      /\ \/ rounds' = Append(rounds, row)
         \/ \E commit \in Rows :
                commit.phase = "commit" /\ rounds' = rounds \o <<row, commit>>
  BY <1>a
<1>1. IF Decide(outs).committed
      THEN result'.reason = "consensus" /\ result'.value = candidate'
      ELSE result' = result
  BY <1>a
<1>2. row \in Rows /\ row.outs = outs /\ row.phase = "refinement"
  BY <1>b DEF RefmRow
<1> DEFINE m == Len(rounds) + 1
<1>3. NewRow(m) /\ rounds'[m] = row
  <2>1. CASE rounds' = Append(rounds, row)
    BY <1>0, <1>2, <2>1, OneMore DEF NewRow
  <2>2. ASSUME NEW commit \in Rows, commit.phase = "commit",
               rounds' = rounds \o <<row, commit>>
        PROVE  NewRow(m) /\ rounds'[m] = row
    <3>1. /\ rounds' \in Seq(Rows)
          /\ Len(rounds) \in Nat /\ Len(rounds') = Len(rounds) + 2
          /\ rounds'[Len(rounds) + 1] = row /\ rounds'[Len(rounds) + 2] = commit
          /\ \A i \in 1..Len(rounds) : rounds'[i] = rounds[i]
      BY <1>0, <1>2, <2>2, TwoMore
    <3> QED  BY <1>0, <1>2, <2>2, <3>1 DEF NewRow
  <2> QED  BY <1>b, <2>1, <2>2
<1>4. HasQuorum(outs)
  BY QuorumFacts
<1> HIDE DEF m
<1>5. Candidates' = Append(Candidates, CandidateOf(row))
  BY <1>0, <1>2, <1>3, <1>4, NewRowCandidates
<1>6. CandidateOf(row) = IF stability' = 0 THEN -1 ELSE candidate'
  BY <1>b, EngineFacts DEF CandidateOf
<1>7. result = NoResult
  BY RefmFacts DEF IInv, PlaceInv
<1>8. Decide(outs).committed <=> stability' # 0 /\ stability' >= Beta
  BY EngineFacts, ConfigAssumption
<1> QED  BY <1>1, <1>5, <1>6, <1>7, <1>8

LEMMA LogStep == IInv /\ LogInv /\ [Next]_vars => LogInv'
<1> SUFFICES ASSUME IInv, LogInv, [Next]_vars PROVE LogInv'
  OBVIOUS
<1>1. CASE UNCHANGED <<Candidates, candidate, stability>>
  BY <1>1 DEF LogInv
<1>2. ASSUME NEW outs \in Answers(Willing(refRound)), NEW wall \in WallTimeouts(outs),
             RefmQuorum(outs, wall)
      PROVE  LogInv'
  <2>1. Candidates' = Append(Candidates, IF stability' = 0 THEN -1 ELSE candidate')
    BY <1>2, QuorumLog
  <2>2. Candidates \in Seq(Int) /\ stability \in Nat
    BY CandidatesType DEF IInv, TypeOK
  <2>3. CASE stability' = 0 /\ candidate' = None
    <3>1. Candidates' = Append(Candidates, -1)
      BY <2>1, <2>3
    <3> QED  BY <2>2, <2>3, <3>1, CountBroken DEF LogInv
  <2>4. CASE /\ candidate' \in Outputs /\ stability' \in Nat \ {0}
             /\ stability' = Stability(candidate, stability, candidate')
    <3>1. Candidates' = Append(Candidates, candidate') /\ candidate' \in Nat
      BY <2>1, <2>4, Constants
    <3> QED  BY <2>2, <2>4, <3>1, CountGoesOn DEF LogInv
  <2> QED  BY <1>2, <2>3, <2>4, EngineCounts
<1> QED  BY <1>1, <1>2, SilentSteps

LEMMA InitLog == Init => LogInv /\ Candidates = <<>>
<1> SUFFICES ASSUME Init PROVE LogInv /\ Candidates = <<>>
  OBVIOUS
<1>1. QuorumRounds = {}
  BY DEF Init, QuorumRounds, RefmRounds
<1>2. Cardinality(QuorumRounds) = 0
  BY <1>1, FS_EmptySet
<1>3. Candidates = <<>>
  BY <1>2 DEF Candidates
<1> QED  BY <1>3, NothingCounted DEF Init, LogInv

\* The session commits a value exactly when the last Beta rounds with a quorum chose
\* it, whatever rounds failed in between, None being no more than a choice of one
\* round (protocol.py:714-847, decision_engine.py:89-147).
THEOREM Refinement == Spec => ImplementsBetaStability
<1> DEFINE verdict == IF result.reason = "consensus" THEN result.value ELSE -1
<1>1. Init => Beta_!Init
  BY InitLog DEF Init, NoResult, Beta_!Init
<1>2. ASSUME IInv, LogInv, IInv', LogInv', [Next]_vars
      PROVE  [Beta_!Next]_<<Candidates, verdict>>
  <2>1. CASE UNCHANGED Candidates /\ result' = result
    BY <2>1
  <2>2. CASE UNCHANGED Candidates /\ result'.reason # "consensus"
    BY <2>2 DEF Beta_!Next, Beta_!FirstTerm
  <2>3. ASSUME NEW outs \in Answers(Willing(refRound)), NEW wall \in WallTimeouts(outs),
               RefmQuorum(outs, wall)
        PROVE  \E v \in Outputs \cup {-1} : Beta_!Observe(v)
    <3>1. /\ Candidates' = Append(Candidates, IF stability' = 0 THEN -1 ELSE candidate')
          /\ IF stability' # 0 /\ stability' >= Beta
             THEN result'.reason = "consensus" /\ result'.value = candidate'
             ELSE result' = NoResult
      BY <1>2, <2>3, QuorumLog
    <3>2. CASE stability' = 0
      <4>1. Candidates' = Append(Candidates, -1) /\ verdict' = -1
        BY <3>1, <3>2 DEF NoResult
      <4>2. Beta_!Observe(-1)
        BY <4>1 DEF Beta_!Observe
      <4> QED  BY <4>2
    <3>3. CASE /\ candidate' \in Outputs /\ stability' \in Nat \ {0}
               /\ stability' = Stability(candidate, stability, candidate')
      <4>1. /\ Candidates' = Append(Candidates, candidate')
            /\ verdict' = IF stability' >= Beta THEN candidate' ELSE -1
        BY <3>1, <3>3 DEF NoResult
      <4>2. candidate' # -1
        BY <3>3, Constants
      <4>3. stability' >= Beta <=> Beta_!StableIn(Candidates', candidate')
        <5>1. Candidates' \in Seq(Int) /\ Counts(Candidates', candidate', stability')
          <6>1. Candidates \in Seq(Int) /\ candidate' \in Int
            BY <1>2, <3>3, CandidatesType, Constants DEF IInv
          <6> QED  BY <1>2, <4>1, <6>1 DEF LogInv
        <5>2. Beta \in Nat \ {0}
          BY ConfigAssumption
        <5>3. Beta_!StableIn(Candidates', candidate') <=>
                 /\ candidate' = None => Beta = 1
                 /\ Len(Candidates') >= Beta
                 /\ \A i \in (Len(Candidates') - Beta + 1)..Len(Candidates') :
                        Candidates'[i] = candidate'
          BY DEF Beta_!StableIn
        <5> QED  BY <3>3, <5>1, <5>2, <5>3, CountDecides
      <4>4. Beta_!Observe(candidate')
        BY <4>1, <4>2, <4>3 DEF Beta_!Observe
      <4> QED  BY <3>3, <4>4
    <3> QED  BY <1>2, <2>3, <3>2, <3>3, EngineCounts
  <2> QED  BY <1>2, <2>1, <2>2, <2>3, SilentSteps DEF Beta_!Next
<1> QED
  BY <1>1, <1>2, InitIInv, InitLog, NextIInv, LogStep, PTL
     DEF Spec, ImplementsBetaStability, Beta_!Spec
=============================================================================
