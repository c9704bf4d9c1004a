-------------------------- MODULE SemanticStability --------------------------
(***************************************************************************)
(* The refinement loop of AegeanProtocol.execute in semantic mode: the     *)
(* decision step of aegean/semantic_equivalence.py, its stability tracker, *)
(* its accumulator, and what the coordinator tells the agents of it.       *)
(*                                                                         *)
(* Outputs are numbers in the order of _sort_key; each states a conclusion *)
(* (extract_conclusion), a number too, 0 being the empty text.  Embeddings *)
(* appear as the similarity of two conclusions.  HDBSCAN is external: it   *)
(* may return any labels that its parameters allow.  Scores are whole      *)
(* numbers: SV counts in units of 1/Unit, scores in 1/(Unit * N).          *)
(***************************************************************************)
EXTENDS Integers, FiniteSets, FiniteSetsExt, Sequences

CONSTANTS
    Agents,          \* the experts, numbered in their order
    Outputs,         \* the outputs an agent may return, never Python's None
    Conclusion,      \* extract_conclusion
    Similarity,      \* cosine similarity of two conclusions, from -Unit to Unit
    Unit,
    R,               \* the quorum size
    Alpha,           \* AegeanConfig.alpha
    RBarSimilarity,  \* r_bar_similarity_threshold
    Threshold,       \* stability_score_threshold
    DiscardNoise,    \* discard_noise_from_dissent, and enough agents for it
    MaxRounds        \* AegeanConfig.max_rounds

Conclusions == {Conclusion[o] : o \in Outputs}

ASSUME SemanticAssumption ==
    /\ IsFiniteSet(Agents) /\ Agents \subseteq Nat
    /\ Outputs \subseteq Nat \ {0}
    /\ Conclusion \in [Outputs -> Nat]
    /\ Unit \in Nat \ {0}
    /\ Similarity \in [Conclusions -> [Conclusions -> -Unit..Unit]]
    /\ \A c, d \in Conclusions : Similarity[c][d] = Similarity[d][c]
    /\ \A c \in Conclusions : Similarity[c][c] \in {0, Unit}   \* 0 of a null vector
    /\ R \in Nat \ {0}
    /\ Alpha \in Int /\ RBarSimilarity \in Int /\ Threshold \in Int   \* not validated
    /\ DiscardNoise \in BOOLEAN /\ MaxRounds \in Nat

VARIABLES
    round,      \* ref_round
    bar,        \* the conclusions of broadcast_bar
    score,      \* running_score
    tracked,    \* _tracked
    ledger,     \* _cumulative and _rounds_won, in order of insertion
    minority,   \* _minority_ordered
    dissent,    \* dissenting_ctx
    reference,  \* semantic_ref_holder[0]
    outcome,    \* how the session ended, with its value or payload
    hist        \* history: the output and the weight of each round that chose

trackerVars == <<score, tracked, hist>>
tellVars == <<dissent, reference>>
vars == <<round, bar, trackerVars, ledger, minority, tellVars, outcome>>

None == 0     \* no output; no candidate
Empty == 0    \* the empty text
NoText == -1  \* no text at all

NoOutcome == [reason |-> "none", value |-> None, candidate |-> NoText,
              confidence |-> 0, minority |-> {}]
-----------------------------------------------------------------------------
(* One decision step: run_semantic_decision_step.                          *)

Noise == -1

\* _effective_hdbscan_mcs without an override: alpha, but 2 at least and no more
\* than there are outputs.
ClusterSize(n) == Min({Max({2, Alpha}), n})

Members(labels, c) == {i \in DOMAIN labels : labels[i] = c}
Clusters(labels) == {labels[i] : i \in DOMAIN labels} \ {Noise}

\* What fit_predict may return for the outputs of who: clusters of the minimum
\* size or larger, numbered from 0.  A lone output is not clustered.
Labelings(who) ==
    IF Cardinality(who) <= 1 THEN {[i \in who |-> 0]}
    ELSE {labels \in [who -> Noise..Cardinality(who) - 1] :
             /\ \A c \in Clusters(labels) :
                    Cardinality(Members(labels, c)) >= ClusterSize(Cardinality(who))
             /\ \A c \in Clusters(labels) : 0..c \subseteq Clusters(labels)}

\* The largest cluster, the smaller label on a tie.
DominantLabel(labels) ==
    LET size(c) == Cardinality(Members(labels, c)) IN
    CHOOSE c \in Clusters(labels) :
        \A d \in Clusters(labels) \ {c} : size(d) < size(c) \/ (size(d) = size(c) /\ c <= d)

\* dominant_idx: if all is noise, everybody counts as one group.
Dominant(labels) ==
    IF Clusters(labels) = {} THEN DOMAIN labels ELSE Members(labels, DominantLabel(labels))

ConclusionsOf(outs) == {Conclusion[outs[i]] : i \in DOMAIN outs}

\* SV of i: its mean similarity to the others of its group, below 0 if it points away.
SV(outs, group, i) ==
    IF group = {i} THEN Unit
    ELSE SumFunction([j \in group \ {i} |->
                         Similarity[Conclusion[outs[i]]][Conclusion[outs[j]]]])
         \div (Cardinality(group) - 1)

SumSV(outs, group) == SumFunction([i \in group |-> SV(outs, group, i)])

\* Conclusions that some conclusion of the previous set equals, or is close to.
InCirculation(c, prev) ==
    c \in prev \/ \E p \in prev : Similarity[c][p] >= RBarSimilarity

EligibleIn(outs, group, prev) ==
    {i \in group : InCirculation(Conclusion[outs[i]], prev)}

\* The output of the highest SV, by sort key on a tie.
Winner(outs, group, eligible) ==
    LET best == {i \in eligible : \A j \in eligible \ {i} :
                    SV(outs, group, j) <= SV(outs, group, i)}
    IN  Min({outs[i] : i \in best})

\* The first conclusion of every other cluster, and the noise unless discarded.
DissentOf(outs, labels, winner) ==
    LET others == IF Clusters(labels) = {} THEN {}
                  ELSE Clusters(labels) \ {DominantLabel(labels)}
        heads == {Min(Members(labels, c)) : c \in others}
        noise == IF DiscardNoise THEN {} ELSE Members(labels, Noise)
    IN  {Conclusion[outs[i]] : i \in heads \cup noise} \ {Empty, Conclusion[winner]}

\* A round chooses nothing if the group is below alpha or nobody in it states
\* something in circulation; then every conclusion is passed on as dissent.
SemanticStep(outs, labels, prev) ==
    LET group == Dominant(labels)
        eligible == EligibleIn(outs, group, prev)
        winner == Winner(outs, group, eligible)
    IN  IF Cardinality(group) < Alpha \/ eligible = {}
        THEN [skip |-> TRUE, winner |-> None, weight |-> 0,
              dissent |-> ConclusionsOf(outs) \ {Empty}]
        ELSE [skip |-> FALSE, winner |-> winner, weight |-> SumSV(outs, group),
              dissent |-> DissentOf(outs, labels, winner)]
-----------------------------------------------------------------------------
(* The tracker and the accumulator.                                        *)

\* Fault: a candidate that takes over inherits the score of the old one.
ScoreCarriedOver(s) == score + s.weight

\* running_score after a round that chose.
ScoreAfter(s) == (IF tracked = s.winner THEN score ELSE 0) + s.weight

\* Fault: each win makes a row of its own.
RecordAppends(rows, c, weight) ==
    Append(rows, [answer |-> c, score |-> weight, won |-> 1])

\* Fault: the last increment replaces the sum.
RecordReplaces(rows, c, weight) ==
    IF \E k \in DOMAIN rows : rows[k].answer = c
    THEN [k \in DOMAIN rows |->
             IF rows[k].answer = c
             THEN [rows[k] EXCEPT !.score = weight, !.won = @ + 1] ELSE rows[k]]
    ELSE Append(rows, [answer |-> c, score |-> weight, won |-> 1])

\* _cumulative[key] and _rounds_won[key] of the conclusion that won.
Record(rows, c, weight) ==
    IF \E k \in DOMAIN rows : rows[k].answer = c
    THEN [k \in DOMAIN rows |->
             IF rows[k].answer = c
             THEN [rows[k] EXCEPT !.score = @ + weight, !.won = @ + 1] ELSE rows[k]]
    ELSE Append(rows, [answer |-> c, score |-> weight, won |-> 1])

\* The key of the highest cumulative score, the first inserted on a tie.
BestRow(rows) ==
    CHOOSE k \in DOMAIN rows :
        \A j \in DOMAIN rows :
            rows[j].score < rows[k].score \/ (rows[j].score = rows[k].score /\ k <= j)

\* to_no_consensus_payload: candidate, cumulative score behind its confidence (0 for
\* a threshold that is not positive), minority signals.  Without any row there is no
\* tracked output either.
NoConsensus ==
    [reason |-> "no_consensus", value |-> None,
     candidate |-> IF ledger = <<>> THEN NoText ELSE ledger[BestRow(ledger)].answer,
     confidence |-> IF ledger = <<>> \/ Threshold <= 0 THEN 0 ELSE ledger[BestRow(ledger)].score,
     minority |-> minority]
-----------------------------------------------------------------------------
(* The refinement loop.                                                    *)

\* Outputs of a round with a quorum.
Quorums == {who \in SUBSET Agents : Cardinality(who) >= R}
Answers == UNION {[who -> Outputs] : who \in Quorums}

\* Round 0 has had a quorum.
Init ==
    /\ round = 1
    /\ bar \in {ConclusionsOf(outs) : outs \in Answers}
    /\ score = 0
    /\ tracked = None
    /\ ledger = <<>>
    /\ minority = {}
    /\ dissent = {}
    /\ reference = NoText
    /\ outcome = NoOutcome
    /\ hist = <<>>

Running == outcome.reason = "none"
RoundsLeft == round <= MaxRounds

\* Fewer than R answers: the agents are told the same again next time.
NoRefmQuorum ==
    /\ Running /\ RoundsLeft
    /\ round' = round + 1
    /\ UNCHANGED <<bar, trackerVars, ledger, minority, tellVars, outcome>>

\* Fault: a round that chose nothing leaves the reference answer as it was.
ReferenceKept(s) == IF s.skip THEN reference ELSE Conclusion[s.winner]

\* semantic_ref_holder[0] after a decision step.
ReferenceAfter(s) == IF s.skip THEN NoText ELSE Conclusion[s.winner]

\* apply_round and record_round of a round that chose.
Choose(s) ==
    /\ score' = ScoreAfter(s)
    /\ tracked' = s.winner
    /\ hist' = Append(hist, [value |-> s.winner, weight |-> s.weight])
    /\ ledger' = Record(ledger, Conclusion[s.winner], s.weight)
    /\ minority' = minority \cup s.dissent
    /\ outcome' = IF score' >= Threshold
                  THEN [NoOutcome EXCEPT !.reason = "consensus", !.value = s.winner]
                  ELSE outcome

\* What becomes of the answers of a quorum: step, tell the agents, commit or go on
\* with the answers as the next refinement set.
Decide(outs, labels) ==
    LET s == SemanticStep(outs, labels, bar) IN
    /\ IF s.skip THEN UNCHANGED <<trackerVars, ledger, minority, outcome>> ELSE Choose(s)
    /\ dissent' = s.dissent
    /\ reference' = ReferenceAfter(s)
    /\ IF outcome'.reason = "consensus"
       THEN UNCHANGED <<bar, round>>
       ELSE bar' = ConclusionsOf(outs) /\ round' = round + 1

\* A round with a quorum, its outputs clustered in any way.
RefmQuorum ==
    /\ Running /\ RoundsLeft
    /\ \E who \in Quorums : \E labels \in Labelings(who) : \E outs \in [who -> Outputs] :
           Decide(outs, labels)

\* max_rounds or timeout.
OutOfRounds ==
    /\ Running /\ ~RoundsLeft
    /\ outcome' = NoConsensus
    /\ UNCHANGED <<round, bar, trackerVars, ledger, minority, tellVars>>

\* A cancelled session has no payload.
Cancelled ==
    /\ Running
    /\ outcome' = [NoOutcome EXCEPT !.reason = "cancelled"]
    /\ UNCHANGED <<round, bar, trackerVars, ledger, minority, tellVars>>

Next ==
    \/ NoRefmQuorum
    \/ RefmQuorum
    \/ OutOfRounds
    \/ Cancelled

Spec == Init /\ [][Next]_vars
-----------------------------------------------------------------------------
(* Properties.                                                             *)

Texts == Conclusions \cup {NoText}

Outcomes ==
    [reason : {"none", "consensus", "no_consensus", "cancelled"},
     value : Outputs \cup {None}, candidate : Texts, confidence : Int,
     minority : SUBSET Conclusions]

\* The rows of the ledger have different answers, as the keys of a dictionary do.
TypeOK ==
    /\ round \in 1..MaxRounds + 1
    /\ bar \subseteq Conclusions
    /\ score \in Int
    /\ tracked \in Outputs \cup {None}
    /\ ledger \in Seq([answer : Conclusions, score : Int, won : 1..MaxRounds])
    /\ \A j, k \in DOMAIN ledger : ledger[j].answer = ledger[k].answer => j = k
    /\ minority \subseteq Conclusions /\ dissent \subseteq Conclusions
    /\ reference \in Texts
    /\ outcome \in Outcomes
    /\ hist \in Seq([value : Outputs, weight : Int])

\* What the agents are told next is of one piece: the reference answer is the
\* conclusion of the tracked output, it is not among the dissenting ones, and after
\* a round that chose nothing there is none, whatever rounds without quorum lie
\* between (protocol.py:743).
PromptIsCoherent ==
    reference # NoText =>
        /\ tracked # None
        /\ reference = Conclusion[tracked]
        /\ reference \notin dissent

\* The rounds in l that an output with conclusion c has won, and what they weigh together.
Wins(l, c) == {i \in DOMAIN l : Conclusion[l[i].value] = c}
Gathered(l, c) == SumFunction([i \in Wins(l, c) |-> l[i].weight])

\* The books of the session are those of all its choices, however candidates alternate:
\* each conclusion that has won has one row, with its rounds and their weight, and a
\* session without consensus names one that has gathered most.  The session commits as
\* soon as the running score, which follows outputs, is enough, and not before.  The
\* conclusion tracked can have gathered less than the running score, but only if it has
\* won a round of negative weight: similarities are not clamped.
ScoreIsAccounted ==
    /\ {ledger[k].answer : k \in DOMAIN ledger} = {Conclusion[hist[i].value] : i \in DOMAIN hist}
    /\ \A k \in DOMAIN ledger :
           /\ ledger[k].score = Gathered(hist, ledger[k].answer)
           /\ ledger[k].won = Cardinality(Wins(hist, ledger[k].answer))
    /\ hist # <<>> /\ score >= Threshold <=> outcome.reason = "consensus"
    /\ outcome.reason = "consensus" => outcome.value = tracked
    /\ outcome.reason = "no_consensus" /\ hist # <<>> =>
           /\ \E i \in DOMAIN hist : outcome.candidate = Conclusion[hist[i].value]
           /\ \A i \in DOMAIN hist :
                  Gathered(hist, Conclusion[hist[i].value]) <= Gathered(hist, outcome.candidate)
           /\ Threshold > 0 => outcome.confidence = Gathered(hist, outcome.candidate)
    /\ tracked # None =>
           \/ score <= Gathered(hist, Conclusion[tracked])
           \/ \E i \in Wins(hist, Conclusion[tracked]) : hist[i].weight < 0

\* The running score decides exactly as the whole list of choices would.
Weighted == INSTANCE WeightedStability
              WITH Values <- Outputs, Weights <- -(Unit * Cardinality(Agents))..Unit * Cardinality(Agents),
                   Bottom <- None, log <- hist, verdict <- outcome.value
ImplementsWeightedStability == Weighted!Spec
==============================================================================
