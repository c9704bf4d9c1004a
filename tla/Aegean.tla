------------------------------- MODULE Aegean -------------------------------
(***************************************************************************)
(* One session of the coordinator: AegeanProtocol.execute                  *)
(* (aegean/protocol.py) from the outcome of the election to its result.    *)
(* Soln round, refinement rounds with the decision engine, recovery from   *)
(* NewTermAcks, commit certificate, cancellation, termination reasons.     *)
(*                                                                         *)
(* A round is one step: the outputs that were accepted before the deadline *)
(* (RoundCollection models how worker threads, deadline and cancellation   *)
(* produce them).  Agent ids are numbers, in the order of the strings.     *)
(***************************************************************************)
EXTENDS DecisionRule, AegeanQuorum, Sequences

CONSTANTS
    Experts,             \* config["experts"]: the agent ids, in order
    LeaderIdx,           \* the index select_leader(experts, 0) hashes to
    MaxElectionAttempts, \* max_election_attempts
    F,                   \* AegeanConfig.byzantine_tolerance
    Alpha, Beta,         \* AegeanConfig.alpha, AegeanConfig.beta
    MaxRounds,           \* AegeanConfig.max_rounds
    OutputsOf,           \* the outputs each agent may return
    MayFail,             \* the agents whose answer may be late, failed or excluded
    AckLists,            \* what new_term_ack_provider may return: sets of acks
    TrackInits,          \* refm_round_track_init: the rounds agents start from
    MayCancel            \* whether somebody may call cancel()

N == Len(Experts)
Agents == {Experts[i] : i \in 1..N}
Outputs == UNION {OutputsOf[a] : a \in Agents}
R == QuorumSize(N, F)

ASSUME SessionAssumption ==
    /\ Experts \in Seq(Nat)
    /\ Cardinality(Agents) = N   \* "experts list must not contain duplicate ids"
    /\ LeaderIdx \in 0..N-1
    /\ MaxElectionAttempts \in Nat \ {0}
    /\ F \in Nat
    /\ ValidFaultBound(N, F)     \* validate_failstop_fault_bound
ASSUME ConfigAssumption ==
    /\ Alpha \in Nat \ {0} /\ Beta \in Nat \ {0} /\ MaxRounds \in Nat
    /\ MayFail \subseteq Agents /\ MayCancel \in BOOLEAN
    /\ \A a \in Agents : OutputsOf[a] \subseteq Nat
    /\ TrackInits \subseteq [Agents -> Nat]
    /\ \A acks \in AckLists : IsFiniteSet(acks)
    /\ \A acks \in AckLists : \A a, b \in acks :
           /\ a.term \in Nat /\ a.round \in Nat /\ a.agent \in Agents
           /\ a.bottom \in BOOLEAN /\ a.refm \in Seq(Nat)
           /\ a.agent = b.agent => a = b

VARIABLES
    pc,         \* where execute is: see Places
    cancelled,  \* self.cancelled
    term,       \* term_num
    leader,     \* leader_id, 0 before the election
    recovered,  \* skipped_soln
    bar,        \* broadcast_bar
    track,      \* ref_round_tracks: last_accepted_broadcast_round
    refRound,   \* ref_round
    candidate,  \* the engine's _candidate
    stability,  \* the engine's _stability
    rounds,     \* rounds, oldest first
    result,     \* what execute returned
    sinceCancel \* history: rounds collected after cancel() was called

engineVars == <<candidate, stability>>
vars == <<pc, cancelled, term, leader, recovered, bar, track, refRound,
          engineVars, rounds, result, sinceCancel>>

\* "solnWait" and "refmWait": the workers run and the join loop has looked at
\* the cancelled flag at least once.
Places == {"start", "elect", "acks", "soln", "solnWait", "refm", "refmWait",
           "done"}

NoCert == [term |-> 0, round |-> 0, leader |-> 0, value |-> None,
           supporters |-> {}]
NoResult == [reason |-> "none", value |-> None, cert |-> NoCert]

\* AegeanRound: outs are the accepted votes with their outputs, wall tells
\* whether the round hit its deadline.
Row(phase, round, shown, outs, wall, d) ==
    [phase |-> phase, round |-> round, leader |-> leader, bar |-> shown,
     outs |-> outs, wall |-> wall, decision |-> d]

\* Fault: only the last round is asked for its deadline.
LastWallTimeout(rs) == rs # <<>> /\ rs[Len(rs)].wall

\* any_wall_timeout: some round has hit its deadline.
AnyWallTimeout(rs) == \E i \in DOMAIN rs : rs[i].wall

\* What the join may hand to the round: the accepted outputs of the agents that
\* are not refused, and whether the deadline passed with workers unfinished.
\* An agent is missing because it was late, raised, returned ok=False or an
\* invalid shape, or was below confidence_threshold.
Answers(willing) ==
    {o \in UNION {[S -> Outputs] : S \in SUBSET willing} :
        /\ willing \ MayFail \subseteq DOMAIN o
        /\ \A a \in DOMAIN o : o[a] \in OutputsOf[a]}
WallTimeouts(outs) == IF DOMAIN outs = Agents THEN {FALSE} ELSE BOOLEAN

\* evaluate_quorum_status(...).has_quorum
HasQuorum(outs) == Cardinality(DOMAIN outs) >= R
-----------------------------------------------------------------------------
Init ==
    /\ pc = "start"
    /\ cancelled = FALSE
    /\ term = 1
    /\ leader = 0
    /\ recovered = FALSE
    /\ bar = <<>>
    /\ track \in TrackInits
    /\ refRound = 1
    /\ candidate = None
    /\ stability = 0
    /\ rounds = <<>>
    /\ result = NoResult
    /\ sinceCancel = 0

\* _final_result, or an early return of execute.
Finish(reason, value, cert) ==
    /\ pc' = "done"
    /\ result' = [reason |-> reason, value |-> value, cert |-> cert]

\* AegeanProtocol.cancel, from another thread, at any time.
Cancel ==
    /\ MayCancel
    /\ ~cancelled
    /\ pc # "done"   \* later calls concern the next session
    /\ cancelled' = TRUE
    /\ sinceCancel' = 0
    /\ UNCHANGED <<pc, term, leader, recovered, bar, track, refRound,
                   engineVars, rounds, result>>

\* The cancelled check that opens execute.
Start ==
    /\ pc = "start"
    /\ IF cancelled
       THEN Finish("cancelled", None, NoCert)
       ELSE pc' = "elect" /\ UNCHANGED result
    /\ UNCHANGED <<cancelled, term, leader, recovered, bar, track, refRound,
                   engineVars, rounds, sinceCancel>>

\* The election loop elects the candidate of attempt t in term t, ...
Elect(t) ==
    /\ pc = "elect"
    /\ term' = t
    /\ leader' = Experts[((LeaderIdx + t - 1) % N) + 1]
    /\ pc' = "acks"
    /\ UNCHANGED <<cancelled, recovered, bar, track, refRound, engineVars,
                   rounds, result, sinceCancel>>

\* ... or ends without a vote quorum: ok=False.
ElectionFails ==
    /\ pc = "elect"
    /\ Finish("error", None, NoCert)
    /\ UNCHANGED <<cancelled, term, leader, recovered, bar, track, refRound,
                   engineVars, rounds, sinceCancel>>

\* The order of select_recovery_ack: (term, round_num, agent_id).
AckBefore(a, b) ==
    \/ a.term < b.term
    \/ a.term = b.term /\ a.round < b.round
    \/ a.term = b.term /\ a.round = b.round /\ a.agent <= b.agent

SelectRecoveryAck(acks) ==
    CHOOSE a \in acks : ~a.bottom /\ \A b \in acks : b.bottom \/ AckBefore(b, a)

\* recovery_acks_all_bottom: go on to Round 0.
NothingToRecover(acks) ==
    /\ pc = "acks"
    /\ \A a \in acks : a.bottom
    /\ pc' = "soln"
    /\ UNCHANGED <<cancelled, term, leader, recovered, bar, track, refRound,
                   engineVars, rounds, result, sinceCancel>>

\* Skip Round 0: the refinement set and the term are those of the chosen ack.
\* A set shorter than R ends the session before any round.
Recover(acks) ==
    /\ pc = "acks"
    /\ \E a \in acks : ~a.bottom
    /\ LET picked == SelectRecoveryAck(acks) IN
       /\ term' = picked.term
       /\ bar' = picked.refm
       /\ recovered' = TRUE
       /\ IF Len(picked.refm) < R
          THEN Finish("max_rounds", None, NoCert)
          ELSE pc' = "refm" /\ UNCHANGED result
    /\ UNCHANGED <<cancelled, leader, track, refRound, engineVars, rounds,
                   sinceCancel>>
-----------------------------------------------------------------------------
(* Collection of a round: pool, _join_expert_futures.                      *)

\* Fault: one round too many.
RoundsLeftOneMore == refRound <= MaxRounds + 1

\* while ref_round <= self.config.max_rounds
RoundsLeft == refRound <= MaxRounds

\* Fault: a cancelled round is tried again.
JoinCancelledContinues ==
    /\ \/ pc \in {"soln", "solnWait"} /\ pc' = "soln"
       \/ pc \in {"refm", "refmWait"} /\ RoundsLeft /\ pc' = "refm"
    /\ cancelled
    /\ UNCHANGED <<cancelled, term, leader, recovered, bar, track, refRound,
                   engineVars, rounds, result, sinceCancel>>

\* The loop over max_rounds and the join loop look at the flag; the answers of
\* the round under way are dropped.
JoinCancelled ==
    /\ \/ pc \in {"soln", "solnWait"}
       \/ pc \in {"refm", "refmWait"} /\ RoundsLeft
    /\ cancelled
    /\ Finish("cancelled", None, NoCert)
    /\ UNCHANGED <<cancelled, term, leader, recovered, bar, track, refRound,
                   engineVars, rounds, sinceCancel>>

\* Fault: nobody hands is_cancelled to the join.
MayJoinUnasked == TRUE

MayJoin == ~cancelled

\* The workers run and the coordinator waits.
Join ==
    /\ MayJoin
    /\ \/ pc = "soln" /\ pc' = "solnWait"
       \/ pc = "refm" /\ RoundsLeft /\ pc' = "refmWait"
    /\ UNCHANGED <<cancelled, term, leader, recovered, bar, track, refRound,
                   engineVars, rounds, result, sinceCancel>>

CountIfCancelled ==
    sinceCancel' = IF cancelled THEN sinceCancel + 1 ELSE sinceCancel

\* Round 0.  Nothing goes on without the leader's own solution; None outputs
\* are accepted but dropped from the first refinement set.
SolnRound(outs, wall) ==
    /\ pc = "solnWait"
    /\ CountIfCancelled
    /\ IF leader \notin DOMAIN outs
       THEN Finish("error", None, NoCert) /\ UNCHANGED <<bar, rounds>>
       ELSE /\ bar' = [a \in {b \in DOMAIN outs : outs[b] # None} |-> outs[a]]
            /\ rounds' = Append(rounds, Row("proposal", 0, bar', outs, wall, NoDecision))
            /\ IF HasQuorum(outs)
               THEN pc' = "refm" /\ UNCHANGED result
               ELSE Finish(IF wall THEN "timeout" ELSE "max_rounds", None, NoCert)
    /\ UNCHANGED <<cancelled, term, leader, recovered, track, refRound,
                   engineVars>>

\* The agents whose round track lets the broadcast of round r in
\* (PerAgentRefmRoundTrack.try_accept_refm_broadcast).
Willing(r) == {a \in Agents : r >= track[a]}

\* Every willing agent has been called: the pool has a thread for each expert (a
\* thread that starts only after the deadline is left to RoundCollection).
BroadcastAccepted ==
    track' = [a \in Agents |-> IF a \in Willing(refRound) THEN refRound ELSE track[a]]

\* Fault: the outputs of a round that failed replace the refinement set.
BarWithoutQuorumLost(outs) == outs

\* The refinement set stays when a round fails.
BarWithoutQuorum(outs) == bar

\* No Refm quorum: the engine is not asked.  The early_termination exit
\* needs a reject, and no vote is ever a reject.
NoRefmQuorum(outs, wall) ==
    /\ pc = "refmWait"
    /\ ~HasQuorum(outs)
    /\ BroadcastAccepted
    /\ CountIfCancelled
    /\ rounds' = Append(rounds, Row("refinement", refRound, bar, outs, wall, NoDecision))
    /\ bar' = BarWithoutQuorum(outs)
    /\ refRound' = refRound + 1
    /\ pc' = "refm"
    /\ UNCHANGED <<cancelled, term, leader, recovered, engineVars, result>>

\* Fault: ref_round has moved on when the certificate is issued.
CertificateOfNextRound(outs, value) ==
    [term |-> term, round |-> refRound + 1, leader |-> leader, value |-> value,
     supporters |-> DOMAIN outs]

Certificate(outs, value) ==
    [term |-> term, round |-> refRound, leader |-> leader, value |-> value,
     supporters |-> DOMAIN outs]

\* Fault: the engine is given the outputs of this round as the previous set.
DecideOnOwnOutputs(outs) ==
    Decision(candidate, stability, ValuesOf(outs), outs, Alpha, Beta)

\* engine.step(r_bar_prev=broadcast_bar, current_round_outputs=ref_vals)
Decide(outs) == Decision(candidate, stability, ValuesOf(bar), outs, Alpha, Beta)

\* A Refm quorum: decide, commit with a certificate or go on with the outputs
\* of this round as the next refinement set.
RefmQuorum(outs, wall) ==
    LET d == Decide(outs)
        row == Row("refinement", refRound, bar, outs, wall, d)
        commit == Row("commit", refRound, <<d.value>>, <<>>, FALSE, NoDecision)
    IN
    /\ pc = "refmWait"
    /\ HasQuorum(outs)
    /\ BroadcastAccepted
    /\ CountIfCancelled
    /\ candidate' = d.eligible
    /\ stability' = d.stability
    /\ IF d.committed
       THEN /\ rounds' = rounds \o <<row, commit>>
            /\ Finish("consensus", d.value, Certificate(outs, d.value))
            /\ UNCHANGED <<bar, refRound>>
       ELSE /\ rounds' = Append(rounds, row)
            /\ bar' = outs
            /\ refRound' = refRound + 1
            /\ pc' = "refm"
            /\ UNCHANGED result
    /\ UNCHANGED <<cancelled, term, leader, recovered>>

\* The loop ends without consensus.
OutOfRounds ==
    /\ pc = "refm"
    /\ ~RoundsLeft
    /\ Finish(IF AnyWallTimeout(rounds) THEN "timeout" ELSE "max_rounds", None, NoCert)
    /\ UNCHANGED <<cancelled, term, leader, recovered, bar, track, refRound,
                   engineVars, rounds, sinceCancel>>

RunRound ==
    \/ \E outs \in Answers(Agents) : \E wall \in WallTimeouts(outs) :
           SolnRound(outs, wall)
    \/ \E outs \in Answers(Willing(refRound)) : \E wall \in WallTimeouts(outs) :
           NoRefmQuorum(outs, wall) \/ RefmQuorum(outs, wall)

Execute ==
    \/ Start
    \/ \E t \in 1..MaxElectionAttempts : Elect(t)
    \/ ElectionFails
    \/ \E acks \in AckLists : NothingToRecover(acks) \/ Recover(acks)
    \/ JoinCancelled
    \/ Join
    \/ RunRound
    \/ OutOfRounds

Next == Execute \/ Cancel

Spec == Init /\ [][Next]_vars

\* execute goes on by itself as long as the join loop does (its deadline, see
\* RoundCollection); nobody has to cancel.
FairSpec == Spec /\ WF_vars(Execute)
-----------------------------------------------------------------------------
(* Properties.                                                             *)

Values ==
    Outputs \cup {None} \cup UNION {UNION {ValuesOf(a.refm) : a \in acks} : acks \in AckLists}
PartialOutputs(S) == UNION {[T -> Outputs] : T \in SUBSET S}
Certificates ==
    [term : Nat, round : Nat, leader : Agents \cup {0}, value : Values,
     supporters : SUBSET Agents]
Results ==
    [reason : {"none", "consensus", "max_rounds", "timeout", "cancelled", "error"},
     value : Values, cert : Certificates]
Decisions ==
    [committed : BOOLEAN, value : Outputs \cup {None}, stability : Nat,
     eligible : Outputs \cup {None}, overturned : BOOLEAN]
Rows ==
    [phase : {"proposal", "refinement", "commit"}, round : Nat, leader : Agents,
     bar : PartialOutputs(Agents) \cup Seq(Values), outs : PartialOutputs(Agents),
     wall : BOOLEAN, decision : Decisions]

TypeOK ==
    /\ pc \in Places
    /\ cancelled \in BOOLEAN
    /\ term \in Nat
    /\ leader \in Agents \cup {0}
    /\ recovered \in BOOLEAN
    /\ bar \in PartialOutputs(Agents) \cup Seq(Values)
    /\ track \in [Agents -> Nat]
    /\ refRound \in 1..MaxRounds + 1
    /\ candidate \in Outputs \cup {None}
    /\ stability \in Nat
    /\ rounds \in Seq(Rows)
    /\ result \in Results
    /\ sinceCancel \in Nat

\* Rounds by their index in rounds: of refinement, and those with a quorum.
RefmRounds == {i \in DOMAIN rounds : rounds[i].phase = "refinement"}
LastRefm == CHOOSE i \in RefmRounds : \A j \in RefmRounds : j <= i
QuorumRounds == {i \in RefmRounds : HasQuorum(rounds[i].outs)}

\* Quorum round i is one of the last n.
AmongLast(i, n) == Cardinality({j \in QuorumRounds : j > i}) < n

\* Round i confirms v: at least Alpha agents output v, and all had been shown it in
\* the refinement set of the round.
Confirms(i, v) ==
    /\ Support(rounds[i].outs, v) >= Alpha
    /\ v \in ValuesOf(rounds[i].bar)

\* A committed value was confirmed in each of the last Beta rounds with a quorum; no
\* round it was missing from lies in between.
CommitIsBacked ==
    result.reason = "consensus" =>
        /\ Cardinality(QuorumRounds) >= Beta
        /\ \A i \in QuorumRounds : AmongLast(i, Beta) => Confirms(i, result.value)

\* Round i replaces the refinement set, by these values.
HadQuorum(i) == rounds[i].phase # "commit" /\ HasQuorum(rounds[i].outs)
Shown(i) ==
    IF rounds[i].phase = "proposal" THEN ValuesOf(rounds[i].outs) \ {None}
                                    ELSE ValuesOf(rounds[i].outs)

\* Every round shows the agents the outputs of the last round that had a quorum,
\* however many rounds failed in between.
BarFollowsQuorum ==
    \A j \in RefmRounds : \A i \in 1..j-1 :
        HadQuorum(i) /\ (\A k \in i+1..j-1 : ~HadQuorum(k))
            => ValuesOf(rounds[j].bar) = Shown(i)

\* The session ends in a consensus exactly when it issues a certificate, and a
\* certificate names a quorum that contains Alpha supporters of the value, in a
\* round of this session, led by this leader in this term.
CertificateIsSound ==
    /\ (result.reason = "consensus") <=> (result.cert # NoCert)
    /\ result.cert # NoCert =>
        LET c == result.cert
            last == rounds[LastRefm]
        IN  /\ c.term = term /\ c.leader = leader /\ c.round = last.round
            /\ c.value = result.value
            /\ Cardinality(c.supporters) >= R
            /\ Cardinality({a \in c.supporters : last.outs[a] = c.value}) >= Alpha
            /\ \A a \in c.supporters : track[a] = c.round

\* validate_aegean_result_replay (aegean/commit_semantics.py) raises nothing.
ReplayAccepts(rs, c, reason) ==
    LET refs == {i \in DOMAIN rs : rs[i].phase = "refinement" /\ rs[i].round = c.round}
        last == CHOOSE i \in refs : \A j \in refs : j <= i
        commits == {i \in DOMAIN rs : rs[i].phase = "commit" /\ rs[i].round = c.round}
    IN
    /\ rs # <<>>
    /\ rs[1].phase = "proposal" /\ rs[1].round = 0
    /\ \A i \in 2..Len(rs) :
           \/ rs[i].phase = "refinement" /\ rs[i].round >= 1
           \/ /\ rs[i].phase = "commit"
              /\ rs[i-1].phase = "refinement"
              /\ rs[i-1].round = rs[i].round
    /\ IF c = NoCert
       THEN \A i \in DOMAIN rs : rs[i].phase # "commit"
       ELSE /\ reason = "consensus"
            /\ refs # {}
            /\ rs[last].decision.committed
            /\ rs[last].leader = c.leader
            /\ c.value \in ValuesOf(rs[last].bar)
            /\ Cardinality(commits) = 1
            /\ \A i \in commits : rs[i].bar = <<c.value>>

Finished == pc = "done" /\ result.reason # "error"

\* A finished session that began with Round 0 is accepted by the replay check.
SolnSessionsReplay ==
    (Finished /\ ~recovered /\ rounds # <<>>)
        => ReplayAccepts(rounds, result.cert, result.reason)

\* After cancel() at most the round under way is still collected, and a result
\* that is not "cancelled" afterwards used no answer asked for after cancel().
OneRoundAfterCancel ==
    /\ sinceCancel <= 1
    /\ (cancelled /\ result.reason = "consensus") => sinceCancel = 1

\* Why a session ended without consensus, told from its rounds: it ran out of
\* rounds, or had no solution quorum, or recovered too small a set; and it is a
\* "timeout" exactly when some round had hit its deadline.
EndsForAReason ==
    (result.reason \in {"timeout", "max_rounds"}) =>
        /\ \/ Cardinality(RefmRounds) = MaxRounds
           \/ recovered /\ rounds = <<>> /\ Len(bar) < R
           \/ Len(rounds) = 1 /\ ~HasQuorum(rounds[1].outs)
        /\ (result.reason = "timeout") <=> \E i \in DOMAIN rounds : rounds[i].wall

\* The session decides as the abstract beta rule does on the candidates of its
\* rounds with a quorum: never earlier, and never later.  QuorumRound(k) is the
\* k-th of them, the candidate of a round is -1 if nothing was eligible in it.
QuorumRound(k) ==
    CHOOSE i \in QuorumRounds : Cardinality({j \in QuorumRounds : j < i}) = k - 1
CandidateOf(row) == IF row.decision.stability = 0 THEN -1 ELSE row.decision.eligible
Candidates ==
    [k \in 1..Cardinality(QuorumRounds) |-> CandidateOf(rounds[QuorumRound(k)])]
Beta_ == INSTANCE BetaStability
           WITH Values <- Outputs, Fleeting <- {None}, Bottom <- -1, log <- Candidates,
                verdict <- IF result.reason = "consensus" THEN result.value ELSE -1
ImplementsBetaStability == Beta_!Spec

\* execute returns.
SessionEnds == <>(pc = "done")

\* With Alpha agents or more that always answer and keep to one output, the
\* session commits that output, whatever the others answer or fail to and
\* whatever set it recovers; only cancel(), an election without a winner, an
\* elected leader without a solution of its own, or a recovered set below R
\* (the last three before the first round) end it otherwise.
SteadyAgentsCommit ==
    \A v \in Outputs :
        (\A a \in Agents \ MayFail : OutputsOf[a] = {v})
            => <>(/\ pc = "done"
                  /\ \/ result.reason = "consensus" /\ result.value = v
                     \/ result.reason = "cancelled"
                     \/ rounds = <<>>)
=============================================================================
