------------------------------ MODULE Election ------------------------------
(***************************************************************************)
(* Leader election of aegean: election.py (the LocalElectionState of each  *)
(* peer), election_transport.py (run_election_with_messenger) and the      *)
(* election loop of AegeanProtocol.execute.                                *)
(*                                                                         *)
(* Several coordinators (sessions) share the peers through a custom        *)
(* election_messenger.  A coordinator calls one expert after the other:    *)
(* RequestVote to every expert, then Vote to those that granted it, and    *)
(* counts the recorded votes; without a quorum it moves to the next term   *)
(* and the next candidate.  A call may time out while its request is still *)
(* on its way, so that the peer executes it later; a stopped peer refuses  *)
(* the connection.  A peer executes one request at a time (as the          *)
(* in-process messenger does; ElectionHttp models the threaded server).    *)
(***************************************************************************)
EXTENDS Integers, Sequences, FiniteSets, AegeanQuorum

CONSTANTS
    Peers,               \* the ids in the experts list
    F,                   \* AegeanConfig.byzantine_tolerance
    Coordinators,        \* concurrent calls of execute on the same peers
    Experts,             \* Experts[c]: the order of coordinator c's experts list
    LeaderIdx,           \* LeaderIdx[c]: the index select_leader hashes to
    MaxElectionAttempts, \* max_election_attempts
    InitialTerms,        \* the persisted term each peer starts with
    MaxTimeouts,         \* bound: calls that time out although the peer is up
    MaxCrashes           \* bound: peers that stop

N == Cardinality(Peers)
Terms == 1..MaxElectionAttempts
Ballots == [peer : Peers, term : Terms, from : Coordinators]

ASSUME PeersAssumption ==
    /\ IsFiniteSet(Peers)
    /\ F \in Nat
    /\ ValidFaultBound(N, F)
ASSUME CoordinatorAssumption ==
    /\ MaxElectionAttempts \in Nat \ {0}
    /\ LeaderIdx \in [Coordinators -> 0..N-1]
    /\ Experts \in [Coordinators -> Seq(Peers)]
    /\ \A c \in Coordinators :
           /\ Len(Experts[c]) = N
           /\ \A i, j \in 1..N : Experts[c][i] = Experts[c][j] => i = j
ASSUME TermsAssumption == InitialTerms \in [Peers -> Nat]
ASSUME BoundAssumption == MaxTimeouts \in Nat /\ MaxCrashes \in Nat

VARIABLES
    term,      \* LocalElectionState.term of each peer
    votedIn,   \* LocalElectionState.voted_in_term, 0 for None (terms start at 1)
    voteFor,   \* LocalElectionState.last_vote_for, "none" for None
    crashed,   \* the peers that have stopped
    net,       \* requests sent to a peer and not yet executed
    phase,     \* where each coordinator is: see Phases
    try,       \* election_try of the loop in execute
    todo,      \* experts of the current broadcast still to be called
    waiting,   \* the coordinator has a call outstanding to Head(todo)
    reply,     \* the answer on its way back to the coordinator
    granted,   \* rv_granted, in the order of the calls
    votes,     \* votes: the peers that recorded the Vote
    timeouts,  \* how many calls have timed out
    cast       \* history: every vote a peer has recorded, with its sender

peerVars == <<term, votedIn, voteFor>>
callVars == <<todo, waiting, reply, granted, votes>>
vars == <<term, votedIn, voteFor, crashed, net, phase, try, todo, waiting,
          reply, granted, votes, timeouts, cast>>

\* "request" and "vote" are the two loops of run_election_with_messenger;
\* "leader": a vote quorum; "failed": execute returns ok=False after the last
\* attempt; "raised": an exception leaves execute.
Phases == {"request", "vote", "leader", "failed", "raised"}

\* Fault: the stall forgets to raise the term.
AttemptTermStuck(c) == 1

AttemptTerm(c) == try[c] + 1

\* candidate_id: the attempt rotates through the experts list.
CandidateAt(c, i) == Experts[c][((LeaderIdx[c] + i) % N) + 1]
Candidate(c) == CandidateAt(c, try[c])

Requests ==
    [type : {"request", "vote"}, to : Peers, from : Coordinators, term : Terms]

Call(c) == [type |-> phase[c], to |-> Head(todo[c]), from |-> c,
            term |-> AttemptTerm(c)]

\* The peers that recorded c's Vote of term t.
VotersOf(c, t) == {p \in Peers : [peer |-> p, term |-> t, from |-> c] \in cast}
-----------------------------------------------------------------------------
Init ==
    /\ term = InitialTerms
    /\ votedIn = [p \in Peers |-> 0]
    /\ voteFor = [p \in Peers |-> "none"]
    /\ crashed = {}
    /\ net = {}
    /\ phase = [c \in Coordinators |-> "request"]
    /\ try = [c \in Coordinators |-> 0]
    /\ todo = Experts
    /\ waiting = [c \in Coordinators |-> FALSE]
    /\ reply = [c \in Coordinators |-> "none"]
    /\ granted = [c \in Coordinators |-> <<>>]
    /\ votes = [c \in Coordinators |-> {}]
    /\ timeouts = 0
    /\ cast = {}
-----------------------------------------------------------------------------
(* The coordinator: run_election_with_messenger and the loop around it.    *)

\* messenger.request_vote(eid, rv_msg) or messenger.record_vote(eid, vm): the
\* request leaves; a stopped peer never sees it.
SendCall(c) ==
    /\ phase[c] \in {"request", "vote"}
    /\ todo[c] # <<>>
    /\ ~waiting[c]
    /\ waiting' = [waiting EXCEPT ![c] = TRUE]
    /\ net' = IF Head(todo[c]) \in crashed THEN net ELSE net \cup {Call(c)}
    /\ UNCHANGED <<peerVars, crashed, phase, try, todo, reply, granted, votes,
                   timeouts, cast>>

\* The call returns: a granted RequestVote joins rv_granted, a recorded Vote
\* joins votes; a refusal (granted = False, or the ValueError of record_vote)
\* adds nothing.
Return(c) ==
    /\ waiting[c]
    /\ reply[c] # "none"
    /\ waiting' = [waiting EXCEPT ![c] = FALSE]
    /\ reply' = [reply EXCEPT ![c] = "none"]
    /\ todo' = [todo EXCEPT ![c] = Tail(@)]
    /\ \/ /\ phase[c] = "request" /\ reply[c] = "yes"
          /\ granted' = [granted EXCEPT ![c] = Append(@, Head(todo[c]))]
          /\ UNCHANGED votes
       \/ /\ phase[c] = "vote" /\ reply[c] = "yes"
          /\ votes' = [votes EXCEPT ![c] = @ \cup {Head(todo[c])}]
          /\ UNCHANGED granted
       \/ /\ reply[c] = "no"
          /\ UNCHANGED <<granted, votes>>
    /\ UNCHANGED <<peerVars, crashed, net, phase, try, timeouts, cast>>

\* Fault: a refused connection is not turned into an exception.
CallFailsHangs(c) ==
    /\ waiting[c]
    /\ phase[c] = "request"
    /\ timeouts < MaxTimeouts
    /\ timeouts' = timeouts + 1
    /\ waiting' = [waiting EXCEPT ![c] = FALSE]
    /\ reply' = [reply EXCEPT ![c] = "none"]
    /\ todo' = [todo EXCEPT ![c] = Tail(@)]
    /\ UNCHANGED <<peerVars, crashed, net, phase, try, granted, votes, cast>>

\* The call fails in the transport: the connection is refused, or no answer
\* arrives in timeout_s although the request (or its answer) may be under way.
\* request_vote: any exception counts as "not granted".  record_vote: only
\* ValueError is caught, so a URLError or a timeout leaves execute.
CallFails(c) ==
    /\ waiting[c]
    /\ \/ /\ Head(todo[c]) \in crashed
          /\ UNCHANGED timeouts
       \/ /\ timeouts < MaxTimeouts
          /\ timeouts' = timeouts + 1
    /\ waiting' = [waiting EXCEPT ![c] = FALSE]
    /\ reply' = [reply EXCEPT ![c] = "none"]
    /\ \/ /\ phase[c] = "request"
          /\ todo' = [todo EXCEPT ![c] = Tail(@)]
          /\ UNCHANGED phase
       \/ /\ phase[c] = "vote"
          /\ phase' = [phase EXCEPT ![c] = "raised"]
          /\ UNCHANGED todo
    /\ UNCHANGED <<peerVars, crashed, net, try, granted, votes, cast>>

\* The RequestVote loop is over: votes are asked of those that granted, in the
\* same order, whether or not they are a quorum (has_rv is only reported).
StartVotes(c) ==
    /\ phase[c] = "request"
    /\ todo[c] = <<>>
    /\ phase' = [phase EXCEPT ![c] = "vote"]
    /\ todo' = [todo EXCEPT ![c] = granted[c]]
    /\ UNCHANGED <<peerVars, crashed, net, try, waiting, reply, granted, votes,
                   timeouts, cast>>

\* has_vote_quorum: the attempt's candidate becomes leader of the attempt's term.
Win(c) ==
    /\ phase[c] = "vote"
    /\ todo[c] = <<>>
    /\ IsQuorum(votes[c], N, F)
    /\ phase' = [phase EXCEPT ![c] = "leader"]
    /\ UNCHANGED <<peerVars, crashed, net, try, callVars, timeouts, cast>>

\* Fault: one attempt too many.
LastAttemptOffByOne(c) == try[c] = MaxElectionAttempts

LastAttempt(c) == try[c] + 1 = MaxElectionAttempts

\* Fault: the votes of the failed attempt are counted again in the next one.
RetryKeepsVotes(c) ==
    /\ phase[c] = "vote"
    /\ todo[c] = <<>>
    /\ ~IsQuorum(votes[c], N, F)
    /\ ~LastAttempt(c)
    /\ try' = [try EXCEPT ![c] = @ + 1]
    /\ phase' = [phase EXCEPT ![c] = "request"]
    /\ todo' = [todo EXCEPT ![c] = Experts[c]]
    /\ granted' = [granted EXCEPT ![c] = <<>>]
    /\ UNCHANGED <<peerVars, crashed, net, waiting, reply, votes, timeouts, cast>>

\* Election stall with attempts left: the next term and the next candidate, with
\* the counts of a new ElectionSimulationResult.
Retry(c) ==
    /\ phase[c] = "vote"
    /\ todo[c] = <<>>
    /\ ~IsQuorum(votes[c], N, F)
    /\ ~LastAttempt(c)
    /\ try' = [try EXCEPT ![c] = @ + 1]
    /\ phase' = [phase EXCEPT ![c] = "request"]
    /\ todo' = [todo EXCEPT ![c] = Experts[c]]
    /\ granted' = [granted EXCEPT ![c] = <<>>]
    /\ votes' = [votes EXCEPT ![c] = {}]
    /\ UNCHANGED <<peerVars, crashed, net, waiting, reply, timeouts, cast>>

\* The for loop is exhausted: execute returns ok=False.
GiveUp(c) ==
    /\ phase[c] = "vote"
    /\ todo[c] = <<>>
    /\ ~IsQuorum(votes[c], N, F)
    /\ LastAttempt(c)
    /\ phase' = [phase EXCEPT ![c] = "failed"]
    /\ UNCHANGED <<peerVars, crashed, net, try, callVars, timeouts, cast>>
-----------------------------------------------------------------------------
(* The peer: LocalElectionState.                                           *)

\* The answer reaches the coordinator only if it still waits for this call.
Answer(m, a) ==
    reply' = IF waiting[m.from] /\ m = Call(m.from)
             THEN [reply EXCEPT ![m.from] = a] ELSE reply

\* Fault: the term of a request is adopted without the guard.
RequestVoteAlwaysGranted(p, t) == TRUE

RequestVoteGranted(p, t) == t > term[p]

\* Fault: a request of the current term is granted too, and clears the vote.
HandleRequestVoteClearsVote(m) ==
    /\ m.type = "request"
    /\ IF m.term >= term[m.to]
       THEN /\ term' = [term EXCEPT ![m.to] = m.term]
            /\ votedIn' = [votedIn EXCEPT ![m.to] = 0]
            /\ Answer(m, "yes")
       ELSE UNCHANGED <<term, votedIn>> /\ Answer(m, "no")
    /\ UNCHANGED <<voteFor, cast>>

\* grant_request_vote: grant, and adopt the term, only if it is strictly higher.
HandleRequestVote(m) ==
    /\ m.type = "request"
    /\ IF RequestVoteGranted(m.to, m.term)
       THEN term' = [term EXCEPT ![m.to] = m.term] /\ Answer(m, "yes")
       ELSE UNCHANGED term /\ Answer(m, "no")
    /\ UNCHANGED <<votedIn, voteFor, cast>>

VoteAccepted(p, t) == t = term[p] /\ votedIn[p] # t

\* record_vote: raises ValueError unless the term is the peer's own and it has
\* not voted in it.
HandleVote(m) ==
    /\ m.type = "vote"
    /\ IF VoteAccepted(m.to, m.term)
       THEN /\ votedIn' = [votedIn EXCEPT ![m.to] = m.term]
            /\ voteFor' = [voteFor EXCEPT ![m.to] = CandidateAt(m.from, m.term - 1)]
            /\ cast' = cast \cup {[peer |-> m.to, term |-> m.term, from |-> m.from]}
            /\ Answer(m, "yes")
       ELSE UNCHANGED <<votedIn, voteFor, cast>> /\ Answer(m, "no")
    /\ UNCHANGED term

Handle(m) ==
    /\ m \in net
    /\ m.to \notin crashed
    /\ net' = net \ {m}
    /\ HandleRequestVote(m) \/ HandleVote(m)
    /\ UNCHANGED <<crashed, phase, try, todo, waiting, granted, votes, timeouts>>

\* Fail-stop: the peer answers nothing any more and its requests are lost.
Crash(p) ==
    /\ p \notin crashed
    /\ Cardinality(crashed) < MaxCrashes
    /\ crashed' = crashed \cup {p}
    /\ net' = {m \in net : m.to # p}
    /\ UNCHANGED <<peerVars, phase, try, callVars, timeouts, cast>>
-----------------------------------------------------------------------------
CoordinatorStep(c) ==
    \/ SendCall(c) \/ Return(c) \/ CallFails(c) \/ StartVotes(c) \/ Win(c)
    \/ Retry(c) \/ GiveUp(c)

Next ==
    \/ \E c \in Coordinators : CoordinatorStep(c)
    \/ \E m \in net : Handle(m)
    \/ \E p \in Peers : Crash(p)

Spec == Init /\ [][Next]_vars

\* A coordinator that can take a step takes it (its thread runs), and a running
\* peer serves what it has received.
Fairness ==
    /\ \A c \in Coordinators : WF_vars(CoordinatorStep(c))
    /\ \A m \in Requests : WF_vars(Handle(m))
FairSpec == Spec /\ Fairness
-----------------------------------------------------------------------------
(* Properties.                                                             *)

TypeOK ==
    /\ term \in [Peers -> Nat]
    /\ votedIn \in [Peers -> {0} \cup Terms]
    /\ DOMAIN voteFor = Peers
    /\ crashed \subseteq Peers
    /\ net \subseteq Requests
    /\ phase \in [Coordinators -> Phases]
    /\ try \in [Coordinators -> 0..MaxElectionAttempts-1]
    /\ todo \in [Coordinators -> Seq(Peers)]
    /\ waiting \in [Coordinators -> BOOLEAN]
    /\ reply \in [Coordinators -> {"none", "yes", "no"}]
    /\ granted \in [Coordinators -> Seq(Peers)]
    /\ votes \in [Coordinators -> SUBSET Peers]
    /\ timeouts \in 0..MaxTimeouts
    /\ cast \subseteq Ballots

\* A peer records at most one vote in a term, whoever asks and in whatever order
\* late and current requests arrive ("at-most-one vote per term", election.py:85).
OneVotePerTerm ==
    \A b1, b2 \in cast : b1.peer = b2.peer /\ b1.term = b2.term => b1 = b2

\* Two sessions never both lead in one term: their vote quorums would share a
\* peer.  It needs R to be a strict majority (QuorumsOverlap), which f at its
\* limit does not give when N is even.
ElectionSafety ==
    \A c, d \in Coordinators :
        phase[c] = "leader" /\ phase[d] = "leader" /\ try[c] = try[d] => c = d

\* What a leader counted is what the peers did: each counted voter recorded a
\* vote for this coordinator in this very term, and its term has not fallen
\* behind since, so that no request of an older term can be granted there.
LeaderIsBacked ==
    \A c \in Coordinators : phase[c] = "leader" =>
        /\ votes[c] \subseteq VotersOf(c, AttemptTerm(c))
        /\ \A p \in votes[c] : term[p] >= AttemptTerm(c)

\* The memory of a peer only moves forward: neither its term nor the term of its
\* vote ever decreases, and a recorded vote is replaced only in a later term
\* (grant_request_vote, "Raft-style monotonic term", election.py:95).
PeerMovesForward ==
    [][\A p \in Peers :
          /\ term'[p] >= term[p]
          /\ votedIn'[p] >= votedIn[p]
          /\ voteFor'[p] # voteFor[p] => votedIn'[p] > votedIn[p]]_vars

\* Every election ends: the session gets a leader, an error, or an exception,
\* whatever the peers and the other sessions do.
ElectionEnds ==
    \A c \in Coordinators : <>(phase[c] \in {"leader", "failed", "raised"})

\* A session that has the peers to itself is not beaten by their persisted terms:
\* when max_election_attempts exceeds them, and at most f peers stop, it ends
\* with a leader (or with the exception of a peer that stops after granting).
LoneElectionSucceeds ==
    \A c \in Coordinators : <>[](phase[c] \in {"leader", "raised"})
=============================================================================
