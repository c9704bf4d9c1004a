--------------------------- MODULE Election_proofs ---------------------------
(***************************************************************************)
(* Safety of Election and of ElectionHttp for every set of peers, every    *)
(* fault bound, every number of sessions, attempts, late calls and crashes.*)
(***************************************************************************)
EXTENDS ElectionHttp, FiniteSetTheorems, TLAPS

(***************************************************************************)
(* The inductive invariant.  A peer's vote never overtakes its term, the   *)
(* recorded votes never overtake the last one (so that a new vote is newer *)
(* than all of them), and what a coordinator counts, or is about to count, *)
(* has been recorded.                                                      *)
(***************************************************************************)
CallInv ==
    \A c \in Coordinators :
        /\ waiting[c] => phase[c] \in {"request", "vote"} /\ todo[c] # <<>>
        /\ reply[c] # "none" => waiting[c]

VoteBehindTerm == \A p \in Peers : votedIn[p] <= term[p]

CastBehindVote == \A b \in cast : b.term <= votedIn[b.peer]

CountedInv ==
    \A c \in Coordinators :
        /\ votes[c] \subseteq VotersOf(c, AttemptTerm(c))
        /\ phase[c] = "vote" /\ reply[c] = "yes"
             => Head(todo[c]) \in VotersOf(c, AttemptTerm(c))

LeaderHasQuorum ==
    \A c \in Coordinators : phase[c] = "leader" => IsQuorum(votes[c], N, F)

\* What the sessions keep; it holds as well when the peers are threaded servers.
SessionInv ==
    /\ TypeOK
    /\ CallInv
    /\ CountedInv
    /\ LeaderHasQuorum

\* What the peers keep.
PeerInv ==
    /\ VoteBehindTerm
    /\ CastBehindVote
    /\ OneVotePerTerm

IInv == SessionInv /\ PeerInv
-----------------------------------------------------------------------------
\* Two quorums share a member as soon as 2R > N.
LEMMA QuorumsIntersect ==
  ASSUME NEW S, IsFiniteSet(S), NEW f \in Nat, QuorumsOverlap(Cardinality(S), f),
         NEW A \in SUBSET S, NEW B \in SUBSET S,
         IsQuorum(A, Cardinality(S), f), IsQuorum(B, Cardinality(S), f)
  PROVE  A \cap B # {}
<1>1. Cardinality(S) \in Nat /\ Cardinality(A) \in Nat /\ Cardinality(B) \in Nat
  BY FS_CardinalityType, FS_Subset
<1>2. Cardinality(A) + Cardinality(B) > Cardinality(S)
  BY <1>1 DEF QuorumsOverlap, IsQuorum, QuorumSize
<1> QED  BY <1>2, FS_MajoritiesIntersect

LEMMA NType == N \in Nat
  BY PeersAssumption, FS_CardinalityType DEF N

\* The terms a peer keeps are numbers.
LEMMA PeerTerms ==
  ASSUME TypeOK, NEW p \in Peers
  PROVE  term[p] \in Nat /\ votedIn[p] \in Nat
<1>2. term \in [Peers -> Nat] /\ votedIn \in [Peers -> {0} \cup Terms]
  BY DEF TypeOK
<1>3. term[p] \in Nat
  BY <1>2
<1>4. votedIn[p] = 0 \/ votedIn[p] \in Terms
  BY <1>2
<1>5. votedIn[p] \in Nat
  BY <1>4, CoordinatorAssumption DEF Terms
<1> QED  BY <1>3, <1>5

LEMMA InitIInv == Init => IInv
<1> SUFFICES ASSUME Init PROVE IInv
  OBVIOUS
<1>1. TypeOK
  <2>1. term \in [Peers -> Nat] /\ votedIn \in [Peers -> {0} \cup Terms]
    BY TermsAssumption DEF Init
  <2>2. phase \in [Coordinators -> Phases]
    BY DEF Init, Phases
  <2>3. try \in [Coordinators -> 0..MaxElectionAttempts-1]
    BY CoordinatorAssumption DEF Init
  <2>4. todo \in [Coordinators -> Seq(Peers)]
    BY CoordinatorAssumption DEF Init
  <2>5. waiting \in [Coordinators -> BOOLEAN]
    BY DEF Init
  <2>6. reply \in [Coordinators -> {"none", "yes", "no"}]
    BY DEF Init
  <2>7. granted \in [Coordinators -> Seq(Peers)] /\ votes \in [Coordinators -> SUBSET Peers]
    BY DEF Init
  <2>8. timeouts \in 0..MaxTimeouts
    BY BoundAssumption DEF Init
  <2>9. DOMAIN voteFor = Peers /\ crashed \subseteq Peers /\ net \subseteq Requests
        /\ cast \subseteq Ballots
    BY DEF Init
  <2> QED
    BY <2>1, <2>2, <2>3, <2>4, <2>5, <2>6, <2>7, <2>8, <2>9 DEF TypeOK
<1>2. VoteBehindTerm
  BY TermsAssumption DEF Init, VoteBehindTerm
<1> QED
  BY <1>1, <1>2
  DEF Init, IInv, SessionInv, PeerInv, CallInv, CastBehindVote, OneVotePerTerm,
     CountedInv, LeaderHasQuorum

\* The head and the tail of a call list.
LEMMA TodoType ==
  ASSUME TypeOK, NEW c \in Coordinators, todo[c] # <<>>
  PROVE  Head(todo[c]) \in Peers /\ Tail(todo[c]) \in Seq(Peers)
  BY DEF TypeOK

LEMMA CallType ==
  ASSUME TypeOK, NEW c \in Coordinators, todo[c] # <<>>,
         phase[c] \in {"request", "vote"}
  PROVE  Call(c) \in Requests
<1>1. Head(todo[c]) \in Peers
  BY TodoType
<1>2. AttemptTerm(c) \in Terms
  BY SMTT(30), CoordinatorAssumption DEF TypeOK, AttemptTerm, Terms
<1> QED  BY <1>1, <1>2 DEF Call, Requests
-----------------------------------------------------------------------------
(* One lemma per action of a session, and of the failure of a peer: it keeps   *)
(* what the sessions keep.  What the peers keep changes only in Handle.        *)

LEMMA SendCallInv ==
  ASSUME SessionInv, NEW c \in Coordinators, SendCall(c)
  PROVE  SessionInv'
<1>1. TypeOK'
  BY CallType DEF SessionInv, TypeOK, SendCall, peerVars
<1>2. CallInv'
  BY DEF SessionInv, TypeOK, CallInv, SendCall
<1>3. CountedInv'
  BY DEF SessionInv, CountedInv, VotersOf, AttemptTerm, SendCall
<1>4. LeaderHasQuorum'
  BY DEF SessionInv, LeaderHasQuorum, SendCall
<1> QED
  BY <1>1, <1>2, <1>3, <1>4 DEF SessionInv

LEMMA ReturnInv ==
  ASSUME SessionInv, NEW c \in Coordinators, Return(c)
  PROVE  SessionInv'
<1>1. Head(todo[c]) \in Peers /\ Tail(todo[c]) \in Seq(Peers)
  BY TodoType DEF SessionInv, CallInv, Return
<1>2. TypeOK'
  <2>1. todo' \in [Coordinators -> Seq(Peers)]
    BY <1>1 DEF SessionInv, TypeOK, Return
  <2>2. granted' \in [Coordinators -> Seq(Peers)]
    <3>1. Append(granted[c], Head(todo[c])) \in Seq(Peers)
      BY <1>1 DEF SessionInv, TypeOK
    <3> QED  BY <3>1 DEF SessionInv, TypeOK, Return
  <2>3. votes' \in [Coordinators -> SUBSET Peers]
    BY <1>1 DEF SessionInv, TypeOK, Return
  <2>4. waiting' \in [Coordinators -> BOOLEAN]
        /\ reply' \in [Coordinators -> {"none", "yes", "no"}]
    BY DEF SessionInv, TypeOK, Return
  <2> QED
    BY <2>1, <2>2, <2>3, <2>4 DEF SessionInv, TypeOK, Return, peerVars
<1>3. CallInv'
  BY DEF SessionInv, TypeOK, CallInv, Return
<1>4. CountedInv'
  <2>1. reply'[c] = "none" /\ try' = try /\ cast' = cast /\ phase' = phase
    BY DEF SessionInv, TypeOK, Return
  <2>2. votes'[c] \subseteq VotersOf(c, AttemptTerm(c))
    BY DEF SessionInv, TypeOK, CountedInv, Return
  <2>3. \A d \in Coordinators : d # c =>
          votes'[d] = votes[d] /\ reply'[d] = reply[d] /\ todo'[d] = todo[d]
    BY DEF SessionInv, TypeOK, Return
  <2> QED
    BY <2>1, <2>2, <2>3 DEF SessionInv, CountedInv, VotersOf, AttemptTerm
<1>5. LeaderHasQuorum'
  BY DEF SessionInv, TypeOK, CallInv, LeaderHasQuorum, Return
<1> QED
  BY <1>2, <1>3, <1>4, <1>5 DEF SessionInv

LEMMA CallFailsInv ==
  ASSUME SessionInv, NEW c \in Coordinators, CallFails(c)
  PROVE  SessionInv'
<1>1. Head(todo[c]) \in Peers /\ Tail(todo[c]) \in Seq(Peers)
  BY TodoType DEF SessionInv, CallInv, CallFails
<1>2. TypeOK'
  <2>1. todo' \in [Coordinators -> Seq(Peers)]
    BY <1>1 DEF SessionInv, TypeOK, CallFails
  <2>2. phase' \in [Coordinators -> Phases]
    BY DEF SessionInv, TypeOK, CallFails, Phases
  <2>3. timeouts' \in 0..MaxTimeouts
    BY BoundAssumption DEF SessionInv, TypeOK, CallFails
  <2>4. waiting' \in [Coordinators -> BOOLEAN]
        /\ reply' \in [Coordinators -> {"none", "yes", "no"}]
    BY DEF SessionInv, TypeOK, CallFails
  <2> QED
    BY <2>1, <2>2, <2>3, <2>4 DEF SessionInv, TypeOK, CallFails, peerVars
<1>3. CallInv'
  BY DEF SessionInv, TypeOK, CallInv, CallFails
<1>4. CountedInv'
  BY DEF SessionInv, TypeOK, CountedInv, VotersOf, AttemptTerm, CallFails
<1>5. LeaderHasQuorum'
  BY DEF SessionInv, TypeOK, LeaderHasQuorum, CallFails
<1> QED
  BY <1>2, <1>3, <1>4, <1>5 DEF SessionInv

LEMMA StartVotesInv ==
  ASSUME SessionInv, NEW c \in Coordinators, StartVotes(c)
  PROVE  SessionInv'
<1>1. reply[c] = "none"
  BY DEF SessionInv, CallInv, StartVotes
<1>2. TypeOK'
  BY DEF SessionInv, TypeOK, StartVotes, peerVars, Phases
<1>3. CallInv'
  BY DEF SessionInv, TypeOK, CallInv, StartVotes
<1>4. CountedInv'
  BY <1>1 DEF SessionInv, TypeOK, CountedInv, VotersOf, AttemptTerm, StartVotes
<1>5. LeaderHasQuorum'
  BY DEF SessionInv, TypeOK, LeaderHasQuorum, StartVotes
<1> QED
  BY <1>2, <1>3, <1>4, <1>5 DEF SessionInv

LEMMA WinInv ==
  ASSUME SessionInv, NEW c \in Coordinators, Win(c)
  PROVE  SessionInv'
<1>1. TypeOK'
  BY DEF SessionInv, TypeOK, Win, peerVars, callVars, Phases
<1>2. CallInv'
  BY DEF SessionInv, TypeOK, CallInv, Win, callVars
<1>3. CountedInv'
  BY DEF SessionInv, TypeOK, CountedInv, VotersOf, AttemptTerm, Win, callVars
<1>4. LeaderHasQuorum'
  BY DEF SessionInv, TypeOK, LeaderHasQuorum, Win, callVars
<1> QED
  BY <1>1, <1>2, <1>3, <1>4 DEF SessionInv

LEMMA RetryInv ==
  ASSUME SessionInv, NEW c \in Coordinators, Retry(c)
  PROVE  SessionInv'
<1>1. reply[c] = "none"
  BY DEF SessionInv, CallInv, Retry
<1>2. TypeOK'
  <2>1. try' \in [Coordinators -> 0..MaxElectionAttempts-1]
    <3>1. try[c] \in 0..MaxElectionAttempts-1 /\ try[c] + 1 # MaxElectionAttempts
      BY DEF SessionInv, TypeOK, Retry, LastAttempt
    <3>2. try[c] + 1 \in 0..MaxElectionAttempts-1
      BY SMTT(30), <3>1, CoordinatorAssumption
    <3> QED
      BY <3>2 DEF SessionInv, TypeOK, Retry
  <2>2. phase' \in [Coordinators -> Phases]
    BY DEF SessionInv, TypeOK, Retry, Phases
  <2>3. todo' \in [Coordinators -> Seq(Peers)] /\ granted' \in [Coordinators -> Seq(Peers)]
    BY CoordinatorAssumption DEF SessionInv, TypeOK, Retry
  <2>4. votes' \in [Coordinators -> SUBSET Peers]
    BY DEF SessionInv, TypeOK, Retry
  <2> QED
    BY <2>1, <2>2, <2>3, <2>4 DEF SessionInv, TypeOK, Retry, peerVars
<1>3. CallInv'
  BY DEF SessionInv, TypeOK, CallInv, Retry
<1>4. CountedInv'
  BY DEF SessionInv, TypeOK, CountedInv, VotersOf, AttemptTerm, Retry
<1>5. LeaderHasQuorum'
  BY DEF SessionInv, TypeOK, LeaderHasQuorum, Retry
<1> QED
  BY <1>2, <1>3, <1>4, <1>5 DEF SessionInv

LEMMA GiveUpInv ==
  ASSUME SessionInv, NEW c \in Coordinators, GiveUp(c)
  PROVE  SessionInv'
<1>1. TypeOK'
  BY DEF SessionInv, TypeOK, GiveUp, peerVars, callVars, Phases
<1>2. CallInv'
  BY DEF SessionInv, TypeOK, CallInv, GiveUp, callVars
<1>3. CountedInv'
  BY DEF SessionInv, TypeOK, CountedInv, VotersOf, AttemptTerm, GiveUp, callVars
<1>4. LeaderHasQuorum'
  BY DEF SessionInv, TypeOK, LeaderHasQuorum, GiveUp, callVars
<1> QED
  BY <1>1, <1>2, <1>3, <1>4 DEF SessionInv

LEMMA CrashInv ==
  ASSUME SessionInv, NEW p \in Peers, Crash(p)
  PROVE  SessionInv'
<1>1. TypeOK'
  BY DEF SessionInv, TypeOK, Crash, peerVars, callVars
<1>2. CallInv'
  BY DEF SessionInv, CallInv, Crash, callVars
<1>3. CountedInv'
  BY DEF SessionInv, CountedInv, VotersOf, AttemptTerm, Crash, callVars
<1>4. LeaderHasQuorum'
  BY DEF SessionInv, LeaderHasQuorum, Crash, callVars
<1> QED
  BY <1>1, <1>2, <1>3, <1>4 DEF SessionInv

LEMMA SessionStep ==
  ASSUME SessionInv, NEW c \in Coordinators, CoordinatorStep(c)
  PROVE  SessionInv'
BY SendCallInv, ReturnInv, CallFailsInv, StartVotesInv, WinInv, RetryInv, GiveUpInv
   DEF CoordinatorStep

\* A step that leaves cast and the peers alone keeps what is said of them.
LEMMA PeersUntouched ==
  ASSUME IInv, UNCHANGED <<peerVars, cast>>
  PROVE  PeerInv'
  BY DEF IInv, PeerInv, VoteBehindTerm, CastBehindVote, OneVotePerTerm, peerVars

\* A peer answers a request: a new vote is of a later term than all it has
\* recorded, because its last vote is behind its term and not of this term.
LEMMA HandleInv ==
  ASSUME IInv, NEW m \in net, Handle(m)
  PROVE  IInv'
<1>1. m \in Requests
  BY DEF IInv, SessionInv, PeerInv, TypeOK
<1>2. m.to \in Peers /\ m.from \in Coordinators /\ m.term \in Terms
  BY <1>1 DEF Requests
<1>3. m.term \in Nat /\ m.term >= 1
  BY <1>2, CoordinatorAssumption DEF Terms
<1>4. reply' \in [Coordinators -> {"none", "yes", "no"}]
  BY <1>2 DEF IInv, SessionInv, PeerInv, TypeOK, Handle, HandleRequestVote, HandleVote,
     Answer
<1>5. \A c \in Coordinators : reply'[c] # "none" => waiting[c]
  BY <1>2 DEF IInv, SessionInv, PeerInv, TypeOK, CallInv, Handle, HandleRequestVote,
     HandleVote, Answer
<1>6. CallInv'
  BY <1>5 DEF IInv, SessionInv, PeerInv, CallInv, Handle
<1>7. LeaderHasQuorum'
  BY DEF IInv, SessionInv, PeerInv, LeaderHasQuorum, Handle
<1>8. CASE HandleRequestVote(m)
  <2>1. TypeOK'
    BY <1>2, <1>3, <1>4, <1>8 DEF IInv, SessionInv, PeerInv, TypeOK, Handle,
       HandleRequestVote
  <2>2. VoteBehindTerm'
    <3>0. \A p \in Peers : term[p] \in Nat /\ votedIn[p] \in Nat
      BY PeerTerms DEF IInv, SessionInv, PeerInv
    <3>1. \A p \in Peers : term'[p] \in Nat /\ term'[p] >= term[p]
      <4>1. \/ term' = term
            \/ term' = [term EXCEPT ![m.to] = m.term] /\ m.term > term[m.to]
        BY <1>8 DEF HandleRequestVote, RequestVoteGranted
      <4>2. term \in [Peers -> Nat]
        BY DEF IInv, SessionInv, PeerInv, TypeOK
      <4> QED  BY <4>1, <4>2, <3>0, <1>2, <1>3
    <3>2. votedIn' = votedIn
      BY <1>8 DEF HandleRequestVote
    <3> QED
      BY <3>0, <3>1, <3>2 DEF IInv, SessionInv, PeerInv, VoteBehindTerm
  <2>3. CastBehindVote' /\ OneVotePerTerm'
    BY <1>8 DEF IInv, SessionInv, PeerInv, CastBehindVote, OneVotePerTerm, HandleRequestVote
  <2>4. \A c \in Coordinators :
          phase[c] = "vote" /\ reply'[c] = "yes" => reply[c] = "yes"
    BY <1>2, <1>8 DEF IInv, SessionInv, PeerInv, TypeOK, HandleRequestVote, Answer, Call
  <2>5. CountedInv'
    BY <2>4, <1>8 DEF IInv, SessionInv, PeerInv, CountedInv, VotersOf, AttemptTerm,
       Handle, HandleRequestVote
  <2> QED
    BY <2>1, <2>2, <2>3, <2>5, <1>6, <1>7 DEF IInv, SessionInv, PeerInv
<1>9. CASE HandleVote(m) /\ ~VoteAccepted(m.to, m.term)
  <2>1. TypeOK'
    BY <1>4, <1>9 DEF IInv, SessionInv, PeerInv, TypeOK, Handle, HandleVote
  <2>2. VoteBehindTerm' /\ CastBehindVote' /\ OneVotePerTerm'
    BY <1>9 DEF IInv, SessionInv, PeerInv, VoteBehindTerm, CastBehindVote, OneVotePerTerm,
       HandleVote
  <2>3. \A c \in Coordinators : reply'[c] = "yes" => reply[c] = "yes"
    BY <1>2, <1>9 DEF IInv, SessionInv, PeerInv, TypeOK, HandleVote, Answer
  <2>4. CountedInv'
    BY <2>3, <1>9 DEF IInv, SessionInv, PeerInv, CountedInv, VotersOf, AttemptTerm,
       Handle, HandleVote
  <2> QED
    BY <2>1, <2>2, <2>4, <1>6, <1>7 DEF IInv, SessionInv, PeerInv
<1>10. CASE HandleVote(m) /\ VoteAccepted(m.to, m.term)
  <2> DEFINE b == [peer |-> m.to, term |-> m.term, from |-> m.from]
  <2>1. /\ b \in Ballots
        /\ b.peer = m.to /\ b.term = m.term /\ b.from = m.from
    BY <1>2 DEF Ballots
  <2>2. /\ cast' = cast \cup {b}
        /\ votedIn' = [votedIn EXCEPT ![m.to] = m.term]
        /\ term' = term
        /\ m.term = term[m.to] /\ votedIn[m.to] # m.term
    BY <1>10 DEF HandleVote, VoteAccepted
  <2>3. votedIn[m.to] \in Int /\ votedIn[m.to] < m.term
    BY <2>2, <1>2, <1>3, PeerTerms DEF IInv, SessionInv, PeerInv, VoteBehindTerm
  <2>4. TypeOK'
    <3>1. votedIn' \in [Peers -> {0} \cup Terms]
      BY <2>2, <1>2 DEF IInv, SessionInv, PeerInv, TypeOK
    <3>2. DOMAIN voteFor' = Peers
      BY <1>10 DEF IInv, SessionInv, PeerInv, TypeOK, HandleVote
    <3>3. cast' \subseteq Ballots
      BY <2>1, <2>2 DEF IInv, SessionInv, PeerInv, TypeOK
    <3> QED
      BY <3>1, <3>2, <3>3, <2>2, <1>4 DEF IInv, SessionInv, PeerInv, TypeOK, Handle
  <2>5. VoteBehindTerm'
    BY <2>2, <1>2, <1>3 DEF IInv, SessionInv, PeerInv, TypeOK, VoteBehindTerm
  <2>6. \A d \in cast : d.peer = m.to => d.term < m.term
    <3>1. \A d \in cast : d.term \in Int /\ d.peer \in Peers
      BY CoordinatorAssumption DEF IInv, SessionInv, PeerInv, TypeOK, Ballots, Terms
    <3> QED
      BY <3>1, <2>3, <1>3 DEF IInv, SessionInv, PeerInv, CastBehindVote
  <2>7. CastBehindVote'
    <3> SUFFICES ASSUME NEW d \in cast' PROVE d.term <= votedIn'[d.peer]
      BY DEF CastBehindVote
    <3>1. d.term \in Int /\ d.peer \in Peers
      BY <2>4, CoordinatorAssumption DEF TypeOK, Ballots, Terms
    <3>2. CASE d.peer = m.to
      BY <3>1, <3>2, <2>1, <2>2, <2>6, <1>2, <1>3 DEF IInv, SessionInv, PeerInv, TypeOK
    <3>3. CASE d.peer # m.to
      BY <3>1, <3>3, <2>1, <2>2 DEF IInv, SessionInv, PeerInv, TypeOK, CastBehindVote
    <3> QED
      BY <3>2, <3>3
  <2>8. OneVotePerTerm'
    BY <2>1, <2>2, <2>6, <1>3 DEF IInv, SessionInv, PeerInv, OneVotePerTerm
  <2>9. CountedInv'
    <3> SUFFICES ASSUME NEW c \in Coordinators
                 PROVE  /\ votes'[c] \subseteq VotersOf(c, AttemptTerm(c))'
                        /\ phase'[c] = "vote" /\ reply'[c] = "yes"
                             => Head(todo'[c]) \in VotersOf(c, AttemptTerm(c))'
      BY DEF CountedInv
    <3>1. VotersOf(c, AttemptTerm(c)) \subseteq VotersOf(c, AttemptTerm(c))'
      BY <2>2 DEF VotersOf, AttemptTerm, Handle
    <3>2. reply'[c] = reply[c] \/ m = Call(c)
      BY <1>2, <1>10 DEF IInv, SessionInv, PeerInv, TypeOK, HandleVote, Answer
    <3>3. m = Call(c) =>
            m.to = Head(todo[c]) /\ m.from = c /\ m.term = AttemptTerm(c)
      BY DEF Call
    <3>4. m = Call(c) => Head(todo[c]) \in VotersOf(c, AttemptTerm(c))'
      BY <3>3, <2>1, <2>2, <1>2 DEF VotersOf, AttemptTerm, Handle
    <3> QED
      BY <3>1, <3>2, <3>4 DEF IInv, SessionInv, PeerInv, CountedInv, Handle
  <2> QED
    BY <2>4, <2>5, <2>7, <2>8, <2>9, <1>6, <1>7 DEF IInv, SessionInv, PeerInv
<1> QED
  BY <1>8, <1>9, <1>10 DEF Handle

LEMMA NextIInv == IInv /\ [Next]_vars => IInv'
<1> SUFFICES ASSUME IInv, [Next]_vars PROVE IInv'
  OBVIOUS
<1>1. ASSUME NEW c \in Coordinators, CoordinatorStep(c) PROVE IInv'
  <2>1. SessionInv'
    BY <1>1, SessionStep DEF IInv
  <2>2. PeerInv'
    BY <1>1, PeersUntouched
    DEF CoordinatorStep, SendCall, Return, CallFails, StartVotes, Win, Retry, GiveUp,
       callVars
  <2> QED  BY <2>1, <2>2 DEF IInv
<1>2. ASSUME NEW m \in net, Handle(m) PROVE IInv'
  BY <1>2, HandleInv
<1>3. ASSUME NEW p \in Peers, Crash(p) PROVE IInv'
  BY <1>3, CrashInv, PeersUntouched DEF IInv, Crash
<1>4. CASE UNCHANGED vars
  BY <1>4 DEF vars, IInv, SessionInv, PeerInv, TypeOK, CallInv, VoteBehindTerm,
     CastBehindVote,
              OneVotePerTerm, CountedInv, LeaderHasQuorum, VotersOf, AttemptTerm
<1> QED
  BY <1>1, <1>2, <1>3, <1>4 DEF Next
-----------------------------------------------------------------------------
\* The inductive invariant holds in every reachable state.
THEOREM Invariance == Spec => []IInv
<1> QED  BY InitIInv, NextIInv, PTL DEF Spec

\* Every variable keeps its type.
THEOREM TypeCorrect == Spec => []TypeOK
<1>1. IInv => TypeOK
  BY DEF IInv, SessionInv, PeerInv
<1> QED  BY <1>1, Invariance, PTL

\* A peer records at most one vote in a term (LocalElectionState.record_vote).
THEOREM VotesOncePerTerm == Spec => []OneVotePerTerm
<1>1. IInv => OneVotePerTerm
  BY DEF IInv, SessionInv, PeerInv
<1> QED  BY <1>1, Invariance, PTL

\* The votes a leader counted were recorded, and its voters' terms keep up.
THEOREM LeadersAreBacked == Spec => []LeaderIsBacked
<1>1. IInv => LeaderIsBacked
  <2> SUFFICES ASSUME IInv, NEW c \in Coordinators, NEW p \in votes[c]
               PROVE  /\ p \in VotersOf(c, AttemptTerm(c))
                      /\ term[p] >= AttemptTerm(c)
    BY DEF LeaderIsBacked
  <2> DEFINE b == [peer |-> p, term |-> AttemptTerm(c), from |-> c]
  <2>1. p \in VotersOf(c, AttemptTerm(c)) /\ p \in Peers /\ b \in cast
    BY DEF IInv, SessionInv, PeerInv, CountedInv, VotersOf
  <2>2. b.term <= votedIn[b.peer] /\ b.peer = p /\ b.term = AttemptTerm(c)
    BY <2>1 DEF IInv, SessionInv, PeerInv, CastBehindVote
  <2>3. votedIn[p] <= term[p] /\ votedIn[p] \in Int /\ term[p] \in Int
        /\ AttemptTerm(c) \in Int
    BY <2>1, CoordinatorAssumption DEF IInv, SessionInv, PeerInv, VoteBehindTerm, TypeOK,
       Terms, AttemptTerm
  <2> QED  BY <2>1, <2>2, <2>3
<1> QED  BY <1>1, Invariance, PTL

\* Which accepted fault bounds make quorums overlap: every one when N is odd, and
\* every one below the limit when N is even (types.py:214-245).
LEMMA FaultBoundsThatOverlap ==
  ASSUME NEW n \in Nat, NEW f \in Nat, ValidFaultBound(n, f),
         n % 2 = 1 \/ f < MaxFaults(n)
  PROVE  QuorumsOverlap(n, f)
BY DEF ValidFaultBound, MaxFaults, QuorumsOverlap, QuorumSize

\* When quorums overlap (R a strict majority), two sessions never lead in one term.
THEOREM AtMostOneLeader ==
  ASSUME QuorumsOverlap(N, F)
  PROVE  Spec => []ElectionSafety
<1>1. IInv => ElectionSafety
  <2> SUFFICES ASSUME IInv, NEW c \in Coordinators, NEW d \in Coordinators,
                      phase[c] = "leader", phase[d] = "leader", try[c] = try[d]
               PROVE  c = d
    BY DEF ElectionSafety
  <2>1. IsQuorum(votes[c], N, F) /\ IsQuorum(votes[d], N, F)
    BY DEF IInv, SessionInv, PeerInv, LeaderHasQuorum
  <2>2. votes[c] \in SUBSET Peers /\ votes[d] \in SUBSET Peers
    BY DEF IInv, SessionInv, PeerInv, TypeOK
  <2>3. votes[c] \cap votes[d] # {}
    BY <2>1, <2>2, PeersAssumption, QuorumsIntersect DEF N
  <2>4. PICK p \in Peers : p \in votes[c] /\ p \in votes[d]
    BY <2>2, <2>3
  <2>5. /\ [peer |-> p, term |-> AttemptTerm(c), from |-> c] \in cast
        /\ [peer |-> p, term |-> AttemptTerm(c), from |-> d] \in cast
    BY <2>4 DEF IInv, SessionInv, PeerInv, CountedInv, VotersOf, AttemptTerm
  <2> QED
    BY <2>5 DEF IInv, SessionInv, PeerInv, OneVotePerTerm
<1> QED  BY <1>1, Invariance, PTL

\* With an odd number of experts, whatever fault bound the session accepts, two
\* sessions never lead in one term.
THEOREM OddEnsemblesElectOne ==
  ASSUME N % 2 = 1
  PROVE  Spec => []ElectionSafety
<1>1. QuorumsOverlap(N, F)
  BY NType, PeersAssumption, FaultBoundsThatOverlap
<1> QED  BY <1>1, AtMostOneLeader

\* No step takes a peer back to an earlier term or to an earlier vote.
THEOREM PeersMoveForward == Spec => PeerMovesForward
<1> DEFINE Forward ==
      \A p \in Peers :
        /\ term'[p] >= term[p]
        /\ votedIn'[p] >= votedIn[p]
        /\ voteFor'[p] # voteFor[p] => votedIn'[p] > votedIn[p]
<1>1. IInv /\ [Next]_vars => [Forward]_vars
  <2> SUFFICES ASSUME IInv, Next PROVE Forward
    BY DEF vars
  <2>1. \A p \in Peers : term[p] \in Int /\ votedIn[p] \in Int
    BY PeerTerms DEF IInv, SessionInv, PeerInv
  <2>2. CASE UNCHANGED peerVars
    BY <2>1, <2>2 DEF peerVars
  <2>3. ASSUME NEW m \in net, Handle(m) PROVE Forward
    <3>1. m.to \in Peers /\ m.term \in Int
      BY CoordinatorAssumption DEF IInv, SessionInv, PeerInv, TypeOK, Requests, Terms
    <3>2. CASE HandleRequestVote(m)
      <4>1. \/ term' = term
            \/ term' = [term EXCEPT ![m.to] = m.term] /\ m.term > term[m.to]
        BY <3>2 DEF HandleRequestVote, RequestVoteGranted
      <4>2. votedIn' = votedIn /\ voteFor' = voteFor
        BY <3>2 DEF HandleRequestVote
      <4>3. term \in [Peers -> Nat]
        BY DEF IInv, SessionInv, PeerInv, TypeOK
      <4> QED  BY <4>1, <4>2, <4>3, <2>1, <3>1
    <3>3. CASE HandleVote(m)
      <4>1. VoteAccepted(m.to, m.term) => votedIn[m.to] < m.term
        BY <3>1, <2>1 DEF IInv, SessionInv, PeerInv, VoteBehindTerm, VoteAccepted
      <4> QED
        BY <4>1, <3>1, <3>3, <2>1 DEF IInv, SessionInv, PeerInv, TypeOK, HandleVote
    <3> QED  BY <2>3, <3>2, <3>3 DEF Handle
  <2> QED
    BY <2>2, <2>3 DEF Next, CoordinatorStep, SendCall, Return, CallFails, StartVotes,
       Win, Retry, GiveUp, Crash
<1> QED  BY <1>1, Invariance, PTL DEF Spec, PeerMovesForward
-----------------------------------------------------------------------------
(***************************************************************************)
(* What the sessions may rely on when the peers are threaded servers       *)
(* without a lock, for every set of peers, every number of sessions, calls *)
(* given up and crashes.  Two votes of a peer in one term are possible     *)
(* here (OneVotePerTerm fails), so the peers' part of the invariant of     *)
(* Election is gone; the sessions' part (SessionInv) stands alone.         *)
(***************************************************************************)

(***************************************************************************)
(* The inductive invariant: a thread that serves a Vote never reaches the  *)
(* statements of grant_request_vote, whose "yes" would record nothing.     *)
(***************************************************************************)
ThreadInv ==
    /\ threads \subseteq Threads
    /\ \A th \in threads :
           th.req.type = "vote" => th.at \in {"term_guard", "once_guard", "record"}

HttpInv == SessionInv /\ ThreadInv
-----------------------------------------------------------------------------
\* A session sees of a server only its answers: the other steps of a thread keep
\* what the sessions keep.
LEMMA AnswerKeepsSessions ==
  ASSUME SessionInv, NEW m \in Requests, NEW a \in {"yes", "no"}, Answer(m, a),
         UNCHANGED <<crashed, net, phase, try, todo, waiting, granted, votes, timeouts>>,
         term' \in [Peers -> Nat], votedIn' \in [Peers -> {0} \cup Terms],
         DOMAIN voteFor' = Peers, cast' \subseteq Ballots, cast \subseteq cast',
         a = "yes" /\ m.type = "vote" =>
             [peer |-> m.to, term |-> m.term, from |-> m.from] \in cast'
  PROVE  SessionInv'
<1>1. m.to \in Peers /\ m.from \in Coordinators
  BY DEF Requests
<1>2. reply' \in [Coordinators -> {"none", "yes", "no"}]
  BY <1>1 DEF SessionInv, TypeOK, Answer
<1>3. TypeOK'
  BY <1>2 DEF SessionInv, TypeOK
<1>4. CallInv'
  <2>1. \A c \in Coordinators : reply'[c] # "none" => waiting[c]
    BY <1>1 DEF SessionInv, TypeOK, CallInv, Answer
  <2> QED  BY <2>1 DEF SessionInv, CallInv
<1>5. LeaderHasQuorum'
  BY DEF SessionInv, LeaderHasQuorum
<1>6. CountedInv'
  <2> SUFFICES ASSUME NEW c \in Coordinators
               PROVE  /\ votes'[c] \subseteq VotersOf(c, AttemptTerm(c))'
                      /\ phase'[c] = "vote" /\ reply'[c] = "yes"
                           => Head(todo'[c]) \in VotersOf(c, AttemptTerm(c))'
    BY DEF CountedInv
  <2>1. VotersOf(c, AttemptTerm(c)) \subseteq VotersOf(c, AttemptTerm(c))'
    BY DEF VotersOf, AttemptTerm
  <2>2. reply'[c] = reply[c] \/ (m = Call(c) /\ reply'[c] = a)
    BY <1>1 DEF SessionInv, TypeOK, Answer
  <2>3. m = Call(c) =>
          /\ m.type = phase[c] /\ m.to = Head(todo[c]) /\ m.from = c
          /\ m.term = AttemptTerm(c)
    BY DEF Call
  <2>4. m = Call(c) /\ a = "yes" /\ phase[c] = "vote"
          => Head(todo[c]) \in VotersOf(c, AttemptTerm(c))'
    BY <2>3, <1>1 DEF VotersOf, AttemptTerm
  <2> QED  BY <2>1, <2>2, <2>4 DEF SessionInv, CountedInv
<1> QED  BY <1>3, <1>4, <1>5, <1>6 DEF SessionInv

\* The thread goes on to another statement, or ends.
LEMMA GoToKeeps ==
  ASSUME HttpInv, NEW th \in threads, NEW st \in Statements, GoTo(th, st),
         th.req.type = "vote" => st \in {"once_guard", "record"},
         UNCHANGED <<crashed, net, phase, try, todo, waiting, granted, votes, timeouts>>
  PROVE  HttpInv'
<1>1. th \in Threads /\ [th EXCEPT !.at = st] \in Threads
      /\ [th EXCEPT !.at = st].req = th.req /\ [th EXCEPT !.at = st].at = st
  BY DEF HttpInv, ThreadInv, Threads
<1>2. ThreadInv'
  BY <1>1 DEF HttpInv, ThreadInv, GoTo
<1>3. SessionInv'
  BY DEF HttpInv, SessionInv, TypeOK, CallInv, CountedInv, LeaderHasQuorum, VotersOf,
     AttemptTerm, GoTo, peerVars
<1> QED  BY <1>2, <1>3 DEF HttpInv

LEMMA ThreadStepInv ==
  ASSUME HttpInv, NEW th \in threads, ThreadStep(th)
  PROVE  HttpInv'
<1> DEFINE m == th.req
<1>1. m \in Requests /\ th.at \in Statements
  BY DEF HttpInv, ThreadInv, Threads
<1>2. m.to \in Peers /\ m.from \in Coordinators /\ m.term \in Terms /\ m.term \in Nat
  BY <1>1, CoordinatorAssumption DEF Requests, Terms
<1>3. UNCHANGED <<crashed, net, phase, try, todo, waiting, granted, votes, timeouts>>
  BY DEF ThreadStep
<1>4. m.type = "vote" => th.at \in {"term_guard", "once_guard", "record"}
  BY DEF HttpInv, ThreadInv
<1>5. TypeOK /\ SessionInv /\ ThreadInv
  BY DEF HttpInv, SessionInv
<1>6. ASSUME threads' = threads \ {th} PROVE ThreadInv'
  BY <1>5, <1>6 DEF ThreadInv
<1>7. ASSUME NEW st \in {"bump", "assign", "once_guard", "record"}, GoTo(th, st),
             m.type = "vote" => st \in {"once_guard", "record"}
      PROVE  HttpInv'
  BY <1>3, <1>7, GoToKeeps DEF Statements
<1>8. ASSUME NEW a \in {"yes", "no"}, Respond(th, a), UNCHANGED <<peerVars, cast>>,
             a = "yes" => m.type # "vote"
      PROVE  HttpInv'
  <2>1. Answer(m, a) /\ ThreadInv'
    BY <1>6, <1>8 DEF Respond
  <2>2. SessionInv'
    BY <1>1, <1>3, <1>5, <1>8, <2>1, AnswerKeepsSessions DEF TypeOK, peerVars
  <2> QED  BY <2>1, <2>2 DEF HttpInv
<1>9. CASE TryGrant(th)
  BY <1>4, <1>7, <1>8, <1>9 DEF TryGrant
<1>10. CASE BumpTest(th)
  BY <1>4, <1>7, <1>8, <1>10 DEF BumpTest
<1>11. CASE BumpAssign(th)
  <2>1. Answer(m, "yes") /\ ThreadInv' /\ m.type # "vote"
    BY <1>4, <1>6, <1>11 DEF BumpAssign, Respond
  <2>2. term' \in [Peers -> Nat] /\ UNCHANGED <<votedIn, voteFor, cast>>
    BY <1>2, <1>5, <1>11 DEF BumpAssign, TypeOK
  <2>3. SessionInv'
    BY <1>1, <1>3, <1>5, <2>1, <2>2, AnswerKeepsSessions DEF TypeOK
  <2> QED  BY <2>1, <2>3 DEF HttpInv
<1>12. CASE TermGuard(th)
  BY <1>7, <1>8, <1>12 DEF TermGuard
<1>13. CASE OnceGuard(th)
  BY <1>7, <1>8, <1>13 DEF OnceGuard
<1>14. CASE RecordVote(th)
  <2> DEFINE b == [peer |-> m.to, term |-> m.term, from |-> m.from]
  <2>1. Answer(m, "yes") /\ ThreadInv'
    BY <1>6, <1>14 DEF RecordVote, Respond
  <2>2. b \in Ballots
    BY <1>2 DEF Ballots
  <2>3. /\ votedIn' \in [Peers -> {0} \cup Terms] /\ DOMAIN voteFor' = Peers
        /\ term' = term
    BY <1>2, <1>5, <1>14 DEF RecordVote, TypeOK
  <2>4. cast' \subseteq Ballots /\ cast \subseteq cast' /\ b \in cast'
    BY <1>5, <1>14, <2>2 DEF RecordVote, TypeOK
  <2>5. SessionInv'
    BY <1>1, <1>3, <1>5, <2>1, <2>3, <2>4, AnswerKeepsSessions DEF TypeOK
  <2> QED  BY <2>1, <2>5 DEF HttpInv
<1> QED  BY <1>9, <1>10, <1>11, <1>12, <1>13, <1>14 DEF ThreadStep

LEMMA AcceptInv ==
  ASSUME HttpInv, NEW m \in net, Accept(m)
  PROVE  HttpInv'
<1>1. m \in Requests /\ net' \subseteq Requests
  BY DEF HttpInv, SessionInv, TypeOK, Accept
<1>2. ThreadInv'
  BY <1>1 DEF HttpInv, ThreadInv, Accept, Threads, Statements
<1>3. SessionInv'
  BY <1>1 DEF HttpInv, SessionInv, TypeOK, CallInv, CountedInv, LeaderHasQuorum, VotersOf,
     AttemptTerm, Accept, peerVars, callVars
<1> QED  BY <1>2, <1>3 DEF HttpInv

LEMMA HttpInitInv == HttpInit => HttpInv
BY InitIInv DEF HttpInit, HttpInv, ThreadInv, IInv

LEMMA HttpNextInv == HttpInv /\ [HttpNext]_httpVars => HttpInv'
<1> SUFFICES ASSUME HttpInv, [HttpNext]_httpVars PROVE HttpInv'
  OBVIOUS
<1>1. ASSUME NEW c \in Coordinators, HttpCoordinatorStep(c) PROVE HttpInv'
  BY <1>1, SessionStep DEF HttpCoordinatorStep, HttpInv, ThreadInv
<1>2. ASSUME NEW p \in Peers, CrashServer(p) PROVE HttpInv'
  BY <1>2, CrashInv DEF CrashServer, HttpInv, ThreadInv
<1>3. CASE UNCHANGED httpVars
  BY <1>3 DEF httpVars, vars, HttpInv, ThreadInv, SessionInv, TypeOK, CallInv, CountedInv,
     LeaderHasQuorum, VotersOf, AttemptTerm
<1> QED  BY <1>1, <1>2, <1>3, AcceptInv, ThreadStepInv DEF HttpNext

\* The sessions' invariant survives the threads.
THEOREM HttpInvariance == HttpSpec => []HttpInv
<1> QED  BY HttpInitInv, HttpNextInv, PTL DEF HttpSpec

\* However the handler threads of a peer interleave, a vote that a session counts was
\* recorded by that peer for that session and that term (election_http.py:42-73,
\* election.py:91-111).
THEOREM CountedVotesAreReal == HttpSpec => []CountedVotesWereRecorded
<1>1. HttpInv => CountedVotesWereRecorded
  BY DEF HttpInv, SessionInv, CountedInv, CountedVotesWereRecorded
<1> QED  BY HttpInvariance, <1>1, PTL
-----------------------------------------------------------------------------
(***************************************************************************)
(* No request is on its way twice.  A session calls each expert once in a  *)
(* broadcast, and the requests of its earlier broadcasts differ from the   *)
(* ones it can still send: they are of an earlier term, or of the same     *)
(* term and of the other type.                                             *)
(***************************************************************************)
\* The requests that a server has not answered yet.
Unanswered == net \cup {th.req : th \in threads}

\* The experts that c's current broadcast has not called yet.
Uncalled(c) == IF waiting[c] THEN Range(Tail(todo[c])) ELSE Range(todo[c])

PlanInv ==
    \A c \in Coordinators :
        /\ IsInjective(todo[c])
        /\ phase[c] = "request" =>
             IsInjective(granted[c]) /\ Range(granted[c]) \cap Range(todo[c]) = {}

\* m belongs to a broadcast that its session has left, or to a call already made.
CalledBefore(m) ==
    /\ m.term <= AttemptTerm(m.from)
    /\ m.term = AttemptTerm(m.from) /\ phase[m.from] = "request" => m.type = "request"
    /\ m.term = AttemptTerm(m.from) /\ m.type = phase[m.from] => m.to \notin Uncalled(m.from)

SentInv == \A m \in Unanswered : CalledBefore(m)

ServedOnce == \A th \in threads : th.req \notin net /\ th.req.to \notin crashed

CallsInv == PlanInv /\ SentInv /\ ServedOnce

LEMMA RestOfCalls ==
  ASSUME NEW S, NEW s \in Seq(S), s # <<>>
  PROVE  /\ Range(s) = {Head(s)} \cup Range(Tail(s))
         /\ IsInjective(s) => IsInjective(Tail(s)) /\ Head(s) \notin Range(Tail(s))
<1>1. /\ Len(s) \in Nat /\ Len(s) >= 1 /\ Head(s) = s[1]
      /\ Len(Tail(s)) = Len(s) - 1 /\ DOMAIN s = 1..Len(s) /\ DOMAIN Tail(s) = 1..Len(s)-1
  OBVIOUS
<1>2. \A i \in 1..Len(s)-1 : Tail(s)[i] = s[i + 1] /\ i + 1 \in 1..Len(s)
  BY <1>1
<1>3. Range(s) = {Head(s)} \cup Range(Tail(s))
  <2>1. \A x \in Range(s) : x \in {Head(s)} \cup Range(Tail(s))
    <3> SUFFICES ASSUME NEW i \in 1..Len(s), i # 1 PROVE s[i] \in Range(Tail(s))
      BY <1>1 DEF Range
    <3>1. i - 1 \in 1..Len(s)-1 /\ Tail(s)[i - 1] = s[(i - 1) + 1] /\ (i - 1) + 1 = i
      BY <1>1, <1>2
    <3> QED  BY <1>1, <3>1 DEF Range
  <2>2. \A x \in Range(Tail(s)) : x \in Range(s)
    BY <1>1, <1>2 DEF Range
  <2>3. Head(s) \in Range(s)
    BY <1>1 DEF Range
  <2> QED  BY <2>1, <2>2, <2>3
<1>4. ASSUME IsInjective(s) PROVE IsInjective(Tail(s)) /\ Head(s) \notin Range(Tail(s))
  <2>1. \A i, j \in 1..Len(s) : s[i] = s[j] => i = j
    BY <1>1, <1>4 DEF IsInjective
  <2>2. \A i, j \in 1..Len(s)-1 : Tail(s)[i] = Tail(s)[j] => i = j
    BY <1>2, <2>1
  <2>3. \A i \in 1..Len(s)-1 : Tail(s)[i] # Head(s)
    BY <1>1, <1>2, <2>1
  <2> QED  BY <1>1, <2>2, <2>3 DEF IsInjective, Range
<1> QED  BY <1>3, <1>4

LEMMA OneMoreGranted ==
  ASSUME NEW S, NEW s \in Seq(S), NEW e \in S, IsInjective(s), e \notin Range(s)
  PROVE  IsInjective(Append(s, e)) /\ Range(Append(s, e)) = Range(s) \cup {e}
<1> DEFINE t == Append(s, e)
<1>1. /\ Len(s) \in Nat /\ Len(t) = Len(s) + 1 /\ t[Len(s) + 1] = e
      /\ DOMAIN s = 1..Len(s) /\ DOMAIN t = 1..Len(s)+1
      /\ \A i \in 1..Len(s) : t[i] = s[i]
  OBVIOUS
<1>2. \A i \in 1..Len(s)+1 : i \in 1..Len(s) \/ i = Len(s) + 1
  BY <1>1
<1>3. 1..Len(s) \subseteq 1..Len(s)+1 /\ Len(s) + 1 \in 1..Len(s)+1
  BY <1>1
<1> HIDE DEF t
<1>4. \A i \in 1..Len(s) : t[i] # e
  BY <1>1 DEF Range
<1>5. \A i, j \in 1..Len(s)+1 : t[i] = t[j] => i = j
  BY <1>1, <1>2, <1>4 DEF IsInjective
<1>6. Range(t) = Range(s) \cup {e}
  BY <1>1, <1>2, <1>3 DEF Range
<1> QED  BY <1>1, <1>5, <1>6 DEF t, IsInjective

\* Each step of a session keeps its plan free of duplicates.
LEMMA PlanStep ==
  ASSUME SessionInv, PlanInv, NEW c \in Coordinators, CoordinatorStep(c)
  PROVE  PlanInv'
<1>0. TypeOK /\ CallInv
  BY DEF SessionInv
<1>1. todo[c] \in Seq(Peers) /\ granted[c] \in Seq(Peers)
  BY <1>0 DEF TypeOK
<1>2. todo[c] # <<>> => /\ Range(todo[c]) = {Head(todo[c])} \cup Range(Tail(todo[c]))
                        /\ IsInjective(Tail(todo[c])) /\ Head(todo[c]) \notin Range(Tail(todo[c]))
                        /\ Head(todo[c]) \in Peers
  BY <1>0, <1>1, RestOfCalls, TodoType DEF PlanInv
<1>3. CASE UNCHANGED <<todo, phase, granted>>
  BY <1>3 DEF PlanInv
<1>4. CASE Return(c)
  <2>1. /\ todo[c] # <<>> /\ phase' = phase
        /\ todo' = [todo EXCEPT ![c] = Tail(todo[c])]
        /\ \/ granted' = granted
           \/ phase[c] = "request"
              /\ granted' = [granted EXCEPT ![c] = Append(granted[c], Head(todo[c]))]
    BY <1>0, <1>4 DEF Return, CallInv
  <2>2. phase[c] = "request" =>
          /\ IsInjective(Append(granted[c], Head(todo[c])))
          /\ Range(Append(granted[c], Head(todo[c]))) = Range(granted[c]) \cup {Head(todo[c])}
    <3> SUFFICES ASSUME phase[c] = "request"
                 PROVE  /\ IsInjective(Append(granted[c], Head(todo[c])))
                        /\ Range(Append(granted[c], Head(todo[c])))
                             = Range(granted[c]) \cup {Head(todo[c])}
      OBVIOUS
    <3>1. IsInjective(granted[c]) /\ Head(todo[c]) \notin Range(granted[c])
      BY <1>2, <2>1 DEF PlanInv
    <3> QED  BY <1>1, <1>2, <2>1, <3>1, OneMoreGranted
  <2>3. todo'[c] = Tail(todo[c]) /\ \A d \in Coordinators : d # c => todo'[d] = todo[d]
    BY <1>0, <2>1 DEF TypeOK
  <2>4. \A d \in Coordinators : d # c => granted'[d] = granted[d]
    BY <1>0, <2>1 DEF TypeOK
  <2>5. \/ granted'[c] = granted[c]
        \/ phase[c] = "request" /\ granted'[c] = Append(granted[c], Head(todo[c]))
    BY <1>0, <2>1 DEF TypeOK
  <2> QED  BY <1>2, <2>1, <2>2, <2>3, <2>4, <2>5 DEF PlanInv
<1>5. CASE CallFails(c)
  <2>1. /\ todo[c] # <<>> /\ granted' = granted
        /\ \/ todo' = [todo EXCEPT ![c] = Tail(todo[c])] /\ phase' = phase
           \/ todo' = todo /\ phase' = [phase EXCEPT ![c] = "raised"]
    BY <1>0, <1>5 DEF CallFails, CallInv
  <2> QED  BY <1>0, <1>2, <2>1 DEF PlanInv, TypeOK
<1>6. CASE StartVotes(c)
  BY <1>0, <1>6 DEF StartVotes, PlanInv, TypeOK
<1>7. CASE Win(c) \/ GiveUp(c)
  BY <1>0, <1>7 DEF Win, GiveUp, callVars, PlanInv, TypeOK
<1>8. CASE Retry(c)
  <2>1. IsInjective(Experts[c])
    BY CoordinatorAssumption DEF IsInjective
  <2>2. IsInjective(<<>>) /\ Range(<<>>) = {}
    BY DEF IsInjective, Range
  <2> QED  BY <1>0, <1>8, <2>1, <2>2 DEF Retry, PlanInv, TypeOK
<1> QED
  BY <1>3, <1>4, <1>5, <1>6, <1>7, <1>8 DEF CoordinatorStep, SendCall

\* What CalledBefore says of c's requests, and of c's alone, depends on c.
LEMMA OthersCalledBefore ==
  ASSUME TypeOK, NEW c \in Coordinators, CoordinatorStep(c),
         NEW m \in Requests, m.from # c, CalledBefore(m)
  PROVE  CalledBefore(m)'
<1>1. m.from \in Coordinators
  BY DEF Requests
<1>2. UNCHANGED <<try[m.from], phase[m.from], todo[m.from], waiting[m.from]>>
  BY <1>1 DEF TypeOK, CoordinatorStep, SendCall, Return, CallFails, StartVotes, Win, Retry,
     GiveUp, callVars
<1> QED  BY <1>2 DEF CalledBefore, AttemptTerm, Uncalled

\* Whatever a session does next, the requests it has sent stay behind it.
LEMMA OwnCalledBefore ==
  ASSUME SessionInv, PlanInv, NEW c \in Coordinators, CoordinatorStep(c),
         NEW m \in Requests, m.from = c, CalledBefore(m)
  PROVE  CalledBefore(m)'
<1>0. TypeOK /\ CallInv /\ m.term \in Int /\ try[c] \in Int /\ AttemptTerm(c) \in Int
  <2>1. TypeOK /\ CallInv /\ m.term \in Terms
    BY DEF SessionInv, Requests
  <2>2. m.term \in Int /\ try[c] \in Int
    BY <2>1, CoordinatorAssumption DEF TypeOK, Terms
  <2> QED  BY <2>1, <2>2 DEF AttemptTerm
<1>1. todo[c] # <<>> => Range(todo[c]) = {Head(todo[c])} \cup Range(Tail(todo[c]))
  BY <1>0, RestOfCalls DEF TypeOK
<1>2. CASE SendCall(c)
  <2>1. /\ UNCHANGED <<try[c], phase[c], todo[c]>> /\ todo[c] # <<>>
        /\ ~waiting[c] /\ waiting'[c]
    BY <1>0, <1>2 DEF SendCall, TypeOK
  <2> QED  BY <1>1, <2>1 DEF CalledBefore, AttemptTerm, Uncalled
<1>3. CASE Return(c)
  <2>1. /\ UNCHANGED <<try[c], phase[c]>> /\ waiting[c] /\ ~waiting'[c]
        /\ todo'[c] = Tail(todo[c])
    BY <1>0, <1>3 DEF Return, TypeOK
  <2> QED  BY <2>1 DEF CalledBefore, AttemptTerm, Uncalled
<1>4. CASE CallFails(c)
  <2>1. /\ UNCHANGED try[c] /\ waiting[c] /\ ~waiting'[c]
        /\ \/ todo'[c] = Tail(todo[c]) /\ phase'[c] = phase[c]
           \/ phase'[c] = "raised"
    BY <1>0, <1>4 DEF CallFails, TypeOK
  <2>2. m.type # "raised"
    BY DEF Requests
  <2> QED  BY <2>1, <2>2 DEF CalledBefore, AttemptTerm, Uncalled
<1>5. CASE StartVotes(c)
  <2>1. UNCHANGED try[c] /\ phase[c] = "request" /\ phase'[c] = "vote"
    BY <1>0, <1>5 DEF StartVotes, TypeOK
  <2> QED  BY <2>1 DEF CalledBefore, AttemptTerm
<1>6. CASE Win(c) \/ GiveUp(c)
  <2>1. UNCHANGED try[c] /\ phase'[c] \notin {"request", "vote"}
    BY <1>0, <1>6 DEF Win, GiveUp, TypeOK
  <2>2. m.type \in {"request", "vote"}
    BY DEF Requests
  <2> QED  BY <2>1, <2>2 DEF CalledBefore, AttemptTerm
<1>7. CASE Retry(c)
  <2>1. AttemptTerm(c)' = AttemptTerm(c) + 1
    BY <1>0, <1>7 DEF Retry, TypeOK, AttemptTerm
  <2>2. m.term < AttemptTerm(c)'
    BY <1>0, <2>1 DEF CalledBefore
  <2> QED  BY <1>0, <2>1, <2>2 DEF CalledBefore
<1> QED
  BY <1>2, <1>3, <1>4, <1>5, <1>6, <1>7 DEF CoordinatorStep

LEMMA UnansweredType ==
  ASSUME TypeOK, ThreadInv
  PROVE  Unanswered \subseteq Requests
BY DEF TypeOK, ThreadInv, Threads, Unanswered

\* The only request a session's step adds is the call it makes, which is new.
LEMMA SessionSends ==
  ASSUME HttpInv, CallsInv, NEW c \in Coordinators, HttpCoordinatorStep(c)
  PROVE  SentInv' /\ ServedOnce'
<1>0. /\ TypeOK /\ SessionInv /\ CallInv /\ ThreadInv /\ PlanInv /\ SentInv /\ ServedOnce
      /\ CoordinatorStep(c) /\ threads' = threads
  BY DEF HttpInv, SessionInv, CallsInv, HttpCoordinatorStep
<1>1. \A m \in Unanswered : m \in Requests /\ CalledBefore(m) /\ CalledBefore(m)'
  BY <1>0, UnansweredType, OthersCalledBefore, OwnCalledBefore DEF SentInv
<1>2. CASE net' = net
  <2>1. Unanswered' = Unanswered /\ crashed' = crashed
    BY <1>0, <1>2 DEF Unanswered, CoordinatorStep, SendCall, Return, CallFails, StartVotes,
       Win, Retry, GiveUp
  <2> QED  BY <1>0, <1>1, <1>2, <2>1 DEF SentInv, ServedOnce
<1>3. CASE SendCall(c) /\ net' = net \cup {Call(c)}
  <2>1. /\ todo[c] \in Seq(Peers) /\ todo[c] # <<>> /\ phase[c] \in {"request", "vote"}
        /\ ~waiting[c] /\ waiting'[c] /\ UNCHANGED <<try, phase, todo, crashed>>
    BY <1>0, <1>3 DEF SendCall, TypeOK
  <2>2. /\ Head(todo[c]) \in Range(todo[c])
        /\ Head(todo[c]) \notin Range(Tail(todo[c]))
    BY <1>0, <2>1, RestOfCalls DEF PlanInv
  <2>3. /\ Call(c).type = phase[c] /\ Call(c).to = Head(todo[c]) /\ Call(c).from = c
        /\ Call(c).term = AttemptTerm(c)
    BY DEF Call
  <2>4. ~CalledBefore(Call(c))
    BY <2>1, <2>2, <2>3 DEF CalledBefore, Uncalled
  <2>5. Call(c) \notin Unanswered
    BY <1>1, <2>4
  <2>6. AttemptTerm(c)' = AttemptTerm(c) /\ AttemptTerm(c) \in Int
    BY <1>0, <2>1 DEF AttemptTerm, TypeOK
  <2>7. ASSUME NEW r, r = Call(c) PROVE CalledBefore(r)'
    <3>1. /\ r.from = c /\ r.term = AttemptTerm(c) /\ r.type = phase[c]
          /\ r.to = Head(todo[c])
      BY <2>3, <2>7
    <3>2. /\ r.term <= AttemptTerm(c)' /\ phase'[c] = r.type
          /\ Uncalled(c)' = Range(Tail(todo[c]))
      BY <2>1, <2>6, <3>1 DEF Uncalled
    <3> QED  BY <2>2, <3>1, <3>2 DEF CalledBefore
  <2>8. Unanswered' = Unanswered \cup {Call(c)}
    BY <1>0, <1>3 DEF Unanswered
  <2>9. \A m \in Unanswered' : CalledBefore(m)'
    BY <1>1, <2>7, <2>8
  <2>10. \A th \in threads : th.req # Call(c)
    BY <2>5 DEF Unanswered
  <2> QED  BY <1>0, <1>3, <2>1, <2>9, <2>10 DEF SentInv, ServedOnce
<1> QED
  BY <1>0, <1>2, <1>3 DEF CoordinatorStep, SendCall, Return, CallFails, StartVotes, Win,
     Retry, GiveUp

LEMMA SessionsStill ==
  ASSUME UNCHANGED <<phase, try, todo, waiting>>, NEW m, CalledBefore(m)
  PROVE  CalledBefore(m)'
BY DEF CalledBefore, AttemptTerm, Uncalled

\* A thread serves one request until it ends.
LEMMA ThreadKeepsRequest ==
  ASSUME ThreadInv, NEW th \in threads, ThreadStep(th)
  PROVE  \A t \in threads' : \E u \in threads : t.req = u.req
<1>1. th \in Threads
  BY DEF ThreadInv
<1>2. \A st : [th EXCEPT !.at = st].req = th.req
  BY <1>1 DEF Threads
<1>3. ASSUME NEW st, GoTo(th, st) PROVE \A t \in threads' : \E u \in threads : t.req = u.req
  BY <1>2, <1>3 DEF GoTo
<1>4. ASSUME NEW a, Respond(th, a) PROVE \A t \in threads' : \E u \in threads : t.req = u.req
  BY <1>4 DEF Respond
<1> QED
  BY <1>3, <1>4
  DEF ThreadStep, TryGrant, BumpTest, BumpAssign, TermGuard, OnceGuard, RecordVote

LEMMA CallsInvStep ==
  ASSUME HttpInv, CallsInv, HttpNext
  PROVE  CallsInv'
<1>0. SessionInv /\ TypeOK /\ ThreadInv /\ PlanInv /\ SentInv /\ ServedOnce
  BY DEF HttpInv, SessionInv, CallsInv
<1>1. ASSUME NEW c \in Coordinators, HttpCoordinatorStep(c) PROVE CallsInv'
  BY <1>0, <1>1, PlanStep, SessionSends DEF HttpCoordinatorStep, CallsInv
<1>2. ASSUME UNCHANGED <<phase, try, todo, waiting, granted>>,
             Unanswered' \subseteq Unanswered, ServedOnce'
      PROVE  CallsInv'
  <2>1. \A m \in Unanswered : CalledBefore(m)'
    BY <1>0, <1>2, SessionsStill DEF SentInv
  <2>2. PlanInv'
    BY <1>0, <1>2 DEF PlanInv
  <2> QED  BY <1>2, <2>1, <2>2 DEF CallsInv, SentInv
<1>3. ASSUME NEW m \in net, Accept(m) PROVE CallsInv'
  <2>1. PICK st : threads' = threads \cup {[req |-> m, at |-> st]}
    BY <1>3 DEF Accept
  <2>2. /\ net' = net \ {m} /\ m.to \notin crashed
        /\ UNCHANGED <<crashed, phase, try, todo, waiting, granted>>
    BY <1>3 DEF Accept, callVars
  <2>3. Unanswered' \subseteq Unanswered
    BY <2>1, <2>2 DEF Unanswered
  <2>4. ServedOnce'
    BY <1>0, <2>1, <2>2 DEF ServedOnce
  <2> QED  BY <1>2, <2>2, <2>3, <2>4
<1>4. ASSUME NEW th \in threads, ThreadStep(th) PROVE CallsInv'
  <2>1. \A t \in threads' : \E u \in threads : t.req = u.req
    BY <1>0, <1>4, ThreadKeepsRequest
  <2>2. UNCHANGED <<crashed, net, phase, try, todo, waiting, granted>>
    BY <1>4 DEF ThreadStep
  <2>3. Unanswered' \subseteq Unanswered
    BY <2>1, <2>2 DEF Unanswered
  <2>4. ServedOnce'
    BY <1>0, <2>1, <2>2 DEF ServedOnce
  <2> QED  BY <1>2, <2>2, <2>3, <2>4
<1>5. ASSUME NEW p \in Peers, CrashServer(p) PROVE CallsInv'
  <2>1. /\ threads' = {th \in threads : th.req.to # p} /\ net' = {m \in net : m.to # p}
        /\ crashed' = crashed \cup {p} /\ UNCHANGED <<phase, try, todo, waiting, granted>>
    BY <1>5 DEF CrashServer, Crash, callVars
  <2>2. Unanswered' \subseteq Unanswered /\ ServedOnce'
    BY <1>0, <2>1 DEF Unanswered, ServedOnce
  <2> QED  BY <1>2, <2>1, <2>2
<1> QED  BY <1>1, <1>3, <1>4, <1>5 DEF HttpNext

LEMMA CallsInvInit == HttpInit => CallsInv
<1> SUFFICES ASSUME HttpInit PROVE CallsInv
  OBVIOUS
<1>1. Unanswered = {} /\ ServedOnce
  BY DEF HttpInit, Init, Unanswered, ServedOnce
<1>2. PlanInv
  <2>1. \A c \in Coordinators : IsInjective(Experts[c])
    BY CoordinatorAssumption DEF IsInjective
  <2>2. IsInjective(<<>>) /\ Range(<<>>) = {}
    BY DEF IsInjective, Range
  <2> QED  BY <2>1, <2>2 DEF HttpInit, Init, PlanInv
<1> QED  BY <1>1, <1>2 DEF CallsInv, SentInv

\* No request is on its way twice, and none waits at, or is served by, a stopped peer.
LEMMA CallsInvariance == HttpSpec => []CallsInv
<1>1. HttpInv /\ CallsInv /\ [HttpNext]_httpVars => CallsInv'
  <2> SUFFICES ASSUME HttpInv, CallsInv, UNCHANGED httpVars PROVE CallsInv'
    BY CallsInvStep
  <2>1. Unanswered' = Unanswered /\ ServedOnce' /\ PlanInv'
    BY DEF httpVars, vars, Unanswered, CallsInv, ServedOnce, PlanInv
  <2>2. \A m \in Unanswered : CalledBefore(m)'
    BY SessionsStill DEF httpVars, vars, CallsInv, SentInv
  <2> QED  BY <2>1, <2>2 DEF CallsInv, SentInv
<1> QED  BY <1>1, CallsInvInit, HttpInvariance, PTL DEF HttpSpec

\* Every variable keeps its type; a request that a thread serves is not waiting to be
\* accepted as well, whatever calls were given up, and no thread runs on a stopped peer.
THEOREM HttpTypeCorrect == HttpSpec => []HttpTypeOK
<1>1. HttpInv /\ CallsInv => HttpTypeOK
  BY DEF HttpInv, SessionInv, ThreadInv, CallsInv, ServedOnce, HttpTypeOK
<1> QED  BY <1>1, CallsInvariance, HttpInvariance, PTL
-----------------------------------------------------------------------------
(***************************************************************************)
(* One session whose calls are never given up has at most one request      *)
(* unanswered, so that a peer runs at most one thread and nothing makes    *)
(* its tests stale: the threaded server implements the atomic peer.  The   *)
(* thread's answer is the step Handle; its other steps, and Accept,        *)
(* stutter.                                                                *)
(***************************************************************************)
\* The thread runs the handler of its request, and its passed tests still hold.
TestsHold(th) ==
    /\ th.at \in IF th.req.type = "request" THEN {"try_grant", "bump", "assign"}
                 ELSE {"term_guard", "once_guard", "record"}
    /\ th.at \in {"bump", "assign"} => RequestVoteGranted(th.req.to, th.req.term)
    /\ th.at = "once_guard" => th.req.term = term[th.req.to]
    /\ th.at = "record" => VoteAccepted(th.req.to, th.req.term)

\* m is the call that c waits for, and its peer runs.
IsOutstanding(c, m) ==
    m = Call(c) /\ waiting[c] /\ reply[c] = "none" /\ m.to \notin crashed

LoneInv(c) ==
    /\ \A m \in Unanswered : IsOutstanding(c, m)
    /\ \A t, u \in threads : t = u
    /\ \A th \in threads : TestsHold(th)

LEMMA TestsStillHold ==
  ASSUME UNCHANGED <<term, votedIn>>, NEW th, TestsHold(th)
  PROVE  TestsHold(th)'
BY DEF TestsHold, RequestVoteGranted, VoteAccepted

LEMMA StillOutstanding ==
  ASSUME NEW c, NEW m, IsOutstanding(c, m), m.to \notin crashed',
         UNCHANGED <<phase, try, todo, waiting, reply>>
  PROVE  IsOutstanding(c, m)'
BY DEF IsOutstanding, Call, AttemptTerm

\* With no late calls, only the refusal of a stopped peer makes a call fail, and such
\* a call has sent nothing: a session's step finds nothing unanswered.
LEMMA LoneSessionSteps ==
  ASSUME NEW c, Coordinators = {c}, MaxTimeouts = 0, HttpInv, CallsInv, LoneInv(c),
         HttpCoordinatorStep(c)
  PROVE  Unanswered = {} /\ LoneInv(c)'
<1>0. /\ TypeOK /\ CallInv /\ ThreadInv /\ CoordinatorStep(c) /\ threads' = threads
      /\ c \in Coordinators
  BY DEF HttpInv, SessionInv, HttpCoordinatorStep
<1>1. Unanswered = {}
  <2> SUFFICES ASSUME NEW m \in Unanswered PROVE FALSE
    OBVIOUS
  <2>1. m = Call(c) /\ waiting[c] /\ reply[c] = "none" /\ m.to \notin crashed
    BY DEF LoneInv, IsOutstanding
  <2>2. m.to = Head(todo[c])
    BY <2>1 DEF Call
  <2>3. todo[c] # <<>> /\ ~(timeouts < MaxTimeouts)
    BY <1>0, <2>1 DEF CallInv, TypeOK
  <2> QED
    BY <1>0, <2>1, <2>2, <2>3
    DEF CoordinatorStep, SendCall, Return, CallFails, StartVotes, Win, Retry, GiveUp
<1>2. threads = {} /\ net = {}
  BY <1>1 DEF Unanswered
<1>3. CASE net' = net
  BY <1>0, <1>2, <1>3 DEF LoneInv, Unanswered
<1>4. CASE SendCall(c) /\ net' = net \cup {Call(c)} /\ Head(todo[c]) \notin crashed
  <2>1. /\ UNCHANGED <<phase, try, todo, reply, crashed>> /\ ~waiting[c] /\ waiting'[c]
    BY <1>0, <1>4 DEF SendCall, TypeOK
  <2>2. reply[c] = "none"
    BY <1>0, <2>1 DEF CallInv
  <2>3. ASSUME NEW m \in Unanswered' PROVE IsOutstanding(c, m)'
    <3>1. m = Call(c)
      BY <1>0, <1>2, <1>4, <2>3 DEF Unanswered
    <3>2. m.to = Head(todo[c])
      BY <3>1 DEF Call
    <3>3. m = Call(c)'
      BY <2>1, <3>1 DEF Call, AttemptTerm
    <3> QED  BY <1>4, <2>1, <2>2, <3>2, <3>3 DEF IsOutstanding
  <2> QED  BY <1>0, <1>1, <1>2, <2>3 DEF LoneInv
<1> QED
  BY <1>0, <1>1, <1>3, <1>4 DEF CoordinatorStep, SendCall, Return, CallFails, StartVotes,
     Win, Retry, GiveUp

\* What a thread's step does: it passes a test and its peer is as before, or it answers.
LEMMA LoneThreadSteps ==
  ASSUME NEW c, Coordinators = {c}, HttpInv, CallsInv, LoneInv(c),
         NEW th \in threads, ThreadStep(th)
  PROVE  /\ LoneInv(c)'
         /\ \/ Unanswered' = Unanswered /\ UNCHANGED <<peerVars, reply, cast>>
            \/ Unanswered' = Unanswered \ {th.req}
               /\ (HandleRequestVote(th.req) \/ HandleVote(th.req))
<1>0. /\ threads = {th} /\ th \in Threads /\ TestsHold(th) /\ th.req \notin net
      /\ IsOutstanding(c, th.req) /\ th.req \in Requests
      /\ UNCHANGED <<crashed, net, phase, try, todo, waiting>>
      /\ TypeOK
  BY DEF HttpInv, SessionInv, ThreadInv, CallsInv, ServedOnce, LoneInv, Unanswered, Threads,
     ThreadStep
<1>1. net = {}
  <2> SUFFICES ASSUME NEW m \in net PROVE FALSE
    OBVIOUS
  <2>1. m = Call(c) /\ th.req = Call(c)
    BY <1>0 DEF LoneInv, Unanswered, IsOutstanding
  <2> QED  BY <1>0, <2>1
<1>2. ASSUME NEW st \in Statements, GoTo(th, st), TestsHold([th EXCEPT !.at = st])
      PROVE  LoneInv(c)' /\ Unanswered' = Unanswered /\ UNCHANGED <<peerVars, reply, cast>>
  <2>1. /\ threads' = {[th EXCEPT !.at = st]} /\ [th EXCEPT !.at = st].req = th.req
        /\ UNCHANGED <<peerVars, reply, cast>>
    BY <1>0, <1>2 DEF GoTo, Threads
  <2>2. Unanswered' = Unanswered
    BY <1>0, <2>1 DEF Unanswered
  <2>3. \A m \in Unanswered : IsOutstanding(c, m)'
    BY <1>0, <2>1, StillOutstanding DEF LoneInv, IsOutstanding
  <2>4. \A t \in threads' : TestsHold(t)'
    BY <1>2, <2>1, TestsStillHold DEF peerVars
  <2> QED  BY <2>1, <2>2, <2>3, <2>4 DEF LoneInv
<1>3. ASSUME NEW a, Respond(th, a)
      PROVE  LoneInv(c)' /\ Unanswered' = Unanswered \ {th.req} /\ Answer(th.req, a)
  BY <1>0, <1>1, <1>3 DEF Respond, LoneInv, Unanswered
<1>4. th.req.to \in Peers /\ th.req.type \in {"request", "vote"}
      /\ th.req.term \in Int /\ term[th.req.to] \in Int
  <2>1. th.req.to \in Peers /\ th.req.type \in {"request", "vote"} /\ th.req.term \in Terms
    BY <1>0 DEF Requests
  <2> QED  BY <1>0, <2>1, CoordinatorAssumption DEF TypeOK, Terms
<1>5. \A st : [th EXCEPT !.at = st].req = th.req /\ [th EXCEPT !.at = st].at = st
  BY <1>0 DEF Threads
<1>6. CASE TryGrant(th)
  <2>1. th.req.type = "request" /\ th.at = "try_grant"
    BY <1>0, <1>4, <1>6 DEF TestsHold, TryGrant
  <2>2. CASE RequestVoteGranted(th.req.to, th.req.term)
    <3>1. GoTo(th, "bump") /\ TestsHold([th EXCEPT !.at = "bump"])
      BY <1>5, <1>6, <2>1, <2>2 DEF TryGrant, TestsHold
    <3> QED  BY <1>2, <3>1 DEF Statements
  <2>3. CASE ~RequestVoteGranted(th.req.to, th.req.term)
    <3>1. Respond(th, "no") /\ UNCHANGED <<peerVars, cast>>
      BY <1>6, <2>3 DEF TryGrant
    <3> QED  BY <1>3, <2>1, <2>3, <3>1 DEF HandleRequestVote, peerVars
  <2> QED  BY <2>2, <2>3
<1>7. CASE BumpTest(th)
  <2>1. /\ th.req.type = "request" /\ RequestVoteGranted(th.req.to, th.req.term)
    BY <1>0, <1>4, <1>7 DEF TestsHold, BumpTest
  <2>2. GoTo(th, "assign") /\ TestsHold([th EXCEPT !.at = "assign"])
    BY <1>5, <1>7, <2>1 DEF BumpTest, TestsHold, RequestVoteGranted
  <2> QED  BY <1>2, <2>2 DEF Statements
<1>8. CASE BumpAssign(th)
  <2>1. /\ th.req.type = "request" /\ RequestVoteGranted(th.req.to, th.req.term)
    BY <1>0, <1>4, <1>8 DEF TestsHold, BumpAssign
  <2> QED  BY <1>3, <1>8, <2>1 DEF BumpAssign, HandleRequestVote
<1>9. CASE TermGuard(th)
  <2>1. th.req.type = "vote" /\ th.at = "term_guard"
    BY <1>0, <1>4, <1>9 DEF TestsHold, TermGuard
  <2>2. CASE th.req.term = term[th.req.to]
    <3>1. GoTo(th, "once_guard") /\ TestsHold([th EXCEPT !.at = "once_guard"])
      BY <1>5, <1>9, <2>1, <2>2 DEF TermGuard, TestsHold
    <3> QED  BY <1>2, <3>1 DEF Statements
  <2>3. CASE th.req.term # term[th.req.to]
    <3>1. Respond(th, "no") /\ UNCHANGED <<peerVars, cast>>
      BY <1>9, <2>3 DEF TermGuard
    <3> QED  BY <1>3, <2>1, <2>3, <3>1 DEF HandleVote, VoteAccepted, peerVars
  <2> QED  BY <2>2, <2>3
<1>10. CASE OnceGuard(th)
  <2>1. /\ th.req.type = "vote" /\ th.at = "once_guard" /\ th.req.term = term[th.req.to]
    BY <1>0, <1>4, <1>10 DEF TestsHold, OnceGuard
  <2>2. CASE votedIn[th.req.to] # th.req.term
    <3>1. GoTo(th, "record") /\ TestsHold([th EXCEPT !.at = "record"])
      BY <1>5, <1>10, <2>1, <2>2 DEF OnceGuard, TestsHold, VoteAccepted
    <3> QED  BY <1>2, <3>1 DEF Statements
  <2>3. CASE votedIn[th.req.to] = th.req.term
    <3>1. Respond(th, "no") /\ UNCHANGED <<peerVars, cast>>
      BY <1>10, <2>3 DEF OnceGuard
    <3> QED  BY <1>3, <2>1, <2>3, <3>1 DEF HandleVote, VoteAccepted, peerVars
  <2> QED  BY <2>2, <2>3
<1>11. CASE RecordVote(th)
  <2>1. th.req.type = "vote" /\ VoteAccepted(th.req.to, th.req.term)
    BY <1>0, <1>4, <1>11 DEF TestsHold, RecordVote
  <2> QED  BY <1>3, <1>11, <2>1 DEF RecordVote, HandleVote
<1> QED
  BY <1>6, <1>7, <1>8, <1>9, <1>10, <1>11 DEF ThreadStep

\* A request that a thread serves is as unanswered as one that waits in the backlog.
LEMMA AcceptKeepsUnanswered ==
  ASSUME NEW m \in net, Accept(m)
  PROVE  Unanswered' = Unanswered
<1>1. PICK st : threads' = threads \cup {[req |-> m, at |-> st]}
  BY DEF Accept
<1>2. net' = net \ {m}
  BY DEF Accept
<1>3. \A r : r \in Unanswered' => r \in Unanswered
  BY <1>1, <1>2 DEF Unanswered
<1>4. ASSUME NEW r \in Unanswered PROVE r \in Unanswered'
  <2>1. CASE r = m
    <3>1. [req |-> m, at |-> st] \in threads' /\ [req |-> m, at |-> st].req = m
      BY <1>1
    <3> QED  BY <2>1, <3>1 DEF Unanswered
  <2>2. CASE r # m
    BY <1>1, <1>2, <1>4, <2>2 DEF Unanswered
  <2> QED  BY <2>1, <2>2
<1> QED  BY <1>3, <1>4

LEMMA LoneInvInit ==
  ASSUME NEW c, HttpInit
  PROVE  LoneInv(c)
BY DEF HttpInit, Init, LoneInv, Unanswered

LEMMA LoneInvStep ==
  ASSUME NEW c, Coordinators = {c}, MaxTimeouts = 0, HttpInv, CallsInv, LoneInv(c),
         [HttpNext]_httpVars
  PROVE  LoneInv(c)'
<1>1. ASSUME NEW m \in net, Accept(m) PROVE LoneInv(c)'
  <2>1. /\ threads' = threads \cup {[req |-> m, at |-> IF m.type = "request" THEN "try_grant"
                                                       ELSE "term_guard"]}
        /\ UNCHANGED <<peerVars, crashed, phase, try, todo, waiting, reply>>
        /\ net' = net \ {m}
    BY <1>1 DEF Accept, callVars
  <2>2. Unanswered' = Unanswered
    BY <1>1, AcceptKeepsUnanswered
  <2>3. \A u \in Unanswered : IsOutstanding(c, u)'
    BY <2>1, StillOutstanding DEF LoneInv, IsOutstanding
  <2>4. threads = {}
    <3> SUFFICES ASSUME NEW th \in threads PROVE FALSE
      OBVIOUS
    <3>1. th.req = Call(c) /\ m = Call(c) /\ th.req \notin net
      BY DEF LoneInv, IsOutstanding, Unanswered, CallsInv, ServedOnce
    <3> QED  BY <3>1
  <2>5. \A th \in threads' : TestsHold(th)'
    BY <2>1, <2>4 DEF TestsHold
  <2> QED  BY <2>1, <2>2, <2>3, <2>4, <2>5 DEF LoneInv
<1>2. ASSUME NEW p \in Peers, CrashServer(p) PROVE LoneInv(c)'
  <2>1. /\ threads' = {th \in threads : th.req.to # p} /\ net' = {m \in net : m.to # p}
        /\ crashed' = crashed \cup {p}
        /\ UNCHANGED <<peerVars, phase, try, todo, waiting, reply>>
    BY <1>2 DEF CrashServer, Crash, callVars
  <2>2. \A m \in Unanswered' : m \in Unanswered /\ m.to # p
    BY <2>1 DEF Unanswered
  <2>3. \A m \in Unanswered' : IsOutstanding(c, m)'
    BY <2>1, <2>2, StillOutstanding DEF LoneInv, IsOutstanding
  <2>4. \A th \in threads' : TestsHold(th)'
    BY <2>1, TestsStillHold DEF LoneInv, peerVars
  <2> QED  BY <2>1, <2>3, <2>4 DEF LoneInv
<1>3. CASE UNCHANGED httpVars
  <2>1. /\ Unanswered' = Unanswered /\ threads' = threads
        /\ UNCHANGED <<term, votedIn, crashed, phase, try, todo, waiting, reply>>
    BY <1>3 DEF httpVars, vars, Unanswered
  <2>2. \A m \in Unanswered : IsOutstanding(c, m)'
    BY <2>1, StillOutstanding DEF LoneInv, IsOutstanding
  <2> QED  BY <2>1, <2>2, TestsStillHold DEF LoneInv
<1> QED
  BY <1>1, <1>2, <1>3, LoneSessionSteps, LoneThreadSteps DEF HttpNext

\* The instance computes what Election computes.
LEMMA SameOperators ==
  /\ \A S : Atomic!Cardinality(S) = Cardinality(S)
  /\ Atomic!N = N
  /\ \A S, n, f : Atomic!IsQuorum(S, n, f) <=> IsQuorum(S, n, f)
  /\ \A c, i : Atomic!CandidateAt(c, i) = CandidateAt(c, i)
<1>0. \A S : Atomic!Cardinality(S) = Cardinality(S)
  BY DEF Cardinality, Atomic!Cardinality
<1>1. Atomic!N = N
  BY <1>0 DEF N, Atomic!N
<1>2. \A S, n, f : Atomic!IsQuorum(S, n, f) <=> IsQuorum(S, n, f)
  BY <1>0 DEF IsQuorum, Atomic!IsQuorum, QuorumSize, Atomic!QuorumSize
<1>3. \A c, i : Atomic!CandidateAt(c, i) = CandidateAt(c, i)
  BY <1>1 DEF CandidateAt, Atomic!CandidateAt
<1> QED  BY <1>0, <1>1, <1>2, <1>3

\* The steps of the threaded server, as steps of the atomic peer.
LEMMA SessionStepIsAtomic ==
  ASSUME NEW c \in Coordinators, HttpCoordinatorStep(c)
  PROVE  Atomic!CoordinatorStep(c)
<1>1. CoordinatorStep(c) /\ threads' = threads
  BY DEF HttpCoordinatorStep
<1>2. CASE SendCall(c)
  BY <1>1, <1>2
  DEF SendCall, Atomic!CoordinatorStep, Atomic!SendCall, Call, Atomic!Call, AttemptTerm,
      Atomic!AttemptTerm, peerVars, Atomic!peerVars
<1>3. CASE Return(c)
  BY <1>1, <1>3
  DEF Return, Atomic!CoordinatorStep, Atomic!Return, peerVars, Atomic!peerVars
<1>4. CASE CallFails(c)
  BY <1>1, <1>4
  DEF CallFails, Atomic!CoordinatorStep, Atomic!CallFails, peerVars, Atomic!peerVars
<1>5. CASE StartVotes(c)
  BY <1>1, <1>5
  DEF StartVotes, Atomic!CoordinatorStep, Atomic!StartVotes, peerVars, Atomic!peerVars
<1>6. CASE Win(c)
  BY <1>1, <1>6, SameOperators
  DEF Win, Atomic!CoordinatorStep, Atomic!Win, peerVars, Atomic!peerVars, callVars,
      Atomic!callVars
<1>7. CASE Retry(c)
  BY <1>1, <1>7, SameOperators
  DEF Retry, Atomic!CoordinatorStep, Atomic!Retry, peerVars, Atomic!peerVars,
      LastAttempt, Atomic!LastAttempt
<1>8. CASE GiveUp(c)
  BY <1>1, <1>8, SameOperators
  DEF GiveUp, Atomic!CoordinatorStep, Atomic!GiveUp, peerVars, Atomic!peerVars, callVars,
      Atomic!callVars, LastAttempt, Atomic!LastAttempt
<1> QED
  BY <1>1, <1>2, <1>3, <1>4, <1>5, <1>6, <1>7, <1>8 DEF CoordinatorStep

LEMMA AnswerIsAtomic ==
  ASSUME NEW m \in Unanswered, m.to \notin crashed, Unanswered' = Unanswered \ {m},
         HandleRequestVote(m) \/ HandleVote(m),
         UNCHANGED <<crashed, phase, try, todo, waiting, granted, votes, timeouts>>
  PROVE  Atomic!Handle(m)
<1>1. \A a : Answer(m, a) => Atomic!Answer(m, a)
  BY DEF Answer, Atomic!Answer, Call, Atomic!Call, AttemptTerm, Atomic!AttemptTerm
<1>2. HandleRequestVote(m) => Atomic!HandleRequestVote(m)
  BY <1>1 DEF HandleRequestVote, Atomic!HandleRequestVote, RequestVoteGranted,
     Atomic!RequestVoteGranted
<1>3. HandleVote(m) => Atomic!HandleVote(m)
  BY <1>1, SameOperators DEF HandleVote, Atomic!HandleVote, VoteAccepted, Atomic!VoteAccepted
<1> QED  BY <1>2, <1>3 DEF Atomic!Handle, Unanswered

LEMMA CrashIsAtomic ==
  ASSUME NEW p \in Peers, CrashServer(p)
  PROVE  Atomic!Crash(p)
<1>1. Unanswered' = {m \in Unanswered : m.to # p}
  BY DEF CrashServer, Crash, Unanswered
<1>2. /\ p \notin crashed /\ Cardinality(crashed) < MaxCrashes /\ crashed' = crashed \cup {p}
      /\ UNCHANGED <<term, votedIn, voteFor, phase, try, todo, waiting, reply, granted, votes,
                     timeouts, cast>>
  BY DEF CrashServer, Crash, peerVars, callVars
<1> QED
  BY <1>1, <1>2, SameOperators DEF Atomic!Crash, Unanswered, Atomic!peerVars, Atomic!callVars

LEMMA StepIsAtomic ==
  ASSUME NEW c, Coordinators = {c}, HttpInv, CallsInv, LoneInv(c), [HttpNext]_httpVars
  PROVE  [Atomic!Next]_(Atomic!vars)
<1>1. ASSUME NEW d \in Coordinators, HttpCoordinatorStep(d) PROVE Atomic!Next
  BY <1>1, SessionStepIsAtomic DEF Atomic!Next
<1>2. ASSUME NEW p \in Peers, CrashServer(p) PROVE Atomic!Next
  BY <1>2, CrashIsAtomic DEF Atomic!Next
<1>3. ASSUME Unanswered' = Unanswered,
             UNCHANGED <<peerVars, crashed, phase, try, callVars, timeouts, cast>>
      PROVE  UNCHANGED Atomic!vars
  BY <1>3 DEF Atomic!vars, Unanswered, peerVars, callVars
<1>4. ASSUME NEW m \in net, Accept(m) PROVE UNCHANGED Atomic!vars
  <2>1. Unanswered' = Unanswered
    BY <1>4, AcceptKeepsUnanswered
  <2> QED  BY <1>3, <1>4, <2>1 DEF Accept
<1>5. ASSUME NEW th \in threads, ThreadStep(th) PROVE [Atomic!Next]_(Atomic!vars)
  <2>1. UNCHANGED <<crashed, net, phase, try, todo, waiting, granted, votes, timeouts>>
    BY <1>5 DEF ThreadStep
  <2>2. \/ Unanswered' = Unanswered /\ UNCHANGED <<peerVars, reply, cast>>
        \/ Unanswered' = Unanswered \ {th.req}
           /\ (HandleRequestVote(th.req) \/ HandleVote(th.req))
    BY <1>5, LoneThreadSteps
  <2>3. CASE Unanswered' = Unanswered /\ UNCHANGED <<peerVars, reply, cast>>
    BY <1>3, <2>1, <2>3 DEF callVars
  <2>4. CASE Unanswered' = Unanswered \ {th.req}
             /\ (HandleRequestVote(th.req) \/ HandleVote(th.req))
    <3>1. th.req \in Unanswered /\ th.req.to \notin crashed
      BY DEF Unanswered, CallsInv, ServedOnce
    <3>2. Atomic!Handle(th.req)
      BY <2>1, <2>4, <3>1, AnswerIsAtomic
    <3> QED  BY <3>1, <3>2 DEF Atomic!Next, Unanswered
  <2> QED  BY <2>2, <2>3, <2>4
<1>6. CASE UNCHANGED httpVars
  BY <1>6 DEF httpVars, vars, Atomic!vars
<1> QED  BY <1>1, <1>2, <1>4, <1>5, <1>6 DEF HttpNext

\* One session without late calls cannot tell the threaded server of election_http.py,
\* unlocked as it is, from a peer that handles each request in one step.
THEOREM Refinement ==
  ASSUME NEW c, Coordinators = {c}, MaxTimeouts = 0
  PROVE  HttpSpec => ImplementsElection
<1>1. HttpInit => LoneInv(c)
  BY LoneInvInit
<1>2. HttpInv /\ CallsInv /\ LoneInv(c) /\ [HttpNext]_httpVars => LoneInv(c)'
  BY LoneInvStep
<1>3. HttpInit => Atomic!Init
  BY DEF HttpInit, Init, Atomic!Init
<1>4. HttpInv /\ CallsInv /\ LoneInv(c) /\ [HttpNext]_httpVars
        => [Atomic!Next]_(Atomic!vars)
  BY StepIsAtomic
<1> QED
  BY <1>1, <1>2, <1>3, <1>4, HttpInvariance, CallsInvariance, PTL
  DEF HttpSpec, ImplementsElection, Atomic!Spec
=============================================================================
