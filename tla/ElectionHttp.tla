---------------------------- MODULE ElectionHttp ----------------------------
(***************************************************************************)
(* Election over aegean/election_http.py: each peer is a                   *)
(* ThreadingHTTPServer, so every POST runs in a thread of its own, on one  *)
(* LocalElectionState without a lock.  The coordinators are those of       *)
(* Election; the atomic Handle(m) becomes the reads and writes of          *)
(* grant_request_vote and record_vote, any two of which may interleave.    *)
(***************************************************************************)
EXTENDS Election

VARIABLE threads   \* handler threads: the request and the next statement

httpVars == <<vars, threads>>

Statements == {"try_grant", "bump", "assign", "term_guard", "once_guard", "record"}
Threads == [req : Requests, at : Statements]

\* What Election sees: a request in a running thread is not executed yet.
Atomic == INSTANCE Election WITH net <- net \cup {th.req : th \in threads}

HttpInit == Init /\ threads = {}
-----------------------------------------------------------------------------
\* Fault: the request stays in the backlog and is served once more.
AcceptKeepsRequest(m) ==
    /\ m \in net
    /\ m.to \notin crashed
    /\ threads' = threads \cup
         {[req |-> m, at |-> IF m.type = "request" THEN "try_grant" ELSE "term_guard"]}
    /\ UNCHANGED <<peerVars, crashed, net, phase, try, callVars, timeouts, cast>>

\* The server accepts the connection and starts a thread in do_POST.
Accept(m) ==
    /\ m \in net
    /\ m.to \notin crashed
    /\ net' = net \ {m}
    /\ threads' = threads \cup
         {[req |-> m, at |-> IF m.type = "request" THEN "try_grant" ELSE "term_guard"]}
    /\ UNCHANGED <<peerVars, crashed, phase, try, callVars, timeouts, cast>>

\* The thread evaluates a condition and goes on to the next statement.
GoTo(th, st) ==
    /\ threads' = (threads \ {th}) \cup {[th EXCEPT !.at = st]}
    /\ UNCHANGED <<peerVars, reply, cast>>

\* The thread writes its response and ends.
Respond(th, a) == threads' = threads \ {th} /\ Answer(th.req, a)

\* Fault: a request for the current term passes the guard as well.
TryGrantAtLeast(th) ==
    /\ th.at = "try_grant"
    /\ IF th.req.term >= term[th.req.to]
       THEN GoTo(th, "assign")
       ELSE Respond(th, "no") /\ UNCHANGED <<peerVars, cast>>

\* grant_request_vote: "if not self.try_grant_request_vote(msg): return False".
TryGrant(th) ==
    /\ th.at = "try_grant"
    /\ IF RequestVoteGranted(th.req.to, th.req.term)
       THEN GoTo(th, "bump")
       ELSE Respond(th, "no") /\ UNCHANGED <<peerVars, cast>>

\* bump_term: "if new_term > self.term"; the request is granted either way.
BumpTest(th) ==
    /\ th.at = "bump"
    /\ IF th.req.term > term[th.req.to]
       THEN GoTo(th, "assign")
       ELSE Respond(th, "yes") /\ UNCHANGED <<peerVars, cast>>

\* bump_term: "self.term = new_term".
BumpAssign(th) ==
    /\ th.at = "assign"
    /\ term' = [term EXCEPT ![th.req.to] = th.req.term]
    /\ Respond(th, "yes")
    /\ UNCHANGED <<votedIn, voteFor, cast>>

\* record_vote: "if msg.term != self.term: raise".
TermGuard(th) ==
    /\ th.at = "term_guard"
    /\ IF th.req.term = term[th.req.to]
       THEN GoTo(th, "once_guard")
       ELSE Respond(th, "no") /\ UNCHANGED <<peerVars, cast>>

\* record_vote: "if self.voted_in_term == msg.term: raise".
OnceGuard(th) ==
    /\ th.at = "once_guard"
    /\ IF votedIn[th.req.to] # th.req.term
       THEN GoTo(th, "record")
       ELSE Respond(th, "no") /\ UNCHANGED <<peerVars, cast>>

\* Fault: the handler answers 204 but does not store the vote.
RecordVoteForgets(th) ==
    /\ th.at = "record"
    /\ Respond(th, "yes")
    /\ UNCHANGED <<peerVars, cast>>

\* record_vote: the two assignments (last_vote_for is read by no code, so that
\* its own step would not be seen).
RecordVote(th) ==
    LET m == th.req IN
    /\ th.at = "record"
    /\ votedIn' = [votedIn EXCEPT ![m.to] = m.term]
    /\ voteFor' = [voteFor EXCEPT ![m.to] = CandidateAt(m.from, m.term - 1)]
    /\ cast' = cast \cup {[peer |-> m.to, term |-> m.term, from |-> m.from]}
    /\ Respond(th, "yes")
    /\ UNCHANGED term

ThreadStep(th) ==
    /\ \/ TryGrant(th) \/ BumpTest(th) \/ BumpAssign(th)
       \/ TermGuard(th) \/ OnceGuard(th) \/ RecordVote(th)
    /\ UNCHANGED <<crashed, net, phase, try, todo, waiting, granted, votes, timeouts>>

\* The process stops with its threads.
CrashServer(p) ==
    /\ Crash(p)
    /\ threads' = {th \in threads : th.req.to # p}
-----------------------------------------------------------------------------
HttpCoordinatorStep(c) == CoordinatorStep(c) /\ UNCHANGED threads

HttpNext ==
    \/ \E c \in Coordinators : HttpCoordinatorStep(c)
    \/ \E m \in net : Accept(m)
    \/ \E th \in threads : ThreadStep(th)
    \/ \E p \in Peers : CrashServer(p)

HttpSpec == HttpInit /\ [][HttpNext]_httpVars

HttpFairSpec ==
    /\ HttpSpec
    /\ \A c \in Coordinators : WF_httpVars(HttpCoordinatorStep(c))
    /\ \A m \in Requests : WF_httpVars(Accept(m))
    /\ WF_httpVars(\E th \in threads : ThreadStep(th))
-----------------------------------------------------------------------------
(* Properties.                                                             *)

HttpTypeOK ==
    /\ TypeOK
    /\ threads \subseteq Threads
    /\ \A th \in threads : th.req \notin net /\ th.req.to \notin crashed

\* Whatever the threads of a peer do to each other, a vote that a coordinator
\* counts was recorded by that peer for that coordinator and that term.
CountedVotesWereRecorded ==
    \A c \in Coordinators : votes[c] \subseteq VotersOf(c, AttemptTerm(c))

\* While no two calls overlap (one session, no call given up) the threaded server
\* is the atomic peer of Election: its reads and writes implement Handle(m).
ImplementsElection == Atomic!Spec
=============================================================================
