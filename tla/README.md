# TLA+ models of Aegean

Aegean (`src/aegean`) lets a handful of agents (language models, behind HTTP or TCP) agree on an
answer. A coordinator, `AegeanProtocol.execute`, elects a leader term, collects a solution of every
agent (Round 0, *Soln*), then shows everybody the collected set and collects refined answers (*Refm*),
round after round, until the same value has had `alpha` supporters in `beta` rounds. The ensemble is
fail-stop: at most `f` of `N` agents stop, and one threshold `R = N - f` serves the election, Soln and
Refm. `src/network-monitor` runs such sessions from a dashboard.

This directory holds the models of the protocol core, the TLC runs that check them, and proofs that
TLAPS checks. `PROJECT.json` maps every definition to the lines it stands for.

## 1. Inventory

| Part | State | Operations | Talks to |
|---|---|---|---|
| quorum arithmetic, `types.py` | none | fault bound, `R`, quorum test | all |
| peer, `election.py` `LocalElectionState` | `term`, `voted_in_term`, `last_vote_for` | `grant_request_vote`, `record_vote` | called by messengers, one object per peer |
| election call, `election_transport.py` | loop over experts, grants, votes | RequestVote to all, then Vote to those who granted | messenger: in process, or HTTP |
| HTTP peer, `election_http.py` | one `LocalElectionState`, no lock | `do_POST` in a thread per request | `HttpElectionMessenger` with a timeout |
| session, `protocol.py` `execute` | term, leader, refinement set, round, engine, tracks, rounds, `cancelled` | election loop, recovery, Soln, Refm rounds, commit, cancel | all of the above, agents in worker threads, event bus |
| round collection, `protocol.py` `_join_expert_futures` | futures, deadline, flag | submit, wait, give up, drain the pool | workers, `cancel()` from another thread |
| decision engine, `decision_engine.py` | candidate, count, term | `step`, `on_new_term` | session |
| round tracks, `refinement_state.py` | highest accepted round per agent | `try_accept_refm_broadcast` | workers |
| recovery acks, `election.py` | none | choice of the newest ack | `new_term_ack_provider` of the caller |
| commit semantics, `commit_semantics.py` | none | replay check of a result, certificate chains | offline |
| semantic equivalence, `semantic_equivalence.py` | tracked output and running score, ledger of conclusions, minority signals | decision step over clusters of embeddings, weighted stability, payload of a session without consensus | session, instead of the engine |
| task routing, events, trace, benchmark, logging | none that the protocol reads | building tasks, notifications, text | session |
| adapters, `adapters/` | none | one HTTP request per call | external models |
| dashboard runner, `runner.py` | `AgentRecoveryStore`: newest RefmSet per agent | `observe_task`, `ack_rows`, starting agents | session |
| TCP client, `tcp_session.py` | pending requests, reader thread, closed flag | connect, request, reader loop, close | agents, run control (close) |
| run control, `viz_session.py` | `_running`, `_cancel_requested`, `_cancel_active` | `submit_run`, `cancel_run`, the worker thread of a run | HTTP server threads, runner, dashboard state |
| dashboard state, `state.py`, `bus.py` | status, result, certificate, traces, progress of the latest run | `reset`, `set_run_status`, `finalize`, `worker_trace`, event handlers | event bus, agents' servers, browser |
| dashboard server, page | none | GET of the state, POST of a run or a cancel | browser |

What is hard in this system, and what makes each part correct:

* *Several sessions on the same peers* (a custom `election_messenger`): votes arrive after the peer has
  moved on. Correct if a peer votes once per term, its term never decreases, a leader holds a quorum of
  votes cast for it, and two quorums meet.
* *The threaded peer*: two handlers interleave between a read and a write of the same state. Correct if
  a vote that is counted is one that was recorded; if calls do not overlap, if it is the atomic peer.
* *Timeouts, stopped peers, persisted terms*: a call given up may still be executed. Correct if every
  election ends, and succeeds when it has the peers to itself.
* *Worker threads, deadline, cancel*: Correct if no call outlives its round, late answers are not
  counted, the flag stops further rounds, and the session ends.
* *Rounds without a quorum, late leaders, stale tracks, recovery*: Correct if the agents are always shown
  the last set that had a quorum, a commit is backed by `alpha` supporters in each of the last `beta`
  rounds with a quorum, its certificate tells the truth, and the reason of an ending fits its rounds.
* *A connection with three threads* (the TCP client): the worker that waits, the reader, `close()` from
  the thread that cancels. Correct if a call gets its own answer or an end, an answer that has arrived is
  not lost when the agent hangs up, nothing is left behind in the maps, and `close()` leaves nobody waiting.
* *One counter in place of a history* (the engine): correct if it decides as the history would.
* *Weights in place of counts* (semantic mode): the tracker follows outputs, the accumulator conclusions,
  and the prompt of a round is told from the decision before it, however many rounds without quorum lie
  between. Correct if the score is that of the last run of one output, if the ledger holds all rounds
  that chose, weights of either sign included, and if what the agents are told is of one piece.
* *A run and those who cancel it*: a cancel arrives before there is anything to cancel, while the worker
  reports, or when the next run has begun. Correct if it meets the run it was sent for, if what is shown
  is true of the run that owns the view, and if everybody gets done.

The full list, with lines and the properties aimed at each, is under `hazards` in `PROJECT.json`.

## 2. Modules

```
AegeanQuorum      R = N - f                      (pure)
  Election        peers, sessions, retry loop     <- Election_proofs, MCElection
    ElectionHttp  threads of the HTTP peer        <- Election_proofs, MCElectionHttp
                                                     implements Election (lone session)
DecisionRule      one engine step                (pure)  <- DecisionRule_proofs
  DecisionEngine  the engine, any inputs          <- DecisionEngine_proofs, MCDecisionEngine
                                                     implements BetaStability
  Aegean          a session, one step per round   <- Aegean_proofs, MCAegean
                  (with AegeanQuorum)                implements BetaStability
BetaStability     abstract: commit when the last beta candidates agree
SemanticStability refinement rounds by clusters   <- SemanticStability_proofs, MCSemanticStability
                                                     implements WeightedStability
WeightedStability abstract: commit when the last choices of one output weigh enough
RoundCollection   threads of a round              <- RoundCollection_proofs, MCRoundCollection
                                                     implements AtomicRounds
AtomicRounds      abstract: a round is one step, cancel() meets it as a whole
TcpSession        threads of a connection         <- TcpSession_proofs, MCTcpSession
RunControl        runs of the dashboard           <- RunControl_proofs, MCRunControl
```

`Aegean` takes from `Election` its outcome (leader and term of some attempt, or failure) and from
`RoundCollection` its outcome (any subset of answers, a deadline flag, cancelled or not); those two
modules check what `Aegean` leaves open. The grains are not composed: together the state space is
out of reach, and the interfaces are narrow. The one between a session and its rounds is stated as a
specification of its own, `AtomicRounds`, which `RoundCollection` implements (run `round_collection`,
theorem `Refinement`). Its steps are those `Aegean` takes:

| `AtomicRounds` | `Aegean` | what the threads have to ensure |
|---|---|---|
| `Join` | `Join`, guarded by `MayJoin` | no round begins once the flag is set; one whose join has found it unset may bring answers |
| `Accept`, `Reached` | `Willing`, `BroadcastAccepted` | an agent that answers in a refinement round had not accepted a later broadcast, and has accepted this one |
| `Rows` | `Answers`, `WallTimeouts` | any subset of the agents reached, all at once; a timed out round misses somebody |
| `Decide` | `SolnRound`, `NoRefmQuorum`, `RefmQuorum`, `OutOfRounds` | the rows of a round are used in that round only |
| `JoinCancelled` | `JoinCancelled` | a round is dropped for `cancel()` and for nothing else |

The correspondence of the second and third columns is by reading, the two modules share no variables. `Aegean`
moves the tracks of all willing agents with the round, `AtomicRounds` those of the threads that began; an
agent whose thread had not begun keeps its older track, at most the current round, so that it is willing in every
later round of the session, in either model.

Definitions headed `Fault:` are not part of the models. Each is a wrong version of the definition below
it, the kind of slip a change of the code could make, and shows that the property paired with it in
`PROJECT.json` (`mutants`) would notice.

### Election

State: `term`, `votedIn`, `voteFor` are the fields of `LocalElectionState`; `phase`, `try`, `todo`,
`waiting`, `reply`, `granted`, `votes` are the local variables of the loops in `execute` and
`run_election_with_messenger`, per session; `net` holds requests on their way. `cast` is a history of
recorded votes. Sessions call one expert after the other (`SendCall`, `Return`), first `request_vote`,
then `record_vote` (`StartVotes`); `Win`, `Retry`, `GiveUp` are the three outcomes of an attempt. A call
fails (`CallFails`) because the peer has stopped or by a timeout; a request given up stays in `net` and
may be executed later. `request_vote` failures count as refusals, `record_vote` failures leave `execute`
(`raised`), as in the code. Peers execute a request atomically (`Handle`).

The candidate of attempt `i` is `experts[(leader_idx + i) % n]`, its term `i + 1`. `LeaderIdx` stands
for the hash of `select_leader`, which depends on the ids only.

`voted_in_term` is a second guard: `grant_request_vote` accepts strictly higher terms only, so in this
model a peer is asked twice for a vote of one term only by two sessions, one of which was refused the
request. Several of the properties would survive the loss of one of the two guards.

### ElectionHttp

Same sessions; `Handle` becomes `Accept` (a thread starts) and one step per read or write of the shared
fields: `TryGrant`, `BumpTest`, `BumpAssign`, `TermGuard`, `OnceGuard`, `RecordVote`. The two
assignments of `record_vote` are one step, since nobody reads the second field. A stopped server takes
its threads along.

### DecisionRule, DecisionEngine, BetaStability

`DecisionRule` is `DecisionEngine.step` without its state: clusters of equal outputs of size `alpha`
that meet the previous set, least by sort key, count, commit. Outputs are numbers in the order of
`_sort_key`. `DecisionEngine` keeps candidate, count and term and is called with any previous set and
any outputs. `BetaStability` is what it promises: remember every candidate, commit exactly when the
last `beta` are the same value. The values in `Fleeting` start anew whenever they are chosen, so that they are
stable at once (`beta = 1`) or never; the code has one, `None`, which is also its mark of no candidate.

### Aegean

State: the local variables of `execute` (names as there, `bar` is `broadcast_bar`, `track` the round
tracks), the two fields of the engine, the `rounds` of the result. One action per stage: `Start`,
`Elect`/`ElectionFails`, `NothingToRecover`/`Recover`, `Join` (the workers run and the coordinator
waits) or `JoinCancelled`, `SolnRound`, `NoRefmQuorum` or `RefmQuorum`, `OutOfRounds`, and `Cancel` from
outside at any moment. `Answers` is the set of partial functions from agents to outputs that a join may
produce: agents of `MayFail` may be missing, which stands for late, raised, `ok=False`, wrong shape, low
confidence or, in Refm, refused by the round track. The early exit of `early_termination` needs a
rejecting vote; the workers return accepting and timeout votes only, so it is not an action.

### RoundCollection

Threads, at the grain of what they share: futures, the join loop with its `not_done` set, the deadline,
the flag, the pool's wait for its workers, the round track asked by each worker, calls of agents in
progress. The join loop is in one of three places: before its look at the flag (`Look`, or `LoopLeft` when
nobody is missing or the flag is set), between the look and the clock (`Wait`, or `TimeIsUp`), and in `wait`
(`WaitReturns`); `cancel()`, the deadline and the workers may come in at each of them. A join that finds its time up
counts as timed out, not as cancelled, even if the flag was set a moment before. What the session decides from
the rows is left open (`Evaluate` goes on or ends). The history variables are `late`, the agents that returned
since the last `wait`, and `looked`, whether this join has found the flag unset, from which on the round can bring rows.

### TcpSession

One `TcpSessionClient`. The worker's `request` is `Request`, `OpenSocket`, `StartReader` (or
`ConnectRefused`), `Register`, `Write`, then `Collect`, or `WaitExpires` and `TimedOut`. One worker is
enough: a round waits for its workers (`NoStraggler` of `RoundCollection`, proved), so a client never
serves two calls at a time. The reader loop is `ReaderChecks`, `ReaderDelivers`, and its two ways out,
`ReaderMeetsEof` and `ReaderFails`; the second includes the timeout that the socket inherits from
`create_connection`. `close()` is a step for the flag, the shutdown, the file and the maps, each of which
can fall between two steps of the others, `connect` included. `events`, `pending` and `errors` are the
three dictionaries, `woken` the state of the `Event`s. The agent serves a connection in order and may
close it; the link may break. Frames are whole: a frame cut short is an end of the stream, a malformed
one an exception of the reader. What `request` raises is `ok=False` for the protocol (`_TcpAgent`), a
"failed" answer in `RoundCollection`.

### SemanticStability, WeightedStability

The refinement loop when `semantic_equivalence` is on: `NoRefmQuorum`, `RefmQuorum` (whose effect is `Decide`), `OutOfRounds`,
`Cancelled`. `score` and `tracked` are the stability tracker, `ledger` and `minority` the accumulator,
`dissent` and `reference` what the next prompt is built from. `SemanticStep` is
`run_semantic_decision_step`: a dominant cluster of at least `alpha`, its members whose conclusion is in
circulation, the one most similar to its group, or a round that is skipped. Conclusions are numbers with
a table of similarities, so that paraphrases (two outputs, one conclusion) and neighbours (two
conclusions, above `r_bar_similarity_threshold`) occur. Cosines are not clamped in the code, so
similarities run from `-Unit` to `Unit`, and the weight of a round can be negative; the thresholds and
`alpha` are any whole numbers, as nothing validates them. HDBSCAN may return *any* labelling that respects
the minimum cluster size, noise included: what is checked does not depend on how good it is. Scores
are whole numbers in units of `1 / (Unit * N)`; the similarities of the instance are even and groups have three members
at most, so that no mean is rounded. `WeightedStability` keeps every
choice with its weight and decides when the run at the end weighs `stability_score_threshold`.
`None` outputs are left out.

### RunControl

`submit_run`, the worker thread and `cancel_run`, with `run_dashboard_session` around one session. Each
section under `_run_lock`, and each update of the view, is a step. `work[k]` is the place of the worker
of run `k`: reset the view, show "running", start the servers of the agents (or fail at it), register
the cancel function, the session up to its result, `finalize`, stop the servers, read the flag, report,
free the slot. Threads of the HTTP server cancel: `CancelAccept` under the lock captures the registered
function, `CancelCall` is the first thing it does, `CancelClose` the shutdown of clients and servers,
`CancelStatus` the status set at the end. `view` holds, with everything it shows, the run it came from,
which the code does not store: that is how `ViewIsTrue` can say that it is true. `busy` are agents with a
task in hand: the shutdown of an HTTP server waits for the request it serves, that of a TCP server leaves
its threads behind (`Transport`). The session is seen through its result (`Aegean`): cancelled only if somebody cancelled
it, any other reason even if somebody did, since the round under way may be its last
(`OneRoundAfterCancel`).

## 3. Runs

| Run | Checks | Bounds, and why they are enough |
|---|---|---|
| `election` | `TypeOK`, `OneVotePerTerm`, `ElectionSafety`, `LeaderIsBacked`, `ElectionEnds` | 3 peers, `f = 1`, 2 sessions with different expert orders, 2 attempts each, one peer with a lower persisted term than the others, 1 timeout, 1 stop: both sessions meet in one term and in two, with a late request of an older attempt |
| `election_http` | `HttpTypeOK`, `CountedVotesWereRecorded` | the same, no stop |
| `election_http_lone` | `ImplementsElection`, `LoneElectionSucceeds` | 1 session, persisted terms up to 2, 4 attempts, 1 stop |
| `decision_engine` | `CountIsRun`, `ImplementsBetaStability` | 3 agents, 2 outputs and `None`, `alpha = beta = 2`, 4 steps per term, 2 terms: runs of every shape up to twice `beta`, interrupted by another value, by none, by a term |
| `session` | `TypeOK`, `CommitIsBacked`, `BarFollowsQuorum`, `CertificateIsSound`, `SolnSessionsReplay`, `OneRoundAfterCancel`, `EndsForAReason`, `ImplementsBetaStability` | 3 agents, `R = 2`, 2 outputs, 3 refinement rounds, two agents that may fail, one of them may return `None`, a stale track, a recovered set or none, cancel at any moment: a failed round between two good ones, a lost quorum, overturned candidates all occur |
| `session_ends` | `SessionEnds`, `SteadyAgentsCommit` | two steady agents, one that hops, fails or returns `None`, all ack lists, 3 election attempts, cancel |
| `round_collection` | `TypeOK`, `NoStraggler`, `OnlyTimelyAnswers`, `SessionReturns`, `ImplementsAtomicRounds` | 3 workers, Soln and 2 refinement rounds (a stale track refuses the first and accepts the second), one agent that may never return, cancel at any moment |
| `tcp_session` | `TypeOK`, `AnswersItsCall`, `DeliveredIsReturned`, `MapsFollowTheCall`, `CloseReleasesCall`, `RequestEnds` | 3 calls, so that a late answer meets a next call and a further one finds what was left; any number of ends, `close()` before, during and after `connect` |
| `semantic_stability` | `TypeOK`, `PromptIsCoherent`, `ScoreIsAccounted`, `ImplementsWeightedStability` | 3 agents, 4 outputs with 3 conclusions (a paraphrase, two neighbours, two answers that point away from each other: three unit vectors with cosines 1/3, -1/3, 2/3), 3 rounds, any labels: negative weights, runs that are interrupted by a skip, by a round without quorum, by a paraphrase, and taken up again |
| `run_control` | `TypeOK`, `CancelMeetsItsRun`, `ViewIsTrue`, `RunsEnd` | 2 runs, so that what is late from the first meets the second; 2 threads that cancel, of the same run or of both; agents over HTTP |
| `election_http_two_votes`, `round_deadline` | one property each, which does not hold | see *Findings* |

All runs set `CHECK_DEADLOCK FALSE`: sessions, elections and engines (after `MaxSteps`) really end.
Bounds in guards: `MaxTimeouts`, `MaxCrashes` (Election), `MaxTerm`, `MaxSteps` (DecisionEngine),
`MaxCalls` (TcpSession), `MaxRuns` (RunControl). The rest (`MaxElectionAttempts`, `MaxRounds`) are parameters of the code itself.

### Fairness

* `Election`: a session takes its next step (its thread runs, a call returns or fails), a running peer
  serves a request it has received. No fairness for stops and timeouts; `ElectionEnds` does not need
  `timeout_s`, because a peer either answers or has stopped.
* `ElectionHttp`: the same, and a handler thread runs.
* `Aegean`: `execute` takes its next step. Justified only while agents return: see `round_deadline`.
* `RoundCollection`: the coordinator and the clock run, a submitted worker starts, agents outside
  `MayHang` return. The first half of `SessionReturns`, that every join ends, asks nothing of the
  agents; that `execute` returns is conditional on nobody staying busy for ever.
* `TcpSession`: the worker's thread runs, which includes the timeout of `ev.wait`. None for the reader,
  for `close()` and for the agent.
* `RunControl`: the worker thread and the threads in `cancel_run` run, and each agent is done some day
  (its model is called with a timeout). Nobody has to submit or to cancel a run.
* `SemanticStability`: none, no liveness is stated: its rounds are counted.

No fairness is assumed for `Cancel`.

## 4. Findings

Each violated property states what a document or comment of the repository says.

* `election_http_two_votes`: `record_vote` is not atomic in the threaded server, and a peer can vote
  twice in a term. The same missing lock lets `bump_term` replace a newer term by an older one.
* `round_deadline`: `round_timeout_ms` bounds the join, but the pool then waits for every worker.

Read while modelling, without a run:

* Only `ValueError` of `record_vote` is caught; a peer that stops after granting makes `execute` raise
  (`election_transport.py:69`) where the guide promises a result. `ElectionEnds` counts it as an end
  (`raised`).
* A round without quorum neither confirms nor resets the candidate, so `beta` confirmations need not be in
  consecutive rounds. (`bundle-a` describes the engine as called after a quorum only; `types.py` and the plan
  say consecutive.) `CommitIsBacked` and `ImplementsBetaStability` say what does hold: consecutive
  *rounds with a quorum*.
* Semantic mode: minority signals are gathered over all rounds and the candidate is chosen at the end, so
  an answer can be reported as candidate and as minority (`semantic_equivalence.py:391`); if all points are
  noise they count as one group (`semantic_equivalence.py:220`).
* Cosines are not clamped (`semantic_equivalence.py:86-95`), so a round can weigh less than nothing and
  lower the running score. If an answer wins with a negative weight, loses the next round and wins again,
  its row in the ledger, and with it the confidence of a session without consensus, can be below the running
  score. `ScoreIsAccounted` says what holds: the rows are exact, and a row below the score takes a win
  of negative weight.
* A cancel that is late sets "error" over a run that has begun since, until that one reports
  (`viz_session.py:107`). `ViewIsTrue` is what holds: of "running" and "done", not of "error".
* Over TCP an agent that is late leaves its trace in the view of the next run (`runner.py:375`).
* When a port is taken, the servers started before it keep running (`runner.py:398-409`).
* `reset` restarts the sequence number of the state, and the page ignores a state whose number equals the
  last it has seen (`state.py:270`, `index.html:475`).
* After recovery the session runs, and certifies, under the term of the picked ack (`protocol.py:415`), so
  its certificate can name a leader elected in another term.
* The dashboard never recovers anything: it creates the store of acks per run and reads it before the first
  `Refm` (`runner.py:319`, `488`).
* A TCP client is deaf once its reader has left, and the reader leaves when no byte has come for `timeout_s`,
  be it between two rounds (`tcp_session.py:88`, `179`). `connect` then sees a socket and returns, and every
  later request waits for its whole timeout; `RequestEnds` is what holds.
* `max_election_attempts` is documented as retrying "with the same leader id" (`types.py:203`) and rotates
  candidates.
* A recovered session is rejected by `validate_aegean_result_replay`, which demands a Round 0 row
  (`commit_semantics.py:73`); `SolnSessionsReplay` is what holds.
* `None` outputs are never stable for `beta > 1`, as `None` also means no candidate
  (`decision_engine.py:122`), and are dropped from the first set (`protocol.py:522`). `BetaStability` says the
  first of them (`Fleeting`).

## 5. Proofs

Checked by TLAPS for every value of the constants. Fairness plays no part.

**Election_proofs.** From the named assumptions of `Election`. The inductive invariant `IInv` adds to
`TypeOK` and `OneVotePerTerm` what ties a session's local counts to the peers: a peer's last vote is not
ahead of its term (`VoteBehindTerm`), no recorded vote is ahead of its peer's last one
(`CastBehindVote`), every vote a session counts, and every `yes` on its way back to it, was recorded for
that session and attempt (`CountedInv`), a session with an answer under way is waiting for it
(`CallInv`), and a leader holds a quorum (`LeaderHasQuorum`). `OneVotePerTerm` alone is not inductive:
without `CastBehindVote` a peer whose last vote is older than one it has cast could vote again; nor is
`LeaderIsBacked`, since an answer could arrive for a vote that was never recorded. Results: `TypeCorrect`, `VotesOncePerTerm`, `LeadersAreBacked`, `PeersMoveForward`,
and `AtMostOneLeader` under `QuorumsOverlap(N, F)`. The code does not guarantee that: it accepts
`f = N / 2` for even `N`, where `R = N / 2` and two disjoint quorums exist. `OddEnsemblesElectOne`
shows that for odd `N` the accepted bound suffices.

The invariant has two halves, what the sessions keep (`SessionInv`: `TypeOK`, `CallInv`, `CountedInv`,
`LeaderHasQuorum`) and what the peers keep (`PeerInv`, the rest). A session never reads the peers' fields, and the
lemmas about its steps use the first half only.

The second part of the module is about the threaded peers, for any interleaving of their threads. `SessionInv`
again, with one addition: a thread that serves a Vote is at a statement of `record_vote` (`ThreadInv`), so that a
`yes` to a Vote comes from the step that records it. `PeerInv` does not survive the threads
(`election_http_two_votes`), and is not needed: `CountedVotesAreReal`. `HttpTypeCorrect` says besides the types
that a request is never on its way and in a thread at once. What it needs is that a session never sends a request
twice (`CallsInv`): each expert is called once per broadcast, because the list has no duplicates
(`protocol.py:228`) and those who grant are listed once (`PlanInv`), and every unanswered request, given up or
not, is of an earlier term, or of the same term and the other type, or of a call made before (`SentInv`).

`Refinement` (`ImplementsElection`) assumes what the property is about, one session and no late calls, and any
peers, terms, attempts and stops. Then at most one request is unanswered, it is the call its session waits for,
and the tests its thread has passed still hold, as nobody else touches the peer (`LoneInv`). The step that answers
is `Handle`; the others, and `Accept`, stutter. `BumpTest` never finds the term raised in the meantime, which is
the branch that the atomic peer does not have.

**DecisionRule_proofs.** `AtMostOneEligible`: if `2 * alpha` exceeds the number of outputs, at most one
value is eligible, so the choice by sort key never picks between clusters. With it, what the least eligible
value is when there is one, and what the count means: `Counts(l, c, s)` says that `c` and `s` are the candidate
and the count after the choices `l`. Four lemmas follow it through a step (no value, another value, the same value,
the commit); the engine and the session share them.

**DecisionEngine_proofs.** `CounterIsTheRun`: the count is exactly the length of the run at the end of the
history. `Refinement`: the engine implements `BetaStability`; the step case needs `CountIsRun` before and after
the step, to turn `count >= beta` into a statement on the last `beta` entries of the history. Both hold for all
outputs, clusters of `None` included: their run is never longer than 1 (see *Findings*).

**RoundCollection_proofs.** `IInv` adds to `TypeOK` that every call in progress is the running future of
its agent in the round under way (`CallsAreCurrent`), and what the join knows of `not_done`, the late
answers and the rows (`JoinKnows`). `OneStep` is what the refinement needs: the loop goes on, and rows can
come, only after a look at the flag; a dropped round was cancelled; no thread begins once the rows are there;
an agent that was called has accepted the broadcast. Results: `TypeCorrect`, `NoWorkerOutlivesItsRound`,
`TimelyAnswersCount`, `TracksNeverBack`, and `Refinement`: the collection implements `AtomicRounds`. The look at the
flag is where an atomic round begins and the end of the join where its rows appear; all other steps of the
threads, `Accept` apart, stutter.

**Aegean_proofs.** For any experts, fault bound, `alpha`, `beta`, rounds, outputs (`None` included), finite lists
of acks and round tracks. The parts of `IInv` lean on each other. `StabilityInv` is the heart: the engine's
count is at most the number of rounds with a quorum, and each of that many last ones confirms its candidate,
that is, `alpha` agents gave it and the set they were shown held it. `CommitIsBacked` is not inductive, since
it says nothing before the commit. Which set they were shown is `BarInv`: `broadcast_bar` holds the values
of the last round with a quorum, however many failed since. `RowsInv` says how rows follow each other
(Round 0, then refinement rounds numbered without a gap, a commit row last and only in a consensus),
`CommitInv` what the two rows of a commit hold, which is what the replay check looks up. `CancelInv`: a round that is
waited for was begun before `cancel()`. `PlaceInv`: what is untouched at which place. The newest ack
exists since acks of a finite list have a greatest rank. Results: `TypeCorrect`, `CommitsAreBacked`,
`BarsFollowQuorums`, `CertificatesAreSound`, `CancelStopsRounds`, `EndingsHaveReasons`,
`SessionsReplay`: every safety invariant of the run `session`. `Refinement`: the session implements `BetaStability`,
a round with a quorum being a step of it and everything else a stutter. The history of the abstract rule is
computed from `rounds`: the `k`-th round with a quorum is found by counting rows (`QuorumRound`), and the lemmas
`Ranks` to `NthGrows` say that this numbers them without gaps and that a new row changes none of the old numbers.
The invariant is `LogInv`: candidate and count are what `Counts` says of that history, however many failed rounds
lie between. `CommitRow`s and failed rounds add nothing to it (`SilentSteps`).

**TcpSession_proofs.** For any number of calls. Calls are made in order (`OutcomeInv`), what travels in
either direction is the id of a call that was written and is not a later one (`SentInv`), and the reader
files a frame under the id it carries (`PairInv`): so a late answer can only be that of an older call, and
no call finds it. `DeliveredInv` keeps a delivered frame in the map, without an error beside it, until its call takes
it; `CloseInv` keeps a waiting call registered or woken, and the socket closed behind `close()` unless
`connect` is about to clear the flag. Results: `TypeCorrect`, `AnswersMeetTheirCalls`, `MapsAreClean`,
`DeliveriesSurviveTheEnd`, `CloseReleasesAll`.

**RunControl_proofs.** For any number of runs and of threads that cancel, over HTTP and TCP. One run follows
the other (`OrderInv`), its end is known by the place of its worker (`EndInv`), the registered function is that of
the run in progress from registration on (`ActiveInv`), and the flag is set exactly if somebody has
cancelled this run (`FlagInv`, which also traces every captured function back to an accepted cancel).
`ShownInv` is the view by the place of the worker, which `ViewIsTrue` needs because a run writes it in several steps;
`TraceInv` says that over HTTP no agent outlives its run's servers. Results: `TypeCorrect`,
`CancelsMeetTheirRun`, `ViewsAreTrue`.

**SemanticStability_proofs.** For any agents, outputs, similarities (of either sign), thresholds and clusterings. Sums are
`SumFunction`s over finite sets; what is needed of them (a sum over one element more, a bound on a sum, a sum of
terms that are not negative over a larger set) is proved by well-founded induction on subsets. `Books`, that every row holds the
wins of its conclusion, is kept by each recorded round (`BooksKept`); `RunIsGathered` compares the weight of the
last run with all that its conclusion has gathered. `IInv` is `TypeOK`, `PromptIsCoherent` and
`ScoreIsAccounted`, strengthened by how many choices there can have been (`CountInv`) and by what the tracker is in
terms of them (`TrackInv`: the last one and the weight of the run it ends). Results: `TypeCorrect`, `PromptCoherent`, `ScoreAccounted`, and `Refinement`:
the one running score decides as `WeightedStability`, which keeps every choice with its weight.

Every invariant that a run checks, and every refinement, is proved. Only model-checked is liveness (`ElectionEnds`,
`LoneElectionSucceeds`, `SessionEnds`, `SteadyAgentsCommit`, `SessionReturns`, `RequestEnds`, `RunsEnd`): TLAPS as used here
has no rules for fairness and `ENABLED`. No module uses recursive operators.

## 6. Not modelled

* `semantic_equivalence.py`: embeddings and HDBSCAN are numerical and external; the model quantifies over
  their results. `None` outputs, and which agents stand behind a row, are left out.
* Events, trace, benchmark, logging, task routing, mocks, examples: no influence on the protocol.
* Adapters, dashboard server and page: I/O and presentation. `server.py` is an older copy of
  `server_runtime.py` that nobody imports. Of the dashboard state, what only shows progress (rounds, votes, log,
  sequence number); of the runner, ports and the parsing of the form.
* Configuration checks of `execute` before the session starts are the `ASSUME`s of `Aegean`;
  parsing of acks and payloads is left out; token counts, times and ids of proposals too.
* Three simplifications: `close()` of the TCP client tests and sets its flag in one step, and so does
  `cancel_run`; the rounds of `RoundCollection` always begin with `Soln`, as those of a recovered session are the
  same but for it.
* Custom equality in the engine; outputs that cannot be hashed.

## 7. Plan

Done: the modules above, in the order AegeanQuorum, Election, ElectionHttp, DecisionRule, BetaStability,
DecisionEngine, Aegean, RoundCollection with AtomicRounds, TcpSession, SemanticStability with WeightedStability, RunControl; the
proofs of all of them.

Open, in this order:

1. Progress without fairness: measures that every step of a session, of an election, of a call lowers, so that
   what `ElectionEnds` and `SessionEnds` leave to the scheduler is proved to be only that somebody runs.
2. The progress part of the dashboard state (`state.py`) and the sequence number with the page that polls it.
3. Ports of the agents' servers in `RunControl`, so that a run whose servers did not come up leaves some behind.
4. Chains of certificates (`assert_certificate_chain_monotonic`) over sessions that recover from each other,
   should a caller that keeps a store across sessions appear; there is none in `src/`.
