-------------------------- MODULE RoundCollection --------------------------
(***************************************************************************)
(* How AegeanProtocol.execute collects the answers of its rounds           *)
(* (aegean/protocol.py): a thread pool per round, one worker per expert,   *)
(* _join_expert_futures with its deadline and its look at the cancelled    *)
(* flag, the wait of the pool for its workers when the with statement      *)
(* ends, and the round track each worker asks before it calls its agent    *)
(* (aegean/refinement_state.py).                                           *)
(*                                                                         *)
(* Round 0 is Soln, the others are Refm.  What the coordinator decides     *)
(* from the rows of a round is left open here; Aegean models it.           *)
(***************************************************************************)
EXTENDS Integers, FiniteSets

CONSTANTS
    Agents,     \* the experts
    MaxRounds,  \* AegeanConfig.max_rounds
    TrackInit,  \* refm_round_track_init
    MayHang     \* the agents whose execute may never return

ASSUME CollectionAssumption ==
    /\ IsFiniteSet(Agents) /\ Agents # {}   \* a fault bound asks for three experts
    /\ MaxRounds \in Nat
    /\ TrackInit \in [Agents -> Nat]
    /\ MayHang \subseteq Agents

VARIABLES
    main,      \* where execute is: see Places
    round,     \* the round under way, as the closures of the workers read it
    fut,       \* the future of each expert in this round
    calls,     \* the calls of Agent.execute in progress, with their round
    notDone,   \* not_done of the join loop
    deadline,  \* round_timeout_ms has passed
    cancelled, \* self.cancelled
    rows,      \* the rows of the last join
    wall,      \* wall_timed_out of the last join
    stopped,   \* cancelled, as the last join returned it
    track,     \* last_accepted_broadcast_round of each agent
    late,      \* history: the agents that returned since the last wait of the join
    looked     \* history: the join has found the flag unset

joinVars == <<notDone, rows, wall, stopped>>
vars == <<main, round, fut, calls, joinVars, deadline, cancelled, track, late, looked>>

\* "join": the test of the while loop and the look at the flag; "clock": the flag
\* was unset, what remains of round_timeout_ms comes next; "wait": in wait();
\* "drain": ThreadPoolExecutor.__exit__ waits for the workers.
InJoin == {"join", "clock", "wait"}
Places == {"next", "drain", "done"} \cup InJoin

\* A future is pending until a thread takes it; "refused" is the timeout row of
\* a stale broadcast, "failed" that of an exception, of ok=False, of an invalid
\* shape or of a low confidence.
Finished == {"answered", "refused", "failed", "cancelled"}
FutureStates == {"none", "pending", "running"} \cup Finished

Init ==
    /\ main = "next"
    /\ round = 0
    /\ fut = [a \in Agents |-> "none"]
    /\ calls = {}
    /\ notDone = {}
    /\ deadline = FALSE
    /\ cancelled = FALSE
    /\ rows = [a \in Agents |-> "none"]
    /\ wall = FALSE
    /\ stopped = FALSE
    /\ track = TrackInit
    /\ late = {}
    /\ looked = FALSE
-----------------------------------------------------------------------------
(* The coordinator.                                                        *)

\* pool.submit for every expert; the pool has at least as many threads.  The
\* refinement loop looks at the flag first, Soln does not.
Submit ==
    /\ main = "next"
    /\ round = 0 \/ ~cancelled
    /\ main' = "join"
    /\ fut' = [a \in Agents |-> "pending"]
    /\ notDone' = Agents
    /\ deadline' = FALSE
    /\ late' = {}
    /\ looked' = FALSE
    /\ UNCHANGED <<round, calls, cancelled, rows, wall, stopped, track>>

\* Somebody is missing and is_cancelled() is false.
Look ==
    /\ main = "join"
    /\ notDone # {}
    /\ ~cancelled
    /\ main' = "clock"
    /\ looked' = TRUE
    /\ UNCHANGED <<round, fut, calls, joinVars, deadline, cancelled, track, late>>

\* remaining > 0: the loop waits for a slice of it.
Wait ==
    /\ main = "clock"
    /\ ~deadline
    /\ main' = "wait"
    /\ UNCHANGED <<round, fut, calls, joinVars, deadline, cancelled, track, late, looked>>

StillWaiting == {a \in notDone : fut[a] \notin Finished}

\* wait(not_done, timeout=wait_slice) returns, before the deadline or at it.
WaitReturns ==
    /\ main = "wait"
    /\ main' = "join"
    /\ notDone' = StillWaiting
    /\ late' = {}
    /\ UNCHANGED <<round, fut, calls, deadline, cancelled, rows, wall, stopped, track, looked>>

DeadlinePasses ==
    /\ main \in InJoin
    /\ ~deadline
    /\ deadline' = TRUE
    /\ UNCHANGED <<main, round, fut, calls, joinVars, cancelled, track, late, looked>>

\* Fault: the rows are read from the futures, finished since or not.
RowsOfFutures == [a \in Agents |-> fut[a]]

\* A future of not_done gives a timeout row, even if it has finished since.
JoinRows == [a \in Agents |-> IF a \in notDone THEN "timeout" ELSE fut[a]]

\* fut.cancel() for not_done: a future that no thread has taken never runs.
CancelPending ==
    [a \in Agents |-> IF a \in notDone /\ fut[a] = "pending" THEN "cancelled" ELSE fut[a]]

\* Nothing is left to wait for, or the flag is set.
LoopLeft == main = "join" /\ (notDone = {} \/ cancelled)

\* Fault: the deadline is not looked at.
TimeIsUpNever == FALSE

\* remaining <= 0, whatever has become of the flag.
TimeIsUp == main = "clock" /\ deadline

JoinEnds ==
    /\ LoopLeft \/ TimeIsUp
    /\ wall' = (notDone # {})
    /\ stopped' = (LoopLeft /\ notDone # {})
    /\ fut' = CancelPending
    /\ rows' = JoinRows
    /\ main' = "drain"
    /\ UNCHANGED <<round, calls, notDone, deadline, cancelled, track, late, looked>>

\* Fault: shutdown(wait=False).
PoolLeft == main = "drain"

\* shutdown(wait=True): no worker of the pool runs any more.
PoolDrained == main = "drain" /\ \A a \in Agents : fut[a] \in Finished

\* Fault: one round too many.
RoundsLeftOneMore == round <= MaxRounds

RoundsLeft == round < MaxRounds

\* Fault: the loop goes on without counting.
NextRoundStuck == round

NextRound == round + 1

\* The rows of the round are evaluated: the session ends (no Soln quorum, leader
\* missing, commit, last round), or goes on with the next round; a join that saw
\* the flag always ends it.
Evaluate ==
    /\ PoolDrained
    /\ \/ main' = "done" /\ UNCHANGED round
       \/ ~stopped /\ RoundsLeft /\ round' = NextRound /\ main' = "next"
    /\ fut' = [a \in Agents |-> "none"]
    /\ UNCHANGED <<calls, joinVars, deadline, cancelled, track, late, looked>>

\* if self.cancelled, at the start of execute and of every refinement round.
StopCancelled ==
    /\ main = "next"
    /\ cancelled
    /\ main' = "done"
    /\ UNCHANGED <<round, fut, calls, joinVars, deadline, cancelled, track, late, looked>>

Coordinator ==
    Submit \/ Look \/ Wait \/ WaitReturns \/ JoinEnds \/ Evaluate \/ StopCancelled

Cancel ==
    /\ ~cancelled
    /\ main # "done"
    /\ cancelled' = TRUE
    /\ UNCHANGED <<main, round, fut, calls, joinVars, deadline, track, late, looked>>
-----------------------------------------------------------------------------
(* The workers: _collect_soln and _collect_refm.                           *)

\* Fault: any broadcast is accepted.
TryAcceptAlways(a) == TRUE

\* try_accept_refm_broadcast(ref_round), asked in refinement rounds only.
TryAccept(a) == round = 0 \/ round >= track[a]

\* A thread takes the future, asks the track and calls the agent.
Begin(a) ==
    /\ fut[a] = "pending"
    /\ IF TryAccept(a)
       THEN /\ fut' = [fut EXCEPT ![a] = "running"]
            /\ calls' = calls \cup {[agent |-> a, round |-> round]}
            /\ track' = IF round = 0 THEN track ELSE [track EXCEPT ![a] = round]
       ELSE /\ fut' = [fut EXCEPT ![a] = "refused"]
            /\ UNCHANGED <<calls, track>>
    /\ UNCHANGED <<main, round, joinVars, deadline, cancelled, late, looked>>

\* Agent.execute returns or raises.
Return(c, how) ==
    /\ c \in calls
    /\ calls' = calls \ {c}
    /\ IF c.round = round /\ fut[c.agent] = "running"
       THEN /\ fut' = [fut EXCEPT ![c.agent] = how]
            /\ late' = late \cup {c.agent}
       ELSE UNCHANGED <<fut, late>>
    /\ UNCHANGED <<main, round, joinVars, deadline, cancelled, track, looked>>

Next ==
    \/ Coordinator
    \/ DeadlinePasses
    \/ Cancel
    \/ \E a \in Agents : Begin(a)
    \/ \E c \in calls : \E how \in {"answered", "failed"} : Return(c, how)

Spec == Init /\ [][Next]_vars

\* Threads and the clock run; the agents outside MayHang come back.
FairSpec ==
    /\ Spec
    /\ WF_vars(Coordinator)
    /\ WF_vars(DeadlinePasses)
    /\ \A a \in Agents : WF_vars(Begin(a))
    /\ \A a \in Agents \ MayHang :
           WF_vars(\E c \in calls : c.agent = a /\ \E how \in {"answered", "failed"} : Return(c, how))
-----------------------------------------------------------------------------
(* Properties.                                                             *)

TypeOK ==
    /\ main \in Places
    /\ round \in 0..MaxRounds
    /\ fut \in [Agents -> FutureStates]
    /\ calls \subseteq [agent : Agents, round : 0..MaxRounds]
    /\ notDone \subseteq Agents
    /\ deadline \in BOOLEAN /\ cancelled \in BOOLEAN /\ wall \in BOOLEAN
    /\ rows \in [Agents -> FutureStates \cup {"timeout"}]
    /\ track \in [Agents -> Nat]
    /\ stopped \in BOOLEAN
    /\ late \subseteq Agents

\* No worker outlives its round: every call in progress belongs to the round
\* under way, so that the closures it shares with the coordinator (ref_round,
\* broadcast_bar, ref_pid) still mean its round, and no agent is ever asked for
\* two answers at a time.
NoStraggler ==
    /\ \A c \in calls : c.round = round
    /\ \A c, d \in calls : c.agent = d.agent => c = d
    /\ main \in {"next", "done"} => calls = {}

\* The answers counted in a round are exactly those that came before the last
\* wait of its join, none that came while the pool drained, and the round is
\* marked as timed out exactly when some agent has been given up.
OnlyTimelyAnswers ==
    main = "drain" =>
        /\ \A a \in Agents :
               rows[a] = "answered" <=> (fut[a] = "answered" /\ a \notin late)
        /\ wall <=> \E a \in Agents : rows[a] = "timeout"

\* To the session a round is one step (AtomicRounds, which Aegean takes for granted):
\* the threads, the slices of the join, the clock and the flag bring about nothing else.
Stage ==
    CASE main \in InJoin -> IF looked THEN "wait" ELSE "next"
      [] main = "drain"  -> IF stopped THEN "done" ELSE "rows"
      [] OTHER           -> main
RowsAnswered == IF Stage = "rows" THEN {a \in Agents : rows[a] = "answered"} ELSE {}
RowsTimedOut == Stage = "rows" /\ wall
Atomic == INSTANCE AtomicRounds
            WITH stage <- Stage, answered <- RowsAnswered, wall <- RowsTimedOut
ImplementsAtomicRounds == Atomic!Spec

\* An agent never accepts a broadcast older than one it has accepted.
TracksMoveForward == [][\A a \in Agents : track'[a] >= track[a]]_vars

\* The join is bounded even by agents that never return, and as long as no agent
\* stays busy for ever, so is the session.
SessionReturns ==
    LET Busy(a) == \E c \in calls : c.agent = a IN
    /\ (main \in InJoin) ~> (main = "drain")
    /\ (\A a \in Agents : Busy(a) ~> ~Busy(a)) => <>(main = "done")

\* "Per-step execution is parallelized and constrained by round_timeout_ms"
\* (docs/DETAILED_GUIDE.md:54): after the deadline the round is over some day.
RoundEndsAfterDeadline ==
    (main \in InJoin /\ deadline) ~> (main \in {"next", "done"})
=============================================================================
