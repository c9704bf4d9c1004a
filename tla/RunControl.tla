----------------------------- MODULE RunControl -----------------------------
(***************************************************************************)
(* The runs of the dashboard: VizSession (viz_session.py) with its worker  *)
(* thread, the HTTP threads that submit and cancel, run_dashboard_session  *)
(* (runner.py) around one session of the coordinator, and what VizState    *)
(* (state.py) shows of it.  A section under _run_lock, and an update under *)
(* the lock of VizState, is one step.                                      *)
(*                                                                         *)
(* A session is seen through its result; Aegean models it.  Events that    *)
(* only describe its progress (rounds, votes, log lines) are left out.     *)
(***************************************************************************)
EXTENDS Integers, FiniteSets

CONSTANTS
    MaxRuns,     \* bound: runs submitted
    Cancellers,  \* HTTP threads that may serve a cancel at the same time
    Transport    \* "http" or "tcp": how the agents of a run are reached

ASSUME RunControlAssumption ==
    /\ MaxRuns \in Nat
    /\ Transport \in {"http", "tcp"}

Runs == 1..MaxRuns
NoRun == 0

VARIABLES
    running,          \* _running
    cancelRequested,  \* _cancel_requested
    cancelActive,     \* _cancel_active: the run whose cancel_run it is, or NoRun
    run,              \* the run submitted last
    work,             \* where the worker thread of each run is: see Places
    end,              \* how each run went: see Ends
    saw,              \* the worker's copy of the flag
    signalled,        \* the runs whose cancel_run has been called
    busy,             \* the runs with an agent that works on a task
    cancel,           \* the HTTP threads in cancel_run: place and captured function
    view,             \* the VizState
    accepted          \* history: the runs that cancel_run has found running

runVars == <<run, work, end, saw>>
lockVars == <<running, cancelRequested, cancelActive>>
vars == <<lockVars, runVars, signalled, busy, cancel, view, accepted>>

\* "call": in _register_cancel, with the flag found set; "session": before the
\* cancelled check that opens execute; "collecting": behind it.
Places == {"none", "reset", "running", "start", "ready", "call", "session",
           "collecting", "finalize", "stop", "flag", "report", "free", "over"}

\* The reasons of a result; "raised": AegeanSessionError; "unstarted": the
\* servers of the agents did not come up.
Reasons == {"consensus", "max_rounds", "timeout", "cancelled"}
Ends == Reasons \cup {"none", "raised", "unstarted"}

\* What VizState shows, each with the run it comes from.
EmptyView ==
    [status |-> "idle", completed |-> NoRun, result |-> NoRun, reason |-> "none",
     certificate |-> NoRun, trace |-> NoRun]

Init ==
    /\ running = FALSE /\ cancelRequested = FALSE /\ cancelActive = NoRun
    /\ run = NoRun
    /\ work = [k \in Runs |-> "none"]
    /\ end = [k \in Runs |-> "none"]
    /\ saw = FALSE
    /\ signalled = {}
    /\ busy = {}
    /\ cancel = [c \in Cancellers |-> [place |-> "idle", fn |-> NoRun]]
    /\ view = EmptyView
    /\ accepted = {}

GoTo(k, place) == work' = [work EXCEPT ![k] = place]
Show(status) == view' = [view EXCEPT !.status = status]
-----------------------------------------------------------------------------
(* submit_run and the worker thread it starts.                             *)

\* Fault: the flag of the last run is not taken back.
FlagsOfOldRun == running' = TRUE /\ cancelActive' = NoRun /\ UNCHANGED cancelRequested

\* The flags a run starts with.
FreshFlags == running' = TRUE /\ cancelActive' = NoRun /\ cancelRequested' = FALSE

\* A valid form, and no run in progress.
Submit ==
    /\ run < MaxRuns
    /\ ~running
    /\ FreshFlags
    /\ run' = run + 1
    /\ GoTo(run', "reset")
    /\ saw' = FALSE
    /\ UNCHANGED <<end, signalled, busy, cancel, view, accepted>>

\* Fault: the certificate is shown until a new one replaces it.
ViewKeepsCertificate == [EmptyView EXCEPT !.certificate = view.certificate]

\* VizState.reset.
ViewAfterReset == EmptyView

Reset(k) ==
    /\ work[k] = "reset"
    /\ view' = ViewAfterReset
    /\ GoTo(k, "running")
    /\ UNCHANGED <<lockVars, run, end, saw, signalled, busy, cancel, accepted>>

ShowRunning(k) ==
    /\ work[k] = "running"
    /\ Show("running")
    /\ GoTo(k, "start")
    /\ UNCHANGED <<lockVars, run, end, saw, signalled, busy, cancel, accepted>>

\* _run_openrouter up to on_cancel_ready: the servers of the agents start, ...
StartAgents(k) ==
    /\ work[k] = "start"
    /\ GoTo(k, "ready")
    /\ UNCHANGED <<lockVars, run, end, saw, signalled, busy, cancel, view, accepted>>

\* ... or a port is taken: an exception, before there is anything to cancel.
StartFails(k) ==
    /\ work[k] = "start"
    /\ end' = [end EXCEPT ![k] = "unstarted"]
    /\ GoTo(k, "flag")
    /\ UNCHANGED <<lockVars, run, saw, signalled, busy, cancel, view, accepted>>

\* _register_cancel, under the lock.
RegisterCancel(k) ==
    /\ work[k] = "ready"
    /\ cancelActive' = k
    /\ GoTo(k, IF cancelRequested THEN "call" ELSE "session")
    /\ UNCHANGED <<running, cancelRequested, run, end, saw, signalled, busy, cancel,
                   view, accepted>>

\* cancel_fn(), called by the worker itself.
CancelledEarly(k) ==
    /\ work[k] = "call"
    /\ signalled' = signalled \cup {k}
    /\ GoTo(k, "session")
    /\ UNCHANGED <<lockVars, run, end, saw, busy, cancel, view, accepted>>

\* execute: cancelled before it starts, or on its way.
EnterSession(k) ==
    /\ work[k] = "session"
    /\ k \notin signalled
    /\ GoTo(k, "collecting")
    /\ UNCHANGED <<lockVars, run, end, saw, signalled, busy, cancel, view, accepted>>

\* The session returns: "cancelled" only if somebody has cancelled it, another
\* reason also when the round under way was its last.  protocol.completed.
SessionReturns(k, reason) ==
    /\ work[k] = "session" => reason = "cancelled"
    /\ work[k] \in {"session", "collecting"}
    /\ reason = "cancelled" => k \in signalled
    /\ end' = [end EXCEPT ![k] = reason]
    /\ view' = [view EXCEPT !.completed = k]
    /\ GoTo(k, "finalize")
    /\ UNCHANGED <<lockVars, run, saw, signalled, busy, cancel, accepted>>

\* AegeanSessionError: no leader, no solution of the leader.
SessionRaises(k) ==
    /\ work[k] = "collecting"
    /\ end' = [end EXCEPT ![k] = "raised"]
    /\ GoTo(k, "stop")
    /\ UNCHANGED <<lockVars, run, saw, signalled, busy, cancel, view, accepted>>

\* viz.finalize(result).
Finalize(k) ==
    /\ work[k] = "finalize"
    /\ view' = [view EXCEPT !.result = k, !.reason = end[k],
                            !.certificate = IF end[k] = "consensus" THEN k ELSE @]
    /\ GoTo(k, "stop")
    /\ UNCHANGED <<lockVars, run, end, saw, signalled, busy, cancel, accepted>>

\* Clients closed, servers shut down: an HTTP server first finishes the request
\* it serves, the threads of a TCP server go on.
Stopped(k) == Transport = "tcp" \/ k \notin busy

\* The finally of _run_openrouter.
Stop(k) ==
    /\ work[k] = "stop"
    /\ Stopped(k)
    /\ GoTo(k, "flag")
    /\ UNCHANGED <<lockVars, run, end, saw, signalled, busy, cancel, view, accepted>>

\* Fault: after an exception the worker thread is gone.
MayReport(k) == end[k] \in Reasons

\* The flag is read after a session that returned and after an exception.
AnyEnd(k) == end[k] # "none"

ReadFlag(k) ==
    /\ work[k] = "flag"
    /\ AnyEnd(k)
    /\ saw' = cancelRequested
    /\ GoTo(k, "report")
    /\ UNCHANGED <<lockVars, run, end, signalled, busy, cancel, view, accepted>>

Report(k) ==
    /\ work[k] = "report"
    /\ Show(IF saw \/ end[k] \notin Reasons THEN "error" ELSE "done")
    /\ GoTo(k, "free")
    /\ UNCHANGED <<lockVars, run, end, saw, signalled, busy, cancel, accepted>>

\* Fault: the cancel function of the run stays registered.
CancelLeft == UNCHANGED cancelActive

CancelCleared == cancelActive' = NoRun

\* The finally of work.
Free(k) ==
    /\ work[k] = "free"
    /\ running' = FALSE
    /\ CancelCleared
    /\ GoTo(k, "over")
    /\ UNCHANGED <<cancelRequested, run, end, saw, signalled, busy, cancel, view, accepted>>
-----------------------------------------------------------------------------
(* The agents of a run, in the threads of their servers.                   *)

\* A task arrives, as long as cancel_run has not shut all servers down.
AgentBegins(k) ==
    /\ work[k] = "collecting"
    /\ k \in signalled => \E c \in Cancellers : cancel[c] = [place |-> "close", fn |-> k]
    /\ busy' = busy \cup {k}
    /\ UNCHANGED <<lockVars, runVars, signalled, cancel, view, accepted>>

\* The model answers or fails within its timeout_s; worker_trace shows it.
AgentTraces(k) ==
    /\ k \in busy
    /\ busy' \in {busy, busy \ {k}}   \* other agents may still be at work
    /\ view' = [view EXCEPT !.trace = k]
    /\ UNCHANGED <<lockVars, runVars, signalled, cancel, accepted>>
-----------------------------------------------------------------------------
(* cancel_run, in an HTTP thread.                                          *)

CancelGoTo(c, place, fn) == cancel' = [cancel EXCEPT ![c] = [place |-> place, fn |-> fn]]

\* Under the lock: a run is in progress; its cancel function, if it is known.
CancelAccept(c) ==
    /\ cancel[c].place = "idle"
    /\ running
    /\ cancelRequested' = TRUE
    /\ CancelGoTo(c, IF cancelActive = NoRun THEN "status" ELSE "call", cancelActive)
    /\ accepted' = accepted \cup {run}
    /\ UNCHANGED <<running, cancelActive, runVars, signalled, busy, view>>

\* cancel_fn() for the first time: runner.cancel; later calls return at once.
CancelCall(c) ==
    LET k == cancel[c].fn IN
    /\ cancel[c].place = "call"
    /\ signalled' = signalled \cup {k}
    /\ CancelGoTo(c, IF k \in signalled THEN "status" ELSE "close", k)
    /\ UNCHANGED <<lockVars, runVars, busy, view, accepted>>

\* It closes the clients and shuts the servers down, as Stop does.
CancelClose(c) ==
    /\ cancel[c].place = "close"
    /\ Stopped(cancel[c].fn)
    /\ CancelGoTo(c, "status", cancel[c].fn)
    /\ UNCHANGED <<lockVars, runVars, signalled, busy, view, accepted>>

\* set_run_status, without asking which run is in progress by now.
CancelStatus(c) ==
    /\ cancel[c].place = "status"
    /\ Show("error")
    /\ CancelGoTo(c, "idle", NoRun)
    /\ UNCHANGED <<lockVars, runVars, signalled, busy, accepted>>
-----------------------------------------------------------------------------
Worker(k) ==
    \/ Reset(k) \/ ShowRunning(k)
    \/ StartAgents(k) \/ StartFails(k)
    \/ RegisterCancel(k) \/ CancelledEarly(k)
    \/ EnterSession(k)
    \/ \E reason \in Reasons : SessionReturns(k, reason)
    \/ SessionRaises(k)
    \/ Finalize(k) \/ Stop(k) \/ ReadFlag(k) \/ Report(k) \/ Free(k)

Canceller(c) == CancelCall(c) \/ CancelClose(c) \/ CancelStatus(c)

\* POST /api/run and POST /api/cancel; a refused request changes nothing.
Post == Submit \/ \E c \in Cancellers : CancelAccept(c)

Next ==
    \/ Post
    \/ \E k \in Runs : Worker(k) \/ AgentBegins(k) \/ AgentTraces(k)
    \/ \E c \in Cancellers : Canceller(c)

Spec == Init /\ [][Next]_vars

\* Threads run, and every agent is done with its tasks some day.  Nobody has to
\* submit or to cancel anything.
FairSpec ==
    /\ Spec
    /\ \A k \in Runs : WF_vars(Worker(k)) /\ WF_vars(AgentTraces(k) /\ k \notin busy')
    /\ \A c \in Cancellers : WF_vars(Canceller(c))
-----------------------------------------------------------------------------
(* Properties.                                                             *)

InProgress(k) == work[k] \notin {"none", "over"}

\* The cancel function that is registered is that of the run in progress.
TypeOK ==
    /\ running \in BOOLEAN /\ cancelRequested \in BOOLEAN /\ saw \in BOOLEAN
    /\ run \in Runs \cup {NoRun}
    /\ cancelActive \in {NoRun, run}
    /\ cancelActive # NoRun => running
    /\ work \in [Runs -> Places]
    /\ end \in [Runs -> Ends]
    /\ signalled \subseteq Runs /\ busy \subseteq Runs /\ accepted \subseteq Runs
    /\ cancel \in [Cancellers -> [place : {"idle", "call", "close", "status"},
                                  fn : Runs \cup {NoRun}]]
    /\ view \in [status : {"idle", "running", "done", "error"},
                 completed : Runs \cup {NoRun}, result : Runs \cup {NoRun},
                 reason : Reasons \cup {"none"}, certificate : Runs \cup {NoRun},
                 trace : Runs \cup {NoRun}]

\* A cancel meets the run it was meant for: no session is cancelled but one that
\* cancel_run found running, however late its thread goes on, and from the moment
\* the session has its cancel function no accepted cancel is lost, be it older or
\* newer than the function (viz_session.py:73).
CancelMeetsItsRun ==
    /\ signalled \subseteq accepted
    /\ \A k \in accepted :
           (work[k] \in {"session", "collecting"} \/ end[k] \notin {"none", "unstarted"}) =>
               \/ k \in signalled
               \/ \E c \in Cancellers : cancel[c] = [place |-> "call", fn |-> k]

\* What is shown is true.  Once a run has taken the view over: "running" and
\* "done" are the state of this run and of no other, "done" never stands for a
\* session that was cancelled or raised, and the result, the certificate and (over
\* HTTP) the traces shown are its own.  There is never a second run.
ViewIsTrue ==
    /\ \A j, k \in Runs : InProgress(j) /\ InProgress(k) => j = k
    /\ (run # NoRun /\ work[run] # "reset") =>
           /\ view.status = "running" => running /\ work[run] \notin {"running", "free"}
           /\ view.status = "done" =>
                  end[run] \in Reasons \ {"cancelled"} /\ view.result = run
           /\ view.result # NoRun =>
                  /\ view.result = run /\ view.completed = run /\ view.reason = end[run]
                  /\ view.certificate = IF end[run] = "consensus" THEN run ELSE NoRun
           /\ Transport = "http" => view.trace \in {NoRun, run}

\* Every run ends, and so does every cancel: a later run is possible.
RunsEnd ==
    /\ running ~> ~running
    /\ \A c \in Cancellers : (cancel[c].place # "idle") ~> (cancel[c].place = "idle")
=============================================================================
