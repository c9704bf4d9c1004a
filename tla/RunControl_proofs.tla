-------------------------- MODULE RunControl_proofs --------------------------
(***************************************************************************)
(* Safety of the runs of the dashboard, for any number of runs and of      *)
(* threads that cancel, over HTTP and over TCP.                            *)
(***************************************************************************)
EXTENDS RunControl, TLAPS

\* One run after the other: the older ones are over, the newer ones have not
\* begun, and _running is set while the latest is not over.
OrderInv ==
    /\ \A k \in Runs : k > run => work[k] = "none" /\ end[k] = "none"
    /\ \A k \in Runs : k < run => work[k] = "over"
    /\ run # NoRun => work[run] # "none"
    /\ running <=> (run # NoRun /\ work[run] # "over")

BeforeEnd == {"none", "reset", "running", "start", "ready", "call", "session", "collecting"}

\* What is known of the end of a run, by the place of its worker.
EndInv ==
    \A k \in Runs :
        /\ work[k] \in BeforeEnd <=> end[k] = "none"
        /\ work[k] = "finalize" => end[k] \in Reasons
        /\ work[k] = "stop" => end[k] \in Reasons \cup {"raised"}

\* When the cancel function of the run in progress is registered.
ActiveInv ==
    running =>
        cancelActive = IF work[run] \in {"reset", "running", "start", "ready"}
                          \/ end[run] = "unstarted"
                       THEN NoRun ELSE run

\* Who has been cancelled, on whose account, and what the flag says of it.
FlagInv ==
    /\ \A k \in accepted : k <= run
    /\ running => (cancelRequested <=> run \in accepted)
    /\ signalled \subseteq accepted
    /\ \A c \in Cancellers : cancel[c].place \in {"call", "close"} => cancel[c].fn \in accepted
    /\ \A k \in Runs : end[k] = "cancelled" => k \in signalled
    /\ \A k \in Runs : work[k] = "call" => k \in accepted
    /\ \A k \in Runs : (work[k] = "report" /\ end[k] = "cancelled") => saw

\* What is shown of the latest run, by the place of its worker.
ShownInv ==
    (run # NoRun /\ work[run] # "reset") =>
        /\ view.status = "running" => work[run] \notin {"running", "free", "over"}
        /\ view.status = "done" => end[run] \in Reasons \ {"cancelled"} /\ view.result = run
        /\ (end[run] \notin Reasons \/ work[run] = "finalize") =>
               /\ view.result = NoRun /\ view.reason = "none" /\ view.certificate = NoRun
        /\ (end[run] \in Reasons /\ work[run] # "finalize") =>
               /\ view.result = run /\ view.reason = end[run]
               /\ view.certificate = IF end[run] = "consensus" THEN run ELSE NoRun
        /\ end[run] \in Reasons => view.completed = run

\* Over HTTP no agent outlives the servers of its run.
TraceInv ==
    Transport = "http" =>
        /\ \A k \in busy : k = run /\ work[k] \in {"collecting", "finalize", "stop"}
        /\ (run # NoRun /\ work[run] # "reset") => view.trace \in {NoRun, run}

IInv ==
    /\ TypeOK /\ OrderInv /\ EndInv /\ ActiveInv /\ FlagInv /\ ShownInv /\ TraceInv
    /\ CancelMeetsItsRun
-----------------------------------------------------------------------------
LEMMA InitIInv == Init => IInv
<1> USE RunControlAssumption
<1> SUFFICES ASSUME Init PROVE IInv
  OBVIOUS
<1>1. TypeOK
  BY DEF Init, TypeOK, EmptyView, Runs, NoRun, Places, Ends, Reasons
<1>2. OrderInv /\ EndInv /\ ActiveInv
  BY DEF Init, OrderInv, EndInv, ActiveInv, BeforeEnd, Runs, NoRun
<1>3. FlagInv /\ CancelMeetsItsRun
  BY DEF Init, FlagInv, CancelMeetsItsRun, Runs, NoRun
<1>4. ShownInv /\ TraceInv
  BY DEF Init, ShownInv, TraceInv, Runs, NoRun
<1> QED  BY <1>1, <1>2, <1>3, <1>4 DEF IInv

\* A worker that is neither to come nor over is that of the run in progress.
LEMMA TheRun ==
    ASSUME TypeOK, OrderInv, NEW k \in Runs, work[k] \notin {"none", "over"}
    PROVE  k = run /\ running
<1>1. ~(k > run) /\ ~(k < run)
  BY DEF OrderInv
<1>2. k \in Int /\ run \in Int /\ k # NoRun
  BY DEF TypeOK, Runs, NoRun
<1> QED  BY <1>1, <1>2 DEF OrderInv

LEMMA WorkerRuns ==
    ASSUME TypeOK, OrderInv, NEW k \in Runs, Worker(k)
    PROVE  k = run /\ running
<1>1. work[k] \notin {"none", "over"}
  BY DEF Worker, Reset, ShowRunning, StartAgents, StartFails, RegisterCancel,
         CancelledEarly, EnterSession, SessionReturns, SessionRaises, Finalize, Stop,
         ReadFlag, Report, Free
<1> QED  BY <1>1, TheRun

\* Types; the registered function is that of the run in progress.
LEMMA TypeStep == IInv /\ [Next]_vars => TypeOK'
<1> SUFFICES ASSUME IInv, [Next]_vars PROVE TypeOK'
  OBVIOUS
<1>a. TypeOK /\ OrderInv /\ EndInv /\ ActiveInv /\ FlagInv
  BY DEF IInv
<1>b. ShownInv /\ TraceInv /\ CancelMeetsItsRun
  BY DEF IInv
<1> USE RunControlAssumption, <1>a, <1>b DEF Runs, NoRun, lockVars, runVars, TypeOK,
   FlagInv, OrderInv, EndInv, Places, Reasons, Ends
<1>1. CASE Submit
  <2>1. run' \in Runs
    BY <1>1 DEF Submit
  <2>2. work' \in [Runs -> Places]
    BY <1>1, <2>1 DEF Submit, GoTo
  <2> QED  BY <1>1, <2>1, <2>2 DEF Submit, FreshFlags
<1>2. ASSUME NEW k \in Runs, Worker(k) PROVE TypeOK'
  <2>0. k = run /\ running
    BY <1>2, WorkerRuns
  <2>1. CASE Reset(k)
    BY <2>0, <2>1 DEF Reset, GoTo, ViewAfterReset, EmptyView
  <2>2. CASE ShowRunning(k)
    BY <2>0, <2>2 DEF ShowRunning, GoTo, Show
  <2>3. CASE StartAgents(k)
    BY <2>0, <2>3 DEF StartAgents, GoTo
  <2>4. CASE StartFails(k)
    BY <2>0, <2>4 DEF StartFails, GoTo
  <2>5. CASE RegisterCancel(k)
    BY <2>0, <2>5 DEF RegisterCancel, GoTo
  <2>6. CASE CancelledEarly(k)
    BY <2>0, <2>6 DEF CancelledEarly, GoTo
  <2>7. CASE EnterSession(k)
    BY <2>0, <2>7 DEF EnterSession, GoTo
  <2>8. ASSUME NEW reason \in Reasons, SessionReturns(k, reason) PROVE TypeOK'
    BY <2>0, <2>8 DEF SessionReturns, GoTo
  <2>9. CASE SessionRaises(k)
    BY <2>0, <2>9 DEF SessionRaises, GoTo
  <2>10. CASE Finalize(k)
    BY ZenonT(30), <2>0, <2>10 DEF Finalize, GoTo
  <2>11. CASE Stop(k)
    BY <2>0, <2>11 DEF Stop, GoTo, Stopped
  <2>12. CASE ReadFlag(k)
    BY <2>0, <2>12 DEF ReadFlag, GoTo, AnyEnd
  <2>13. CASE Report(k)
    BY ZenonT(30), <2>0, <2>13 DEF Report, GoTo, Show
  <2>14. CASE Free(k)
    BY ZenonT(30), <2>0, <2>14 DEF Free, GoTo, CancelCleared
  <2> QED  BY <1>2, <2>1, <2>2, <2>3, <2>4, <2>5, <2>6, <2>7, <2>8, <2>9, <2>10, <2>11,
              <2>12, <2>13, <2>14 DEF Worker
<1>3. ASSUME NEW k \in Runs, AgentBegins(k) PROVE TypeOK'
  BY <1>3 DEF AgentBegins
<1>4. ASSUME NEW k \in Runs, AgentTraces(k) PROVE TypeOK'
  BY <1>4 DEF AgentTraces
<1>5. ASSUME NEW c \in Cancellers, CancelAccept(c) PROVE TypeOK'
  BY <1>5 DEF CancelAccept, CancelGoTo
<1>6. ASSUME NEW c \in Cancellers, CancelCall(c) PROVE TypeOK'
  <2>1. cancel[c].fn \in Runs
    BY <1>6 DEF CancelCall
  <2>2. cancel' \in [Cancellers -> [place : {"idle", "call", "close", "status"},
                                   fn : Runs \cup {NoRun}]]
    BY <1>6, <2>1 DEF CancelCall, CancelGoTo
  <2>3. signalled' \subseteq Runs
    BY <1>6, <2>1 DEF CancelCall
  <2> QED  BY <1>6, <2>2, <2>3 DEF CancelCall
<1>7. ASSUME NEW c \in Cancellers, CancelClose(c) PROVE TypeOK'
  BY <1>7 DEF CancelClose, CancelGoTo
<1>8. ASSUME NEW c \in Cancellers, CancelStatus(c) PROVE TypeOK'
  BY <1>8 DEF CancelStatus, CancelGoTo, Show
<1>9. CASE UNCHANGED vars
  BY <1>9 DEF vars
<1> QED  BY <1>1, <1>2, <1>3, <1>4, <1>5, <1>6, <1>7, <1>8, <1>9 DEF Next, Post, Canceller

\* Runs follow one another.
LEMMA OrderStep == IInv /\ [Next]_vars => OrderInv'
<1> SUFFICES ASSUME IInv, [Next]_vars PROVE OrderInv'
  OBVIOUS
<1>a. TypeOK /\ OrderInv /\ EndInv /\ ActiveInv /\ FlagInv
  BY DEF IInv
<1>b. ShownInv /\ TraceInv /\ CancelMeetsItsRun
  BY DEF IInv
<1> USE RunControlAssumption, <1>a, <1>b DEF Runs, NoRun, lockVars, runVars, TypeOK,
   OrderInv, Places
<1>1. CASE Submit
  BY <1>1 DEF Submit, FreshFlags, GoTo
<1>2. ASSUME NEW k \in Runs, Worker(k) PROVE OrderInv'
  <2>0. k = run /\ running
    BY <1>2, WorkerRuns
  <2>1. CASE Reset(k)
    BY <2>0, <2>1 DEF Reset, GoTo, ViewAfterReset, EmptyView
  <2>2. CASE ShowRunning(k)
    BY <2>0, <2>2 DEF ShowRunning, GoTo, Show
  <2>3. CASE StartAgents(k)
    BY <2>0, <2>3 DEF StartAgents, GoTo
  <2>4. CASE StartFails(k)
    BY <2>0, <2>4 DEF StartFails, GoTo
  <2>5. CASE RegisterCancel(k)
    BY <2>0, <2>5 DEF RegisterCancel, GoTo
  <2>6. CASE CancelledEarly(k)
    BY <2>0, <2>6 DEF CancelledEarly, GoTo
  <2>7. CASE EnterSession(k)
    BY <2>0, <2>7 DEF EnterSession, GoTo
  <2>8. ASSUME NEW reason \in Reasons, SessionReturns(k, reason) PROVE OrderInv'
    BY <2>0, <2>8 DEF SessionReturns, GoTo
  <2>9. CASE SessionRaises(k)
    BY <2>0, <2>9 DEF SessionRaises, GoTo
  <2>10. CASE Finalize(k)
    BY <2>0, <2>10 DEF Finalize, GoTo
  <2>11. CASE Stop(k)
    BY <2>0, <2>11 DEF Stop, GoTo, Stopped
  <2>12. CASE ReadFlag(k)
    BY <2>0, <2>12 DEF ReadFlag, GoTo, AnyEnd
  <2>13. CASE Report(k)
    BY <2>0, <2>13 DEF Report, GoTo, Show
  <2>14. CASE Free(k)
    BY <2>0, <2>14 DEF Free, GoTo, CancelCleared
  <2> QED  BY <1>2, <2>1, <2>2, <2>3, <2>4, <2>5, <2>6, <2>7, <2>8, <2>9, <2>10, <2>11,
              <2>12, <2>13, <2>14 DEF Worker
<1>3. ASSUME NEW k \in Runs, AgentBegins(k) PROVE OrderInv'
  BY <1>3 DEF AgentBegins
<1>4. ASSUME NEW k \in Runs, AgentTraces(k) PROVE OrderInv'
  BY <1>4 DEF AgentTraces
<1>5. ASSUME NEW c \in Cancellers, CancelAccept(c) PROVE OrderInv'
  BY <1>5 DEF CancelAccept, CancelGoTo
<1>6. ASSUME NEW c \in Cancellers, CancelCall(c) PROVE OrderInv'
  BY <1>6 DEF CancelCall, CancelGoTo
<1>7. ASSUME NEW c \in Cancellers, CancelClose(c) PROVE OrderInv'
  BY <1>7 DEF CancelClose, CancelGoTo
<1>8. ASSUME NEW c \in Cancellers, CancelStatus(c) PROVE OrderInv'
  BY <1>8 DEF CancelStatus, CancelGoTo, Show
<1>9. CASE UNCHANGED vars
  BY <1>9 DEF vars
<1> QED  BY <1>1, <1>2, <1>3, <1>4, <1>5, <1>6, <1>7, <1>8, <1>9 DEF Next, Post, Canceller

\* How runs end.
LEMMA EndStep == IInv /\ [Next]_vars => EndInv'
<1> SUFFICES ASSUME IInv, [Next]_vars PROVE EndInv'
  OBVIOUS
<1>a. TypeOK /\ OrderInv /\ EndInv /\ ActiveInv /\ FlagInv
  BY DEF IInv
<1>b. ShownInv /\ TraceInv /\ CancelMeetsItsRun
  BY DEF IInv
<1> USE RunControlAssumption, <1>a, <1>b DEF Runs, NoRun, lockVars, runVars, TypeOK,
   OrderInv, EndInv, BeforeEnd, Places, Reasons, Ends
<1>1. CASE Submit
  BY <1>1 DEF Submit, FreshFlags, GoTo
<1>2. ASSUME NEW k \in Runs, Worker(k) PROVE EndInv'
  <2>0. k = run /\ running
    BY <1>2, WorkerRuns
  <2>1. CASE Reset(k)
    BY <2>0, <2>1 DEF Reset, GoTo, ViewAfterReset, EmptyView
  <2>2. CASE ShowRunning(k)
    BY <2>0, <2>2 DEF ShowRunning, GoTo, Show
  <2>3. CASE StartAgents(k)
    BY <2>0, <2>3 DEF StartAgents, GoTo
  <2>4. CASE StartFails(k)
    BY <2>0, <2>4 DEF StartFails, GoTo
  <2>5. CASE RegisterCancel(k)
    BY <2>0, <2>5 DEF RegisterCancel, GoTo
  <2>6. CASE CancelledEarly(k)
    BY <2>0, <2>6 DEF CancelledEarly, GoTo
  <2>7. CASE EnterSession(k)
    BY <2>0, <2>7 DEF EnterSession, GoTo
  <2>8. ASSUME NEW reason \in Reasons, SessionReturns(k, reason) PROVE EndInv'
    BY <2>0, <2>8 DEF SessionReturns, GoTo
  <2>9. CASE SessionRaises(k)
    BY <2>0, <2>9 DEF SessionRaises, GoTo
  <2>10. CASE Finalize(k)
    BY <2>0, <2>10 DEF Finalize, GoTo
  <2>11. CASE Stop(k)
    BY <2>0, <2>11 DEF Stop, GoTo, Stopped
  <2>12. CASE ReadFlag(k)
    BY <2>0, <2>12 DEF ReadFlag, GoTo, AnyEnd
  <2>13. CASE Report(k)
    BY <2>0, <2>13 DEF Report, GoTo, Show
  <2>14. CASE Free(k)
    BY <2>0, <2>14 DEF Free, GoTo, CancelCleared
  <2> QED  BY <1>2, <2>1, <2>2, <2>3, <2>4, <2>5, <2>6, <2>7, <2>8, <2>9, <2>10, <2>11,
              <2>12, <2>13, <2>14 DEF Worker
<1>3. ASSUME NEW k \in Runs, AgentBegins(k) PROVE EndInv'
  BY <1>3 DEF AgentBegins
<1>4. ASSUME NEW k \in Runs, AgentTraces(k) PROVE EndInv'
  BY <1>4 DEF AgentTraces
<1>5. ASSUME NEW c \in Cancellers, CancelAccept(c) PROVE EndInv'
  BY <1>5 DEF CancelAccept, CancelGoTo
<1>6. ASSUME NEW c \in Cancellers, CancelCall(c) PROVE EndInv'
  BY <1>6 DEF CancelCall, CancelGoTo
<1>7. ASSUME NEW c \in Cancellers, CancelClose(c) PROVE EndInv'
  BY <1>7 DEF CancelClose, CancelGoTo
<1>8. ASSUME NEW c \in Cancellers, CancelStatus(c) PROVE EndInv'
  BY <1>8 DEF CancelStatus, CancelGoTo, Show
<1>9. CASE UNCHANGED vars
  BY <1>9 DEF vars
<1> QED  BY <1>1, <1>2, <1>3, <1>4, <1>5, <1>6, <1>7, <1>8, <1>9 DEF Next, Post, Canceller

\* The cancel function in its place.
LEMMA ActiveStep == IInv /\ [Next]_vars => ActiveInv'
<1> SUFFICES ASSUME IInv, [Next]_vars PROVE ActiveInv'
  OBVIOUS
<1>a. TypeOK /\ OrderInv /\ EndInv /\ ActiveInv /\ FlagInv
  BY DEF IInv
<1>b. ShownInv /\ TraceInv /\ CancelMeetsItsRun
  BY DEF IInv
<1> USE RunControlAssumption, <1>a, <1>b DEF Runs, NoRun, lockVars, runVars, TypeOK,
   OrderInv, EndInv, BeforeEnd, ActiveInv, Places, Ends, Reasons
<1>1. CASE Submit
  BY <1>1 DEF Submit, FreshFlags, GoTo
<1>2. ASSUME NEW k \in Runs, Worker(k) PROVE ActiveInv'
  <2>0. k = run /\ running
    BY <1>2, WorkerRuns
  <2>1. CASE Reset(k)
    BY <2>0, <2>1 DEF Reset, GoTo, ViewAfterReset, EmptyView
  <2>2. CASE ShowRunning(k)
    BY <2>0, <2>2 DEF ShowRunning, GoTo, Show
  <2>3. CASE StartAgents(k)
    BY <2>0, <2>3 DEF StartAgents, GoTo
  <2>4. CASE StartFails(k)
    BY <2>0, <2>4 DEF StartFails, GoTo
  <2>5. CASE RegisterCancel(k)
    BY <2>0, <2>5 DEF RegisterCancel, GoTo
  <2>6. CASE CancelledEarly(k)
    BY <2>0, <2>6 DEF CancelledEarly, GoTo
  <2>7. CASE EnterSession(k)
    BY <2>0, <2>7 DEF EnterSession, GoTo
  <2>8. ASSUME NEW reason \in Reasons, SessionReturns(k, reason) PROVE ActiveInv'
    BY <2>0, <2>8 DEF SessionReturns, GoTo
  <2>9. CASE SessionRaises(k)
    BY <2>0, <2>9 DEF SessionRaises, GoTo
  <2>10. CASE Finalize(k)
    BY <2>0, <2>10 DEF Finalize, GoTo
  <2>11. CASE Stop(k)
    BY <2>0, <2>11 DEF Stop, GoTo, Stopped
  <2>12. CASE ReadFlag(k)
    BY <2>0, <2>12 DEF ReadFlag, GoTo, AnyEnd
  <2>13. CASE Report(k)
    BY <2>0, <2>13 DEF Report, GoTo, Show
  <2>14. CASE Free(k)
    BY <2>0, <2>14 DEF Free, GoTo, CancelCleared
  <2> QED  BY <1>2, <2>1, <2>2, <2>3, <2>4, <2>5, <2>6, <2>7, <2>8, <2>9, <2>10, <2>11,
              <2>12, <2>13, <2>14 DEF Worker
<1>3. ASSUME NEW k \in Runs, AgentBegins(k) PROVE ActiveInv'
  BY <1>3 DEF AgentBegins
<1>4. ASSUME NEW k \in Runs, AgentTraces(k) PROVE ActiveInv'
  BY <1>4 DEF AgentTraces
<1>5. ASSUME NEW c \in Cancellers, CancelAccept(c) PROVE ActiveInv'
  BY <1>5 DEF CancelAccept, CancelGoTo
<1>6. ASSUME NEW c \in Cancellers, CancelCall(c) PROVE ActiveInv'
  BY <1>6 DEF CancelCall, CancelGoTo
<1>7. ASSUME NEW c \in Cancellers, CancelClose(c) PROVE ActiveInv'
  BY <1>7 DEF CancelClose, CancelGoTo
<1>8. ASSUME NEW c \in Cancellers, CancelStatus(c) PROVE ActiveInv'
  BY <1>8 DEF CancelStatus, CancelGoTo, Show
<1>9. CASE UNCHANGED vars
  BY <1>9 DEF vars
<1> QED  BY <1>1, <1>2, <1>3, <1>4, <1>5, <1>6, <1>7, <1>8, <1>9 DEF Next, Post, Canceller

\* The flag and the signals.
LEMMA FlagStep == IInv /\ [Next]_vars => FlagInv'
<1> SUFFICES ASSUME IInv, [Next]_vars PROVE FlagInv'
  OBVIOUS
<1>a. TypeOK /\ OrderInv /\ EndInv /\ ActiveInv /\ FlagInv
  BY DEF IInv
<1>b. ShownInv /\ TraceInv /\ CancelMeetsItsRun
  BY DEF IInv
<1> USE RunControlAssumption, <1>a, <1>b DEF Runs, NoRun, lockVars, runVars, TypeOK,
   OrderInv, EndInv, BeforeEnd, ActiveInv, FlagInv, Places, Ends, Reasons
<1>1. CASE Submit
  BY <1>1 DEF Submit, FreshFlags, GoTo
<1>2. ASSUME NEW k \in Runs, Worker(k) PROVE FlagInv'
  <2>0. k = run /\ running
    BY <1>2, WorkerRuns
  <2>1. CASE Reset(k)
    BY <2>0, <2>1 DEF Reset, GoTo, ViewAfterReset, EmptyView
  <2>2. CASE ShowRunning(k)
    BY <2>0, <2>2 DEF ShowRunning, GoTo, Show
  <2>3. CASE StartAgents(k)
    BY <2>0, <2>3 DEF StartAgents, GoTo
  <2>4. CASE StartFails(k)
    BY <2>0, <2>4 DEF StartFails, GoTo
  <2>5. CASE RegisterCancel(k)
    BY <2>0, <2>5 DEF RegisterCancel, GoTo
  <2>6. CASE CancelledEarly(k)
    BY <2>0, <2>6 DEF CancelledEarly, GoTo
  <2>7. CASE EnterSession(k)
    BY <2>0, <2>7 DEF EnterSession, GoTo
  <2>8. ASSUME NEW reason \in Reasons, SessionReturns(k, reason) PROVE FlagInv'
    BY <2>0, <2>8 DEF SessionReturns, GoTo
  <2>9. CASE SessionRaises(k)
    BY <2>0, <2>9 DEF SessionRaises, GoTo
  <2>10. CASE Finalize(k)
    BY <2>0, <2>10 DEF Finalize, GoTo
  <2>11. CASE Stop(k)
    BY <2>0, <2>11 DEF Stop, GoTo, Stopped
  <2>12. CASE ReadFlag(k)
    BY <2>0, <2>12 DEF ReadFlag, GoTo, AnyEnd
  <2>13. CASE Report(k)
    BY <2>0, <2>13 DEF Report, GoTo, Show
  <2>14. CASE Free(k)
    BY <2>0, <2>14 DEF Free, GoTo, CancelCleared
  <2> QED  BY <1>2, <2>1, <2>2, <2>3, <2>4, <2>5, <2>6, <2>7, <2>8, <2>9, <2>10, <2>11,
              <2>12, <2>13, <2>14 DEF Worker
<1>3. ASSUME NEW k \in Runs, AgentBegins(k) PROVE FlagInv'
  BY <1>3 DEF AgentBegins
<1>4. ASSUME NEW k \in Runs, AgentTraces(k) PROVE FlagInv'
  BY <1>4 DEF AgentTraces
<1>5. ASSUME NEW c \in Cancellers, CancelAccept(c) PROVE FlagInv'
  BY <1>5 DEF CancelAccept, CancelGoTo
<1>6. ASSUME NEW c \in Cancellers, CancelCall(c) PROVE FlagInv'
  BY ZenonT(30), <1>6 DEF CancelCall, CancelGoTo
<1>7. ASSUME NEW c \in Cancellers, CancelClose(c) PROVE FlagInv'
  BY <1>7 DEF CancelClose, CancelGoTo
<1>8. ASSUME NEW c \in Cancellers, CancelStatus(c) PROVE FlagInv'
  BY <1>8 DEF CancelStatus, CancelGoTo, Show
<1>9. CASE UNCHANGED vars
  BY <1>9 DEF vars
<1> QED  BY <1>1, <1>2, <1>3, <1>4, <1>5, <1>6, <1>7, <1>8, <1>9 DEF Next, Post, Canceller

\* The view.
LEMMA ShownStep == IInv /\ [Next]_vars => ShownInv'
<1> SUFFICES ASSUME IInv, [Next]_vars PROVE ShownInv'
  OBVIOUS
<1>a. TypeOK /\ OrderInv /\ EndInv /\ ActiveInv /\ FlagInv
  BY DEF IInv
<1>b. ShownInv /\ TraceInv /\ CancelMeetsItsRun
  BY DEF IInv
<1> USE RunControlAssumption, <1>a, <1>b DEF Runs, NoRun, lockVars, runVars, TypeOK,
   OrderInv, EndInv, BeforeEnd, FlagInv, ShownInv, Places, Ends, Reasons
<1>1. CASE Submit
  BY <1>1 DEF Submit, FreshFlags, GoTo
<1>2. ASSUME NEW k \in Runs, Worker(k) PROVE ShownInv'
  <2>0. k = run /\ running
    BY <1>2, WorkerRuns
  <2>1. CASE Reset(k)
    BY <2>0, <2>1 DEF Reset, GoTo, ViewAfterReset, EmptyView
  <2>2. CASE ShowRunning(k)
    BY <2>0, <2>2 DEF ShowRunning, GoTo, Show
  <2>3. CASE StartAgents(k)
    BY <2>0, <2>3 DEF StartAgents, GoTo
  <2>4. CASE StartFails(k)
    BY <2>0, <2>4 DEF StartFails, GoTo
  <2>5. CASE RegisterCancel(k)
    BY <2>0, <2>5 DEF RegisterCancel, GoTo
  <2>6. CASE CancelledEarly(k)
    BY <2>0, <2>6 DEF CancelledEarly, GoTo
  <2>7. CASE EnterSession(k)
    BY <2>0, <2>7 DEF EnterSession, GoTo
  <2>8. ASSUME NEW reason \in Reasons, SessionReturns(k, reason) PROVE ShownInv'
    BY <2>0, <2>8 DEF SessionReturns, GoTo
  <2>9. CASE SessionRaises(k)
    BY <2>0, <2>9 DEF SessionRaises, GoTo
  <2>10. CASE Finalize(k)
    BY <2>0, <2>10 DEF Finalize, GoTo
  <2>11. CASE Stop(k)
    BY <2>0, <2>11 DEF Stop, GoTo, Stopped
  <2>12. CASE ReadFlag(k)
    BY <2>0, <2>12 DEF ReadFlag, GoTo, AnyEnd
  <2>13. CASE Report(k)
    BY <2>0, <2>13 DEF Report, GoTo, Show
  <2>14. CASE Free(k)
    BY <2>0, <2>14 DEF Free, GoTo, CancelCleared
  <2> QED  BY <1>2, <2>1, <2>2, <2>3, <2>4, <2>5, <2>6, <2>7, <2>8, <2>9, <2>10, <2>11,
              <2>12, <2>13, <2>14 DEF Worker
<1>3. ASSUME NEW k \in Runs, AgentBegins(k) PROVE ShownInv'
  BY <1>3 DEF AgentBegins
<1>4. ASSUME NEW k \in Runs, AgentTraces(k) PROVE ShownInv'
  BY <1>4 DEF AgentTraces
<1>5. ASSUME NEW c \in Cancellers, CancelAccept(c) PROVE ShownInv'
  BY <1>5 DEF CancelAccept, CancelGoTo
<1>6. ASSUME NEW c \in Cancellers, CancelCall(c) PROVE ShownInv'
  BY <1>6 DEF CancelCall, CancelGoTo
<1>7. ASSUME NEW c \in Cancellers, CancelClose(c) PROVE ShownInv'
  BY <1>7 DEF CancelClose, CancelGoTo
<1>8. ASSUME NEW c \in Cancellers, CancelStatus(c) PROVE ShownInv'
  BY <1>8 DEF CancelStatus, CancelGoTo, Show
<1>9. CASE UNCHANGED vars
  BY <1>9 DEF vars
<1> QED  BY <1>1, <1>2, <1>3, <1>4, <1>5, <1>6, <1>7, <1>8, <1>9 DEF Next, Post, Canceller

\* The traces.
LEMMA TraceStep == IInv /\ [Next]_vars => TraceInv'
<1> SUFFICES ASSUME IInv, [Next]_vars PROVE TraceInv'
  OBVIOUS
<1>a. TypeOK /\ OrderInv /\ EndInv /\ ActiveInv /\ FlagInv
  BY DEF IInv
<1>b. ShownInv /\ TraceInv /\ CancelMeetsItsRun
  BY DEF IInv
<1> USE RunControlAssumption, <1>a, <1>b DEF Runs, NoRun, lockVars, runVars, TypeOK,
   OrderInv, TraceInv, Places
<1>1. CASE Submit
  BY <1>1 DEF Submit, FreshFlags, GoTo
<1>2. ASSUME NEW k \in Runs, Worker(k) PROVE TraceInv'
  <2>0. k = run /\ running
    BY <1>2, WorkerRuns
  <2>1. CASE Reset(k)
    BY <2>0, <2>1 DEF Reset, GoTo, ViewAfterReset, EmptyView
  <2>2. CASE ShowRunning(k)
    BY <2>0, <2>2 DEF ShowRunning, GoTo, Show
  <2>3. CASE StartAgents(k)
    BY <2>0, <2>3 DEF StartAgents, GoTo
  <2>4. CASE StartFails(k)
    BY <2>0, <2>4 DEF StartFails, GoTo
  <2>5. CASE RegisterCancel(k)
    BY <2>0, <2>5 DEF RegisterCancel, GoTo
  <2>6. CASE CancelledEarly(k)
    BY <2>0, <2>6 DEF CancelledEarly, GoTo
  <2>7. CASE EnterSession(k)
    BY <2>0, <2>7 DEF EnterSession, GoTo
  <2>8. ASSUME NEW reason \in Reasons, SessionReturns(k, reason) PROVE TraceInv'
    BY <2>0, <2>8 DEF SessionReturns, GoTo
  <2>9. CASE SessionRaises(k)
    BY <2>0, <2>9 DEF SessionRaises, GoTo
  <2>10. CASE Finalize(k)
    BY <2>0, <2>10 DEF Finalize, GoTo
  <2>11. CASE Stop(k)
    BY <2>0, <2>11 DEF Stop, GoTo, Stopped
  <2>12. CASE ReadFlag(k)
    BY <2>0, <2>12 DEF ReadFlag, GoTo, AnyEnd
  <2>13. CASE Report(k)
    BY <2>0, <2>13 DEF Report, GoTo, Show
  <2>14. CASE Free(k)
    BY <2>0, <2>14 DEF Free, GoTo, CancelCleared
  <2> QED  BY <1>2, <2>1, <2>2, <2>3, <2>4, <2>5, <2>6, <2>7, <2>8, <2>9, <2>10, <2>11,
              <2>12, <2>13, <2>14 DEF Worker
<1>3. ASSUME NEW k \in Runs, AgentBegins(k) PROVE TraceInv'
  BY <1>3 DEF AgentBegins
<1>4. ASSUME NEW k \in Runs, AgentTraces(k) PROVE TraceInv'
  BY <1>4 DEF AgentTraces
<1>5. ASSUME NEW c \in Cancellers, CancelAccept(c) PROVE TraceInv'
  BY <1>5 DEF CancelAccept, CancelGoTo
<1>6. ASSUME NEW c \in Cancellers, CancelCall(c) PROVE TraceInv'
  BY <1>6 DEF CancelCall, CancelGoTo
<1>7. ASSUME NEW c \in Cancellers, CancelClose(c) PROVE TraceInv'
  BY <1>7 DEF CancelClose, CancelGoTo
<1>8. ASSUME NEW c \in Cancellers, CancelStatus(c) PROVE TraceInv'
  BY <1>8 DEF CancelStatus, CancelGoTo, Show
<1>9. CASE UNCHANGED vars
  BY <1>9 DEF vars
<1> QED  BY <1>1, <1>2, <1>3, <1>4, <1>5, <1>6, <1>7, <1>8, <1>9 DEF Next, Post, Canceller

\* A cancel meets its run.
LEMMA MeetStep == IInv /\ [Next]_vars => CancelMeetsItsRun'
<1> SUFFICES ASSUME IInv, [Next]_vars PROVE CancelMeetsItsRun'
  OBVIOUS
<1>a. TypeOK /\ OrderInv /\ EndInv /\ ActiveInv /\ FlagInv
  BY DEF IInv
<1>b. ShownInv /\ TraceInv /\ CancelMeetsItsRun
  BY DEF IInv
<1> USE RunControlAssumption, <1>a, <1>b DEF Runs, NoRun, lockVars, runVars, TypeOK,
   OrderInv, EndInv, BeforeEnd, ActiveInv, FlagInv, CancelMeetsItsRun, Places, Ends, Reasons
<1>1. CASE Submit
  BY <1>1 DEF Submit, FreshFlags, GoTo
<1>2. ASSUME NEW k \in Runs, Worker(k) PROVE CancelMeetsItsRun'
  <2>0. k = run /\ running
    BY <1>2, WorkerRuns
  <2>1. CASE Reset(k)
    BY <2>0, <2>1 DEF Reset, GoTo, ViewAfterReset, EmptyView
  <2>2. CASE ShowRunning(k)
    BY <2>0, <2>2 DEF ShowRunning, GoTo, Show
  <2>3. CASE StartAgents(k)
    BY <2>0, <2>3 DEF StartAgents, GoTo
  <2>4. CASE StartFails(k)
    BY <2>0, <2>4 DEF StartFails, GoTo
  <2>5. CASE RegisterCancel(k)
    BY <2>0, <2>5 DEF RegisterCancel, GoTo
  <2>6. CASE CancelledEarly(k)
    BY <2>0, <2>6 DEF CancelledEarly, GoTo
  <2>7. CASE EnterSession(k)
    BY <2>0, <2>7 DEF EnterSession, GoTo
  <2>8. ASSUME NEW reason \in Reasons, SessionReturns(k, reason) PROVE CancelMeetsItsRun'
    BY <2>0, <2>8 DEF SessionReturns, GoTo
  <2>9. CASE SessionRaises(k)
    BY <2>0, <2>9 DEF SessionRaises, GoTo
  <2>10. CASE Finalize(k)
    BY <2>0, <2>10 DEF Finalize, GoTo
  <2>11. CASE Stop(k)
    BY <2>0, <2>11 DEF Stop, GoTo, Stopped
  <2>12. CASE ReadFlag(k)
    BY <2>0, <2>12 DEF ReadFlag, GoTo, AnyEnd
  <2>13. CASE Report(k)
    BY <2>0, <2>13 DEF Report, GoTo, Show
  <2>14. CASE Free(k)
    BY <2>0, <2>14 DEF Free, GoTo, CancelCleared
  <2> QED  BY <1>2, <2>1, <2>2, <2>3, <2>4, <2>5, <2>6, <2>7, <2>8, <2>9, <2>10, <2>11,
              <2>12, <2>13, <2>14 DEF Worker
<1>3. ASSUME NEW k \in Runs, AgentBegins(k) PROVE CancelMeetsItsRun'
  BY <1>3 DEF AgentBegins
<1>4. ASSUME NEW k \in Runs, AgentTraces(k) PROVE CancelMeetsItsRun'
  BY <1>4 DEF AgentTraces
<1>5. ASSUME NEW c \in Cancellers, CancelAccept(c) PROVE CancelMeetsItsRun'
  BY <1>5 DEF CancelAccept, CancelGoTo
<1>6. ASSUME NEW c \in Cancellers, CancelCall(c) PROVE CancelMeetsItsRun'
  <2>1. cancel[c].fn \in accepted /\ accepted' = accepted
    BY <1>6 DEF CancelCall
  <2>2. signalled' = signalled \cup {cancel[c].fn} /\ work' = work /\ end' = end
    BY <1>6 DEF CancelCall
  <2>3. ASSUME NEW d \in Cancellers, d # c PROVE cancel'[d] = cancel[d]
    BY <1>6, <2>3 DEF CancelCall, CancelGoTo
  <2>4. signalled' \subseteq accepted'
    BY <2>1, <2>2
  <2>5. ASSUME NEW k \in accepted',
               (work[k] \in {"session", "collecting"} \/ end[k] \notin {"none", "unstarted"})'
        PROVE  \/ k \in signalled'
               \/ \E d \in Cancellers : cancel'[d] = [place |-> "call", fn |-> k]
    <3>1. CASE k \in signalled
      BY <3>1, <2>2
    <3>2. CASE k \notin signalled
      <4>1. PICK d \in Cancellers : cancel[d] = [place |-> "call", fn |-> k]
        BY <2>1, <2>2, <2>5, <3>2
      <4>2. CASE d = c
        BY <4>1, <4>2, <2>2
      <4>3. CASE d # c
        BY <4>1, <4>3, <2>3
      <4> QED  BY <4>2, <4>3
    <3> QED  BY <3>1, <3>2
  <2> QED  BY <2>4, <2>5
<1>7. ASSUME NEW c \in Cancellers, CancelClose(c) PROVE CancelMeetsItsRun'
  BY <1>7 DEF CancelClose, CancelGoTo
<1>8. ASSUME NEW c \in Cancellers, CancelStatus(c) PROVE CancelMeetsItsRun'
  BY <1>8 DEF CancelStatus, CancelGoTo, Show
<1>9. CASE UNCHANGED vars
  BY <1>9 DEF vars
<1> QED  BY <1>1, <1>2, <1>3, <1>4, <1>5, <1>6, <1>7, <1>8, <1>9 DEF Next, Post, Canceller
-----------------------------------------------------------------------------
\* The parts support each other: the runs follow each other, so that what is open at a
\* time belongs to the last one.
THEOREM Invariance == Spec => []IInv
<1>1. IInv /\ [Next]_vars => IInv'
  BY TypeStep, OrderStep, EndStep, ActiveStep, FlagStep, ShownStep, TraceStep,
     MeetStep DEF IInv
<1> QED  BY InitIInv, <1>1, PTL DEF Spec

\* Type correctness: at any time the registered cancel function, if any, is that
\* of the run in progress (viz_session.py:60, 65, 94).
THEOREM TypeCorrect == Spec => []TypeOK
<1>1. IInv => TypeOK
  BY DEF IInv
<1> QED  BY Invariance, <1>1, PTL

\* A cancel reaches the run it was sent for, and no other (viz_session.py:62-74,
\* 99-108), for any number of runs and of threads that cancel.
THEOREM CancelsMeetTheirRun == Spec => []CancelMeetsItsRun
<1>1. IInv => CancelMeetsItsRun
  BY DEF IInv
<1> QED  BY Invariance, <1>1, PTL

\* The view of the dashboard is true of the run that owns it (state.py:241-294,
\* viz_session.py:71-94).
THEOREM ViewsAreTrue == Spec => []ViewIsTrue
<1>1. IInv => ViewIsTrue
  <2> SUFFICES ASSUME IInv PROVE ViewIsTrue
    OBVIOUS
  <2> USE DEF IInv
  <2>1. \A j, k \in Runs : InProgress(j) /\ InProgress(k) => j = k
    <3> TAKE j, k \in Runs
    <3> HAVE InProgress(j) /\ InProgress(k)
    <3>1. j = run
      BY TheRun DEF InProgress
    <3>2. k = run
      BY TheRun DEF InProgress
    <3> QED  BY <3>1, <3>2
  <2>2. ASSUME run # NoRun, work[run] # "reset"
        PROVE  /\ view.status = "running" => running /\ work[run] \notin {"running", "free"}
               /\ view.status = "done" =>
                      end[run] \in Reasons \ {"cancelled"} /\ view.result = run
               /\ view.result # NoRun =>
                      /\ view.result = run /\ view.completed = run /\ view.reason = end[run]
                      /\ view.certificate = IF end[run] = "consensus" THEN run ELSE NoRun
               /\ Transport = "http" => view.trace \in {NoRun, run}
    BY <2>2 DEF ShownInv, TraceInv, OrderInv
  <2> QED  BY <2>1, <2>2 DEF ViewIsTrue
<1> QED  BY Invariance, <1>1, PTL
==============================================================================
