------------------------ MODULE RoundCollection_proofs ------------------------
(***************************************************************************)
(* Proofs about RoundCollection: no worker outlives its round, and exactly *)
(* the timely answers are counted, for any agents and any number of rounds.*)
(***************************************************************************)
EXTENDS RoundCollection, TLAPS

\* A call in progress is that of a running future of the round under way;
\* between rounds there are no futures.
CallsAreCurrent ==
    /\ \A c \in calls : c.round = round /\ fut[c.agent] = "running"
    /\ main \in {"next", "done"} => \A a \in Agents : fut[a] = "none"

\* What the join loop knows: an agent that left notDone had finished before the last
\* wait, an agent still in notDone can only have finished since.
JoinKnows ==
    /\ main \in InJoin \cup {"drain"} =>
           /\ \A a \in Agents \ notDone : fut[a] \in Finished /\ a \notin late
           /\ \A a \in notDone : fut[a] = "answered" => a \in late
    /\ main = "drain" =>
           /\ \A a \in Agents : rows[a] = IF a \in notDone THEN "timeout" ELSE fut[a]
           /\ wall <=> notDone # {}

\* What makes the round one step for the session: the loop goes on, and the round can
\* bring rows, only after a look at the flag; no thread begins once the rows are there;
\* an agent that was called has accepted the broadcast of this round.
OneStep ==
    /\ main \in {"clock", "wait"} => looked /\ notDone # {}
    /\ main = "join" /\ ~looked => notDone # {}
    /\ main = "drain" => (stopped => cancelled) /\ \A a \in Agents : fut[a] # "pending"
    /\ round > 0 => \A a \in Agents :
           fut[a] \in {"running", "answered", "failed"} => track[a] = round

IInv == TypeOK /\ CallsAreCurrent /\ JoinKnows /\ OneStep

LEMMA InitIInv == Init => IInv
<1> SUFFICES ASSUME Init PROVE IInv
  OBVIOUS
<1>1. TypeOK
  <2>1. track \in [Agents -> Nat] /\ round \in 0..MaxRounds
    BY CollectionAssumption DEF Init
  <2> QED
    BY <2>1 DEF Init, TypeOK, Places, InJoin, FutureStates
<1>2. CallsAreCurrent /\ JoinKnows /\ OneStep
  BY DEF Init, CallsAreCurrent, JoinKnows, OneStep, InJoin
<1> QED
  BY <1>1, <1>2 DEF IInv
-----------------------------------------------------------------------------
(* One lemma per action.                                                   *)

LEMMA SubmitInv == IInv /\ Submit => IInv'
<1> SUFFICES ASSUME IInv, Submit PROVE IInv'
  OBVIOUS
<1>1. TypeOK'
  BY CollectionAssumption
     DEF Submit, IInv, TypeOK, Places, InJoin, FutureStates, Finished, joinVars
<1>2. CallsAreCurrent'
  BY DEF Submit, IInv, TypeOK, CallsAreCurrent, InJoin, Finished, joinVars
<1>3. JoinKnows'
  BY DEF Submit, IInv, TypeOK, JoinKnows, InJoin, Finished, joinVars
<1>4. OneStep'
  BY CollectionAssumption
     DEF Submit, IInv, TypeOK, CallsAreCurrent, JoinKnows, OneStep, InJoin, Finished, joinVars
<1> QED
  BY <1>1, <1>2, <1>3, <1>4 DEF IInv

LEMMA LookInv == IInv /\ Look => IInv'
<1> SUFFICES ASSUME IInv, Look PROVE IInv'
  OBVIOUS
<1>1. TypeOK'
  BY CollectionAssumption
     DEF Look, IInv, TypeOK, Places, InJoin, FutureStates, Finished, joinVars
<1>2. CallsAreCurrent'
  BY DEF Look, IInv, TypeOK, CallsAreCurrent, InJoin, Finished, joinVars
<1>3. JoinKnows'
  BY DEF Look, IInv, TypeOK, JoinKnows, InJoin, Finished, joinVars
<1>4. OneStep'
  BY CollectionAssumption
     DEF Look, IInv, TypeOK, CallsAreCurrent, JoinKnows, OneStep, InJoin, Finished, joinVars
<1> QED
  BY <1>1, <1>2, <1>3, <1>4 DEF IInv

LEMMA WaitInv == IInv /\ Wait => IInv'
<1> SUFFICES ASSUME IInv, Wait PROVE IInv'
  OBVIOUS
<1>1. TypeOK'
  BY CollectionAssumption
     DEF Wait, IInv, TypeOK, Places, InJoin, FutureStates, Finished, joinVars
<1>2. CallsAreCurrent'
  BY DEF Wait, IInv, TypeOK, CallsAreCurrent, InJoin, Finished, joinVars
<1>3. JoinKnows'
  BY DEF Wait, IInv, TypeOK, JoinKnows, InJoin, Finished, joinVars
<1>4. OneStep'
  BY CollectionAssumption
     DEF Wait, IInv, TypeOK, CallsAreCurrent, JoinKnows, OneStep, InJoin, Finished, joinVars
<1> QED
  BY <1>1, <1>2, <1>3, <1>4 DEF IInv

LEMMA WaitReturnsInv == IInv /\ WaitReturns => IInv'
<1> SUFFICES ASSUME IInv, WaitReturns PROVE IInv'
  OBVIOUS
<1>1. TypeOK'
  BY CollectionAssumption
     DEF WaitReturns, StillWaiting, IInv, TypeOK, Places, InJoin, FutureStates, Finished, joinVars
<1>2. CallsAreCurrent'
  BY DEF WaitReturns, StillWaiting, IInv, TypeOK, CallsAreCurrent, InJoin, Finished, joinVars
<1>3. JoinKnows'
  BY DEF WaitReturns, StillWaiting, IInv, TypeOK, JoinKnows, InJoin, Finished, joinVars
<1>4. OneStep'
  BY CollectionAssumption
     DEF WaitReturns, StillWaiting, IInv, TypeOK, CallsAreCurrent, JoinKnows, OneStep, InJoin, Finished, joinVars
<1> QED
  BY <1>1, <1>2, <1>3, <1>4 DEF IInv

LEMMA DeadlinePassesInv == IInv /\ DeadlinePasses => IInv'
<1> SUFFICES ASSUME IInv, DeadlinePasses PROVE IInv'
  OBVIOUS
<1>1. TypeOK'
  BY CollectionAssumption
     DEF DeadlinePasses, IInv, TypeOK, Places, InJoin, FutureStates, Finished, joinVars
<1>2. CallsAreCurrent'
  BY DEF DeadlinePasses, IInv, TypeOK, CallsAreCurrent, InJoin, Finished, joinVars
<1>3. JoinKnows'
  BY DEF DeadlinePasses, IInv, TypeOK, JoinKnows, InJoin, Finished, joinVars
<1>4. OneStep'
  BY CollectionAssumption
     DEF DeadlinePasses, IInv, TypeOK, CallsAreCurrent, JoinKnows, OneStep, InJoin, Finished, joinVars
<1> QED
  BY <1>1, <1>2, <1>3, <1>4 DEF IInv

LEMMA JoinEndsInv == IInv /\ JoinEnds => IInv'
<1> SUFFICES ASSUME IInv, JoinEnds PROVE IInv'
  OBVIOUS
<1>1. TypeOK'
  BY CollectionAssumption
     DEF JoinEnds, LoopLeft, TimeIsUp, JoinRows, CancelPending, IInv, TypeOK, Places, InJoin, FutureStates, Finished, joinVars
<1>2. CallsAreCurrent'
  BY DEF JoinEnds, LoopLeft, TimeIsUp, JoinRows, CancelPending, IInv, TypeOK, CallsAreCurrent, InJoin, Finished, joinVars
<1>3. JoinKnows'
  BY DEF JoinEnds, LoopLeft, TimeIsUp, JoinRows, CancelPending, IInv, TypeOK, JoinKnows, InJoin, Finished, joinVars
<1>4. OneStep'
  BY CollectionAssumption
     DEF JoinEnds, LoopLeft, TimeIsUp, JoinRows, CancelPending, IInv, TypeOK, CallsAreCurrent, JoinKnows, OneStep, InJoin, Finished, joinVars
<1> QED
  BY <1>1, <1>2, <1>3, <1>4 DEF IInv

LEMMA EvaluateInv == IInv /\ Evaluate => IInv'
<1> SUFFICES ASSUME IInv, Evaluate PROVE IInv'
  OBVIOUS
<1>1. TypeOK'
  BY CollectionAssumption
     DEF Evaluate, PoolDrained, NextRound, RoundsLeft, IInv, TypeOK, Places, InJoin, FutureStates, Finished, joinVars
<1>2. CallsAreCurrent'
  BY DEF Evaluate, PoolDrained, NextRound, RoundsLeft, IInv, TypeOK, CallsAreCurrent, InJoin, Finished, joinVars
<1>3. JoinKnows'
  BY DEF Evaluate, PoolDrained, NextRound, RoundsLeft, IInv, TypeOK, JoinKnows, InJoin, Finished, joinVars
<1>4. OneStep'
  BY CollectionAssumption
     DEF Evaluate, PoolDrained, NextRound, RoundsLeft, IInv, TypeOK, CallsAreCurrent, JoinKnows, OneStep, InJoin, Finished, joinVars
<1> QED
  BY <1>1, <1>2, <1>3, <1>4 DEF IInv

LEMMA StopCancelledInv == IInv /\ StopCancelled => IInv'
<1> SUFFICES ASSUME IInv, StopCancelled PROVE IInv'
  OBVIOUS
<1>1. TypeOK'
  BY CollectionAssumption
     DEF StopCancelled, IInv, TypeOK, Places, InJoin, FutureStates, Finished, joinVars
<1>2. CallsAreCurrent'
  BY DEF StopCancelled, IInv, TypeOK, CallsAreCurrent, InJoin, Finished, joinVars
<1>3. JoinKnows'
  BY DEF StopCancelled, IInv, TypeOK, JoinKnows, InJoin, Finished, joinVars
<1>4. OneStep'
  BY CollectionAssumption
     DEF StopCancelled, IInv, TypeOK, CallsAreCurrent, JoinKnows, OneStep, InJoin, Finished, joinVars
<1> QED
  BY <1>1, <1>2, <1>3, <1>4 DEF IInv

LEMMA CancelInv == IInv /\ Cancel => IInv'
<1> SUFFICES ASSUME IInv, Cancel PROVE IInv'
  OBVIOUS
<1>1. TypeOK'
  BY CollectionAssumption
     DEF Cancel, IInv, TypeOK, Places, InJoin, FutureStates, Finished, joinVars
<1>2. CallsAreCurrent'
  BY DEF Cancel, IInv, TypeOK, CallsAreCurrent, InJoin, Finished, joinVars
<1>3. JoinKnows'
  BY DEF Cancel, IInv, TypeOK, JoinKnows, InJoin, Finished, joinVars
<1>4. OneStep'
  BY CollectionAssumption
     DEF Cancel, IInv, TypeOK, CallsAreCurrent, JoinKnows, OneStep, InJoin, Finished, joinVars
<1> QED
  BY <1>1, <1>2, <1>3, <1>4 DEF IInv

LEMMA BeginInv == ASSUME IInv, NEW a \in Agents, Begin(a) PROVE IInv'
<1>1. TypeOK'
  BY DEF Begin, IInv, TypeOK, FutureStates, Finished, joinVars
<1>2. CallsAreCurrent'
  BY DEF Begin, IInv, TypeOK, CallsAreCurrent, joinVars
<1>3. JoinKnows'
  BY DEF Begin, IInv, TypeOK, JoinKnows, InJoin, Finished, joinVars
<1>4. OneStep'
  BY DEF Begin, TryAccept, IInv, TypeOK, OneStep, Finished, joinVars
<1> QED
  BY <1>1, <1>2, <1>3, <1>4 DEF IInv

LEMMA ReturnInv ==
    ASSUME IInv, NEW c \in calls, NEW how \in {"answered", "failed"}, Return(c, how)
    PROVE  IInv'
<1>1. TypeOK'
  BY DEF Return, IInv, TypeOK, FutureStates, Finished, joinVars
<1>2. CallsAreCurrent'
  BY DEF Return, IInv, TypeOK, CallsAreCurrent, joinVars
<1>3. JoinKnows'
  BY DEF Return, IInv, TypeOK, CallsAreCurrent, JoinKnows, InJoin, Finished, joinVars
<1>4. OneStep'
  BY DEF Return, IInv, TypeOK, CallsAreCurrent, OneStep, Finished, joinVars
<1> QED
  BY <1>1, <1>2, <1>3, <1>4 DEF IInv

LEMMA NextIInv == IInv /\ [Next]_vars => IInv'
<1> SUFFICES ASSUME IInv, [Next]_vars PROVE IInv'
  OBVIOUS
<1>1. CASE UNCHANGED vars
  BY <1>1 DEF vars, joinVars, IInv, TypeOK, CallsAreCurrent, JoinKnows, OneStep
<1>2. CASE Coordinator
  BY <1>2, SubmitInv, LookInv, WaitInv, WaitReturnsInv, JoinEndsInv, EvaluateInv,
     StopCancelledInv DEF Coordinator
<1>3. CASE DeadlinePasses \/ Cancel
  BY <1>3, DeadlinePassesInv, CancelInv
<1>4. CASE \E a \in Agents : Begin(a)
  BY <1>4, BeginInv
<1>5. CASE \E c \in calls : \E how \in {"answered", "failed"} : Return(c, how)
  BY <1>5, ReturnInv
<1> QED
  BY <1>1, <1>2, <1>3, <1>4, <1>5 DEF Next
-----------------------------------------------------------------------------
(* The theorems.                                                           *)

LEMMA Invariance == Spec => []IInv
BY InitIInv, NextIInv, PTL DEF Spec

\* Every variable keeps its type.
THEOREM TypeCorrect == Spec => []TypeOK
<1>1. IInv => TypeOK
  BY DEF IInv
<1> QED
  BY Invariance, <1>1, PTL

\* No worker outlives its round: the pool waits for its threads before the rows
\* are evaluated (the with statements of AegeanProtocol.execute).
THEOREM NoWorkerOutlivesItsRound == Spec => []NoStraggler
<1>1. IInv => NoStraggler
  BY DEF IInv, TypeOK, CallsAreCurrent, NoStraggler
<1> QED
  BY Invariance, <1>1, PTL

\* Exactly the answers that came in time are counted (_join_expert_futures).
THEOREM TimelyAnswersCount == Spec => []OnlyTimelyAnswers
<1>1. IInv => OnlyTimelyAnswers
  BY DEF IInv, TypeOK, JoinKnows, OnlyTimelyAnswers, Finished
<1> QED
  BY Invariance, <1>1, PTL

\* An agent never accepts a broadcast older than one it has accepted
\* (PerAgentRefmRoundTrack.try_accept_refm_broadcast).
THEOREM TracksNeverBack == Spec => TracksMoveForward
<1>1. IInv /\ [Next]_vars => [\A a \in Agents : track'[a] >= track[a]]_vars
  <2> SUFFICES ASSUME IInv, Next PROVE \A a \in Agents : track'[a] >= track[a]
    BY DEF vars
  <2>1. CASE UNCHANGED track
    BY <2>1 DEF IInv, TypeOK
  <2>2. ASSUME NEW b \in Agents, Begin(b) PROVE \A a \in Agents : track'[a] >= track[a]
    BY <2>2, CollectionAssumption DEF Begin, TryAccept, IInv, TypeOK
  <2>3. Next => UNCHANGED track \/ \E b \in Agents : Begin(b)
    BY DEF Next, Coordinator, Submit, Look, Wait, WaitReturns, DeadlinePasses, JoinEnds, Evaluate,
           StopCancelled, Cancel, Return
  <2> QED
    BY <2>1, <2>2, <2>3
<1> QED
  BY Invariance, <1>1, PTL DEF Spec, TracksMoveForward
-----------------------------------------------------------------------------
(* The rounds as AtomicRounds shows them.                                  *)

\* What the session sees of each place of execute, now and after a step.
LEMMA Stages ==
    /\ main \in {"next", "done"} => Stage = main
    /\ main \in InJoin => Stage = IF looked THEN "wait" ELSE "next"
    /\ main = "drain" => Stage = IF stopped THEN "done" ELSE "rows"
    /\ main' \in {"next", "done"} => Stage' = main'
    /\ main' \in InJoin => Stage' = IF looked' THEN "wait" ELSE "next"
    /\ main' = "drain" => Stage' = IF stopped' THEN "done" ELSE "rows"
<1>1. /\ main \in {"next", "done"} => Stage = main
      /\ main \in InJoin => Stage = IF looked THEN "wait" ELSE "next"
      /\ main = "drain" => Stage = IF stopped THEN "done" ELSE "rows"
  BY DEF Stage, InJoin
<1>2. /\ main' \in {"next", "done"} => Stage' = main'
      /\ main' \in InJoin => Stage' = IF looked' THEN "wait" ELSE "next"
      /\ main' = "drain" => Stage' = IF stopped' THEN "done" ELSE "rows"
  BY DEF Stage, InJoin
<1> QED
  BY <1>1, <1>2

\* Only the stage of the rows has answers and a wall.
LEMMA Between ==
    /\ Stage # "rows" => RowsAnswered = {} /\ RowsTimedOut = FALSE
    /\ Stage' # "rows" => RowsAnswered' = {} /\ RowsTimedOut' = FALSE
BY DEF RowsAnswered, RowsTimedOut

LEMMA InitStages == Init => Atomic!Init
BY Stages, Between DEF Init, Atomic!Init

\* A step between two places of the same stage shows nothing.
LEMMA SubmitStages == IInv /\ Submit => UNCHANGED Atomic!vars
BY Stages, Between DEF Submit, InJoin, Atomic!vars

LEMMA LookStages == IInv /\ Look => [Atomic!Next]_(Atomic!vars)
<1> SUFFICES ASSUME IInv, Look PROVE [Atomic!Next]_(Atomic!vars)
  OBVIOUS
<1>1. CASE looked
  BY <1>1, Stages, Between DEF Look, InJoin, joinVars, Atomic!vars
<1>2. CASE ~looked
  <2>1. Atomic!Join
    BY <1>2, Stages, Between DEF Look, InJoin, joinVars, Atomic!Join
  <2> QED
    BY <2>1 DEF Atomic!Next
<1> QED
  BY <1>1, <1>2

LEMMA WaitStages == IInv /\ (Wait \/ WaitReturns \/ DeadlinePasses) => UNCHANGED Atomic!vars
<1> SUFFICES ASSUME IInv, Wait \/ WaitReturns \/ DeadlinePasses PROVE UNCHANGED Atomic!vars
  OBVIOUS
<1>1. main \in InJoin /\ main' \in InJoin /\ looked' = looked
      /\ UNCHANGED <<round, cancelled, track>>
  BY DEF Wait, WaitReturns, DeadlinePasses, InJoin
<1> QED
  BY <1>1, Stages, Between DEF Atomic!vars

\* The rows are there, or the round is dropped for cancel().
LEMMA JoinEndsStages == IInv /\ JoinEnds => Atomic!Rows \/ Atomic!JoinCancelled
<1> SUFFICES ASSUME IInv, JoinEnds PROVE Atomic!Rows \/ Atomic!JoinCancelled
  OBVIOUS
<1>1. /\ main \in InJoin /\ main' = "drain" /\ Stage \in {"next", "wait"}
      /\ UNCHANGED <<round, cancelled, track>>
  BY Stages DEF JoinEnds, LoopLeft, TimeIsUp, InJoin
<1>2. CASE stopped'
  <2>1. cancelled /\ Stage' = "done"
    BY <1>1, <1>2, Stages DEF JoinEnds, LoopLeft
  <2> QED
    BY <1>1, <2>1, Between DEF Atomic!JoinCancelled
<1>3. CASE ~stopped'
  <2>1. Stage = "wait" /\ Stage' = "rows"
    <3>1. looked
      BY <1>3 DEF JoinEnds, LoopLeft, TimeIsUp, IInv, OneStep
    <3> QED
      BY <1>1, <1>3, <3>1, Stages
  <2>2. RowsAnswered' = {a \in Agents : JoinRows[a] = "answered"}
    BY <2>1 DEF JoinEnds, RowsAnswered
  <2>3. RowsAnswered' \in SUBSET Atomic!Reached
    <3>1. ASSUME NEW a \in Agents, JoinRows[a] = "answered" PROVE round = 0 \/ track[a] = round
      BY <3>1 DEF JoinRows, IInv, TypeOK, OneStep
    <3> QED
      BY <2>2, <3>1 DEF Atomic!Reached
  <2>4. RowsTimedOut' \in (IF RowsAnswered' = Agents THEN {FALSE} ELSE BOOLEAN)
    <3>1. RowsTimedOut' = (notDone # {})
      BY <2>1 DEF JoinEnds, RowsTimedOut
    <3>2. RowsAnswered' = Agents => notDone = {}
      BY <2>2 DEF JoinRows, IInv, TypeOK
    <3> QED
      BY <3>1, <3>2
  <2> QED
    BY <1>1, <2>1, <2>3, <2>4 DEF Atomic!Rows
<1> QED
  BY <1>2, <1>3

LEMMA EvaluateStages == IInv /\ Evaluate => [Atomic!Next]_(Atomic!vars)
<1> SUFFICES ASSUME IInv, Evaluate PROVE [Atomic!Next]_(Atomic!vars)
  OBVIOUS
<1>1. /\ main = "drain"
      /\ UNCHANGED <<cancelled, track>>
      /\ \/ main' = "done" /\ round' = round
         \/ main' = "next" /\ ~stopped /\ round < MaxRounds /\ round' = round + 1
  BY DEF Evaluate, PoolDrained, RoundsLeft, NextRound
<1>2. Stage' = main' /\ RowsAnswered' = {} /\ RowsTimedOut' = FALSE
  BY <1>1, Stages, Between
<1>3. CASE stopped
  BY <1>1, <1>2, <1>3, Stages, Between DEF Atomic!vars
<1>4. CASE ~stopped
  <2>1. Stage = "rows"
    BY <1>1, <1>4, Stages
  <2>2. Atomic!Decide
    BY <1>1, <1>2, <2>1 DEF Atomic!Decide
  <2> QED
    BY <2>2 DEF Atomic!Next
<1> QED
  BY <1>3, <1>4

LEMMA StopCancelledStages == IInv /\ StopCancelled => Atomic!JoinCancelled
BY Stages, Between DEF StopCancelled, Atomic!JoinCancelled

\* A session that has seen the flag is over already, so that cancel() comes before.
LEMMA CancelStages == IInv /\ Cancel => Atomic!Cancel
<1> SUFFICES ASSUME IInv, Cancel PROVE Atomic!Cancel
  OBVIOUS
<1>1. ~cancelled /\ cancelled' /\ main # "done" /\ UNCHANGED <<main, round, rows, wall, stopped, track, looked>>
  BY DEF Cancel, joinVars
<1>2. Stage # "done"
  BY <1>1, Stages DEF IInv, TypeOK, Places, OneStep
<1>3. UNCHANGED <<Stage, RowsAnswered, RowsTimedOut>>
  BY <1>1 DEF Stage, RowsAnswered, RowsTimedOut
<1> QED
  BY <1>2, <1>3 DEF Cancel, Atomic!Cancel

\* A thread that begins is one the round still waits for, and the agent it calls has
\* accepted the broadcast.
LEMMA BeginStages ==
    ASSUME IInv, NEW a \in Agents, Begin(a)
    PROVE  Atomic!Accept(a) \/ UNCHANGED Atomic!vars
<1>1. main \in InJoin
  BY DEF Begin, IInv, TypeOK, Places, CallsAreCurrent, OneStep
<1>2. /\ UNCHANGED <<Stage, round, cancelled, RowsAnswered, RowsTimedOut>>
      /\ Stage \in {"next", "wait"}
  BY <1>1, Stages, Between DEF Begin, joinVars
<1>3. CASE UNCHANGED track
  BY <1>2, <1>3 DEF Atomic!vars
<1>4. CASE track' # track
  <2>1. round > 0 /\ round >= track[a] /\ track' = [track EXCEPT ![a] = round]
    BY <1>4 DEF Begin, TryAccept, IInv, TypeOK
  <2> QED
    BY <1>2, <2>1 DEF Atomic!Accept
<1> QED
  BY <1>3, <1>4

LEMMA ReturnStages ==
    ASSUME NEW c \in calls, NEW how \in {"answered", "failed"}, Return(c, how)
    PROVE  UNCHANGED Atomic!vars
<1>1. UNCHANGED <<main, round, cancelled, rows, wall, stopped, track, looked>>
  BY DEF Return, joinVars
<1> QED
  BY <1>1 DEF Stage, RowsAnswered, RowsTimedOut, Atomic!vars

\* To the session a round is one step: its answers arrive together, from agents that
\* accepted its broadcast, a round that hit its deadline misses one, and only cancel()
\* drops a round (_join_expert_futures and the with statements around it).
THEOREM Refinement == Spec => ImplementsAtomicRounds
<1>1. IInv /\ [Next]_vars => [Atomic!Next]_(Atomic!vars)
  <2> SUFFICES ASSUME IInv, [Next]_vars PROVE [Atomic!Next]_(Atomic!vars)
    OBVIOUS
  <2>1. CASE UNCHANGED vars
    BY <2>1 DEF vars, joinVars, Stage, RowsAnswered, RowsTimedOut, Atomic!vars
  <2>2. CASE Coordinator
    BY <2>2, SubmitStages, LookStages, WaitStages, JoinEndsStages, EvaluateStages,
       StopCancelledStages DEF Coordinator, Atomic!Next
  <2>3. CASE DeadlinePasses
    BY <2>3, WaitStages
  <2>4. CASE Cancel
    BY <2>4, CancelStages DEF Atomic!Next
  <2>5. CASE \E a \in Agents : Begin(a)
    BY <2>5, BeginStages DEF Atomic!Next
  <2>6. CASE \E c \in calls : \E how \in {"answered", "failed"} : Return(c, how)
    BY <2>6, ReturnStages
  <2> QED
    BY <2>1, <2>2, <2>3, <2>4, <2>5, <2>6 DEF Next
<1> QED
  BY InitStages, Invariance, <1>1, PTL DEF Spec, ImplementsAtomicRounds, Atomic!Spec
=============================================================================
