---------------------------- MODULE AtomicRounds ----------------------------
(***************************************************************************)
(* What a session may take for granted of the collection of its rounds,    *)
(* and Aegean does: the answers of a round arrive in one step, they come   *)
(* from agents that the broadcast was not stale for, a round that hit its  *)
(* deadline misses somebody, no round begins after cancel(), and a round   *)
(* is dropped only because of it.                                          *)
(***************************************************************************)
EXTENDS Integers

CONSTANTS Agents, MaxRounds, TrackInit

VARIABLES
    stage,     \* "next": between two rounds; "wait": the workers run;
               \* "rows": the answers are there; "done"
    round,     \* the number of the round, 0 for Soln
    cancelled, \* cancel() was called
    answered,  \* the agents whose answers count, at stage "rows"
    wall,      \* the round hit its deadline, at stage "rows"
    track      \* the newest broadcast each agent has accepted

vars == <<stage, round, cancelled, answered, wall, track>>

Init ==
    /\ stage = "next"
    /\ round = 0
    /\ cancelled = FALSE
    /\ answered = {}
    /\ wall = FALSE
    /\ track = TrackInit

Cancel ==
    /\ ~cancelled
    /\ stage # "done"
    /\ cancelled' = TRUE
    /\ UNCHANGED <<stage, round, answered, wall, track>>

\* Agent a accepts the broadcast of the round, unless it has accepted a later one.
Accept(a) ==
    /\ stage \in {"next", "wait"}
    /\ round > 0
    /\ round >= track[a]
    /\ track' = [track EXCEPT ![a] = round]
    /\ UNCHANGED <<stage, round, cancelled, answered, wall>>

\* The round is on its way: what it brings counts, even if cancel() is called now.
Join ==
    /\ stage = "next"
    /\ ~cancelled
    /\ stage' = "wait"
    /\ UNCHANGED <<round, cancelled, answered, wall, track>>

\* The agents the broadcast has reached in this round.
Reached == {a \in Agents : round = 0 \/ track[a] = round}

\* Some of them answer in time.
Rows ==
    /\ stage = "wait"
    /\ stage' = "rows"
    /\ answered' \in SUBSET Reached
    /\ wall' \in (IF answered' = Agents THEN {FALSE} ELSE BOOLEAN)
    /\ UNCHANGED <<round, cancelled, track>>

\* The session goes on with the next round, or ends.
Decide ==
    /\ stage = "rows"
    /\ \/ stage' = "next" /\ round < MaxRounds /\ round' = round + 1
       \/ stage' = "done" /\ UNCHANGED round
    /\ answered' = {}
    /\ wall' = FALSE
    /\ UNCHANGED <<cancelled, track>>

\* cancel() takes effect before the round, or in the middle of it.
JoinCancelled ==
    /\ stage \in {"next", "wait"}
    /\ cancelled
    /\ stage' = "done"
    /\ UNCHANGED <<round, cancelled, answered, wall, track>>

Next ==
    \/ Cancel
    \/ \E a \in Agents : Accept(a)
    \/ Join
    \/ Rows
    \/ Decide
    \/ JoinCancelled

Spec == Init /\ [][Next]_vars
=============================================================================
