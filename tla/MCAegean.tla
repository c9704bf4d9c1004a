------------------------------ MODULE MCAegean ------------------------------
(* Instances of Aegean for TLC: three experts, at most one failure.          *)
EXTENDS Aegean, TLC

ThreeExperts == <<2, 1, 3>>

\* Agent 1 hops between two outputs, each of which has one other supporter; the
\* supporter of the second may also return None, ...
OneMayReturnNone == (1 :> {1, 2}) @@ (2 :> {1}) @@ (3 :> {None, 2})
\* ... or agents 1 and 2 insist on output 2 while agent 3 hops, None included.
TwoSteady == (1 :> {2}) @@ (2 :> {2}) @@ (3 :> {None, 1, 2})

FreshTracks == {[a \in 1..3 |-> 0]}
\* Agent 1 has already seen round 2 of an older session.
StaleTrack == {[a \in 1..3 |-> 0], (1 :> 2) @@ (2 :> 0) @@ (3 :> 0)}

Ack(a, t, r, s) == [agent |-> a, term |-> t, round |-> r, bottom |-> FALSE, refm |-> s]
BottomAck(a) == [agent |-> a, term |-> 0, round |-> 0, bottom |-> TRUE, refm |-> <<>>]

\* No acks, and a set above R that not all agents of the session share.
SomeAcks == {{}, {Ack(1, 1, 2, <<1, 1>>), Ack(2, 1, 3, <<1, 2, 2>>), BottomAck(3)}}
\* All bottom; an older and a newer set; a set below R.
RecoveryAcks ==
    {{BottomAck(1), BottomAck(2)},
     {Ack(1, 1, 2, <<1, 1>>), Ack(2, 1, 3, <<1, 2, 2>>), BottomAck(3)},
     {Ack(1, 2, 1, <<2, 2>>), Ack(3, 1, 5, <<1>>)},
     {Ack(2, 3, 1, <<1>>)}}
=============================================================================
