-------------------------- MODULE TcpSession_proofs --------------------------
(***************************************************************************)
(* Safety of the TCP session client, for any number of calls.              *)
(***************************************************************************)
EXTENDS TcpSession, TLAPS

\* connect() is for a client without a socket; past it there is one.
PlaceInv ==
    /\ caller \in {"idle", "connect"} \/ sock # "none"
    /\ caller = "connect" => sock = "none"
    /\ caller # "idle" => call \in Calls

\* Calls are made one after the other: those before the current one have ended,
\* it has not, and those after it have not begun.
OutcomeInv ==
    \A c \in Calls :
        outcome[c] = "none" <=> (c > call \/ (c = call /\ caller # "idle"))

Written == {"wait", "expired"}

\* The message ids under way, either way, are of calls that were written.
IsWritten(c) ==
    /\ c <= call
    /\ c = call => caller \in Written \cup {"idle"}
    /\ outcome[c] # "raised"

SentInv ==
    /\ \A i \in 1..Len(asked) : IsWritten(asked[i])
    /\ \A i \in 1..Len(answers) : IsWritten(answers[i])

\* A frame is stored under the id it carries, and for a written call.
PairInv ==
    /\ \A p \in pending : p[1] = p[2] /\ IsWritten(p[1])
    /\ reader \in {"none", "check", "read"} => errors = {}

\* What was delivered is there until its call takes it.
DeliveredInv ==
    (~failed /\ closer = "idle") =>
        \A c \in delivered : outcome[c] = "none" => <<c, c>> \in pending /\ c \notin errors

\* A call that waits is registered or woken, and close() leaves no open socket
\* behind unless connect() is about to take its flag back.
CloseInv ==
    /\ caller \in {"write", "wait"} => call \in events \cup woken
    /\ (closed /\ closer \in {"clear", "done"}) => (sock # "open" \/ caller = "starting")

IInv ==
    /\ TypeOK /\ PlaceInv /\ OutcomeInv /\ SentInv /\ PairInv /\ DeliveredInv /\ CloseInv
    /\ AnswersItsCall /\ MapsFollowTheCall /\ DeliveredIsReturned /\ CloseReleasesCall
-----------------------------------------------------------------------------
LEMMA InitIInv == Init => IInv
<1> USE SessionAssumption
<1> SUFFICES ASSUME Init PROVE IInv
  OBVIOUS
<1>1. TypeOK
  <2>1. << >> \in Seq(Calls)
    OBVIOUS
  <2>2. outcome \in [Calls -> Outcomes] /\ answer \in [Calls -> 0..MaxCalls]
    BY DEF Init, Outcomes
  <2>3. asked \in Seq(Calls) /\ answers \in Seq(Calls)
    BY <2>1 DEF Init
  <2>4. /\ caller \in CallerPlaces /\ closer \in CloserPlaces /\ link \in Links
        /\ call \in 0..MaxCalls
    BY DEF Init, CallerPlaces, CloserPlaces, Links
  <2>5. /\ events \subseteq Calls /\ woken \subseteq Calls /\ errors \subseteq Calls
        /\ delivered \subseteq Calls /\ pending \subseteq Calls \X Calls
    BY DEF Init
  <2>6. /\ sock = "none" /\ reader = "none" /\ closed = FALSE /\ failed = FALSE
    BY DEF Init
  <2> QED
    BY <2>2, <2>3, <2>4, <2>5, <2>6 DEF TypeOK
<1>2. PlaceInv /\ OutcomeInv /\ SentInv /\ PairInv /\ DeliveredInv /\ CloseInv
  BY DEF Init, PlaceInv, OutcomeInv, SentInv, PairInv, DeliveredInv, CloseInv, Calls
<1>3. AnswersItsCall /\ MapsFollowTheCall /\ DeliveredIsReturned /\ CloseReleasesCall
  BY DEF Init, AnswersItsCall, MapsFollowTheCall, DeliveredIsReturned, CloseReleasesCall
<1> QED  BY <1>1, <1>2, <1>3 DEF IInv

\* What is on its way to the agent after a write.
LEMMA AskedAfterWrite ==
    ASSUME TypeOK, call \in Calls, asked' \in {asked, Append(asked, call)}
    PROVE  \A i \in 1..Len(asked') :
               asked'[i] = call \/ (i \in 1..Len(asked) /\ asked'[i] = asked[i])
<1>1. asked \in Seq(Calls)
  BY DEF TypeOK
<1>2. CASE asked' = asked
  BY <1>1, <1>2
<1>3. CASE asked' = Append(asked, call)
  BY <1>1, <1>3
<1> QED  BY <1>2, <1>3

LEMMA Ids ==
    TypeOK => /\ \A i \in 1..Len(asked) : asked[i] \in Calls
              /\ \A i \in 1..Len(answers) : answers[i] \in Calls
BY DEF TypeOK

\* Types.
LEMMA TypeStep == IInv /\ [Next]_vars => TypeOK'
<1> SUFFICES ASSUME IInv, [Next]_vars PROVE TypeOK'
  OBVIOUS
<1> USE SessionAssumption DEF IInv, TypeOK, PlaceInv, Calls, CallerPlaces, CloserPlaces,
   Links, Outcomes,
           callVars, mapVars, netVars, history
<1>1. CASE Request
  BY <1>1 DEF Request, Connected
<1>2. CASE OpenSocket
  BY <1>2 DEF OpenSocket
<1>3. CASE ConnectRefused
  BY <1>3 DEF ConnectRefused, Finish
<1>4. CASE StartReader
  BY <1>4 DEF StartReader
<1>5. CASE Register
  BY <1>5 DEF Register
<1>6. CASE Write
  <2>1. outcome' \in [Calls -> Outcomes]
    BY <1>6 DEF Write, Finish
  <2>2. asked' \in Seq(Calls)
    <3>1. Append(asked, call) \in Seq(Calls)
      BY <1>6 DEF Write
    <3> QED  BY <1>6, <3>1 DEF Write
  <2>3. caller = "write" /\ caller' \in {"wait", "idle"} /\ call' = call
    BY <1>6 DEF Write, Finish
  <2>4. UNCHANGED <<answer, link, sock, closed, closer, reader, mapVars, answers, history>>
    BY <1>6 DEF Write
  <2> QED  BY <1>6, <2>1, <2>2, <2>3, <2>4 DEF Write
<1>7. CASE WaitExpires
  BY <1>7 DEF WaitExpires
<1>8. CASE TimedOut
  BY <1>8 DEF TimedOut, Finish, Forget
<1>9. CASE Collect
  <2>1. outcome' \in [Calls -> Outcomes]
    BY <1>9 DEF Collect, Finish
  <2>2. answer' \in [Calls -> 0..MaxCalls]
    <3>1. ASSUME NEW p \in pending, answer' = [answer EXCEPT ![call] = p[2]]
          PROVE  answer' \in [Calls -> 0..MaxCalls]
      <4>1. p[2] \in 0..MaxCalls
        OBVIOUS
      <4> QED  BY <3>1, <4>1
    <3> QED  BY <1>9, <3>1 DEF Collect
  <2>3. caller' = "idle" /\ call' = call
    BY <1>9 DEF Collect, Finish
  <2>4. /\ events' \subseteq Calls /\ pending' \subseteq Calls \X Calls
        /\ errors' \subseteq Calls /\ woken' = woken
    BY <1>9 DEF Collect, Forget
  <2> QED  BY <1>9, <2>1, <2>2, <2>3, <2>4 DEF Collect
<1>10. CASE ReaderChecks
  BY <1>10 DEF ReaderChecks
<1>11. CASE ReaderDelivers
  <2>1. Head(answers) \in Calls /\ Tail(answers) \in Seq(Calls)
    BY <1>11 DEF ReaderDelivers
  <2>2. pending' \subseteq Calls \X Calls
    BY <1>11, <2>1 DEF ReaderDelivers, KeysFor
  <2>3. woken' \subseteq Calls /\ delivered' \subseteq Calls
    BY <1>11, <2>1 DEF ReaderDelivers, KeysFor
  <2>4. answers' = Tail(answers) /\ reader' = "check"
    BY <1>11 DEF ReaderDelivers
  <2> QED  BY <1>11, <2>1, <2>2, <2>3, <2>4 DEF ReaderDelivers
<1>12. CASE ReaderMeetsEof
  BY <1>12 DEF ReaderMeetsEof, FailedByEof
<1>13. CASE ReaderFails
  BY <1>13 DEF ReaderFails
<1>14. CASE CloseBegins
  BY <1>14 DEF CloseBegins
<1>15. CASE CloseShutsDown
  BY <1>15 DEF CloseShutsDown
<1>16. CASE CloseClosesFile
  BY SMTT(30), <1>16 DEF CloseClosesFile
<1>17. CASE CloseWakes
  BY <1>17 DEF CloseWakes, WokenByClose
<1>18. CASE AgentAnswers
  BY SMTT(30), <1>18 DEF AgentAnswers
<1>19. CASE AgentCloses
  BY <1>19 DEF AgentCloses
<1>20. CASE LinkBreaks
  BY SMTT(30), <1>20 DEF LinkBreaks
<1>21. CASE UNCHANGED vars
  BY <1>21 DEF vars
<1> QED
  BY <1>1, <1>2, <1>3, <1>4, <1>5, <1>6, <1>7, <1>8, <1>9, <1>10, <1>11, <1>12,
     <1>13, <1>14, <1>15, <1>16, <1>17, <1>18, <1>19, <1>20, <1>21
     DEF Next, Caller, Reader, Closer

\* connect() comes first, and once.
LEMMA PlaceStep == IInv /\ [Next]_vars => PlaceInv'
<1> SUFFICES ASSUME IInv, [Next]_vars PROVE PlaceInv'
  OBVIOUS
<1> USE SessionAssumption DEF IInv, TypeOK, PlaceInv, Calls, callVars, mapVars, netVars,
   history
<1>1. CASE Request
  BY <1>1 DEF Request, Connected
<1>2. CASE OpenSocket
  BY <1>2 DEF OpenSocket
<1>3. CASE ConnectRefused
  BY <1>3 DEF ConnectRefused, Finish
<1>4. CASE StartReader
  BY <1>4 DEF StartReader
<1>5. CASE Register
  BY <1>5 DEF Register
<1>6. CASE Write
  BY <1>6 DEF Write, Finish
<1>7. CASE WaitExpires
  BY <1>7 DEF WaitExpires
<1>8. CASE TimedOut
  BY <1>8 DEF TimedOut, Finish, Forget
<1>9. CASE Collect
  BY <1>9 DEF Collect, Finish, Forget
<1>10. CASE ReaderChecks
  BY <1>10 DEF ReaderChecks
<1>11. CASE ReaderDelivers
  BY <1>11 DEF ReaderDelivers, KeysFor
<1>12. CASE ReaderMeetsEof
  BY <1>12 DEF ReaderMeetsEof, FailedByEof
<1>13. CASE ReaderFails
  BY <1>13 DEF ReaderFails
<1>14. CASE CloseBegins
  BY <1>14 DEF CloseBegins
<1>15. CASE CloseShutsDown
  BY <1>15 DEF CloseShutsDown
<1>16. CASE CloseClosesFile
  BY <1>16 DEF CloseClosesFile
<1>17. CASE CloseWakes
  BY <1>17 DEF CloseWakes, WokenByClose
<1>18. CASE AgentAnswers
  BY <1>18 DEF AgentAnswers
<1>19. CASE AgentCloses
  BY <1>19 DEF AgentCloses
<1>20. CASE LinkBreaks
  BY <1>20 DEF LinkBreaks
<1>21. CASE UNCHANGED vars
  BY <1>21 DEF vars
<1> QED
  BY <1>1, <1>2, <1>3, <1>4, <1>5, <1>6, <1>7, <1>8, <1>9, <1>10, <1>11, <1>12,
     <1>13, <1>14, <1>15, <1>16, <1>17, <1>18, <1>19, <1>20, <1>21
     DEF Next, Caller, Reader, Closer

\* A call ends before the next one begins.
LEMMA OutcomeStep == IInv /\ [Next]_vars => OutcomeInv'
<1> SUFFICES ASSUME IInv, [Next]_vars PROVE OutcomeInv'
  OBVIOUS
<1> USE SessionAssumption DEF IInv, TypeOK, PlaceInv, OutcomeInv, Calls, callVars,
   mapVars, netVars, history
<1>1. CASE Request
  BY <1>1 DEF Request, Connected
<1>2. CASE OpenSocket
  BY <1>2 DEF OpenSocket
<1>3. CASE ConnectRefused
  BY <1>3 DEF ConnectRefused, Finish
<1>4. CASE StartReader
  BY <1>4 DEF StartReader
<1>5. CASE Register
  BY <1>5 DEF Register
<1>6. CASE Write
  BY <1>6 DEF Write, Finish
<1>7. CASE WaitExpires
  BY <1>7 DEF WaitExpires
<1>8. CASE TimedOut
  BY <1>8 DEF TimedOut, Finish, Forget
<1>9. CASE Collect
  BY SMTT(30), <1>9 DEF Collect, Finish, Forget
<1>10. CASE ReaderChecks
  BY <1>10 DEF ReaderChecks
<1>11. CASE ReaderDelivers
  BY <1>11 DEF ReaderDelivers, KeysFor
<1>12. CASE ReaderMeetsEof
  BY <1>12 DEF ReaderMeetsEof, FailedByEof
<1>13. CASE ReaderFails
  BY <1>13 DEF ReaderFails
<1>14. CASE CloseBegins
  BY <1>14 DEF CloseBegins
<1>15. CASE CloseShutsDown
  BY <1>15 DEF CloseShutsDown
<1>16. CASE CloseClosesFile
  BY <1>16 DEF CloseClosesFile
<1>17. CASE CloseWakes
  BY <1>17 DEF CloseWakes, WokenByClose
<1>18. CASE AgentAnswers
  BY <1>18 DEF AgentAnswers
<1>19. CASE AgentCloses
  BY <1>19 DEF AgentCloses
<1>20. CASE LinkBreaks
  BY <1>20 DEF LinkBreaks
<1>21. CASE UNCHANGED vars
  BY <1>21 DEF vars
<1> QED
  BY <1>1, <1>2, <1>3, <1>4, <1>5, <1>6, <1>7, <1>8, <1>9, <1>10, <1>11, <1>12,
     <1>13, <1>14, <1>15, <1>16, <1>17, <1>18, <1>19, <1>20, <1>21
     DEF Next, Caller, Reader, Closer

\* The agent answers what was written.
LEMMA SentStep == IInv /\ [Next]_vars => SentInv'
<1> SUFFICES ASSUME IInv, [Next]_vars PROVE SentInv'
  OBVIOUS
<1> USE SessionAssumption DEF IInv, TypeOK, PlaceInv, OutcomeInv, SentInv, IsWritten,
   Written, Calls,
           callVars, mapVars, netVars, history
<1>1. CASE Request
  <2>1. call' = call + 1 /\ caller = "idle" /\ call \in Int
    BY <1>1 DEF Request
  <2>2. asked' = asked /\ answers' = answers /\ outcome' = outcome
    BY <1>1 DEF Request
  <2>3. \A c \in Calls : IsWritten(c) => IsWritten(c)'
    BY <2>1, <2>2
  <2>4. /\ \A i \in 1..Len(asked) : asked[i] \in Calls
        /\ \A i \in 1..Len(answers) : answers[i] \in Calls
    BY Ids
  <2> QED  BY <2>2, <2>3, <2>4
<1>2. CASE OpenSocket
  BY <1>2 DEF OpenSocket
<1>3. CASE ConnectRefused
  BY SMTT(30), <1>3 DEF ConnectRefused, Finish
<1>4. CASE StartReader
  BY <1>4 DEF StartReader
<1>5. CASE Register
  BY <1>5 DEF Register
<1>6. CASE Write
  <2>1. CASE caller' = "wait"
    <3>1. /\ caller = "write" /\ call' = call /\ outcome' = outcome /\ answers' = answers
          /\ asked' \in {asked, Append(asked, call)}
      BY <1>6, <2>1 DEF Write, Finish
    <3>2. outcome[call] # "raised" /\ call \in Calls
      BY <3>1
    <3>3. \A c \in Calls : IsWritten(c) \/ c = call => IsWritten(c)'
      BY <2>1, <3>1, <3>2
    <3>4. \A i \in 1..Len(asked') : asked'[i] = call \/ (i \in 1..Len(asked) /\ asked'[i] = asked[i])
      BY <3>1, <3>2, AskedAfterWrite
    <3> QED  BY <3>1, <3>2, <3>3, <3>4
  <2>2. CASE caller' # "wait"
    <3>1. /\ caller = "write" /\ call' = call /\ asked' = asked /\ answers' = answers
          /\ outcome' = [outcome EXCEPT ![call] = "raised"]
      BY <1>6, <2>2 DEF Write, Finish
    <3>2. \A c \in Calls : IsWritten(c) => IsWritten(c)'
      BY <3>1
    <3> QED  BY SMTT(30), <3>1, <3>2
  <2> QED  BY <2>1, <2>2
<1>7. CASE WaitExpires
  BY <1>7 DEF WaitExpires
<1>8. CASE TimedOut
  BY SMTT(30), <1>8 DEF TimedOut, Finish, Forget
<1>9. CASE Collect
  <2>1. /\ call' = call /\ caller' = "idle" /\ caller = "wait"
        /\ asked' = asked /\ answers' = answers
    BY <1>9 DEF Collect, Finish
  <2>2. \A c \in Calls : outcome'[c] = outcome[c] \/ (c = call /\ outcome'[c] # "raised")
    BY <1>9 DEF Collect, Finish
  <2>3. \A c \in Calls : IsWritten(c) => IsWritten(c)'
    BY <2>1, <2>2
  <2> QED  BY Ids, <2>1, <2>3
<1>10. CASE ReaderChecks
  BY <1>10 DEF ReaderChecks
<1>11. CASE ReaderDelivers
  BY <1>11 DEF ReaderDelivers, KeysFor
<1>12. CASE ReaderMeetsEof
  BY <1>12 DEF ReaderMeetsEof, FailedByEof
<1>13. CASE ReaderFails
  BY <1>13 DEF ReaderFails
<1>14. CASE CloseBegins
  BY <1>14 DEF CloseBegins
<1>15. CASE CloseShutsDown
  BY <1>15 DEF CloseShutsDown
<1>16. CASE CloseClosesFile
  BY <1>16 DEF CloseClosesFile
<1>17. CASE CloseWakes
  BY <1>17 DEF CloseWakes, WokenByClose
<1>18. CASE AgentAnswers
  <2>1. call' = call /\ caller' = caller /\ outcome' = outcome
    BY <1>18 DEF AgentAnswers
  <2>2. \A i \in 1..Len(asked') : asked'[i] = asked[i + 1] /\ i + 1 \in 1..Len(asked)
    BY <1>18 DEF AgentAnswers
  <2>3. 1 \in 1..Len(asked)
    BY <1>18 DEF AgentAnswers
  <2>4. ASSUME NEW i \in 1..Len(answers')
        PROVE  answers'[i] = asked[1] \/ (i \in 1..Len(answers) /\ answers'[i] = answers[i])
    <3>1. answers' = Append(answers, asked[1])
      BY <1>18 DEF AgentAnswers
    <3> QED  BY <2>3, <3>1
  <2>5. \A c \in Calls : IsWritten(c) => IsWritten(c)'
    BY <2>1
  <2>6. (\A i \in 1..Len(asked) : IsWritten(asked[i]))'
    BY Ids, <2>1, <2>2
  <2>7. (\A i \in 1..Len(answers) : IsWritten(answers[i]))'
    BY Ids, <2>1, <2>3, <2>4
  <2> QED  BY <2>6, <2>7
<1>19. CASE AgentCloses
  BY <1>19 DEF AgentCloses
<1>20. CASE LinkBreaks
  BY <1>20 DEF LinkBreaks
<1>21. CASE UNCHANGED vars
  BY <1>21 DEF vars
<1> QED
  BY <1>1, <1>2, <1>3, <1>4, <1>5, <1>6, <1>7, <1>8, <1>9, <1>10, <1>11, <1>12,
     <1>13, <1>14, <1>15, <1>16, <1>17, <1>18, <1>19, <1>20, <1>21
     DEF Next, Caller, Reader, Closer

\* The reader stores a frame under its own id, and leaves once.
LEMMA PairStep == IInv /\ [Next]_vars => PairInv'
<1> SUFFICES ASSUME IInv, [Next]_vars PROVE PairInv'
  OBVIOUS
<1> USE SessionAssumption DEF IInv, TypeOK, PlaceInv, OutcomeInv, SentInv, PairInv,
   IsWritten,
           Written, Calls, callVars, mapVars, netVars, history
<1>1. CASE Request
  BY <1>1 DEF Request, Connected
<1>2. CASE OpenSocket
  BY <1>2 DEF OpenSocket
<1>3. CASE ConnectRefused
  BY <1>3 DEF ConnectRefused, Finish
<1>4. CASE StartReader
  BY <1>4 DEF StartReader
<1>5. CASE Register
  BY <1>5 DEF Register
<1>6. CASE Write
  BY <1>6 DEF Write, Finish
<1>7. CASE WaitExpires
  BY <1>7 DEF WaitExpires
<1>8. CASE TimedOut
  BY <1>8 DEF TimedOut, Finish, Forget
<1>9. CASE Collect
  BY SMTT(30), <1>9 DEF Collect, Finish, Forget
<1>10. CASE ReaderChecks
  BY <1>10 DEF ReaderChecks
<1>11. CASE ReaderDelivers
  BY SMTT(30), <1>11 DEF ReaderDelivers, KeysFor
<1>12. CASE ReaderMeetsEof
  BY <1>12 DEF ReaderMeetsEof, FailedByEof
<1>13. CASE ReaderFails
  BY <1>13 DEF ReaderFails
<1>14. CASE CloseBegins
  BY <1>14 DEF CloseBegins
<1>15. CASE CloseShutsDown
  BY <1>15 DEF CloseShutsDown
<1>16. CASE CloseClosesFile
  BY <1>16 DEF CloseClosesFile
<1>17. CASE CloseWakes
  BY <1>17 DEF CloseWakes, WokenByClose
<1>18. CASE AgentAnswers
  BY <1>18 DEF AgentAnswers
<1>19. CASE AgentCloses
  BY <1>19 DEF AgentCloses
<1>20. CASE LinkBreaks
  BY <1>20 DEF LinkBreaks
<1>21. CASE UNCHANGED vars
  BY <1>21 DEF vars
<1> QED
  BY <1>1, <1>2, <1>3, <1>4, <1>5, <1>6, <1>7, <1>8, <1>9, <1>10, <1>11, <1>12,
     <1>13, <1>14, <1>15, <1>16, <1>17, <1>18, <1>19, <1>20, <1>21
     DEF Next, Caller, Reader, Closer

\* A call takes the frame stored under its id.
LEMMA AnswerStep == IInv /\ [Next]_vars => AnswersItsCall'
<1> SUFFICES ASSUME IInv, [Next]_vars PROVE AnswersItsCall'
  OBVIOUS
<1> USE SessionAssumption DEF IInv, TypeOK, PlaceInv, PairInv, AnswersItsCall, Calls,
   callVars, mapVars, netVars, history
<1>1. CASE Request
  BY <1>1 DEF Request, Connected
<1>2. CASE OpenSocket
  BY <1>2 DEF OpenSocket
<1>3. CASE ConnectRefused
  BY <1>3 DEF ConnectRefused, Finish
<1>4. CASE StartReader
  BY <1>4 DEF StartReader
<1>5. CASE Register
  BY <1>5 DEF Register
<1>6. CASE Write
  BY <1>6 DEF Write, Finish
<1>7. CASE WaitExpires
  BY <1>7 DEF WaitExpires
<1>8. CASE TimedOut
  BY <1>8 DEF TimedOut, Finish, Forget
<1>9. CASE Collect
  BY <1>9 DEF Collect, Finish, Forget
<1>10. CASE ReaderChecks
  BY <1>10 DEF ReaderChecks
<1>11. CASE ReaderDelivers
  BY <1>11 DEF ReaderDelivers, KeysFor
<1>12. CASE ReaderMeetsEof
  BY <1>12 DEF ReaderMeetsEof, FailedByEof
<1>13. CASE ReaderFails
  BY <1>13 DEF ReaderFails
<1>14. CASE CloseBegins
  BY <1>14 DEF CloseBegins
<1>15. CASE CloseShutsDown
  BY <1>15 DEF CloseShutsDown
<1>16. CASE CloseClosesFile
  BY <1>16 DEF CloseClosesFile
<1>17. CASE CloseWakes
  BY <1>17 DEF CloseWakes, WokenByClose
<1>18. CASE AgentAnswers
  BY <1>18 DEF AgentAnswers
<1>19. CASE AgentCloses
  BY <1>19 DEF AgentCloses
<1>20. CASE LinkBreaks
  BY <1>20 DEF LinkBreaks
<1>21. CASE UNCHANGED vars
  BY <1>21 DEF vars
<1> QED
  BY <1>1, <1>2, <1>3, <1>4, <1>5, <1>6, <1>7, <1>8, <1>9, <1>10, <1>11, <1>12,
     <1>13, <1>14, <1>15, <1>16, <1>17, <1>18, <1>19, <1>20, <1>21
     DEF Next, Caller, Reader, Closer

\* A late frame finds no key: its call has popped it, or close() has.
LEMMA MapsStep == IInv /\ [Next]_vars => MapsFollowTheCall'
<1> SUFFICES ASSUME IInv, [Next]_vars PROVE MapsFollowTheCall'
  OBVIOUS
<1> USE SessionAssumption DEF IInv, TypeOK, PlaceInv, OutcomeInv, SentInv, PairInv,
   MapsFollowTheCall,
           IsWritten, Written, Calls, callVars, mapVars, netVars, history
<1>1. CASE Request
  BY <1>1 DEF Request, Connected
<1>2. CASE OpenSocket
  BY <1>2 DEF OpenSocket
<1>3. CASE ConnectRefused
  BY <1>3 DEF ConnectRefused, Finish
<1>4. CASE StartReader
  BY <1>4 DEF StartReader
<1>5. CASE Register
  BY <1>5 DEF Register
<1>6. CASE Write
  BY <1>6 DEF Write, Finish
<1>7. CASE WaitExpires
  BY <1>7 DEF WaitExpires
<1>8. CASE TimedOut
  BY <1>8 DEF TimedOut, Finish, Forget
<1>9. CASE Collect
  BY <1>9 DEF Collect, Finish, Forget
<1>10. CASE ReaderChecks
  BY <1>10 DEF ReaderChecks
<1>11. CASE ReaderDelivers
  <2>1. 1 \in 1..Len(answers) /\ Head(answers) = answers[1] /\ answers[1] \in Calls
    BY <1>11 DEF ReaderDelivers
  <2>2. ASSUME NEW p \in pending' PROVE p \in pending \/ (p[1] = answers[1] /\ p[1] \in events)
    BY <1>11, <2>1 DEF ReaderDelivers, KeysFor
  <2>3. IsWritten(answers[1])
    BY <2>1
  <2>4. UNCHANGED <<caller, call, outcome, events, errors>>
    BY <1>11 DEF ReaderDelivers
  <2>5. ASSUME NEW p \in pending', p \notin pending
        PROVE  caller \in {"write", "wait", "expired"} /\ p[1] = call
    BY <2>2, <2>3, <2>5
  <2> QED  BY <2>4, <2>5
<1>12. CASE ReaderMeetsEof
  BY <1>12 DEF ReaderMeetsEof, FailedByEof
<1>13. CASE ReaderFails
  BY <1>13 DEF ReaderFails
<1>14. CASE CloseBegins
  BY <1>14 DEF CloseBegins
<1>15. CASE CloseShutsDown
  BY <1>15 DEF CloseShutsDown
<1>16. CASE CloseClosesFile
  BY <1>16 DEF CloseClosesFile
<1>17. CASE CloseWakes
  BY <1>17 DEF CloseWakes, WokenByClose
<1>18. CASE AgentAnswers
  BY <1>18 DEF AgentAnswers
<1>19. CASE AgentCloses
  BY <1>19 DEF AgentCloses
<1>20. CASE LinkBreaks
  BY <1>20 DEF LinkBreaks
<1>21. CASE UNCHANGED vars
  BY <1>21 DEF vars
<1> QED
  BY <1>1, <1>2, <1>3, <1>4, <1>5, <1>6, <1>7, <1>8, <1>9, <1>10, <1>11, <1>12,
     <1>13, <1>14, <1>15, <1>16, <1>17, <1>18, <1>19, <1>20, <1>21
     DEF Next, Caller, Reader, Closer

\* The end of the stream spares what was delivered.
LEMMA DeliveredStep == IInv /\ [Next]_vars => DeliveredInv' /\ DeliveredIsReturned'
<1> SUFFICES ASSUME IInv, [Next]_vars PROVE DeliveredInv' /\ DeliveredIsReturned'
  OBVIOUS
<1> USE SessionAssumption DEF IInv, TypeOK, PlaceInv, OutcomeInv, SentInv, PairInv,
   MapsFollowTheCall,
           DeliveredInv, DeliveredIsReturned, IsWritten, Written, Calls, callVars,
           mapVars, netVars, history
<1>1. CASE Request
  BY <1>1 DEF Request, Connected
<1>2. CASE OpenSocket
  BY <1>2 DEF OpenSocket
<1>3. CASE ConnectRefused
  BY <1>3 DEF ConnectRefused, Finish
<1>4. CASE StartReader
  BY <1>4 DEF StartReader
<1>5. CASE Register
  BY <1>5 DEF Register
<1>6. CASE Write
  BY <1>6 DEF Write, Finish
<1>7. CASE WaitExpires
  BY <1>7 DEF WaitExpires
<1>8. CASE TimedOut
  BY <1>8 DEF TimedOut, Finish, Forget
<1>9. CASE Collect
  <2>1. UNCHANGED <<failed, closer, delivered>> /\ caller = "wait"
    BY <1>9 DEF Collect
  <2>2. \A c \in Calls : c # call => outcome'[c] = outcome[c]
    BY <1>9 DEF Collect, Finish
  <2>3. outcome[call] = "none" /\ outcome'[call] # "none"
    BY <1>9 DEF Collect, Finish
  <2>4. ASSUME ~failed, closer = "idle", call \in delivered
        PROVE  outcome'[call] \notin {"error", "missing"}
    <3>1. <<call, call>> \in pending /\ call \notin errors
      BY <2>3, <2>4
    <3>2. ~(\A p \in pending : p[1] # call)
      BY <3>1
    <3> QED  BY <1>9, <3>1, <3>2 DEF Collect, Finish
  <2>5. DeliveredIsReturned'
    BY <2>1, <2>2, <2>4
  <2>6. ASSUME NEW c \in delivered, ~failed, closer = "idle", outcome'[c] = "none"
        PROVE  <<c, c>> \in pending' /\ c \notin errors'
    <3>1. c # call /\ outcome[c] = "none"
      BY <2>2, <2>3, <2>6
    <3>2. <<c, c>> \in pending /\ c \notin errors
      BY <2>6, <3>1
    <3> QED  BY <1>9, <3>1, <3>2 DEF Collect, Forget
  <2> QED  BY <2>1, <2>5, <2>6
<1>10. CASE ReaderChecks
  BY <1>10 DEF ReaderChecks
<1>11. CASE ReaderDelivers
  BY <1>11 DEF ReaderDelivers, KeysFor
<1>12. CASE ReaderMeetsEof
  BY <1>12 DEF ReaderMeetsEof, FailedByEof
<1>13. CASE ReaderFails
  BY <1>13 DEF ReaderFails
<1>14. CASE CloseBegins
  BY <1>14 DEF CloseBegins
<1>15. CASE CloseShutsDown
  BY <1>15 DEF CloseShutsDown
<1>16. CASE CloseClosesFile
  BY <1>16 DEF CloseClosesFile
<1>17. CASE CloseWakes
  BY <1>17 DEF CloseWakes, WokenByClose
<1>18. CASE AgentAnswers
  BY <1>18 DEF AgentAnswers
<1>19. CASE AgentCloses
  BY <1>19 DEF AgentCloses
<1>20. CASE LinkBreaks
  BY <1>20 DEF LinkBreaks
<1>21. CASE UNCHANGED vars
  BY <1>21 DEF vars
<1> QED
  BY <1>1, <1>2, <1>3, <1>4, <1>5, <1>6, <1>7, <1>8, <1>9, <1>10, <1>11, <1>12,
     <1>13, <1>14, <1>15, <1>16, <1>17, <1>18, <1>19, <1>20, <1>21
     DEF Next, Caller, Reader, Closer

\* Whoever waits when close() is through was registered when it woke the calls.
LEMMA CloseStep == IInv /\ [Next]_vars => CloseInv' /\ CloseReleasesCall'
<1> SUFFICES ASSUME IInv, [Next]_vars PROVE CloseInv' /\ CloseReleasesCall'
  OBVIOUS
<1> USE SessionAssumption DEF IInv, TypeOK, PlaceInv, CloseInv, CloseReleasesCall, Calls,
   callVars, mapVars, netVars, history
<1>1. CASE Request
  BY <1>1 DEF Request, Connected
<1>2. CASE OpenSocket
  BY <1>2 DEF OpenSocket
<1>3. CASE ConnectRefused
  BY <1>3 DEF ConnectRefused, Finish
<1>4. CASE StartReader
  BY <1>4 DEF StartReader
<1>5. CASE Register
  BY <1>5 DEF Register
<1>6. CASE Write
  BY <1>6 DEF Write, Finish
<1>7. CASE WaitExpires
  BY <1>7 DEF WaitExpires
<1>8. CASE TimedOut
  BY <1>8 DEF TimedOut, Finish, Forget
<1>9. CASE Collect
  BY <1>9 DEF Collect, Finish, Forget
<1>10. CASE ReaderChecks
  BY <1>10 DEF ReaderChecks
<1>11. CASE ReaderDelivers
  BY <1>11 DEF ReaderDelivers, KeysFor
<1>12. CASE ReaderMeetsEof
  BY <1>12 DEF ReaderMeetsEof, FailedByEof
<1>13. CASE ReaderFails
  BY <1>13 DEF ReaderFails
<1>14. CASE CloseBegins
  BY <1>14 DEF CloseBegins
<1>15. CASE CloseShutsDown
  BY <1>15 DEF CloseShutsDown
<1>16. CASE CloseClosesFile
  BY <1>16 DEF CloseClosesFile
<1>17. CASE CloseWakes
  BY <1>17 DEF CloseWakes, WokenByClose
<1>18. CASE AgentAnswers
  BY <1>18 DEF AgentAnswers
<1>19. CASE AgentCloses
  BY <1>19 DEF AgentCloses
<1>20. CASE LinkBreaks
  BY <1>20 DEF LinkBreaks
<1>21. CASE UNCHANGED vars
  BY <1>21 DEF vars
<1> QED
  BY <1>1, <1>2, <1>3, <1>4, <1>5, <1>6, <1>7, <1>8, <1>9, <1>10, <1>11, <1>12,
     <1>13, <1>14, <1>15, <1>16, <1>17, <1>18, <1>19, <1>20, <1>21
     DEF Next, Caller, Reader, Closer
-----------------------------------------------------------------------------
\* The parts are one invariant: each step lemma above rests on the others.
THEOREM Invariance == Spec => []IInv
<1>1. IInv /\ [Next]_vars => IInv'
  BY TypeStep, PlaceStep, OutcomeStep, SentStep, PairStep, AnswerStep, MapsStep,
     DeliveredStep, CloseStep
     DEF IInv
<1> QED  BY InitIInv, <1>1, PTL DEF Spec

\* Type correctness of the client; the reader lives exactly from the end of connect()
\* (tcp_session.py:85-95).
THEOREM TypeCorrect == Spec => []TypeOK
<1>1. IInv => TypeOK
  BY DEF IInv
<1> QED  BY Invariance, <1>1, PTL

\* No call returns the answer of another one, however late that one comes
\* (tcp_session.py:123-170).
THEOREM AnswersMeetTheirCalls == Spec => []AnswersItsCall
<1>1. IInv => AnswersItsCall
  BY DEF IInv
<1> QED  BY Invariance, <1>1, PTL

\* The three maps never hold more than the call under way and calls whose write failed
\* (tcp_session.py:128-150).
THEOREM MapsAreClean == Spec => []MapsFollowTheCall
<1>1. IInv => MapsFollowTheCall
  BY DEF IInv
<1> QED  BY Invariance, <1>1, PTL

\* An answer that arrived before the agent closed is returned
\* (tcp_session.py:158-184).
THEOREM DeliveriesSurviveTheEnd == Spec => []DeliveredIsReturned
<1>1. IInv => DeliveredIsReturned
  BY DEF IInv
<1> QED  BY Invariance, <1>1, PTL

\* When close() has returned, no call waits for its timeout (tcp_session.py:97-121).
THEOREM CloseReleasesAll == Spec => []CloseReleasesCall
<1>1. IInv => CloseReleasesCall
  BY DEF IInv
<1> QED  BY Invariance, <1>1, PTL
=============================================================================
