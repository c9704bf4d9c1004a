----------------------------- MODULE TcpSession -----------------------------
(***************************************************************************)
(* TcpSessionClient (network_monitor/tcp_session.py): one connection to an *)
(* agent, requests and answers matched by message id.  Four processes meet *)
(* in it: the worker that makes the calls, one after the other (a round    *)
(* waits for its workers, see RoundCollection), the reader thread, close() *)
(* from the thread that cancels the run, and the agent at the other end.   *)
(*                                                                         *)
(* A section under _pending_lock is one step; everything else is a step    *)
(* per statement that another thread can tell apart.  Message ids are the  *)
(* numbers of the calls.                                                   *)
(***************************************************************************)
EXTENDS Integers, Sequences

CONSTANT MaxCalls   \* bound: calls of one session

ASSUME SessionAssumption == MaxCalls \in Nat

VARIABLES
    caller,   \* where request() is: see CallerPlaces
    call,     \* the message id of the current or last call
    outcome,  \* how each call ended
    answer,   \* the message id of the frame a call returned
    link,     \* the connection: see Links
    sock,     \* _sock and _sock_file: "none", "open", "closed"
    closed,   \* the event _closed
    closer,   \* where close() is: see CloserPlaces
    reader,   \* the reader thread: "none", "check", "read", "dead"
    events,   \* the keys of _pending_events
    woken,    \* the calls whose Event is set
    pending,  \* _pending: pairs of a key and the id in the frame stored there
    errors,   \* the keys of _pending_errors
    asked,    \* requests the agent has not answered, in order
    answers,  \* answers the reader has not read, in order
    delivered,\* history: the calls whose answer was delivered while they waited
    failed    \* history: the reader left by an exception other than EOFError

callVars == <<caller, call, outcome, answer>>
mapVars == <<events, woken, pending, errors>>
netVars == <<asked, answers>>
history == <<delivered, failed>>
vars == <<callVars, link, sock, closed, closer, reader, mapVars, netVars, history>>

Calls == 1..MaxCalls
CallerPlaces == {"idle", "connect", "starting", "register", "write", "wait", "expired"}
CloserPlaces == {"idle", "shutdown", "file", "clear", "done"}

\* "shut" is this side's shutdown(SHUT_RDWR), "ended" the agent's close, "broken"
\* a reset.
Links == {"none", "up", "shut", "ended", "broken"}

Outcomes == {"none", "answer", "error", "missing", "timeout", "raised"}

Init ==
    /\ caller = "idle"
    /\ call = 0
    /\ outcome = [c \in Calls |-> "none"]
    /\ answer = [c \in Calls |-> 0]
    /\ link = "none"
    /\ sock = "none"
    /\ closed = FALSE
    /\ closer = "idle"
    /\ reader = "none"
    /\ events = {} /\ woken = {} /\ pending = {} /\ errors = {}
    /\ asked = << >> /\ answers = << >>
    /\ delivered = {} /\ failed = FALSE
-----------------------------------------------------------------------------
(* The worker: request(), and connect() inside it.                         *)

\* request() returns or raises; _TcpAgent turns an exception into ok=False.
Finish(how) ==
    /\ caller' = "idle"
    /\ outcome' = [outcome EXCEPT ![call] = how]
    /\ UNCHANGED call

\* Fault: connect() opens a new socket in place of a closed one.
ConnectedIfOpen == sock = "open"

\* "if self._sock is not None": a closed socket counts.
Connected == sock # "none"

Request ==
    /\ caller = "idle"
    /\ call < MaxCalls
    /\ call' = call + 1
    /\ caller' = IF Connected THEN "register" ELSE "connect"
    /\ UNCHANGED <<outcome, answer, link, sock, closed, closer, reader, mapVars,
                   netVars, history>>

\* create_connection and makefile.
OpenSocket ==
    /\ caller = "connect"
    /\ caller' = "starting"
    /\ link' = "up"
    /\ sock' = "open"
    /\ UNCHANGED <<call, outcome, answer, closed, closer, reader, mapVars, netVars,
                   history>>

ConnectRefused ==
    /\ caller = "connect"
    /\ Finish("raised")
    /\ UNCHANGED <<answer, link, sock, closed, closer, reader, mapVars, netVars,
                   history>>

StartReader ==
    /\ caller = "starting"
    /\ caller' = "register"
    /\ closed' = FALSE
    /\ reader' = "check"
    /\ UNCHANGED <<call, outcome, answer, link, sock, closer, mapVars, netVars,
                   history>>

Register ==
    /\ caller = "register"
    /\ caller' = "write"
    /\ events' = events \cup {call}
    /\ UNCHANGED <<call, outcome, answer, link, sock, closed, closer, reader, woken,
                   pending, errors, netVars, history>>

\* A frame written to an agent that has closed may go without an error.
Write ==
    /\ caller = "write"
    /\ \/ /\ sock = "open"
          /\ link \in {"up", "ended"}
          /\ caller' = "wait"
          /\ asked' = IF link = "up" THEN Append(asked, call) ELSE asked
          /\ UNCHANGED <<call, outcome>>
       \/ /\ sock = "closed" \/ link # "up"
          /\ Finish("raised")
          /\ UNCHANGED asked
    /\ UNCHANGED <<answer, link, sock, closed, closer, reader, mapVars, answers,
                   history>>

\* Fault: ev.wait() without its timeout.
WaitForEver == FALSE

\* ev.wait returns False.
WaitExpires ==
    /\ caller = "wait"
    /\ call \notin woken
    /\ caller' = "expired"
    /\ UNCHANGED <<call, outcome, answer, link, sock, closed, closer, reader, mapVars,
                   netVars, history>>

\* The three pops by message id.
Forget ==
    /\ events' = events \ {call}
    /\ pending' = {p \in pending : p[1] # call}
    /\ errors' = errors \ {call}
    /\ UNCHANGED woken

TimedOut ==
    /\ caller = "expired"
    /\ Finish("timeout")
    /\ Forget
    /\ UNCHANGED <<answer, link, sock, closed, closer, reader, netVars, history>>

\* An error wins over a frame; without either there is no payload.
Collect ==
    /\ caller = "wait"
    /\ call \in woken
    /\ Forget
    /\ \/ /\ call \in errors
          /\ Finish("error")
          /\ UNCHANGED answer
       \/ \E p \in pending :
              /\ p[1] = call
              /\ call \notin errors
              /\ Finish("answer")
              /\ answer' = [answer EXCEPT ![call] = p[2]]
       \/ /\ call \notin errors
          /\ \A p \in pending : p[1] # call
          /\ Finish("missing")
          /\ UNCHANGED answer
    /\ UNCHANGED <<link, sock, closed, closer, reader, netVars, history>>
-----------------------------------------------------------------------------
(* The reader thread.                                                      *)

ReaderChecks ==
    /\ reader = "check"
    /\ reader' = IF closed THEN "dead" ELSE "read"
    /\ UNCHANGED <<callVars, link, sock, closed, closer, mapVars, netVars, history>>

\* Fault: the frame goes to whoever waits.
KeysOfAnyone(id) == events

\* Fault: the frame is stored whether or not somebody waits for it.
KeysUnchecked(id) == {id}

\* The keys a frame is stored under.
KeysFor(id) == {id} \cap events

ReaderDelivers ==
    /\ reader = "read"
    /\ sock = "open"
    /\ answers # << >>
    /\ LET keys == KeysFor(Head(answers)) IN
           /\ pending' = pending \cup (keys \X {Head(answers)})
           /\ woken' = woken \cup keys
           /\ delivered' = delivered \cup (keys \cap {Head(answers)})
    /\ answers' = Tail(answers)
    /\ reader' = "check"
    /\ UNCHANGED <<callVars, link, sock, closed, closer, events, errors, asked, failed>>

\* Fault: no continue for the calls that have their answer.
FailedByEofAll == events

\* "Peer closed connection. Keep already-delivered responses intact."
FailedByEof == {c \in events : \A p \in pending : p[1] # c}

\* EOFError: nothing more comes, from either end.
ReaderMeetsEof ==
    /\ reader = "read"
    /\ sock = "open"
    /\ answers = << >>
    /\ link \in {"ended", "shut"}
    /\ errors' = errors \cup FailedByEof
    /\ woken' = woken \cup FailedByEof
    /\ reader' = "dead"
    /\ UNCHANGED <<callVars, link, sock, closed, closer, events, pending, netVars,
                   history>>

\* Any other exception: a closed file, a reset, or no byte for timeout_s (the
\* socket keeps the timeout of create_connection).
ReaderFails ==
    /\ reader = "read"
    /\ \/ sock = "closed"
       \/ link = "broken"
       \/ answers = << >> /\ link = "up"
    /\ errors' = errors \cup events
    /\ woken' = woken \cup events
    /\ reader' = "dead"
    /\ failed' = TRUE
    /\ UNCHANGED <<callVars, link, sock, closed, closer, events, pending, netVars,
                   delivered>>
-----------------------------------------------------------------------------
(* close().                                                                *)

\* Called when the run is cancelled, and once more when it is over; one call at a
\* time.  It returns at once if the client is closed already.
CloseBegins ==
    /\ closer \in {"idle", "done"}
    /\ ~closed
    /\ closed' = TRUE
    /\ closer' = "shutdown"
    /\ UNCHANGED <<callVars, link, sock, reader, mapVars, netVars, history>>

CloseShutsDown ==
    /\ closer = "shutdown"
    /\ link' = IF sock = "open" /\ link \in {"up", "ended"} THEN "shut" ELSE link
    /\ closer' = "file"
    /\ UNCHANGED <<callVars, sock, closed, reader, mapVars, netVars, history>>

\* The file and the socket; nothing happens before connect() has assigned them.
CloseClosesFile ==
    /\ closer = "file"
    /\ sock' = IF sock = "open" THEN "closed" ELSE sock
    /\ closer' = "clear"
    /\ UNCHANGED <<callVars, link, closed, reader, mapVars, netVars, history>>

\* Fault: the maps are cleared, nobody is told.
WokenByCloseNone == {}

WokenByClose == events

CloseWakes ==
    /\ closer = "clear"
    /\ woken' = woken \cup WokenByClose
    /\ events' = {} /\ pending' = {} /\ errors' = {}
    /\ closer' = "done"
    /\ UNCHANGED <<callVars, link, sock, closed, reader, netVars, history>>
-----------------------------------------------------------------------------
(* The agent, and the network.                                             *)

\* The handler serves the requests of a connection one after the other.
AgentAnswers ==
    /\ link \in {"up", "shut"}
    /\ asked # << >>
    /\ asked' = Tail(asked)
    /\ answers' = Append(answers, Head(asked))
    /\ UNCHANGED <<callVars, link, sock, closed, closer, reader, mapVars, history>>

\* What it has sent before it closes can still be read.
AgentCloses ==
    /\ link = "up"
    /\ link' = "ended"
    /\ asked' = << >>
    /\ UNCHANGED <<callVars, sock, closed, closer, reader, mapVars, answers, history>>

LinkBreaks ==
    /\ link \in {"up", "ended"}
    /\ link' = "broken"
    /\ asked' = << >>
    /\ answers' = << >>
    /\ UNCHANGED <<callVars, sock, closed, closer, reader, mapVars, history>>
-----------------------------------------------------------------------------
Caller ==
    \/ OpenSocket \/ ConnectRefused \/ StartReader \/ Register \/ Write
    \/ WaitExpires \/ TimedOut \/ Collect

Reader == ReaderChecks \/ ReaderDelivers \/ ReaderMeetsEof \/ ReaderFails

Closer == CloseShutsDown \/ CloseClosesFile \/ CloseWakes

Next ==
    \/ Request
    \/ Caller
    \/ Reader
    \/ CloseBegins
    \/ Closer
    \/ AgentAnswers
    \/ AgentCloses
    \/ LinkBreaks

Spec == Init /\ [][Next]_vars

\* The worker's thread runs, and ev.wait has a timeout.  Nothing is assumed of
\* the reader, of close() or of the agent.
FairSpec == Spec /\ WF_vars(Caller)
-----------------------------------------------------------------------------
(* Properties.                                                             *)

TypeOK ==
    /\ caller \in CallerPlaces
    /\ call \in 0..MaxCalls
    /\ outcome \in [Calls -> Outcomes]
    /\ answer \in [Calls -> 0..MaxCalls]
    /\ link \in Links
    /\ sock \in {"none", "open", "closed"}
    /\ closed \in BOOLEAN
    /\ closer \in CloserPlaces
    /\ reader \in {"none", "check", "read", "dead"}
    /\ reader = "none" <=> sock = "none" \/ caller = "starting"
    /\ events \subseteq Calls /\ woken \subseteq Calls
    /\ pending \subseteq Calls \X Calls
    /\ errors \subseteq Calls
    /\ asked \in Seq(Calls) /\ answers \in Seq(Calls)
    /\ delivered \subseteq Calls
    /\ failed \in BOOLEAN

\* A call returns its own answer, never the late one of a call given up before.
AnswersItsCall == \A c \in Calls : outcome[c] = "answer" => answer[c] = c

\* An answer delivered while its call waits is what the call returns, also when
\* the agent closes the connection at once ("Keep already-delivered responses
\* intact", tcp_session.py:172); only close() and a failing connection may take it.
DeliveredIsReturned ==
    \A c \in delivered :
        outcome[c] \in {"error", "missing"} => failed \/ closer # "idle"

\* The maps hold nothing but the call under way and calls whose write failed:
\* a late answer is not kept, whenever it comes.
MapsFollowTheCall ==
    LET open == IF caller \in {"write", "wait", "expired"} THEN {call} ELSE {}
        unsent == {c \in Calls : outcome[c] = "raised"}
    IN  /\ events \cup errors \subseteq open \cup unsent
        /\ \A p \in pending : p[1] \in open

\* Once close() is through, no call is left to wait for its timeout: it was woken
\* by close(), or its write failed.  (A connection opened since is not closed.)
CloseReleasesCall ==
    (closer = "done" /\ closed /\ caller = "wait") => call \in woken

\* Every call ends, whatever the agent, the reader and close() do.
RequestEnds == (caller # "idle") ~> (caller = "idle")
=============================================================================
