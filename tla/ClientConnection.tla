-------------------------- MODULE ClientConnection --------------------------
(***************************************************************************)
(* ClientNetworking::Client (src/client/client.cpp, client.h): the one     *)
(* connection of a client process, as the requests of UserRepository use   *)
(* it.                                                                     *)
(*                                                                         *)
(* Each request runs in a thread of its own (std::async): it gets the      *)
(* instance, connecting first if need be, sends, and waits in              *)
(* GetServerResponse for a receive thread to store the reply in the one    *)
(* _serverResponse of the client.  Nothing but _serverResponse's wait is   *)
(* locked, the wait has no predicate, and it gives up after five seconds.  *)
(*                                                                         *)
(* Requests and replies are whole here; how their parts travel through a   *)
(* socket is not modelled.                                                 *)
(***************************************************************************)
EXTENDS Naturals, Sequences, FiniteSets

CONSTANTS
    Caller,       \* threads that make requests, one request at a time
    Kind,         \* types of a reply: the alternatives of ServerResponse
    DefaultKind,  \* the one a ServerResponse starts with
    MaxRequests,  \* bound: requests the callers make
    MaxSockets    \* bound: sockets the process can open before socket() fails

ASSUME ConnectionAssumption ==
    /\ DefaultKind \in Kind
    /\ MaxRequests \in Nat
    /\ MaxSockets \in Nat

ASSUME CallersAreNumbered == Caller \subseteq Nat

\* client.cpp:33
AttemptsToConnect == 3

Socket == 1 .. MaxSockets
Request == [number : 1 .. MaxRequests, kind : Kind]

\* Every GetInstance that connects starts one receive thread.
Receiver == 1 .. MaxSockets

VARIABLES
    clientState, \* _currentClientState
    socket,      \* _clientSocket: sockets are numbered as they are opened
    link,        \* each socket's connection
    requests,    \* sent on each socket, not handled by the server yet
    replies,     \* sent by the server on each socket, not received yet
    response,    \* _serverResponse: the request it is the reply to
    pc,          \* each caller's step
    call,        \* each caller's request
    attempt,     \* each caller's currentAttempt
    depth,       \* each caller's nesting of GetInstance
    made,        \* requests made so far
    rpc,         \* each receive thread's step
    rsock,       \* the socket each receive thread reads
    terminated,  \* std::terminate or exit ended the process
    incidents    \* auxiliary: what has disturbed the connection so far

stateVars == <<clientState, socket, link>>
wireVars == <<requests, replies>>
callVars == <<call, attempt, depth, made>>
recvVars == <<rpc, rsock>>
vars == <<stateVars, wireVars, response, pc, callVars, recvVars, terminated, incidents>>

NoReply == [number |-> 0, kind |-> DefaultKind]

\* A message nobody waits for: kServerError, or a chat message of another user.
Unwaited == [number |-> 0, kind |-> "unwaited"]

Connecting == {"open", "opened", "connect", "established"}
Disconnecting == {"disconnect", "closing"}

TypeOK ==
    /\ clientState \in {"disconnected", "inited", "connected"}
    /\ socket \in Socket \cup {0}
    /\ link \in [Socket -> {"none", "created", "connected", "reset", "closed"}]
    /\ requests \in [Socket -> Seq(Request)]
    /\ replies \in [Socket -> Seq(Request \cup {Unwaited})]
    /\ response \in Request \cup {NoReply}
    /\ pc \in [Caller -> {"idle", "check", "spawn", "send", "wait", "waiting", "woken"}
                             \cup Connecting \cup Disconnecting]
    /\ call \in [Caller -> Request \cup {NoReply}]
    /\ attempt \in [Caller -> 1 .. AttemptsToConnect]
    /\ depth \in [Caller -> Nat]
    /\ made \in 0 .. MaxRequests
    /\ rpc \in [Receiver -> {"off", "loop", "recv", "notify", "ended"}]
    /\ rsock \in [Receiver -> Socket \cup {0}]
    /\ terminated \in BOOLEAN
    /\ incidents \subseteq {"overlap", "race", "timeout"}

Init ==
    /\ clientState = "disconnected"
    /\ socket = 0
    /\ link = [s \in Socket |-> "none"]
    /\ requests = [s \in Socket |-> <<>>]
    /\ replies = [s \in Socket |-> <<>>]
    /\ response = NoReply
    /\ pc = [c \in Caller |-> "idle"]
    /\ call = [c \in Caller |-> NoReply]
    /\ attempt = [c \in Caller |-> 1]
    /\ depth = [c \in Caller |-> 0]
    /\ made = 0
    /\ rpc = [r \in Receiver |-> "off"]
    /\ rsock = [r \in Receiver |-> 0]
    /\ terminated = FALSE
    /\ incidents = {}

----------------------------------------------------------------------------
(* GetInstance.                                                            *)

GoTo(c, step) == pc' = [pc EXCEPT ![c] = step]

Others(c) == Caller \ {c}

Noted(condition, incident) ==
    incidents' = incidents \cup (IF condition THEN {incident} ELSE {})

\* std::terminate: an exception leaves a noexcept function.
Terminate == terminated' = TRUE /\ UNCHANGED pc

\* GetInstance() returns no instance.  Where the inner call of line 41 does,
\* value() throws.
NoInstance(c) ==
    /\ IF depth[c] = 0 THEN GoTo(c, "idle") /\ UNCHANGED terminated ELSE Terminate
    /\ attempt' = [attempt EXCEPT ![c] = 1]
    /\ UNCHANGED <<stateVars, wireVars, response, call, depth, made, recvVars, incidents>>

\* A request of UserRepository or ChatPage starts in a thread of its own.
\* Which of the free ones takes it makes no difference: it is the first.
MakeRequest(c) ==
    /\ pc[c] = "idle" /\ made < MaxRequests
    /\ \A d \in Others(c) : pc[d] = "idle" => c < d
    /\ made' = made + 1
    /\ \E k \in Kind : call' = [call EXCEPT ![c] = [number |-> made + 1, kind |-> k]]
    /\ GoTo(c, "check")
    /\ Noted(\E d \in Others(c) : pc[d] # "idle", "overlap")
    /\ UNCHANGED <<stateVars, wireVars, response, attempt, depth, recvVars, terminated>>

\* Two callers change the state of the connection at the same time.
Racing(c) == \E d \in Others(c) : pc[d] \in Connecting \cup Disconnecting

CheckConnected(c) ==
    /\ pc[c] = "check" /\ clientState = "connected"
    /\ GoTo(c, IF depth[c] = 0 THEN "send" ELSE "spawn")
    /\ UNCHANGED <<stateVars, wireVars, response, callVars, recvVars, terminated, incidents>>

CheckNotConnected_Always(c) ==
    /\ pc[c] = "check" /\ depth[c] = 0
    /\ GoTo(c, "open")
    /\ Noted(Racing(c), "race")
    /\ UNCHANGED <<stateVars, wireVars, response, callVars, recvVars, terminated>>

CheckNotConnected(c) ==
    /\ pc[c] = "check" /\ clientState # "connected"
    /\ GoTo(c, "open")
    /\ Noted(Racing(c), "race")
    /\ UNCHANGED <<stateVars, wireVars, response, callVars, recvVars, terminated>>

\* Init(): a new socket, then the state.
OpenSocket(c) ==
    /\ pc[c] = "open" /\ socket < MaxSockets
    /\ socket' = socket + 1
    /\ link' = [link EXCEPT ![socket + 1] = "created"]
    /\ GoTo(c, "opened")
    /\ UNCHANGED <<clientState, wireVars, response, callVars, recvVars, terminated, incidents>>

OpenFails(c) == pc[c] = "open" /\ NoInstance(c)

SetInited(c) ==
    /\ pc[c] = "opened"
    /\ clientState' = "inited"
    /\ GoTo(c, "connect")
    /\ UNCHANGED <<socket, link, wireVars, response, callVars, recvVars, terminated,
                   incidents>>

\* Connect() has returned true: on to the inner GetInstance() of line 41.
EnterInner(c) ==
    /\ attempt' = [attempt EXCEPT ![c] = 1]
    /\ depth' = [depth EXCEPT ![c] = depth[c] + 1]
    /\ GoTo(c, "check")

\* Connect(): "client already inited!" is success whatever the state is.
AlreadyInited(c) ==
    /\ pc[c] = "connect" /\ clientState # "inited"
    /\ EnterInner(c)
    /\ UNCHANGED <<stateVars, wireVars, response, call, made, recvVars, terminated,
                   incidents>>

Connect_ErrorIgnored(c) ==
    /\ pc[c] = "connect" /\ clientState = "inited"
    /\ \E l \in {"created", "connected"} : link' = [link EXCEPT ![socket] = l]
    /\ GoTo(c, "established")
    /\ UNCHANGED <<clientState, socket, wireVars, response, callVars, recvVars,
                   terminated, incidents>>

Connect(c) ==
    /\ pc[c] = "connect" /\ clientState = "inited" /\ link[socket] = "created"
    /\ link' = [link EXCEPT ![socket] = "connected"]
    /\ GoTo(c, "established")
    /\ UNCHANGED <<clientState, socket, wireVars, response, callVars, recvVars,
                   terminated, incidents>>

SetConnected(c) ==
    /\ pc[c] = "established"
    /\ clientState' = "connected"
    /\ EnterInner(c)
    /\ UNCHANGED <<socket, link, wireVars, response, call, made, recvVars,
                   terminated, incidents>>

ConnectFails(c) ==
    /\ pc[c] = "connect" /\ clientState = "inited" /\ attempt[c] < AttemptsToConnect
    /\ attempt' = [attempt EXCEPT ![c] = attempt[c] + 1]
    /\ UNCHANGED <<stateVars, wireVars, response, pc, call, depth, made, recvVars,
                   terminated, incidents>>

GiveUpConnecting(c) ==
    /\ pc[c] = "connect" /\ clientState = "inited" /\ attempt[c] = AttemptsToConnect
    /\ NoInstance(c)

\* The receive thread starts, and one level of GetInstance() returns.
Spawn(c) ==
    /\ pc[c] = "spawn"
    /\ \E r \in Receiver :
          /\ rpc[r] = "off" /\ \A q \in 1 .. r - 1 : rpc[q] # "off"
          /\ rpc' = [rpc EXCEPT ![r] = "loop"]
    /\ depth' = [depth EXCEPT ![c] = depth[c] - 1]
    /\ GoTo(c, IF depth[c] = 1 THEN "send" ELSE "spawn")
    /\ UNCHANGED <<stateVars, wireVars, response, call, attempt, made, rsock,
                   terminated, incidents>>

----------------------------------------------------------------------------
(* SendUserCredentialsPacket and GetServerResponse.                        *)

\* What is sent on a socket that is not connected is lost without an error.
Send(c) ==
    /\ pc[c] = "send"
    /\ requests' = IF link[socket] = "connected"
                   THEN [requests EXCEPT ![socket] = Append(@, call[c])] ELSE requests
    /\ GoTo(c, "wait")
    /\ UNCHANGED <<stateVars, replies, response, callVars, recvVars, terminated, incidents>>

\* A reply that is notified before this step wakes nobody.
Wait(c) ==
    /\ pc[c] = "wait"
    /\ GoTo(c, "waiting")
    /\ UNCHANGED <<stateVars, wireVars, response, callVars, recvVars, terminated, incidents>>

\* A spurious wakeup counts as a wakeup by another request's reply.
WakeSpuriously(c) ==
    /\ pc[c] = "waiting"
    /\ GoTo(c, "woken")
    /\ Noted(TRUE, "overlap")
    /\ UNCHANGED <<stateVars, wireVars, response, callVars, recvVars, terminated>>

\* std::get throws out of a noexcept function if the reply has another type.
GetResponse(c) ==
    /\ pc[c] = "woken"
    /\ IF response.kind = call[c].kind
       THEN GoTo(c, "idle") /\ UNCHANGED terminated
       ELSE Terminate
    /\ UNCHANGED <<stateVars, wireVars, response, callVars, recvVars, incidents>>

TimeOut_Retries(c) ==
    /\ pc[c] = "waiting"
    /\ GoTo(c, "wait")
    /\ Noted(TRUE, "timeout")
    /\ UNCHANGED <<stateVars, wireVars, response, callVars, recvVars, terminated>>

\* The state is set before Disconnect() looks at it.
TimeOut(c) ==
    /\ pc[c] = "waiting"
    /\ clientState' = "disconnected"
    /\ GoTo(c, "disconnect")
    /\ incidents' = incidents \cup {"timeout"} \cup (IF Racing(c) THEN {"race"} ELSE {})
    /\ UNCHANGED <<socket, link, wireVars, response, callVars, recvVars, terminated>>

\* Disconnect() has nothing to do: the socket stays open.
DisconnectNothing(c) ==
    /\ pc[c] = "disconnect" /\ clientState = "disconnected"
    /\ GoTo(c, "idle")
    /\ UNCHANGED <<stateVars, wireVars, response, callVars, recvVars, terminated, incidents>>

\* Another caller has begun to connect: it is that caller's socket that is
\* closed.  A failure of closesocket() ends the process.
DisconnectSocket(c) ==
    /\ pc[c] = "disconnect" /\ clientState # "disconnected"
    /\ IF link[socket] = "closed"
       THEN terminated' = TRUE /\ UNCHANGED <<pc, link, wireVars>>
       ELSE /\ link' = [link EXCEPT ![socket] = "closed"]
            /\ requests' = [requests EXCEPT ![socket] = <<>>]
            /\ replies' = [replies EXCEPT ![socket] = <<>>]
            /\ GoTo(c, "closing")
            /\ UNCHANGED terminated
    /\ UNCHANGED <<clientState, socket, response, callVars, recvVars, incidents>>

SetDisconnected(c) ==
    /\ pc[c] = "closing"
    /\ clientState' = "disconnected"
    /\ GoTo(c, "idle")
    /\ UNCHANGED <<socket, link, wireVars, response, callVars, recvVars, terminated,
                   incidents>>

----------------------------------------------------------------------------
(* ReceiveThread.                                                          *)

At(r, step) == rpc' = [rpc EXCEPT ![r] = step]

\* The loop's condition, and the socket that recv() is given.
ReadSocket(r) ==
    /\ rpc[r] = "loop" /\ clientState # "disconnected"
    /\ rsock' = [rsock EXCEPT ![r] = socket]
    /\ At(r, "recv")
    /\ UNCHANGED <<stateVars, wireVars, response, pc, callVars, terminated, incidents>>

EndReceiving(r) ==
    /\ rpc[r] = "loop" /\ clientState = "disconnected"
    /\ At(r, "ended")
    /\ UNCHANGED <<stateVars, wireVars, response, pc, callVars, rsock, terminated, incidents>>

Received(r) == replies[rsock[r]][1]

TakeReply(r) ==
    /\ rpc[r] = "recv" /\ replies[rsock[r]] # <<>>
    /\ replies' = [replies EXCEPT ![rsock[r]] = Tail(@)]
    /\ rsock' = [rsock EXCEPT ![r] = 0]

StoreReply_NotStored(r) ==
    /\ TakeReply(r)
    /\ Received(r) # Unwaited
    /\ At(r, "notify")
    /\ UNCHANGED <<stateVars, requests, response, pc, callVars, terminated, incidents>>

StoreReply(r) ==
    /\ TakeReply(r)
    /\ Received(r) # Unwaited
    /\ response' = Received(r)
    /\ At(r, "notify")
    /\ UNCHANGED <<stateVars, requests, pc, callVars, terminated, incidents>>

SkipUnwaited_Notifies(r) ==
    /\ TakeReply(r)
    /\ Received(r) = Unwaited
    /\ At(r, "notify")
    /\ UNCHANGED <<stateVars, requests, response, pc, callVars, terminated, incidents>>

\* kServerError and kSendChatMessage wake nobody.
SkipUnwaited(r) ==
    /\ TakeReply(r)
    /\ Received(r) = Unwaited
    /\ At(r, "loop")
    /\ UNCHANGED <<stateVars, requests, response, pc, callVars, terminated, incidents>>

\* recv() fails, or returns 0 because the server has closed the connection:
\* the type stays kActionUndefined, and the loop goes on.
ReceiveNothing(r) ==
    /\ rpc[r] = "recv" /\ replies[rsock[r]] = <<>> /\ link[rsock[r]] # "connected"
    /\ rsock' = [rsock EXCEPT ![r] = 0]
    /\ At(r, "loop")
    /\ UNCHANGED <<stateVars, wireVars, response, pc, callVars, terminated, incidents>>

\* notify_one() wakes one of the callers that wait, if any does.
Notify(r) ==
    /\ rpc[r] = "notify"
    /\ At(r, "loop")
    /\ IF \E c \in Caller : pc[c] = "waiting"
       THEN \E c \in Caller : pc[c] = "waiting" /\ GoTo(c, "woken")
       ELSE UNCHANGED pc
    /\ UNCHANGED <<stateVars, wireVars, response, callVars, rsock, terminated, incidents>>

----------------------------------------------------------------------------
(* The server, as a client sees it: it handles the requests of a connection *)
(* in order, answers each or reports an error, and may close.               *)

Answer(s) ==
    /\ link[s] = "connected" /\ requests[s] # <<>>
    /\ requests' = [requests EXCEPT ![s] = Tail(@)]
    /\ \E m \in {requests[s][1], Unwaited} : replies' = [replies EXCEPT ![s] = Append(@, m)]
    /\ UNCHANGED <<stateVars, response, pc, callVars, recvVars, terminated, incidents>>

Reset(s) ==
    /\ link[s] = "connected"
    /\ link' = [link EXCEPT ![s] = "reset"]
    /\ requests' = [requests EXCEPT ![s] = <<>>]
    /\ UNCHANGED <<clientState, socket, replies, response, pc, callVars, recvVars,
                   terminated, incidents>>

CallerStep(c) ==
    \/ CheckConnected(c) \/ CheckNotConnected(c)
    \/ OpenSocket(c) \/ OpenFails(c) \/ SetInited(c)
    \/ AlreadyInited(c) \/ Connect(c) \/ SetConnected(c)
    \/ ConnectFails(c) \/ GiveUpConnecting(c)
    \/ Spawn(c) \/ Send(c) \/ Wait(c)
    \/ GetResponse(c)
    \/ TimeOut(c) \/ DisconnectNothing(c) \/ DisconnectSocket(c) \/ SetDisconnected(c)

ReceiverStep(r) ==
    \/ ReadSocket(r) \/ EndReceiving(r)
    \/ StoreReply(r) \/ SkipUnwaited(r) \/ ReceiveNothing(r) \/ Notify(r)

Next ==
    /\ ~terminated
    /\ \/ \E c \in Caller : MakeRequest(c) \/ CallerStep(c) \/ WakeSpuriously(c)
       \/ \E r \in Receiver : ReceiverStep(r)
       \/ \E s \in Socket : Answer(s) \/ Reset(s)

Spec == Init /\ [][Next]_vars

\* A thread that can run does, connect() and send() return, and wait_for()
\* gives up.  Nothing is asked of the receive threads or of the server.
FairSpec == Spec /\ \A c \in Caller : WF_vars(~terminated /\ CallerStep(c))

----------------------------------------------------------------------------
(* Properties.                                                             *)

\* The state and the socket, two unlocked variables, agree as long as no two
\* callers change them at the same time: a client that says it is connected
\* has a socket that was connected and was not closed (client.cpp:26-45,
\* 376-459; client.h:70-77).
StateMatchesSocket ==
    clientState = "connected" /\ "race" \notin incidents =>
        socket # 0 /\ link[socket] \in {"connected", "reset"}

\* However many requests overlap on a connection that is there, one receive
\* thread reads it; a second one needs a race or a timeout, after which the
\* old thread may go on with the new socket (client.cpp:41, 124-127).
OneReceiver ==
    {"race", "timeout"} \cap incidents = {} =>
        Cardinality({r \in Receiver : rpc[r] # "off"}) <= 1

\* A caller that wakes up finds the reply to its own request, although
\* nothing in a reply says what it answers and the wait has no predicate: to
\* return another request's takes overlapping requests, a timeout before, or
\* a spurious wakeup (client.h:69-79, client.cpp:129-339).
OwnReply ==
    incidents = {} => \A c \in Caller : pc[c] = "woken" => response = call[c]

\* The exceptions that end the process, std::get's and value()'s, need one of
\* these as well.
NoBadAccess == incidents = {} => ~terminated

\* Every request comes back to its coroutine, with a reply or without one,
\* whatever the server and the receive threads do, unless the process ends.
CallReturns == \A c \in Caller : pc[c] # "idle" ~> (pc[c] = "idle" \/ terminated)
=============================================================================
