--------------------- MODULE ClientConnectionProofs -------------------------
(***************************************************************************)
(* Proofs about ClientConnection, for any number of callers, requests and  *)
(* sockets: its types; that without two callers that change the state at   *)
(* the same time, the state and the socket of the client agree; that       *)
(* without such a race or a timeout one thread receives; and that without  *)
(* overlapping requests either, a caller gets the reply to its own request *)
(* and the process does not end.                                           *)
(***************************************************************************)
EXTENDS ClientConnection, FiniteSetTheorems, TLAPS

\* Where a step uses a socket, there is one.
SocketInv ==
    /\ clientState # "disconnected" => socket # 0
    /\ \A c \in Caller : pc[c] \in {"opened", "connect", "established"} => socket # 0
    /\ \A c \in Caller : pc[c] = "spawn" => depth[c] # 0
    /\ \A c \in Caller : pc[c] # "idle" => call[c] \in Request
    /\ \A r \in Receiver : rpc[r] = "recv" => rsock[r] # 0

\* Without a race one caller at a time changes the state, and the state stays
\* what its step says.
AloneInv ==
    "race" \notin incidents =>
        /\ \A c, d \in Caller :
              /\ pc[c] \in Connecting \cup Disconnecting
              /\ pc[d] \in Connecting \cup Disconnecting
              => c = d
        /\ \A c \in Caller :
              /\ pc[c] \in Connecting => clientState # "connected"
              /\ pc[c] = "established" => link[socket] \in {"connected", "reset"}
              /\ pc[c] = "disconnect" => clientState = "disconnected"
              /\ pc[c] # "closing"

ConnectionInv == TypeOK /\ SocketInv /\ AloneInv /\ StateMatchesSocket

----------------------------------------------------------------------------
LEMMA ConnectionInit == Init => ConnectionInv
<1> SUFFICES ASSUME Init PROVE ConnectionInv
  OBVIOUS
<1>1. TypeOK
  <2>1. <<>> \in Seq(Request) /\ <<>> \in Seq(Request \cup {Unwaited})
    OBVIOUS
  <2>2. 0 \in 0 .. MaxRequests /\ 1 \in 1 .. AttemptsToConnect
    BY ConnectionAssumption DEF AttemptsToConnect
  <2>3. /\ requests \in [Socket -> Seq(Request)]
        /\ replies \in [Socket -> Seq(Request \cup {Unwaited})]
    BY <2>1 DEF Init
  <2> QED
    BY <2>2, <2>3 DEF Init, TypeOK
<1>2. SocketInv /\ AloneInv /\ StateMatchesSocket
  BY DEF Init, SocketInv, AloneInv, StateMatchesSocket, Connecting, Disconnecting
<1> QED
  BY <1>1, <1>2 DEF ConnectionInv

\* What the steps do to the queues of a socket keeps them queues.
LEMMA QueueTypes ==
    ASSUME NEW S, NEW q \in [Socket -> Seq(S)], NEW s
    PROVE  /\ \A m \in S : [q EXCEPT ![s] = Append(@, m)] \in [Socket -> Seq(S)]
           /\ s \in Socket /\ q[s] # <<>> =>
                  /\ q[s][1] \in S
                  /\ [q EXCEPT ![s] = Tail(@)] \in [Socket -> Seq(S)]
<1>1. ASSUME NEW m \in S PROVE [q EXCEPT ![s] = Append(@, m)] \in [Socket -> Seq(S)]
  <2>1. \A x \in Socket : Append(q[x], m) \in Seq(S)
    BY <1>1
  <2> QED
    BY <2>1
<1>2. ASSUME s \in Socket, q[s] # <<>> PROVE q[s][1] \in S /\ Tail(q[s]) \in Seq(S)
  <2>1. q[s] \in Seq(S)
    BY <1>2
  <2> QED
    BY <1>2, <2>1
<1> QED
  BY <1>1, <1>2

\* The unlocked steps keep the types, and a step that uses a socket has one.
LEMMA TypeStep == TypeOK /\ SocketInv /\ [Next]_vars => TypeOK' /\ SocketInv'
<1> SUFFICES ASSUME TypeOK, SocketInv, [Next]_vars PROVE (TypeOK /\ SocketInv)'
  OBVIOUS
<1> USE ConnectionAssumption
    DEF TypeOK, SocketInv, Socket, Receiver, Connecting, Disconnecting,
        AttemptsToConnect, stateVars, wireVars, callVars, recvVars
<1>1. ASSUME NEW c \in Caller, MakeRequest(c) PROVE (TypeOK /\ SocketInv)'
  <2>1. PICK k \in Kind :
            call' = [call EXCEPT ![c] = [number |-> made + 1, kind |-> k]]
    BY <1>1 DEF MakeRequest
  <2>2. [number |-> made + 1, kind |-> k] \in Request
    BY <1>1 DEF MakeRequest, Request
  <2>3. TypeOK'
    BY <1>1, <2>1, <2>2 DEF MakeRequest, GoTo, Noted, Others
  <2>4. SocketInv'
    <3>1. call'[c] \in Request /\ \A d \in Caller \ {c} : call'[d] = call[d]
      BY <2>1, <2>2
    <3> QED
      BY <1>1, <3>1 DEF MakeRequest, GoTo
  <2> QED
    BY <2>3, <2>4
<1>2. ASSUME NEW c \in Caller, CheckConnected(c) PROVE (TypeOK /\ SocketInv)'
  BY <1>2 DEF CheckConnected, GoTo
<1>3. ASSUME NEW c \in Caller, CheckNotConnected(c) PROVE (TypeOK /\ SocketInv)'
  BY <1>3 DEF CheckNotConnected, GoTo, Noted, Others, Racing
<1>4. ASSUME NEW c \in Caller, OpenSocket(c) PROVE (TypeOK /\ SocketInv)'
  <2>1. TypeOK'
    BY <1>4 DEF OpenSocket, GoTo
  <2>2. SocketInv'
    BY <1>4 DEF OpenSocket, GoTo
  <2> QED
    BY <2>1, <2>2
<1>5. ASSUME NEW c \in Caller, OpenFails(c) PROVE (TypeOK /\ SocketInv)'
  <2>1. CASE depth[c] = 0
    <3>1. /\ pc' = [pc EXCEPT ![c] = "idle"]
          /\ attempt' = [attempt EXCEPT ![c] = 1]
          /\ UNCHANGED <<stateVars, wireVars, response, call, depth, made, recvVars,
                         terminated, incidents>>
      BY <1>5, <2>1 DEF OpenFails, NoInstance, GoTo
    <3>2. TypeOK'
      BY <3>1
    <3>3. SocketInv'
      BY <3>1
    <3> QED
      BY <3>2, <3>3
  <2>2. CASE depth[c] # 0
    BY <1>5, <2>2 DEF OpenFails, NoInstance, Terminate
  <2> QED
    BY <2>1, <2>2
<1>6. ASSUME NEW c \in Caller, SetInited(c) PROVE (TypeOK /\ SocketInv)'
  BY <1>6 DEF SetInited, GoTo
<1>7. ASSUME NEW c \in Caller, AlreadyInited(c) PROVE (TypeOK /\ SocketInv)'
  BY <1>7 DEF AlreadyInited, EnterInner, GoTo
<1>8. ASSUME NEW c \in Caller, Connect(c) PROVE (TypeOK /\ SocketInv)'
  BY <1>8 DEF Connect, GoTo
<1>9. ASSUME NEW c \in Caller, SetConnected(c) PROVE (TypeOK /\ SocketInv)'
  <2>1. TypeOK'
    <3>1. /\ attempt' \in [Caller -> 1 .. AttemptsToConnect]
          /\ depth' \in [Caller -> Nat]
      BY <1>9 DEF SetConnected, EnterInner
    <3> QED
      BY <1>9, <3>1 DEF SetConnected, EnterInner, GoTo
  <2>2. SocketInv'
    BY <1>9 DEF SetConnected, EnterInner, GoTo
  <2> QED
    BY <2>1, <2>2
<1>10. ASSUME NEW c \in Caller, ConnectFails(c) PROVE (TypeOK /\ SocketInv)'
  <2>1. TypeOK'
    <3>1. attempt[c] \in 1 .. 2
      BY <1>10 DEF ConnectFails
    <3> QED
      BY <1>10, <3>1 DEF ConnectFails
  <2>2. SocketInv'
    BY <1>10 DEF ConnectFails
  <2> QED
    BY <2>1, <2>2
<1>11. ASSUME NEW c \in Caller, GiveUpConnecting(c) PROVE (TypeOK /\ SocketInv)'
  <2>1. CASE depth[c] = 0
    <3>1. /\ pc' = [pc EXCEPT ![c] = "idle"]
          /\ attempt' = [attempt EXCEPT ![c] = 1]
          /\ UNCHANGED <<stateVars, wireVars, response, call, depth, made, recvVars,
                         terminated, incidents>>
      BY <1>11, <2>1 DEF GiveUpConnecting, NoInstance, GoTo
    <3>2. TypeOK'
      BY <3>1
    <3>3. SocketInv'
      BY <3>1
    <3> QED
      BY <3>2, <3>3
  <2>2. CASE depth[c] # 0
    BY <1>11, <2>2 DEF GiveUpConnecting, NoInstance, Terminate
  <2> QED
    BY <2>1, <2>2
<1>12. ASSUME NEW c \in Caller, Spawn(c) PROVE (TypeOK /\ SocketInv)'
  <2>1. TypeOK'
    <3>1. depth[c] - 1 \in Nat
      BY <1>12 DEF Spawn
    <3> QED
      BY <1>12, <3>1 DEF Spawn, GoTo
  <2>2. SocketInv'
    BY <1>12 DEF Spawn, GoTo
  <2> QED
    BY <2>1, <2>2
<1>13. ASSUME NEW c \in Caller, Send(c) PROVE (TypeOK /\ SocketInv)'
  <2>1. TypeOK'
    <3>1. call[c] \in Request => requests' \in [Socket -> Seq(Request)]
      BY <1>13, QueueTypes DEF Send
    <3>2. call[c] \in Request
      BY <1>13 DEF Send
    <3> QED
      BY <1>13, <3>1, <3>2 DEF Send, GoTo
  <2>2. SocketInv'
    BY <1>13 DEF Send, GoTo
  <2> QED
    BY <2>1, <2>2
<1>14. ASSUME NEW c \in Caller, Wait(c) PROVE (TypeOK /\ SocketInv)'
  BY <1>14 DEF Wait, GoTo
<1>15. ASSUME NEW c \in Caller, WakeSpuriously(c) PROVE (TypeOK /\ SocketInv)'
  BY <1>15 DEF WakeSpuriously, GoTo, Noted
<1>16. ASSUME NEW c \in Caller, GetResponse(c) PROVE (TypeOK /\ SocketInv)'
  BY ZenonT(60), <1>16 DEF GetResponse, GoTo, Terminate
<1>17. ASSUME NEW c \in Caller, TimeOut(c) PROVE (TypeOK /\ SocketInv)'
  BY <1>17 DEF TimeOut, GoTo, Racing, Others
<1>18. ASSUME NEW c \in Caller, DisconnectNothing(c) PROVE (TypeOK /\ SocketInv)'
  BY <1>18 DEF DisconnectNothing, GoTo
<1>19. ASSUME NEW c \in Caller, DisconnectSocket(c) PROVE (TypeOK /\ SocketInv)'
  <2>1. TypeOK'
    <3>1. CASE link[socket] = "closed"
      BY <1>19, <3>1 DEF DisconnectSocket
    <3>2. CASE link[socket] # "closed"
      <4>1. requests' \in [Socket -> Seq(Request)]
        <5>1. requests' = [requests EXCEPT ![socket] = <<>>]
          BY <1>19, <3>2 DEF DisconnectSocket
        <5>2. <<>> \in Seq(Request)
          OBVIOUS
        <5> QED
          BY <5>1, <5>2
      <4>2. replies' \in [Socket -> Seq(Request \cup {Unwaited})]
        <5>1. replies' = [replies EXCEPT ![socket] = <<>>]
          BY <1>19, <3>2 DEF DisconnectSocket
        <5>2. <<>> \in Seq(Request \cup {Unwaited})
          OBVIOUS
        <5> QED
          BY <5>1, <5>2
      <4> QED
        BY ZenonT(60), <1>19, <3>2, <4>1, <4>2 DEF DisconnectSocket, GoTo
    <3> QED
      BY <3>1, <3>2
  <2>2. SocketInv'
    BY <1>19 DEF DisconnectSocket, GoTo
  <2> QED
    BY <2>1, <2>2
<1>20. ASSUME NEW c \in Caller, SetDisconnected(c) PROVE (TypeOK /\ SocketInv)'
  BY <1>20 DEF SetDisconnected, GoTo
<1>21. ASSUME NEW r \in Receiver, ReadSocket(r) PROVE (TypeOK /\ SocketInv)'
  BY <1>21 DEF ReadSocket, At
<1>22. ASSUME NEW r \in Receiver, EndReceiving(r) PROVE (TypeOK /\ SocketInv)'
  BY <1>22 DEF EndReceiving, At
<1>23. ASSUME NEW r \in Receiver, StoreReply(r) PROVE (TypeOK /\ SocketInv)'
  <2>1. TypeOK'
    <3>1. /\ replies' \in [Socket -> Seq(Request \cup {Unwaited})]
          /\ Received(r) \in Request \cup {Unwaited}
      BY SMTT(30), <1>23, QueueTypes DEF StoreReply, TakeReply, Received
    <3> QED
      BY <1>23, <3>1 DEF StoreReply, TakeReply, At
  <2>2. SocketInv'
    BY <1>23 DEF StoreReply, TakeReply, Received, At
  <2> QED
    BY <2>1, <2>2
<1>24. ASSUME NEW r \in Receiver, SkipUnwaited(r) PROVE (TypeOK /\ SocketInv)'
  <2>1. TypeOK'
    BY ZenonT(60), <1>24, QueueTypes DEF SkipUnwaited, TakeReply, Received, At
  <2>2. SocketInv'
    BY <1>24 DEF SkipUnwaited, TakeReply, Received, At
  <2> QED
    BY <2>1, <2>2
<1>25. ASSUME NEW r \in Receiver, ReceiveNothing(r) PROVE (TypeOK /\ SocketInv)'
  BY ZenonT(60), <1>25 DEF ReceiveNothing, At
<1>26. ASSUME NEW r \in Receiver, Notify(r) PROVE (TypeOK /\ SocketInv)'
  BY ZenonT(60), <1>26 DEF Notify, At, GoTo
<1>27. ASSUME NEW s \in Socket, Answer(s) PROVE (TypeOK /\ SocketInv)'
  <2>1. TypeOK'
    <3>1. requests[s][1] \in Request /\ requests' \in [Socket -> Seq(Request)]
      <4>1. requests \in [Socket -> Seq(Request)] /\ requests[s] # <<>>
        BY <1>27 DEF Answer
      <4>2. requests' = [requests EXCEPT ![s] = Tail(@)]
        BY <1>27 DEF Answer
      <4> QED
        BY ONLY <4>1, <4>2, QueueTypes, s \in Socket
    <3>2. replies' \in [Socket -> Seq(Request \cup {Unwaited})]
      <4>1. PICK m \in Request \cup {Unwaited} :
               replies' = [replies EXCEPT ![s] = Append(@, m)]
        BY <1>27, <3>1 DEF Answer
      <4>2. replies \in [Socket -> Seq(Request \cup {Unwaited})]
        OBVIOUS
      <4> QED
        BY ONLY <4>1, <4>2, QueueTypes
    <3>3. UNCHANGED <<stateVars, link, response, pc, callVars, recvVars, terminated,
                      incidents>>
      BY <1>27 DEF Answer
    <3> QED
      BY <3>1, <3>2, <3>3
  <2>2. SocketInv'
    BY <1>27 DEF Answer
  <2> QED
    BY <2>1, <2>2
<1>28. ASSUME NEW s \in Socket, Reset(s) PROVE (TypeOK /\ SocketInv)'
  BY <1>28 DEF Reset
<1>29. CASE UNCHANGED vars
  BY <1>29 DEF vars
<1> HIDE DEF TypeOK, SocketInv, Socket, Receiver
<1> QED
  BY <1>1, <1>2, <1>3, <1>4, <1>5, <1>6, <1>7, <1>8, <1>9, <1>10, <1>11,
     <1>12, <1>13, <1>14, <1>15, <1>16, <1>17, <1>18, <1>19, <1>20, <1>21,
     <1>22, <1>23, <1>24, <1>25, <1>26, <1>27, <1>28, <1>29 DEF Next,
     CallerStep, ReceiverStep

\* A caller that starts to change the state while another does is a race, and
\* nobody else touches what AloneInv speaks of.
LEMMA AloneStep ==
    ConnectionInv /\ [Next]_vars => AloneInv' /\ StateMatchesSocket'
<1> SUFFICES ASSUME ConnectionInv, [Next]_vars
             PROVE  (AloneInv /\ StateMatchesSocket)'
  OBVIOUS
<1> USE ConnectionAssumption
    DEF ConnectionInv, TypeOK, SocketInv, AloneInv, StateMatchesSocket, Socket, Connecting,
        Disconnecting, stateVars, wireVars, callVars, recvVars
<1>1. ASSUME NEW c \in Caller, MakeRequest(c) PROVE (AloneInv /\ StateMatchesSocket)'
  BY <1>1 DEF MakeRequest, GoTo, Noted, Others, Request
<1>2. ASSUME NEW c \in Caller, CheckConnected(c) PROVE (AloneInv /\ StateMatchesSocket)'
  BY <1>2 DEF CheckConnected, GoTo
<1>3. ASSUME NEW c \in Caller, CheckNotConnected(c) PROVE (AloneInv /\ StateMatchesSocket)'
  BY <1>3 DEF CheckNotConnected, GoTo, Noted, Others, Racing
<1>4. ASSUME NEW c \in Caller, OpenSocket(c) PROVE (AloneInv /\ StateMatchesSocket)'
  BY SMTT(30), <1>4 DEF OpenSocket, GoTo
<1>5. ASSUME NEW c \in Caller, OpenFails(c) PROVE (AloneInv /\ StateMatchesSocket)'
  <2>1. CASE depth[c] = 0
    BY <1>5, <2>1 DEF OpenFails, NoInstance, GoTo
  <2>2. CASE depth[c] # 0
    BY <1>5, <2>2 DEF OpenFails, NoInstance, Terminate
  <2> QED
    BY <2>1, <2>2
<1>6. ASSUME NEW c \in Caller, SetInited(c) PROVE (AloneInv /\ StateMatchesSocket)'
  BY <1>6 DEF SetInited, GoTo
<1>7. ASSUME NEW c \in Caller, AlreadyInited(c) PROVE (AloneInv /\ StateMatchesSocket)'
  BY <1>7 DEF AlreadyInited, EnterInner, GoTo
<1>8. ASSUME NEW c \in Caller, Connect(c) PROVE (AloneInv /\ StateMatchesSocket)'
  BY SMTT(30), <1>8 DEF Connect, GoTo
<1>9. ASSUME NEW c \in Caller, SetConnected(c) PROVE (AloneInv /\ StateMatchesSocket)'
  BY <1>9 DEF SetConnected, EnterInner, GoTo
<1>10. ASSUME NEW c \in Caller, ConnectFails(c) PROVE (AloneInv /\ StateMatchesSocket)'
  BY <1>10 DEF ConnectFails
<1>11. ASSUME NEW c \in Caller, GiveUpConnecting(c) PROVE (AloneInv /\ StateMatchesSocket)'
  BY SMTT(30), <1>11 DEF GiveUpConnecting, NoInstance, GoTo, Terminate
<1>12. ASSUME NEW c \in Caller, Spawn(c) PROVE (AloneInv /\ StateMatchesSocket)'
  BY <1>12 DEF Spawn, GoTo
<1>13. ASSUME NEW c \in Caller, Send(c) PROVE (AloneInv /\ StateMatchesSocket)'
  BY <1>13 DEF Send, GoTo
<1>14. ASSUME NEW c \in Caller, Wait(c) PROVE (AloneInv /\ StateMatchesSocket)'
  BY <1>14 DEF Wait, GoTo
<1>15. ASSUME NEW c \in Caller, WakeSpuriously(c) PROVE (AloneInv /\ StateMatchesSocket)'
  BY <1>15 DEF WakeSpuriously, GoTo, Noted
<1>16. ASSUME NEW c \in Caller, GetResponse(c) PROVE (AloneInv /\ StateMatchesSocket)'
  BY SMTT(30), <1>16 DEF GetResponse, GoTo, Terminate
<1>17. ASSUME NEW c \in Caller, TimeOut(c) PROVE (AloneInv /\ StateMatchesSocket)'
  BY <1>17 DEF TimeOut, GoTo, Racing, Others
<1>18. ASSUME NEW c \in Caller, DisconnectNothing(c) PROVE (AloneInv /\ StateMatchesSocket)'
  BY <1>18 DEF DisconnectNothing, GoTo
<1>19. ASSUME NEW c \in Caller, DisconnectSocket(c) PROVE (AloneInv /\ StateMatchesSocket)'
  BY <1>19 DEF DisconnectSocket, GoTo
<1>20. ASSUME NEW c \in Caller, SetDisconnected(c) PROVE (AloneInv /\ StateMatchesSocket)'
  BY <1>20 DEF SetDisconnected, GoTo
<1>21. ASSUME NEW r \in Receiver, ReadSocket(r) PROVE (AloneInv /\ StateMatchesSocket)'
  BY <1>21 DEF ReadSocket, At
<1>22. ASSUME NEW r \in Receiver, EndReceiving(r) PROVE (AloneInv /\ StateMatchesSocket)'
  BY <1>22 DEF EndReceiving, At
<1>23. ASSUME NEW r \in Receiver, StoreReply(r) PROVE (AloneInv /\ StateMatchesSocket)'
  BY <1>23 DEF StoreReply, TakeReply, Received, At
<1>24. ASSUME NEW r \in Receiver, SkipUnwaited(r) PROVE (AloneInv /\ StateMatchesSocket)'
  BY <1>24 DEF SkipUnwaited, TakeReply, Received, At
<1>25. ASSUME NEW r \in Receiver, ReceiveNothing(r) PROVE (AloneInv /\ StateMatchesSocket)'
  BY <1>25 DEF ReceiveNothing, At
<1>26. ASSUME NEW r \in Receiver, Notify(r) PROVE (AloneInv /\ StateMatchesSocket)'
  BY SMTT(30), <1>26 DEF Notify, At, GoTo
<1>27. ASSUME NEW s \in Socket, Answer(s) PROVE (AloneInv /\ StateMatchesSocket)'
  BY <1>27 DEF Answer
<1>28. ASSUME NEW s \in Socket, Reset(s) PROVE (AloneInv /\ StateMatchesSocket)'
  BY <1>28 DEF Reset
<1>29. CASE UNCHANGED vars
  BY <1>29 DEF vars
<1> HIDE DEF ConnectionInv, AloneInv, StateMatchesSocket, Socket
<1> QED
  BY <1>1, <1>2, <1>3, <1>4, <1>5, <1>6, <1>7, <1>8, <1>9, <1>10, <1>11,
     <1>12, <1>13, <1>14, <1>15, <1>16, <1>17, <1>18, <1>19, <1>20, <1>21,
     <1>22, <1>23, <1>24, <1>25, <1>26, <1>27, <1>28, <1>29 DEF Next,
     CallerStep, ReceiverStep

THEOREM Invariance == Spec => []ConnectionInv
<1>1. ConnectionInv /\ [Next]_vars => ConnectionInv'
  BY TypeStep, AloneStep DEF ConnectionInv
<1> QED
  BY ConnectionInit, <1>1, PTL DEF Spec

----------------------------------------------------------------------------
\* Type correctness (client.cpp:26-459, client.h:66-114).
THEOREM Typing == Spec => []TypeOK
<1>1. ConnectionInv => TypeOK
  BY DEF ConnectionInv
<1> QED
  BY <1>1, Invariance, PTL

\* Without a race a client that says it is connected has a live socket.
THEOREM StateAndSocketAgree == Spec => []StateMatchesSocket
<1>1. ConnectionInv => StateMatchesSocket
  BY DEF ConnectionInv
<1> QED
  BY <1>1, Invariance, PTL

----------------------------------------------------------------------------
(* One receive thread.                                                     *)

Calm == {"race", "timeout"} \cap incidents = {}

\* Until a race or a timeout the client connects once: the one caller that has
\* connected starts the one receive thread.
CalmInv ==
    Calm =>
        /\ \A c \in Caller :
              /\ pc[c] \notin Disconnecting
              /\ pc[c] \in {"connect", "established"} => clientState = "inited"
              /\ depth[c] # 0 =>
                    /\ depth[c] = 1 /\ pc[c] \in {"check", "spawn"}
                    /\ clientState = "connected"
                    /\ \A d \in Caller : depth[d] # 0 => c = d
                    /\ \A r \in Receiver : rpc[r] = "off"
        /\ clientState # "connected" => \A r \in Receiver : rpc[r] = "off"
        /\ \A q, r \in Receiver : rpc[q] # "off" /\ rpc[r] # "off" => q = r

\* A thread starts only when a caller returns from the connection it has made.
LEMMA CalmStep == ConnectionInv /\ CalmInv /\ [Next]_vars => CalmInv'
<1> SUFFICES ASSUME ConnectionInv, CalmInv, [Next]_vars PROVE CalmInv'
    OBVIOUS
<1> USE DEF ConnectionInv, TypeOK, AloneInv, CalmInv, Calm, Connecting, Disconnecting,
        Receiver, stateVars, wireVars, callVars, recvVars
<1>1. ASSUME NEW c \in Caller, MakeRequest(c) PROVE CalmInv'
  BY <1>1 DEF MakeRequest, GoTo, Noted, Others
<1>2. ASSUME NEW c \in Caller, CheckConnected(c) PROVE CalmInv'
  BY <1>2 DEF CheckConnected, GoTo
<1>3. ASSUME NEW c \in Caller, CheckNotConnected(c) PROVE CalmInv'
  BY <1>3 DEF CheckNotConnected, GoTo, Noted
<1>4. ASSUME NEW c \in Caller, OpenSocket(c) PROVE CalmInv'
  BY <1>4 DEF OpenSocket, GoTo
<1>5. ASSUME NEW c \in Caller, OpenFails(c) PROVE CalmInv'
  BY <1>5 DEF OpenFails, NoInstance, GoTo, Terminate
<1>6. ASSUME NEW c \in Caller, SetInited(c) PROVE CalmInv'
  BY <1>6 DEF SetInited, GoTo
<1>7. ASSUME NEW c \in Caller, AlreadyInited(c) PROVE CalmInv'
  BY <1>7 DEF AlreadyInited, EnterInner, GoTo
<1>8. ASSUME NEW c \in Caller, Connect(c) PROVE CalmInv'
  BY <1>8 DEF Connect, GoTo
<1>9. ASSUME NEW c \in Caller, SetConnected(c) PROVE CalmInv'
  BY <1>9 DEF SetConnected, EnterInner, GoTo
<1>10. ASSUME NEW c \in Caller, ConnectFails(c) PROVE CalmInv'
  BY <1>10 DEF ConnectFails
<1>11. ASSUME NEW c \in Caller, GiveUpConnecting(c) PROVE CalmInv'
  BY <1>11 DEF GiveUpConnecting, NoInstance, GoTo, Terminate
<1>12. ASSUME NEW c \in Caller, Spawn(c) PROVE CalmInv'
  <2>1. depth[c] # 0 /\ pc[c] = "spawn" /\ incidents' = incidents /\ clientState' = clientState
    BY <1>12 DEF SocketInv, Spawn
  <2>2. PICK r \in Receiver : rpc' = [rpc EXCEPT ![r] = "loop"]
    BY <1>12 DEF Spawn
  <2>3. /\ pc' = [pc EXCEPT ![c] = IF depth[c] = 1 THEN "send" ELSE "spawn"]
        /\ depth' = [depth EXCEPT ![c] = depth[c] - 1]
    BY <1>12 DEF Spawn, GoTo
  <2>4. Calm => /\ depth[c] = 1 /\ clientState = "connected"
                /\ \A q \in Receiver : rpc[q] = "off"
    BY <2>1
  <2>5. Calm => pc'[c] = "send" /\ depth'[c] = 0
    BY <2>3, <2>4
  <2>6. Calm => \A d \in Caller : depth'[d] = 0
    BY <2>1, <2>3, <2>4, <2>5
  <2>7. Calm => \A q \in Receiver : rpc'[q] # "off" => q = r
    BY <2>2, <2>4
  <2>8. Calm => /\ \A d \in Caller : pc'[d] \notin Disconnecting
                /\ \A d \in Caller : pc'[d] \in {"connect", "established"} =>
                                        clientState' = "inited"
    BY <2>1, <2>3, <2>5
  <2>9. Calm' => Calm
    BY <2>1
  <2>10. Calm => clientState' = "connected" /\ \A d \in Caller : depth'[d] = 0
    BY <2>1, <2>4, <2>6
  <2> HIDE DEF Calm, Receiver, Disconnecting, ConnectionInv, TypeOK, AloneInv
  <2> QED
    BY <2>7, <2>8, <2>9, <2>10
<1>13. ASSUME NEW c \in Caller, Send(c) PROVE CalmInv'
  BY <1>13 DEF Send, GoTo
<1>14. ASSUME NEW c \in Caller, Wait(c) PROVE CalmInv'
  BY <1>14 DEF Wait, GoTo
<1>15. ASSUME NEW c \in Caller, WakeSpuriously(c) PROVE CalmInv'
  BY <1>15 DEF WakeSpuriously, GoTo, Noted
<1>16. ASSUME NEW c \in Caller, GetResponse(c) PROVE CalmInv'
  BY <1>16 DEF GetResponse, GoTo, Terminate
<1>17. ASSUME NEW c \in Caller, TimeOut(c) PROVE CalmInv'
  BY <1>17 DEF TimeOut
<1>18. ASSUME NEW c \in Caller, DisconnectNothing(c) PROVE CalmInv'
  BY <1>18 DEF DisconnectNothing, GoTo
<1>19. ASSUME NEW c \in Caller, DisconnectSocket(c) PROVE CalmInv'
  BY <1>19 DEF DisconnectSocket, GoTo
<1>20. ASSUME NEW c \in Caller, SetDisconnected(c) PROVE CalmInv'
  BY <1>20 DEF SetDisconnected, GoTo
<1>21. ASSUME NEW r \in Receiver, ReadSocket(r) PROVE CalmInv'
  BY <1>21 DEF ReadSocket, At
<1>22. ASSUME NEW r \in Receiver, EndReceiving(r) PROVE CalmInv'
  BY <1>22 DEF EndReceiving, At
<1>23. ASSUME NEW r \in Receiver, StoreReply(r) PROVE CalmInv'
  BY <1>23 DEF StoreReply, TakeReply, Received, At
<1>24. ASSUME NEW r \in Receiver, SkipUnwaited(r) PROVE CalmInv'
  BY <1>24 DEF SkipUnwaited, TakeReply, Received, At
<1>25. ASSUME NEW r \in Receiver, ReceiveNothing(r) PROVE CalmInv'
  BY <1>25 DEF ReceiveNothing, At
<1>26. ASSUME NEW r \in Receiver, Notify(r) PROVE CalmInv'
  BY <1>26 DEF Notify, At, GoTo
<1>27. ASSUME NEW s \in Socket, Answer(s) PROVE CalmInv'
  BY <1>27 DEF Answer
<1>28. ASSUME NEW s \in Socket, Reset(s) PROVE CalmInv'
  BY <1>28 DEF Reset
<1>29. CASE UNCHANGED vars
  BY <1>29 DEF vars
<1> HIDE DEF ConnectionInv, CalmInv, Receiver
<1> QED
  BY <1>1, <1>2, <1>3, <1>4, <1>5, <1>6, <1>7, <1>8, <1>9, <1>10, <1>11,
     <1>12, <1>13, <1>14, <1>15, <1>16, <1>17, <1>18, <1>19, <1>20, <1>21,
     <1>22, <1>23, <1>24, <1>25, <1>26, <1>27, <1>28, <1>29 DEF Next,
     CallerStep, ReceiverStep

----------------------------------------------------------------------------
(* One request, in one place.                                              *)

Lone == incidents = {}

\* Neither a request nor its reply is under way.
NothingSent ==
    /\ \A s \in Socket : requests[s] = <<>> /\ replies[s] = <<>>
    /\ \A r \in Receiver : rpc[r] # "notify"

Waits(c) == pc[c] \in {"wait", "waiting"}

\* The one request is on its way to the server,
RequestsInv ==
    \A s \in Socket : requests[s] # <<>> =>
        /\ \E c \in Caller : Waits(c) /\ requests[s] = <<call[c]>>
        /\ \A t \in Socket : (requests[t] # <<>> => s = t) /\ replies[t] = <<>>
        /\ \A r \in Receiver : rpc[r] # "notify"

\* or its reply on the way back,
RepliesInv ==
    \A s \in Socket : replies[s] # <<>> =>
        /\ \E c \in Caller : Waits(c) /\ replies[s] \in {<<call[c]>>, <<Unwaited>>}
        /\ \A t \in Socket : replies[t] # <<>> => s = t
        /\ \A r \in Receiver : rpc[r] # "notify"

\* or stored and about to be notified.
NotifyInv ==
    \A r \in Receiver : rpc[r] = "notify" => \E c \in Caller : Waits(c) /\ response = call[c]

\* One caller has a request,
Sole == \A c, d \in Caller : pc[c] # "idle" /\ pc[d] # "idle" => c = d

\* and finds the reply to it when it wakes up.
WokenInv == \A c \in Caller : pc[c] = "woken" => response = call[c]

\* Until an incident there is one request at a time, in one place.
LoneInv ==
    Lone => ~terminated /\ Sole /\ RequestsInv /\ RepliesInv /\ NotifyInv /\ WokenInv

\* A client nobody waits in has nothing under way.
LEMMA NotWaiting ==
    ASSUME Sole, RequestsInv, RepliesInv, NotifyInv, NEW c \in Caller,
           \A d \in Caller \ {c} : pc[d] = "idle", ~Waits(c)
    PROVE  NothingSent
BY DEF Sole, RequestsInv, RepliesInv, NotifyInv, Waits, NothingSent

LEMMA NothingSentStep ==
    ASSUME TypeOK, NEW c \in Caller, \A d \in Caller \ {c} : pc[d] = "idle",
           NEW step, step # "woken", pc' = [pc EXCEPT ![c] = step],
           NothingSent', ~terminated'
    PROVE  LoneInv'
<1>1. \A d \in Caller \ {c} : pc'[d] = "idle"
  OBVIOUS
<1>2. pc'[c] = step
  BY DEF TypeOK
<1> QED
  BY <1>1, <1>2 DEF LoneInv, Sole, RequestsInv, RepliesInv, NotifyInv, WokenInv, NothingSent

\* A caller on its way, with nothing sent yet or everything received.
LEMMA CallerMoves ==
    ASSUME TypeOK, LoneInv, Lone, NEW c \in Caller, ~Waits(c), pc[c] # "idle",
           NEW step, step # "woken", pc' = [pc EXCEPT ![c] = step],
           UNCHANGED <<requests, replies, terminated>>,
           \A r \in Receiver : rpc'[r] = "notify" => rpc[r] = "notify"
    PROVE  LoneInv'
<1>1. \A d \in Caller \ {c} : pc[d] = "idle"
  BY DEF LoneInv, Sole
<1>2. NothingSent
  BY <1>1, NotWaiting DEF LoneInv
<1>3. NothingSent'
  BY <1>2 DEF NothingSent
<1> QED
  BY <1>1, <1>3, NothingSentStep DEF LoneInv

\* What has disturbed the connection stays known.
LEMMA IncidentsGrow == [Next]_vars => incidents \subseteq incidents'
BY DEF Next, CallerStep, ReceiverStep, MakeRequest, CheckConnected, CheckNotConnected,
   OpenSocket, OpenFails, SetInited, AlreadyInited, EnterInner, Connect, SetConnected,
   ConnectFails, GiveUpConnecting, NoInstance, Spawn, Send, Wait, WakeSpuriously,
   GetResponse, TimeOut, DisconnectNothing, DisconnectSocket, SetDisconnected,
   ReadSocket, EndReceiving, StoreReply, SkipUnwaited, TakeReply, ReceiveNothing, Notify,
   Answer, Reset, Noted, Terminate, vars

\* Each step of the request moves it to the next of its places: the socket, the
\* server, the socket again, the stored response, the caller.
LEMMA LoneStep == ConnectionInv /\ CalmInv /\ LoneInv /\ [Next]_vars => LoneInv'
<1> SUFFICES ASSUME ConnectionInv, CalmInv, LoneInv, [Next]_vars, Lone' PROVE LoneInv'
    BY DEF LoneInv
<1> USE DEF stateVars, wireVars, callVars, recvVars
<1>l. Lone
  BY IncidentsGrow DEF Lone
<1>t. TypeOK
  BY DEF ConnectionInv
<1>i. ~terminated /\ Sole /\ RequestsInv /\ RepliesInv /\ NotifyInv /\ WokenInv
  BY <1>l DEF LoneInv
<1>d. \A c \in Caller : depth[c] # 0 => pc[c] \in {"check", "spawn"}
  BY <1>l DEF CalmInv, Calm, Lone
<1>r. \A q, r \in Receiver : rpc[q] # "off" /\ rpc[r] # "off" => q = r
  BY <1>l DEF CalmInv, Calm, Lone
<1>1. ASSUME NEW c \in Caller, MakeRequest(c) PROVE LoneInv'
  <2>1. \A d \in Caller \ {c} : pc[d] = "idle"
    BY <1>1 DEF MakeRequest, Noted, Others, Lone
  <2>2. pc[c] = "idle" /\ ~Waits(c)
    BY <1>1 DEF MakeRequest, Waits
  <2>3. NothingSent
    BY <1>i, <2>1, <2>2, NotWaiting
  <2>4. /\ pc' = [pc EXCEPT ![c] = "check"]
        /\ UNCHANGED <<requests, replies, terminated, rpc>>
    BY <1>1 DEF MakeRequest, GoTo
  <2>5. NothingSent'
    BY <2>3, <2>4 DEF NothingSent
  <2> QED
    BY <1>i, <1>t, <2>1, <2>4, <2>5, NothingSentStep
<1>2. ASSUME NEW c \in Caller, CheckConnected(c) PROVE LoneInv'
  <2>1. ~Waits(c) /\ pc[c] # "idle"
    BY <1>2 DEF CheckConnected, GoTo, Waits
  <2>2. PICK step : step # "woken" /\ pc' = [pc EXCEPT ![c] = step]
    BY <1>2 DEF CheckConnected, GoTo
  <2>3. UNCHANGED <<requests, replies, terminated, rpc>>
    BY <1>2 DEF CheckConnected, GoTo
  <2> QED
    BY <1>l, <1>t, <2>1, <2>2, <2>3, CallerMoves
<1>3. ASSUME NEW c \in Caller, CheckNotConnected(c) PROVE LoneInv'
  <2>1. ~Waits(c) /\ pc[c] # "idle"
    BY <1>3 DEF CheckNotConnected, GoTo, Noted, Waits
  <2>2. PICK step : step # "woken" /\ pc' = [pc EXCEPT ![c] = step]
    BY <1>3 DEF CheckNotConnected, GoTo, Noted
  <2>3. UNCHANGED <<requests, replies, terminated, rpc>>
    BY <1>3 DEF CheckNotConnected, GoTo, Noted
  <2> QED
    BY <1>l, <1>t, <2>1, <2>2, <2>3, CallerMoves
<1>4. ASSUME NEW c \in Caller, OpenSocket(c) PROVE LoneInv'
  <2>1. ~Waits(c) /\ pc[c] # "idle"
    BY <1>4 DEF OpenSocket, GoTo, Waits
  <2>2. PICK step : step # "woken" /\ pc' = [pc EXCEPT ![c] = step]
    BY <1>4 DEF OpenSocket, GoTo
  <2>3. UNCHANGED <<requests, replies, terminated, rpc>>
    BY <1>4 DEF OpenSocket, GoTo
  <2> QED
    BY <1>l, <1>t, <2>1, <2>2, <2>3, CallerMoves
<1>5. ASSUME NEW c \in Caller, OpenFails(c) PROVE LoneInv'
  <2>1. ~Waits(c) /\ pc[c] # "idle" /\ depth[c] = 0
    BY <1>5, <1>d DEF OpenFails, Waits
  <2>2. /\ pc' = [pc EXCEPT ![c] = "idle"]
        /\ UNCHANGED <<requests, replies, terminated, rpc>>
    BY <1>5, <2>1 DEF OpenFails, NoInstance, GoTo, Terminate
  <2> QED
    BY <1>l, <1>t, <2>1, <2>2, CallerMoves
<1>6. ASSUME NEW c \in Caller, SetInited(c) PROVE LoneInv'
  <2>1. ~Waits(c) /\ pc[c] # "idle"
    BY <1>6 DEF SetInited, GoTo, Waits
  <2>2. PICK step : step # "woken" /\ pc' = [pc EXCEPT ![c] = step]
    BY <1>6 DEF SetInited, GoTo
  <2>3. UNCHANGED <<requests, replies, terminated, rpc>>
    BY <1>6 DEF SetInited, GoTo
  <2> QED
    BY <1>l, <1>t, <2>1, <2>2, <2>3, CallerMoves
<1>7. ASSUME NEW c \in Caller, AlreadyInited(c) PROVE LoneInv'
  <2>1. ~Waits(c) /\ pc[c] # "idle"
    BY <1>7 DEF AlreadyInited, EnterInner, GoTo, Waits
  <2>2. PICK step : step # "woken" /\ pc' = [pc EXCEPT ![c] = step]
    BY <1>7 DEF AlreadyInited, EnterInner, GoTo
  <2>3. UNCHANGED <<requests, replies, terminated, rpc>>
    BY <1>7 DEF AlreadyInited, EnterInner, GoTo
  <2> QED
    BY <1>l, <1>t, <2>1, <2>2, <2>3, CallerMoves
<1>8. ASSUME NEW c \in Caller, Connect(c) PROVE LoneInv'
  <2>1. ~Waits(c) /\ pc[c] # "idle"
    BY <1>8 DEF Connect, GoTo, Waits
  <2>2. PICK step : step # "woken" /\ pc' = [pc EXCEPT ![c] = step]
    BY <1>8 DEF Connect, GoTo
  <2>3. UNCHANGED <<requests, replies, terminated, rpc>>
    BY <1>8 DEF Connect, GoTo
  <2> QED
    BY <1>l, <1>t, <2>1, <2>2, <2>3, CallerMoves
<1>9. ASSUME NEW c \in Caller, SetConnected(c) PROVE LoneInv'
  <2>1. ~Waits(c) /\ pc[c] # "idle"
    BY <1>9 DEF SetConnected, EnterInner, GoTo, Waits
  <2>2. PICK step : step # "woken" /\ pc' = [pc EXCEPT ![c] = step]
    BY <1>9 DEF SetConnected, EnterInner, GoTo
  <2>3. UNCHANGED <<requests, replies, terminated, rpc>>
    BY <1>9 DEF SetConnected, EnterInner, GoTo
  <2> QED
    BY <1>l, <1>t, <2>1, <2>2, <2>3, CallerMoves
<1>10. ASSUME NEW c \in Caller, ConnectFails(c) PROVE LoneInv'
  BY <1>10 DEF ConnectFails,
     ConnectionInv, TypeOK, AloneInv, CalmInv, Calm, LoneInv, Lone, Sole, RequestsInv,
     RepliesInv, NotifyInv, WokenInv, Waits, Connecting, Disconnecting
<1>11. ASSUME NEW c \in Caller, GiveUpConnecting(c) PROVE LoneInv'
  <2>1. ~Waits(c) /\ pc[c] # "idle" /\ depth[c] = 0
    BY <1>11, <1>d DEF GiveUpConnecting, Waits
  <2>2. /\ pc' = [pc EXCEPT ![c] = "idle"]
        /\ UNCHANGED <<requests, replies, terminated, rpc>>
    BY <1>11, <2>1 DEF GiveUpConnecting, NoInstance, GoTo, Terminate
  <2> QED
    BY <1>l, <1>t, <2>1, <2>2, CallerMoves
<1>12. ASSUME NEW c \in Caller, Spawn(c) PROVE LoneInv'
  <2>1. ~Waits(c) /\ pc[c] # "idle"
    BY <1>12 DEF Spawn, Waits
  <2>2. PICK step : step # "woken" /\ pc' = [pc EXCEPT ![c] = step]
    BY <1>12 DEF Spawn, GoTo
  <2>3. UNCHANGED <<requests, replies, terminated>>
    BY <1>12 DEF Spawn, GoTo
  <2>4. \A r \in Receiver : rpc'[r] = "notify" => rpc[r] = "notify"
    BY <1>12, <1>t DEF Spawn, TypeOK
  <2> QED
    BY <1>l, <1>t, <2>1, <2>2, <2>3, <2>4, CallerMoves
<1>13. ASSUME NEW c \in Caller, Send(c) PROVE LoneInv'
  <2>1. ~Waits(c) /\ pc[c] # "idle"
    BY <1>13 DEF Send, Waits
  <2>2. \A d \in Caller \ {c} : pc[d] = "idle"
    BY <1>i, <2>1 DEF Sole
  <2>3. NothingSent
    BY <1>i, <2>1, <2>2, NotWaiting
  <2>4. /\ pc' = [pc EXCEPT ![c] = "wait"]
        /\ UNCHANGED <<replies, response, call, rpc, terminated, socket>>
        /\ \/ requests' = [requests EXCEPT ![socket] = Append(@, call[c])]
           \/ requests' = requests
    BY <1>13 DEF Send, GoTo
  <2>5. pc'[c] = "wait" /\ \A d \in Caller \ {c} : pc'[d] = "idle"
    BY <1>t, <2>2, <2>4 DEF TypeOK
  <2>6. Append(<<>>, call[c]) = <<call[c]>>
    OBVIOUS
  <2>7. \A s \in Socket : requests'[s] # <<>> => s = socket /\ requests'[s] = <<call[c]>>
    BY <1>t, <2>3, <2>4, <2>6 DEF NothingSent, TypeOK
  <2>8. \A s \in Socket : replies'[s] = <<>>
    BY <2>3, <2>4 DEF NothingSent
  <2>9. \A r \in Receiver : rpc'[r] # "notify"
    BY <2>3, <2>4 DEF NothingSent
  <2>10. Waits(c)' /\ call' = call
    BY <2>4, <2>5 DEF Waits
  <2>11. RequestsInv'
    BY <2>7, <2>8, <2>9, <2>10 DEF RequestsInv
  <2> QED
    BY <1>i, <2>4, <2>5, <2>8, <2>9, <2>11
       DEF LoneInv, Sole, RepliesInv, NotifyInv, WokenInv
<1>14. ASSUME NEW c \in Caller, Wait(c) PROVE LoneInv'
  BY <1>14 DEF Wait, GoTo,
     ConnectionInv, TypeOK, AloneInv, CalmInv, Calm, LoneInv, Lone, Sole, RequestsInv,
     RepliesInv, NotifyInv, WokenInv, Waits, Connecting, Disconnecting
<1>15. ASSUME NEW c \in Caller, WakeSpuriously(c) PROVE LoneInv'
  BY <1>15 DEF WakeSpuriously, GoTo, Noted,
     ConnectionInv, TypeOK, AloneInv, CalmInv, Calm, LoneInv, Lone, Sole, RequestsInv,
     RepliesInv, NotifyInv, WokenInv, Waits, Connecting, Disconnecting
<1>16. ASSUME NEW c \in Caller, GetResponse(c) PROVE LoneInv'
  <2>1. ~Waits(c) /\ pc[c] # "idle" /\ response = call[c]
    BY <1>16, <1>i DEF GetResponse, Waits, WokenInv
  <2>2. /\ pc' = [pc EXCEPT ![c] = "idle"]
        /\ UNCHANGED <<requests, replies, terminated, rpc>>
    BY <1>16, <2>1 DEF GetResponse, GoTo
  <2> QED
    BY <1>l, <1>t, <2>1, <2>2, CallerMoves
<1>17. ASSUME NEW c \in Caller, TimeOut(c) PROVE LoneInv'
  BY <1>17 DEF TimeOut,
     ConnectionInv, TypeOK, AloneInv, CalmInv, Calm, LoneInv, Lone, Sole, RequestsInv,
     RepliesInv, NotifyInv, WokenInv, Waits, Connecting, Disconnecting
<1>18. ASSUME NEW c \in Caller, DisconnectNothing(c) PROVE LoneInv'
  BY <1>18 DEF DisconnectNothing, GoTo,
     ConnectionInv, TypeOK, AloneInv, CalmInv, Calm, LoneInv, Lone, Sole, RequestsInv,
     RepliesInv, NotifyInv, WokenInv, Waits, Connecting, Disconnecting
<1>19. ASSUME NEW c \in Caller, DisconnectSocket(c) PROVE LoneInv'
  BY <1>19 DEF DisconnectSocket, GoTo,
     ConnectionInv, TypeOK, AloneInv, CalmInv, Calm, LoneInv, Lone, Sole, RequestsInv,
     RepliesInv, NotifyInv, WokenInv, Waits, Connecting, Disconnecting
<1>20. ASSUME NEW c \in Caller, SetDisconnected(c) PROVE LoneInv'
  BY <1>20 DEF SetDisconnected, GoTo,
     ConnectionInv, TypeOK, AloneInv, CalmInv, Calm, LoneInv, Lone, Sole, RequestsInv,
     RepliesInv, NotifyInv, WokenInv, Waits, Connecting, Disconnecting
<1>21. ASSUME NEW r \in Receiver, ReadSocket(r) PROVE LoneInv'
  BY <1>21 DEF ReadSocket, At,
     ConnectionInv, TypeOK, AloneInv, CalmInv, Calm, LoneInv, Lone, Sole, RequestsInv,
     RepliesInv, NotifyInv, WokenInv, Waits, Connecting, Disconnecting
<1>22. ASSUME NEW r \in Receiver, EndReceiving(r) PROVE LoneInv'
  BY <1>22 DEF EndReceiving, At,
     ConnectionInv, TypeOK, AloneInv, CalmInv, Calm, LoneInv, Lone, Sole, RequestsInv,
     RepliesInv, NotifyInv, WokenInv, Waits, Connecting, Disconnecting
<1>23. ASSUME NEW r \in Receiver, StoreReply(r) PROVE LoneInv'
  <2>1. PICK s \in Socket : s = rsock[r]
    BY <1>23, <1>t DEF StoreReply, TakeReply, ConnectionInv, SocketInv, TypeOK
  <2>2. /\ replies[s] # <<>> /\ replies[s][1] # Unwaited
        /\ replies' = [replies EXCEPT ![s] = Tail(@)]
        /\ response' = replies[s][1]
        /\ UNCHANGED <<requests, pc, call, terminated>>
    BY <1>23, <2>1 DEF StoreReply, TakeReply, Received
  <2>3. PICK c \in Caller : Waits(c) /\ replies[s] \in {<<call[c]>>, <<Unwaited>>}
    BY <1>i, <2>2 DEF RepliesInv
  <2>4. replies[s] = <<call[c]>>
    BY <2>2, <2>3
  <2>5. replies[s][1] = call[c] /\ Tail(replies[s]) = <<>>
    BY <2>4
  <2>6. \A t \in Socket : requests'[t] = <<>> /\ replies'[t] = <<>>
    BY <1>i, <1>t, <2>2, <2>5 DEF RequestsInv, RepliesInv, TypeOK
  <2>7. Waits(c)' /\ response' = call'[c]
    BY <2>2, <2>3, <2>5 DEF Waits
  <2>8. WokenInv'
    BY <1>i, <2>2, <2>3 DEF WokenInv, Sole, Waits
  <2> QED
    BY <1>i, <2>2, <2>6, <2>7, <2>8
       DEF LoneInv, Sole, RequestsInv, RepliesInv, NotifyInv
<1>24. ASSUME NEW r \in Receiver, SkipUnwaited(r) PROVE LoneInv'
  <2>1. PICK s \in Socket : s = rsock[r]
    BY <1>24, <1>t DEF SkipUnwaited, TakeReply, ConnectionInv, SocketInv, TypeOK
  <2>2. /\ replies[s] # <<>>
        /\ replies' = [replies EXCEPT ![s] = Tail(@)]
        /\ rpc' = [rpc EXCEPT ![r] = "loop"]
        /\ UNCHANGED <<requests, response, pc, call, terminated>>
    BY <1>24, <2>1 DEF SkipUnwaited, TakeReply, At
  <2>3. PICK c \in Caller : Waits(c) /\ replies[s] \in {<<call[c]>>, <<Unwaited>>}
    BY <1>i, <2>2 DEF RepliesInv
  <2>4. Tail(replies[s]) = <<>>
    <3>1. PICK m : replies[s] = <<m>>
      BY <2>3
    <3> QED
      BY <3>1
  <2>5. \A t \in Socket : requests'[t] = <<>> /\ replies'[t] = <<>>
    BY <1>i, <1>t, <2>2, <2>4 DEF RequestsInv, RepliesInv, TypeOK
  <2>6. \A q \in Receiver : rpc'[q] # "notify"
    BY <1>i, <1>t, <2>2 DEF RepliesInv, TypeOK
  <2> QED
    BY <1>i, <2>2, <2>5, <2>6
       DEF LoneInv, Sole, RequestsInv, RepliesInv, NotifyInv, WokenInv
<1>25. ASSUME NEW r \in Receiver, ReceiveNothing(r) PROVE LoneInv'
  BY <1>25 DEF ReceiveNothing, At,
     ConnectionInv, TypeOK, AloneInv, CalmInv, Calm, LoneInv, Lone, Sole, RequestsInv,
     RepliesInv, NotifyInv, WokenInv, Waits, Connecting, Disconnecting
<1>26. ASSUME NEW r \in Receiver, Notify(r) PROVE LoneInv'
  <2>1. rpc[r] = "notify" /\ rpc' = [rpc EXCEPT ![r] = "loop"]
    BY <1>26 DEF Notify, At
  <2>2. UNCHANGED <<requests, replies, response, call, terminated>>
    BY <1>26 DEF Notify
  <2>3. PICK c \in Caller : Waits(c) /\ response = call[c]
    BY <1>i, <2>1 DEF NotifyInv
  <2>4. \A d \in Caller \ {c} : pc[d] = "idle"
    BY <1>i, <2>3 DEF Sole, Waits
  <2>5. pc' = [pc EXCEPT ![c] = "woken"] \/ pc' = pc
    <3>1. CASE \E d \in Caller : pc[d] = "waiting"
      <4>1. PICK d \in Caller : pc[d] = "waiting" /\ GoTo(d, "woken")
        BY <1>26, <3>1 DEF Notify
      <4>2. d = c
        BY <2>4, <4>1
      <4> QED
        BY <4>1, <4>2 DEF GoTo
    <3>2. CASE ~ \E d \in Caller : pc[d] = "waiting"
      BY <1>26, <3>2 DEF Notify
    <3> QED
      BY <3>1, <3>2
  <2>6. \A q \in Receiver : rpc'[q] # "notify"
    BY <1>r, <1>t, <2>1 DEF TypeOK
  <2>7. \A s \in Socket : requests'[s] = <<>> /\ replies'[s] = <<>>
    <3>1. \A s \in Socket : requests[s] = <<>> /\ replies[s] = <<>>
      BY <1>i, <2>1 DEF RequestsInv, RepliesInv
    <3> QED
      BY <2>2, <3>1
  <2>8. \A d \in Caller \ {c} : pc'[d] = "idle"
    BY <1>t, <2>4, <2>5 DEF TypeOK
  <2>9. Sole' /\ WokenInv'
    <3>1. response' = call'[c]
      BY <2>2, <2>3
    <3> QED
      BY <2>8, <3>1 DEF Sole, WokenInv
  <2> QED
    BY <1>i, <2>2, <2>6, <2>7, <2>9 DEF LoneInv, RequestsInv, RepliesInv, NotifyInv
<1>27. ASSUME NEW s \in Socket, Answer(s) PROVE LoneInv'
  <2>1. /\ requests[s] # <<>>
        /\ requests' = [requests EXCEPT ![s] = Tail(@)]
        /\ UNCHANGED <<response, pc, call, rpc, terminated>>
    BY <1>27 DEF Answer
  <2>2. PICK c \in Caller : Waits(c) /\ requests[s] = <<call[c]>>
    BY <1>i, <2>1 DEF RequestsInv
  <2>3. requests[s][1] = call[c] /\ Tail(requests[s]) = <<>>
    BY <2>2
  <2>4. PICK m \in {call[c], Unwaited} : replies' = [replies EXCEPT ![s] = Append(@, m)]
    BY <1>27, <2>3 DEF Answer
  <2>5. \A t \in Socket : replies[t] = <<>> /\ (requests[t] # <<>> => s = t)
    BY <1>i, <2>1 DEF RequestsInv
  <2>6. \A t \in Socket : requests'[t] = <<>>
    BY <1>t, <2>1, <2>3, <2>5 DEF TypeOK
  <2>7. Append(<<>>, m) = <<m>>
    OBVIOUS
  <2>8. \A t \in Socket : replies'[t] # <<>> => t = s /\ replies'[t] = <<m>>
    BY <1>t, <2>4, <2>5, <2>7 DEF TypeOK
  <2>9. Waits(c)' /\ <<m>> \in {<<call'[c]>>, <<Unwaited>>}
    BY <2>1, <2>2 DEF Waits
  <2>10. \A r \in Receiver : rpc'[r] # "notify"
    BY <1>i, <2>1 DEF RequestsInv
  <2>11. RepliesInv'
    BY <2>8, <2>9, <2>10 DEF RepliesInv
  <2> QED
    BY <1>i, <2>1, <2>6, <2>10, <2>11 DEF LoneInv, Sole, RequestsInv, NotifyInv, WokenInv
<1>28. ASSUME NEW s \in Socket, Reset(s) PROVE LoneInv'
  <2>1. /\ requests' = [requests EXCEPT ![s] = <<>>]
        /\ UNCHANGED <<replies, response, pc, call, rpc, terminated>>
    BY <1>28 DEF Reset
  <2>2. \A t \in Socket : requests'[t] # <<>> => requests'[t] = requests[t]
    BY <1>t, <2>1 DEF TypeOK
  <2>3. RequestsInv'
    BY <1>i, <2>1, <2>2 DEF RequestsInv, Waits
  <2> QED
    BY <1>i, <2>1, <2>3 DEF LoneInv, Sole, RepliesInv, NotifyInv, WokenInv, Waits
<1>29. CASE UNCHANGED vars
  BY <1>29 DEF vars,
     ConnectionInv, TypeOK, AloneInv, CalmInv, Calm, LoneInv, Lone, Sole, RequestsInv,
     RepliesInv, NotifyInv, WokenInv, Waits, Connecting, Disconnecting
<1> QED
  BY <1>1, <1>2, <1>3, <1>4, <1>5, <1>6, <1>7, <1>8, <1>9, <1>10, <1>11,
     <1>12, <1>13, <1>14, <1>15, <1>16, <1>17, <1>18, <1>19, <1>20, <1>21,
     <1>22, <1>23, <1>24, <1>25, <1>26, <1>27, <1>28, <1>29 DEF Next,
     CallerStep, ReceiverStep

LEMMA QuietInit == Init => CalmInv /\ LoneInv
BY DEF Init, CalmInv, Calm, Disconnecting, LoneInv, Lone, Sole, RequestsInv, RepliesInv,
   NotifyInv, WokenInv, Waits

LEMMA QuietInvariance == Spec => [](ConnectionInv /\ CalmInv /\ LoneInv)
<1>1. ConnectionInv /\ CalmInv /\ LoneInv /\ [Next]_vars
          => (ConnectionInv /\ CalmInv /\ LoneInv)'
  BY CalmStep, LoneStep, TypeStep, AloneStep DEF ConnectionInv
<1> QED
  BY <1>1, ConnectionInit, QuietInit, PTL DEF Spec

\* The loop of GetInstance() that connects starts one receive thread per
\* connection: without a race or a timeout there is one, however many requests
\* overlap and whatever the server does (client.cpp:26-45, 124-127).
THEOREM OneReceiveThread == Spec => []OneReceiver
<1>1. CalmInv => OneReceiver
  <2> SUFFICES ASSUME CalmInv, Calm
               PROVE  Cardinality({r \in Receiver : rpc[r] # "off"}) <= 1
    BY DEF OneReceiver, Calm
  <2>1. CASE \A r \in Receiver : rpc[r] = "off"
    <3>1. {r \in Receiver : rpc[r] # "off"} = {}
      BY <2>1
    <3> QED
      BY <3>1, FS_EmptySet
  <2>2. CASE \E r \in Receiver : rpc[r] # "off"
    <3>1. PICK r \in Receiver : rpc[r] # "off"
      BY <2>2
    <3>2. {q \in Receiver : rpc[q] # "off"} = {r}
      BY <3>1 DEF CalmInv
    <3> QED
      BY <3>2, FS_Singleton
  <2> QED
    BY <2>1, <2>2
<1> QED
  BY <1>1, QuietInvariance, PTL

\* A request that nothing has disturbed returns with its own reply, although
\* neither the reply nor the wait names the request (client.h:66-84,
\* client.cpp:124-339).
THEOREM RepliesAreOwn == Spec => []OwnReply
<1>1. LoneInv => OwnReply
  BY DEF LoneInv, Lone, WokenInv, OwnReply
<1> QED
  BY <1>1, QuietInvariance, PTL

\* and neither value() nor std::get throws out of a noexcept function
\* (client.cpp:41; client.h:66-84).
THEOREM NothingThrows == Spec => []NoBadAccess
<1>1. LoneInv => NoBadAccess
  BY DEF LoneInv, Lone, NoBadAccess
<1> QED
  BY <1>1, QuietInvariance, PTL
=============================================================================
