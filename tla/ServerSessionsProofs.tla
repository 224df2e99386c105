------------------------ MODULE ServerSessionsProofs ------------------------
(***************************************************************************)
(* Proofs that the safety properties of ServerSessions hold for any set of *)
(* sockets and users and any number of slots.  One inductive invariant per *)
(* table: SlotInv for _connections, RouteInv for _connectionsToUserId.     *)
(***************************************************************************)
EXTENDS ServerSessions, TLAPS

\* The variables a client or an accept step leaves alone in the routing proof.
routeVars == <<connectionsToUserId, registered, displaced, userId, element, receiver,
               handedOver>>

\* The inductive strengthening of OneSlotPerConnection: the connection that
\* Run() has accepted and not yet placed has no handler.
SlotInv ==
    /\ OneSlotPerConnection
    /\ newConnection # NoSocket => handler[newConnection] = "none"

\* The inductive strengthening of RefusedOnlyWhenFull: slots behind the search
\* may be freed, but slots ahead of it are only ever filled by Run() itself.
SearchInv ==
    newConnection # NoSocket /\ ~fullAtAccept
        => \E i \in Slots : i >= slot /\ connections[i] = NoSocket

\* Between its search and its registration a handler knows the only entry that
\* its socket can have: the one in element, then none.
HandlersKnow ==
    \A s \in Socket :
        /\ handler[s] = "register" => EntriesOf(s) = {}
        /\ handler[s] = "erase" => element[s] \in UserId /\ EntriesOf(s) \subseteq {element[s]}

\* The inductive strengthening of the routing properties.
RouteInv ==
    /\ OneUserPerSocket
    /\ RegisteredGetsOnlyOwn
    /\ RegisteredIsReachable
    /\ ForwardReachesReceiver
    /\ HandlersKnow

----------------------------------------------------------------------------
\* Every variable keeps its type: in particular no handler ever uses an
\* element or receiver that is not an entry of the table's type.
LEMMA TypeStep == TypeOK /\ RouteInv /\ [Next]_vars => TypeOK'
<1> SUFFICES ASSUME TypeOK, RouteInv, [Next]_vars PROVE TypeOK'
    OBVIOUS
<1> USE SessionAssumption DEF TypeOK, Slots, HandlerState, Serving, Registering
<1>1. CASE AcceptThread
  <2>1. CASE SkipSlot
    BY <2>1 DEF SkipSlot, requestVars, clientVars, auxVars
  <2>2. CASE TakeSlot
    BY <2>2 DEF TakeSlot, requestVars, clientVars, auxVars
  <2>3. CASE RefuseConnection
    BY <2>3 DEF RefuseConnection, requestVars, auxVars
  <2> QED
    BY <1>1, <2>1, <2>2, <2>3 DEF AcceptThread
<1>2. ASSUME NEW s \in Socket, HandlerThread(s) PROVE TypeOK'
  <2>1. ASSUME NEW u \in UserId, ReplyUserId(s, u) PROVE TypeOK'
    BY <2>1 DEF ReplyUserId, acceptVars, auxVars
  <2>2. CASE FindOldEntry(s)
    BY <2>2 DEF FindOldEntry, EntriesOf, acceptVars, clientVars, auxVars
  <2>3. CASE EraseOldEntry(s)
    BY <2>3 DEF EraseOldEntry, RouteInv, HandlersKnow, acceptVars, clientVars
  <2>4. CASE RegisterSocket(s)
    BY <2>4 DEF RegisterSocket, acceptVars, clientVars
  <2>5. ASSUME NEW r \in UserId, FindReceiver(s, r) PROVE TypeOK'
    BY <2>5 DEF FindReceiver, acceptVars, requestVars
  <2>6. CASE SendToReceiver(s)
    BY <2>6 DEF SendToReceiver, NoReceiver, acceptVars, requestVars, clientVars
  <2>7. CASE ServeOtherRequest(s)
    BY <2>7 DEF ServeOtherRequest, acceptVars, requestVars, auxVars
  <2>8. CASE DropConnection(s)
    BY <2>8 DEF DropConnection, acceptVars, requestVars, clientVars, auxVars
  <2>9. CASE CloseSocket(s)
    BY <2>9 DEF CloseSocket, acceptVars, requestVars, clientVars
  <2> QED
    BY <1>2, <2>1, <2>2, <2>3, <2>4, <2>5, <2>6, <2>7, <2>8, <2>9 DEF HandlerThread
<1>3. ASSUME NEW s \in Socket, Client(s) PROVE TypeOK'
  <2>1. CASE Accept(s)
    BY <2>1 DEF Accept, requestVars, auxVars
  <2>2. CASE ClientSends(s)
    BY <2>2 DEF ClientSends, acceptVars, requestVars, auxVars
  <2>3. CASE ClientLeaves(s)
    BY <2>3 DEF ClientLeaves, acceptVars, requestVars, auxVars
  <2> QED
    BY <1>3, <2>1, <2>2, <2>3 DEF Client
<1>4. CASE UNCHANGED vars
  BY <1>4 DEF vars
<1> QED
  BY <1>1, <1>2, <1>3, <1>4 DEF Next

----------------------------------------------------------------------------
\* The slot table and the search of Run() stay consistent under every step.
LEMMA SlotStep == TypeOK /\ SlotInv /\ SearchInv /\ [Next]_vars => SlotInv' /\ SearchInv'
<1> SUFFICES ASSUME TypeOK, SlotInv, SearchInv, [Next]_vars PROVE SlotInv' /\ SearchInv'
    OBVIOUS
<1> USE SessionAssumption DEF TypeOK, SlotInv, SearchInv, OneSlotPerConnection, Slots,
        Serving, Registering
<1>1. CASE SkipSlot
  BY <1>1 DEF SkipSlot
<1>2. CASE TakeSlot
  BY <1>2 DEF TakeSlot
<1>3. CASE RefuseConnection
  BY <1>3 DEF RefuseConnection
<1>4. ASSUME NEW s \in Socket, Accept(s) PROVE SlotInv' /\ SearchInv'
  BY <1>4 DEF Accept
<1>5. ASSUME NEW s \in Socket, DropConnection(s) PROVE SlotInv' /\ SearchInv'
  <2> USE <1>5 DEF DropConnection, acceptVars
  <2>1. \A i \in Slots : connections[i] # s => connections'[i] = connections[i]
    OBVIOUS
  <2>2. \A i \in Slots : connections[i] = s => connections'[i] = NoSocket
    OBVIOUS
  <2> QED
    BY <2>1, <2>2
<1>6. ASSUME NEW s \in Socket, CloseSocket(s) PROVE SlotInv' /\ SearchInv'
  BY <1>6 DEF CloseSocket, acceptVars
\* The steps inside a handler move between two states of Serving.
<1>7. ASSUME UNCHANGED <<connections, acceptVars>>,
             NEW s \in Socket, NEW h \in Serving, handler[s] \in Serving,
             handler' = [handler EXCEPT ![s] = h]
      PROVE  SlotInv' /\ SearchInv'
  BY <1>7 DEF acceptVars
<1>8. ASSUME UNCHANGED <<connections, acceptVars, handler>> PROVE SlotInv' /\ SearchInv'
  BY <1>8 DEF acceptVars
<1>9. ASSUME NEW s \in Socket, HandlerThread(s) PROVE SlotInv' /\ SearchInv'
  <2>1. ASSUME NEW u \in UserId, ReplyUserId(s, u) PROVE SlotInv' /\ SearchInv'
    BY <1>7, <2>1 DEF ReplyUserId
  <2>2. CASE FindOldEntry(s)
    BY <1>7, <2>2 DEF FindOldEntry
  <2>3. CASE EraseOldEntry(s)
    BY <1>7, <2>3 DEF EraseOldEntry
  <2>4. CASE RegisterSocket(s)
    BY <1>7, <2>4 DEF RegisterSocket
  <2>5. ASSUME NEW r \in UserId, FindReceiver(s, r) PROVE SlotInv' /\ SearchInv'
    BY <1>7, <2>5 DEF FindReceiver
  <2>6. CASE SendToReceiver(s)
    BY <1>7, <2>6 DEF SendToReceiver
  <2>7. CASE ServeOtherRequest(s)
    BY <1>8, <2>7 DEF ServeOtherRequest
  <2> QED
    BY <1>5, <1>6, <1>9, <2>1, <2>2, <2>3, <2>4, <2>5, <2>6, <2>7 DEF HandlerThread
<1>10. ASSUME NEW s \in Socket, Client(s) PROVE SlotInv' /\ SearchInv'
  BY <1>4, <1>8, <1>10 DEF Client, ClientSends, ClientLeaves
<1>11. CASE UNCHANGED vars
  BY <1>8, <1>11 DEF vars, acceptVars
<1> QED
  BY <1>1, <1>2, <1>3, <1>9, <1>10, <1>11 DEF Next, AcceptThread

----------------------------------------------------------------------------
\* The routing table, and what handlers remember of it, stay consistent.
LEMMA RouteStep == TypeOK /\ SlotInv /\ RouteInv /\ [Next]_vars => RouteInv'
<1> SUFFICES ASSUME TypeOK, SlotInv, RouteInv, [Next]_vars PROVE RouteInv'
    OBVIOUS
<1> USE SessionAssumption DEF RouteInv
\* Steps that change neither the table nor what a handler remembers of it.
<1>1. ASSUME UNCHANGED routeVars,
             \A t \in Socket :
                 /\ handler'[t] = "send" => handler[t] = "send"
                 /\ handler'[t] \in {"register", "erase"} => handler'[t] = handler[t]
                 /\ handler[t] \in Registering => handler'[t] \in Registering
      PROVE  RouteInv'
  <2> USE <1>1 DEF routeVars
  <2>1. OneUserPerSocket' /\ RegisteredGetsOnlyOwn'
    BY DEF OneUserPerSocket, RegisteredGetsOnlyOwn
  <2>2. RegisteredIsReachable'
    BY DEF RegisteredIsReachable
  <2>3. ForwardReachesReceiver'
    BY DEF ForwardReachesReceiver
  <2>4. HandlersKnow'
    BY DEF HandlersKnow, EntriesOf
  <2> QED
    BY <2>1, <2>2, <2>3, <2>4
<1>2. CASE AcceptThread
  <2> USE DEF routeVars, requestVars, clientVars, auxVars
  <2>1. CASE TakeSlot
    <3>1. newConnection \in Socket /\ handler[newConnection] = "none"
      BY <2>1 DEF TakeSlot, SlotInv, TypeOK
    <3> QED
      BY <1>1, <2>1, <3>1 DEF TakeSlot, TypeOK, Registering
  <2> QED
    BY <1>1, <1>2, <2>1 DEF AcceptThread, SkipSlot, RefuseConnection
<1>3. ASSUME NEW s \in Socket, HandlerThread(s) PROVE RouteInv'
  <2> USE DEF TypeOK, Registering
  <2>1. ASSUME NEW u \in UserId, ReplyUserId(s, u) PROVE RouteInv'
    <3> USE <2>1 DEF ReplyUserId, auxVars
    <3>1. OneUserPerSocket' /\ RegisteredGetsOnlyOwn'
      BY DEF OneUserPerSocket, RegisteredGetsOnlyOwn
    <3>2. RegisteredIsReachable'
      BY DEF RegisteredIsReachable
    <3>3. ForwardReachesReceiver'
      BY DEF ForwardReachesReceiver
    <3>4. HandlersKnow'
      BY DEF HandlersKnow, EntriesOf
    <3> QED
      BY <3>1, <3>2, <3>3, <3>4
  <2>2. CASE FindOldEntry(s)
    <3> USE <2>2 DEF FindOldEntry, auxVars
    <3>1. OneUserPerSocket' /\ RegisteredGetsOnlyOwn'
      BY DEF OneUserPerSocket, RegisteredGetsOnlyOwn
    <3>2. RegisteredIsReachable'
      BY DEF RegisteredIsReachable
    <3>3. ForwardReachesReceiver'
      BY DEF ForwardReachesReceiver
    <3>4. HandlersKnow'
      <4>1. \A t \in Socket : EntriesOf(t)' = EntriesOf(t)
        BY DEF EntriesOf
      <4>2. \A u, v \in EntriesOf(s) : u = v
        BY DEF OneUserPerSocket, EntriesOf
      <4>3. \A t \in Socket \ {s} : handler'[t] = handler[t] /\ element'[t] = element[t]
        OBVIOUS
      <4>4. handler'[s] = "register" => EntriesOf(s) = {}
        OBVIOUS
      <4>5. handler'[s] = "erase" => element'[s] \in EntriesOf(s)
        OBVIOUS
      <4>6. EntriesOf(s) \subseteq UserId
        BY DEF EntriesOf
      <4> HIDE <2>2 DEF FindOldEntry
      <4> QED
        BY <4>1, <4>2, <4>3, <4>4, <4>5, <4>6 DEF HandlersKnow
    <3> QED
      BY <3>1, <3>2, <3>3, <3>4
  <2>3. CASE EraseOldEntry(s)
    <3> USE <2>3 DEF EraseOldEntry
    <3>0. element[s] \in UserId
      BY DEF HandlersKnow
    <3>1. OneUserPerSocket' /\ RegisteredGetsOnlyOwn'
      BY <3>0 DEF OneUserPerSocket, RegisteredGetsOnlyOwn
    <3>2. RegisteredIsReachable'
      BY <3>0 DEF RegisteredIsReachable
    <3>3. ForwardReachesReceiver'
      BY DEF ForwardReachesReceiver
    <3>4. HandlersKnow'
      BY <3>0 DEF HandlersKnow, EntriesOf
    <3> QED
      BY <3>1, <3>2, <3>3, <3>4
  <2>4. CASE RegisterSocket(s)
    <3> USE <2>4 DEF RegisterSocket
    <3>0. \A u \in UserId : connectionsToUserId[u] # s
      BY DEF HandlersKnow, EntriesOf
    <3>1. OneUserPerSocket' /\ RegisteredGetsOnlyOwn'
      BY <3>0 DEF OneUserPerSocket, RegisteredGetsOnlyOwn
    <3>2. RegisteredIsReachable'
      BY DEF RegisteredIsReachable
    <3>3. ForwardReachesReceiver'
      BY DEF ForwardReachesReceiver
    <3>4. HandlersKnow'
      BY DEF HandlersKnow, EntriesOf
    <3> QED
      BY <3>1, <3>2, <3>3, <3>4
  <2>5. ASSUME NEW r \in UserId, FindReceiver(s, r) PROVE RouteInv'
    <3> USE <2>5 DEF FindReceiver, requestVars
    <3>1. OneUserPerSocket' /\ RegisteredGetsOnlyOwn'
      BY DEF OneUserPerSocket, RegisteredGetsOnlyOwn
    <3>2. RegisteredIsReachable'
      BY DEF RegisteredIsReachable
    <3>3. ForwardReachesReceiver'
      BY DEF ForwardReachesReceiver, RegisteredGetsOnlyOwn
    <3>4. HandlersKnow'
      BY DEF HandlersKnow, EntriesOf
    <3> QED
      BY <3>1, <3>2, <3>3, <3>4
  <2>6. CASE SendToReceiver(s)
    <3> USE <2>6 DEF SendToReceiver, requestVars
    <3>1. OneUserPerSocket' /\ RegisteredGetsOnlyOwn'
      BY DEF OneUserPerSocket, RegisteredGetsOnlyOwn
    <3>2. RegisteredIsReachable'
      BY DEF RegisteredIsReachable
    <3>3. ForwardReachesReceiver'
      BY DEF ForwardReachesReceiver
    <3>4. HandlersKnow'
      BY DEF HandlersKnow, EntriesOf
    <3> QED
      BY <3>1, <3>2, <3>3, <3>4
  <2>7. CASE ServeOtherRequest(s)
    BY <1>1, <2>7 DEF ServeOtherRequest, routeVars, requestVars, auxVars
  <2>8. CASE DropConnection(s)
    BY <1>1, <2>8 DEF DropConnection, routeVars, requestVars, auxVars
  <2>9. CASE CloseSocket(s)
    <3> USE <2>9 DEF CloseSocket, requestVars
    <3>1. OneUserPerSocket' /\ RegisteredGetsOnlyOwn'
      BY DEF OneUserPerSocket, RegisteredGetsOnlyOwn
    <3>2. RegisteredIsReachable'
      BY DEF RegisteredIsReachable
    <3>3. ForwardReachesReceiver'
      BY DEF ForwardReachesReceiver
    <3>4. HandlersKnow'
      BY DEF HandlersKnow, EntriesOf
    <3> QED
      BY <3>1, <3>2, <3>3, <3>4
  <2> QED
    BY <1>3, <2>1, <2>2, <2>3, <2>4, <2>5, <2>6, <2>7, <2>8, <2>9 DEF HandlerThread
<1>4. ASSUME NEW s \in Socket, Client(s) PROVE RouteInv'
  BY <1>1, <1>4 DEF Client, Accept, ClientSends, ClientLeaves, routeVars, requestVars, auxVars
<1>5. CASE UNCHANGED vars
  BY <1>1, <1>5 DEF vars, routeVars
<1> QED
  BY <1>2, <1>3, <1>4, <1>5 DEF Next

----------------------------------------------------------------------------
\* The types and the two tables' invariants hold in every reachable state.
THEOREM Invariance == Spec => [](TypeOK /\ SlotInv /\ SearchInv /\ RouteInv)
<1>1. Init => TypeOK /\ SlotInv /\ SearchInv /\ RouteInv
  <2> SUFFICES ASSUME Init PROVE TypeOK /\ SlotInv /\ SearchInv /\ RouteInv
      OBVIOUS
  <2> USE SessionAssumption DEF Init
  <2>1. TypeOK
    <3>1. NoReceiver \in [user : UserId, socket : Socket \cup {NoSocket}]
      BY DEF NoReceiver
    <3>2. slot \in 1 .. (MaxConnections + 1)
      OBVIOUS
    <3>3. handler \in [Socket -> HandlerState]
      BY DEF HandlerState
    <3> QED
      BY <3>1, <3>2, <3>3 DEF TypeOK
  <2>2. SlotInv /\ SearchInv
    BY DEF SlotInv, SearchInv, OneSlotPerConnection, Serving, Registering
  <2>3. RouteInv
    BY DEF RouteInv, OneUserPerSocket, RegisteredGetsOnlyOwn, RegisteredIsReachable,
       ForwardReachesReceiver, HandlersKnow
  <2> QED
    BY <2>1, <2>2, <2>3
<1>2. TypeOK /\ SlotInv /\ SearchInv /\ RouteInv /\ [Next]_vars
          => (TypeOK /\ SlotInv /\ SearchInv /\ RouteInv)'
  BY TypeStep, SlotStep, RouteStep
<1> QED
  BY <1>1, <1>2, PTL DEF Spec

\* Type correctness of every reachable state.
THEOREM Typing == Spec => []TypeOK
BY Invariance, PTL

\* The accept thread and the handler threads never leak or double-book a slot.
THEOREM SlotsConsistent == Spec => []OneSlotPerConnection
<1>1. SlotInv => OneSlotPerConnection
  BY DEF SlotInv
<1> QED
  BY <1>1, Invariance, PTL

\* A client is turned away only when no slot was free at its accept().
THEOREM NoFalseRefusal == Spec => []RefusedOnlyWhenFull
<1>1. TypeOK /\ SearchInv => RefusedOnlyWhenFull
  BY SessionAssumption DEF TypeOK, SearchInv, RefusedOnlyWhenFull, Slots
<1> QED
  BY <1>1, Invariance, PTL

\* A socket never stands for two users.
THEOREM RoutingInjective == Spec => []OneUserPerSocket
<1>1. RouteInv => OneUserPerSocket
  BY DEF RouteInv
<1> QED
  BY <1>1, Invariance, PTL

\* No entry of another user leads to a connection that has registered.
THEOREM OwnEntriesOnly == Spec => []RegisteredGetsOnlyOwn
<1>1. RouteInv => RegisteredGetsOnlyOwn
  BY DEF RouteInv
<1> QED
  BY <1>1, Invariance, PTL

\* A registered connection is found under its user unless it was displaced.
THEOREM RegistrationLasts == Spec => []RegisteredIsReachable
<1>1. RouteInv => RegisteredIsReachable
  BY DEF RouteInv
<1> QED
  BY <1>1, Invariance, PTL

\* A forwarded message misses its receiver only when the handle changed hands
\* between the lookup and the send.
THEOREM ForwardingSound == Spec => []ForwardReachesReceiver
<1>1. RouteInv => ForwardReachesReceiver
  BY DEF RouteInv
<1> QED
  BY <1>1, Invariance, PTL
=============================================================================
