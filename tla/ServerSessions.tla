--------------------------- MODULE ServerSessions ---------------------------
(***************************************************************************)
(* The connection bookkeeping of ServerNetworking::Server                  *)
(* (src/server/server.cpp): the accept loop Run(), the detached            *)
(* ClientHandler thread of every accepted socket, the slot table           *)
(* _connections, the routing table _connectionsToUserId that               *)
(* HandleGetUserIdFromDatabase writes and HandleSendChatMessage reads.     *)
(*                                                                         *)
(* No lock guards either table.  One action is one access to a shared      *)
(* table by one thread; the accept thread reads _connections slot by slot. *)
(* A socket handle is a name the operating system hands out again after    *)
(* closesocket(), so a handle outlives the connection it stood for.        *)
(***************************************************************************)
EXTENDS Naturals

CONSTANTS
    Socket,          \* handles the operating system can return
    NoSocket,        \* INVALID_SOCKET
    UserId,          \* ids a database query can return, 0 for "no such login"
    NoUser,          \* no user id
    MaxConnections   \* _maxConnectionsCount (100)

ASSUME SessionAssumption ==
    /\ NoSocket \notin Socket
    /\ UserId \subseteq Nat /\ 0 \in UserId
    /\ NoUser \notin UserId
    /\ MaxConnections \in Nat \ {0}

VARIABLES
    connections,         \* _connections
    connectionsToUserId, \* _connectionsToUserId, NoSocket for "no entry"
    newConnection,       \* the local of Run() between accept() and its use
    slot,                \* the slot that Run()'s std::find looks at next
    handler,             \* where the ClientHandler thread of a socket is
    userId,              \* the local userId of HandleGetUserIdFromDatabase
    element,             \* the key of the entry its loop is about to erase
    receiver,            \* the row of HandleSendChatMessage and its socket
    peers,               \* sockets whose client end is still connected
    unread,              \* a request lies in the socket's receive buffer
    registered,          \* auxiliary: the user a live connection registered
    displaced,           \* auxiliary: another thread took its routing entry
    handedOver,          \* auxiliary: receiver's handle changed hands since find()
    fullAtAccept         \* auxiliary: no slot was free when accept() returned

acceptVars  == <<newConnection, slot, fullAtAccept>>
requestVars == <<userId, element>>
clientVars  == <<peers, unread>>
auxVars     == <<registered, displaced, handedOver>>
vars == <<connections, connectionsToUserId, newConnection, slot, handler, userId, element,
          receiver, peers, unread, registered, displaced, handedOver, fullAtAccept>>

Slots == 1 .. MaxConnections

\* Inside HandleGetUserIdFromDatabase, after the reply.
Registering == {"scan", "erase", "register"}

\* The thread of a socket is in its loop, or inside a handler.
Serving == {"recv", "send"} \cup Registering

HandlerState == {"none", "close"} \cup Serving

NoReceiver == [user |-> 0, socket |-> NoSocket]

TypeOK ==
    /\ connections \in [Slots -> Socket \cup {NoSocket}]
    /\ connectionsToUserId \in [UserId -> Socket \cup {NoSocket}]
    /\ newConnection \in Socket \cup {NoSocket}
    /\ slot \in 1 .. (MaxConnections + 1)
    /\ handler \in [Socket -> HandlerState]
    /\ userId \in [Socket -> UserId]
    /\ element \in [Socket -> UserId \cup {NoUser}]
    /\ receiver \in [Socket -> [user : UserId, socket : Socket \cup {NoSocket}]]
    /\ peers \in SUBSET Socket
    /\ unread \in [Socket -> BOOLEAN]
    /\ registered \in [Socket -> UserId \cup {NoUser}]
    /\ displaced \in [Socket -> BOOLEAN]
    /\ handedOver \in [Socket -> BOOLEAN]
    /\ fullAtAccept \in BOOLEAN

Init ==
    /\ connections = [i \in Slots |-> NoSocket]
    /\ connectionsToUserId = [u \in UserId |-> NoSocket]
    /\ newConnection = NoSocket
    /\ slot = 1
    /\ handler = [s \in Socket |-> "none"]
    /\ userId = [s \in Socket |-> 0]
    /\ element = [s \in Socket |-> NoUser]
    /\ receiver = [s \in Socket |-> NoReceiver]
    /\ peers = {}
    /\ unread = [s \in Socket |-> FALSE]
    /\ registered = [s \in Socket |-> NoUser]
    /\ displaced = [s \in Socket |-> FALSE]
    /\ handedOver = [s \in Socket |-> FALSE]
    /\ fullAtAccept = FALSE

----------------------------------------------------------------------------
(* The accept loop.                                                        *)

\* accept() returns a handle that is not in use; std::find starts at slot 1.
Accept(s) ==
    /\ newConnection = NoSocket
    /\ handler[s] = "none"
    /\ newConnection' = s
    /\ slot' = 1
    /\ fullAtAccept' = (\A i \in Slots : connections[i] # NoSocket)
    /\ peers' = peers \cup {s}
    /\ UNCHANGED <<connections, connectionsToUserId, handler, requestVars, receiver,
                   unread, auxVars>>

SkipSlot_Unchecked ==
    /\ newConnection # NoSocket
    /\ slot \in Slots
    /\ slot' = slot + 1
    /\ UNCHANGED <<connections, connectionsToUserId, newConnection, fullAtAccept, handler,
                   requestVars, receiver, clientVars, auxVars>>

\* std::find passes over a slot that is taken.
SkipSlot ==
    /\ newConnection # NoSocket
    /\ slot \in Slots
    /\ connections[slot] # NoSocket
    /\ slot' = slot + 1
    /\ UNCHANGED <<connections, connectionsToUserId, newConnection, fullAtAccept, handler,
                   requestVars, receiver, clientVars, auxVars>>

TakeSlot_Unchecked ==
    /\ newConnection # NoSocket
    /\ slot \in Slots
    /\ connections' = [connections EXCEPT ![slot] = newConnection]
    /\ handler' = [handler EXCEPT ![newConnection] = "recv"]
    /\ newConnection' = NoSocket
    /\ UNCHANGED <<connectionsToUserId, slot, fullAtAccept, requestVars, receiver,
                   clientVars, auxVars>>

\* std::find stops at a free slot: take it and start the ClientHandler thread.
\* (_connectionsCurrentCount, incremented here, is read nowhere.)
TakeSlot ==
    /\ newConnection # NoSocket
    /\ slot \in Slots
    /\ connections[slot] = NoSocket
    /\ connections' = [connections EXCEPT ![slot] = newConnection]
    /\ handler' = [handler EXCEPT ![newConnection] = "recv"]
    /\ newConnection' = NoSocket
    /\ UNCHANGED <<connectionsToUserId, slot, fullAtAccept, requestVars, receiver,
                   clientVars, auxVars>>

\* No slot was free when the search passed it: closesocket(newConnection).
RefuseConnection ==
    /\ newConnection # NoSocket
    /\ slot = MaxConnections + 1
    /\ peers' = peers \ {newConnection}
    /\ unread' = [unread EXCEPT ![newConnection] = FALSE]
    /\ newConnection' = NoSocket
    /\ UNCHANGED <<connections, connectionsToUserId, slot, fullAtAccept, handler,
                   requestVars, receiver, auxVars>>

----------------------------------------------------------------------------
(* HandleGetUserIdFromDatabase.  The id goes out to the client before the  *)
(* routing table is touched; a login that is not found is registered as 0. *)

ReplyUserId(s, u) ==
    /\ handler[s] = "recv"
    /\ unread[s]
    /\ unread' = [unread EXCEPT ![s] = FALSE]
    /\ handler' = [handler EXCEPT ![s] = "scan"]
    /\ userId' = [userId EXCEPT ![s] = u]
    /\ UNCHANGED <<connections, connectionsToUserId, acceptVars, element, receiver, peers,
                   auxVars>>

EntriesOf(s) == {u \in UserId : connectionsToUserId[u] = s}

FindOldEntry_AnyEntry(s) ==
    /\ handler[s] = "scan"
    /\ \/ /\ \E u \in UserId : connectionsToUserId[u] # NoSocket
          /\ \E u \in UserId : /\ connectionsToUserId[u] # NoSocket
                               /\ element' = [element EXCEPT ![s] = u]
          /\ handler' = [handler EXCEPT ![s] = "erase"]
       \/ /\ \A u \in UserId : connectionsToUserId[u] = NoSocket
          /\ handler' = [handler EXCEPT ![s] = "register"]
          /\ UNCHANGED element
    /\ UNCHANGED <<connections, connectionsToUserId, acceptVars, userId, receiver,
                   clientVars, auxVars>>

\* The loop over the map stops at the first entry (in the order of the ids)
\* that holds this socket.
FindOldEntry(s) ==
    /\ handler[s] = "scan"
    /\ \/ \E u \in EntriesOf(s) :
             /\ \A v \in EntriesOf(s) : u <= v
             /\ element' = [element EXCEPT ![s] = u]
             /\ handler' = [handler EXCEPT ![s] = "erase"]
       \/ /\ EntriesOf(s) = {}
          /\ handler' = [handler EXCEPT ![s] = "register"]
          /\ UNCHANGED element
    /\ UNCHANGED <<connections, connectionsToUserId, acceptVars, userId, receiver,
                   clientVars, auxVars>>

EraseOldEntry_Forgotten(s) ==
    /\ handler[s] = "erase"
    /\ handler' = [handler EXCEPT ![s] = "register"]
    /\ element' = [element EXCEPT ![s] = NoUser]
    /\ UNCHANGED <<connections, connectionsToUserId, acceptVars, userId, receiver,
                   clientVars, auxVars>>

\* erase(element.first) goes by the key, whatever the entry holds by now.
EraseOldEntry(s) ==
    /\ handler[s] = "erase"
    /\ connectionsToUserId' = [connectionsToUserId EXCEPT ![element[s]] = NoSocket]
    /\ displaced' =
           [t \in Socket |-> displaced[t] \/ (t # s /\ connectionsToUserId[element[s]] = t)]
    /\ handler' = [handler EXCEPT ![s] = "register"]
    /\ element' = [element EXCEPT ![s] = NoUser]
    /\ UNCHANGED <<connections, acceptVars, userId, receiver, clientVars, registered,
                   handedOver>>

RegisterSocket_KeepsEntry(s) ==
    /\ handler[s] = "register"
    /\ connectionsToUserId' =
           [connectionsToUserId EXCEPT ![userId[s]] = IF @ = NoSocket THEN s ELSE @]
    /\ registered' = [registered EXCEPT ![s] = userId[s]]
    /\ displaced' = [t \in Socket |-> t # s /\ (displaced[t] \/ registered[t] = userId[s])]
    /\ handedOver' = [t \in Socket |-> handedOver[t] \/ receiver[t].socket = s]
    /\ handler' = [handler EXCEPT ![s] = "recv"]
    /\ userId' = [userId EXCEPT ![s] = 0]
    /\ UNCHANGED <<connections, acceptVars, element, receiver, clientVars>>

\* _connectionsToUserId[userId] = clientSocket
RegisterSocket(s) ==
    /\ handler[s] = "register"
    /\ connectionsToUserId' = [connectionsToUserId EXCEPT ![userId[s]] = s]
    /\ registered' = [registered EXCEPT ![s] = userId[s]]
    /\ displaced' = [t \in Socket |-> t # s /\ (displaced[t] \/ registered[t] = userId[s])]
    /\ handedOver' = [t \in Socket |-> handedOver[t] \/ receiver[t].socket = s]
    /\ handler' = [handler EXCEPT ![s] = "recv"]
    /\ userId' = [userId EXCEPT ![s] = 0]
    /\ UNCHANGED <<connections, acceptVars, element, receiver, clientVars>>

----------------------------------------------------------------------------
(* The forwarding half of HandleSendChatMessage, and every other handler.  *)

FindReceiver_WrongKey(s, r) ==
    /\ handler[s] = "recv"
    /\ unread[s]
    /\ unread' = [unread EXCEPT ![s] = FALSE]
    /\ \E u \in UserId :
          /\ connectionsToUserId[u] # NoSocket
          /\ receiver' = [receiver EXCEPT ![s] = [user   |-> r,
                                                  socket |-> connectionsToUserId[u]]]
    /\ handedOver' = [handedOver EXCEPT ![s] = FALSE]
    /\ handler' = [handler EXCEPT ![s] = "send"]
    /\ UNCHANGED <<connections, connectionsToUserId, acceptVars, requestVars, peers,
                   registered, displaced>>

\* _connectionsToUserId.find(receiverUserId) finds an entry.
FindReceiver(s, r) ==
    /\ handler[s] = "recv"
    /\ unread[s]
    /\ unread' = [unread EXCEPT ![s] = FALSE]
    /\ connectionsToUserId[r] # NoSocket
    /\ receiver' = [receiver EXCEPT ![s] = [user |-> r, socket |-> connectionsToUserId[r]]]
    /\ handedOver' = [handedOver EXCEPT ![s] = FALSE]
    /\ handler' = [handler EXCEPT ![s] = "send"]
    /\ UNCHANGED <<connections, connectionsToUserId, acceptVars, requestVars, peers,
                   registered, displaced>>

\* send() to it->second.  The result is ignored, so a closed handle is no error.
SendToReceiver(s) ==
    /\ handler[s] = "send"
    /\ receiver' = [receiver EXCEPT ![s] = NoReceiver]
    /\ handedOver' = [handedOver EXCEPT ![s] = FALSE]
    /\ handler' = [handler EXCEPT ![s] = "recv"]
    /\ UNCHANGED <<connections, connectionsToUserId, acceptVars, requestVars, clientVars,
                   registered, displaced>>

\* A request whose handler leaves both tables alone: any other action type, a
\* failed query, an empty login, a chat partner with no routing entry.
ServeOtherRequest(s) ==
    /\ handler[s] = "recv"
    /\ unread[s]
    /\ unread' = [unread EXCEPT ![s] = FALSE]
    /\ UNCHANGED <<connections, connectionsToUserId, acceptVars, handler, requestVars,
                   receiver, peers, auxVars>>

----------------------------------------------------------------------------
(* The end of a connection.                                                *)

DropConnection_NoBreak(s) ==
    /\ handler[s] = "recv"
    /\ s \notin peers /\ ~unread[s]
    /\ connections' = [i \in Slots |-> IF connections[i] = s THEN NoSocket ELSE connections[i]]
    /\ UNCHANGED <<connectionsToUserId, acceptVars, handler, requestVars, receiver, clientVars,
                   auxVars>>

\* recv() returns <= 0: the first slot that holds the socket is freed.
DropConnection(s) ==
    /\ handler[s] = "recv"
    /\ s \notin peers /\ ~unread[s]
    /\ connections' =
           [i \in Slots |-> IF connections[i] = s /\ \A j \in Slots :
                                    connections[j] = s => i <= j
                            THEN NoSocket ELSE connections[i]]
    /\ handler' = [handler EXCEPT ![s] = "close"]
    /\ UNCHANGED <<connectionsToUserId, acceptVars, requestVars, receiver, clientVars,
                   auxVars>>

\* closesocket(), then the thread ends.  The routing table keeps its entry.
CloseSocket(s) ==
    /\ handler[s] = "close"
    /\ handler' = [handler EXCEPT ![s] = "none"]
    /\ registered' = [registered EXCEPT ![s] = NoUser]
    /\ displaced' = [displaced EXCEPT ![s] = FALSE]
    /\ handedOver' = [t \in Socket |-> handedOver[t] \/ receiver[t].socket = s]
    /\ UNCHANGED <<connections, connectionsToUserId, acceptVars, requestVars, receiver,
                   clientVars>>

----------------------------------------------------------------------------
(* The clients: they send requests and leave when they like.  BOUND: one   *)
(* unread request per connection.                                          *)

ClientSends(s) ==
    /\ s \in peers
    /\ ~unread[s]
    /\ unread' = [unread EXCEPT ![s] = TRUE]
    /\ UNCHANGED <<connections, connectionsToUserId, acceptVars, handler, requestVars,
                   receiver, peers, auxVars>>

\* An orderly end leaves the unread request to be served, a reset drops it.
ClientLeaves(s) ==
    /\ s \in peers
    /\ peers' = peers \ {s}
    /\ unread' \in {unread, [unread EXCEPT ![s] = FALSE]}
    /\ UNCHANGED <<connections, connectionsToUserId, acceptVars, handler, requestVars,
                   receiver, auxVars>>

----------------------------------------------------------------------------
AcceptThread == SkipSlot \/ TakeSlot \/ RefuseConnection

HandlerThread(s) ==
    \/ \E u \in UserId : ReplyUserId(s, u)
    \/ FindOldEntry(s)
    \/ EraseOldEntry(s)
    \/ RegisterSocket(s)
    \/ \E r \in UserId \ {0} : FindReceiver(s, r)
    \/ SendToReceiver(s)
    \/ ServeOtherRequest(s)
    \/ DropConnection(s)
    \/ CloseSocket(s)

Client(s) == Accept(s) \/ ClientSends(s) \/ ClientLeaves(s)

Next ==
    \/ AcceptThread
    \/ \E s \in Socket : HandlerThread(s) \/ Client(s)

Spec == Init /\ [][Next]_vars

\* The scheduler runs every thread that can run.  Nothing is assumed of clients.
FairSpec ==
    /\ Spec
    /\ WF_vars(AcceptThread)
    /\ \A s \in Socket : WF_vars(HandlerThread(s))

----------------------------------------------------------------------------
(* Properties.                                                             *)

\* Although the accept thread and the handler threads share the slot table
\* without a lock, a connection that has a running handler holds exactly one
\* slot, and a slot is never held by a connection that has none: the table
\* neither leaks nor double-books under any interleaving of Run() with the
\* disconnects of ClientHandler().
OneSlotPerConnection ==
    /\ \A i \in Slots : connections[i] # NoSocket => handler[connections[i]] \in Serving
    /\ \A i, j \in Slots : connections[i] = connections[j] /\ connections[i] # NoSocket => i = j
    /\ \A s \in Socket : handler[s] \in Serving => \E i \in Slots : connections[i] = s

\* Run() turns a client away only if the table really was full at the moment
\* accept() returned, even when slots are freed behind its search.
RefusedOnlyWhenFull ==
    newConnection # NoSocket /\ slot = MaxConnections + 1 => fullAtAccept

\* A socket stands for at most one user in the routing table, so the single
\* erase-and-break of HandleGetUserIdFromDatabase removes all there is to
\* remove, whatever entries former owners of the handle left behind.
OneUserPerSocket ==
    \A u, v \in UserId :
        connectionsToUserId[u] = connectionsToUserId[v] /\ connectionsToUserId[u] # NoSocket
            => u = v

\* Once a connection has registered, no other user's entry leads to it: the
\* entry that outlived the handle's former connection is gone.
RegisteredGetsOnlyOwn ==
    \A u \in UserId : \A s \in Socket :
        connectionsToUserId[u] = s /\ registered[s] # NoUser
            => registered[s] = u

\* A registered connection is in the routing table under its own user, unless
\* another connection registered the same user later or a concurrent handler
\* erased the entry by its key.
RegisteredIsReachable ==
    \A s \in Socket :
        registered[s] # NoUser /\ ~displaced[s] /\ handler[s] \notin Registering
            => connectionsToUserId[registered[s]] = s

\* HandleSendChatMessage uses the socket after its lookup without holding
\* anything.  What it is about to send reaches the receiver's connection or an
\* unregistered one, unless the handle was closed or registered in between.
ForwardReachesReceiver ==
    \A s \in Socket :
        /\ handler[s] = "send"
        /\ ~handedOver[s]
        /\ receiver[s].socket # NoSocket
        => registered[receiver[s].socket] \in {receiver[s].user, NoUser}

\* A client that left gets its slot freed and its thread ended, whatever its
\* handler was doing, unless the handle is already another client's.
DepartedClientReleased ==
    \A s \in Socket : s \notin peers ~> (handler[s] = "none" \/ s \in peers)
=============================================================================
