--------------------------- MODULE ServerDatabase ---------------------------
(***************************************************************************)
(* The writing handlers of ServerNetworking::Server over the one database  *)
(* session that Database::DatabaseHelper opens for all of them:            *)
(*   HandleCreateNewPersonalChat, HandleSendChatMessage and                *)
(*   HandleAddUserCredentialsToDatabase (src/server/server.cpp).           *)
(*                                                                         *)
(* Every connection has a thread of its own, but setAutoCommit(), commit() *)
(* and rollback() act on the session, that is on the statements of every   *)
(* thread, and nothing turns autocommit on again.  One action is one       *)
(* statement; every statement may throw sql::SQLException.                 *)
(*                                                                         *)
(* What the tables of src/sqlScripts/create.sql hold is kept as a set of   *)
(* rows.  Names are dropped: display names are not unique, so the user a   *)
(* name stands for (... WHERE name = ... LIMIT 1) may be any user.         *)
(***************************************************************************)
EXTENDS Integers, FiniteSets

CONSTANTS
    Thread,        \* ClientHandler threads
    InitialUsers,  \* BOUND: users 1 .. InitialUsers are registered at the start
    MaxRequests    \* BOUND: writing requests served in all

ASSUME DatabaseAssumption == InitialUsers \in Nat /\ MaxRequests \in Nat

VARIABLES
    committed,     \* the rows on disk
    session,       \* the rows the session sees: committed and uncommitted
    autocommit,    \* connection->getAutoCommit()
    lastInsertId,  \* LAST_INSERT_ID() of the session
    nextId,        \* AUTO_INCREMENT of each table, not undone by a rollback
    pc,            \* the statement a thread executes next
    user,          \* senderUserId of its request
    chat,          \* chatId of its request
    requests,      \* requests started so far
    told,          \* <<user, chat>>: chats whose id some client of user has seen
    acked,         \* auxiliary: users whose registration was answered "true",
                   \* and whether autocommit was on
    own,           \* auxiliary: the rows its request has inserted
    undone,        \* auxiliary: another thread's rollback ran before its commit
    exposed,       \* auxiliary: a commit ran since its request began
    idRaced        \* auxiliary: some request took another insert's id

dbVars    == <<committed, session, autocommit, lastInsertId, nextId>>
localVars == <<user, chat>>
auxVars   == <<acked, own, undone, exposed, idRaced>>
vars == <<committed, session, autocommit, lastInsertId, nextId, pc, user, chat, requests,
          told, acked, own, undone, exposed, idRaced>>

NoChat == 0     \* NULL, or ChatInfo::chatUndefined

UserRow(u)          == [table |-> "users", id |-> u]
ChatRow(c)          == [table |-> "chats", id |-> c]
MemberRow(u, c)     == [table |-> "users_chats", user |-> u, chat |-> c]
MessageRow(i, c, u) == [table |-> "messages", id |-> i, chat |-> c, user |-> u]

Row == [table : {"users", "chats"}, id : Nat]
         \cup [table : {"users_chats"}, user : Nat, chat : Nat]
         \cup [table : {"messages"}, id : Nat, chat : Nat, user : Nat]

CreateSteps == {"insertChat", "readId", "insertSender", "insertReceiver", "commitChat"}
SendSteps   == {"ensureChat", "insertMember", "insertMessage", "commitMessage"}
AfterCommit == {"replyChat", "queryReceiver"}
Steps       == CreateSteps \cup SendSteps \cup AfterCommit \cup {"rollback", "idle"}

TypeOK ==
    /\ committed \in SUBSET Row
    /\ session \in SUBSET Row
    /\ autocommit \in BOOLEAN
    /\ lastInsertId \in Nat
    /\ nextId \in [users : Nat, chats : Nat, messages : Nat]
    /\ pc \in [Thread -> Steps]
    /\ user \in [Thread -> Nat]
    /\ chat \in [Thread -> Nat]
    /\ requests \in 0 .. MaxRequests
    /\ told \in SUBSET (Nat \X Nat)
    /\ acked \in SUBSET [user : Nat, durable : BOOLEAN]
    /\ own \in [Thread -> SUBSET Row]
    /\ undone \in [Thread -> BOOLEAN]
    /\ exposed \in [Thread -> BOOLEAN]
    /\ idRaced \in BOOLEAN

Init ==
    /\ committed = {UserRow(u) : u \in 1 .. InitialUsers}
    /\ session = committed
    /\ autocommit = TRUE
    /\ lastInsertId = 0
    /\ nextId = [users |-> InitialUsers + 1, chats |-> 1, messages |-> 1]
    /\ pc = [t \in Thread |-> "idle"]
    /\ user = [t \in Thread |-> 0]
    /\ chat = [t \in Thread |-> NoChat]
    /\ requests = 0
    /\ told = {}
    /\ acked = {}
    /\ own = [t \in Thread |-> {}]
    /\ undone = [t \in Thread |-> FALSE]
    /\ exposed = [t \in Thread |-> FALSE]
    /\ idRaced = FALSE

----------------------------------------------------------------------------
(* Statements.                                                             *)

Goto(t, step) == pc' = [pc EXCEPT ![t] = step]

\* executeUpdate() of an INSERT by thread t that adds the row r.
Insert(t, r) ==
    /\ session' = session \cup {r}
    /\ committed' = IF autocommit THEN session' ELSE committed
    /\ own' = [own EXCEPT ![t] = @ \cup {r}]

MembershipAllowed_NoChatKey(u, c) == UserRow(u) \in session

\* The foreign keys of users_chats, whose columns cannot be NULL either.
MembershipAllowed(u, c) == UserRow(u) \in session /\ ChatRow(c) \in session

\* INSERT INTO users_chats ... WHERE NOT EXISTS: nothing to do for a member.
Join(t, u, c) ==
    /\ MembershipAllowed(u, c)
    /\ \/ /\ MemberRow(u, c) \notin session
          /\ Insert(t, MemberRow(u, c))
       \/ /\ MemberRow(u, c) \in session
          /\ UNCHANGED <<session, committed, own>>
    /\ UNCHANGED <<autocommit, lastInsertId, nextId, acked, undone, exposed, idRaced>>

\* INSERT INTO chats: AUTO_INCREMENT chooses the id.
InsertNewChat(t) ==
    /\ Insert(t, ChatRow(nextId.chats))
    /\ lastInsertId' = nextId.chats
    /\ nextId' = [nextId EXCEPT !.chats = @ + 1]
    /\ UNCHANGED <<autocommit, acked, undone, exposed, idRaced>>

----------------------------------------------------------------------------
(* The start of a request: setAutoCommit(false), which may throw as well.  *)

Begin_Autocommit(t, first, u, c) ==
    /\ pc[t] = "idle"
    /\ requests < MaxRequests
    /\ requests' = requests + 1
    /\ Goto(t, first)
    /\ user' = [user EXCEPT ![t] = u]
    /\ chat' = [chat EXCEPT ![t] = c]
    /\ own' = [own EXCEPT ![t] = {}]
    /\ undone' = [undone EXCEPT ![t] = FALSE]
    /\ exposed' = [exposed EXCEPT ![t] = FALSE]
    /\ UNCHANGED <<committed, session, autocommit, lastInsertId, nextId, told, acked, idRaced>>

Begin(t, first, u, c) ==
    /\ pc[t] = "idle"
    /\ requests < MaxRequests
    /\ requests' = requests + 1
    /\ \/ autocommit' = FALSE /\ Goto(t, first)
       \/ autocommit' = autocommit /\ Goto(t, "rollback")
    /\ user' = [user EXCEPT ![t] = u]
    /\ chat' = [chat EXCEPT ![t] = c]
    /\ own' = [own EXCEPT ![t] = {}]
    /\ undone' = [undone EXCEPT ![t] = FALSE]
    /\ exposed' = [exposed EXCEPT ![t] = FALSE]
    /\ UNCHANGED <<committed, session, lastInsertId, nextId, told, acked, idRaced>>

\* The ids clients work with: once handed out, or 0 after a failed lookup.
KnownUsers == 0 .. (nextId.users - 1)

StartCreateChat(t, u) == Begin(t, "insertChat", u, NoChat)

\* A client sends to a chat whose id it has been given.
StartSendMessage(t, u, c) == <<u, c>> \in told /\ Begin(t, "ensureChat", u, c)

----------------------------------------------------------------------------
(* HandleCreateNewPersonalChat.                                            *)

\* Chat names are NULL, so the NOT EXISTS (... WHERE name = ...) always holds.
InsertChat(t) ==
    /\ pc[t] = "insertChat"
    /\ InsertNewChat(t)
    /\ Goto(t, "readId")
    /\ UNCHANGED <<localVars, requests, told>>

ReadId_LatestRow(t) ==
    /\ pc[t] = "readId"
    /\ chat' = [chat EXCEPT ![t] = nextId.chats - 1]
    /\ idRaced' = (idRaced \/ ChatRow(lastInsertId) \notin own[t])
    /\ Goto(t, "insertSender")
    /\ UNCHANGED <<dbVars, user, requests, told, acked, own, undone, exposed>>

\* SELECT LAST_INSERT_ID(): per session, so any thread's insert moves it.
ReadId(t) ==
    /\ pc[t] = "readId"
    /\ chat' = [chat EXCEPT ![t] = lastInsertId]
    /\ idRaced' = (idRaced \/ ChatRow(lastInsertId) \notin own[t])
    /\ Goto(t, "insertSender")
    /\ UNCHANGED <<dbVars, user, requests, told, acked, own, undone, exposed>>

InsertSender(t) ==
    /\ pc[t] = "insertSender"
    /\ Join(t, user[t], chat[t])
    /\ Goto(t, "insertReceiver")
    /\ UNCHANGED <<localVars, requests, told>>

\* The receiver is whichever user of that name the subquery returns.
InsertReceiver(t, r) ==
    /\ pc[t] = "insertReceiver"
    /\ Join(t, r, chat[t])
    /\ Goto(t, "commitChat")
    /\ UNCHANGED <<localVars, requests, told>>

ReplyChat(t) ==
    /\ pc[t] = "replyChat"
    /\ told' = told \cup {<<user[t], chat[t]>>}
    /\ Goto(t, "idle")
    /\ UNCHANGED <<dbVars, localVars, requests, auxVars>>

----------------------------------------------------------------------------
(* HandleSendChatMessage.                                                  *)

\* A chat that does not exist is inserted under a new id, not under chatId.
EnsureChat(t) ==
    /\ pc[t] = "ensureChat"
    /\ \/ /\ ChatRow(chat[t]) \notin session
          /\ InsertNewChat(t)
       \/ /\ ChatRow(chat[t]) \in session
          /\ UNCHANGED <<dbVars, auxVars>>
    /\ Goto(t, "insertMember")
    /\ UNCHANGED <<localVars, requests, told>>

InsertMember(t) ==
    /\ pc[t] = "insertMember"
    /\ Join(t, user[t], chat[t])
    /\ Goto(t, "insertMessage")
    /\ UNCHANGED <<localVars, requests, told>>

\* chat_id is nullable: a chat that vanished since leaves NULL in the message.
InsertMessage(t) ==
    /\ pc[t] = "insertMessage"
    /\ UserRow(user[t]) \in session
    /\ Insert(t, MessageRow(nextId.messages,
                            IF ChatRow(chat[t]) \in session THEN chat[t] ELSE NoChat,
                            user[t]))
    /\ lastInsertId' = nextId.messages
    /\ nextId' = [nextId EXCEPT !.messages = @ + 1]
    /\ Goto(t, "commitMessage")
    /\ UNCHANGED <<autocommit, acked, undone, exposed, idRaced, localVars, requests, told>>

\* The query for the receiver succeeds.  The forwarding that follows does not
\* touch the database (see ServerSessions).
QueryReceiver(t) ==
    /\ pc[t] = "queryReceiver"
    /\ Goto(t, "idle")
    /\ UNCHANGED <<dbVars, localVars, requests, told, auxVars>>

----------------------------------------------------------------------------
(* commit(), rollback() and the exceptions that lead there.                *)

Commit_Skipped(t) ==
    /\ \/ pc[t] = "commitChat" /\ Goto(t, "replyChat")
       \/ pc[t] = "commitMessage" /\ Goto(t, "queryReceiver")
    /\ exposed' = [s \in Thread |-> TRUE]
    /\ UNCHANGED <<committed, session, autocommit, lastInsertId, nextId, localVars, requests,
                   told, acked, own, undone, idRaced>>

\* connection->commit() commits the statements of all threads.
Commit(t) ==
    /\ \/ pc[t] = "commitChat" /\ Goto(t, "replyChat")
       \/ pc[t] = "commitMessage" /\ Goto(t, "queryReceiver")
    /\ committed' = session
    /\ exposed' = [s \in Thread |-> TRUE]
    /\ UNCHANGED <<session, autocommit, lastInsertId, nextId, localVars, requests, told,
                   acked, own, undone, idRaced>>

\* Any statement of the try block may throw: a constraint, a lost connection.
Throw(t) ==
    /\ pc[t] \in (CreateSteps \cup SendSteps \cup {"queryReceiver"})
    /\ Goto(t, "rollback")
    /\ UNCHANGED <<dbVars, localVars, requests, told, auxVars>>

\* The catch block: error message to the client, then connection->rollback(),
\* which undoes the uncommitted statements of all threads.
Rollback(t) ==
    /\ pc[t] = "rollback"
    /\ session' = committed
    /\ undone' = [s \in Thread |-> undone[s] \/ (s # t /\ pc[s] \notin AfterCommit)]
    /\ Goto(t, "idle")
    /\ UNCHANGED <<committed, autocommit, lastInsertId, nextId, localVars, requests, told,
                   acked, own, exposed, idRaced>>

----------------------------------------------------------------------------
(* HandleAddUserCredentialsToDatabase: one INSERT, no commit().            *)

AddUser_NotCommitted(t) ==
    /\ pc[t] = "idle"
    /\ requests < MaxRequests
    /\ requests' = requests + 1
    /\ session' = session \cup {UserRow(nextId.users)}
    /\ lastInsertId' = nextId.users
    /\ nextId' = [nextId EXCEPT !.users = @ + 1]
    /\ acked' = acked \cup {[user |-> nextId.users, durable |-> autocommit]}
    /\ UNCHANGED <<committed, autocommit, pc, localVars, told, own, undone, exposed, idRaced>>

AddUser(t) ==
    /\ pc[t] = "idle"
    /\ requests < MaxRequests
    /\ requests' = requests + 1
    /\ session' = session \cup {UserRow(nextId.users)}
    /\ committed' = IF autocommit THEN session' ELSE committed
    /\ lastInsertId' = nextId.users
    /\ nextId' = [nextId EXCEPT !.users = @ + 1]
    /\ acked' = acked \cup {[user |-> nextId.users, durable |-> autocommit]}
    /\ UNCHANGED <<autocommit, pc, localVars, told, own, undone, exposed, idRaced>>

\* The process ends and is started again: the database rolls the session back
\* and the new session begins in autocommit mode.  A failed AddUser INSERT (a
\* taken login) does this, its catch block rethrows out of the thread; so does
\* a rollback() that throws, and anything that kills the process.
Restart ==
    /\ session' = committed
    /\ autocommit' = TRUE
    /\ lastInsertId' = 0
    /\ pc' = [t \in Thread |-> "idle"]
    /\ user' = [t \in Thread |-> 0]
    /\ chat' = [t \in Thread |-> NoChat]
    /\ own' = [t \in Thread |-> {}]
    /\ undone' = [t \in Thread |-> FALSE]
    /\ exposed' = [t \in Thread |-> FALSE]
    /\ UNCHANGED <<committed, nextId, requests, told, acked, idRaced>>

\* HandleGetAvailableChatsForUser, HandleFindMatchingChats: the chats of user u
\* that hold a message, as the session sees them.
ListedChats(u) ==
    {m.chat : m \in {r \in session : r.table = "messages" /\ MemberRow(u, r.chat) \in session}}

ListChats(u) ==
    /\ told' = told \cup {<<u, c>> : c \in ListedChats(u)}
    /\ UNCHANGED <<dbVars, pc, localVars, requests, auxVars>>

----------------------------------------------------------------------------
Handler(t) ==
    \/ InsertChat(t)
    \/ ReadId(t)
    \/ InsertSender(t)
    \/ \E r \in KnownUsers : InsertReceiver(t, r)
    \/ ReplyChat(t)
    \/ EnsureChat(t)
    \/ InsertMember(t)
    \/ InsertMessage(t)
    \/ QueryReceiver(t)
    \/ Commit(t)
    \/ Throw(t)
    \/ Rollback(t)

Client(t) ==
    \/ \E u \in KnownUsers : StartCreateChat(t, u)
    \/ \E known \in told : StartSendMessage(t, known[1], known[2])
    \/ AddUser(t)

Next ==
    \/ \E t \in Thread : Handler(t) \/ Client(t)
    \/ \E u \in KnownUsers : ListChats(u)
    \/ Restart

Spec == Init /\ [][Next]_vars

----------------------------------------------------------------------------
(* Properties.                                                             *)

References(db) ==
    \A r \in db :
        /\ r.table \in {"users_chats", "messages"} => UserRow(r.user) \in db
        /\ r.table = "users_chats" => ChatRow(r.chat) \in db
        /\ r.table = "messages" /\ r.chat # NoChat => ChatRow(r.chat) \in db

\* Whatever mixture of the threads' statements a commit or a rollback keeps,
\* no row on disk refers to a user or a chat that is not there: the handlers'
\* order of insertion survives sharing one session.
CommittedConsistent == References(committed)

\* While autocommit is on nothing is pending: a registration that was
\* answered "true" before any chat request is on disk for good.
RegistrationDurable ==
    /\ autocommit => session = committed
    /\ \A a \in acked : a.durable => UserRow(a.user) \in committed

\* A request that got past its commit() has everything it inserted on disk,
\* unless another thread's rollback() ran between its statements.  (If one did
\* the message is forwarded and its sender sees no error, but it is lost.)
CommitIsDurable ==
    \A t \in Thread : pc[t] \in AfterCommit /\ ~undone[t] => own[t] \subseteq committed

\* A request that failed leaves nothing on disk, unless some commit() ran
\* since it began and saved its half-done work.
FailureLeavesNothing ==
    \A t \in Thread : pc[t] = "rollback" /\ ~exposed[t] => own[t] \cap committed = {}

\* No handler, failure or restart ever takes a row from the disk.
NothingLost == [][committed \subseteq committed']_vars

MembersOf(c) == {r.user : r \in {m \in session : m.table = "users_chats" /\ m.chat = c}}

\* A personal chat never gets a third member, as long as no request mistakes
\* the id of another thread's insert for that of its own chat.
PersonalChatPair ==
    ~idRaced => \A r \in session : r.table = "chats" => Cardinality(MembersOf(r.id)) <= 2
=============================================================================
