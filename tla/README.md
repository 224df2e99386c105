# onlineChat: specifications and proofs

TLA+ modules for the chat program in this repository: a server (`serverApp`,
`src/server`, `src/database`) that keeps users, chats and messages in MySQL and
forwards messages between connected clients, and a Qt client (`clientApp`,
`src/client`, `src/userData`, `src/gui`). The modules follow the source, one
action per step that another thread, process or crash can come between. TLC
checks them on small instances; TLAPS proves the main properties for all values
of the constants.

## 1. The system

| Component | State it keeps | Operations | Talks to |
|---|---|---|---|
| Server sessions (`server.cpp` 21-159, 306-341, 568-577) | `_connections` (100 slots), `_connectionsToUserId`, one detached thread per socket | accept, find a slot, serve, drop; register a user's socket; forward a message | clients by sockets; the two tables are shared by all threads, without a lock |
| Writing handlers (`server.cpp` 161-408) | rows of MySQL; one session shared by all threads: autocommit flag, open transaction, last insert id | create a personal chat, send a message, add a user | database helper; reply to the client |
| Reading handlers (`server.cpp` 410-916) | none | check a user, name and id of a login, lists of chats, messages of a chat | database helper |
| Database helper (`database.cpp`) | one connection, `_statement` | `ExecuteQuery`, `ExecuteUpdate`, connect | MySQL |
| Client connection (`client.cpp`, `client.h`) | `_currentClientState`, `_clientSocket`, `_serverResponse`, receive threads | `GetInstance` (init, connect, spawn), send, `GetServerResponse` (wait at most 5 s), `ReceiveThread` | server; callers through a condition variable; chat page through a callback |
| User repository, coroutines (`userRepository.cpp`, `coroutineUtils.h`) | none | one `std::async` thread per request; the awaiting coroutine goes on in another thread | client connection; pages |
| Credentials file (`userCredentialsFile.cpp`) | `.loginFile.dat`, one static `fstream` | exists, create, write, read, close, remove | main window, login, sign-in, side bar |
| Start, login, sign-in (`mainWindow.cpp`, `loginPage.cpp`, `signInPage.cpp`) | global `currentUser` | coroutines that ask the server step by step | repository, credentials file, chat page |
| Chat page and models (`chatPage.cpp`, `availableChatsModel.cpp`, `messagesModel.cpp`) | selected row, lists of chats and messages | search, select, send in chunks, receive | repository, client connection |
| Wire protocol (`networkCore`, the send and receive halves of both programs) | bytes in flight | multi-part packets | everything above |

What is hard in it:

* **Threads without locks.** Both server tables, the database session and the
  client's state are shared by threads with no mutex. The only lock, around
  `GetServerResponse`, protects nothing that the receive thread touches.
* **One transaction for everybody.** `commit()` and `rollback()` act on the
  statements of all handler threads, and autocommit, once off, stays off.
* **Replies without names.** A reply does not say what it answers; a timeout
  leaves an old socket and an old receive thread behind.
* **Coroutines on shared state.** What follows a `co_await` runs in another thread,
  with `currentUser`, the list of chats and the current row as they are by then.
* **Packets in pieces.** A packet is one `send()` per field and one `recv()` per
  field whose result is ignored; several threads write to one socket.
* **A stream that stays open.** `IsFileExists()` opens the credentials file and
  leaves it open, which decides what a later save does.

What makes each component correct:

* sessions: one slot per connection, none lost, none refused without need; a
  forwarded message goes to the socket of the user it is for, or nowhere;
* writing handlers: the rows on disk stay consistent; what was acknowledged is
  durable; what failed left nothing; a personal chat has two members;
* client connection: state and socket agree, one reader per connection, a call
  returns its own reply, every call returns;
* credentials file: nobody is logged in after a log-out, or as somebody else;
* wire protocol: both ends agree on every packet, field by field, and every text
  fits the buffer it is read into;
* queries: a list has each chat once; a partner is found; a message is forwarded to
  the other member; two users get one chat;
* login: who is logged in, saved and routed is one registered user; every attempt ends;
* chat page: a text goes to whom the page names; a row leads to its partner; the
  page shows what is stored.

Several of these hold only under a condition, because the code has no lock or
no transaction of its own. The condition is then part of the property, as an
auxiliary variable that records what happened (a rollback by another thread, a
race, a timeout), so that each property says exactly how far the code's promise
goes. Each was checked without its condition as well, and fails then: the
conditions are needed, and they are reached.

## 2. Modules

| Module | Models | Checked by | Proved in |
|---|---|---|---|
| `ServerSessions` | accept loop, handler threads, both tables | `SlotTable`, `RoutingTable` (through `MCServerSessions`) | `ServerSessionsProofs` |
| `ServerDatabase` | the writing handlers on the shared session | `ServerDatabase.cfg` (through `MCServerDatabase`) | `ServerDatabaseProofs` |
| `ChatStore`, `ChatStoreRefinement` | what the database promises one client; `ServerDatabase` as an implementation of it | `ChatStore.cfg` | `ServerDatabaseProofs` |
| `ChatQueries` | what the queries return, and whom a message reaches | `ChatQueries.cfg` (through `MCChatQueries`) | `ChatQueriesProofs` |
| `ClientConnection` | `Client` as the repository's requests use it | `ClientConnection.cfg` | `ClientConnectionProofs` |
| `WireProtocol` | packets on a byte stream, at both ends | `WireProtocol.cfg` (through `MCWireProtocol`) | `WireProtocolProofs` |
| `LoginFlow` | the coroutines of start, login and sign-in; log-out | `LoginFlow.cfg` | `LoginFlowProofs` |
| `CredentialsFile` | the saved login across runs of the client | `CredentialsFile.cfg`, `ExistingFileCleared` | `CredentialsFileProofs` |
| `ChatPage` | the chat page and its two models | `ChatList`, `ChatMessages` (through `MCChatPage`) | `ChatPageProofs` |

How they fit together: `ServerSessions` decides who is served on which socket and
`WireProtocol` what travels on one; `ServerDatabase` has the statements of a
request, which `ChatStore` sums up as one step and `ChatQueries` and `ChatPage`
take as one; `ClientConnection` has the life of a request, of which `LoginFlow` and
`ChatPage` keep the three ways it can end: a reply, none in time, no connection.

Operators with a suffix (`SkipSlot_Unchecked`, `Commit_Skipped`) are mutated
forms of the definition before the underscore. No behaviour uses them: each is a
plausible mistake in the code, and `PROJECT.json` names the property that finds it.

### ServerSessions

`connections` and `connectionsToUserId` are the two tables (`NoSocket` for a free
slot and for a missing entry). `newConnection` and `slot` are the accept loop
between `accept()` and its decision: `std::find` looks at one slot per step
(`SkipSlot`, `TakeSlot`, `RefuseConnection`), because handler threads free slots
meanwhile. `handler[s]` is where the thread of socket `s` is; a socket name is
free again after `CloseSocket`, as a handle is. `HandleGetUserIdFromDatabase` is
`ReplyUserId` (the id may be 0, an unknown login), `FindOldEntry`,
`EraseOldEntry`, `RegisterSocket`; the forwarding half of `HandleSendChatMessage`
is `FindReceiver`, `SendToReceiver`. All other handlers leave both tables alone
and are `ServeOtherRequest`. `registered`, `displaced`, `handedOver` and
`fullAtAccept` are auxiliary. Simplified: the five `send()` calls of a forwarded
message are one step; the loop over the map that finds the old entry is one step.

### ServerDatabase

`session` is what the shared session sees and `committed` what is on disk.
`pc[t]` is the next statement of thread `t`; every statement may throw instead
(`Throw`) and lead to `Rollback`. `Insert` writes through to disk while autocommit
is on. `lastInsertId` moves with every insert of any thread. Rows keep only the
columns that the properties tell apart: keys and foreign keys. `told` is which
user knows which chat id, from a reply or from a list, so that requests carry ids
a client can hold. `Restart` ends the server at any point, as the rethrow in
`HandleAddUserCredentialsToDatabase` does. `own`, `undone`, `exposed`, `acked` and
`idRaced` are auxiliary. A `NULL` foreign key is 0, which is also
`ChatInfo::chatUndefined`.

### ClientConnection

`clientState`, `socket`, `response` are the fields of `Client`; sockets are
numbered in the order they are opened, and `link` is what happened to each.
`pc[c]` walks a caller through `GetInstance` (`check`, `open`, `opened`, `connect`,
`established`, `spawn`, with `depth` for the call inside the call at line 41),
`send`, and `GetServerResponse` (`wait`, `waiting`, `woken`, `disconnect`,
`closing`). `rpc[r]` is a receive thread. The reads and writes of
`_currentClientState` and `_clientSocket` are separate steps. The server answers
the requests of a socket in order, each with a reply or with an error that wakes
nobody, and may close. `terminated` is `std::terminate` (an exception out of a
`noexcept` function) or `exit`. `incidents` is auxiliary. Simplified: a request
and a reply are one step each, and receiving a reply and storing it are one step.

### CredentialsFile

`isOpen` and `failbit` are the static stream, `file` whose credentials the file
begins with, `buffer` what was written and not closed yet. `page` walks one client
process through `MainWindow::PreparePage`, a login and its save, and a log-out;
`Exit` ends it at any point, with what the stream holds written or lost. Users in
`Spaced` have a space in their name or login, which `ReadCredentials` cannot read
back. Simplified: a login sets `currentUser` in one step after the server's
answers, and open() fails only for the reasons the code can bring about.

### ChatStore and ChatStoreRefinement

`ChatStore` says what a client may rely on: a request takes effect as a whole or
not at all, a chat has its members from the start, a message is one of a member.
A registration is the exception the code makes: while autocommit is off it stays
pending until some request commits, and is lost until then. The mapping takes what
is on disk for the abstract state, and for `pending` the users the session has and
the disk has not. It holds for one handler thread; with two, commit and rollback
act on each other's statements, and section 5 says how.

### ChatQueries

`members` and `messages` are the tables; `AvailableChats` and `FindMatchingChats`
are the joins of the two list queries as sets of rows, with the `LEFT JOIN` that
yields `NULL`, `MAX(sent_at)` in seconds, `DISTINCT` and `UNION`. `ReceiverOf` is
the query before a message is forwarded. A client keeps the list it read last
(`list`), however old, and creates chats and writes from it. Names need not be
unique (`nameOf`); a list calls a chat by the other's login, a search by the
other's name, as the two queries do.

### WireProtocol

`...Fields` is what is sent, `Expect...` what is read, each translated from its own
piece of code. `wire` holds bytes named by packet, field and place, so that the
reader can be seen to take one field for another. `Recv` returns any part of what
is there, or nothing once the other end has closed, and the reader goes on with
what it has. `inStep` ends a behaviour once the reader has read something it did
not mean to; `interleaved` and `shortRead` are auxiliary and say why.
`direction` is chosen at the start: the two directions share no state. After the
connection has ended the reader goes on to the end of its packet with what is left
and with zeros (`ReadPastEnd`). `PacketAssumption` says which texts there are
(`TextFor`): the forms limit names to 49 characters for buffers of 50, the chat
page sends its text in chunks, and the server's own texts are short.

### LoginFlow

`attempts` are the coroutines with their local variables, a part between two
`co_await`s is one step (`Resume...`), and `ShowNext` is the queued slot that
changes the page. `Press` and `SwitchPage` remain possible throughout: nothing
disables the buttons, and the login page is shown while the saved user is checked.
The server's table of users and its routing entry for this connection are kept as
far as the answers depend on them. `incidents` and `fromFile` are auxiliary.
Simplified: opening the file and writing it is one step (see `CredentialsFile`), a
user's id, name and login are one value, and the server can be reached at start.

### ChatPage

`rows`, `messages` are the two models, `current` the view's current row and
`lastSelected` the row clicked last, which a reset or an arrow key takes apart.
`requests` holds every coroutine with how far it is; `toServer` and `forwards` are
in order. An answered list has its rows in some order, since neither query has an
`ORDER BY`. The text in the input field is a number of chunks. `clears` counts the
queued calls that empty the field. `incidents` and `steady` are auxiliary.
Simplified: appending the rows of a reply is one step; two threads inside one
`std::vector` are not modelled.

## 3. Runs

| Run | Instance | What it shows |
|---|---|---|
| `slot_table` | 2 sockets, 1 slot, ids 0 and 1, fairness | nobody is refused while a slot stays free; a departed client's slot comes back |
| `routing_table` | 2 sockets, ids 0, 1, 2, 2 slots | no shared slot; what the routing table promises, through re-logins, displacement and reuse of handles |
| `server_database` | 2 threads, 3 users at the start, 3 requests | consistency and durability on the shared session |
| `chat_store` | 1 thread, 2 users at the start, 4 requests | the handlers implement `ChatStore` |
| `chat_queries` | 3 users, all names distinct or two alike, 2 chats, 2 messages, 2 seconds | the list queries, the lookup of a receiver, one chat per pair |
| `client_connection` | 2 callers, 2 requests, 2 sockets, 2 types of reply, fairness | state, readers and replies of the client; every request returns |
| `wire_protocol` | 2 writers, 2 packets of every layout, short texts, a wire of 9 bytes, fairness | both ends agree; texts fit; what is begun is handled |
| `login_flow` | 2 users, 2 passwords, 2 presses, 1 failure, a saved user or none, fairness | one user is logged in, saved and routed; the server survives; attempts end |
| `credentials_file` | 3 users, one of them with a space | the saved login over any number of runs of the client |
| `existing_file_cleared` | the same | expected to fail, see section 5 |
| `chat_list` | 2 partners, 3 requests, 1 message, any of them failing, fairness | rows, resets, new chats; a reset ends |
| `chat_messages` | 2 partners, 3 requests, 2 messages of up to 2 chunks, 2 clicks, 1 failure | texts go where the page says; the page shows what is stored |

Why the bounds are enough. Two sockets on one slot make the table full, free and
searched while it is freed; the proofs cover other numbers. Two sockets and three
ids let a user be displaced, return, and log in on a handle that was another's.
Three requests on two threads are the least in which a third request changes what
two overlapping ones believe (an insert between insert and id, a rollback between
statement and commit); with one thread, four requests are a chat, a message in it
and a registration around them. Two requests on two sockets are a timeout, a
reconnection and a late answer, or two racing first requests; `socket()` fails when
the two are used up, which the code handles. Two packets are the least that
interleave or follow each other; lists of none and of one row, and texts of 0, 1 and the most bytes, decide whether a
buffer is large enough, and a wire of 9 bytes makes `send()` wait. Two presses next
to the check of the saved user are up to three overlapping coroutines. Three users
of two names are the least with namesakes and a third. Three requests of the page
are a list and two more that overlap: lists, chats' messages, new chats. The
credentials file needs no bound on time: its state space is finite.

`TypeOK` is a theorem of every component. It is an invariant of a run as well where
it says more than types (`WireProtocol`, `ChatPage`).

Deadlock is not checked where a bound or the program lets everything come to rest:
the client once `MaxRequests` requests are made or its process has ended, the page
and the queries once their bounds are used up, the wire once its packets are read.
Symmetry is used for sockets and threads in two safety runs only; in
`ClientConnection` and `LoginFlow` the first free thread takes the next request,
which loses nothing, since a thread keeps nothing from one request to the next.

## 4. Fairness

`ServerSessions!FairSpec` asks that the accept thread and each handler thread go
on when they can; the operating system schedules all threads, and `send()` is
taken to return. A receiver that never reads can break that last assumption (see
the hazards). Nothing is asked of clients. `ClientConnection!FairSpec` asks the
same of callers: `connect()` returns, and `wait_for` gives up after five seconds.
Nothing is asked of the server or of the receive threads, so `CallReturns` rests
on the timeout alone. `LoginFlow!FairSpec` and `ChatPage!FairSpec` ask that a
coroutine goes on: its request is answered or times out, and its thread and its
queued call run; nothing is asked of the user. `WireProtocol!FairSpec` asks that a
thread that has begun a packet goes on and that the reader reads, which both do in
a loop without another condition.

## 5. What the code does not promise

* **Refuted by a run.** `existing_file_cleared`: the comment at
  `userCredentialsFile.cpp:35` says that a file which exists is cleared. It is
  not: after a saved user was rejected at the start, the stream is open,
  `CreateNewFile()` returns true without truncating, the save writes nothing, and
  the file keeps the rejected user's credentials.
* **Shown by the conditions of the properties.** A stored message can be undone by
  another thread's rollback after its insert and its sender is told nothing
  (`CommitIsDurable` without `~undone`); a failed chat creation can be made durable
  by another's commit (`FailureLeavesNothing` without `~exposed`); a personal chat
  can get a third member (`PersonalChatPair` without `~idRaced`); a registration
  answered "true" after any chat request is not on disk (`RegistrationDurable`
  speaks of autocommit only); a request can return another's reply, or end the
  client, after a timeout or with overlapping requests (`OwnReply`, `NoBadAccess`
  without `incidents = {}`); a departed client's routing entry leads to whoever is
  given its handle next (`ForwardReachesReceiver` speaks of handles that did not
  change hands). Further: with two attempts of different credentials, or a request
  that failed, what is saved and shown may be a mixture (`OneUser` without
  `incidents`), since a timeout returns 0 or an empty string, which is taken for an
  id or a name; a taken login with another password, two attempts at once or a
  lost answer end the server (`ServerSurvives`); a user accepted from the file is
  not routed (`ReceivesAsCurrentUser` without `fromFile`); an attempt still under
  way at a log-out brings the chat page back and saves the file again; overlapping
  lists mix (`NoChatTwice`), a chat made with a partner who had made one meanwhile
  leaves that partner in the list twice, or its id in the place of the other chat's
  (`NoChatTwice` without `"doubled"`: seen on a larger instance than the run's, with
  4 requests, when its proof was prepared), a new chat's id may go into another row
  (`RowsLeadToPartner`), and the first text to a new chat is never sent; a chat
  without a message is in no list and in no search (`PartnerFindable`); two
  writers or a short read leave the reader out of step for good (`ReaderInStep`).
  No comment or test of the repository claims otherwise, so these
  are stated as limits and not as findings.

## 6. Proofs

Each proof module extends its component, states an inductive invariant, and
proves that `Init` implies it, that every action and stuttering keep it, and that
it implies the property. TLC checked each invariant before it was proved. The
assumptions are the named `ASSUME`s of the components, which TLC evaluates.

* **`ServerSessionsProofs`**: all invariants of the two runs. `OneSlotPerConnection`
  is not inductive by itself: `SlotInv` adds that a handler's socket is in exactly
  one slot until it frees it, and the new connection in none. `SearchInv` says that
  a search that began with a free slot has one ahead of it until it stops, since
  only the accept thread fills slots; `RouteInv` and `HandlersKnow` say what a
  handler between find, erase and register knows of the table it does not lock.
* **`ServerDatabaseProofs`**: `DbInv` joins that all ids in use lie below the
  counters (a generated row is new), that the disk is part of the session and equal
  to it under autocommit, that a request in flight has autocommit off, and what
  `own`, `undone` and `exposed` keep account of. `CommittedConsistent`,
  `RegistrationDurable`, `CommitIsDurable`, `FailureLeavesNothing` and the action
  property `NothingLost` follow. `PairInv` gives
  `PersonalChatPair`: a chat under creation is known to its own request only, so that
  nobody sends to it, an id once seen is never generated again, and no chat has three
  users who are members or may become so. For one thread `AloneInv` says which rows are
  unsaved at each statement; from it `OneClientStoresAtomically` shows the refinement
  of `ChatStore`: the commit of a request is the abstract step, its other statements
  and a rollback change nothing on disk, and a restart loses what is pending.
* **`ClientConnectionProofs`**: `SocketInv` (a step that uses a socket has one) and
  `AloneInv` (without a race at most one caller is connecting or disconnecting, and
  the state is what its step says) give `StateMatchesSocket`. `CalmInv` says that
  until a race or a timeout the client connects once, and the caller who connected
  starts the one receive thread (`OneReceiver`). `LoneInv` says that without incidents
  one caller has a request, which is in one place: on its way, answered, stored, or
  found by the caller who wakes up (`OwnReply`, `NoBadAccess`).
* **`CredentialsFileProofs`**: `StreamInv` and `SaveInv` say in which state the
  stream and the file are at each step of a save; `LogoutForgets` and
  `AutoLoginAsLastUser` follow.
* **`ChatQueriesProofs`**: all invariants of the run. `PairInv` (a chat's members are
  one or two users, a message is one of its members') gives `ForwardedToOthers` and,
  with the existence of a newest message (`NewestInv`), `PartnerFindable` and
  `ListIsExact`. `OneChatPerPair` needs to know what a list that a client still holds
  said when it was read: `RowInv` keeps, for every row without a chat, that a partner
  of that name shares no chat with the reader but those made after the list was read.
* **`LoginFlowProofs`**: all invariants of the run. `Knows` is what one coroutine may
  rely on at each of its steps (`currentUser` has its credentials, the user is
  registered, the server routes to the user); `AllFor` says that all coroutines that
  run, and the chat page, are for the same user, which holds until a press with other
  credentials (`"mixed"`) or a failure takes it away. `MoveInv` is the one argument
  behind every step: a coroutine changes only what is about its own user, so what the
  others know stays true. `FreeFor` adds, while nothing has interfered, that a sign-in
  that pushes finds its login free, which gives `ServerSurvives`.
* **`WireProtocolProofs`**: all invariants of the run, for lists of any length.
  `PacketLaidOut` says that what `Fields` sends is what the reader's `Expect...`
  expects, field by field, with a list as one row after the other; `Sound` says that
  both ends are inside packets; `InOrder` that the bytes on the wire are exactly those
  sent and not read yet, in order. So the bytes in front belong to the field whose turn
  it is (`ReaderInStep`), and its text is as long as the size read before it
  (`FitsBuffer`). A list is laid out by the library's `FlattenSeq`, which is recursive;
  what it returns is proved by induction over the numbers stated as a fact about sets
  (`Induction`, from the well-founded order of the numbers), which needs no operator
  as a parameter.
* **`ChatPageProofs`**: all invariants of the two runs. `BaseInv`
  says what requests in flight carry: an answer is what was asked for, and names chats
  that exist; no chat ever changes its partner (`Grown`), so a late answer is still
  true. `RowsLeadToPartner` is part of it. `CurrentShown` (the current row is that of
  the partner shown, while steady) gives `SentToShown`; `ListsInv` (without an overlap
  one list is in flight, over no rows until it is filled) and `AnswersDiffer` (without
  a second chat with one partner no answer has a partner twice) give `NoChatTwice`;
  `HistoryInv` (undisturbed, one chat's messages are asked for at a time, of a chat
  with the partner shown) gives `MessagesOfShown`. For `ViewIsComplete` the messages are
  counted: `NumbersInv` gives each of them a number of its own, those forwarded being
  stored and those on their way to the server not yet; `ViewsInv` says that what is shown
  (or answered, while a history is on its way) has, each once, what is stored and what the
  user has sent, but for forwarded messages yet to be handled (`Accounted`). A step of the
  server or a text changes both sides by the same message. A chat that was just created
  has all its messages still to come, until its id is filed (`Unfiled`). TLC checked both
  on the bounds of `ChatMessages` (3,977,304 states).

The assumptions of these two: `PacketAssumption` (above), and that partners are
finitely many numbers, as the users of a table are.

Only model-checked:

* liveness (`DepartedClientReleased`, `CallReturns`, `BegunIsHandled`,
  `ListResetEnds`, `AttemptsEnd`), which the prover cannot treat under fairness.

## 7. Plan

Done: every component above with its runs, and the proofs of every invariant, of the
action property and of the refinement. Left:

1. A composition of two clients with the sessions and the store, in which a forward
   and a reply share one socket. Its parts are checked alone; together they are
   beyond TLC unless `ClientConnection` is replaced by what its properties say.

Not modelled:

* **Painting and layout** (delegates, forms, colours, animation, the side bar's
  geometry, resizing): no state outlives a repaint. The last message and its time in
  a row decide nothing but what is painted.
* **Third-party code and data**: of the 15541 lines of implementation in the
  repository, 8183 are a font as a C array and about 3000 the headers of the MySQL
  connector. Some 4400 are the program, and the modules stand for about half of them;
  the rest of those is construction of widgets, style sheets, getters and setters,
  declarations, and writes to the log.
* **Damage to memory**: what two threads do to one `std::map`, to one
  `std::vector`, or to the `_statement` that all handlers of the server overwrite.
  The code's order of steps around them is modelled, the broken structure is not.
* **Text as such**: ids, names and texts are values. A chunk is counted in UTF-16
  units and sent in bytes (`chatPage.cpp:278`), so a text of wide characters can
  exceed the receiver's buffer; `WireProtocol` counts bytes on both ends and covers
  texts that fit. SQL is taken for the statement it is meant to be.
