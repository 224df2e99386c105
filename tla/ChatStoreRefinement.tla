------------------------ MODULE ChatStoreRefinement ------------------------
(***************************************************************************)
(* ServerDatabase with one thread, that is one client at a time, keeps the *)
(* promises of ChatStore.  With more it does not: all threads share one    *)
(* session, and commit and roll back each other's statements.              *)
(***************************************************************************)
EXTENDS ServerDatabase

Rows(db, table) == {r \in db : r.table = table}

\* The abstract state is what is on disk; what a handler has inserted and not
\* committed is no part of it, but for registrations.
UsersIn(db) == {r.id : r \in Rows(db, "users")}

usersBar == UsersIn(committed)
pendingBar == UsersIn(session) \ UsersIn(committed)
chatsBar == {r.id : r \in Rows(committed, "chats")}
membersBar == {<<r.user, r.chat>> : r \in Rows(committed, "users_chats")}
messagesBar == {[id |-> r.id, chat |-> r.chat, user |-> r.user] : r \in Rows(committed, "messages")}

Store == INSTANCE ChatStore WITH
    users <- usersBar,
    pending <- pendingBar,
    chats <- chatsBar,
    members <- membersBar,
    messages <- messagesBar

\* Every behaviour of the handlers is one of the store: each request is one
\* step of it, although it is up to seven statements of which any may throw,
\* and the process may end between them (server.cpp:171-255, 257-351, 378-385).
StoresAtomically == Store!Spec
=============================================================================
