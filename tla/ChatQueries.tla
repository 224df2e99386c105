---------------------------- MODULE ChatQueries ----------------------------
(***************************************************************************)
(* What the server's queries make of the rows it has stored:               *)
(* HandleGetAvailableChatsForUser and HandleFindMatchingChats, which fill  *)
(* the list of chats, the lookup of a receiver by name in                  *)
(* HandleCreateNewPersonalChat, and the lookup of a message's receiver in  *)
(* HandleSendChatMessage (src/server/server.cpp).                          *)
(*                                                                         *)
(* Requests are whole and succeed (ServerDatabase has their statements and *)
(* failures); what is stale is the list that a client works from.          *)
(* DISTINCT and UNION make every result a set.  Names stand for what the   *)
(* collation tells apart, and a time is a second: sent_at is a DATETIME.   *)
(* Chats have no names and nobody has a photo: nothing ever stores one.  A *)
(* message's number stands for its text: no two are taken to be equal.     *)
(***************************************************************************)
EXTENDS Naturals, Sequences, FiniteSets

CONSTANTS
    User,        \* ids of the registered users; the id stands for the login
    Name,
    Naming,      \* what may be the name of each user: some have the same one
    Typed,       \* what may be typed: the names that begin with it
    MaxChats,    \* BOUND: chats
    MaxMessages, \* BOUND: messages
    MaxTime      \* BOUND: seconds

ASSUME QueryAssumption ==
    /\ User \subseteq Nat \ {0}
    /\ Naming \subseteq [User -> Name]
    /\ Typed \subseteq SUBSET Name
    /\ {MaxChats, MaxMessages, MaxTime} \subseteq Nat

VARIABLES
    nameOf,    \* the table of users: the name of each
    members,   \* users_chats: the members of each chat
    messages,  \* the table of messages, by id
    now,       \* NOW()
    list,      \* each client's list of chats
    forwarded, \* whom each message was forwarded to
    seen,      \* auxiliary: how many chats there were when a list was read
    stale      \* auxiliary: a chat was created that had come since the list was read

vars == <<nameOf, members, messages, now, list, forwarded, seen, stale>>

NULL == 0

Chats == DOMAIN members
ChatsOf(u) == {c \in Chats : u \in members[c]}
MessagesIn(c) == {m \in DOMAIN messages : messages[m].chat = c}

Row(chat, label, text, at) == [chat |-> chat, label |-> label, text |-> text, at |-> at]

\* What a client does with a row depends on these two.
Entry(row) == [chat |-> row.chat, label |-> row.label]
Entries == [chat : Nat, label : User \cup Name \cup {NULL}]

TypeOK ==
    /\ nameOf \in Naming
    /\ members \in Seq(SUBSET User)
    /\ messages \in Seq([chat : Chats, user : User, at : 0 .. MaxTime])
    /\ now \in 0 .. MaxTime
    /\ list \in [User -> SUBSET Entries]
    /\ forwarded \in Seq(SUBSET User)
    /\ Len(forwarded) = Len(messages)
    /\ seen \in [User -> Nat]
    /\ stale \in BOOLEAN

----------------------------------------------------------------------------
(* The queries.                                                            *)

OthersIn_Anyone(c, u) == members[c]

\* LEFT JOIN users_chats uc2 ... AND uc2.user_id != u.id, LEFT JOIN users u2:
\* a chat without another member is joined with NULL.
OthersIn(c, u) == IF members[c] \ {u} = {} THEN {NULL} ELSE members[c] \ {u}

\* m.sent_at = (SELECT MAX(sent_at) ...): every message of the last second.
Newest(c) == {m \in MessagesIn(c) : \A n \in MessagesIn(c) : messages[n].at <= messages[m].at}

\* HandleGetAvailableChatsForUser: a chat is called by the other's login.
AvailableChats(u) ==
    UNION {{Row(c, p, m, messages[m].at) :
               p \in OthersIn(c, u), m \in Newest(c)} : c \in ChatsOf(u)}

MatchingChats(u, names) ==
    UNION {{Row(c, nameOf[p], m, messages[m].at) :
               p \in {q \in OthersIn(c, u) \ {NULL} : nameOf[q] \in names}, m \in Newest(c)} :
           c \in ChatsOf(u)}

MatchingUsers_Strangers(u, names) ==
    {Row(NULL, nameOf[v], NULL, NULL) :
        v \in {w \in User \ {u} : nameOf[w] \in names /\ ChatsOf(w) = {}}}

MatchingUsers_All(u, names) ==
    {Row(NULL, nameOf[v], NULL, NULL) : v \in {w \in User \ {u} : nameOf[w] \in names}}

\* The second half of HandleFindMatchingChats: who shares no chat with u.  Two
\* of one name are one row.
MatchingUsers(u, names) ==
    {Row(NULL, nameOf[v], NULL, NULL) :
        v \in {w \in User \ {u} : nameOf[w] \in names /\ ChatsOf(u) \cap ChatsOf(w) = {}}}

\* HandleFindMatchingChats: a chat is called by the other's name.
FindMatchingChats(u, names) == MatchingChats(u, names) \cup MatchingUsers(u, names)

ReceiverOf_Anyone(c, u) == members[c]

\* WHERE chat_id = ... AND user_id != ... ORDER BY sent_at DESC LIMIT 1.
ReceiverOf(c, u) == members[c] \ {u}

----------------------------------------------------------------------------
(* The requests.                                                           *)

ReadList(u, rows) ==
    /\ list' = [list EXCEPT ![u] = {Entry(r) : r \in rows}]
    /\ seen' = [seen EXCEPT ![u] = Len(members)]
    /\ UNCHANGED <<nameOf, members, messages, now, forwarded, stale>>

GetAvailableChats(u) == ReadList(u, AvailableChats(u))

Search(u, names) == ReadList(u, FindMatchingChats(u, names))

\* HandleCreateNewPersonalChat: (SELECT id FROM users WHERE name = ... LIMIT 1)
\* is any user of the name; one of the sender's own name may be the sender.
\* The client writes the id into its row.
CreateNewPersonalChat(u, row, receiver) ==
    /\ row \in list[u] /\ row.chat = NULL
    /\ nameOf[receiver] = row.label
    /\ Len(members) < MaxChats
    /\ members' = Append(members, {u, receiver})
    /\ list' = [list EXCEPT ![u] =
                   (@ \ {row}) \cup {[chat |-> Len(members) + 1, label |-> row.label]}]
    /\ stale' = (stale \/ \E c \in ChatsOf(u) \cap ChatsOf(receiver) : c > seen[u])
    /\ UNCHANGED <<nameOf, messages, now, forwarded, seen>>

\* HandleSendChatMessage, with the forwarding.
SendChatMessage(u, row) ==
    /\ row \in list[u] /\ row.chat # NULL
    /\ Len(messages) < MaxMessages
    /\ messages' = Append(messages, [chat |-> row.chat, user |-> u, at |-> now])
    /\ \E to \in SUBSET ReceiverOf(row.chat, u) :
          /\ Cardinality(to) = IF ReceiverOf(row.chat, u) = {} THEN 0 ELSE 1
          /\ forwarded' = Append(forwarded, to)
    /\ UNCHANGED <<nameOf, members, now, list, seen, stale>>

Tick ==
    /\ now < MaxTime
    /\ now' = now + 1
    /\ UNCHANGED <<nameOf, members, messages, list, forwarded, seen, stale>>

Init ==
    /\ nameOf \in Naming
    /\ members = <<>>
    /\ messages = <<>>
    /\ now = 0
    /\ list = [u \in User |-> {}]
    /\ forwarded = <<>>
    /\ seen = [u \in User |-> 0]
    /\ stale = FALSE

Next ==
    \/ \E u \in User :
          \/ GetAvailableChats(u)
          \/ \E names \in Typed : Search(u, names)
          \/ \E row \in list[u] :
                \/ \E receiver \in User : CreateNewPersonalChat(u, row, receiver)
                \/ SendChatMessage(u, row)
    \/ Tick

Spec == Init /\ [][Next]_vars

----------------------------------------------------------------------------
(* Properties.                                                             *)

IsUnique(name) == \A u, v \in User : nameOf[u] = name /\ nameOf[v] = name => u = v

\* Whoever searches for a user by a name nobody else has finds that user: a
\* chat of the two, or a row to begin one.  The exception is a chat without a
\* message, which neither half of the query returns (server.cpp:614, 627) and
\* no list shows: that is what chatPage.cpp:299-316 leaves behind when it drops
\* the text that a chat was created for.
PartnerFindable ==
    \A u, v \in User :
        /\ u # v /\ IsUnique(nameOf[v])
        /\ \A c \in ChatsOf(u) \cap ChatsOf(v) : MessagesIn(c) # {}
        => \E row \in FindMatchingChats(u, {nameOf[v]}) :
              row.label = nameOf[v] /\ (row.chat # NULL => members[row.chat] = {u, v})

\* The list has each of the user's chats with a message exactly once, with a
\* message than which none is newer, unless two messages came within its last
\* second (server.cpp:749-752): DISTINCT keeps a row for each then.
ListIsExact ==
    \A u \in User : \A c \in ChatsOf(u) :
        LET rows == {r \in AvailableChats(u) : r.chat = c} IN
        /\ \A r \in rows : \A m \in MessagesIn(c) : messages[m].at <= r.at
        /\ MessagesIn(c) = {} => rows = {}
        /\ MessagesIn(c) # {} => rows # {}
        /\ Cardinality(Newest(c)) = 1 => Cardinality(rows) = 1

\* Two users with names of their own have one chat, although creating one does
\* not look for another (server.cpp:181-187): the search does not offer whoever
\* has a chat with the user, unless that list is older than the chat.
OneChatPerPair ==
    ~stale =>
        \A c, d \in Chats :
            c # d /\ members[c] = members[d] => \E u \in members[c] : ~IsUnique(nameOf[u])

\* A message is forwarded to every other member of its chat and to nobody else,
\* although the query for the receiver returns one row (server.cpp:297-303).
ForwardedToOthers ==
    \A m \in DOMAIN messages :
        forwarded[m] = members[messages[m].chat] \ {messages[m].user}
=============================================================================
