----------------------------- MODULE ChatStore -----------------------------
(***************************************************************************)
(* What the server promises of its database to a client: every request     *)
(* takes effect as a whole or not at all, a personal chat has its members  *)
(* from the start and never another, a message is one of a member in a     *)
(* chat that is there, and what has been stored stays.  A registration is  *)
(* the exception: it may stay pending until some request is stored, and be *)
(* lost until then.                                                        *)
(***************************************************************************)
EXTENDS Naturals

CONSTANT InitialUsers \* users 1 .. InitialUsers are registered at the start

VARIABLES
    users,    \* registered for good
    pending,  \* registered, and lost if the server fails
    chats,    \* ids
    members,  \* <<user, chat>>
    messages  \* [id, chat, user]

vars == <<users, pending, chats, members, messages>>

Init ==
    /\ users = 1 .. InitialUsers
    /\ pending = {}
    /\ chats = {}
    /\ members = {}
    /\ messages = {}

Registered == users \cup pending

Register(u) ==
    /\ u \notin Registered
    /\ \/ pending = {} /\ users' = users \cup {u} /\ UNCHANGED pending
       \/ pending' = pending \cup {u} /\ UNCHANGED users
    /\ UNCHANGED <<chats, members, messages>>

\* What is pending is stored along with a request.
StorePending == users' = Registered /\ pending' = {}

CreateChat(c, sender, receiver) ==
    /\ c \notin chats
    /\ {sender, receiver} \subseteq Registered
    /\ StorePending
    /\ chats' = chats \cup {c}
    /\ members' = members \cup {<<sender, c>>, <<receiver, c>>}
    /\ UNCHANGED messages

SendMessage(m) ==
    /\ <<m.user, m.chat>> \in members
    /\ \A n \in messages : n.id # m.id
    /\ StorePending
    /\ messages' = messages \cup {m}
    /\ UNCHANGED <<chats, members>>

\* A request fails, or the server does.
LosePending ==
    /\ pending' = {}
    /\ UNCHANGED <<users, chats, members, messages>>

\* An id is the database's to choose: what is new is one of the new value.
Next ==
    \/ \E u \in users' \cup pending' : Register(u)
    \/ \E c \in chats' : \E u, v \in Registered : CreateChat(c, u, v)
    \/ \E m \in messages' : SendMessage(m)
    \/ LosePending

Spec == Init /\ [][Next]_vars
=============================================================================
