------------------------- MODULE ChatQueriesProofs -------------------------
(***************************************************************************)
(* Theorems about ChatQueries, for any users, names, numbers of chats and  *)
(* messages, and whatever is typed.                                        *)
(*                                                                         *)
(* All of them rest on QueryInv: a chat has one or two members, a row of a *)
(* client's list leads to a chat of that client or stands for a user with  *)
(* whom there was no chat when the list was read, and a chat with messages *)
(* has a newest one.                                                       *)
(***************************************************************************)
EXTENDS ChatQueries, FiniteSetTheorems, TLAPS

PairInv == \A c \in Chats : \E u, v \in User : members[c] = {u, v}

\* Messages are stored in the order of time, so the last of a chat is a newest.
NewestInv ==
    /\ \A m \in DOMAIN messages : messages[m].at <= now
    /\ \A c \in Chats : MessagesIn(c) # {} => Newest(c) # {}

\* What a row stands for; what came after it was read has a higher number.
RowInv(u, row) ==
    /\ row.chat # NULL => row.chat \in ChatsOf(u)
    /\ row.chat = NULL =>
          /\ \E w \in User \ {u} : nameOf[w] = row.label
          /\ \A v \in User : nameOf[v] = row.label /\ IsUnique(nameOf[v]) =>
                \A c \in ChatsOf(u) \cap ChatsOf(v) : c > seen[u]

ListInv ==
    \A u \in User : seen[u] <= Len(members) /\ \A row \in list[u] : RowInv(u, row)

QueryInv ==
    /\ TypeOK
    /\ PairInv
    /\ NewestInv
    /\ ListInv
    /\ OneChatPerPair
    /\ ForwardedToOthers

----------------------------------------------------------------------------
(* The queries.                                                            *)

\* The rows of GetAvailableChats are rows of chats of the user.
LEMMA AvailableRows ==
    ASSUME TypeOK, NEW u \in User, NEW r \in AvailableChats(u)
    PROVE  r.chat \in ChatsOf(u) /\ r.label \in User \cup {NULL}
<1>1. PICK c \in ChatsOf(u) :
          r \in {Row(c, p, m, messages[m].at) : p \in OthersIn(c, u), m \in Newest(c)}
    BY DEF AvailableChats
<1>2. PICK p \in OthersIn(c, u), m \in Newest(c) : r = Row(c, p, m, messages[m].at)
    BY <1>1
<1>3. p \in User \cup {NULL}
    BY DEF TypeOK, OthersIn, ChatsOf, Chats
<1> QED
    BY <1>2, <1>3 DEF Row

\* The rows of FindMatchingChats are those of chats of the user, and those of
\* users with whom there is none.
LEMMA MatchingRows ==
    ASSUME TypeOK, NEW u \in User, NEW names, NEW r \in FindMatchingChats(u, names)
    PROVE  \/ r.chat \in ChatsOf(u) /\ r.label \in Name
           \/ /\ r.chat = NULL
              /\ \E v \in User \ {u} : r.label = nameOf[v] /\ ChatsOf(u) \cap ChatsOf(v) = {}
<1> USE QueryAssumption DEF TypeOK
<1>1. CASE r \in MatchingChats(u, names)
  <2>1. PICK c \in ChatsOf(u) :
            r \in {Row(c, nameOf[p], m, messages[m].at) :
                      p \in {q \in OthersIn(c, u) \ {NULL} : nameOf[q] \in names}, m \in Newest(c)}
      BY <1>1 DEF MatchingChats
  <2>2. PICK p \in OthersIn(c, u) \ {NULL}, m \in Newest(c) :
            r = Row(c, nameOf[p], m, messages[m].at)
      BY <2>1
  <2>3. p \in User
      BY <2>2 DEF OthersIn, ChatsOf, Chats
  <2> QED
      BY <2>2, <2>3 DEF Row
<1>2. CASE r \in MatchingUsers(u, names)
    BY <1>2 DEF MatchingUsers, Row
<1> QED
    BY <1>1, <1>2 DEF FindMatchingChats

----------------------------------------------------------------------------
(* The steps.                                                              *)

LEMMA InitInv == Init => QueryInv
<1> SUFFICES ASSUME Init PROVE QueryInv
    OBVIOUS
<1> USE QueryAssumption DEF Init
<1>1. TypeOK
  <2>1. members \in Seq(SUBSET User) /\ forwarded \in Seq(SUBSET User)
      OBVIOUS
  <2>2. messages \in Seq([chat : Chats, user : User, at : 0 .. MaxTime])
      OBVIOUS
  <2>3. now \in 0 .. MaxTime
      OBVIOUS
  <2>4. list \in [User -> SUBSET Entries] /\ seen \in [User -> Nat]
      OBVIOUS
  <2> QED
      BY <2>1, <2>2, <2>3, <2>4 DEF TypeOK
<1>2. PairInv /\ NewestInv /\ ListInv
    BY DEF PairInv, NewestInv, ListInv, Chats
<1>3. OneChatPerPair /\ ForwardedToOthers
    BY DEF OneChatPerPair, ForwardedToOthers, Chats
<1> QED
    BY <1>1, <1>2, <1>3 DEF QueryInv

\* A step that reads a list leaves the chats and the messages alone, and its
\* rows are good if those it has read are.
LEMMA ReadStep ==
    ASSUME QueryInv, NEW u \in User, NEW rows, ReadList(u, rows),
           \A r \in rows : /\ r.chat \in Nat /\ r.label \in User \cup Name \cup {NULL}
                           /\ \/ r.chat \in ChatsOf(u)
                              \/ /\ r.chat = NULL
                                 /\ \E v \in User \ {u} :
                                       /\ r.label = nameOf[v]
                                       /\ ChatsOf(u) \cap ChatsOf(v) = {}
    PROVE  QueryInv'
<1> USE QueryAssumption DEF QueryInv, ReadList
<1>1. TypeOK'
  <2>1. \A r \in rows : Entry(r) \in Entries
      BY DEF Entry, Entries
  <2>2. list' \in [User -> SUBSET Entries]
      BY <2>1 DEF TypeOK
  <2>3. seen' \in [User -> Nat]
      BY DEF TypeOK
  <2> QED
      BY <2>2, <2>3 DEF TypeOK, Chats
<1>2. PairInv' /\ NewestInv' /\ OneChatPerPair' /\ ForwardedToOthers'
    BY DEF PairInv, NewestInv, OneChatPerPair, ForwardedToOthers, Chats, MessagesIn, Newest,
           IsUnique
<1>3. ListInv'
  <2> SUFFICES ASSUME NEW v \in User
               PROVE  seen'[v] <= Len(members') /\ \A row \in list'[v] : RowInv(v, row)'
      BY DEF ListInv
  <2>1. CASE v # u
    <3>1. list'[v] = list[v] /\ seen'[v] = seen[v]
        BY <2>1 DEF TypeOK
    <3> QED
        BY <3>1 DEF ListInv, RowInv, ChatsOf, Chats, IsUnique
  <2>2. CASE v = u
    <3>1. seen'[u] = Len(members) /\ list'[u] = {Entry(r) : r \in rows}
        BY DEF TypeOK
    <3>2. ASSUME NEW r \in rows PROVE RowInv(u, Entry(r))'
      <4>1. Entry(r).chat = r.chat /\ Entry(r).label = r.label
          BY DEF Entry
      <4>2. CASE r.chat \in ChatsOf(u)
        <5>1. r.chat # NULL
            BY <4>2 DEF ChatsOf, Chats, NULL, TypeOK
        <5> QED
            BY <4>1, <4>2, <5>1 DEF RowInv, ChatsOf, Chats
      <4>3. CASE r.chat = NULL
        <5>1. r.chat \notin ChatsOf(u)
            BY <4>3 DEF ChatsOf, Chats, NULL, TypeOK
        <5>2. PICK w \in User \ {u} :
                  r.label = nameOf[w] /\ ChatsOf(u) \cap ChatsOf(w) = {}
            BY <5>1
        <5>3. ASSUME NEW x \in User, nameOf[x] = r.label, IsUnique(nameOf[x])
              PROVE  ChatsOf(u) \cap ChatsOf(x) = {}
            BY <5>2, <5>3 DEF IsUnique
        <5> QED
            BY <4>1, <4>3, <5>2, <5>3 DEF RowInv, ChatsOf, Chats, IsUnique
      <4> QED
          BY <4>2, <4>3
    <3> QED
        BY <2>2, <3>1, <3>2 DEF TypeOK
  <2> QED
      BY <2>1, <2>2
<1> QED
    BY <1>1, <1>2, <1>3

LEMMA AvailableChatsInv ==
    ASSUME QueryInv, NEW u \in User, GetAvailableChats(u)
    PROVE  QueryInv'
<1>1. ASSUME NEW r \in AvailableChats(u)
      PROVE  r.chat \in Nat /\ r.label \in User \cup {NULL} /\ r.chat \in ChatsOf(u)
    BY <1>1, AvailableRows DEF QueryInv, TypeOK, ChatsOf, Chats
<1> QED
    BY <1>1, ReadStep DEF GetAvailableChats

LEMMA SearchInv ==
    ASSUME QueryInv, NEW u \in User, NEW names \in Typed, Search(u, names)
    PROVE  QueryInv'
<1> DEFINE Found(r) ==
        \E v \in User \ {u} : r.label = nameOf[v] /\ ChatsOf(u) \cap ChatsOf(v) = {}
<1>1. ASSUME NEW r \in FindMatchingChats(u, names)
      PROVE  /\ r.chat \in Nat /\ r.label \in Name
             /\ r.chat \in ChatsOf(u) \/ (r.chat = NULL /\ Found(r))
  <2>1. nameOf \in [User -> Name]
      BY QueryAssumption DEF QueryInv, TypeOK
  <2>2. \/ r.chat \in ChatsOf(u) /\ r.label \in Name
        \/ r.chat = NULL /\ Found(r)
      BY <1>1, MatchingRows DEF QueryInv
  <2>3. ChatsOf(u) \subseteq Nat /\ NULL \in Nat
      BY DEF QueryInv, TypeOK, ChatsOf, Chats, NULL
  <2> QED
      BY <2>1, <2>2, <2>3
<1> QED
    BY <1>1, ReadStep DEF Search

LEMMA MessagesTyped ==
    ASSUME TypeOK, NEW m \in DOMAIN messages
    PROVE  messages[m] \in [chat : Chats, user : User, at : 0 .. MaxTime]
<1> DEFINE M == [chat : Chats, user : User, at : 0 .. MaxTime]
<1>1. messages \in Seq(M)
    BY DEF TypeOK
<1> HIDE DEF M
<1>2. messages[m] \in M
    BY <1>1
<1> QED
    BY <1>2 DEF M

\* A new chat has a number of its own, so nobody's list leads to it yet but the
\* creator's, and it is no second one unless the list was out of date.
LEMMA CreateInv ==
    ASSUME QueryInv, NEW u \in User, NEW row \in list[u], NEW receiver \in User,
           CreateNewPersonalChat(u, row, receiver)
    PROVE  QueryInv'
<1> DEFINE new == Len(members) + 1
           filed == [chat |-> new, label |-> row.label]
<1>1. TypeOK /\ PairInv /\ NewestInv /\ ListInv /\ OneChatPerPair /\ ForwardedToOthers
    BY DEF QueryInv
<1>2. UNCHANGED <<nameOf, messages, now, forwarded, seen>>
    BY DEF CreateNewPersonalChat
<1>3. /\ members' = Append(members, {u, receiver}) /\ members \in Seq(SUBSET User)
      /\ Len(members) \in Nat /\ Len(members') = new
      /\ Chats = 1 .. Len(members)
      /\ Chats' = Chats \cup {new} /\ new \notin Chats /\ new \in Nat /\ new > Len(members)
      /\ members'[new] = {u, receiver}
      /\ \A c \in Chats : members'[c] = members[c]
    BY <1>1 DEF TypeOK, Chats, CreateNewPersonalChat
<1>4. \A v \in User :
          /\ ChatsOf(v) \subseteq ChatsOf(v)'
          /\ ChatsOf(v)' \subseteq ChatsOf(v) \cup {new}
          /\ v \in {u, receiver} => new \in ChatsOf(v)'
    BY <1>3 DEF ChatsOf
<1>5. list' = [list EXCEPT ![u] = (list[u] \ {row}) \cup {filed}]
    BY DEF CreateNewPersonalChat
<1> HIDE DEF new
<1>6. TypeOK'
  <2>1. members' \in Seq(SUBSET User)
      BY <1>3
  <2>2. messages' \in Seq([chat : Chats', user : User, at : 0 .. MaxTime])
    <3> DEFINE M == [chat : Chats', user : User, at : 0 .. MaxTime]
    <3>1. \A m \in DOMAIN messages : messages[m] \in M
        BY <1>1, <1>3, MessagesTyped
    <3>2. messages \in Seq([chat : Chats, user : User, at : 0 .. MaxTime])
        BY <1>1 DEF TypeOK
    <3> HIDE DEF M
    <3>3. messages \in Seq(M)
        BY <3>1, <3>2
    <3> QED
        BY <1>2, <3>3 DEF M
  <2>3. list' \in [User -> SUBSET Entries]
    <3>1. list \in [User -> SUBSET Entries] /\ row \in Entries
        BY <1>1 DEF TypeOK
    <3>2. filed \in Entries
        BY <1>3, <3>1 DEF Entries
    <3> QED
        BY <1>5, <3>1, <3>2
  <2>4. stale' \in BOOLEAN
      BY <1>1 DEF TypeOK, CreateNewPersonalChat
  <2> QED
      BY <1>1, <1>2, <2>1, <2>2, <2>3, <2>4 DEF TypeOK
<1>7. PairInv'
  <2>1. \A c \in Chats : \E v, w \in User : members[c] = {v, w}
      BY <1>1 DEF PairInv
  <2> QED
      BY <1>3, <2>1 DEF PairInv
<1>8. NewestInv'
  <2>1. \A m \in DOMAIN messages : messages[m].chat \in Chats
      BY <1>1, MessagesTyped
  <2>2. \A c \in Chats' : MessagesIn(c)' = MessagesIn(c) /\ Newest(c)' = Newest(c)
      BY <1>2 DEF MessagesIn, Newest
  <2>3. MessagesIn(new) = {}
      BY <1>3, <2>1 DEF MessagesIn
  <2> QED
      BY <1>1, <1>2, <1>3, <2>2, <2>3 DEF NewestInv
<1>9. ForwardedToOthers'
  <2>1. \A m \in DOMAIN messages : messages[m].chat \in Chats
      BY <1>1, MessagesTyped
  <2> QED
      BY <1>1, <1>2, <1>3, <2>1 DEF ForwardedToOthers
<1>10. ListInv'
  <2> SUFFICES ASSUME NEW v \in User
               PROVE  seen'[v] <= Len(members') /\ \A r \in list'[v] : RowInv(v, r)'
      BY DEF ListInv
  <2>1. seen'[v] = seen[v] /\ seen[v] \in Nat /\ seen[v] <= Len(members)
      BY <1>1, <1>2 DEF ListInv, TypeOK
  <2>2. seen'[v] <= Len(members') /\ new > seen'[v]
      BY <1>3, <2>1
  <2>3. ASSUME NEW r \in list[v] PROVE RowInv(v, r)'
    <3>1. RowInv(v, r)
        BY <1>1 DEF ListInv
    <3>2. \A name : IsUnique(name)' = IsUnique(name)
        BY <1>2 DEF IsUnique
    <3>3. ASSUME NEW w \in User, NEW c \in ChatsOf(v)' \cap ChatsOf(w)'
          PROVE  c \in ChatsOf(v) \cap ChatsOf(w) \/ c = new
        BY <1>4
    <3> QED
        BY <1>2, <1>4, <2>2, <3>1, <3>2, <3>3 DEF RowInv
  <2>4. ASSUME NEW r, v = u, r = filed PROVE RowInv(v, r)'
    <3>1. r.chat = new /\ new # NULL
        BY <1>3, <2>4 DEF NULL
    <3> QED
        BY <1>4, <2>4, <3>1 DEF RowInv
  <2>5. \A r \in list'[v] : r \in list[v] \/ (v = u /\ r = filed)
      BY <1>1, <1>5 DEF TypeOK
  <2> HIDE DEF filed
  <2> QED
      BY <2>2, <2>3, <2>4, <2>5
<1>11. OneChatPerPair'
  <2> SUFFICES ASSUME ~stale', NEW c \in Chats', NEW d \in Chats', c # d,
                      members'[c] = members'[d], \A w \in members'[c] : IsUnique(nameOf[w])
               PROVE  FALSE
    <3>1. \A name : IsUnique(name)' = IsUnique(name)
        BY <1>2 DEF IsUnique
    <3> QED
        BY <1>2, <3>1 DEF OneChatPerPair
  <2>1. ~stale /\ \A e \in ChatsOf(u) \cap ChatsOf(receiver) : ~(e > seen[u])
      BY <1>1 DEF TypeOK, CreateNewPersonalChat
  <2>2. CASE c \in Chats /\ d \in Chats
      BY <1>1, <1>3, <2>1, <2>2 DEF OneChatPerPair
  <2>3. ASSUME NEW e \in Chats, members[e] = {u, receiver},
               \A w \in {u, receiver} : IsUnique(nameOf[w])
        PROVE  FALSE
    <3>1. e \in ChatsOf(u) \cap ChatsOf(receiver)
        BY <2>3 DEF ChatsOf
    <3>2. RowInv(u, row) /\ row.chat = NULL /\ nameOf[receiver] = row.label
        BY <1>1 DEF ListInv, CreateNewPersonalChat
    <3>3. e > seen[u]
        BY <2>3, <3>1, <3>2 DEF RowInv
    <3> QED
        BY <2>1, <3>1, <3>3
  <2> QED
      BY <1>3, <2>2, <2>3
<1> QED
    BY <1>6, <1>7, <1>8, <1>9, <1>10, <1>11 DEF QueryInv

\* The only other member of the chat is the receiver, and the message is the
\* newest of its chat.
LEMMA SendInv ==
    ASSUME QueryInv, NEW u \in User, NEW row \in list[u], SendChatMessage(u, row)
    PROVE  QueryInv'
<1> DEFINE c == row.chat
           new == Len(messages) + 1
           message == [chat |-> c, user |-> u, at |-> now]
           others == members[c] \ {u}
<1>1. TypeOK /\ PairInv /\ NewestInv /\ ListInv /\ OneChatPerPair /\ ForwardedToOthers
    BY DEF QueryInv
<1>2. UNCHANGED <<nameOf, members, now, list, seen, stale>>
    BY DEF SendChatMessage
<1>3. messages' = Append(messages, message)
    BY DEF SendChatMessage
<1>4. c \in Chats /\ u \in members[c]
    BY <1>1 DEF SendChatMessage, ListInv, RowInv, ChatsOf
<1>5. message \in [chat : Chats, user : User, at : 0 .. MaxTime]
    BY <1>1, <1>4 DEF TypeOK
<1>6. /\ messages \in Seq([chat : Chats, user : User, at : 0 .. MaxTime])
      /\ forwarded \in Seq(SUBSET User) /\ Len(forwarded) = Len(messages)
      /\ now \in Nat
    BY <1>1, QueryAssumption DEF TypeOK
<1>7. forwarded' = Append(forwarded, others)
  <2>1. PICK to \in SUBSET others :
            /\ Cardinality(to) = IF others = {} THEN 0 ELSE 1
            /\ forwarded' = Append(forwarded, to)
      BY DEF SendChatMessage, ReceiverOf
  <2>2. PICK v \in User : others \subseteq {v}
      BY <1>1, <1>4 DEF PairInv
  <2>3. CASE others = {}
      BY <2>1, <2>3
  <2>4. CASE others # {}
    <3>1. Cardinality(to) = 1
        BY <2>1, <2>4
    <3>2. to # {}
        BY <3>1, FS_EmptySet
    <3> QED
        BY <2>1, <2>2, <3>2
  <2> QED
      BY <2>3, <2>4
<1>8. others \in SUBSET User
    BY <1>1, <1>4 DEF TypeOK, Chats
<1> HIDE DEF message, others, c
<1>9. /\ DOMAIN messages' = DOMAIN messages \cup {new} /\ new \notin DOMAIN messages
      /\ DOMAIN forwarded' = DOMAIN messages'
      /\ messages'[new] = message /\ forwarded'[new] = others
      /\ \A m \in DOMAIN messages : messages'[m] = messages[m] /\ forwarded'[m] = forwarded[m]
    BY <1>3, <1>5, <1>6, <1>7, <1>8
<1>10. TypeOK'
  <2>1. messages' \in Seq([chat : Chats, user : User, at : 0 .. MaxTime])
      BY <1>3, <1>5, <1>6
  <2>2. forwarded' \in Seq(SUBSET User) /\ Len(forwarded') = Len(messages')
      BY <1>3, <1>5, <1>6, <1>7, <1>8
  <2>3. Chats' = Chats
      BY <1>2 DEF Chats
  <2> QED
      BY <1>1, <1>2, <2>1, <2>2, <2>3 DEF TypeOK
<1>11. PairInv' /\ OneChatPerPair'
    BY <1>1, <1>2 DEF PairInv, OneChatPerPair, Chats, IsUnique
<1>12. ListInv'
    BY <1>1, <1>2 DEF ListInv, RowInv, ChatsOf, Chats, IsUnique
<1>13. ForwardedToOthers'
  <2>1. messages'[new].chat = c /\ messages'[new].user = u
      BY <1>9 DEF message
  <2> QED
      BY <1>1, <1>2, <1>9, <2>1 DEF ForwardedToOthers, others
<1>14. NewestInv'
  <2>1. \A m \in DOMAIN messages : messages[m].at <= now
      BY <1>1 DEF NewestInv
  <2>2. messages'[new].chat = c /\ messages'[new].at = now
      BY <1>9 DEF message
  <2>3. \A m \in DOMAIN messages' : messages'[m].at <= now
      BY <1>6, <1>9, <2>1, <2>2
  <2>4. \A d \in Chats \ {c} : MessagesIn(d)' = MessagesIn(d)
      BY <1>9, <2>2 DEF MessagesIn
  <2>5. ASSUME NEW d \in Chats \ {c}, MessagesIn(d)' # {} PROVE Newest(d)' # {}
    <3>1. PICK m \in Newest(d) : TRUE
        BY <1>1, <2>4, <2>5 DEF NewestInv
    <3>2. m \in Newest(d)'
        BY <1>9, <2>4, <3>1 DEF Newest, MessagesIn
    <3> QED
        BY <3>2
  <2>6. new \in Newest(c)'
      BY <1>9, <2>2, <2>3 DEF Newest, MessagesIn
  <2> QED
      BY <1>2, <2>3, <2>5, <2>6 DEF NewestInv, Chats
<1> QED
    BY <1>10, <1>11, <1>12, <1>13, <1>14 DEF QueryInv

LEMMA NextInv == QueryInv /\ [Next]_vars => QueryInv'
<1> SUFFICES ASSUME QueryInv, [Next]_vars PROVE QueryInv'
    OBVIOUS
<1>1. ASSUME NEW u \in User, GetAvailableChats(u) PROVE QueryInv'
    BY <1>1, AvailableChatsInv
<1>2. ASSUME NEW u \in User, NEW names \in Typed, Search(u, names) PROVE QueryInv'
    BY <1>2, SearchInv
<1>3. ASSUME NEW u \in User, NEW row \in list[u], NEW receiver \in User,
             CreateNewPersonalChat(u, row, receiver)
      PROVE  QueryInv'
    BY <1>3, CreateInv
<1>4. ASSUME NEW u \in User, NEW row \in list[u], SendChatMessage(u, row) PROVE QueryInv'
    BY <1>4, SendInv
<1>5. ASSUME UNCHANGED <<nameOf, members, messages, list, forwarded, seen, stale>>,
             now' \in 0 .. MaxTime, now' >= now
      PROVE  QueryInv'
  <2>1. TypeOK'
      BY <1>5 DEF QueryInv, TypeOK, Chats
  <2>2. PairInv' /\ OneChatPerPair' /\ ForwardedToOthers'
      BY <1>5 DEF QueryInv, PairInv, OneChatPerPair, ForwardedToOthers, Chats, IsUnique
  <2>3. ListInv'
      BY <1>5 DEF QueryInv, ListInv, RowInv, ChatsOf, Chats, IsUnique
  <2>4. NewestInv'
    <3>1. \A m \in DOMAIN messages : messages[m].at \in Nat /\ messages[m].at <= now
        BY QueryAssumption, MessagesTyped DEF QueryInv, NewestInv
    <3>2. now \in Nat /\ now' \in Nat
        BY <1>5, QueryAssumption DEF QueryInv, TypeOK
    <3>3. \A m \in DOMAIN messages : messages[m].at <= now'
        BY <1>5, <3>1, <3>2
    <3> QED
        BY <1>5, <3>3 DEF QueryInv, NewestInv, Chats, MessagesIn, Newest
  <2> QED
      BY <2>1, <2>2, <2>3, <2>4 DEF QueryInv
<1>6. CASE Tick
    BY <1>5, <1>6, QueryAssumption DEF Tick, QueryInv, TypeOK
<1>7. CASE UNCHANGED vars
  <2>1. now' \in 0 .. MaxTime /\ now' >= now
      BY <1>7, QueryAssumption DEF vars, QueryInv, TypeOK
  <2> QED
      BY <1>5, <1>7, <2>1 DEF vars
<1> QED
    BY <1>1, <1>2, <1>3, <1>4, <1>6, <1>7 DEF Next

----------------------------------------------------------------------------
(* The theorems.                                                           *)

THEOREM Invariance == Spec => []QueryInv
<1> QED
    BY InitInv, NextInv, PTL DEF Spec

\* Every variable keeps its type, for any users, names and searches.
THEOREM Typing == Spec => []TypeOK
<1>1. QueryInv => TypeOK
    BY DEF QueryInv
<1> QED
    BY <1>1, Invariance, PTL

\* A message is forwarded to every other member of its chat, and to nobody
\* else (server.cpp:297-341).
THEOREM ForwardingExact == Spec => []ForwardedToOthers
<1>1. QueryInv => ForwardedToOthers
    BY DEF QueryInv
<1> QED
    BY <1>1, Invariance, PTL

\* Two users with names of their own get one chat, unless a list was out of
\* date (server.cpp:175-232).
THEOREM PairHasOneChat == Spec => []OneChatPerPair
<1>1. QueryInv => OneChatPerPair
    BY DEF QueryInv
<1> QED
    BY <1>1, Invariance, PTL

\* Who is in a chat with another user sees that user there, and nobody else.
LEMMA Partner ==
    ASSUME TypeOK, PairInv, NEW u \in User, NEW c \in ChatsOf(u)
    PROVE  \E p : OthersIn(c, u) = {p} /\ (members[c] # {u} => members[c] = {u, p})
<1>1. PICK v \in User, w \in User : members[c] = {v, w}
    BY DEF PairInv, ChatsOf
<1>2. u \in members[c]
    BY DEF ChatsOf
<1>3. CASE members[c] = {u}
    BY <1>3 DEF OthersIn
<1>4. CASE members[c] # {u}
  <2>1. PICK p : p # u /\ members[c] = {u, p}
      BY <1>1, <1>2, <1>4
  <2> QED
      BY <2>1 DEF OthersIn
<1> QED
    BY <1>3, <1>4

\* A user with a name of its own is found by it (server.cpp:576-660).
THEOREM PartnersFindable == Spec => []PartnerFindable
<1>1. ASSUME QueryInv PROVE PartnerFindable
  <2> SUFFICES ASSUME NEW u \in User, NEW v \in User, u # v, IsUnique(nameOf[v]),
                      \A c \in ChatsOf(u) \cap ChatsOf(v) : MessagesIn(c) # {}
               PROVE  \E row \in FindMatchingChats(u, {nameOf[v]}) :
                         /\ row.label = nameOf[v]
                         /\ row.chat # NULL => members[row.chat] = {u, v}
      BY DEF PartnerFindable
  <2>1. CASE ChatsOf(u) \cap ChatsOf(v) = {}
    <3>1. Row(NULL, nameOf[v], NULL, NULL) \in MatchingUsers(u, {nameOf[v]})
        BY <2>1 DEF MatchingUsers
    <3> QED
        BY <3>1 DEF FindMatchingChats, Row
  <2>2. CASE ChatsOf(u) \cap ChatsOf(v) # {}
    <3>1. PICK c \in ChatsOf(u) : v \in members[c] /\ MessagesIn(c) # {}
        BY <2>2 DEF ChatsOf
    <3>2. c \in Chats /\ u \in members[c]
        BY DEF ChatsOf
    <3>3. PICK m : m \in Newest(c)
        BY <1>1, <3>1, <3>2 DEF QueryInv, NewestInv
    <3>4. OthersIn(c, u) = {v} /\ members[c] = {u, v}
        BY <1>1, <3>1, <3>2, Partner DEF QueryInv, OthersIn
    <3>5. v # NULL
        BY QueryAssumption DEF NULL
    <3>6. Row(c, nameOf[v], m, messages[m].at) \in MatchingChats(u, {nameOf[v]})
        BY <3>3, <3>4, <3>5 DEF MatchingChats
    <3> QED
        BY <3>4, <3>6 DEF FindMatchingChats, Row
  <2> QED
      BY <2>1, <2>2
<1> QED
    BY <1>1, Invariance, PTL

\* The list has each chat with a message once, with a newest message, unless
\* there are two of those (server.cpp:712-760).
THEOREM ListsExact == Spec => []ListIsExact
<1>1. ASSUME QueryInv PROVE ListIsExact
  <2> SUFFICES ASSUME NEW u \in User, NEW c \in ChatsOf(u)
               PROVE  LET rows == {r \in AvailableChats(u) : r.chat = c} IN
                      /\ \A r \in rows : \A m \in MessagesIn(c) : messages[m].at <= r.at
                      /\ MessagesIn(c) = {} => rows = {}
                      /\ MessagesIn(c) # {} => rows # {}
                      /\ Cardinality(Newest(c)) = 1 => Cardinality(rows) = 1
      BY DEF ListIsExact
  <2> DEFINE rows == {r \in AvailableChats(u) : r.chat = c}
  <2>1. PICK p : OthersIn(c, u) = {p}
      BY <1>1, Partner DEF QueryInv
  <2>2. rows = {Row(c, p, m, messages[m].at) : m \in Newest(c)}
    <3>1. ASSUME NEW r \in rows PROVE \E m \in Newest(c) : r = Row(c, p, m, messages[m].at)
      <4>1. PICK d \in ChatsOf(u) :
                r \in {Row(d, q, m, messages[m].at) : q \in OthersIn(d, u), m \in Newest(d)}
          BY DEF AvailableChats
      <4>2. d = c
          BY <4>1 DEF Row
      <4> QED
          BY <2>1, <4>1, <4>2
    <3>2. ASSUME NEW m \in Newest(c) PROVE Row(c, p, m, messages[m].at) \in rows
      <4>1. Row(c, p, m, messages[m].at) \in
                {Row(c, q, n, messages[n].at) : q \in OthersIn(c, u), n \in Newest(c)}
          BY <2>1
      <4> QED
          BY <4>1 DEF AvailableChats, Row
    <3> HIDE DEF rows
    <3> QED
        BY <3>1, <3>2
  <2>3. \A r \in rows : \A m \in MessagesIn(c) : messages[m].at <= r.at
      BY <2>2 DEF Newest, Row
  <2>4. MessagesIn(c) = {} => rows = {}
      BY <2>2 DEF Newest
  <2>5. MessagesIn(c) # {} => rows # {}
      BY <1>1, <2>2 DEF QueryInv, NewestInv, ChatsOf
  <2>6. ASSUME Cardinality(Newest(c)) = 1 PROVE Cardinality(rows) = 1
    <3>1. IsFiniteSet(Newest(c))
      <4>1. Newest(c) \subseteq 1 .. Len(messages) /\ Len(messages) \in Nat
          BY <1>1 DEF QueryInv, TypeOK, Newest, MessagesIn
      <4>2. IsFiniteSet(1 .. Len(messages))
          BY <4>1, FS_Interval
      <4> QED
          BY <4>1, <4>2, FS_Subset
    <3>2. PICK m : Newest(c) = {m}
        BY <2>6, <3>1, FS_Singleton
    <3>3. rows = {Row(c, p, m, messages[m].at)}
        BY <2>2, <3>2
    <3> QED
        BY <3>3, FS_Singleton
  <2> QED
      BY <2>3, <2>4, <2>5, <2>6
<1> QED
    BY <1>1, Invariance, PTL
=============================================================================
