------------------------ MODULE ServerDatabaseProofs ------------------------
(***************************************************************************)
(* Proofs that the durability and consistency properties of ServerDatabase *)
(* hold for any number of threads, users and requests, that personal chats *)
(* have no third member unless ids are mistaken, and that with one thread  *)
(* the database implements ChatStore.                                      *)
(***************************************************************************)
EXTENDS ChatStoreRefinement, FiniteSetTheorems, TLAPS

\* Every row that a request adds is new: ids come from the counters, and
\* whatever is in use lies below them.
FreshIds ==
    \A r \in session :
        /\ r.table = "users" => r.id < nextId.users
        /\ r.table = "chats" => r.id < nextId.chats
        /\ r.table = "messages" => r.id < nextId.messages

\* What the session and the requests in flight know about the disk.
Durability ==
    /\ committed \subseteq session
    /\ autocommit => session = committed
    /\ \A a \in acked : a.durable => UserRow(a.user) \in committed

\* A request in flight has autocommit off, and keeps account of its rows.
RequestInv(t) ==
    /\ pc[t] \in CreateSteps \cup SendSteps => ~autocommit
    /\ pc[t] # "idle" /\ autocommit => own[t] = {}
    /\ pc[t] # "idle" /\ ~undone[t] => own[t] \subseteq session
    /\ pc[t] \in AfterCommit /\ ~undone[t] => own[t] \subseteq committed
    /\ pc[t] # "idle" /\ ~exposed[t] => own[t] \cap committed = {}

Requests == \A t \in Thread : RequestInv(t)

Consistent == References(session) /\ References(committed)

DbInv == TypeOK /\ FreshIds /\ Durability /\ Requests /\ Consistent

----------------------------------------------------------------------------
\* Rows of the four kinds are rows, and no two kinds overlap.
LEMMA RowTypes ==
    /\ \A u \in Nat : UserRow(u) \in Row /\ UserRow(u).table = "users" /\ UserRow(u).id = u
    /\ \A c \in Nat : ChatRow(c) \in Row /\ ChatRow(c).table = "chats" /\ ChatRow(c).id = c
    /\ \A u, c \in Nat :
          /\ MemberRow(u, c) \in Row
          /\ MemberRow(u, c).table = "users_chats"
          /\ MemberRow(u, c).user = u /\ MemberRow(u, c).chat = c
    /\ \A i, c, u \in Nat :
          /\ MessageRow(i, c, u) \in Row
          /\ MessageRow(i, c, u).table = "messages"
          /\ MessageRow(i, c, u).id = i
          /\ MessageRow(i, c, u).user = u /\ MessageRow(i, c, u).chat = c
BY DEF Row, UserRow, ChatRow, MemberRow, MessageRow

\* Inserting a row whose references exist keeps a database consistent.
LEMMA InsertConsistent ==
    ASSUME NEW db, References(db), NEW r,
           r.table \in {"users_chats", "messages"} => UserRow(r.user) \in db,
           r.table = "users_chats" => ChatRow(r.chat) \in db,
           r.table = "messages" /\ r.chat # NoChat => ChatRow(r.chat) \in db
    PROVE  References(db \cup {r})
BY DEF References

\* A request in a chat handler that inserts a row the session does not hold
\* keeps the bookkeeping of all requests.
LEMMA InsertStep ==
    ASSUME TypeOK, Durability, Requests, NEW t \in Thread, NEW r \in Row, NEW step,
           pc[t] \in CreateSteps \cup SendSteps, step \in CreateSteps \cup SendSteps,
           r \notin session, Insert(t, r), Goto(t, step),
           UNCHANGED <<autocommit, acked, undone, exposed>>
    PROVE  /\ Durability' /\ Requests'
           /\ session' = session \cup {r} /\ committed' = committed
           /\ own' \in [Thread -> SUBSET Row] /\ pc' \in [Thread -> Steps]
<1>1. ~autocommit
  BY DEF Requests, RequestInv
<1>2. committed' = committed /\ session' = session \cup {r}
  BY <1>1 DEF Insert
<1>3. own' = [own EXCEPT ![t] = own[t] \cup {r}] /\ pc' = [pc EXCEPT ![t] = step]
  BY DEF Insert, Goto
<1>4. Durability'
  BY <1>1, <1>2 DEF Durability
<1>5. step # "idle" /\ pc[t] # "idle" /\ step \notin AfterCommit /\ step \in Steps
  BY DEF CreateSteps, SendSteps, AfterCommit, Steps
<1>6. own' \in [Thread -> SUBSET Row] /\ pc' \in [Thread -> Steps]
  BY <1>3, <1>5 DEF TypeOK
<1>7. ASSUME NEW s \in Thread PROVE RequestInv(s)'
  <2>1. CASE s = t
    <3>1. own'[s] = own[s] \cup {r} /\ pc'[s] = step
      BY <1>3, <2>1 DEF TypeOK
    <3>2. r \notin committed
      BY DEF Durability
    <3> QED
      BY <1>1, <1>2, <1>5, <2>1, <3>1, <3>2 DEF Requests, RequestInv
  <2>2. CASE s # t
    <3>1. own'[s] = own[s] /\ pc'[s] = pc[s]
      BY <1>3, <2>2 DEF TypeOK
    <3> QED
      BY <1>2, <3>1 DEF Requests, RequestInv
  <2> QED
    BY <2>1, <2>2
<1> QED
  BY <1>2, <1>4, <1>6, <1>7 DEF Requests

\* A step of one thread that leaves the database and the rows alone.
LEMMA LocalStep ==
    ASSUME TypeOK, Requests, NEW t \in Thread, NEW step \in Steps, Goto(t, step),
           UNCHANGED <<committed, session, autocommit, own, undone, exposed>>,
           pc[t] # "idle",
           step \in CreateSteps \cup SendSteps => pc[t] \in CreateSteps \cup SendSteps,
           step \notin AfterCommit
    PROVE  Requests' /\ pc' \in [Thread -> Steps]
<1>1. pc' = [pc EXCEPT ![t] = step]
  BY DEF Goto
<1>2. \A s \in Thread : s # t => pc'[s] = pc[s]
  BY <1>1 DEF TypeOK
<1>3. pc'[t] = step
  BY <1>1 DEF TypeOK
<1> QED
  BY <1>1, <1>2, <1>3 DEF Requests, RequestInv, TypeOK

----------------------------------------------------------------------------
\* The invariant survives an insert that a chat request makes: the new row is
\* fresh, or a membership that is not there yet, and its references exist.
LEMMA ChatInsert ==
    ASSUME DbInv, NEW t \in Thread, NEW r \in Row, NEW step \in CreateSteps \cup SendSteps,
           pc[t] \in CreateSteps \cup SendSteps,
           r \notin session, Insert(t, r), Goto(t, step),
           UNCHANGED <<autocommit, acked, undone, exposed, user, chat, requests, told, idRaced>>,
           lastInsertId' \in Nat,
           nextId' \in [users : Nat, chats : Nat, messages : Nat],
           nextId'.users >= nextId.users,
           nextId'.chats >= nextId.chats,
           nextId'.messages >= nextId.messages,
           r.table = "users" => r.id < nextId'.users,
           r.table = "chats" => r.id < nextId'.chats,
           r.table = "messages" => r.id < nextId'.messages,
           r.table \in {"users_chats", "messages"} => UserRow(r.user) \in session,
           r.table = "users_chats" => ChatRow(r.chat) \in session,
           r.table = "messages" /\ r.chat # NoChat => ChatRow(r.chat) \in session
    PROVE  DbInv'
<1>1. /\ Durability' /\ Requests'
      /\ session' = session \cup {r} /\ committed' = committed
      /\ own' \in [Thread -> SUBSET Row] /\ pc' \in [Thread -> Steps]
  BY InsertStep DEF DbInv
<1>2. TypeOK'
  BY <1>1 DEF DbInv, TypeOK
<1>3. FreshIds'
  <2>1. ASSUME NEW q \in session
        PROVE  /\ q.table = "users" => q.id \in Nat /\ q.id < nextId'.users
               /\ q.table = "chats" => q.id \in Nat /\ q.id < nextId'.chats
               /\ q.table = "messages" => q.id \in Nat /\ q.id < nextId'.messages
    <3>1. q \in Row
      BY DEF DbInv, TypeOK
    <3>2. q.table \in {"users", "chats", "messages"} => q.id \in Nat
      BY <3>1 DEF Row
    <3> QED
      BY <3>2 DEF DbInv, TypeOK, FreshIds
  <2> QED
    BY <1>1, <2>1 DEF FreshIds
<1>4. Consistent'
  BY <1>1, InsertConsistent DEF DbInv, Consistent, References
<1> QED
  BY <1>1, <1>2, <1>3, <1>4 DEF DbInv

\* InsertNewChat inserts a chat row with an id nobody has used.
LEMMA NewChatInsert ==
    ASSUME DbInv, NEW t \in Thread, NEW step \in CreateSteps \cup SendSteps,
           pc[t] \in CreateSteps \cup SendSteps, InsertNewChat(t), Goto(t, step),
           UNCHANGED <<user, chat, requests, told>>
    PROVE  DbInv'
<1> DEFINE r == ChatRow(nextId.chats)
<1>1. nextId.chats \in Nat /\ nextId.users \in Nat /\ nextId.messages \in Nat
  BY DEF DbInv, TypeOK
<1>2. r \in Row /\ r.table = "chats" /\ r.id = nextId.chats
  BY <1>1, RowTypes
<1>3. r \notin session
  BY <1>1, <1>2 DEF DbInv, FreshIds
<1>4. /\ nextId' \in [users : Nat, chats : Nat, messages : Nat]
      /\ nextId'.users = nextId.users /\ nextId'.messages = nextId.messages
      /\ nextId'.chats = nextId.chats + 1
      /\ lastInsertId' \in Nat
  BY <1>1 DEF InsertNewChat, DbInv, TypeOK
<1>5. /\ Insert(t, r)
      /\ UNCHANGED <<autocommit, acked, undone, exposed, idRaced>>
  BY DEF InsertNewChat
<1> HIDE DEF r
<1> QED
  BY <1>1, <1>2, <1>3, <1>4, <1>5, ChatInsert

\* Join inserts a membership that is not there, or nothing.
LEMMA JoinInsert ==
    ASSUME DbInv, NEW t \in Thread, NEW step \in CreateSteps \cup SendSteps,
           pc[t] \in CreateSteps \cup SendSteps, NEW u \in Nat, NEW c \in Nat,
           Join(t, u, c), Goto(t, step), UNCHANGED <<user, chat, requests, told>>
    PROVE  DbInv'
<1> DEFINE r == MemberRow(u, c)
<1>1. r \in Row /\ r.table = "users_chats" /\ r.user = u /\ r.chat = c
  BY RowTypes
<1>2. UserRow(u) \in session /\ ChatRow(c) \in session
  BY DEF Join, MembershipAllowed
<1>3. nextId'.users = nextId.users /\ nextId'.chats = nextId.chats
      /\ nextId'.messages = nextId.messages /\ nextId' = nextId
      /\ lastInsertId' \in Nat
      /\ nextId.users \in Nat /\ nextId.chats \in Nat /\ nextId.messages \in Nat
      /\ nextId \in [users : Nat, chats : Nat, messages : Nat]
  BY DEF Join, DbInv, TypeOK
<1>4. UNCHANGED <<autocommit, acked, undone, exposed, idRaced>>
  BY DEF Join
<1>5. CASE r \notin session /\ Insert(t, r)
  <2> HIDE DEF r
  <2> QED
    BY <1>1, <1>2, <1>3, <1>4, <1>5, ChatInsert
<1>6. CASE UNCHANGED <<session, committed, own>>
  <2>1. /\ step \in Steps /\ step \notin AfterCommit /\ pc[t] # "idle"
    BY DEF Steps, CreateSteps, SendSteps, AfterCommit
  <2>2. Requests' /\ pc' \in [Thread -> Steps]
    BY <1>4, <1>6, <2>1, LocalStep DEF DbInv
  <2> QED
    BY <1>3, <1>4, <1>6, <2>2 DEF DbInv, TypeOK, FreshIds, Durability, Consistent
<1> QED
  BY <1>5, <1>6 DEF Join

----------------------------------------------------------------------------
\* A step that changes no row and no ownership, only where threads are.
LEMMA QuietStep ==
    ASSUME DbInv, UNCHANGED <<committed, session, acked>>, TypeOK', Requests',
           autocommit' => autocommit,
           nextId' = nextId
    PROVE  DbInv'
BY DEF DbInv, FreshIds, Durability, Consistent

LEMMA BeginStep ==
    ASSUME DbInv, NEW t \in Thread, NEW first \in {"insertChat", "ensureChat"},
           NEW u \in Nat, NEW c \in Nat, Begin(t, first, u, c)
    PROVE  DbInv'
<1> USE DEF Begin, Goto
<1>1. first \in Steps /\ "rollback" \in Steps /\ first \notin AfterCommit
  BY DEF Steps, CreateSteps, SendSteps, AfterCommit
<1>2. TypeOK'
  <2>1. requests' \in 0 .. MaxRequests
    BY DatabaseAssumption DEF DbInv, TypeOK
  <2> QED
    BY ZenonT(60), <1>1, <2>1 DEF DbInv, TypeOK
<1>3. ASSUME NEW s \in Thread PROVE RequestInv(s)'
  <2>1. CASE s = t
    <3>1. own'[t] = {} /\ pc'[t] \in {first, "rollback"}
      BY DEF DbInv, TypeOK
    <3>2. pc'[t] = first => ~autocommit'
      BY DEF DbInv, TypeOK
    <3>3. "rollback" \notin CreateSteps \cup SendSteps \cup AfterCommit
      BY DEF CreateSteps, SendSteps, AfterCommit
    <3> QED
      BY <1>1, <2>1, <3>1, <3>2, <3>3 DEF RequestInv
  <2>2. CASE s # t
    <3>1. /\ own'[s] = own[s] /\ pc'[s] = pc[s] /\ undone'[s] = undone[s]
          /\ exposed'[s] = exposed[s]
          /\ (autocommit' => autocommit)
      BY <2>2 DEF DbInv, TypeOK
    <3> QED
      BY <3>1 DEF DbInv, Requests, RequestInv
  <2> QED
    BY <2>1, <2>2
<1> QED
  BY <1>2, <1>3, QuietStep DEF Requests, DbInv, TypeOK

\* The statements of one thread that are not inserts, and its inserts.
LEMMA HandlerStep == ASSUME DbInv, NEW t \in Thread, Handler(t) PROVE DbInv'
<1> USE DEF dbVars, localVars, auxVars
<1>u. KnownUsers \subseteq Nat /\ user[t] \in Nat /\ chat[t] \in Nat
  BY DEF KnownUsers, DbInv, TypeOK
<1>1. CASE InsertChat(t)
  <2>1. /\ pc[t] \in CreateSteps \cup SendSteps /\ "readId" \in CreateSteps \cup SendSteps
    BY <1>1 DEF InsertChat, CreateSteps
  <2> QED
    BY <1>1, <2>1, NewChatInsert DEF InsertChat
<1>2. CASE ReadId(t)
  <2>1. /\ "insertSender" \in CreateSteps \cup SendSteps /\ "insertSender" \in Steps
        /\ "insertSender" \notin AfterCommit
        /\ pc[t] \in CreateSteps \cup SendSteps /\ pc[t] # "idle"
    BY <1>2 DEF ReadId, Steps, CreateSteps, SendSteps, AfterCommit
  <2>2. Requests' /\ pc' \in [Thread -> Steps]
    BY <1>2, <2>1, LocalStep DEF ReadId, DbInv
  <2>3. TypeOK'
    BY <1>2, <2>2 DEF ReadId, DbInv, TypeOK
  <2> QED
    BY <1>2, <2>2, <2>3, QuietStep DEF ReadId
<1>3. CASE InsertSender(t)
  <2>1. pc[t] \in CreateSteps \cup SendSteps /\ "insertReceiver" \in CreateSteps \cup SendSteps
    BY <1>3 DEF InsertSender, CreateSteps
  <2> QED
    BY <1>3, <1>u, <2>1, JoinInsert DEF InsertSender
<1>4. ASSUME NEW r \in KnownUsers, InsertReceiver(t, r) PROVE DbInv'
  <2>1. pc[t] \in CreateSteps \cup SendSteps /\ "commitChat" \in CreateSteps \cup SendSteps
    BY <1>4 DEF InsertReceiver, CreateSteps
  <2> QED
    BY <1>4, <1>u, <2>1, JoinInsert DEF InsertReceiver
<1>5. CASE ReplyChat(t)
  <2>1. "idle" \in Steps /\ "idle" \notin CreateSteps \cup SendSteps \cup AfterCommit
    BY DEF Steps, CreateSteps, SendSteps, AfterCommit
  <2>2. Requests' /\ pc' \in [Thread -> Steps]
    BY <1>5, <2>1, LocalStep DEF ReplyChat, DbInv
  <2>3. TypeOK'
    BY <1>5, <1>u, <2>2 DEF ReplyChat, DbInv, TypeOK
  <2> QED
    BY <1>5, <2>2, <2>3, QuietStep DEF ReplyChat
<1>6. CASE EnsureChat(t)
  <2>1. /\ pc[t] \in CreateSteps \cup SendSteps /\ "insertMember" \in CreateSteps \cup SendSteps
        /\ "insertMember" \in Steps /\ "insertMember" \notin AfterCommit /\ pc[t] # "idle"
    BY <1>6 DEF EnsureChat, Steps, CreateSteps, SendSteps, AfterCommit
  <2>2. CASE InsertNewChat(t)
    BY <1>6, <2>1, <2>2, NewChatInsert DEF EnsureChat
  <2>3. CASE UNCHANGED <<dbVars, auxVars>>
    <3>1. Requests' /\ pc' \in [Thread -> Steps]
      BY <1>6, <2>1, <2>3, LocalStep DEF EnsureChat, DbInv
    <3>2. TypeOK'
      BY <1>6, <2>3, <3>1 DEF EnsureChat, DbInv, TypeOK
    <3> QED
      BY <2>3, <3>1, <3>2, QuietStep
  <2> QED
    BY <1>6, <2>2, <2>3 DEF EnsureChat
<1>7. CASE InsertMember(t)
  <2>1. pc[t] \in CreateSteps \cup SendSteps /\ "insertMessage" \in CreateSteps \cup SendSteps
    BY <1>7 DEF InsertMember, SendSteps
  <2> QED
    BY <1>7, <1>u, <2>1, JoinInsert DEF InsertMember
<1>8. CASE InsertMessage(t)
  <2> DEFINE c == IF ChatRow(chat[t]) \in session THEN chat[t] ELSE NoChat
             r == MessageRow(nextId.messages, c, user[t])
  <2>1. nextId.chats \in Nat /\ nextId.users \in Nat /\ nextId.messages \in Nat
    BY DEF DbInv, TypeOK
  <2>2. c \in Nat /\ (c # NoChat => ChatRow(c) \in session)
    BY <1>u DEF NoChat
  <2>3. /\ r \in Row /\ r.table = "messages" /\ r.id = nextId.messages
        /\ r.user = user[t] /\ r.chat = c
    <3> HIDE DEF c
    <3>1. ASSUME NEW i \in Nat, NEW d \in Nat, NEW u \in Nat
          PROVE  /\ MessageRow(i, d, u) \in Row
                 /\ MessageRow(i, d, u).table = "messages" /\ MessageRow(i, d, u).id = i
                 /\ MessageRow(i, d, u).user = u /\ MessageRow(i, d, u).chat = d
      BY RowTypes
    <3>2. nextId.messages \in Nat /\ c \in Nat /\ user[t] \in Nat
      BY <1>u, <2>1, <2>2
    <3> QED
      BY <3>1, <3>2
  <2>4. r \notin session
    BY <2>1, <2>3 DEF DbInv, FreshIds
  <2>5. /\ nextId' \in [users : Nat, chats : Nat, messages : Nat]
        /\ nextId'.users = nextId.users /\ nextId'.chats = nextId.chats
        /\ nextId'.messages = nextId.messages + 1
        /\ lastInsertId' \in Nat
    BY <1>8, <2>1 DEF InsertMessage, DbInv, TypeOK
  <2>6. pc[t] \in CreateSteps \cup SendSteps /\ "commitMessage" \in CreateSteps \cup SendSteps
    BY <1>8 DEF InsertMessage, SendSteps
  <2>7. UserRow(user[t]) \in session /\ Insert(t, r) /\ Goto(t, "commitMessage")
    BY <1>8 DEF InsertMessage
  <2>8. UNCHANGED <<autocommit, acked, undone, exposed, user, chat, requests, told, idRaced>>
    BY <1>8 DEF InsertMessage
  <2> HIDE DEF r, c
  <2> QED
    BY <2>1, <2>2, <2>3, <2>4, <2>5, <2>6, <2>7, <2>8, ChatInsert
<1>9. CASE QueryReceiver(t)
  <2>1. "idle" \in Steps /\ "idle" \notin CreateSteps \cup SendSteps \cup AfterCommit
    BY DEF Steps, CreateSteps, SendSteps, AfterCommit
  <2>2. Requests' /\ pc' \in [Thread -> Steps]
    BY <1>9, <2>1, LocalStep DEF QueryReceiver, DbInv
  <2>3. TypeOK'
    BY <1>9, <2>2 DEF QueryReceiver, DbInv, TypeOK
  <2> QED
    BY <1>9, <2>2, <2>3, QuietStep DEF QueryReceiver
<1>10. CASE Commit(t)
  <2> USE <1>10 DEF Commit, Goto
  <2>1. TypeOK'
    BY DEF DbInv, TypeOK, Steps, AfterCommit
  <2>2. Durability' /\ Consistent' /\ FreshIds'
    BY DEF DbInv, Durability, Consistent, FreshIds
  <2>3. ASSUME NEW s \in Thread PROVE RequestInv(s)'
    <3>1. exposed'[s] /\ own'[s] = own[s] /\ undone'[s] = undone[s] /\ autocommit' = autocommit
      OBVIOUS
    <3>2. /\ pc'[s] # "idle" => pc[s] # "idle"
          /\ pc'[s] \in CreateSteps \cup SendSteps => pc[s] \in CreateSteps \cup SendSteps
      BY DEF DbInv, TypeOK, CreateSteps, SendSteps
    <3>3. committed' = session /\ session' = session
      OBVIOUS
    <3>4. pc'[s] \in AfterCommit => pc'[s] # "idle"
      BY DEF AfterCommit
    <3> QED
      BY <3>1, <3>2, <3>3, <3>4 DEF DbInv, Requests, RequestInv
  <2> QED
    BY <2>1, <2>2, <2>3 DEF DbInv, Requests
<1>11. CASE Throw(t)
  <2>1. /\ "rollback" \in Steps /\ "rollback" \notin CreateSteps \cup SendSteps \cup AfterCommit
        /\ pc[t] # "idle"
    BY <1>11 DEF Throw, Steps, CreateSteps, SendSteps, AfterCommit
  <2>2. Requests' /\ pc' \in [Thread -> Steps]
    BY <1>11, <2>1, LocalStep DEF Throw, DbInv
  <2>3. TypeOK'
    BY <1>11, <2>2 DEF Throw, DbInv, TypeOK
  <2> QED
    BY <1>11, <2>2, <2>3, QuietStep DEF Throw
<1>12. CASE Rollback(t)
  <2> USE <1>12 DEF Rollback, Goto
  <2>1. TypeOK'
    BY DEF DbInv, TypeOK, Steps
  <2>2. Durability' /\ Consistent' /\ FreshIds'
    BY DEF DbInv, Durability, Consistent, FreshIds
  <2>3. ASSUME NEW s \in Thread PROVE RequestInv(s)'
    <3>1. CASE s = t
      BY <3>1 DEF DbInv, TypeOK, RequestInv, CreateSteps, SendSteps, AfterCommit
    <3>2. CASE s # t
      <4>1. /\ pc'[s] = pc[s] /\ own'[s] = own[s] /\ exposed'[s] = exposed[s]
            /\ undone'[s] = (undone[s] \/ pc[s] \notin AfterCommit)
        BY <3>2 DEF DbInv, TypeOK
      <4> QED
        BY <4>1 DEF DbInv, Requests, RequestInv
    <3> QED
      BY <3>1, <3>2
  <2> QED
    BY <2>1, <2>2, <2>3 DEF DbInv, Requests
<1> QED
  BY <1>1, <1>2, <1>3, <1>4, <1>5, <1>6, <1>7, <1>8, <1>9, <1>10, <1>11, <1>12 DEF Handler

\* A registration, which inserts outside any transaction of its own.
LEMMA AddUserStep == ASSUME DbInv, NEW t \in Thread, AddUser(t) PROVE DbInv'
<1> DEFINE r == UserRow(nextId.users)
<1>1. nextId.chats \in Nat /\ nextId.users \in Nat /\ nextId.messages \in Nat
  BY DEF DbInv, TypeOK
<1>2. r \in Row /\ r.table = "users" /\ r.id = nextId.users
  BY <1>1, RowTypes
<1>3. r \notin session
  BY <1>1, <1>2 DEF DbInv, FreshIds
<1>4. /\ nextId' \in [users : Nat, chats : Nat, messages : Nat]
      /\ nextId'.chats = nextId.chats /\ nextId'.messages = nextId.messages
      /\ nextId'.users = nextId.users + 1
  BY <1>1 DEF AddUser, DbInv, TypeOK
<1>5. /\ session' = session \cup {r}
      /\ committed' = IF autocommit THEN session \cup {r} ELSE committed
      /\ acked' = acked \cup {[user |-> nextId.users, durable |-> autocommit]}
      /\ UNCHANGED <<autocommit, pc, own, undone, exposed>>
  BY DEF AddUser
<1>6. TypeOK'
  <2>1. requests' \in 0 .. MaxRequests
    BY DatabaseAssumption DEF AddUser, DbInv, TypeOK
  <2> QED
    BY <1>1, <1>2, <1>4, <1>5, <2>1 DEF AddUser, DbInv, TypeOK, localVars
<1>7. Consistent'
  <2>1. References(session \cup {r})
    BY <1>2, InsertConsistent DEF DbInv, Consistent
  <2> QED
    BY <1>5, <2>1 DEF DbInv, Consistent
<1>8. FreshIds'
  <2>1. ASSUME NEW q \in session
        PROVE  /\ q.table = "users" => q.id \in Nat /\ q.id < nextId'.users
               /\ q.table = "chats" => q.id \in Nat /\ q.id < nextId'.chats
               /\ q.table = "messages" => q.id \in Nat /\ q.id < nextId'.messages
    <3>1. q \in Row
      BY DEF DbInv, TypeOK
    <3>2. q.table \in {"users", "chats", "messages"} => q.id \in Nat
      BY <3>1 DEF Row
    <3> QED
      BY <1>1, <1>4, <3>2 DEF DbInv, FreshIds
  <2> QED
    BY <1>1, <1>2, <1>4, <1>5, <2>1 DEF FreshIds
<1>9. Durability'
  BY <1>5 DEF DbInv, Durability
<1>10. Requests'
  <2>1. ASSUME NEW s \in Thread PROVE RequestInv(s)'
    <3>1. own[s] \subseteq session => r \notin own[s]
      BY <1>3
    <3>2. committed' = committed \/ (committed' = committed \cup {r} /\ autocommit)
      BY <1>5 DEF DbInv, Durability
    <3>3. pc[s] # "idle" /\ ~exposed[s] => own[s] \cap committed' = {}
      <4>1. CASE committed' = committed
        BY <4>1 DEF DbInv, Requests, RequestInv
      <4>2. CASE committed' = committed \cup {r} /\ autocommit
        BY <4>2 DEF DbInv, Requests, RequestInv
      <4> QED
        BY <3>2, <4>1, <4>2
    <3>4. committed \subseteq committed' /\ session \subseteq session'
      BY <1>5, <3>2
    <3> QED
      BY <1>5, <3>3, <3>4 DEF DbInv, Requests, RequestInv
  <2> QED
    BY <2>1 DEF Requests
<1> QED
  BY <1>6, <1>7, <1>8, <1>9, <1>10 DEF DbInv

\* A restart loses what was not committed and every request in flight.
LEMMA RestartStep == ASSUME DbInv, Restart PROVE DbInv'
<1> USE DEF Restart
<1>1. TypeOK'
  BY DEF DbInv, TypeOK, Steps, NoChat
<1>2. Durability' /\ Consistent' /\ FreshIds'
  BY DEF DbInv, Durability, Consistent, FreshIds
<1>3. Requests'
  BY DEF Requests, RequestInv, CreateSteps, SendSteps, AfterCommit
<1> QED
  BY <1>1, <1>2, <1>3 DEF DbInv

----------------------------------------------------------------------------
LEMMA DbStep == DbInv /\ [Next]_vars => DbInv'
<1> SUFFICES ASSUME DbInv, [Next]_vars PROVE DbInv'
    OBVIOUS
<1>1. ASSUME NEW t \in Thread, Client(t) PROVE DbInv'
  <2>1. ASSUME NEW u \in KnownUsers, StartCreateChat(t, u) PROVE DbInv'
    BY <2>1, BeginStep DEF StartCreateChat, KnownUsers, NoChat, DbInv, TypeOK
  <2>2. ASSUME NEW known \in told, StartSendMessage(t, known[1], known[2]) PROVE DbInv'
    <3>1. known[1] \in Nat /\ known[2] \in Nat
      BY DEF DbInv, TypeOK
    <3> QED
      BY <2>2, <3>1, BeginStep DEF StartSendMessage
  <2> QED
    BY <1>1, <2>1, <2>2, AddUserStep DEF Client
<1>2. ASSUME NEW u \in KnownUsers, ListChats(u) PROVE DbInv'
  <2> USE <1>2 DEF ListChats, dbVars, localVars, auxVars
  <2>1. ListedChats(u) \subseteq Nat
    BY DEF ListedChats, DbInv, TypeOK, Row
  <2>2. u \in Nat
    BY DEF KnownUsers, DbInv, TypeOK
  <2>3. told' \in SUBSET (Nat \X Nat)
    BY <2>1, <2>2 DEF DbInv, TypeOK
  <2>4. TypeOK'
    BY <2>3 DEF DbInv, TypeOK
  <2>5. Requests'
    BY DEF DbInv, Requests, RequestInv
  <2> QED
    BY <2>4, <2>5, QuietStep
<1>3. CASE UNCHANGED vars
  BY <1>3 DEF vars, DbInv, TypeOK, FreshIds, Durability, Requests, RequestInv, Consistent
<1> QED
  BY <1>1, <1>2, <1>3, HandlerStep, RestartStep DEF Next

LEMMA DbInit == Init => DbInv
<1> SUFFICES ASSUME Init PROVE DbInv
    OBVIOUS
<1> USE DatabaseAssumption DEF Init
<1>1. /\ session = committed
      /\ committed \subseteq Row
      /\ \A r \in committed : r.table = "users" /\ r.id \in 1 .. InitialUsers
  BY RowTypes
<1>2. TypeOK
  <2>1. nextId \in [users : Nat, chats : Nat, messages : Nat] /\ requests \in 0 .. MaxRequests
    OBVIOUS
  <2>2. pc \in [Thread -> Steps] /\ own \in [Thread -> SUBSET Row]
    BY DEF Steps
  <2> QED
    BY <1>1, <2>1, <2>2 DEF TypeOK, NoChat
<1>3. FreshIds
  BY <1>1 DEF FreshIds
<1>4. Durability /\ Requests
  BY DEF Durability, Requests, RequestInv, CreateSteps, SendSteps, AfterCommit
<1>5. Consistent
  BY <1>1 DEF Consistent, References
<1> QED
  BY <1>2, <1>3, <1>4, <1>5 DEF DbInv

\* The inductive invariant holds in every reachable state.
THEOREM Invariance == Spec => []DbInv
BY DbInit, DbStep, PTL DEF Spec

\* Type correctness of every reachable state.
THEOREM Typing == Spec => []TypeOK
<1>1. DbInv => TypeOK
  BY DEF DbInv
<1> QED
  BY <1>1, Invariance, PTL

\* Whatever mixture of statements a commit saves, no row on disk refers to a
\* user or chat that is missing.
THEOREM DiskConsistent == Spec => []CommittedConsistent
<1>1. DbInv => CommittedConsistent
  BY DEF DbInv, Consistent, CommittedConsistent
<1> QED
  BY <1>1, Invariance, PTL

\* A registration acknowledged while autocommit was on is on disk for good.
THEOREM RegistrationsDurable == Spec => []RegistrationDurable
<1>1. DbInv => RegistrationDurable
  BY DEF DbInv, Durability, RegistrationDurable
<1> QED
  BY <1>1, Invariance, PTL

\* A request past its commit is on disk unless another thread rolled back.
THEOREM CommitsDurable == Spec => []CommitIsDurable
<1>1. DbInv => CommitIsDurable
  BY DEF DbInv, Requests, RequestInv, CommitIsDurable
<1> QED
  BY <1>1, Invariance, PTL

\* A failed request leaves nothing on disk unless another thread committed.
THEOREM FailuresLeaveNothing == Spec => []FailureLeavesNothing
<1>1. DbInv => FailureLeavesNothing
  BY DEF DbInv, Requests, RequestInv, FailureLeavesNothing
<1> QED
  BY <1>1, Invariance, PTL

\* No step ever removes a row from the disk.
THEOREM DiskGrows == Spec => NothingLost
<1>1. DbInv /\ [Next]_vars => [committed \subseteq committed']_vars
  <2> SUFFICES ASSUME DbInv, Next PROVE committed \subseteq committed'
      BY DEF vars
  <2>1. committed \subseteq session
    BY DEF DbInv, Durability
  <2>2. ASSUME NEW t \in Thread, NEW r, Insert(t, r) PROVE committed \subseteq committed'
    BY <2>1, <2>2 DEF Insert
  <2>3. ASSUME NEW t \in Thread, Handler(t) PROVE committed \subseteq committed'
    BY <2>1, <2>2, <2>3 DEF Handler, InsertChat, InsertNewChat, ReadId, InsertSender,
       InsertReceiver, Join, ReplyChat, EnsureChat, InsertMember, InsertMessage, QueryReceiver,
       Commit, Throw, Rollback, dbVars
  <2>4. ASSUME NEW t \in Thread, Client(t) PROVE committed \subseteq committed'
    BY <2>1, <2>4 DEF Client, StartCreateChat, StartSendMessage, Begin, AddUser
  <2> QED
    BY <2>3, <2>4 DEF Next, ListChats, Restart, dbVars
<1> QED
  BY <1>1, Invariance, PTL DEF Spec, NothingLost

----------------------------------------------------------------------------
(* Personal chats stay personal: the chats, and who is or may become a     *)
(* member of them.                                                         *)

\* A request that has read the id of its new chat and not yet told it.
Creating(t) == pc[t] \in {"insertSender", "insertReceiver", "commitChat", "replyChat"}

Sending(t) == pc[t] \in SendSteps

\* Chats that somebody outside the creating handler knows of.
Addressed ==
    {r.chat : r \in {m \in session : m.table = "messages"}}
    \cup {p[2] : p \in told}
    \cup {chat[t] : t \in {s \in Thread : Sending(s)}}

Joined == {r.chat : r \in {m \in session : m.table = "users_chats"}}

\* The users who are, or may without further ado become, members of chat c.
Parties(c) ==
    MembersOf(c)
    \cup {p[1] : p \in {q \in told : q[2] = c}}
    \cup {user[t] : t \in {s \in Thread : Sending(s) /\ chat[s] = c}}

\* S has at most two elements.
NoThree(S) == \A a, b, d \in S : a = b \/ a = d \/ b = d

\* A chat row belongs to the one request that inserted it, and until that
\* request has read the id nobody else has anything to do with the chat.
OwnChat(t) ==
    /\ pc[t] = "insertChat" => own[t] = {}
    /\ \A r \in own[t] :
          r.table = "chats" =>
              /\ 1 <= r.id /\ r.id < nextId.chats
              /\ \A s \in Thread : r \in own[s] => s = t
              /\ pc[t] = "readId" => r.id \notin Addressed \cup Joined

\* A chat under creation is its request's own and a secret: nobody can send to
\* it, so that it has no members but the two the request inserts.
Creation(t) ==
    Creating(t) =>
        /\ ChatRow(chat[t]) \in own[t]
        /\ chat[t] \notin Addressed
        /\ pc[t] \in {"insertSender", "insertReceiver"} => MembersOf(chat[t]) \subseteq {user[t]}
        /\ NoThree(MembersOf(chat[t]) \cup {user[t]})

\* AUTO_INCREMENT never chooses an id that somebody has seen.
KnownChats ==
    /\ nextId.chats >= 1
    /\ \A c \in Addressed \cup Joined : c < nextId.chats

\* No chat has three users who are, or may become, members of it.
Pairs == \A c \in Addressed \cup Joined : NoThree(Parties(c))

ChatsInOrder ==
    /\ \A t \in Thread : OwnChat(t) /\ Creation(t)
    /\ KnownChats
    /\ Pairs

\* The invariant behind PersonalChatPair.
PairInv == ~idRaced => ChatsInOrder

----------------------------------------------------------------------------
\* Nobody has anything to do with a chat that is not known.
LEMMA NoParties ==
    ASSUME NEW c, c \notin Addressed \cup Joined
    PROVE  Parties(c) = {} /\ MembersOf(c) = {}
BY DEF Parties, MembersOf, Addressed, Joined

\* A chat row is determined by its id.
LEMMA ChatRows ==
    /\ \A r \in Row : r.table = "chats" => r = ChatRow(r.id) /\ r.id \in Nat
    /\ \A r \in Row : r.table \in {"users_chats", "messages"} => r.chat \in Nat /\ r.user \in Nat
    /\ \A c \in Nat : ChatRow(c).id = c /\ ChatRow(c).table = "chats"
BY DEF Row, ChatRow

\* A step that makes no chat known, adds nobody to a chat that is being
\* created and gives no chat a party it did not have.
LEMMA KeepPairs ==
    ASSUME TypeOK, ChatsInOrder,
           nextId'.chats \in Nat, nextId'.chats >= nextId.chats,
           Addressed' \subseteq Addressed \cup {NoChat},
           Joined' \subseteq Addressed \cup Joined,
           \A c : Parties(c)' \subseteq Parties(c),
           \A c : c \notin Addressed => MembersOf(c)' \subseteq MembersOf(c),
           \A s \in Thread : \A r \in own'[s] : r.table = "chats" => r \in own[s],
           \A s \in Thread :
              /\ pc'[s] = "insertChat" => own'[s] = {}
              /\ pc'[s] = "readId" => pc[s] = "readId"
              /\ Creating(s)' =>
                    /\ Creating(s) /\ own'[s] = own[s]
                    /\ chat'[s] = chat[s] /\ user'[s] = user[s]
              /\ pc'[s] \in {"insertSender", "insertReceiver"} =>
                    pc[s] \in {"insertSender", "insertReceiver"}
    PROVE  ChatsInOrder'
<1>1. nextId.chats \in Nat /\ nextId.chats >= 1
  BY DEF TypeOK, ChatsInOrder, KnownChats
<1>2. KnownChats'
  <2>1. \A d \in Addressed \cup Joined : d \in Nat
    BY ChatRows DEF Addressed, Joined, TypeOK
  <2> QED
    BY <1>1, <2>1 DEF ChatsInOrder, KnownChats, NoChat
<1>3. Pairs'
  <2>1. ASSUME NEW c PROVE NoThree(Parties(c)')
    <3>1. NoThree(Parties(c))
      BY NoParties DEF ChatsInOrder, Pairs, NoThree
    <3> QED
      BY <3>1 DEF NoThree
  <2> QED
    BY <2>1 DEF Pairs, NoThree
<1>4. ASSUME NEW s \in Thread PROVE OwnChat(s)'
  <2>1. ASSUME NEW r \in own'[s], r.table = "chats"
        PROVE  /\ 1 <= r.id /\ r.id < nextId'.chats
               /\ \A q \in Thread : r \in own'[q] => q = s
               /\ pc'[s] = "readId" => r.id \notin Addressed' \cup Joined'
    <3>1. r \in own[s]
      BY <2>1
    <3>2. r.id \in Nat
      BY <2>1, <3>1, ChatRows DEF TypeOK
    <3>3. OwnChat(s)
      BY DEF ChatsInOrder
    <3> QED
      BY <1>1, <2>1, <3>1, <3>2, <3>3 DEF OwnChat, NoChat
  <2> QED
    BY <2>1 DEF OwnChat
<1>5. ASSUME NEW s \in Thread, Creating(s)'
      PROVE  /\ ChatRow(chat'[s]) \in own'[s]
             /\ chat'[s] \notin Addressed'
             /\ pc'[s] \in {"insertSender", "insertReceiver"} =>
                   MembersOf(chat[s])' \subseteq {user'[s]}
             /\ NoThree(MembersOf(chat[s])' \cup {user'[s]})
  <2>1. /\ Creating(s) /\ own'[s] = own[s] /\ chat'[s] = chat[s] /\ user'[s] = user[s]
    BY <1>5
  <2>2. Creation(s) /\ OwnChat(s) /\ chat[s] \in Nat
    BY DEF ChatsInOrder, TypeOK
  <2>3. chat[s] # NoChat
    BY <2>1, <2>2, ChatRows DEF Creation, OwnChat, NoChat
  <2>4. MembersOf(chat[s])' \subseteq MembersOf(chat[s])
    BY <2>1, <2>2 DEF Creation
  <2> QED
    BY <1>5, <2>1, <2>2, <2>3, <2>4 DEF Creation, NoThree
<1>6. \A s \in Thread : Creation(s)'
  BY <1>5 DEF Creation
<1> QED
  BY <1>2, <1>3, <1>4, <1>6 DEF ChatsInOrder

\* A step of thread t that concerns the new chat c, of no other request.
LEMMA NewChatStep ==
    ASSUME TypeOK, ChatsInOrder, NEW t \in Thread, NEW c \in Nat,
           nextId'.chats \in Nat, nextId'.chats >= nextId.chats,
           1 <= c, c < nextId'.chats,
           Addressed' \subseteq Addressed \cup {c},
           Joined' \subseteq Joined \cup {c},
           \A d : d # c => Parties(d)' \subseteq Parties(d)
                           /\ MembersOf(d)' \subseteq MembersOf(d),
           NoThree(Parties(c)'),
           \A s \in Thread : ChatRow(c) \in own[s] => s = t,
           \A s \in Thread : s # t =>
              /\ pc'[s] = pc[s] /\ chat'[s] = chat[s] /\ user'[s] = user[s]
              /\ own'[s] = own[s],
           \A r \in own'[t] : r.table = "chats" => r \in own[t] \cup {ChatRow(c)},
           pc'[t] # "insertChat",
           pc'[t] = "readId" => own[t] = {} /\ c \notin Addressed' \cup Joined',
           Creating(t)' =>
              /\ chat'[t] = c /\ ChatRow(c) \in own'[t] /\ c \notin Addressed'
              /\ pc'[t] \in {"insertSender", "insertReceiver"} =>
                    MembersOf(c)' \subseteq {user'[t]}
              /\ NoThree(MembersOf(c)' \cup {user'[t]})
    PROVE  ChatsInOrder'
<1>1. nextId.chats \in Nat /\ nextId.chats >= 1
  BY DEF TypeOK, ChatsInOrder, KnownChats
<1>2. KnownChats'
  <2>1. \A d \in Addressed \cup Joined : d \in Nat
    BY ChatRows DEF Addressed, Joined, TypeOK
  <2> QED
    BY <1>1, <2>1 DEF ChatsInOrder, KnownChats
<1>3. Pairs'
  <2>1. ASSUME NEW d PROVE NoThree(Parties(d)')
    <3>1. NoThree(Parties(d))
      BY NoParties DEF ChatsInOrder, Pairs, NoThree
    <3> QED
      BY <3>1 DEF NoThree
  <2> QED
    BY <2>1 DEF Pairs, NoThree
<1>4. \A s \in Thread : \A r \in own[s] : r.table = "chats" /\ r.id = c => s = t
  BY ChatRows DEF TypeOK
<1>5. ASSUME NEW s \in Thread PROVE OwnChat(s)'
  <2>0. OwnChat(s)
    BY DEF ChatsInOrder
  <2>1. CASE s # t
    <3>1. ASSUME NEW r \in own'[s], r.table = "chats"
          PROVE  /\ 1 <= r.id /\ r.id < nextId'.chats
                 /\ \A q \in Thread : r \in own'[q] => q = s
                 /\ pc'[s] = "readId" => r.id \notin Addressed' \cup Joined'
      <4>1. r \in own[s] /\ r.id \in Nat /\ r.id # c /\ r # ChatRow(c)
        BY <1>4, <2>1, <3>1, ChatRows DEF TypeOK
      <4>2. \A q \in Thread : r \in own'[q] => r \in own[q]
        BY <3>1, <4>1
      <4> QED
        BY <1>1, <2>0, <2>1, <3>1, <4>1, <4>2 DEF OwnChat
    <3> QED
      BY <2>0, <2>1, <3>1 DEF OwnChat
  <2>2. CASE s = t
    <3>1. ASSUME NEW r \in own'[t], r.table = "chats"
          PROVE  /\ 1 <= r.id /\ r.id < nextId'.chats
                 /\ \A q \in Thread : r \in own'[q] => q = t
                 /\ pc'[t] = "readId" => r.id \notin Addressed' \cup Joined'
      <4>1. CASE r = ChatRow(c)
        BY <4>1, ChatRows
      <4>2. CASE r # ChatRow(c)
        <5>1. r \in own[t]
          BY <3>1, <4>2
        <5>2. r.id \in Nat
          BY <3>1, <5>1, ChatRows DEF TypeOK
        <5> QED
          BY <1>1, <2>0, <2>2, <3>1, <5>1, <5>2 DEF OwnChat
      <4> QED
        BY <4>1, <4>2
    <3> QED
      BY <2>2, <3>1 DEF OwnChat
  <2> QED
    BY <2>1, <2>2
<1>6. ASSUME NEW s \in Thread PROVE Creation(s)'
  <2>1. CASE s # t
    <3>1. Creation(s) /\ Creating(s)' = Creating(s)
      BY <2>1 DEF ChatsInOrder, Creating
    <3>2. Creating(s) => chat[s] # c
      BY <1>4, <2>1, <3>1, ChatRows DEF Creation, TypeOK
    <3>3. ASSUME NEW d, d = chat[s], d # c
          PROVE  MembersOf(chat[s])' \subseteq MembersOf(chat[s])
      <4>1. MembersOf(d)' \subseteq MembersOf(d)
        BY <3>3
      <4> QED
        BY <2>1, <3>3, <4>1 DEF MembersOf
    <3> QED
      BY <2>1, <3>1, <3>2, <3>3 DEF Creation, NoThree
  <2>2. CASE s = t
    BY <2>2 DEF Creation
  <2> QED
    BY <2>1, <2>2
<1> QED
  BY <1>2, <1>3, <1>5, <1>6 DEF ChatsInOrder

----------------------------------------------------------------------------
\* What a step that neither joins nor tells anybody does to the sets of chats.
LEMMA SetsKept ==
    ASSUME TypeOK, \A r \in session' : r \in session \/ r.table \in {"users", "chats"},
           told' = told,
           \A s \in Thread :
              Sending(s)' => \/ Sending(s) /\ user'[s] = user[s] /\ chat'[s] = chat[s]
                             \/ <<user'[s], chat'[s]>> \in told
    PROVE  /\ Addressed' \subseteq Addressed /\ Joined' \subseteq Joined
           /\ \A c : Parties(c)' \subseteq Parties(c) /\ MembersOf(c)' \subseteq MembersOf(c)
<1>1. Joined' \subseteq Joined /\ \A c : MembersOf(c)' \subseteq MembersOf(c)
  BY DEF Joined, MembersOf
<1>2. \A s \in Thread : Sending(s)' =>
         \/ Sending(s) /\ chat'[s] = chat[s]
         \/ \E p \in told : p[2] = chat'[s]
  OBVIOUS
<1>3. Addressed' \subseteq Addressed
  BY <1>2 DEF Addressed
<1>4. ASSUME NEW c PROVE Parties(c)' \subseteq Parties(c)
  <2>1. \A s \in Thread : Sending(s)' /\ chat'[s] = c =>
           \/ Sending(s) /\ chat[s] = c /\ user'[s] = user[s]
           \/ \E p \in told : p[2] = c /\ p[1] = user'[s]
    OBVIOUS
  <2> QED
    BY <1>1, <2>1 DEF Parties
<1> QED
  BY <1>1, <1>3, <1>4

\* Handlers that send do not create.
LEMMA StepNames ==
    /\ \A s \in SendSteps : s \notin {"insertChat", "readId", "insertSender", "insertReceiver",
                                      "commitChat", "replyChat"}
    /\ {"ensureChat", "insertMember", "insertMessage", "commitMessage"} = SendSteps
BY DEF SendSteps

\* A new request creates a chat, or sends to one its client was told of.
LEMMA BeginPairs ==
    ASSUME TypeOK, TypeOK', ChatsInOrder, NEW t \in Thread,
           NEW first \in {"insertChat", "ensureChat"}, NEW u \in Nat, NEW c \in Nat,
           first = "ensureChat" => <<u, c>> \in told, Begin(t, first, u, c)
    PROVE  ChatsInOrder'
<1> USE DEF Begin, Goto
<1>1. /\ session' = session /\ told' = told /\ nextId' = nextId
      /\ \A s \in Thread : s # t => /\ pc'[s] = pc[s] /\ user'[s] = user[s]
                                    /\ chat'[s] = chat[s] /\ own'[s] = own[s]
      /\ user'[t] = u /\ chat'[t] = c /\ own'[t] = {} /\ pc'[t] \in {first, "rollback"}
  BY DEF TypeOK
<1>2. \A s \in Thread : Sending(s)' =>
         \/ Sending(s) /\ user'[s] = user[s] /\ chat'[s] = chat[s]
         \/ <<user'[s], chat'[s]>> \in told
  BY <1>1 DEF Sending, SendSteps
<1>3. /\ Addressed' \subseteq Addressed /\ Joined' \subseteq Joined
      /\ \A d : Parties(d)' \subseteq Parties(d) /\ MembersOf(d)' \subseteq MembersOf(d)
  BY <1>1, <1>2, SetsKept
<1>4. \A s \in Thread :
         /\ pc'[s] = "insertChat" => own'[s] = {}
         /\ pc'[s] = "readId" => pc[s] = "readId"
         /\ Creating(s)' => /\ Creating(s) /\ own'[s] = own[s]
                            /\ chat'[s] = chat[s] /\ user'[s] = user[s]
         /\ pc'[s] \in {"insertSender", "insertReceiver"} =>
               pc[s] \in {"insertSender", "insertReceiver"}
         /\ \A r \in own'[s] : r \in own[s]
  BY <1>1 DEF Creating, ChatsInOrder, OwnChat
<1>5. nextId'.chats \in Nat /\ nextId'.chats >= nextId.chats
  BY <1>1 DEF TypeOK
<1> QED
  BY <1>3, <1>4, <1>5, KeepPairs

\* Thread t goes on or gives up and inserts no chat and no member.
LEMMA MovePairs ==
    ASSUME TypeOK, ChatsInOrder, NEW t \in Thread, NEW step, Goto(t, step),
           step \notin {"insertChat", "readId", "insertSender", "insertReceiver", "commitChat"},
           Creating(t)' => Creating(t), Sending(t)' => Sending(t),
           session' \subseteq session,
           UNCHANGED <<nextId, user, chat, told, own>>
    PROVE  ChatsInOrder'
<1>1. /\ \A s \in Thread : s # t => pc'[s] = pc[s]
      /\ pc'[t] = step
  BY DEF Goto, TypeOK
<1>2. \A s \in Thread : Sending(s)' => Sending(s)
  BY <1>1 DEF Sending
<1>3. /\ Addressed' \subseteq Addressed /\ Joined' \subseteq Joined
      /\ \A d : Parties(d)' \subseteq Parties(d) /\ MembersOf(d)' \subseteq MembersOf(d)
  BY <1>2, SetsKept
<1>4. \A s \in Thread :
         /\ pc'[s] = "insertChat" => own'[s] = {}
         /\ pc'[s] = "readId" => pc[s] = "readId"
         /\ Creating(s)' => Creating(s)
         /\ pc'[s] \in {"insertSender", "insertReceiver"} =>
               pc[s] \in {"insertSender", "insertReceiver"}
  BY <1>1 DEF Creating, ChatsInOrder, OwnChat
<1>5. nextId'.chats \in Nat /\ nextId'.chats >= nextId.chats
  BY DEF TypeOK
<1> QED
  BY <1>3, <1>4, <1>5, KeepPairs

\* Sender t joins the chat whose id it was told.
LEMMA InsertMemberPairs ==
    ASSUME TypeOK, ChatsInOrder, NEW t \in Thread, InsertMember(t)
    PROVE  ChatsInOrder'
<1> USE DEF InsertMember, Goto, localVars, Join
<1> DEFINE r == MemberRow(user[t], chat[t])
<1>1. /\ session' = session \/ session' = session \cup {r}
      /\ \A s \in Thread : own'[s] = own[s] \/ own'[s] = own[s] \cup {r}
      /\ \A s \in Thread : s # t => own'[s] = own[s] /\ pc'[s] = pc[s]
      /\ pc[t] = "insertMember" /\ pc'[t] = "insertMessage"
      /\ UNCHANGED <<nextId, user, chat, told>>
  BY DEF TypeOK, Insert
<1>2. /\ r.table = "users_chats" /\ r.user = user[t] /\ r.chat = chat[t]
  BY DEF MemberRow
<1>3. Sending(t) /\ \A s \in Thread : Sending(s)' = Sending(s)
  BY <1>1, StepNames DEF Sending
<1> HIDE DEF r, InsertMember
<1>4. Addressed' \subseteq Addressed /\ chat[t] \in Addressed
  BY <1>1, <1>2, <1>3 DEF Addressed
<1>5. Joined' \subseteq Addressed \cup Joined
  BY <1>1, <1>2, <1>4 DEF Joined
<1>6. ASSUME NEW c PROVE c # chat[t] => MembersOf(c)' \subseteq MembersOf(c)
  BY <1>1, <1>2 DEF MembersOf
<1>7. ASSUME NEW c PROVE Parties(c)' \subseteq Parties(c)
  <2>1. MembersOf(c)' \subseteq MembersOf(c) \cup {user[s] : s \in {q \in Thread : Sending(q) /\ chat[q] = c}}
    BY <1>1, <1>2, <1>3 DEF MembersOf
  <2> QED
    BY <1>1, <1>3, <2>1 DEF Parties
<1>8. \A s \in Thread :
         /\ pc'[s] = "insertChat" => own'[s] = {}
         /\ pc'[s] = "readId" => pc[s] = "readId"
         /\ Creating(s)' => Creating(s) /\ own'[s] = own[s]
         /\ pc'[s] \in {"insertSender", "insertReceiver"} =>
               pc[s] \in {"insertSender", "insertReceiver"}
         /\ \A q \in own'[s] : q.table = "chats" => q \in own[s]
  BY <1>1, <1>2 DEF Creating, ChatsInOrder, OwnChat
<1>9. nextId'.chats \in Nat /\ nextId'.chats >= nextId.chats
  BY <1>1 DEF TypeOK
<1> QED
  BY <1>1, <1>4, <1>5, <1>6, <1>7, <1>8, <1>9, KeepPairs

\* Sender t stores a message in its chat, or in no chat at all.
LEMMA InsertMessagePairs ==
    ASSUME TypeOK, ChatsInOrder, NEW t \in Thread, InsertMessage(t)
    PROVE  ChatsInOrder'
<1> USE DEF InsertMessage, Goto, localVars
<1> DEFINE c == IF ChatRow(chat[t]) \in session THEN chat[t] ELSE NoChat
           r == MessageRow(nextId.messages, c, user[t])
<1>1. /\ session' = session \cup {r}
      /\ \A s \in Thread : own'[s] = own[s] \/ own'[s] = own[s] \cup {r}
      /\ \A s \in Thread : s # t => own'[s] = own[s] /\ pc'[s] = pc[s]
      /\ pc[t] = "insertMessage" /\ pc'[t] = "commitMessage"
      /\ UNCHANGED <<user, chat, told>>
  BY DEF TypeOK, Insert
<1>2. r.table = "messages" /\ r.chat = c
  BY DEF MessageRow
<1>3. c \in {chat[t], NoChat}
  OBVIOUS
<1>4. nextId'.chats \in Nat /\ nextId'.chats >= nextId.chats
  BY DEF TypeOK
<1> HIDE DEF r, c, InsertMessage
<1>5. Sending(t) /\ \A s \in Thread : Sending(s)' = Sending(s)
  BY <1>1, StepNames DEF Sending
<1>6. Addressed' \subseteq Addressed \cup {NoChat}
  BY <1>1, <1>2, <1>3, <1>5 DEF Addressed
<1>7. Joined' \subseteq Joined /\ \A d : MembersOf(d)' \subseteq MembersOf(d)
  BY <1>1, <1>2 DEF Joined, MembersOf
<1>8. \A d : Parties(d)' \subseteq Parties(d)
  BY <1>1, <1>5, <1>7 DEF Parties
<1>9. \A s \in Thread :
         /\ pc'[s] = "insertChat" => own'[s] = {}
         /\ pc'[s] = "readId" => pc[s] = "readId"
         /\ Creating(s)' => Creating(s) /\ own'[s] = own[s]
         /\ pc'[s] \in {"insertSender", "insertReceiver"} =>
               pc[s] \in {"insertSender", "insertReceiver"}
         /\ \A q \in own'[s] : q.table = "chats" => q \in own[s]
  BY <1>1, <1>2 DEF Creating, ChatsInOrder, OwnChat
<1> QED
  BY <1>1, <1>4, <1>6, <1>7, <1>8, <1>9, KeepPairs

\* Listing tells a user the chats that he is a member of already.
LEMMA ListChatsPairs ==
    ASSUME TypeOK, ChatsInOrder, NEW u, ListChats(u)
    PROVE  ChatsInOrder'
<1> USE DEF ListChats, dbVars, localVars, auxVars
<1>1. /\ told' = told \cup {<<u, c>> : c \in ListedChats(u)}
      /\ UNCHANGED <<session, nextId, pc, user, chat, own>>
  OBVIOUS
<1>2. \A s \in Thread : Sending(s)' = Sending(s) /\ Creating(s)' = Creating(s)
  BY <1>1 DEF Sending, Creating
<1>3. \A c \in ListedChats(u) : c \in Addressed /\ u \in MembersOf(c)
  <2>1. ASSUME NEW c \in ListedChats(u) PROVE c \in Addressed
    BY <2>1 DEF ListedChats, Addressed
  <2>2. ASSUME NEW c \in ListedChats(u) PROVE u \in MembersOf(c)
    <3>1. MemberRow(u, c) \in session
      BY <2>2 DEF ListedChats
    <3> QED
      BY <3>1 DEF MembersOf, MemberRow
  <2> QED
    BY <2>1, <2>2
<1> HIDE DEF ListChats
<1>4. Addressed' \subseteq Addressed
  <2>1. \A p \in told' : p \in told \/ p[2] \in Addressed
    BY <1>1, <1>3
  <2> QED
    BY <1>1, <1>2, <2>1 DEF Addressed
<1>5. Joined' = Joined /\ \A c : MembersOf(c)' = MembersOf(c)
  BY <1>1 DEF Joined, MembersOf
<1>6. ASSUME NEW c PROVE Parties(c)' \subseteq Parties(c)
  <2>1. \A p \in told' : p[2] = c => p \in told \/ p[1] \in MembersOf(c)
    BY <1>1, <1>3
  <2> QED
    BY <1>1, <1>2, <1>5, <2>1 DEF Parties
<1>7. \A s \in Thread : pc'[s] = "insertChat" => own'[s] = {}
  BY <1>1 DEF ChatsInOrder, OwnChat
<1>8. nextId'.chats \in Nat /\ nextId'.chats >= nextId.chats
  BY <1>1 DEF TypeOK
<1> QED
  BY <1>1, <1>2, <1>4, <1>5, <1>6, <1>7, <1>8, KeepPairs

\* A new chat gets an id that nobody knows, has joined or owns.
LEMMA InsertNewChatPairs ==
    ASSUME TypeOK, ChatsInOrder, NEW t \in Thread, InsertNewChat(t), NEW step,
           \/ pc[t] = "insertChat" /\ step = "readId"
           \/ pc[t] = "ensureChat" /\ step = "insertMember",
           Goto(t, step), UNCHANGED <<user, chat, told>>
    PROVE  ChatsInOrder'
<1>0. PICK c \in Nat : c = nextId.chats
  BY DEF TypeOK
<1>1. /\ session' = session \cup {ChatRow(c)}
      /\ own'[t] = own[t] \cup {ChatRow(c)}
      /\ \A s \in Thread : s # t => own'[s] = own[s] /\ pc'[s] = pc[s]
      /\ pc'[t] = step
      /\ nextId'.chats = c + 1
  BY <1>0 DEF InsertNewChat, Insert, Goto, TypeOK
<1>2. ChatRow(c).table = "chats" /\ ChatRow(c).id = c
  BY <1>1, ChatRows
<1>3. \A s \in Thread : Sending(s)' => Sending(s)
  BY <1>1, StepNames DEF Sending
<1>4. /\ Addressed' \subseteq Addressed /\ Joined' \subseteq Joined
      /\ \A d : Parties(d)' \subseteq Parties(d) /\ MembersOf(d)' \subseteq MembersOf(d)
  BY <1>1, <1>2, <1>3, SetsKept
<1>5. c \notin Addressed \cup Joined /\ 1 <= c
  BY <1>0 DEF ChatsInOrder, KnownChats
<1>6. NoThree(Parties(c)')
  BY <1>4, <1>5, NoParties DEF NoThree
<1>7. \A s \in Thread : ChatRow(c) \notin own[s]
  BY <1>0, <1>2 DEF ChatsInOrder, OwnChat
<1>8. step = "readId" => own[t] = {}
  BY DEF ChatsInOrder, OwnChat
<1>9. pc'[t] # "insertChat" /\ ~Creating(t)'
  BY <1>1 DEF Creating
<1>10. nextId'.chats \in Nat /\ nextId'.chats >= nextId.chats /\ c < nextId'.chats
  BY <1>0, <1>1
<1> QED
  BY <1>1, <1>4, <1>5, <1>6, <1>7, <1>8, <1>9, <1>10, NewChatStep

\* Without a race the creating request reads the id of its own chat, which
\* nobody has heard of.
LEMMA ReadIdPairs ==
    ASSUME TypeOK, ChatsInOrder, NEW t \in Thread, ReadId(t), ~idRaced'
    PROVE  ChatsInOrder'
<1>0. PICK c \in Nat : c = lastInsertId
  BY DEF TypeOK
<1>1. /\ UNCHANGED <<session, nextId, user, told, own>>
      /\ \A s \in Thread : s # t => chat'[s] = chat[s] /\ pc'[s] = pc[s]
      /\ pc[t] = "readId" /\ pc'[t] = "insertSender" /\ chat'[t] = c
      /\ ChatRow(c) \in own[t]
  BY <1>0 DEF ReadId, Goto, TypeOK, dbVars
<1>2. /\ 1 <= c /\ c < nextId.chats /\ nextId.chats \in Nat
      /\ \A s \in Thread : ChatRow(c) \in own[s] => s = t
      /\ c \notin Addressed \cup Joined
  BY <1>1, ChatRows DEF ChatsInOrder, OwnChat, TypeOK
<1>3. \A s \in Thread : Sending(s)' => Sending(s) /\ s # t
  BY <1>1, StepNames DEF Sending
<1>4. /\ Addressed' \subseteq Addressed /\ Joined' \subseteq Joined
      /\ \A d : Parties(d)' \subseteq Parties(d) /\ MembersOf(d)' \subseteq MembersOf(d)
  BY <1>1, <1>3, SetsKept
<1>5. NoThree(Parties(c)') /\ MembersOf(c)' = {} /\ NoThree(MembersOf(c)' \cup {user'[t]})
  BY <1>2, <1>4, NoParties DEF NoThree
<1> QED
  BY <1>1, <1>2, <1>4, <1>5, NewChatStep

\* The two members of a chat join while its request is the only one to know it.
LEMMA CreatorJoins ==
    ASSUME TypeOK, ChatsInOrder, NEW t \in Thread, NEW u \in Nat, NEW c, c = chat[t],
           Join(t, u, c), NEW step, Goto(t, step),
           \/ pc[t] = "insertSender" /\ u = user[t] /\ step = "insertReceiver"
           \/ pc[t] = "insertReceiver" /\ step = "commitChat",
           UNCHANGED <<user, chat, told>>
    PROVE  ChatsInOrder'
<1> DEFINE r == MemberRow(u, c)
<1>1. /\ session' = session \/ session' = session \cup {r}
      /\ own'[t] = own[t] \/ own'[t] = own[t] \cup {r}
      /\ \A s \in Thread : s # t => own'[s] = own[s] /\ pc'[s] = pc[s]
      /\ pc'[t] = step
      /\ UNCHANGED nextId
  BY DEF Join, Insert, Goto, TypeOK
<1>2. /\ r.table = "users_chats" /\ r.user = u /\ r.chat = c
  BY DEF MemberRow
<1>3. c \in Nat /\ Creating(t) /\ Creation(t) /\ OwnChat(t)
  BY DEF TypeOK, Creating, ChatsInOrder
<1>4. /\ ChatRow(c) \in own[t] /\ c \notin Addressed
      /\ 1 <= c /\ c < nextId.chats /\ nextId.chats \in Nat
      /\ \A s \in Thread : ChatRow(c) \in own[s] => s = t
      /\ MembersOf(c) \subseteq {user[t]}
  BY <1>3, ChatRows DEF Creation, OwnChat, TypeOK
<1>5. \A s \in Thread : Sending(s)' => Sending(s)
  BY <1>1, StepNames DEF Sending
<1> HIDE DEF r
<1>6. Addressed' \subseteq Addressed /\ Joined' \subseteq Joined \cup {c}
  BY <1>1, <1>2, <1>5 DEF Addressed, Joined
<1>7. /\ \A d : d # c => MembersOf(d)' \subseteq MembersOf(d)
      /\ MembersOf(c)' \subseteq MembersOf(c) \cup {u}
  BY <1>1, <1>2 DEF MembersOf
<1>8. \A d : d # c => Parties(d)' \subseteq Parties(d)
  BY <1>5, <1>7 DEF Parties
<1>9. Parties(c)' = MembersOf(c)'
  BY <1>4, <1>6 DEF Parties, Addressed
<1>10. NoThree(MembersOf(c)' \cup {user'[t]})
  BY <1>4, <1>7 DEF NoThree
<1>11. step = "insertReceiver" => MembersOf(c)' \subseteq {user'[t]}
  BY <1>4, <1>7
<1>12. /\ \A q \in own'[t] : q.table = "chats" => q \in own[t]
       /\ ChatRow(c) \in own'[t]
  BY <1>1, <1>2, <1>4
<1>13. pc'[t] \notin {"insertChat", "readId"}
  BY <1>1
<1>14. Creating(t)' =>
          /\ chat'[t] = c /\ ChatRow(c) \in own'[t] /\ c \notin Addressed'
          /\ pc'[t] \in {"insertSender", "insertReceiver"} => MembersOf(c)' \subseteq {user'[t]}
          /\ NoThree(MembersOf(c)' \cup {user'[t]})
  BY <1>1, <1>4, <1>6, <1>10, <1>11, <1>12
<1>15. NoThree(Parties(c)')
  BY <1>9, <1>10 DEF NoThree
<1>16. nextId'.chats \in Nat /\ nextId'.chats >= nextId.chats /\ c < nextId'.chats
  BY <1>1, <1>4
<1> QED
  BY <1>1, <1>3, <1>4, <1>6, <1>7, <1>8, <1>12, <1>13, <1>14, <1>15, <1>16, NewChatStep

\* The creator is the first to be told of its chat, and is a party to it.
LEMMA ReplyChatPairs ==
    ASSUME TypeOK, ChatsInOrder, NEW t \in Thread, ReplyChat(t)
    PROVE  ChatsInOrder'
<1>0. PICK c \in Nat : c = chat[t]
  BY DEF TypeOK
<1>1. /\ UNCHANGED <<session, nextId, user, chat, own>>
      /\ \A s \in Thread : s # t => pc'[s] = pc[s]
      /\ pc[t] = "replyChat" /\ pc'[t] = "idle"
      /\ told' = told \cup {<<user[t], c>>}
  BY <1>0 DEF ReplyChat, Goto, TypeOK, dbVars, localVars, auxVars
<1>2. Creating(t) /\ Creation(t) /\ OwnChat(t)
  BY <1>1 DEF Creating, ChatsInOrder
<1>3. /\ ChatRow(c) \in own[t] /\ c \notin Addressed
      /\ 1 <= c /\ c < nextId.chats /\ nextId.chats \in Nat
      /\ \A s \in Thread : ChatRow(c) \in own[s] => s = t
      /\ NoThree(MembersOf(c) \cup {user[t]})
  BY <1>0, <1>2, ChatRows DEF Creation, OwnChat, TypeOK
<1>4. \A s \in Thread : Sending(s)' => Sending(s)
  BY <1>1, StepNames DEF Sending
<1>5. Addressed' \subseteq Addressed \cup {c} /\ Joined' = Joined
  BY <1>1, <1>4 DEF Addressed, Joined
<1>6. \A d : MembersOf(d)' = MembersOf(d)
  BY <1>1 DEF MembersOf
<1>7. \A d : d # c => Parties(d)' \subseteq Parties(d)
  BY <1>1, <1>4, <1>6 DEF Parties
<1>8. Parties(c)' \subseteq MembersOf(c) \cup {user[t]}
  BY <1>1, <1>3, <1>4, <1>6 DEF Parties, Addressed
<1>9. NoThree(Parties(c)')
  BY <1>3, <1>8 DEF NoThree
<1>10. ~Creating(t)' /\ pc'[t] \notin {"insertChat", "readId"}
  BY <1>1 DEF Creating
<1> QED
  BY <1>1, <1>3, <1>5, <1>6, <1>7, <1>9, <1>10, NewChatStep

\* A restart ends all creations; what clients were told stays.
LEMMA RestartPairs == ASSUME TypeOK, Durability, ChatsInOrder, Restart PROVE ChatsInOrder'
<1> USE DEF Restart
<1>1. session' \subseteq session /\ told' = told /\ nextId' = nextId
  BY DEF Durability
<1>2. \A s \in Thread : ~Sending(s)' /\ ~Creating(s)' /\ own'[s] = {} /\ pc'[s] = "idle"
  BY DEF Sending, SendSteps, Creating
<1>3. /\ Addressed' \subseteq Addressed /\ Joined' \subseteq Joined
      /\ \A d : Parties(d)' \subseteq Parties(d) /\ MembersOf(d)' \subseteq MembersOf(d)
  BY <1>1, <1>2, SetsKept
<1>4. nextId'.chats \in Nat /\ nextId'.chats >= nextId.chats
  BY <1>1 DEF TypeOK
<1> QED
  BY <1>2, <1>3, <1>4, KeepPairs

\* A registration has nothing to do with chats.
LEMMA AddUserPairs ==
    ASSUME TypeOK, ChatsInOrder, NEW t \in Thread, AddUser(t)
    PROVE  ChatsInOrder'
<1> USE DEF AddUser, localVars
<1>1. /\ session' = session \cup {UserRow(nextId.users)}
      /\ UNCHANGED <<pc, user, chat, told, own>>
      /\ nextId'.chats = nextId.chats
  BY DEF TypeOK
<1>2. \A s \in Thread : Sending(s)' = Sending(s) /\ Creating(s)' = Creating(s)
  BY <1>1 DEF Sending, Creating
<1>3. UserRow(nextId.users).table = "users"
  BY DEF UserRow
<1>4. /\ Addressed' \subseteq Addressed /\ Joined' \subseteq Joined
      /\ \A d : Parties(d)' \subseteq Parties(d) /\ MembersOf(d)' \subseteq MembersOf(d)
  BY <1>1, <1>2, <1>3, SetsKept
<1>5. \A s \in Thread : pc'[s] = "insertChat" => own'[s] = {}
  BY <1>1 DEF ChatsInOrder, OwnChat
<1>6. nextId'.chats \in Nat /\ nextId'.chats >= nextId.chats
  BY <1>1 DEF TypeOK
<1> QED
  BY <1>1, <1>2, <1>4, <1>5, <1>6, KeepPairs

\* One statement of a handler, in which no id was mistaken.
LEMMA HandlerPairs ==
    ASSUME DbInv, ChatsInOrder, NEW t \in Thread, Handler(t), ~idRaced'
    PROVE  ChatsInOrder'
<1> USE DEF dbVars, localVars, auxVars
<1>t. TypeOK /\ Durability /\ user[t] \in Nat /\ chat[t] \in Nat /\ KnownUsers \subseteq Nat
  BY DEF DbInv, TypeOK, KnownUsers
<1>1. CASE InsertChat(t)
  BY <1>1, <1>t, InsertNewChatPairs DEF InsertChat
<1>2. CASE ReadId(t)
  BY <1>2, <1>t, ReadIdPairs
<1>3. CASE InsertSender(t)
  BY <1>3, <1>t, CreatorJoins DEF InsertSender
<1>4. ASSUME NEW r \in KnownUsers, InsertReceiver(t, r) PROVE ChatsInOrder'
  BY <1>4, <1>t, CreatorJoins DEF InsertReceiver
<1>5. CASE ReplyChat(t)
  BY <1>5, <1>t, ReplyChatPairs
<1>6. CASE EnsureChat(t)
  <2>1. CASE InsertNewChat(t)
    BY <1>6, <1>t, <2>1, InsertNewChatPairs DEF EnsureChat
  <2>2. CASE UNCHANGED <<dbVars, auxVars>>
    <3>1. Sending(t) /\ ~Creating(t)'
      BY <1>6, <1>t DEF EnsureChat, Goto, Sending, SendSteps, Creating, TypeOK
    <3> QED
      BY <1>6, <1>t, <2>2, <3>1, MovePairs DEF EnsureChat
  <2> QED
    BY <1>6, <2>1, <2>2 DEF EnsureChat
<1>7. CASE InsertMember(t)
  BY <1>7, <1>t, InsertMemberPairs
<1>8. CASE InsertMessage(t)
  BY <1>8, <1>t, InsertMessagePairs
<1>9. CASE QueryReceiver(t)
  <2>1. ~Creating(t)' /\ ~Sending(t)'
    BY <1>9, <1>t DEF QueryReceiver, Goto, Sending, SendSteps, Creating, TypeOK
  <2> QED
    BY <1>9, <1>t, <2>1, MovePairs DEF QueryReceiver
<1>10. CASE Commit(t)
  <2>1. CASE pc[t] = "commitChat" /\ Goto(t, "replyChat")
    <3>1. Creating(t) /\ ~Sending(t)'
      BY <1>t, <2>1 DEF Goto, Sending, SendSteps, Creating, TypeOK
    <3> QED
      BY <1>10, <1>t, <2>1, <3>1, MovePairs DEF Commit
  <2>2. CASE pc[t] = "commitMessage" /\ Goto(t, "queryReceiver")
    <3>1. ~Creating(t)' /\ ~Sending(t)'
      BY <1>t, <2>2 DEF Goto, Sending, SendSteps, Creating, TypeOK
    <3> QED
      BY <1>10, <1>t, <2>2, <3>1, MovePairs DEF Commit
  <2> QED
    BY <1>10, <2>1, <2>2 DEF Commit
<1>11. CASE Throw(t)
  <2>1. ~Creating(t)' /\ ~Sending(t)'
    BY <1>11, <1>t DEF Throw, Goto, Sending, SendSteps, Creating, TypeOK
  <2> QED
    BY <1>11, <1>t, <2>1, MovePairs DEF Throw
<1>12. CASE Rollback(t)
  <2>1. ~Creating(t)' /\ ~Sending(t)'
    BY <1>12, <1>t DEF Rollback, Goto, Sending, SendSteps, Creating, TypeOK
  <2>2. session' \subseteq session
    BY <1>12, <1>t DEF Rollback, Durability
  <2> QED
    BY <1>12, <1>t, <2>1, <2>2, MovePairs DEF Rollback
<1> QED
  BY <1>1, <1>2, <1>3, <1>4, <1>5, <1>6, <1>7, <1>8, <1>9, <1>10, <1>11, <1>12 DEF Handler

LEMMA PairStep == DbInv /\ DbInv' /\ PairInv /\ [Next]_vars => PairInv'
<1> SUFFICES ASSUME DbInv, DbInv', PairInv, [Next]_vars, ~idRaced' PROVE ChatsInOrder'
    BY DEF PairInv
<1>1. TypeOK /\ TypeOK' /\ Durability
  BY DEF DbInv
<1>2. idRaced => idRaced'
  BY <1>1 DEF Next, vars, Handler, Client, InsertChat, InsertNewChat, ReadId, InsertSender,
     InsertReceiver, Join, ReplyChat, EnsureChat, InsertMember, InsertMessage, QueryReceiver,
     Commit, Throw, Rollback, StartCreateChat, StartSendMessage, Begin, AddUser, ListChats,
     Restart, dbVars, auxVars
<1>3. ChatsInOrder
  BY <1>2 DEF PairInv
<1>4. ASSUME NEW t \in Thread, Client(t) PROVE ChatsInOrder'
  <2>1. ASSUME NEW u \in KnownUsers, StartCreateChat(t, u) PROVE ChatsInOrder'
    BY <1>1, <1>3, <2>1, BeginPairs DEF StartCreateChat, KnownUsers, NoChat, TypeOK
  <2>2. ASSUME NEW known \in told, StartSendMessage(t, known[1], known[2])
        PROVE  ChatsInOrder'
    <3>1. known[1] \in Nat /\ known[2] \in Nat
      BY <1>1 DEF TypeOK
    <3> QED
      BY <1>1, <1>3, <2>2, <3>1, BeginPairs DEF StartSendMessage
  <2> QED
    BY <1>1, <1>3, <1>4, <2>1, <2>2, AddUserPairs DEF Client
<1>5. CASE UNCHANGED vars
  <2>1. /\ Addressed' = Addressed /\ Joined' = Joined
        /\ \A c : Parties(c)' = Parties(c) /\ MembersOf(c)' = MembersOf(c)
        /\ \A s \in Thread : Creating(s)' = Creating(s)
    BY <1>5 DEF vars, Addressed, Joined, Parties, MembersOf, Sending, Creating
  <2>2. /\ nextId'.chats \in Nat /\ nextId'.chats >= nextId.chats
        /\ UNCHANGED <<pc, user, chat, own>>
    BY <1>1, <1>5 DEF vars, TypeOK
  <2>3. \A s \in Thread : pc'[s] = "insertChat" => own'[s] = {}
    BY <1>3, <2>2 DEF ChatsInOrder, OwnChat
  <2> QED
    BY <1>1, <1>3, <2>1, <2>2, <2>3, KeepPairs
<1> QED
  BY <1>1, <1>3, <1>4, <1>5, HandlerPairs, RestartPairs, ListChatsPairs DEF Next

LEMMA PairInit == Init => PairInv
<1> SUFFICES ASSUME Init PROVE ChatsInOrder
    BY DEF PairInv
<1> USE DEF Init
<1>1. \A r \in session : r.table = "users"
  BY DEF UserRow
<1>2. \A t \in Thread : ~Sending(t) /\ ~Creating(t) /\ own[t] = {} /\ pc[t] = "idle"
  BY DEF Sending, Creating, SendSteps
<1>3. Addressed \cup Joined = {}
  BY <1>1, <1>2 DEF Addressed, Joined
<1> QED
  BY <1>2, <1>3 DEF ChatsInOrder, OwnChat, Creation, KnownChats, Pairs

\* What NoThree means for the cardinality.
LEMMA TwoAtMost == ASSUME NEW S, NoThree(S) PROVE Cardinality(S) <= 2
<1>1. CASE S = {}
  BY <1>1, FS_EmptySet
<1>2. ASSUME NEW a \in S PROVE Cardinality(S) <= 2
  <2>1. CASE S = {a}
    BY <2>1, FS_Singleton
  <2>2. ASSUME NEW b \in S, b # a PROVE Cardinality(S) <= 2
    <3>1. S = {a} \cup {b}
      BY <1>2, <2>2 DEF NoThree
    <3>2. IsFiniteSet({a}) /\ Cardinality({a}) = 1
      BY FS_Singleton
    <3>3. Cardinality({a} \cup {b}) = Cardinality({a}) + 1
      BY <2>2, <3>2, FS_AddElement
    <3> QED
      BY <3>1, <3>2, <3>3
  <2> QED
    BY <1>2, <2>1, <2>2
<1> QED
  BY <1>1, <1>2

\* A personal chat never gets a third member, as long as no request mistakes
\* the id of another thread's insert for that of its own chat
\* (server.cpp:182-220, 264-285).
THEOREM ChatsArePairs == Spec => []PersonalChatPair
<1>1. PairInv => PersonalChatPair
  <2> SUFFICES ASSUME PairInv, ~idRaced, NEW r \in session, r.table = "chats"
               PROVE  Cardinality(MembersOf(r.id)) <= 2
      BY DEF PersonalChatPair
  <2>1. NoThree(Parties(r.id))
    BY NoParties DEF PairInv, ChatsInOrder, Pairs, NoThree
  <2>2. NoThree(MembersOf(r.id))
    BY <2>1 DEF Parties, NoThree
  <2> QED
    BY <2>2, TwoAtMost
<1> QED
  BY <1>1, PairInit, PairStep, Invariance, PTL DEF Spec

----------------------------------------------------------------------------
(* One client at a time: the database implements ChatStore.                *)

\* What has been inserted and not committed, registrations left out.
Unsaved == {r \in session : r \notin committed /\ r.table # "users"}

\* Where the only request is tells which rows are unsaved.  A sender and the
\* chat it sends to were saved before.
Stage(t) ==
    LET c == chat[t]
        u == user[t]
    IN  /\ pc[t] \in {"idle", "insertChat", "ensureChat", "insertMember", "insertMessage",
                      "replyChat", "queryReceiver"} => Unsaved = {}
        /\ pc[t] = "readId" => Unsaved = {ChatRow(lastInsertId)}
        /\ pc[t] = "insertSender" => Unsaved = {ChatRow(c)}
        /\ pc[t] = "insertReceiver" => Unsaved = {ChatRow(c), MemberRow(u, c)}
        /\ pc[t] = "commitChat" =>
              \E r \in KnownUsers : Unsaved = {ChatRow(c), MemberRow(u, c), MemberRow(r, c)}
        /\ pc[t] = "commitMessage" =>
              \E i \in 0 .. nextId.messages :
                  /\ Unsaved = {MessageRow(i, c, u)}
                  /\ \A r \in committed : r.table = "messages" => r.id # i
        /\ pc[t] \in SendSteps \cup {"replyChat"} => MemberRow(u, c) \in committed

\* Whoever knows of a chat is a saved member of it, and messages go to saved
\* chats only; members are saved with their chat or after it.
SavedChats ==
    /\ \A p \in told : MemberRow(p[1], p[2]) \in committed
    /\ \A r \in session : r.table = "messages" => ChatRow(r.chat) \in committed
    /\ \A r \in Unsaved : r.table = "users_chats" => ChatRow(r.chat) \notin committed

\* The invariant behind the refinement.
AloneInv == SavedChats /\ \A t \in Thread : Stage(t)

----------------------------------------------------------------------------
\* Rows of the four tables differ.
LEMMA Tables ==
    /\ \A u : UserRow(u).table = "users" /\ UserRow(u).id = u
    /\ \A c : ChatRow(c).table = "chats" /\ ChatRow(c).id = c
    /\ \A u, c : /\ MemberRow(u, c).table = "users_chats"
                 /\ MemberRow(u, c).user = u /\ MemberRow(u, c).chat = c
    /\ \A i, c, u : /\ MessageRow(i, c, u).table = "messages" /\ MessageRow(i, c, u).id = i
                    /\ MessageRow(i, c, u).user = u /\ MessageRow(i, c, u).chat = c
BY DEF UserRow, ChatRow, MemberRow, MessageRow

\* A row is determined by its columns.
LEMMA Columns ==
    /\ \A r \in Row : r.table = "users" => r = UserRow(r.id)
    /\ \A r \in Row : r.table = "chats" => r = ChatRow(r.id)
    /\ \A r \in Row : r.table = "users_chats" => r = MemberRow(r.user, r.chat)
    /\ \A r \in Row : r.table = "messages" => r = MessageRow(r.id, r.chat, r.user)
BY DEF Row, UserRow, ChatRow, MemberRow, MessageRow

\* An insert of a chat request stays unsaved.
LEMMA InsertUnsaved ==
    ASSUME DbInv, NEW t \in Thread, NEW r, Insert(t, r),
           pc[t] \in CreateSteps \cup SendSteps, r \notin session, r.table # "users"
    PROVE  /\ committed' = committed /\ session' = session \cup {r}
           /\ Unsaved' = Unsaved \cup {r}
<1>1. ~autocommit /\ committed \subseteq session
  BY DEF DbInv, Requests, RequestInv, Durability
<1>2. committed' = committed /\ session' = session \cup {r}
  BY <1>1 DEF Insert
<1> QED
  BY <1>1, <1>2 DEF Unsaved

\* A step that saves all or nothing and inserts neither message nor member.
LEMMA SavedChatsKept ==
    ASSUME SavedChats, committed \subseteq committed', told' = told,
           \A r \in session' : r.table = "messages" => r \in session,
           Unsaved' = {} \/ (committed' = committed
                             /\ \A r \in Unsaved' : r.table = "users_chats" => r \in Unsaved)
    PROVE  SavedChats'
BY DEF SavedChats

\* A move of the only thread to a step before which nothing has to be known.
LEMMA QuietAlone ==
    ASSUME DbInv, AloneInv, NEW t \in Thread, \A s \in Thread : s = t,
           NEW step, Goto(t, step),
           step \in {"idle", "rollback"}, step = "idle" => Unsaved = {},
           UNCHANGED <<committed, session, told>>
    PROVE  AloneInv'
<1>1. pc'[t] = step
  BY DEF Goto, DbInv, TypeOK
<1>2. Unsaved' = Unsaved /\ SavedChats'
  BY DEF Unsaved, SavedChats, AloneInv
<1>3. Stage(t)'
  BY <1>1, <1>2 DEF Stage, SendSteps
<1> QED
  BY <1>2, <1>3 DEF AloneInv

\* A chat under creation and its members are what is unsaved.
LEMMA CreateAlone ==
    ASSUME DbInv, AloneInv, NEW t \in Thread, \A s \in Thread : s = t,
           \/ InsertChat(t) \/ ReadId(t) \/ InsertSender(t)
           \/ \E r \in KnownUsers : InsertReceiver(t, r)
    PROVE  AloneInv'
<1> USE DEF localVars, dbVars
<1>1. TypeOK /\ Stage(t) /\ SavedChats
  BY DEF DbInv, AloneInv
<1>2. \A s \in SendSteps : s \notin {"idle", "insertChat", "readId", "insertSender",
                                     "insertReceiver", "commitChat", "replyChat"}
  BY DEF SendSteps
<1>3. \A u, c : MemberRow(u, c) \in session /\ ChatRow(c) \notin committed
                   => MemberRow(u, c) \in Unsaved
  BY Tables DEF DbInv, Consistent, References, Unsaved
<1>4. CASE InsertChat(t)
  <2> DEFINE r == ChatRow(nextId.chats)
  <2>1. r.table = "chats" /\ r \notin session
    BY <1>1, Tables DEF DbInv, FreshIds, TypeOK
  <2>2. /\ Insert(t, r) /\ lastInsertId' = nextId.chats /\ pc'[t] = "readId"
        /\ pc[t] = "insertChat" /\ told' = told
    BY <1>1, <1>4 DEF InsertChat, InsertNewChat, Goto, TypeOK
  <2>3. Unsaved = {} /\ pc[t] \in CreateSteps
    BY <1>1, <2>2 DEF Stage, CreateSteps
  <2>4. committed' = committed /\ session' = session \cup {r} /\ Unsaved' = Unsaved \cup {r}
    BY <2>1, <2>2, <2>3, InsertUnsaved
  <2>5. SavedChats'
    BY <1>1, <2>1, <2>2, <2>4, SavedChatsKept
  <2>6. Unsaved' = {ChatRow(lastInsertId)}'
    BY <2>2, <2>3, <2>4
  <2>7. Stage(t)'
    BY <1>2, <2>2, <2>6 DEF Stage
  <2> QED
    BY <2>5, <2>7 DEF AloneInv
<1>5. CASE ReadId(t)
  <2>1. /\ pc[t] = "readId" /\ pc'[t] = "insertSender" /\ chat'[t] = lastInsertId
        /\ UNCHANGED <<committed, session, told>>
    BY <1>1, <1>5 DEF ReadId, Goto, TypeOK
  <2>2. Unsaved' = Unsaved /\ Unsaved = {ChatRow(lastInsertId)} /\ SavedChats'
    BY <1>1, <2>1 DEF Stage, Unsaved, SavedChats
  <2>3. Stage(t)'
    BY <1>2, <2>1, <2>2 DEF Stage
  <2> QED
    BY <2>2, <2>3 DEF AloneInv
<1>6. CASE InsertSender(t)
  <2> DEFINE r == MemberRow(user[t], chat[t])
  <2>1. /\ pc[t] = "insertSender" /\ pc'[t] = "insertReceiver"
        /\ UNCHANGED <<user, chat, told>>
    BY <1>1, <1>6 DEF InsertSender, Goto, TypeOK
  <2>2. Unsaved = {ChatRow(chat[t])} /\ pc[t] \in CreateSteps
    BY <1>1, <2>1 DEF Stage, CreateSteps
  <2>3. ChatRow(chat[t]) \notin committed
    BY <2>2 DEF Unsaved
  <2>4. r.table = "users_chats" /\ r.chat = chat[t]
    BY Tables
  <2>5. r \notin session
    BY <1>3, <2>2, <2>3, <2>4, Tables
  <2>6. Insert(t, r)
    BY <1>6, <2>5 DEF InsertSender, Join
  <2>7. committed' = committed /\ session' = session \cup {r} /\ Unsaved' = Unsaved \cup {r}
    BY <2>2, <2>4, <2>5, <2>6, InsertUnsaved
  <2>8. SavedChats'
    BY <1>1, <2>1, <2>3, <2>4, <2>7 DEF SavedChats
  <2>9. Unsaved' = {ChatRow(chat[t]), MemberRow(user[t], chat[t])}'
    BY <2>1, <2>2, <2>7
  <2>10. Stage(t)'
    BY <1>2, <2>1, <2>9 DEF Stage
  <2> QED
    BY <2>8, <2>10 DEF AloneInv
<1>7. ASSUME NEW q \in KnownUsers, InsertReceiver(t, q) PROVE AloneInv'
  <2> DEFINE r == MemberRow(q, chat[t])
  <2>1. /\ pc[t] = "insertReceiver" /\ pc'[t] = "commitChat"
        /\ UNCHANGED <<user, chat, told, nextId>>
    BY <1>1, <1>7 DEF InsertReceiver, Goto, TypeOK, Join
  <2>2. /\ Unsaved = {ChatRow(chat[t]), MemberRow(user[t], chat[t])}
        /\ pc[t] \in CreateSteps
    BY <1>1, <2>1 DEF Stage, CreateSteps
  <2>3. ChatRow(chat[t]) \notin committed
    BY <2>2 DEF Unsaved
  <2>4. r.table = "users_chats" /\ r.chat = chat[t]
    BY Tables
  <2>5. /\ committed' = committed
        /\ session' = session \/ session' = session \cup {r}
        /\ Unsaved' = Unsaved \cup {r}
    <3>1. CASE r \notin session
      <4>1. Insert(t, r)
        BY <1>7, <3>1 DEF InsertReceiver, Join
      <4> QED
        BY <2>2, <2>4, <3>1, <4>1, InsertUnsaved
    <3>2. CASE r \in session
      <4>1. UNCHANGED <<session, committed>>
        BY <1>7, <3>2 DEF InsertReceiver, Join
      <4> QED
        BY <1>3, <2>3, <3>2, <4>1 DEF Unsaved
    <3> QED
      BY <3>1, <3>2
  <2>6. SavedChats'
    BY <1>1, <2>1, <2>3, <2>4, <2>5 DEF SavedChats
  <2>7. Unsaved' = {ChatRow(chat[t]), MemberRow(user[t], chat[t]), MemberRow(q, chat[t])}'
    BY <2>1, <2>2, <2>5
  <2>8. q \in KnownUsers'
    BY <2>1 DEF KnownUsers
  <2>9. Stage(t)'
    BY <1>2, <2>1, <2>7, <2>8 DEF Stage
  <2> QED
    BY <2>6, <2>9 DEF AloneInv
<1> QED
  BY <1>4, <1>5, <1>6, <1>7

\* A sender's chat and its membership in it were saved before the request
\* began, so that all it inserts is the message.
LEMMA SendAlone ==
    ASSUME DbInv, AloneInv, NEW t \in Thread, \A s \in Thread : s = t,
           EnsureChat(t) \/ InsertMember(t) \/ InsertMessage(t)
    PROVE  AloneInv'
<1> USE DEF localVars, dbVars, auxVars
<1>1. TypeOK /\ Stage(t) /\ SavedChats
  BY DEF DbInv, AloneInv
<1>2. pc[t] \in SendSteps /\ pc[t] \in {"ensureChat", "insertMember", "insertMessage"}
  BY DEF EnsureChat, InsertMember, InsertMessage, SendSteps
<1>3. MemberRow(user[t], chat[t]) \in committed /\ Unsaved = {}
  BY <1>1, <1>2 DEF Stage
<1>4. /\ MemberRow(user[t], chat[t]) \in session /\ ChatRow(chat[t]) \in committed
      /\ ChatRow(chat[t]) \in session
  BY <1>3, Tables DEF DbInv, Durability, Consistent, References
<1>5. ASSUME NEW step \in {"insertMember", "insertMessage"}, Goto(t, step),
             UNCHANGED <<committed, session, told, user, chat>>
      PROVE  AloneInv'
  <2>1. pc'[t] = step /\ Unsaved' = Unsaved
    BY <1>1, <1>5 DEF Goto, TypeOK, Unsaved
  <2>2. Stage(t)'
    BY <1>3, <1>5, <2>1 DEF Stage, SendSteps
  <2> QED
    BY <1>1, <1>5, <2>1, <2>2 DEF AloneInv, SavedChats
<1>6. CASE EnsureChat(t)
  BY <1>4, <1>5, <1>6 DEF EnsureChat
<1>7. CASE InsertMember(t)
  BY <1>4, <1>5, <1>7 DEF InsertMember, Join
<1>8. CASE InsertMessage(t)
  <2> DEFINE r == MessageRow(nextId.messages, chat[t], user[t])
  <2>1. /\ Insert(t, r) /\ pc'[t] = "commitMessage" /\ nextId'.messages = nextId.messages + 1
        /\ nextId.messages \in Nat /\ UNCHANGED <<told, user, chat>>
    BY <1>1, <1>4, <1>8 DEF InsertMessage, Goto, TypeOK
  <2>2. r.table = "messages" /\ r.id = nextId.messages /\ r.chat = chat[t]
    BY Tables
  <2>3. r \notin session
    BY <2>1, <2>2 DEF DbInv, FreshIds
  <2>4. committed' = committed /\ session' = session \cup {r} /\ Unsaved' = Unsaved \cup {r}
    BY <1>2, <2>1, <2>2, <2>3, InsertUnsaved
  <2>5. SavedChats'
    BY <1>1, <1>3, <1>4, <2>1, <2>2, <2>4 DEF SavedChats
  <2>6. /\ nextId.messages \in 0 .. nextId'.messages
        /\ Unsaved' = {MessageRow(nextId.messages, chat'[t], user'[t])}
        /\ \A q \in committed' : q.table = "messages" => q.id # nextId.messages
    BY <1>3, <2>1, <2>4 DEF DbInv, FreshIds, Durability
  <2>7. MemberRow(user'[t], chat'[t]) \in committed'
    BY <1>3, <2>1, <2>4
  <2>8. Stage(t)'
    BY <2>1, <2>6, <2>7 DEF Stage, SendSteps
  <2> QED
    BY <2>5, <2>8 DEF AloneInv
<1> QED
  BY <1>6, <1>7, <1>8

\* A commit saves everything, and a chat's creator is among its members.
LEMMA CommitAlone ==
    ASSUME DbInv, AloneInv, NEW t \in Thread, \A s \in Thread : s = t, Commit(t)
    PROVE  AloneInv'
<1>1. TypeOK /\ Stage(t) /\ SavedChats /\ committed \subseteq session
  BY DEF DbInv, AloneInv, Durability
<1>2. /\ committed' = session /\ UNCHANGED <<session, told, user, chat>>
      /\ \/ pc[t] = "commitChat" /\ pc'[t] = "replyChat"
         \/ pc[t] = "commitMessage" /\ pc'[t] = "queryReceiver"
  BY <1>1 DEF Commit, Goto, TypeOK, localVars
<1>3. Unsaved' = {}
  BY <1>2 DEF Unsaved
<1>4. SavedChats'
  BY <1>1, <1>2, <1>3, SavedChatsKept
<1>5. pc[t] = "commitChat" => MemberRow(user[t], chat[t]) \in session
  BY <1>1 DEF Stage, Unsaved
<1>6. Stage(t)'
  BY <1>2, <1>3, <1>5 DEF Stage, SendSteps
<1> QED
  BY <1>4, <1>6 DEF AloneInv

\* The end of a request, well or not.
LEMMA OtherAlone ==
    ASSUME DbInv, AloneInv, NEW t \in Thread, \A s \in Thread : s = t,
           ReplyChat(t) \/ QueryReceiver(t) \/ Throw(t) \/ Rollback(t)
    PROVE  AloneInv'
<1> USE DEF localVars, dbVars, auxVars
<1>1. TypeOK /\ Stage(t) /\ SavedChats /\ committed \subseteq session
  BY DEF DbInv, AloneInv, Durability
<1>2. CASE ReplyChat(t)
  <2>1. /\ told' = told \cup {<<user[t], chat[t]>>} /\ pc[t] = "replyChat" /\ pc'[t] = "idle"
        /\ UNCHANGED <<committed, session>>
    BY <1>1, <1>2 DEF ReplyChat, Goto, TypeOK
  <2>2. MemberRow(user[t], chat[t]) \in committed /\ Unsaved = {} /\ Unsaved' = Unsaved
    BY <1>1, <2>1 DEF Stage, Unsaved
  <2>3. SavedChats'
    BY <1>1, <2>1, <2>2 DEF SavedChats
  <2>4. Stage(t)'
    BY <2>1, <2>2 DEF Stage, SendSteps
  <2> QED
    BY <2>3, <2>4 DEF AloneInv
<1>3. CASE QueryReceiver(t)
  <2>1. Unsaved = {}
    BY <1>1, <1>3 DEF QueryReceiver, Stage
  <2> QED
    BY <1>3, <2>1, QuietAlone DEF QueryReceiver
<1>4. CASE Throw(t)
  BY <1>4, QuietAlone DEF Throw
<1>5. CASE Rollback(t)
  <2>1. session' = committed /\ committed' = committed /\ told' = told /\ pc'[t] = "idle"
    BY <1>1, <1>5 DEF Rollback, Goto, TypeOK
  <2>2. Unsaved' = {}
    BY <2>1 DEF Unsaved
  <2>3. SavedChats'
    BY <1>1, <2>1, <2>2, SavedChatsKept
  <2>4. Stage(t)'
    BY <2>1, <2>2 DEF Stage, SendSteps
  <2> QED
    BY <2>3, <2>4 DEF AloneInv
<1> QED
  BY <1>2, <1>3, <1>4, <1>5

\* A request starts, a user registers or lists his chats, or the server
\* restarts.
LEMMA ClientAlone ==
    ASSUME DbInv, AloneInv, NEW t \in Thread, \A s \in Thread : s = t,
           Client(t) \/ (\E u \in KnownUsers : ListChats(u)) \/ Restart
    PROVE  AloneInv'
<1> USE DEF localVars, dbVars, auxVars
<1>1. TypeOK /\ Stage(t) /\ SavedChats /\ Durability
  BY DEF DbInv, AloneInv
<1>2. ASSUME NEW first \in {"insertChat", "ensureChat"}, NEW u, NEW c, Begin(t, first, u, c),
             first = "ensureChat" => <<u, c>> \in told
      PROVE  AloneInv'
  <2>1. /\ pc[t] = "idle" /\ pc'[t] \in {first, "rollback"} /\ user'[t] = u /\ chat'[t] = c
        /\ UNCHANGED <<committed, session, told>>
    BY <1>1, <1>2 DEF Begin, Goto, TypeOK
  <2>2. Unsaved = {} /\ Unsaved' = Unsaved
    BY <1>1, <2>1 DEF Stage, Unsaved
  <2>3. first = "ensureChat" => MemberRow(u, c) \in committed
    BY <1>1, <1>2 DEF SavedChats
  <2>4. Stage(t)'
    BY <1>2, <2>1, <2>2, <2>3 DEF Stage, SendSteps
  <2> QED
    BY <1>1, <2>1, <2>2, <2>4 DEF AloneInv, SavedChats
<1>3. CASE AddUser(t)
  <2>1. /\ session' = session \cup {UserRow(nextId.users)} /\ pc[t] = "idle" /\ pc' = pc
        /\ committed' = session' \/ committed' = committed
        /\ told' = told
    BY <1>3 DEF AddUser
  <2>2. Unsaved' = {} /\ committed \subseteq committed'
    BY <1>1, <2>1, Tables DEF Stage, Unsaved, Durability
  <2>3. SavedChats'
    BY <1>1, <2>1, <2>2, Tables, SavedChatsKept
  <2>4. Stage(t)'
    BY <2>1, <2>2 DEF Stage, SendSteps
  <2> QED
    BY <2>3, <2>4 DEF AloneInv
<1>4. CASE Client(t)
  <2>1. ASSUME NEW u \in KnownUsers, StartCreateChat(t, u) PROVE AloneInv'
    BY <1>2, <2>1 DEF StartCreateChat
  <2>2. ASSUME NEW known \in told, StartSendMessage(t, known[1], known[2]) PROVE AloneInv'
    BY <1>2, <2>2 DEF StartSendMessage
  <2> QED
    BY <1>3, <1>4, <2>1, <2>2 DEF Client
<1>5. ASSUME NEW u \in KnownUsers, ListChats(u) PROVE AloneInv'
  <2>1. /\ told' = told \cup {<<u, c>> : c \in ListedChats(u)}
        /\ UNCHANGED <<committed, session, pc, user, chat, lastInsertId, nextId>>
    BY <1>5 DEF ListChats
  <2>2. ASSUME NEW c \in ListedChats(u) PROVE MemberRow(u, c) \in committed
    <3>1. ChatRow(c) \in committed /\ MemberRow(u, c) \in session
      BY <1>1 DEF ListedChats, SavedChats
    <3> QED
      BY <1>1, <3>1, Tables DEF SavedChats, Unsaved
  <2>3. Unsaved' = Unsaved
    BY <2>1 DEF Unsaved
  <2>4. \A p \in told' : MemberRow(p[1], p[2]) \in committed
    BY <1>1, <2>1, <2>2 DEF SavedChats
  <2>5. SavedChats'
    BY <1>1, <2>1, <2>3, <2>4 DEF SavedChats
  <2>6. KnownUsers' = KnownUsers
    BY <2>1 DEF KnownUsers
  <2>7. Stage(t)'
    BY <1>1, <2>1, <2>3, <2>6 DEF Stage
  <2> QED
    BY <2>5, <2>7 DEF AloneInv
<1>6. CASE Restart
  <2>1. session' = committed /\ committed' = committed /\ told' = told /\ pc'[t] = "idle"
    BY <1>6 DEF Restart
  <2>2. Unsaved' = {}
    BY <2>1 DEF Unsaved
  <2>3. SavedChats'
    BY <1>1, <2>1, <2>2, SavedChatsKept DEF Durability
  <2>4. Stage(t)'
    BY <2>1, <2>2 DEF Stage, SendSteps
  <2> QED
    BY <2>3, <2>4 DEF AloneInv
<1> QED
  BY <1>4, <1>5, <1>6

\* With one thread the invariant is inductive.
LEMMA AloneStep ==
    ASSUME \E t : Thread = {t}
    PROVE  DbInv /\ AloneInv /\ [Next]_vars => AloneInv'
<1> SUFFICES ASSUME DbInv, AloneInv, [Next]_vars PROVE AloneInv'
    OBVIOUS
<1>0. PICK t \in Thread : \A s \in Thread : s = t
  OBVIOUS
<1>1. CASE Handler(t)
  BY <1>0, <1>1, CreateAlone, SendAlone, CommitAlone, OtherAlone DEF Handler
<1>2. CASE Client(t) \/ (\E u \in KnownUsers : ListChats(u)) \/ Restart
  BY <1>0, <1>2, ClientAlone
<1>3. CASE UNCHANGED vars
  <2>1. UNCHANGED <<committed, session, told, pc, user, chat, lastInsertId, nextId>>
    BY <1>3 DEF vars
  <2>2. Unsaved' = Unsaved /\ KnownUsers' = KnownUsers
    BY <2>1 DEF Unsaved, KnownUsers
  <2>3. Stage(t)'
    BY <2>1, <2>2 DEF AloneInv, Stage
  <2> QED
    BY <1>0, <2>1, <2>2, <2>3 DEF AloneInv, SavedChats
<1> QED
  BY <1>0, <1>1, <1>2, <1>3 DEF Next

LEMMA AloneInit == Init => AloneInv
<1> SUFFICES ASSUME Init PROVE AloneInv
    OBVIOUS
<1> USE DEF Init
<1>1. Unsaved = {} /\ \A r \in session : r.table = "users"
  BY Tables DEF Unsaved
<1> QED
  BY <1>1 DEF AloneInv, SavedChats, Stage, SendSteps

----------------------------------------------------------------------------
(* The steps of ChatStore that the statements of a request amount to.      *)

\* A statement that saves nothing and registers nobody is none.
LEMMA NoStoreStep ==
    ASSUME committed' = committed,
           \A r : r.table = "users" => (r \in session' <=> r \in session)
    PROVE  UNCHANGED Store!vars
<1>1. UsersIn(session)' = UsersIn(session) /\ UsersIn(committed)' = UsersIn(committed)
  BY DEF UsersIn, Rows
<1> QED
  BY <1>1 DEF Store!vars, usersBar, pendingBar, chatsBar, membersBar, messagesBar, Rows

\* A rollback loses registrations and nothing else.
LEMMA LoseStep ==
    ASSUME session' = committed, committed' = committed
    PROVE  Store!LosePending
BY DEF Store!LosePending, usersBar, pendingBar, chatsBar, membersBar, messagesBar, UsersIn, Rows

\* Who is registered, in the abstract, has a row in the session.
LEMMA RegisteredUsers ==
    ASSUME DbInv
    PROVE  /\ Store!Registered = UsersIn(session)
           /\ \A u : UserRow(u) \in session => u \in UsersIn(session)
           /\ \A u : u \in UsersIn(session) => UserRow(u) \in session
           /\ autocommit => pendingBar = {}
<1>1. committed \subseteq session /\ session \subseteq Row /\ (autocommit => session = committed)
  BY DEF DbInv, Durability, TypeOK
<1>2. UsersIn(committed) \subseteq UsersIn(session)
  BY <1>1 DEF UsersIn, Rows
<1>3. Store!Registered = UsersIn(session)
  BY <1>2 DEF Store!Registered, usersBar, pendingBar
<1>4. ASSUME NEW u, UserRow(u) \in session PROVE u \in UsersIn(session)
  BY <1>4, Tables DEF UsersIn, Rows
<1>5. ASSUME NEW u \in UsersIn(session) PROVE UserRow(u) \in session
  <2>1. PICK r \in session : r.table = "users" /\ r.id = u
    BY DEF UsersIn, Rows
  <2> QED
    BY <1>1, <2>1, Columns
<1>6. autocommit => pendingBar = {}
  BY <1>1 DEF pendingBar, UsersIn, Rows
<1> QED
  BY <1>3, <1>4, <1>5, <1>6

\* A registration registers, for good only if nothing is pending.
LEMMA RegisterStep ==
    ASSUME DbInv, NEW t \in Thread, AddUser(t)
    PROVE  Store!Next
<1>0. PICK u \in Nat : u = nextId.users
  BY DEF DbInv, TypeOK
<1>1. /\ session' = session \cup {UserRow(u)}
      /\ committed' = IF autocommit THEN session' ELSE committed
  BY <1>0 DEF AddUser
<1>2. committed \subseteq session /\ (autocommit => session = committed)
  BY DEF DbInv, Durability
<1>3. UserRow(u) \notin session
  BY <1>0, Tables DEF DbInv, FreshIds
<1>4. u \notin Store!Registered
  BY <1>3, RegisteredUsers
<1>5. UNCHANGED <<chatsBar, membersBar, messagesBar>>
  BY <1>1, <1>2, Tables DEF chatsBar, membersBar, messagesBar, Rows
<1>6. UsersIn(session') = UsersIn(session) \cup {u}
  BY <1>1, Tables DEF UsersIn, Rows
<1>7. CASE autocommit
  <2>1. usersBar' = usersBar \cup {u} /\ pendingBar = {} /\ pendingBar' = {}
    BY <1>1, <1>2, <1>6, <1>7 DEF usersBar, pendingBar
  <2>2. Store!Register(u)
    BY <1>4, <1>5, <2>1 DEF Store!Register
  <2> QED
    BY <2>1, <2>2 DEF Store!Next
<1>8. CASE ~autocommit
  <2>1. usersBar' = usersBar /\ pendingBar' = pendingBar \cup {u}
    BY <1>1, <1>4, <1>6, <1>8 DEF usersBar, pendingBar, Store!Registered
  <2>2. Store!Register(u)
    BY <1>4, <1>5, <2>1 DEF Store!Register
  <2> QED
    BY <2>1, <2>2 DEF Store!Next
<1> QED
  BY <1>7, <1>8

\* What the disk gains by a commit is what was unsaved.
LEMMA Saved ==
    ASSUME DbInv, committed' = session, session' = session
    PROVE  /\ \A r : r \in committed' /\ r.table # "users" <=>
                     (r \in committed /\ r.table # "users") \/ r \in Unsaved
           /\ Store!StorePending
<1>1. committed \subseteq session
  BY DEF DbInv, Durability
<1>2. \A r : r \in committed' /\ r.table # "users" <=>
                     (r \in committed /\ r.table # "users") \/ r \in Unsaved
  BY <1>1 DEF Unsaved
<1>3. usersBar' = UsersIn(session) /\ pendingBar' = {}
  BY DEF usersBar, pendingBar, UsersIn, Rows
<1>4. Store!StorePending
  BY <1>3, RegisteredUsers DEF Store!StorePending
<1> QED
  BY <1>2, <1>4

\* The commit of a new chat creates it, with both its members.
LEMMA CreateStep ==
    ASSUME DbInv, AloneInv, NEW t \in Thread, pc[t] = "commitChat", Commit(t)
    PROVE  Store!Next
<1>1. committed' = session /\ session' = session
  BY DEF Commit
<1>2. PICK v \in KnownUsers :
         Unsaved = {ChatRow(chat[t]), MemberRow(user[t], chat[t]), MemberRow(v, chat[t])}
  BY DEF AloneInv, Stage
<1>3. PICK c, u : c = chat[t] /\ u = user[t]
  OBVIOUS
<1>4. Unsaved = {ChatRow(c), MemberRow(u, c), MemberRow(v, c)}
  BY <1>2, <1>3
<1>5. Store!StorePending
  BY <1>1, Saved
<1>6. chatsBar' = chatsBar \cup {c}
  <2>1. \A r : r \in committed' /\ r.table = "chats" <=>
               (r \in committed /\ r.table = "chats") \/ r = ChatRow(c)
    BY <1>1, <1>4, Saved, Tables
  <2> QED
    BY <2>1, Tables DEF chatsBar, Rows
<1>7. membersBar' = membersBar \cup {<<u, c>>, <<v, c>>}
  <2>1. \A r : r \in committed' /\ r.table = "users_chats" <=>
               \/ r \in committed /\ r.table = "users_chats"
               \/ r = MemberRow(u, c) \/ r = MemberRow(v, c)
    BY <1>1, <1>4, Saved, Tables
  <2> QED
    BY <2>1, Tables DEF membersBar, Rows
<1>8. messagesBar' = messagesBar
  <2>1. \A r : r \in committed' /\ r.table = "messages" <=> r \in committed /\ r.table = "messages"
    BY <1>1, <1>4, Saved, Tables
  <2> QED
    BY <2>1 DEF messagesBar, Rows
<1>9. c \notin chatsBar
  <2>1. ChatRow(c) \notin committed
    BY <1>4 DEF Unsaved
  <2> QED
    BY <2>1, Columns DEF chatsBar, Rows, DbInv, TypeOK
<1>10. {u, v} \subseteq Store!Registered
  <2>1. MemberRow(u, c) \in session /\ MemberRow(v, c) \in session
    BY <1>4 DEF Unsaved
  <2>2. UserRow(u) \in session /\ UserRow(v) \in session
    BY <2>1, Tables DEF DbInv, Consistent, References
  <2> QED
    BY <2>2, RegisteredUsers
<1>11. Store!CreateChat(c, u, v)
  BY <1>5, <1>6, <1>7, <1>8, <1>9, <1>10 DEF Store!CreateChat
<1> QED
  BY <1>6, <1>10, <1>11 DEF Store!Next

\* The commit of a message sends it.
LEMMA SendStep ==
    ASSUME DbInv, AloneInv, NEW t \in Thread, pc[t] = "commitMessage", Commit(t)
    PROVE  Store!Next
<1>1. committed' = session /\ session' = session
  BY DEF Commit
<1>2. PICK i \in 0 .. nextId.messages :
         /\ Unsaved = {MessageRow(i, chat[t], user[t])}
         /\ \A r \in committed : r.table = "messages" => r.id # i
  BY DEF AloneInv, Stage
<1>3. PICK c, u : c = chat[t] /\ u = user[t]
  OBVIOUS
<1>4. Unsaved = {MessageRow(i, c, u)}
  BY <1>2, <1>3
<1> DEFINE m == [id |-> i, chat |-> c, user |-> u]
<1>5. Store!StorePending
  BY <1>1, Saved
<1>6. UNCHANGED <<chatsBar, membersBar>>
  <2>1. \A r : r \in committed' /\ r.table \in {"chats", "users_chats"} <=>
               r \in committed /\ r.table \in {"chats", "users_chats"}
    BY <1>1, <1>4, Saved, Tables
  <2>2. /\ Rows(committed', "chats") = Rows(committed, "chats")
        /\ Rows(committed', "users_chats") = Rows(committed, "users_chats")
    BY <2>1 DEF Rows
  <2> QED
    BY <2>2 DEF chatsBar, membersBar, Rows
<1>7. messagesBar' = messagesBar \cup {m}
  <2>1. \A r : r \in committed' /\ r.table = "messages" <=>
               (r \in committed /\ r.table = "messages") \/ r = MessageRow(i, c, u)
    BY <1>1, <1>4, Saved, Tables
  <2>2. Rows(committed', "messages") = Rows(committed, "messages") \cup {MessageRow(i, c, u)}
    BY <2>1, Tables DEF Rows
  <2> QED
    BY <2>2, Tables DEF messagesBar, Rows
<1>8. <<u, c>> \in membersBar
  <2>1. MemberRow(u, c) \in committed
    BY <1>3 DEF AloneInv, Stage, SendSteps
  <2> QED
    BY <2>1, Tables DEF membersBar, Rows
<1>9. \A n \in messagesBar : n.id # i
  BY <1>2 DEF messagesBar, Rows
<1>10. Store!SendMessage(m)
  BY <1>5, <1>6, <1>7, <1>8, <1>9 DEF Store!SendMessage
<1> QED
  BY <1>7, <1>10 DEF Store!Next

\* Every step of the handlers is one of the store, or none.
LEMMA StoreStep ==
    ASSUME \E t : Thread = {t}
    PROVE  DbInv /\ AloneInv /\ [Next]_vars => [Store!Next]_(Store!vars)
<1> SUFFICES ASSUME DbInv, AloneInv, [Next]_vars, ~(UNCHANGED Store!vars) PROVE Store!Next
    OBVIOUS
<1> USE DEF localVars, dbVars, auxVars
<1>1. ASSUME NEW t \in Thread, pc[t] \in CreateSteps \cup SendSteps, NEW r,
             r.table # "users", Insert(t, r)
      PROVE  FALSE
  <2>1. ~autocommit
    BY <1>1 DEF DbInv, Requests, RequestInv
  <2> QED
    BY <1>1, <2>1, NoStoreStep DEF Insert
<1>2. ASSUME UNCHANGED <<committed, session>> PROVE FALSE
  BY <1>2, NoStoreStep
<1>3. ASSUME session' = committed, committed' = committed PROVE Store!Next
  BY <1>3, LoseStep DEF Store!Next
<1>4. ASSUME NEW t \in Thread, NEW u, NEW c, Join(t, u, c),
             pc[t] \in CreateSteps \cup SendSteps
      PROVE  FALSE
  BY <1>1, <1>2, <1>4, Tables DEF Join
<1>5. ASSUME NEW t \in Thread, Handler(t) PROVE Store!Next
  <2>1. CASE InsertChat(t) \/ EnsureChat(t)
    BY <1>1, <1>2, <2>1, Tables DEF InsertChat, EnsureChat, InsertNewChat, CreateSteps, SendSteps
  <2>2. CASE InsertSender(t) \/ InsertMember(t) \/ \E r \in KnownUsers : InsertReceiver(t, r)
    BY <1>4, <2>2 DEF InsertSender, InsertMember, InsertReceiver, CreateSteps, SendSteps
  <2>3. CASE InsertMessage(t)
    BY <1>1, <2>3, Tables DEF InsertMessage, SendSteps
  <2>4. CASE ReadId(t) \/ ReplyChat(t) \/ QueryReceiver(t) \/ Throw(t)
    BY <1>2, <2>4 DEF ReadId, ReplyChat, QueryReceiver, Throw
  <2>5. CASE Commit(t)
    BY <2>5, CreateStep, SendStep DEF Commit
  <2>6. CASE Rollback(t)
    BY <1>3, <2>6 DEF Rollback
  <2> QED
    BY <1>5, <2>1, <2>2, <2>3, <2>4, <2>5, <2>6 DEF Handler
<1>6. ASSUME NEW t \in Thread, Client(t) PROVE Store!Next
  <2>1. ASSUME NEW first, NEW u, NEW c, Begin(t, first, u, c) PROVE FALSE
    BY <1>2, <2>1 DEF Begin
  <2> QED
    BY <1>6, <2>1, RegisterStep DEF Client, StartCreateChat, StartSendMessage
<1>7. ASSUME NEW u \in KnownUsers, ListChats(u) PROVE FALSE
  BY <1>2, <1>7 DEF ListChats
<1>8. CASE Restart
  BY <1>3, <1>8 DEF Restart
<1>9. ASSUME UNCHANGED vars PROVE FALSE
  BY <1>2, <1>9 DEF vars
<1> QED
  BY <1>5, <1>6, <1>7, <1>8, <1>9 DEF Next

LEMMA StoreInit == Init => Store!Init
<1> SUFFICES ASSUME Init PROVE Store!Init
    OBVIOUS
<1>1. /\ committed = {UserRow(u) : u \in 1 .. InitialUsers} /\ session = committed
      /\ \A r \in committed : r.table = "users"
  BY Tables DEF Init
<1>2. UsersIn(committed) = 1 .. InitialUsers
  BY <1>1, Tables DEF UsersIn, Rows
<1>3. chatsBar = {} /\ membersBar = {} /\ messagesBar = {}
  BY <1>1 DEF chatsBar, membersBar, messagesBar, Rows
<1> QED
  BY <1>1, <1>2, <1>3 DEF Store!Init, usersBar, pendingBar

\* With one client at a time every request, of up to seven statements of which
\* any may throw, is one step of the abstract store or none, and a crash loses
\* no more than registrations (server.cpp:171-255, 257-351, 378-385).
THEOREM OneClientStoresAtomically ==
    ASSUME \E t : Thread = {t}
    PROVE  Spec => StoresAtomically
<1>1. Init => Store!Init
  BY StoreInit
<1>2. DbInv /\ AloneInv /\ [Next]_vars => [Store!Next]_(Store!vars)
  BY StoreStep
<1>3. DbInv /\ AloneInv /\ [Next]_vars => AloneInv'
  BY AloneStep
<1> QED
  BY <1>1, <1>2, <1>3, AloneInit, Invariance, PTL DEF Spec, StoresAtomically, Store!Spec
=============================================================================
