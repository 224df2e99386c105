------------------------------ MODULE ChatPage ------------------------------
(***************************************************************************)
(* The chat page of the client (src/gui/chat/chatPage.cpp) with its two    *)
(* models, the list of chats (availableChatsModel.cpp) and the messages of *)
(* the selected chat (messagesModel.cpp), against a server that stores     *)
(* what it is sent in order and forwards what partners write.              *)
(*                                                                         *)
(* A GUI handler runs to its end or to its co_await without another in     *)
(* between.  What follows a co_await runs in a detached thread when the    *)
(* reply is there, whatever the user has done meanwhile.  What can go      *)
(* wrong with replies is ClientConnection's subject: here each request     *)
(* gets its own, or none in time, or cannot be made.                       *)
(*                                                                         *)
(* Simplified: appending the rows of a reply to a list is one step; a text *)
(* is a number of chunks; a row is a partner and a chat id (its last       *)
(* message and its time decide nothing).                                   *)
(***************************************************************************)
EXTENDS Naturals, Sequences, SequencesExt, FiniteSets

CONSTANTS
    Partner,     \* the other users
    Known,       \* those with whom there is a chat with a message at the start
    Search,      \* what is typed into the search field: the partners it matches
    MaxChunks,   \* bound: chunks of maxInputBufferSize - 1 in one text
    MaxRequests, \* bound: requests
    MaxMessages, \* bound: messages
    MaxClicks,   \* bound: clicks into the list, moves of the cursor, Escapes
    MaxFailures  \* bound: requests that fail

ASSUME PageAssumption ==
    /\ Partner \subseteq Nat \ {0} /\ IsFiniteSet(Partner)
    /\ Known \subseteq Partner
    /\ Search \subseteq SUBSET Partner
    /\ {MaxChunks, MaxRequests, MaxMessages, MaxClicks,
        MaxFailures} \subseteq Nat

NoPartner == 0
ChatUndefined == 0

\* An empty search field.
AllChats == {}

VARIABLES
    rows,         \* _availableChats: partner and chat id
    current,      \* the list view's currentIndex(), 0 when it is invalid
    lastSelected, \* lastSelectedRow, 0 for -1
    shown,        \* whose name is above the messages, NoPartner on the empty page
    messages,     \* MessageModel::_messages, each with the chat it is stored in
    typed,        \* chunks of the text in the input field
    clears,       \* queued calls of messageInput->clear()
    requests,     \* every request so far and how far it is
    toServer,     \* what is on its way to the server
    forwards,     \* forwarded messages on their way to HandleReceivedMessage
    chats,        \* the server's chats: the partner in each
    stored,       \* the server's messages of each chat
    written,      \* messages written so far
    clicks,       \* counts clicks, moves and Escapes
    failures,     \* counts requests that failed
    steady,       \* auxiliary: current is the row that was opened, and the list the same
    incidents     \* auxiliary: what has come in between so far

pageVars == <<rows, current, lastSelected, shown, messages, steady>>
inputVars == <<typed, clears>>
serverVars == <<chats, stored>>
countVars == <<written, clicks, failures>>
vars == <<pageVars, inputVars, requests, toServer, forwards, serverVars, countVars, incidents>>

Incident == {"failed",     \* a request could not be made, or had no reply in time
             "overlap",    \* a list was asked for before the last one was there
             "histories",  \* a chat was opened before the last one's messages were there
             "doubled",    \* a chat was made with a partner there was one with already
             "misfiled",   \* a new chat's id was written into another partner's row
             "unmade",     \* a row without a chat was opened over another chat's messages
             "unsteady",   \* a message was sent or received with the list changed
             "crossed",    \* a message passed a reply with the chat's messages or id
             "again"}      \* a text was sent again before the field was cleared

Kind == {"list", "history", "create"}
Stage == {"asked", "sent", "answered", "filled", "done"}

InFlight(kind) ==
    {i \in DOMAIN requests : requests[i].kind = kind /\ requests[i].stage # "done"}

TypeOK ==
    /\ rows \in Seq([partner : Partner, id : Nat])
    /\ current \in Nat /\ lastSelected \in Nat
    /\ shown \in Partner \cup {NoPartner}
    /\ \A i \in DOMAIN messages : messages[i].chat \in DOMAIN chats
    /\ typed \in 0 .. MaxChunks
    /\ clears \in Nat
    /\ \A i \in DOMAIN requests : requests[i].kind \in Kind /\ requests[i].stage \in Stage
    /\ \A i \in DOMAIN toServer :
          \/ toServer[i].request \in DOMAIN requests
          \/ toServer[i].chat \in DOMAIN chats
    /\ chats \in Seq(Partner)
    /\ DOMAIN stored = DOMAIN chats
    /\ steady \in BOOLEAN
    /\ incidents \subseteq Incident

----------------------------------------------------------------------------
(* Requests.                                                               *)

Noted(condition, incident) == IF condition THEN {incident} ELSE {}

\* A coroutine starts its request's thread and suspends.
Request(kind, for, row) ==
    [kind |-> kind, for |-> for, row |-> row, stage |-> "asked", answer |-> <<>>]

Ask(kind, for, row) ==
    /\ Len(requests) < MaxRequests
    /\ requests' = Append(requests, Request(kind, for, row))

\* requests with i in another stage; its answer is used up by the last one.
InStage(i, stage) == [requests EXCEPT ![i].stage = stage]
Finished(i) == [InStage(i, "done") EXCEPT ![i].answer = <<>>]

Fail ==
    /\ failures < MaxFailures
    /\ failures' = failures + 1
    /\ incidents' = incidents \cup {"failed"}

IdAt(row) == IF row \in DOMAIN rows THEN rows[row].id ELSE ChatUndefined
PartnerAt(row) == IF row \in DOMAIN rows THEN rows[row].partner ELSE NoPartner

----------------------------------------------------------------------------
(* The list of chats.                                                      *)

Reset_KeepsRows == UNCHANGED rows

Reset == rows' = <<>>

\* SetAllAvailableChats, SetMatchingChats: beginResetModel, clear, request.
\* The view keeps its current row until endResetModel.
BeginList(search) ==
    /\ Ask("list", search, 0)
    /\ Reset
    /\ steady' = FALSE

ListOverlap == Noted(InFlight("list") # {}, "overlap")

\* OnSearchInputTextChanged; PreparePage, but for what it hides.
ChangeSearch(search) ==
    /\ BeginList(search)
    /\ incidents' = incidents \cup ListOverlap
    /\ UNCHANGED <<current, lastSelected, shown, messages, inputVars, toServer, forwards,
                   serverVars, countVars>>

\* PreparePage, again: the list is asked for, and ToggleUiElements closes the
\* chat.
PreparePage ==
    /\ BeginList(AllChats)
    /\ lastSelected' = 0
    /\ shown' = NoPartner
    /\ incidents' = incidents \cup ListOverlap
    /\ UNCHANGED <<current, messages, inputVars, toServer, forwards, serverVars, countVars>>

\* The coroutine goes on in its thread and appends what it was answered.
FillList(i) ==
    /\ requests[i].kind = "list" /\ requests[i].stage = "answered"
    /\ rows' = rows \o requests[i].answer
    /\ requests' = InStage(i, "filled")
    /\ UNCHANGED <<current, lastSelected, shown, messages, inputVars, toServer, forwards,
                   serverVars, countVars, steady, incidents>>

EndResetList_IfAny(i) ==
    /\ requests[i].kind = "list" /\ requests[i].stage = "filled"
    /\ rows # <<>>
    /\ current' = 0
    /\ steady' = FALSE
    /\ requests' = Finished(i)
    /\ UNCHANGED <<rows, lastSelected, shown, messages, inputVars, toServer, forwards,
                   serverVars, countVars, incidents>>

\* endResetModel: the view has no current row any more; lastSelectedRow stays.
EndResetList(i) ==
    /\ requests[i].kind = "list" /\ requests[i].stage = "filled"
    /\ current' = 0
    /\ steady' = FALSE
    /\ requests' = Finished(i)
    /\ UNCHANGED <<rows, lastSelected, shown, messages, inputVars, toServer, forwards,
                   serverVars, countVars, incidents>>

----------------------------------------------------------------------------
(* Opening a chat.                                                         *)

CountClick == clicks < MaxClicks /\ clicks' = clicks + 1

\* A click on the row that was opened last does nothing but make it current.
ClickSameRow(row) ==
    /\ row \in DOMAIN rows /\ CountClick
    /\ lastSelected = row
    /\ current' = row
    /\ UNCHANGED <<rows, lastSelected, shown, messages, inputVars, requests, toServer,
                   forwards, serverVars, written, failures, steady, incidents>>

OpenChat_KeepsCurrent(row) ==
    /\ row \in DOMAIN rows /\ CountClick
    /\ lastSelected # row
    /\ lastSelected' = row
    /\ shown' = rows[row].partner
    /\ typed' = 0
    /\ steady' = TRUE
    /\ IF rows[row].id = ChatUndefined
       THEN /\ incidents' = incidents \cup Noted(messages # <<>>, "unmade")
                                      \cup Noted(InFlight("history") # {}, "histories")
            /\ UNCHANGED requests
       ELSE /\ Ask("history", rows[row].id, 0)
            /\ incidents' = incidents \cup Noted(InFlight("history") # {}, "histories")
    /\ UNCHANGED <<rows, current, messages, clears, toServer, forwards, serverVars, written, failures>>

\* OnChatSelected, GetAllMessages.
OpenChat(row) ==
    /\ row \in DOMAIN rows /\ CountClick
    /\ lastSelected # row
    /\ current' = row
    /\ lastSelected' = row
    /\ shown' = rows[row].partner
    /\ typed' = 0
    /\ steady' = TRUE
    /\ IF rows[row].id = ChatUndefined
       THEN /\ incidents' = incidents \cup Noted(messages # <<>>, "unmade")
                                      \cup Noted(InFlight("history") # {}, "histories")
            /\ UNCHANGED requests
       ELSE /\ Ask("history", rows[row].id, 0)
            /\ incidents' = incidents \cup Noted(InFlight("history") # {}, "histories")
    /\ UNCHANGED <<rows, messages, clears, toServer, forwards, serverVars, written, failures>>

ShowMessages_Appends(i) ==
    /\ requests[i].kind = "history" /\ requests[i].stage = "answered"
    /\ messages' = messages \o requests[i].answer
    /\ requests' = Finished(i)
    /\ UNCHANGED <<rows, current, lastSelected, shown, steady, inputVars, toServer, forwards,
                   serverVars, countVars, incidents>>

\* The rest of GetAllMessages, in its thread.
ShowMessages(i) ==
    /\ requests[i].kind = "history" /\ requests[i].stage = "answered"
    /\ messages' = requests[i].answer
    /\ requests' = Finished(i)
    /\ UNCHANGED <<rows, current, lastSelected, shown, steady, inputVars, toServer, forwards,
                   serverVars, countVars, incidents>>

\* The arrow keys move the list's current row and open nothing.
MoveCurrent(row) ==
    /\ row \in DOMAIN rows /\ row # current /\ CountClick
    /\ current' = row
    /\ steady' = FALSE
    /\ UNCHANGED <<rows, lastSelected, shown, messages, inputVars, requests, toServer,
                   forwards, serverVars, written, failures, incidents>>

\* ToggleUiElements: the empty page; the row stays the list's current one.
CloseChat ==
    /\ shown # NoPartner /\ CountClick
    /\ shown' = NoPartner
    /\ lastSelected' = 0
    /\ UNCHANGED <<rows, current, messages, inputVars, requests, toServer, forwards,
                   serverVars, written, failures, steady, incidents>>

----------------------------------------------------------------------------
(* Sending.                                                                *)

Type ==
    /\ shown # NoPartner /\ typed = 0
    /\ typed' \in 1 .. MaxChunks
    /\ UNCHANGED <<pageVars, clears, requests, toServer, forwards, serverVars, countVars, incidents>>

Chunks(chat) == [k \in 1 .. typed |-> [chat |-> chat, number |-> written + k]]

\* A reply with the messages of the chat that would not have these in it.
Crossing(chat) ==
    \E i \in InFlight("history") :
        requests[i].for = chat /\ requests[i].stage \in {"sent", "answered"}

CanPress == shown # NoPartner /\ typed > 0

\* OnSendButtonPressed with a chat: every chunk is sent and shown, and the
\* field is to be cleared later.
SendText(chat) ==
    /\ CanPress /\ chat # ChatUndefined
    /\ chat = IdAt(current)
    /\ written + typed <= MaxMessages
    /\ toServer' = toServer \o [k \in 1 .. typed |->
           [request |-> 0, chat |-> chat, number |-> written + k,
            meant |-> shown, steady |-> steady]]
    /\ messages' = messages \o Chunks(chat)
    /\ written' = written + typed
    /\ clears' = clears + 1
    /\ incidents' = incidents \cup Noted(clears > 0, "again")
                              \cup Noted(~steady, "unsteady")
                              \cup Noted(Crossing(chat), "crossed")
    /\ UNCHANGED <<rows, current, lastSelected, shown, steady, typed, requests, forwards,
                   serverVars, clicks, failures>>

\* SendMessage without an instance: the chunks are shown all the same.
SendTextNowhere(chat) ==
    /\ CanPress /\ chat # ChatUndefined
    /\ chat = IdAt(current)
    /\ written + typed <= MaxMessages
    /\ messages' = messages \o Chunks(chat)
    /\ written' = written + typed
    /\ clears' = clears + 1
    /\ Fail
    /\ UNCHANGED <<rows, current, lastSelected, shown, steady, typed, requests, toServer,
                   forwards, serverVars, clicks>>

ClearInput ==
    /\ clears > 0
    /\ clears' = clears - 1
    /\ typed' = 0
    /\ UNCHANGED <<pageVars, requests, toServer, forwards, serverVars, countVars,
                   incidents>>

\* OnSendButtonPressed without a chat: one is asked for, with whoever is in
\* the current row, nobody if there is none; the text is not sent.
CreateChat ==
    /\ CanPress /\ IdAt(current) = ChatUndefined
    /\ Ask("create", PartnerAt(current), current)
    /\ UNCHANGED <<pageVars, inputVars, toServer, forwards, serverVars, countVars, incidents>>

FileNewChat_FirstRow(i) ==
    LET id == IF requests[i].answer = <<>> THEN ChatUndefined ELSE requests[i].answer[1] IN
    /\ requests[i].kind = "create" /\ requests[i].stage = "answered"
    /\ rows' = IF rows # <<>> THEN [rows EXCEPT ![1].id = id] ELSE rows
    /\ requests' = Finished(i)
    /\ incidents' = incidents \cup Noted(PartnerAt(requests[i].row) # requests[i].for, "misfiled")
    /\ UNCHANGED <<current, lastSelected, shown, messages, steady, inputVars, toServer,
                   forwards, serverVars, countVars>>

\* It goes on in its thread: the id goes into the row with the number that
\* was current then, and the coroutine ends, because its chatId is still 0.
FileNewChat(i) ==
    LET row == requests[i].row
        id == IF requests[i].answer = <<>> THEN ChatUndefined ELSE requests[i].answer[1]
    IN
    /\ requests[i].kind = "create" /\ requests[i].stage = "answered"
    /\ rows' = IF row \in DOMAIN rows THEN [rows EXCEPT ![row].id = id] ELSE rows
    /\ requests' = Finished(i)
    /\ incidents' = incidents \cup Noted(PartnerAt(row) # requests[i].for, "misfiled")
    /\ UNCHANGED <<current, lastSelected, shown, messages, steady, inputVars, toServer,
                   forwards, serverVars, countVars>>

----------------------------------------------------------------------------
(* Receiving.                                                              *)

\* A reply that does not know the message is there and not handled: the
\* chat's messages without it, or the id of the new chat it is in.
Overtakes(chat) ==
    \E i \in DOMAIN requests :
        /\ requests[i].stage = "answered"
        /\ \/ requests[i].kind = "history" /\ requests[i].for = chat
           \/ requests[i].kind = "create" /\ requests[i].answer = <<chat>>

HandleReceivedMessage_Unchecked ==
    LET m == Head(forwards) IN
    /\ forwards # <<>>
    /\ forwards' = Tail(forwards)
    /\ shown # NoPartner
    /\ messages' = Append(messages, m)
    /\ incidents' = incidents \cup Noted(IdAt(current) = m.chat /\ ~steady, "unsteady")
    /\ UNCHANGED <<rows, current, lastSelected, shown, steady, inputVars, requests, toServer,
                   serverVars, countVars>>

\* HandleReceivedMessage, queued to the GUI by the receive thread's callback.
\* A chat that is not in the list has the list asked for, before the current
\* row is looked at.
HandleReceivedMessage ==
    LET m == Head(forwards)
        known == \E r \in DOMAIN rows : rows[r].id = m.chat
        isShown == known /\ IdAt(current) = m.chat
    IN
    /\ forwards # <<>>
    /\ forwards' = Tail(forwards)
    /\ IF known THEN UNCHANGED <<rows, requests, steady>> ELSE BeginList(AllChats)
    /\ messages' = IF isShown THEN Append(messages, m) ELSE messages
    /\ incidents' = incidents
           \cup (IF known THEN {} ELSE ListOverlap)
           \cup Noted(isShown /\ ~steady, "unsteady")
           \cup Noted(Overtakes(m.chat), "crossed")
    /\ UNCHANGED <<current, lastSelected, shown, inputVars, toServer, serverVars, countVars>>

----------------------------------------------------------------------------
(* The threads of the requests, and the server.                            *)

\* The request's thread sends it.
SendRequest(i) ==
    /\ requests[i].stage = "asked"
    /\ requests' = InStage(i, "sent")
    /\ toServer' = Append(toServer, [request |-> i])
    /\ UNCHANGED <<pageVars, inputVars, forwards, serverVars, countVars, incidents>>

\* There is no instance: the coroutine is resumed with nullopt.  A list stays
\* in its reset, a creation writes 0 into its row.
CannotAsk(i) ==
    /\ requests[i].stage = "asked"
    /\ requests' = IF requests[i].kind = "create" THEN InStage(i, "answered") ELSE Finished(i)
    /\ Fail
    /\ UNCHANGED <<pageVars, inputVars, toServer, forwards, serverVars, written, clicks>>

\* GetServerResponse gives up and returns an empty value, which is one.
TimeOut(i) ==
    /\ requests[i].stage = "sent"
    /\ requests' = InStage(i, "answered")
    /\ Fail
    /\ UNCHANGED <<pageVars, inputVars, toServer, forwards, serverVars, written, clicks>>

\* What the server answers to a list: the chats with messages, and for a
\* search also the users it matches with whom there is no chat (server.cpp
\* 593-635, 735-752; ChatQueries has the queries themselves).  There is no
\* ORDER BY: the rows come in some order.
ListRows(search) ==
    {[partner |-> chats[c], id |-> c] :
         c \in {c \in DOMAIN chats :
                   stored[c] # <<>> /\ (search = AllChats \/ chats[c] \in search)}}
    \cup {[partner |-> p, id |-> ChatUndefined] :
             p \in {p \in search : \A c \in DOMAIN chats : chats[c] # p}}

Answer(i) ==
    CASE requests[i].kind = "list" -> SetToSeq(ListRows(requests[i].for))
      [] requests[i].kind = "history" -> stored[requests[i].for]
      [] requests[i].kind = "create" -> <<Len(chats) + 1>>

\* A forwarded message of the chat is stored, and not handled here yet.
Underway(chat) == \E k \in DOMAIN forwards : forwards[k].chat = chat

\* The server takes what it is sent in order.
StoreMessage ==
    LET m == Head(toServer) IN
    /\ toServer # <<>> /\ m.request = 0
    /\ toServer' = Tail(toServer)
    /\ stored' = [stored EXCEPT ![m.chat] = Append(@, [chat |-> m.chat, number |-> m.number])]
    /\ UNCHANGED <<pageVars, inputVars, requests, forwards, chats, countVars, incidents>>

AnswerRequest_ChatWithNobody ==
    LET i == Head(toServer).request
        r == requests[i]
    IN
    /\ toServer # <<>> /\ i # 0
    /\ toServer' = Tail(toServer)
    /\ requests' = IF r.stage # "sent" THEN requests
                   ELSE [requests EXCEPT ![i].stage = "answered", ![i].answer = Answer(i)]
    /\ IF r.kind = "create"
       THEN chats' = Append(chats, r.for) /\ stored' = Append(stored, <<>>)
       ELSE UNCHANGED serverVars
    /\ UNCHANGED <<pageVars, inputVars, forwards, countVars, incidents>>

AnswerRequest ==
    LET i == Head(toServer).request
        r == requests[i]
    IN
    /\ toServer # <<>> /\ i # 0
    /\ toServer' = Tail(toServer)
    /\ requests' = IF r.stage # "sent" THEN requests
                   ELSE [requests EXCEPT ![i].stage = "answered", ![i].answer = Answer(i)]
    /\ IF r.kind = "create"
       THEN /\ r.for # NoPartner
            /\ chats' = Append(chats, r.for)
            /\ stored' = Append(stored, <<>>)
       ELSE UNCHANGED serverVars
    /\ incidents' = incidents
           \cup Noted(r.kind = "history" /\ Underway(r.for), "crossed")
           \cup Noted(r.kind = "create" /\ \E c \in DOMAIN chats : chats[c] = r.for, "doubled")
    /\ UNCHANGED <<pageVars, inputVars, forwards, countVars>>

\* kServerError, which no request hears of: a chat with nobody (a key column
\* is NULL), or any exception of the database.
RefuseRequest ==
    LET i == Head(toServer).request IN
    /\ toServer # <<>> /\ i # 0
    /\ \/ requests[i].kind = "create" /\ requests[i].for = NoPartner
       \/ failures < MaxFailures
    /\ toServer' = Tail(toServer)
    /\ UNCHANGED <<pageVars, inputVars, requests, forwards, serverVars, countVars, incidents>>

\* A partner writes in a chat, or in a new one.
PartnerWrites(p) ==
    /\ written < MaxMessages
    /\ written' = written + 1
    /\ \/ \E c \in DOMAIN chats : LET m == [chat |-> c, number |-> written + 1] IN
             /\ chats[c] = p
             /\ stored' = [stored EXCEPT ![c] = Append(@, m)]
             /\ forwards' = Append(forwards, m)
             /\ UNCHANGED chats
       \/ LET m == [chat |-> Len(chats) + 1, number |-> written + 1] IN
             /\ \A c \in DOMAIN chats : chats[c] # p
             /\ chats' = Append(chats, p)
             /\ stored' = Append(stored, <<m>>)
             /\ forwards' = Append(forwards, m)
    /\ UNCHANGED <<pageVars, inputVars, requests, toServer, clicks, failures, incidents>>

----------------------------------------------------------------------------
\* The page after its construction and PreparePage: its list is asked for.
Init ==
    LET known == SetToSeq(Known) IN
    /\ rows = <<>>
    /\ current = 0
    /\ lastSelected = 0
    /\ shown = NoPartner
    /\ messages = <<>>
    /\ typed = 0
    /\ clears = 0
    /\ requests = <<Request("list", AllChats, 0)>>
    /\ toServer = <<>>
    /\ forwards = <<>>
    /\ chats = known
    /\ stored = [c \in DOMAIN known |-> <<[chat |-> c, number |-> 0]>>]
    /\ written = 0
    /\ clicks = 0
    /\ failures = 0
    /\ steady = FALSE
    /\ incidents = {}

Gui ==
    \/ \E s \in Search \cup {AllChats} : ChangeSearch(s)
    \/ PreparePage
    \/ \E r \in DOMAIN rows : ClickSameRow(r) \/ OpenChat(r) \/ MoveCurrent(r)
    \/ CloseChat
    \/ Type
    \/ \E c \in DOMAIN chats : SendText(c) \/ SendTextNowhere(c)
    \/ CreateChat

Resume(i) == FillList(i) \/ EndResetList(i) \/ ShowMessages(i) \/ FileNewChat(i)

Next ==
    \/ Gui
    \/ ClearInput
    \/ HandleReceivedMessage
    \/ \E i \in DOMAIN requests :
          SendRequest(i) \/ CannotAsk(i) \/ TimeOut(i) \/ Resume(i)
    \/ StoreMessage \/ AnswerRequest \/ RefuseRequest
    \/ \E p \in Partner : PartnerWrites(p)

Spec == Init /\ [][Next]_vars

\* The threads of the requests go on, and wait_for gives up.  Nothing is
\* asked of the user or of the server.
FairSpec ==
    /\ Spec
    /\ \A i \in 1 .. MaxRequests :
          WF_vars(i \in DOMAIN requests /\ (SendRequest(i) \/ TimeOut(i) \/ Resume(i)))

----------------------------------------------------------------------------
(* Properties.                                                             *)

\* A text goes to the partner whose name is above the messages, although the
\* chat is that of the list's current row (chatPage.cpp:286) and the name that
\* of the row clicked last (chatPage.cpp:250-263): for as long as the list is
\* the one clicked into, and no id was written into a wrong row.
SentToShown ==
    "misfiled" \notin incidents =>
        \A k \in DOMAIN toServer :
            toServer[k].request = 0 /\ toServer[k].steady =>
                chats[toServer[k].chat] = toServer[k].meant

\* The id in a row is that of a chat with the row's partner, through every
\* reset of the list and every reply, unless the list changed while a chat was
\* created (chatPage.cpp:299-306: the index is from before the co_await).
RowsLeadToPartner ==
    "misfiled" \notin incidents =>
        \A r \in DOMAIN rows : rows[r].id # ChatUndefined =>
            rows[r].id \in DOMAIN chats /\ chats[rows[r].id] = rows[r].partner

\* The list shows no chat twice, although every reset appends to what is
\* there, and an id is written into a row of a list that may be newer: two
\* answers are only mixed if a list was asked for before the last one had come
\* (availableChatsModel.cpp:54-93), and an id only comes twice if a chat was
\* created with a partner who had made one meanwhile (chatPage.cpp:301-306).
NoChatTwice ==
    {"overlap", "doubled"} \cap incidents = {} =>
        \A q, r \in DOMAIN rows : q # r => rows[q].partner # rows[r].partner

Disturbed == incidents \cap {"failed", "histories", "doubled", "misfiled", "unmade", "unsteady"} # {}

\* The messages under a partner's name are those of a chat with that partner
\* once the chat's messages have come.
MessagesOfShown ==
    ~Disturbed /\ shown # NoPartner /\ InFlight("history") = {} =>
        \A k \in DOMAIN messages : chats[messages[k].chat] = shown

\* When nothing is on its way any more, the open chat shows exactly what the
\* server has stored of it: no message is missing, and none is there twice,
\* unless a message crossed the reply with the chat's messages
\* (messagesModel.cpp:42-57, chatPage.cpp:311-313, 411).
ViewIsComplete ==
    /\ ~Disturbed /\ "crossed" \notin incidents
    /\ shown # NoPartner /\ steady /\ IdAt(current) # ChatUndefined
    /\ InFlight("history") = {} /\ toServer = <<>> /\ forwards = <<>>
    => /\ ToSet(messages) = ToSet(stored[IdAt(current)])
       /\ Len(messages) = Len(stored[IdAt(current)])

\* Every request for a list ends the reset it began, whatever the server
\* does, unless it could not be made (availableChatsModel.cpp:64, 85).
ListResetEnds ==
    \A i \in 1 .. MaxRequests :
        (i \in InFlight("list")) ~> (i \notin InFlight("list"))
=============================================================================
