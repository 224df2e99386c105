---------------------------- MODULE WireProtocol ----------------------------
(***************************************************************************)
(* One direction of a connection between a client and the server: requests *)
(* (src/client/client.cpp 47-118, read by src/server/server.cpp) or        *)
(* replies and forwarded messages (written by server.cpp, read by          *)
(* client.cpp 120-360).                                                    *)
(*                                                                         *)
(* A packet is written field by field, one send() each, by one of several  *)
(* threads that share the socket without a lock: the threads of a client's *)
(* requests, or the thread that serves a client and those that forward     *)
(* messages to it.  One thread reads, field by field, one recv() each, and *)
(* ignores how many bytes it got.  What the writers send and what the      *)
(* reader expects are two translations of two pieces of code.              *)
(*                                                                         *)
(* A byte is named by its packet, field and place, so that it shows where  *)
(* it was meant to go.  The values of ids and texts are left out.          *)
(***************************************************************************)
EXTENDS Naturals, Sequences, SequencesExt

CONSTANTS
    Writer,       \* threads that write to the socket
    Handler,      \* of the server's threads the one that serves the connection
    Request,      \* packets a client may write: a kind and a row of text lengths
    Reply,        \* packets the server may write, with a row per entry of a list
    NumberWidth,  \* bytes of a size_t
    NameSize,     \* userNameSize, userLoginSize (50)
    InputSize,    \* maxInputBufferSize (4097)
    TimeSize,     \* maxLastMessageSendTimeSize (30)
    ResponseSize, \* serverResponseSize (255)
    WireSize,     \* send() waits while so many bytes are on their way
    MaxPackets    \* bound: packets written

ASSUME WireAssumption ==
    /\ Handler \in Writer
    /\ {NumberWidth, WireSize} \subseteq Nat \ {0}
    /\ {NameSize, InputSize, TimeSize, ResponseSize, MaxPackets} \subseteq Nat

\* Lengths of the texts that go into a buffer, the final zero with them.
TextFor(capacity) == 0 .. capacity - 1

\* The forms limit the names, the chat page sends its text in chunks, and the
\* server's errors and times are shorter than their buffers.
ASSUME PacketAssumption ==
    /\ \A p \in Request :
          \/ p.kind = "chatPacket"
          \/ p.kind = "userPacket" /\ p.rows[1] \in TextFor(NameSize) \X TextFor(NameSize)
          \/ /\ p.kind \in {"createNewPersonalChat", "sendChatMessage"}
             /\ p.rows[1][1] \in TextFor(InputSize)
    /\ \A p \in Reply :
          \/ p.kind \in {"id", "result"}
          \/ p.kind \in {"userName", "serverError"} /\ p.rows[1][1] \in TextFor(ResponseSize)
          \/ p.kind = "sendChatMessage" /\ p.rows[1][2] \in TextFor(TimeSize)
          \/ /\ p.kind = "chats"
             /\ p.rows \in Seq(TextFor(NameSize) \X TextFor(InputSize + 1)
                                   \X TextFor(InputSize + 1) \X TextFor(TimeSize))
          \/ /\ p.kind = "allMessages"
             /\ p.rows \in Seq(TextFor(InputSize + 1) \X TextFor(TimeSize))

VARIABLES
    direction,   \* "requests" or "replies"
    written,     \* packets in the order of their first bytes
    sending,     \* each writer's packet: its number, the next field, or idle
    wire,        \* bytes sent and not received
    ended,       \* the writers' end is closed
    reading,     \* the reader's packet: what it has read, what it expects
    handled,     \* packets the reader has acted on; whole, or cut short
    inStep,      \* the reader has only read the fields it meant to read
    interleaved, \* auxiliary: a writer wrote inside another's packet
    shortRead    \* auxiliary: recv() returned a part of a field

auxVars == <<interleaved, shortRead>>
vars == <<direction, written, sending, wire, ended, reading, handled, inStep, auxVars>>

Packet == IF direction = "requests" THEN Request ELSE Reply

----------------------------------------------------------------------------
(* What the writers send.                                                  *)

Field(is, value, width) == [is |-> is, value |-> value, width |-> width]

Id == Field("id", 0, NumberWidth)
Flag == Field("flag", 0, 1)
Sized(n) == <<Field("size", n, NumberWidth), Field("text", n, n)>>
Counted(rows) == <<Field("count", Len(rows), NumberWidth)>> \o FlattenSeq(rows)

\* SendUserCredentialsPacket: name, login, password, id.
UserPacketFields(row) == Sized(row[1]) \o Sized(row[2]) \o <<Id, Id>>

\* SendChatInfoPacket: user, chat.
ChatPacketFields == <<Id, Id>>

\* CreateNewPersonalChat: sender, receiver's name.
NewChatFields(row) == <<Id>> \o Sized(row[1])

\* SendUserMessage: chat, sender, text.
MessageFields(row) == <<Id, Id>> \o Sized(row[1])

RequestFields(p) ==
    CASE p.kind = "userPacket" -> UserPacketFields(p.rows[1])
      [] p.kind = "chatPacket" -> ChatPacketFields
      [] p.kind = "createNewPersonalChat" -> NewChatFields(p.rows[1])
      [] p.kind = "sendChatMessage" -> MessageFields(p.rows[1])

\* HandleCreateNewPersonalChat, HandleGetUserIdFromDatabase.
IdReplyFields == <<Id>>

\* HandleAddUserCredentialsToDatabase, HandleCheckUserExistence,
\* HandleCheckIsUserDataFromFileValid.
ResultReplyFields == <<Flag>>

\* HandleGetUserNameFromDatabase; SendServerErrorMessage.
TextReplyFields(row) == Sized(row[1])

\* HandleSendChatMessage to the receiver: message.size() is the size of the
\* std::array, whatever the text in it.
ForwardedFields(row) == Sized(InputSize) \o Sized(row[2]) \o <<Id>>

\* HandleFindMatchingChats, HandleGetAvailableChatsForUser: id, name, last
\* message, its time, photo.
ChatRowFields(row) ==
    <<Id>> \o Sized(row[1]) \o Sized(row[2]) \o Sized(row[3]) \o Sized(row[4])

\* HandleReceiveAllMessagesForSelectedChat: text, status, time.
HistoryRowFields(row) == Sized(row[1]) \o <<Flag>> \o Sized(row[2])

ReplyFields(p) ==
    CASE p.kind = "id" -> IdReplyFields
      [] p.kind = "result" -> ResultReplyFields
      [] p.kind \in {"userName", "serverError"} -> TextReplyFields(p.rows[1])
      [] p.kind = "sendChatMessage" -> ForwardedFields(p.rows[1])
      [] p.kind = "chats" -> Counted([i \in DOMAIN p.rows |-> ChatRowFields(p.rows[i])])
      [] p.kind = "allMessages" -> Counted([i \in DOMAIN p.rows |-> HistoryRowFields(p.rows[i])])

\* Every packet begins with its ActionType, one byte.
Fields(p) ==
    <<Field("type", 0, 1)>>
        \o (IF direction = "requests" THEN RequestFields(p) ELSE ReplyFields(p))

\* Only the thread that serves a client replies to it; any may forward to it.
MayWrite(w, p) == direction = "requests" \/ p.kind = "sendChatMessage" \/ w = Handler

----------------------------------------------------------------------------
(* What the reader expects.  A text goes into a buffer of some capacity.   *)

Expect(is, capacity) == [is |-> is, capacity |-> capacity]

AnId == Expect("id", 0)
AFlag == Expect("flag", 0)
ACount == Expect("count", 0)
SizedInto(capacity) == <<Expect("size", 0), Expect("text", capacity)>>

\* Server::ReceiveUserCredentialsPacket
ExpectUserPacket == SizedInto(NameSize) \o SizedInto(NameSize) \o <<AnId, AnId>>

\* HandleSendChatMessage
ExpectMessage == <<AnId, AnId>> \o SizedInto(InputSize)

\* The handlers of HandleAction.
ExpectRequest(kind) ==
    CASE kind = "userPacket" -> ExpectUserPacket
      [] kind = "chatPacket" -> <<AnId, AnId>>
      [] kind = "createNewPersonalChat" -> <<AnId>> \o SizedInto(InputSize)
      [] kind = "sendChatMessage" -> ExpectMessage

ExpectForwarded_ServersSize ==
    SizedInto(InputSize) \o SizedInto(TimeSize) \o <<AnId>>

ExpectForwarded == SizedInto(InputSize + 1) \o SizedInto(TimeSize) \o <<AnId>>

\* The switch of Client::ReceiveThread().
ExpectReply(kind) ==
    CASE kind = "id" -> <<AnId>>
      [] kind = "result" -> <<AFlag>>
      [] kind \in {"userName", "serverError"} -> SizedInto(ResponseSize)
      [] kind = "sendChatMessage" -> ExpectForwarded
      [] kind \in {"chats", "allMessages"} -> <<ACount>>

ExpectChatRow_NoPhoto ==
    <<AnId>> \o SizedInto(NameSize) \o SizedInto(InputSize + 1) \o SizedInto(InputSize + 1)

ExpectChatRow ==
    <<AnId>> \o SizedInto(NameSize) \o SizedInto(InputSize + 1)
        \o SizedInto(InputSize + 1) \o SizedInto(TimeSize)

ExpectHistoryRow == SizedInto(InputSize + 1) \o <<AFlag>> \o SizedInto(TimeSize)

Expected(kind) == IF direction = "requests" THEN ExpectRequest(kind) ELSE ExpectReply(kind)

\* The loops that run as often as the count says.
ExpectedRows(kind, count) ==
    LET row == IF kind = "chats" THEN ExpectChatRow ELSE ExpectHistoryRow
    IN  FlattenSeq([i \in 1 .. count |-> row])

----------------------------------------------------------------------------
Idle == [packet |-> 0, field |-> 0]
AtType == [packet |-> 0, field |-> 1, left |-> <<>>, size |-> 0, whole |-> TRUE]

PacketNumber == 1 .. MaxPackets

TypeOK ==
    /\ direction \in {"requests", "replies"}
    /\ written \in Seq(Packet) /\ Len(written) <= MaxPackets
    /\ \A w \in Writer :
           \/ sending[w] = Idle
           \/ /\ sending[w].packet \in DOMAIN written
              /\ sending[w].field \in DOMAIN Fields(written[sending[w].packet])
    /\ wire \in Seq(PacketNumber \X (Nat \ {0}) \X (Nat \ {0}))
    /\ handled \in Seq([packet : PacketNumber, whole : BOOLEAN])
    /\ reading.packet \in PacketNumber \cup {0}
    /\ reading.field \in Nat \ {0}
    /\ reading.size \in Nat
    /\ reading.whole \in BOOLEAN
    /\ {ended, inStep, interleaved, shortRead} \subseteq BOOLEAN

Init ==
    /\ direction \in {"requests", "replies"}
    /\ written = <<>>
    /\ sending = [w \in Writer |-> Idle]
    /\ wire = <<>>
    /\ ended = FALSE
    /\ reading = AtType
    /\ handled = <<>>
    /\ inStep = TRUE
    /\ interleaved = FALSE
    /\ shortRead = FALSE

----------------------------------------------------------------------------
(* The writers.                                                            *)

Bytes(i, f) == [k \in 1 .. Fields(written[i])[f].width |-> <<i, f, k>>]

NoteInterleaving(w) ==
    interleaved' = (interleaved \/ \E v \in Writer \ {w} : sending[v] # Idle)

CanSend == ~ended /\ Len(wire) < WireSize

\* send() of the ActionType.
BeginPacket(w) ==
    /\ sending[w] = Idle /\ CanSend
    /\ Len(written) < MaxPackets
    /\ \E p \in Packet : MayWrite(w, p) /\ written' = Append(written, p)
    /\ wire' = Append(wire, <<Len(written) + 1, 1, 1>>)
    /\ sending' = [sending EXCEPT ![w] = [packet |-> Len(written) + 1, field |-> 2]]
    /\ NoteInterleaving(w)
    /\ UNCHANGED <<direction, ended, reading, handled, inStep, shortRead>>

SendField_PastLast(w) ==
    LET s == sending[w] IN
    /\ s # Idle /\ CanSend
    /\ wire' = wire \o Bytes(s.packet, s.field)
    /\ sending' = [sending EXCEPT ![w] = [s EXCEPT !.field = @ + 1]]
    /\ NoteInterleaving(w)
    /\ UNCHANGED <<direction, written, ended, reading, handled, inStep, shortRead>>

\* send() of every further field.
SendField(w) ==
    LET s == sending[w]  fields == Fields(written[s.packet]) IN
    /\ s # Idle /\ CanSend
    /\ wire' = wire \o Bytes(s.packet, s.field)
    /\ sending' = [sending EXCEPT ![w] =
                      IF s.field = Len(fields) THEN Idle ELSE [s EXCEPT !.field = @ + 1]]
    /\ NoteInterleaving(w)
    /\ UNCHANGED <<direction, written, ended, reading, handled, inStep, shortRead>>

\* The writers' process ends or the connection breaks: what is on its way
\* arrives up to some byte, and nothing after it.
End ==
    /\ ~ended
    /\ ended' = TRUE
    /\ \E n \in 0 .. Len(wire) : wire' = SubSeq(wire, 1, n)
    /\ sending' = [w \in Writer |-> Idle]
    /\ UNCHANGED <<direction, written, reading, handled, inStep, auxVars>>

----------------------------------------------------------------------------
(* The reader.                                                             *)

Recv_WaitsForOne(want) ==
    IF ended /\ wire = <<>> THEN {0} ELSE {n \in 1 .. want : n <= Len(wire)}

\* How many bytes recv() may return; it waits while this is empty.
Recv(want) ==
    IF want = 0 \/ (ended /\ wire = <<>>)
    THEN {0}
    ELSE {n \in 1 .. want : n <= Len(wire)}

Take(n) == wire' = SubSeq(wire, n + 1, Len(wire))

\* The packet whose turn it is: one is handled before the next is read.
NextPacket == Len(handled) + 1

\* recv() of the ActionType; the handler, or the case, for it begins.
ReadType ==
    /\ reading.packet = 0
    /\ wire # <<>> /\ wire[1] = <<NextPacket, 1, 1>>
    /\ Take(1)
    /\ reading' = [AtType EXCEPT !.packet = NextPacket, !.field = 2,
                                 !.left = Expected(written[NextPacket].kind)]
    /\ UNCHANGED <<direction, written, sending, ended, handled, inStep, auxVars>>

Next1 == Head(reading.left)

WidthOf(e) ==
    CASE e.is \in {"id", "size", "count"} -> NumberWidth
      [] e.is = "flag" -> 1
      [] e.is = "text" -> reading.size

\* The field that was meant for this recv(), if the packet has one.
MeantField(e) ==
    LET fields == Fields(written[reading.packet]) IN
    /\ reading.field \in DOMAIN fields
    /\ fields[reading.field].is = e.is

Meant(n) == SubSeq(wire, 1, n) = SubSeq(Bytes(reading.packet, reading.field), 1, n)

\* The reader has its value v and goes on; whole says that all of it came.
Advance(v, whole) ==
    LET e == Next1
        more == IF e.is = "count" THEN ExpectedRows(written[reading.packet].kind, v) ELSE <<>>
        next == [reading EXCEPT !.field = @ + 1, !.left = Tail(@) \o more,
                                !.size = IF e.is = "size" THEN v ELSE 0,
                                !.whole = @ /\ whole]
    IN  IF next.left # <<>>
        THEN reading' = next /\ UNCHANGED handled
        ELSE /\ reading' = AtType
             /\ handled' = Append(handled, [packet |-> reading.packet, whole |-> next.whole])

\* recv() returns all of the field that was meant for it.
ReadField ==
    /\ reading.packet # 0
    /\ WidthOf(Next1) \in Recv(WidthOf(Next1))
    /\ MeantField(Next1)
    /\ SubSeq(wire, 1, WidthOf(Next1)) = Bytes(reading.packet, reading.field)
    /\ Take(WidthOf(Next1))
    /\ Advance(Fields(written[reading.packet])[reading.field].value, TRUE)
    /\ UNCHANGED <<direction, written, sending, ended, inStep, auxVars>>

MeantWidth == Fields(written[reading.packet])[reading.field].width

ReadPastEnd_NoWait ==
    /\ reading.packet # 0
    /\ MeantField(Next1)
    /\ Len(wire) < MeantWidth /\ Meant(Len(wire))
    /\ Take(Len(wire))
    /\ \E v \in 0 .. Fields(written[reading.packet])[reading.field].value :
          /\ wire = <<>> => v = 0
          /\ Advance(v, FALSE)
    /\ UNCHANGED <<direction, written, sending, ended, inStep, auxVars>>

\* The stream has ended inside the field: recv() returns the rest, or 0, and
\* the variable keeps its zero bytes.  The handler goes on with that; a text
\* whose size was cut short is asked for with what has come of it.
ReadPastEnd ==
    /\ reading.packet # 0
    /\ ended /\ MeantField(Next1)
    /\ Len(wire) < MeantWidth /\ Meant(Len(wire))
    /\ Take(Len(wire))
    /\ \E v \in 0 .. Fields(written[reading.packet])[reading.field].value :
          /\ wire = <<>> => v = 0
          /\ Advance(v, FALSE)
    /\ UNCHANGED <<direction, written, sending, ended, inStep, auxVars>>

\* recv() returns bytes of another field, or a part of this one while the
\* rest is still to come.
LoseStep ==
    /\ \/ /\ reading.packet = 0
          /\ wire # <<>> /\ wire[1] # <<NextPacket, 1, 1>>
          /\ Take(1)
          /\ UNCHANGED shortRead
       \/ /\ reading.packet # 0
          /\ \E n \in Recv(WidthOf(Next1)) :
                /\ n > 0 \/ ~MeantField(Next1)
                /\ Take(n)
                /\ \/ ~(MeantField(Next1) /\ Meant(n)) /\ UNCHANGED shortRead
                   \/ /\ MeantField(Next1) /\ Meant(n)
                      /\ n < WidthOf(Next1) /\ ~(ended /\ n = Len(wire))
                      /\ shortRead' = TRUE
    /\ inStep' = FALSE
    /\ UNCHANGED <<direction, written, sending, ended, reading, handled, interleaved>>

Read == ReadType \/ ReadField \/ ReadPastEnd \/ LoseStep

\* BOUND: nothing is followed any further once the reader is out of step.
Next ==
    /\ inStep
    /\ (\E w \in Writer : BeginPacket(w) \/ SendField(w)) \/ End \/ Read

Spec == Init /\ [][Next]_vars

\* A thread that has begun a packet goes on with it, and so does the reader.
FairSpec == Spec /\ WF_vars(inStep /\ Read) /\ \A w \in Writer : WF_vars(inStep /\ SendField(w))

----------------------------------------------------------------------------
(* Properties.                                                             *)

\* Client and server agree on every packet, field by field: the reader never
\* takes a field for another one, as long as no two threads write at once and
\* no recv() returns a part of a field (client.cpp 47-118 against server.cpp
\* 161-173, 243-255, 837-841, 918-948; server.cpp's replies against
\* client.cpp 126-349).
ReaderInStep == inStep \/ interleaved \/ shortRead

\* Packets are handled in the order they were begun, none twice and none left
\* out, and each whole but the last one of a connection that ended inside it;
\* a list that was cut short has been handled all the same.
HandledInOrder ==
    \A i \in DOMAIN handled :
        /\ handled[i].packet = i
        /\ ~handled[i].whole => ended /\ i = Len(handled) /\ reading = AtType /\ wire = <<>>

\* A text and its final zero fit the buffer they are received into, forwarded
\* messages too, whose size is that of the sender's buffer (server.cpp:322,
\* client.cpp:144-154).
FitsBuffer ==
    reading.packet # 0 /\ Next1.is = "text" => reading.size < Next1.capacity

\* What is begun gets handled in the end, unless the connection ends or the
\* reader is out of step; and what the reader has begun even if it ends.
BegunIsHandled ==
    \A i \in PacketNumber :
        /\ Len(written) >= i ~> (Len(handled) >= i \/ ended \/ ~inStep)
        /\ reading.packet = i ~> (Len(handled) >= i \/ ~inStep)
=============================================================================
