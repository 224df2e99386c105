--------------------------- MODULE ChatPageProofs ---------------------------
(***************************************************************************)
(* Proofs about the chat page and its two models: the types, that a row    *)
(* leads to its partner, that a text goes to the partner who is shown,     *)
(* that nobody is in the list twice, that the messages on the page are of  *)
(* a chat with the partner whose name is above them, and that none of them *)
(* is missing once nothing is on its way.                                  *)
(*                                                                         *)
(* All rest on BaseInv: requests, rows and what is on its way name chats   *)
(* that exist, an answer is what was asked for, and as no chat ever        *)
(* changes its partner (Grown) it stays so while replies are late.  To it  *)
(* come CurrentShown for the texts, ListsInv and AnswersDiffer for the     *)
(* list, HistoryInv for the messages, and NumbersInv and ViewsInv for all  *)
(* of them: what is shown, what an answer has and what a new chat is to    *)
(* get is what the server has stored, less what is yet to be handled.      *)
(***************************************************************************)
EXTENDS ChatPage, FiniteSetTheorems, SequenceTheorems, TLAPS

\* SetToSeq puts the elements of a finite set in some order, each once: the
\* rows of an answer, and the chats there are at the start.
LEMMA SomeOrder ==
    ASSUME NEW S, IsFiniteSet(S)
    PROVE  /\ SetToSeq(S) \in Seq(S)
           /\ \A j, k \in DOMAIN SetToSeq(S) : SetToSeq(S)[j] = SetToSeq(S)[k] => j = k
           /\ \A x \in S : \E k \in DOMAIN SetToSeq(S) : SetToSeq(S)[k] = x
<1> DEFINE n == Cardinality(S)
<1>1. n \in Nat /\ ExistsBijection(1 .. n, S)
  BY FS_CardinalityType
<1>2. PICK b \in Bijection(1 .. n, S) : TRUE
  BY <1>1 DEF ExistsBijection
<1>3. b \in [1 .. n -> S] /\ IsInjective(b)
  BY <1>2 DEF Bijection, Injection
<1>4. SetToSeq(S) \in [1 .. n -> S] /\ IsInjective(SetToSeq(S))
  BY <1>3 DEF SetToSeq
<1> DEFINE s == SetToSeq(S)
<1>5. s \in Injection(1 .. n, S)
  BY <1>4 DEF Injection
<1>6. IsFiniteSet(1 .. n) /\ Cardinality(1 .. n) = n
  BY <1>1, FS_Interval
<1>7. s \in Surjection(1 .. n, S)
  BY <1>5, <1>6, FS_Injection
<1>8. s \in Seq(S) /\ DOMAIN s = 1 .. n
  BY <1>1, <1>4, SeqDef
<1>9. \A x \in S : \E k \in 1 .. n : s[k] = x
  BY <1>7 DEF Surjection
<1> HIDE DEF s
<1>10. \A j, k \in DOMAIN s : s[j] = s[k] => j = k
  BY <1>4 DEF IsInjective, s
<1> QED
  BY <1>8, <1>9, <1>10 DEF s

\* What Append does.
LEMMA Appended ==
    ASSUME NEW S, NEW s \in Seq(S), NEW x \in S, NEW a, a = Append(s, x)
    PROVE  /\ a \in Seq(S)
           /\ DOMAIN a = DOMAIN s \cup {Len(s) + 1}
           /\ a[Len(s) + 1] = x
           /\ \A k \in DOMAIN s : a[k] = s[k]
           /\ \A k \in DOMAIN a : a[k] = x \/ (k \in DOMAIN s /\ a[k] = s[k])
<1>1. a \in Seq(S) /\ Len(a) = Len(s) + 1 /\ a[Len(s) + 1] = x
  OBVIOUS
<1>2. \A k \in 1 .. Len(s) : a[k] = s[k]
  OBVIOUS
<1>3. Len(s) \in Nat /\ DOMAIN s = 1 .. Len(s) /\ DOMAIN a = 1 .. Len(a)
  BY <1>1
<1>4. DOMAIN a = DOMAIN s \cup {Len(s) + 1}
  BY ONLY <1>1, <1>3
<1>5. \A k \in DOMAIN s : a[k] = s[k]
  BY ONLY <1>2, <1>3
<1>6. \A k \in DOMAIN a : a[k] = x \/ (k \in DOMAIN s /\ a[k] = s[k])
  BY ONLY <1>1, <1>4, <1>5
<1> QED
  BY ONLY <1>1, <1>4, <1>5, <1>6

Row == [partner : Partner, id : Nat]
Message == [chat : Nat, number : Nat]

\* The rows of an answer are finitely many.
LEMMA FiniteRows ==
    ASSUME chats \in Seq(Partner), NEW search \in SUBSET Partner
    PROVE  IsFiniteSet(ListRows(search)) /\ ListRows(search) \subseteq Row
<1> USE PageAssumption
<1> DEFINE Old == {c \in DOMAIN chats :
                       stored[c] # <<>> /\ (search = AllChats \/ chats[c] \in search)}
           New == {p \in search : \A c \in DOMAIN chats : chats[c] # p}
           f == [c \in Old |-> [partner |-> chats[c], id |-> c]]
           g == [p \in New |-> [partner |-> p, id |-> ChatUndefined]]
           F == {[partner |-> chats[c], id |-> c] : c \in Old}
           G == {[partner |-> p, id |-> ChatUndefined] : p \in New}
<1>1. IsFiniteSet(DOMAIN chats)
  BY FS_Interval
<1>2. IsFiniteSet(Old)
  BY <1>1, FS_Subset
<1>3. IsFiniteSet(New)
  BY FS_Subset
<1>4. f \in Surjection(Old, F)
  BY DEF Surjection
<1>5. g \in Surjection(New, G)
  BY DEF Surjection
<1>6. IsFiniteSet(F) /\ IsFiniteSet(G)
  BY <1>2, <1>3, <1>4, <1>5, FS_Surjection
<1>7. F \subseteq Row /\ G \subseteq Row
  <2>1. \A c \in Old : c \in Nat /\ chats[c] \in Partner
    OBVIOUS
  <2> QED
    BY <2>1 DEF Row, ChatUndefined
<1>8. ListRows(search) = F \cup G
  BY DEF ListRows
<1> HIDE DEF F, G
<1>9. IsFiniteSet(F \cup G)
  BY <1>6, FS_Union
<1> QED
  BY <1>7, <1>8, <1>9

----------------------------------------------------------------------------
\* What a request carries, by its kind.
ListRequest ==
    [kind : {"list"}, for : SUBSET Partner, row : Nat, stage : Stage, answer : Seq(Row)]
HistoryRequest ==
    [kind : {"history"}, for : Nat, row : Nat, stage : Stage, answer : Seq(Message)]
CreateRequest ==
    [kind : {"create"}, for : Partner \cup {NoPartner}, row : Nat, stage : Stage,
     answer : Seq(Nat)]
AnyRequest == ListRequest \cup HistoryRequest \cup CreateRequest

\* What is on its way to the server.
Asking == [request : Nat \ {0}]
Sending ==
    [request : {0}, chat : Nat, number : Nat, meant : Partner, steady : BOOLEAN]

\* The types of the page's variables, and of the others.
PageTypes ==
    /\ rows \in Seq(Row)
    /\ current \in Nat /\ lastSelected \in Nat
    /\ shown \in Partner \cup {NoPartner}
    /\ messages \in Seq(Message)
    /\ steady \in BOOLEAN
    /\ typed \in 0 .. MaxChunks /\ clears \in Nat
    /\ written \in Nat /\ clicks \in Nat /\ failures \in Nat

NetTypes ==
    /\ requests \in Seq(AnyRequest)
    /\ toServer \in Seq(Asking \cup Sending)
    /\ forwards \in Seq(Message)
    /\ chats \in Seq(Partner)
    /\ stored \in Seq(Seq(Message)) /\ Len(stored) = Len(chats)
    /\ incidents \subseteq Incident

\* The chat a row leads to, if any, is one with the row's partner.
LeadsTo(cs, row) ==
    row.id # ChatUndefined => row.id \in DOMAIN cs /\ cs[row.id] = row.partner

\* What was answered is what was asked for.
RightAnswer(cs, r) ==
    /\ r.kind = "list" => \A k \in DOMAIN r.answer : LeadsTo(cs, r.answer[k])
    /\ r.kind = "history" =>
          /\ r.for \in DOMAIN cs
          /\ \A k \in DOMAIN r.answer : r.answer[k].chat = r.for
    /\ r.kind = "create" =>
          \/ r.answer = <<>>
          \/ \E c \in DOMAIN cs : r.answer = <<c>> /\ cs[c] = r.for

AnswersRight == \A i \in DOMAIN requests : RightAnswer(chats, requests[i])

\* Only chats that there are are named, and messages lie where they belong.
RowsExist == \A k \in DOMAIN rows : rows[k].id # ChatUndefined => rows[k].id \in DOMAIN chats
MessagesExist ==
    /\ \A k \in DOMAIN messages : messages[k].chat \in DOMAIN chats
    /\ \A k \in DOMAIN forwards : forwards[k].chat \in DOMAIN chats
    /\ \A c \in DOMAIN stored : \A k \in DOMAIN stored[c] : stored[c][k].chat = c
QueueExists ==
    \A k \in DOMAIN toServer :
        /\ toServer[k].request # 0 =>
              /\ toServer[k].request \in DOMAIN requests
              /\ requests[toServer[k].request].stage # "asked"
        /\ toServer[k].request = 0 => toServer[k].chat \in DOMAIN chats

\* What holds of every state, whatever goes wrong.
PageInv ==
    /\ PageTypes /\ NetTypes
    /\ AnswersRight /\ RowsExist /\ MessagesExist /\ QueueExists

----------------------------------------------------------------------------
\* A new request is one.
LEMMA RequestTyped ==
    ASSUME NEW kind, NEW for, NEW row \in Nat,
           \/ kind = "list" /\ for \in SUBSET Partner
           \/ kind = "history" /\ for \in Nat
           \/ kind = "create" /\ for \in Partner \cup {NoPartner}
    PROVE  Request(kind, for, row) \in AnyRequest
<1>1. "asked" \in Stage /\ <<>> \in Seq(Row) /\ <<>> \in Seq(Message) /\ <<>> \in Seq(Nat)
  BY DEF Stage
<1>2. CASE kind = "list" /\ for \in SUBSET Partner
  BY <1>1, <1>2 DEF Request, AnyRequest, ListRequest
<1>3. CASE kind = "history" /\ for \in Nat
  BY <1>1, <1>3 DEF Request, AnyRequest, HistoryRequest
<1>4. CASE kind = "create" /\ for \in Partner \cup {NoPartner}
  BY <1>1, <1>4 DEF Request, AnyRequest, CreateRequest
<1> QED
  BY <1>2, <1>3, <1>4

\* A request in another stage, with its answer or without, is one.
LEMMA StageTyped ==
    ASSUME NEW r \in AnyRequest, NEW stage \in Stage
    PROVE  /\ [r EXCEPT !.stage = stage] \in AnyRequest
           /\ [r EXCEPT !.stage = stage, !.answer = <<>>] \in AnyRequest
<1>0. <<>> \in Seq(Row) /\ <<>> \in Seq(Message) /\ <<>> \in Seq(Nat)
  OBVIOUS
<1> DEFINE q == [r EXCEPT !.stage = stage]
           d == [r EXCEPT !.stage = stage, !.answer = <<>>]
<1>1. CASE r \in ListRequest
  <2>1. q \in ListRequest
    BY <1>1 DEF ListRequest
  <2>2. d \in ListRequest
    BY <1>0, <1>1 DEF ListRequest
  <2> QED
    BY <2>1, <2>2 DEF AnyRequest
<1>2. CASE r \in HistoryRequest
  <2>1. q \in HistoryRequest
    BY <1>2 DEF HistoryRequest
  <2>2. d \in HistoryRequest
    BY <1>0, <1>2 DEF HistoryRequest
  <2> QED
    BY <2>1, <2>2 DEF AnyRequest
<1>3. CASE r \in CreateRequest
  <2>1. q \in CreateRequest
    BY <1>3 DEF CreateRequest
  <2>2. d \in CreateRequest
    BY <1>0, <1>3 DEF CreateRequest
  <2> QED
    BY <2>1, <2>2 DEF AnyRequest
<1> QED
  BY <1>1, <1>2, <1>3 DEF AnyRequest

\* The fields of a request, by its kind.
LEMMA RequestFields ==
    ASSUME NEW r \in AnyRequest
    PROVE  /\ r.kind \in Kind /\ r.stage \in Stage /\ r.row \in Nat
           /\ r.kind = "list" => r.for \in SUBSET Partner /\ r.answer \in Seq(Row)
           /\ r.kind = "history" => r.for \in Nat /\ r.answer \in Seq(Message)
           /\ r.kind = "create" => r.for \in Partner \cup {NoPartner} /\ r.answer \in Seq(Nat)
<1>1. CASE r \in ListRequest
  BY <1>1 DEF Kind, ListRequest
<1>2. CASE r \in HistoryRequest
  BY <1>2 DEF Kind, HistoryRequest
<1>3. CASE r \in CreateRequest
  BY <1>3 DEF Kind, CreateRequest
<1> QED
  BY <1>1, <1>2, <1>3 DEF AnyRequest

\* InStage changes the stage of one request.
LEMMA InStageFacts ==
    ASSUME requests \in Seq(AnyRequest), NEW i \in DOMAIN requests, NEW stage \in Stage
    PROVE  /\ InStage(i, stage) \in Seq(AnyRequest)
           /\ DOMAIN InStage(i, stage) = DOMAIN requests
           /\ \A j \in DOMAIN requests :
                 InStage(i, stage)[j] = IF j = i THEN [requests[i] EXCEPT !.stage = stage]
                                        ELSE requests[j]
<1>1. requests[i] \in AnyRequest
  OBVIOUS
<1>2. [requests[i] EXCEPT !.stage = stage] \in AnyRequest
  BY <1>1, StageTyped
<1> HIDE DEF AnyRequest
<1> QED
  BY <1>2 DEF InStage

\* Finished ends one request and drops its answer.
LEMMA FinishedFacts ==
    ASSUME requests \in Seq(AnyRequest), NEW i \in DOMAIN requests
    PROVE  /\ Finished(i) \in Seq(AnyRequest)
           /\ DOMAIN Finished(i) = DOMAIN requests
           /\ \A j \in DOMAIN requests :
                 Finished(i)[j] =
                     IF j = i THEN [requests[i] EXCEPT !.stage = "done", !.answer = <<>>]
                     ELSE requests[j]
<1>0. "done" \in Stage
  BY DEF Stage
<1>1. requests[i] \in AnyRequest
  OBVIOUS
<1>2. [requests[i] EXCEPT !.stage = "done", !.answer = <<>>] \in AnyRequest
  BY <1>0, <1>1, StageTyped
<1>3. DOMAIN InStage(i, "done") = DOMAIN requests
  BY <1>0, InStageFacts
<1>4. \A j \in DOMAIN requests :
                 InStage(i, "done")[j] = IF j = i THEN [requests[i] EXCEPT !.stage = "done"]
                                        ELSE requests[j]
  BY <1>0, InStageFacts
<1>5. [[requests[i] EXCEPT !.stage = "done"] EXCEPT !.answer = <<>>]
        = [requests[i] EXCEPT !.stage = "done", !.answer = <<>>]
  BY <1>1 DEF AnyRequest, ListRequest, HistoryRequest, CreateRequest
<1>6. InStage(i, "done") \in Seq(AnyRequest)
  BY <1>0, InStageFacts
<1> DEFINE q == InStage(i, "done")
           d == [requests[i] EXCEPT !.stage = "done", !.answer = <<>>]
<1>7. Finished(i) = [q EXCEPT ![i] = [q[i] EXCEPT !.answer = <<>>]]
  BY DEF Finished
<1>8. [q[i] EXCEPT !.answer = <<>>] = d
  BY <1>4, <1>5
<1>9. Finished(i) = [q EXCEPT ![i] = d]
  BY <1>7, <1>8
<1> HIDE DEF q, d, AnyRequest
<1>10. Finished(i) \in Seq(AnyRequest) /\ DOMAIN Finished(i) = DOMAIN requests
  BY <1>2, <1>3, <1>6, <1>9 DEF q, d
<1>11. \A j \in DOMAIN requests : Finished(i)[j] = IF j = i THEN d ELSE q[j]
  BY <1>3, <1>9 DEF q
<1>12. \A j \in DOMAIN requests : j # i => q[j] = requests[j]
  BY <1>4 DEF q
<1> QED
  BY <1>10, <1>11, <1>12 DEF d

\* Ask appends one request.
LEMMA AskedFacts ==
    ASSUME requests \in Seq(AnyRequest),
           NEW kind, NEW for, NEW row \in Nat, Ask(kind, for, row),
           \/ kind = "list" /\ for \in SUBSET Partner
           \/ kind = "history" /\ for \in Nat
           \/ kind = "create" /\ for \in Partner \cup {NoPartner}
    PROVE  /\ requests' \in Seq(AnyRequest)
           /\ DOMAIN requests' = DOMAIN requests \cup {Len(requests) + 1}
           /\ \A j \in DOMAIN requests : requests'[j] = requests[j]
           /\ requests'[Len(requests) + 1] = Request(kind, for, row)
<1>1. Request(kind, for, row) \in AnyRequest
  BY RequestTyped
<1> HIDE DEF AnyRequest
<1> QED
  BY <1>1 DEF Ask

\* Chunks of a text.
LEMMA ChunksTyped ==
    ASSUME PageTypes, NEW chat \in Nat
    PROVE  /\ Chunks(chat) \in Seq(Message)
           /\ \A k \in DOMAIN Chunks(chat) : Chunks(chat)[k].chat = chat
<1>1. typed \in Nat /\ written \in Nat
  BY PageAssumption DEF PageTypes
<1> DEFINE m(k) == [chat |-> chat, number |-> written + k]
<1>2. \A k \in 1 .. typed : m(k) \in Message
  BY <1>1 DEF Message
<1>3. Chunks(chat) = [k \in 1 .. typed |-> m(k)]
  BY DEF Chunks
<1> HIDE DEF m
<1>4. Chunks(chat) \in Seq(Message) /\ DOMAIN Chunks(chat) = 1 .. typed
  BY <1>1, <1>2, <1>3
<1> QED
  BY <1>3, <1>4 DEF m

\* The variables of the page keep their types in every step.
LEMMA PageTypesStep == PageInv /\ [Next]_vars => PageTypes'
<1> SUFFICES ASSUME PageInv, [Next]_vars PROVE PageTypes'
  OBVIOUS
<1> USE DEF PageTypes
<1>0. PageTypes /\ requests \in Seq(AnyRequest) /\ chats \in Seq(Partner)
  BY DEF PageInv, NetTypes
<1>p. MaxChunks \in Nat
  BY PageAssumption
<1>r. \A i \in DOMAIN requests : requests[i] \in AnyRequest
  BY <1>0
<1>c. DOMAIN chats \subseteq Nat
  BY <1>0
<1>e. <<>> \in Seq(Row)
  OBVIOUS
<1>d. \A row \in DOMAIN rows : row \in Nat /\ rows[row] \in Row
  BY <1>0
<1>1. ASSUME NEW search, ChangeSearch(search) PROVE PageTypes'
  BY <1>0, <1>e, <1>1 DEF ChangeSearch, BeginList, Reset, inputVars, countVars
<1>2. CASE PreparePage
  BY <1>0, <1>e, <1>2 DEF PreparePage, BeginList, Reset, inputVars, countVars
<1>3. ASSUME NEW row \in DOMAIN rows, ClickSameRow(row) PROVE PageTypes'
  BY <1>0, <1>d, <1>3 DEF ClickSameRow, CountClick, inputVars
<1>4. ASSUME NEW row \in DOMAIN rows, OpenChat(row) PROVE PageTypes'
  <2>1. rows[row].partner \in Partner /\ row \in Nat
    BY <1>d DEF Row
  <2> QED
    BY <1>0, <1>p, <1>4, <2>1 DEF OpenChat, CountClick
<1>5. ASSUME NEW row \in DOMAIN rows, MoveCurrent(row) PROVE PageTypes'
  <2>1. current' \in Nat /\ steady' \in BOOLEAN /\ clicks' \in Nat
    <3>1. current' = row /\ steady' = FALSE /\ clicks' = clicks + 1
      BY <1>5 DEF MoveCurrent, CountClick
    <3>2. row \in Nat
      BY <1>d
    <3>3. current' \in Nat
      BY <3>1, <3>2
    <3>4. steady' \in BOOLEAN
      BY <3>1
    <3>5. clicks' \in Nat
      BY <1>0, <3>1
    <3> QED
      BY <3>3, <3>4, <3>5
  <2> QED
    BY <1>0, <1>5, <2>1 DEF MoveCurrent, inputVars
<1>6. CASE CloseChat
  BY <1>0, <1>6 DEF CloseChat, CountClick, inputVars
<1>7. CASE Type
  BY <1>0, <1>p, <1>7 DEF Type, pageVars, countVars
<1>8. ASSUME NEW chat \in DOMAIN chats, SendText(chat) PROVE PageTypes'
  <2>1. Chunks(chat) \in Seq(Message)
    BY <1>0, <1>c, ChunksTyped
  <2>2. messages' \in Seq(Message)
    BY <1>0, <1>8, <2>1 DEF SendText
  <2> QED
    BY <1>0, <1>p, <1>8, <2>2 DEF SendText
<1>9. ASSUME NEW chat \in DOMAIN chats, SendTextNowhere(chat) PROVE PageTypes'
  <2>1. Chunks(chat) \in Seq(Message)
    BY <1>0, <1>c, ChunksTyped
  <2>2. messages' \in Seq(Message)
    BY <1>0, <1>9, <2>1 DEF SendTextNowhere
  <2> QED
    BY <1>0, <1>p, <1>9, <2>2 DEF SendTextNowhere, Fail
<1>10. CASE CreateChat
  BY <1>0, <1>10 DEF CreateChat, pageVars, inputVars, countVars
<1>11. CASE ClearInput
  BY <1>0, <1>p, <1>11 DEF ClearInput, pageVars, countVars
<1>12. CASE HandleReceivedMessage
  <2>1. forwards \in Seq(Message) /\ forwards # <<>>
    BY <1>12 DEF HandleReceivedMessage, PageInv, NetTypes
  <2>2. Head(forwards) \in Message
    BY <2>1
  <2>3. messages' \in Seq(Message)
    BY <1>0, <1>12, <2>2 DEF HandleReceivedMessage
  <2> QED
    BY <1>0, <1>e, <1>12, <2>3 DEF HandleReceivedMessage, BeginList, Reset, inputVars, countVars
<1>13. ASSUME NEW i \in DOMAIN requests, SendRequest(i) PROVE PageTypes'
  BY <1>0, <1>13 DEF SendRequest, pageVars, inputVars, countVars
<1>14. ASSUME NEW i \in DOMAIN requests, CannotAsk(i) PROVE PageTypes'
  BY <1>0, <1>14 DEF CannotAsk, Fail, pageVars, inputVars
<1>15. ASSUME NEW i \in DOMAIN requests, TimeOut(i) PROVE PageTypes'
  BY <1>0, <1>15 DEF TimeOut, Fail, pageVars, inputVars
<1>16. ASSUME NEW i \in DOMAIN requests, FillList(i) PROVE PageTypes'
  <2>1. requests[i].answer \in Seq(Row)
    BY <1>r, <1>16, RequestFields DEF FillList
  <2>2. rows' \in Seq(Row)
    BY <1>0, <1>16, <2>1 DEF FillList
  <2> QED
    BY <1>0, <1>16, <2>2 DEF FillList, inputVars, countVars
<1>17. ASSUME NEW i \in DOMAIN requests, EndResetList(i) PROVE PageTypes'
  BY <1>0, <1>17 DEF EndResetList, inputVars, countVars
<1>18. ASSUME NEW i \in DOMAIN requests, ShowMessages(i) PROVE PageTypes'
  <2>1. requests[i].answer \in Seq(Message)
    BY <1>r, <1>18, RequestFields DEF ShowMessages
  <2> QED
    BY <1>0, <1>18, <2>1 DEF ShowMessages, inputVars, countVars
<1>19. ASSUME NEW i \in DOMAIN requests, FileNewChat(i) PROVE PageTypes'
  <2> DEFINE row == requests[i].row
             id == IF requests[i].answer = <<>> THEN ChatUndefined ELSE requests[i].answer[1]
  <2>1. requests[i].answer \in Seq(Nat)
    BY <1>r, <1>19, RequestFields DEF FileNewChat
  <2>2. id \in Nat
    BY <2>1 DEF ChatUndefined
  <2>3. rows' = IF row \in DOMAIN rows THEN [rows EXCEPT ![row].id = id] ELSE rows
    BY <1>19 DEF FileNewChat
  <2> HIDE DEF id, row
  <2>4. ASSUME row \in DOMAIN rows PROVE [rows[row] EXCEPT !.id = id] \in Row
    BY <1>d, <2>2, <2>4 DEF Row
  <2>5. rows' \in Seq(Row)
    <3>1. CASE row \in DOMAIN rows
      <4> DEFINE new == [rows[row] EXCEPT !.id = id]
      <4>1. new \in Row /\ rows' = [rows EXCEPT ![row] = new]
        BY <2>3, <2>4, <3>1
      <4> HIDE DEF new
      <4>2. rows \in Seq(Row) /\ row \in 1 .. Len(rows)
        BY <1>0, <3>1
      <4>3. [rows EXCEPT ![row] = new] \in Seq(Row)
        BY ONLY <4>1, <4>2, ExceptSeq
      <4> QED
        BY <4>1, <4>3
    <3>2. CASE row \notin DOMAIN rows
      BY <1>0, <2>3, <3>2
    <3> QED
      BY <3>1, <3>2
  <2> QED
    BY <1>0, <1>19, <2>5 DEF FileNewChat, inputVars, countVars
<1>20. CASE StoreMessage
  BY <1>0, <1>20 DEF StoreMessage, pageVars, inputVars, countVars
<1>21. CASE AnswerRequest
  BY <1>0, <1>21 DEF AnswerRequest, pageVars, inputVars, countVars
<1>22. CASE RefuseRequest
  BY <1>0, <1>22 DEF RefuseRequest, pageVars, inputVars, countVars
<1>23. ASSUME NEW p \in Partner, PartnerWrites(p) PROVE PageTypes'
  BY <1>0, <1>23 DEF PartnerWrites, pageVars, inputVars
<1>24. CASE UNCHANGED vars
  BY <1>0, <1>24 DEF vars, pageVars, inputVars, countVars
<1> QED
  BY <1>1, <1>2, <1>3, <1>4, <1>5, <1>6, <1>7, <1>8, <1>9, <1>10, <1>11, <1>12, <1>13, <1>14,
     <1>15, <1>16, <1>17, <1>18, <1>19, <1>20, <1>21, <1>22, <1>23, <1>24
     DEF Next, Gui, Resume

\* What a step does to the requests.
Asks ==
    \E for : \E kind \in Kind, row \in Nat :
        /\ \/ kind = "list" /\ for \in SUBSET Partner
           \/ kind = "history" /\ for \in DOMAIN chats
           \/ kind = "create" /\ for \in Partner \cup {NoPartner}
        /\ Ask(kind, for, row)
MovesOn ==
    \E i \in DOMAIN requests, stage \in Stage \ {"asked", "done"} :
        requests[i].stage \notin {"filled", "done"} /\ requests' = InStage(i, stage)
Finishes ==
    \E i \in DOMAIN requests :
        /\ requests' = Finished(i)
        /\ requests[i].kind = "history" => ShowMessages(i) \/ CannotAsk(i)

\* Only the server's steps and the partners change what is stored.
LEMMA ServerUntouched ==
    ASSUME [Next]_vars, ~StoreMessage, ~AnswerRequest, \A p \in Partner : ~PartnerWrites(p)
    PROVE  UNCHANGED <<chats, stored>>
  BY DEF Next, Gui, Resume, vars, serverVars, ChangeSearch, PreparePage, ClickSameRow, OpenChat,
     MoveCurrent, CloseChat, Type, SendText, SendTextNowhere, CreateChat, ClearInput,
     HandleReceivedMessage, SendRequest, CannotAsk, TimeOut, FillList, EndResetList,
     ShowMessages, FileNewChat, RefuseRequest

\* Only a partner who writes and HandleReceivedMessage change the forwards.
LEMMA ForwardsUntouched ==
    ASSUME [Next]_vars, ~HandleReceivedMessage, \A p \in Partner : ~PartnerWrites(p)
    PROVE  UNCHANGED forwards
  BY DEF Next, Gui, Resume, vars, serverVars, ChangeSearch, PreparePage, ClickSameRow, OpenChat,
     MoveCurrent, CloseChat, Type, SendText, SendTextNowhere, CreateChat, ClearInput,
     SendRequest, CannotAsk, TimeOut, FillList, EndResetList,
     ShowMessages, FileNewChat, RefuseRequest, AnswerRequest, StoreMessage

\* Only what asks, answers or ends a request changes the requests.
LEMMA RequestsUntouched ==
    ASSUME [Next]_vars, \A search \in Search \cup {AllChats} : ~ChangeSearch(search),
           ~PreparePage, \A row \in DOMAIN rows : ~OpenChat(row), ~CreateChat,
           ~HandleReceivedMessage, ~AnswerRequest,
           \A i \in DOMAIN requests :
               ~SendRequest(i) /\ ~CannotAsk(i) /\ ~TimeOut(i) /\ ~Resume(i)
    PROVE  UNCHANGED requests
  BY DEF Next, Gui, vars, ClickSameRow,
     MoveCurrent, CloseChat, Type, SendText, SendTextNowhere, ClearInput,
     RefuseRequest, StoreMessage, PartnerWrites

\* Whatever a step does, the server's answers apart, it appends a request,
\* moves one on or ends one.
LEMMA RequestsMove ==
    ASSUME PageInv, [Next]_vars, ~AnswerRequest
    PROVE  UNCHANGED requests \/ Asks \/ MovesOn \/ Finishes
<1>1. "sent" \in Stage \ {"asked", "done"} /\ "answered" \in Stage \ {"asked", "done"}
      /\ "filled" \in Stage \ {"asked", "done"}
  BY DEF Stage
<1>2. "list" \in Kind /\ "history" \in Kind /\ "create" \in Kind /\ 0 \in Nat
  BY DEF Kind
<1>3. {} \in SUBSET Partner /\ \A search \in Search \cup {AllChats} : search \in SUBSET Partner
  BY PageAssumption DEF AllChats
<1>4. ASSUME NEW search \in SUBSET Partner, BeginList(search) PROVE Asks
  BY <1>2, <1>4 DEF BeginList, Asks
<1>5. ASSUME NEW search \in Search \cup {AllChats}, ChangeSearch(search) PROVE Asks
  BY <1>3, <1>4, <1>5 DEF ChangeSearch
<1>6. CASE PreparePage
  BY <1>3, <1>4, <1>6 DEF PreparePage, AllChats
<1>7. ASSUME NEW row \in DOMAIN rows, OpenChat(row) PROVE Asks \/ UNCHANGED requests
  <2>1. CASE rows[row].id = ChatUndefined
    BY <1>7, <2>1 DEF OpenChat
  <2>2. CASE rows[row].id # ChatUndefined
    <3>1. rows[row].id \in DOMAIN chats
      BY <2>2 DEF PageInv, RowsExist
    <3>2. Ask("history", rows[row].id, 0)
      BY <1>7, <2>2 DEF OpenChat
    <3> QED
      BY <1>2, <3>1, <3>2 DEF Asks
  <2> QED
    BY <2>1, <2>2
<1>8. CASE CreateChat
  <2>0. rows \in Seq(Row) /\ current \in Nat
    BY DEF PageInv, PageTypes
  <2>1. PartnerAt(current) \in Partner \cup {NoPartner}
    <3>1. CASE current \in DOMAIN rows
      <4>1. rows[current] \in Row
        BY <2>0, <3>1
      <4> QED
        BY <3>1, <4>1 DEF PartnerAt, Row
    <3>2. CASE current \notin DOMAIN rows
      BY <3>2 DEF PartnerAt
    <3> QED
      BY <3>1, <3>2
  <2>2. Ask("create", PartnerAt(current), current)
    BY <1>8 DEF CreateChat
  <2> QED
    BY <1>2, <2>0, <2>1, <2>2 DEF Asks
<1>9. CASE HandleReceivedMessage
  BY <1>3, <1>4, <1>9 DEF HandleReceivedMessage, AllChats
<1>10. ASSUME NEW i \in DOMAIN requests,
              SendRequest(i) \/ CannotAsk(i) \/ TimeOut(i) \/ Resume(i)
       PROVE  MovesOn \/ Finishes
  <2>1. CASE SendRequest(i) \/ TimeOut(i) \/ FillList(i)
    BY <1>1, <2>1 DEF SendRequest, TimeOut, FillList, MovesOn
  <2>2. CASE EndResetList(i) \/ FileNewChat(i)
    BY <2>2 DEF EndResetList, FileNewChat, Finishes
  <2>3. CASE ShowMessages(i)
    <3>1. requests' = Finished(i)
      BY <2>3 DEF ShowMessages
    <3> QED
      BY <2>3, <3>1 DEF Finishes
  <2>4. CASE CannotAsk(i)
    <3>1. requests[i].stage = "asked"
          /\ requests' = IF requests[i].kind = "create" THEN InStage(i, "answered") ELSE Finished(i)
      BY <2>4 DEF CannotAsk
    <3> QED
      BY <1>1, <2>4, <3>1 DEF MovesOn, Finishes
  <2> QED
    BY <1>10, <2>1, <2>2, <2>3, <2>4 DEF Resume
<1> QED
  BY <1>5, <1>6, <1>7, <1>8, <1>9, <1>10, RequestsUntouched

----------------------------------------------------------------------------
\* The rows of an answer lead to their partners.
LEMMA AnswerLeads ==
    ASSUME NetTypes, NEW search \in SUBSET Partner, NEW row \in ListRows(search)
    PROVE  LeadsTo(chats, row)
  BY DEF ListRows, LeadsTo, ChatUndefined

\* There is one chat with each partner.
OneChatEach == \A c, d \in DOMAIN chats : chats[c] = chats[d] => c = d

\* With one chat for each partner no partner is in an answer twice.
LEMMA AnswerRowsDiffer ==
    ASSUME NetTypes, OneChatEach, NEW search \in SUBSET Partner,
           NEW row \in ListRows(search), NEW other \in ListRows(search),
           row.partner = other.partner
    PROVE  row = other
<1> DEFINE Old == {[partner |-> chats[c], id |-> c] :
                      c \in {c \in DOMAIN chats :
                           stored[c] # <<>> /\ (search = AllChats \/ chats[c] \in search)}}
           New == {[partner |-> p, id |-> ChatUndefined] :
                      p \in {p \in search : \A c \in DOMAIN chats : chats[c] # p}}
<1>1. row \in Old \cup New /\ other \in Old \cup New
  BY DEF ListRows
<1>2. \A x \in Old : x.id \in DOMAIN chats /\ chats[x.id] = x.partner
                     /\ x = [partner |-> x.partner, id |-> x.id]
  OBVIOUS
<1>3. \A x \in New : /\ \A c \in DOMAIN chats : chats[c] # x.partner
                     /\ x = [partner |-> x.partner, id |-> ChatUndefined]
  OBVIOUS
<1> HIDE DEF Old, New
<1> QED
  BY <1>1, <1>2, <1>3 DEF OneChatEach

\* The request in front of the queue.
FrontRequest == requests[Head(toServer).request]

\* The request in front of the queue is there, and right.
LEMMA FrontFacts ==
    ASSUME PageInv, toServer # <<>>, Head(toServer).request # 0
    PROVE  /\ Head(toServer).request \in DOMAIN requests
           /\ FrontRequest \in AnyRequest
           /\ RightAnswer(chats, FrontRequest)
<1>1. toServer \in Seq(Asking \cup Sending) /\ requests \in Seq(AnyRequest)
  BY DEF PageInv, NetTypes
<1>2. 1 \in DOMAIN toServer /\ Head(toServer) = toServer[1]
  BY <1>1
<1>3. Head(toServer).request \in DOMAIN requests
  BY <1>2 DEF PageInv, QueueExists
<1> QED
  BY <1>1, <1>3 DEF FrontRequest, PageInv, AnswersRight

\* The answer to a request is of its kind.
LEMMA AnswerTyped ==
    ASSUME PageInv, AnswerRequest
    PROVE  LET i == Head(toServer).request IN
           /\ [FrontRequest EXCEPT !.stage = "answered", !.answer = Answer(i)] \in AnyRequest
           /\ FrontRequest.kind = "list" =>
                 /\ Answer(i) = SetToSeq(ListRows(FrontRequest.for))
                 /\ FrontRequest.for \in SUBSET Partner
           /\ FrontRequest.kind = "history" =>
                 Answer(i) = stored[FrontRequest.for] /\ FrontRequest.for \in DOMAIN stored
           /\ FrontRequest.kind = "create" =>
                 Answer(i) = <<Len(chats) + 1>> /\ FrontRequest.for \in Partner
<1> DEFINE i == Head(toServer).request
<1>1. toServer # <<>> /\ i # 0
  BY DEF AnswerRequest
<1>2. FrontRequest \in AnyRequest /\ RightAnswer(chats, FrontRequest)
  BY <1>1, FrontFacts
<1>3. chats \in Seq(Partner) /\ stored \in Seq(Seq(Message)) /\ Len(stored) = Len(chats)
  BY DEF PageInv, NetTypes
<1>4. "answered" \in Stage
  BY DEF Stage
<1> DEFINE new == [FrontRequest EXCEPT !.stage = "answered", !.answer = Answer(i)]
<1>5. CASE FrontRequest.kind = "list"
  <2>1. FrontRequest.for \in SUBSET Partner /\ FrontRequest \in ListRequest
    BY <1>2, <1>5, RequestFields DEF AnyRequest, ListRequest, HistoryRequest, CreateRequest
  <2>2. Answer(i) = SetToSeq(ListRows(FrontRequest.for))
    BY <1>5 DEF Answer, FrontRequest
  <2>3. IsFiniteSet(ListRows(FrontRequest.for)) /\ ListRows(FrontRequest.for) \subseteq Row
    BY <1>3, <2>1, FiniteRows
  <2>4. SetToSeq(ListRows(FrontRequest.for)) \in Seq(ListRows(FrontRequest.for))
    BY <2>3, SomeOrder
  <2>5. Answer(i) \in Seq(Row)
    BY <2>2, <2>3, <2>4, SeqMonotonic
  <2>6. new \in ListRequest
    BY <1>4, <2>1, <2>5 DEF ListRequest
  <2> QED
    BY <1>5, <2>1, <2>2, <2>6 DEF AnyRequest
<1>6. CASE FrontRequest.kind = "history"
  <2>1. FrontRequest.for \in DOMAIN stored /\ FrontRequest \in HistoryRequest
    BY <1>2, <1>3, <1>6 DEF AnyRequest, ListRequest, HistoryRequest, CreateRequest, RightAnswer
  <2>2. Answer(i) = stored[FrontRequest.for]
    BY <1>6 DEF Answer, FrontRequest
  <2>3. Answer(i) \in Seq(Message)
    BY <1>3, <2>1, <2>2
  <2>4. new \in HistoryRequest
    BY <1>4, <2>1, <2>3 DEF HistoryRequest
  <2> QED
    BY <1>6, <2>1, <2>2, <2>4 DEF AnyRequest
<1>7. CASE FrontRequest.kind = "create"
  <2>0. FrontRequest.for # NoPartner
    <3>1. IF FrontRequest.kind = "create"
          THEN /\ FrontRequest.for # NoPartner
               /\ chats' = Append(chats, FrontRequest.for)
               /\ stored' = Append(stored, <<>>)
          ELSE UNCHANGED serverVars
      BY DEF AnswerRequest, FrontRequest
    <3> QED
      BY <1>7, <3>1
  <2>1. FrontRequest \in CreateRequest /\ FrontRequest.for # NoPartner
    BY <1>2, <1>7, <2>0 DEF AnyRequest, ListRequest, HistoryRequest, CreateRequest
  <2>2. Answer(i) = <<Len(chats) + 1>>
    BY <1>7 DEF Answer, FrontRequest
  <2>3. Answer(i) \in Seq(Nat)
    <3>1. Len(chats) + 1 \in Nat
      BY <1>3
    <3>2. <<Len(chats) + 1>> \in Seq(Nat)
      BY <3>1
    <3> QED
      BY <2>2, <3>2
  <2>4. new \in CreateRequest
    BY <1>4, <2>1, <2>3 DEF CreateRequest
  <2> QED
    BY <1>7, <2>1, <2>2, <2>4 DEF AnyRequest, CreateRequest
<1> QED
  BY <1>2, <1>5, <1>6, <1>7, RequestFields DEF Kind

\* AnswerRequest changes the request in front of the queue, if it still waits.
LEMMA AnswerStep ==
    ASSUME PageInv, AnswerRequest
    PROVE  LET i == Head(toServer).request IN
           /\ i \in DOMAIN requests
           /\ requests' \in Seq(AnyRequest)
           /\ DOMAIN requests' = DOMAIN requests
           /\ \A j \in DOMAIN requests :
                 requests'[j] =
                     IF j = i /\ FrontRequest.stage = "sent"
                     THEN [FrontRequest EXCEPT !.stage = "answered", !.answer = Answer(i)]
                     ELSE requests[j]
<1> DEFINE i == Head(toServer).request
           new == [FrontRequest EXCEPT !.stage = "answered", !.answer = Answer(i)]
<1>1. toServer # <<>> /\ i # 0
  BY DEF AnswerRequest
<1>2. i \in DOMAIN requests
  BY <1>1, FrontFacts
<1>3. new \in AnyRequest
  BY AnswerTyped
<1>4. requests \in Seq(AnyRequest)
  BY DEF PageInv, NetTypes
<1>5. requests' = IF FrontRequest.stage # "sent" THEN requests ELSE [requests EXCEPT ![i] = new]
  BY <1>2, <1>4 DEF AnswerRequest, FrontRequest
<1> HIDE DEF new, i, AnyRequest
<1>6. /\ requests' \in Seq(AnyRequest)
      /\ DOMAIN requests' = DOMAIN requests
      /\ \A j \in DOMAIN requests :
            requests'[j] = IF j = i /\ FrontRequest.stage = "sent" THEN new ELSE requests[j]
  <2>1. CASE FrontRequest.stage # "sent"
    BY <1>4, <1>5, <2>1
  <2>2. CASE FrontRequest.stage = "sent"
    BY <1>2, <1>3, <1>4, <1>5, <2>2
  <2> QED
    BY <2>1, <2>2
<1> QED
  BY <1>2, <1>6 DEF new, i

\* What the server has only grows.
Grown ==
    /\ DOMAIN chats \subseteq DOMAIN chats'
    /\ \A c \in DOMAIN chats : chats'[c] = chats[c]

ServerTypes ==
    chats \in Seq(Partner) /\ stored \in Seq(Seq(Message)) /\ Len(stored) = Len(chats)
StoredRight == \A c \in DOMAIN stored : \A k \in DOMAIN stored[c] : stored[c][k].chat = c

\* Chats and stored messages stay and grow, and each message is in its chat.
LEMMA ServerStep ==
    ASSUME PageInv, [Next]_vars
    PROVE  ServerTypes' /\ StoredRight' /\ Grown
<1> USE DEF ServerTypes, StoredRight, Grown
<1>0. ServerTypes /\ StoredRight /\ written \in Nat
  BY DEF PageInv, NetTypes, PageTypes, MessagesExist
<1>a. ASSUME NEW c \in DOMAIN chats, NEW m \in Message, m.chat = c,
             chats' = chats, stored' = [stored EXCEPT ![c] = Append(stored[c], m)]
      PROVE  ServerTypes' /\ StoredRight' /\ Grown
  <2>1. c \in DOMAIN stored /\ stored[c] \in Seq(Message)
    BY <1>0
  <2>2. Append(stored[c], m) \in Seq(Message)
    BY <2>1
  <2>3. stored' \in Seq(Seq(Message)) /\ Len(stored') = Len(stored)
    BY <1>0, <1>a, <2>1, <2>2
  <2>4. ASSUME NEW d \in DOMAIN stored', NEW k \in DOMAIN stored'[d]
        PROVE  stored'[d][k].chat = d
    <3>1. d \in DOMAIN stored
      BY <1>0, <2>3
    <3>2. CASE d # c
      BY <1>0, <1>a, <3>1, <3>2
    <3>3. CASE d = c
      <4>1. stored'[d] = Append(stored[c], m)
        BY <1>0, <1>a, <3>1, <3>3
      <4>2. k \in 1 .. Len(stored[c]) + 1
        BY <2>1, <4>1
      <4> QED
        BY <1>0, <1>a, <2>1, <3>3, <4>1, <4>2
    <3> QED
      BY <3>2, <3>3
  <2> QED
    BY <1>0, <1>a, <2>3, <2>4
<1>b. ASSUME NEW p \in Partner, NEW s \in Seq(Message),
             \A k \in DOMAIN s : s[k].chat = Len(chats) + 1,
             chats' = Append(chats, p), stored' = Append(stored, s)
      PROVE  ServerTypes' /\ StoredRight' /\ Grown
  <2>1. chats' \in Seq(Partner) /\ stored' \in Seq(Seq(Message)) /\ Len(stored') = Len(chats')
    BY <1>0, <1>b
  <2>2. \A d \in DOMAIN stored' : stored'[d] = IF d = Len(chats) + 1 THEN s ELSE stored[d]
    BY <1>0, <1>b
  <2>3. \A d \in DOMAIN stored' : d # Len(chats) + 1 => d \in DOMAIN stored
    BY <1>0, <1>b
  <2>4. \A d \in DOMAIN stored' : \A k \in DOMAIN stored'[d] : stored'[d][k].chat = d
    BY <1>0, <1>b, <2>2, <2>3
  <2> QED
    BY <1>0, <1>b, <2>1, <2>4
<1>1. CASE StoreMessage
  <2> DEFINE m == Head(toServer)
             new == [chat |-> m.chat, number |-> m.number]
  <2>1. toServer \in Seq(Asking \cup Sending) /\ toServer # <<>> /\ m.request = 0
    BY <1>1 DEF StoreMessage, PageInv, NetTypes
  <2>2. 1 \in DOMAIN toServer /\ m = toServer[1]
    BY <2>1
  <2>3. m.chat \in DOMAIN chats
    BY <2>1, <2>2 DEF PageInv, QueueExists
  <2>4. m \in Sending
    BY <2>1, <2>2 DEF Asking
  <2>5. new \in Message /\ new.chat = m.chat
    BY <2>4 DEF Sending, Message
  <2>6. chats' = chats /\ stored' = [stored EXCEPT ![m.chat] = Append(stored[m.chat], new)]
    BY <1>1 DEF StoreMessage
  <2> HIDE DEF m, new
  <2> QED
    BY <1>a, <2>3, <2>5, <2>6
<1>2. CASE AnswerRequest
  <2>1. CASE FrontRequest.kind = "create"
    <3>1. FrontRequest.for \in Partner
      BY <1>2, <2>1, AnswerTyped
    <3>2. chats' = Append(chats, FrontRequest.for) /\ stored' = Append(stored, <<>>)
      BY <1>2, <2>1 DEF AnswerRequest, FrontRequest
    <3>3. <<>> \in Seq(Message) /\ DOMAIN <<>> = {}
      OBVIOUS
    <3> QED
      BY <1>b, <3>1, <3>2, <3>3
  <2>2. CASE FrontRequest.kind # "create"
    BY <1>0, <1>2, <2>2 DEF AnswerRequest, FrontRequest, serverVars
  <2> QED
    BY <2>1, <2>2
<1>3. ASSUME NEW p \in Partner, PartnerWrites(p)
      PROVE  ServerTypes' /\ StoredRight' /\ Grown
  <2> DEFINE m(c) == [chat |-> c, number |-> written + 1]
  <2>1. \A c \in Nat : m(c) \in Message /\ m(c).chat = c
    BY <1>0 DEF Message
  <2>2. \/ \E c \in DOMAIN chats :
              chats' = chats /\ stored' = [stored EXCEPT ![c] = Append(stored[c], m(c))]
        \/ chats' = Append(chats, p) /\ stored' = Append(stored, <<m(Len(chats) + 1)>>)
    BY <1>3 DEF PartnerWrites
  <2>3. DOMAIN chats \subseteq Nat /\ Len(chats) + 1 \in Nat
    BY <1>0
  <2> HIDE DEF m
  <2>4. CASE \E c \in DOMAIN chats :
              chats' = chats /\ stored' = [stored EXCEPT ![c] = Append(stored[c], m(c))]
    <3>1. PICK c \in DOMAIN chats :
              chats' = chats /\ stored' = [stored EXCEPT ![c] = Append(stored[c], m(c))]
      BY <2>4
    <3>2. m(c) \in Message /\ m(c).chat = c
      BY <2>1, <2>3
    <3> QED
      BY <1>a, <3>1, <3>2
  <2>5. CASE chats' = Append(chats, p) /\ stored' = Append(stored, <<m(Len(chats) + 1)>>)
    <3> DEFINE s == <<m(Len(chats) + 1)>>
    <3>1. s \in Seq(Message) /\ \A k \in DOMAIN s : s[k].chat = Len(chats) + 1
      BY <2>1, <2>3
    <3> HIDE DEF s
    <3>2. stored' = Append(stored, s)
      BY <2>5 DEF s
    <3> QED
      BY <1>b, <2>5, <3>1, <3>2
  <2> QED
    BY <2>2, <2>4, <2>5
<1>4. CASE ~StoreMessage /\ ~AnswerRequest /\ \A p \in Partner : ~PartnerWrites(p)
  BY <1>0, <1>4, ServerUntouched
<1> QED
  BY <1>1, <1>2, <1>3, <1>4

\* An answer that is right stays so, as no chat changes its partner.
LEMMA StillRight ==
    ASSUME Grown, NEW r, RightAnswer(chats, r)
    PROVE  RightAnswer(chats', r)
  BY DEF Grown, RightAnswer, LeadsTo

\* A request stays what it is.
RequestsKept ==
    /\ DOMAIN requests \subseteq DOMAIN requests'
    /\ \A i \in DOMAIN requests :
          /\ requests'[i].kind = requests[i].kind
          /\ requests'[i].for = requests[i].for
          /\ requests'[i].row = requests[i].row
          /\ requests[i].stage # "asked" => requests'[i].stage # "asked"
          /\ requests[i].stage = "filled" => requests'[i].stage \in {"filled", "done"}
          /\ requests[i].stage = "done" => requests'[i].stage = "done"

\* A request without an answer is right.
LEMMA FreshRight ==
    ASSUME NEW kind, NEW for, NEW row, kind = "history" => for \in DOMAIN chats
    PROVE  RightAnswer(chats, Request(kind, for, row))
  BY DEF RightAnswer, Request

\* Every step leaves right requests, and each is what it was.
LEMMA RequestsStep ==
    ASSUME PageInv, [Next]_vars
    PROVE  requests' \in Seq(AnyRequest) /\ AnswersRight' /\ RequestsKept
<1>0. requests \in Seq(AnyRequest) /\ AnswersRight
  BY DEF PageInv, NetTypes
<1>1. Grown
  BY ServerStep
<1>r. \A i \in DOMAIN requests : requests[i] \in AnyRequest /\ RightAnswer(chats', requests[i])
  BY <1>0, <1>1, StillRight DEF AnswersRight
<1>k. ASSUME NEW r \in AnyRequest
      PROVE  /\ DOMAIN r = {"kind", "for", "row", "stage", "answer"}
             /\ \A s, a : LET q == [r EXCEPT !.stage = s, !.answer = a] IN
                   /\ q.kind = r.kind /\ q.for = r.for /\ q.row = r.row
                   /\ q.stage = s /\ q.answer = a
             /\ \A s : LET q == [r EXCEPT !.stage = s] IN
                   /\ q.kind = r.kind /\ q.for = r.for /\ q.row = r.row
                   /\ q.stage = s /\ q.answer = r.answer
  BY <1>k DEF AnyRequest, ListRequest, HistoryRequest, CreateRequest
<1> HIDE DEF AnyRequest
<1>2. CASE UNCHANGED requests
  BY <1>0, <1>2, <1>r DEF AnswersRight, RequestsKept
<1>3. CASE Asks
  <2>0. PICK for : \E kind \in Kind, row \in Nat :
            /\ \/ kind = "list" /\ for \in SUBSET Partner
               \/ kind = "history" /\ for \in DOMAIN chats
               \/ kind = "create" /\ for \in Partner \cup {NoPartner}
            /\ Ask(kind, for, row)
    BY <1>3 DEF Asks
  <2>1. PICK kind \in Kind, row \in Nat :
            /\ \/ kind = "list" /\ for \in SUBSET Partner
               \/ kind = "history" /\ for \in DOMAIN chats
               \/ kind = "create" /\ for \in Partner \cup {NoPartner}
            /\ Ask(kind, for, row)
    BY <2>0
  <2>2. chats \in Seq(Partner)
    BY DEF PageInv, NetTypes
  <2>3. \/ kind = "list" /\ for \in SUBSET Partner
        \/ kind = "history" /\ for \in Nat
        \/ kind = "create" /\ for \in Partner \cup {NoPartner}
    BY <2>1, <2>2
  <2>4. /\ requests' \in Seq(AnyRequest)
        /\ DOMAIN requests' = DOMAIN requests \cup {Len(requests) + 1}
        /\ \A j \in DOMAIN requests : requests'[j] = requests[j]
        /\ requests'[Len(requests) + 1] = Request(kind, for, row)
    BY <1>0, <2>1, <2>3, AskedFacts
  <2>5. RightAnswer(chats, Request(kind, for, row))
    BY <2>1, FreshRight
  <2>6. RightAnswer(chats', Request(kind, for, row))
    BY <1>1, <2>5, StillRight
  <2> QED
    BY <1>r, <2>4, <2>6 DEF AnswersRight, RequestsKept
<1>4. CASE MovesOn
  <2>1. PICK i \in DOMAIN requests, stage \in Stage \ {"asked", "done"} :
            requests[i].stage \notin {"filled", "done"} /\ requests' = InStage(i, stage)
    BY <1>4 DEF MovesOn
  <2> DEFINE new == [requests[i] EXCEPT !.stage = stage]
  <2>2. /\ requests' \in Seq(AnyRequest)
        /\ DOMAIN requests' = DOMAIN requests
        /\ \A j \in DOMAIN requests : requests'[j] = IF j = i THEN new ELSE requests[j]
    BY <1>0, <2>1, InStageFacts
  <2>3. /\ new.kind = requests[i].kind /\ new.for = requests[i].for
        /\ new.row = requests[i].row /\ new.stage # "asked" /\ new.answer = requests[i].answer
    BY <1>k, <1>r
  <2> HIDE DEF new
  <2>4. RightAnswer(chats', new)
    BY <1>r, <2>3 DEF RightAnswer
  <2> QED
    BY <1>r, <2>1, <2>2, <2>3, <2>4 DEF AnswersRight, RequestsKept
<1>5. CASE Finishes
  <2>1. PICK i \in DOMAIN requests : requests' = Finished(i)
    BY <1>5 DEF Finishes
  <2> DEFINE new == [requests[i] EXCEPT !.stage = "done", !.answer = <<>>]
  <2>2. /\ requests' \in Seq(AnyRequest)
        /\ DOMAIN requests' = DOMAIN requests
        /\ \A j \in DOMAIN requests : requests'[j] = IF j = i THEN new ELSE requests[j]
    BY <1>0, <2>1, FinishedFacts
  <2>3. /\ new.kind = requests[i].kind /\ new.for = requests[i].for
        /\ new.row = requests[i].row /\ new.stage = "done" /\ new.answer = <<>>
    BY <1>k, <1>r
  <2> HIDE DEF new
  <2>4. RightAnswer(chats', new)
    BY <1>r, <2>3 DEF RightAnswer
  <2> QED
    BY <1>r, <2>2, <2>3, <2>4 DEF AnswersRight, RequestsKept
<1>6. CASE AnswerRequest
  <2> DEFINE i == Head(toServer).request
             new == [FrontRequest EXCEPT !.stage = "answered", !.answer = Answer(i)]
  <2>1. /\ i \in DOMAIN requests
        /\ requests' \in Seq(AnyRequest)
        /\ DOMAIN requests' = DOMAIN requests
        /\ \A j \in DOMAIN requests :
              requests'[j] = IF j = i /\ FrontRequest.stage = "sent" THEN new ELSE requests[j]
    BY <1>6, AnswerStep
  <2>2. FrontRequest = requests[i]
    BY DEF FrontRequest
  <2>3. /\ new.kind = requests[i].kind /\ new.for = requests[i].for
        /\ new.row = requests[i].row /\ new.stage # "asked" /\ new.answer = Answer(i)
    BY <1>k, <1>r, <2>1, <2>2
  <2>4. NetTypes /\ StoredRight
    BY DEF PageInv, MessagesExist, StoredRight
  <2>5. RightAnswer(chats', requests[i])
    BY <1>r, <2>1
  <2>6. RightAnswer(chats', new)
    <3>1. CASE FrontRequest.kind = "list"
      <4> DEFINE R == ListRows(FrontRequest.for)
      <4>1. Answer(i) = SetToSeq(R) /\ FrontRequest.for \in SUBSET Partner
        BY <1>6, <3>1, AnswerTyped
      <4>2. IsFiniteSet(R)
        BY <2>4, <4>1, FiniteRows DEF NetTypes
      <4>3. Answer(i) \in Seq(R)
        BY <4>1, <4>2, SomeOrder
      <4>4. \A row \in R : LeadsTo(chats, row)
        BY <2>4, <4>1, AnswerLeads
      <4>5. \A row \in R : LeadsTo(chats', row)
        BY <1>1, <4>4 DEF LeadsTo, Grown
      <4> HIDE DEF R
      <4>6. \A k \in DOMAIN Answer(i) : LeadsTo(chats', Answer(i)[k])
        BY <4>3, <4>5
      <4> QED
        BY <2>2, <2>3, <3>1, <4>6 DEF RightAnswer
    <3>2. CASE FrontRequest.kind = "history"
      <4>1. Answer(i) = stored[FrontRequest.for] /\ FrontRequest.for \in DOMAIN stored
        BY <1>6, <3>2, AnswerTyped
      <4> QED
        BY <2>2, <2>3, <2>4, <2>5, <3>2, <4>1 DEF RightAnswer, StoredRight
    <3>3. CASE FrontRequest.kind = "create"
      <4>1. Answer(i) = <<Len(chats) + 1>>
        BY <1>6, <3>3, AnswerTyped
      <4>2. chats' = Append(chats, FrontRequest.for)
        BY <1>6, <3>3 DEF AnswerRequest, FrontRequest
      <4>3. Len(chats) + 1 \in DOMAIN chats' /\ chats'[Len(chats) + 1] = FrontRequest.for
        BY <2>4, <4>2 DEF NetTypes
      <4> QED
        BY <2>2, <2>3, <3>3, <4>1, <4>3 DEF RightAnswer
    <3>4. FrontRequest.kind \in Kind
      BY <1>r, <2>1, <2>2, RequestFields
    <3> QED
      BY <3>1, <3>2, <3>3, <3>4 DEF Kind
  <2> HIDE DEF i, new
  <2> QED
    BY <1>r, <2>1, <2>2, <2>3, <2>6 DEF AnswersRight, RequestsKept
<1> QED
  BY <1>2, <1>3, <1>4, <1>5, <1>6, RequestsMove

\* Only who sends and the server change the queue.
LEMMA QueueUntouched ==
    ASSUME [Next]_vars, \A chat \in DOMAIN chats : ~SendText(chat),
           \A i \in DOMAIN requests : ~SendRequest(i),
           ~StoreMessage, ~AnswerRequest, ~RefuseRequest
    PROVE  UNCHANGED toServer
  BY DEF Next, Gui, Resume, vars, ChangeSearch, PreparePage, ClickSameRow, OpenChat,
     MoveCurrent, CloseChat, Type, SendTextNowhere, CreateChat, ClearInput,
     HandleReceivedMessage, CannotAsk, TimeOut, FillList, EndResetList,
     ShowMessages, FileNewChat, PartnerWrites

\* What is on its way names requests that were asked and chats that exist.
LEMMA QueueStep ==
    ASSUME PageInv, [Next]_vars
    PROVE  toServer' \in Seq(Asking \cup Sending) /\ QueueExists'
<1> DEFINE Good(e) == /\ e \in Asking \cup Sending
                      /\ e.request # 0 => /\ e.request \in DOMAIN requests'
                                          /\ requests'[e.request].stage # "asked"
                      /\ e.request = 0 => e.chat \in DOMAIN chats'
<1>0. toServer \in Seq(Asking \cup Sending) /\ QueueExists
  BY DEF PageInv, NetTypes
<1>1. Grown /\ RequestsKept
  BY ServerStep, RequestsStep
<1>2. \A k \in DOMAIN toServer : Good(toServer[k])
  BY <1>0, <1>1 DEF QueueExists, Grown, RequestsKept
<1>3. ASSUME toServer' \in Seq(Asking \cup Sending), \A k \in DOMAIN toServer' : Good(toServer'[k])
      PROVE  toServer' \in Seq(Asking \cup Sending) /\ QueueExists'
  BY <1>3 DEF QueueExists
<1> HIDE DEF Good
<1>4. CASE UNCHANGED toServer
  BY <1>0, <1>2, <1>3, <1>4
<1>5. ASSUME toServer # <<>>, toServer' = Tail(toServer)
      PROVE  toServer' \in Seq(Asking \cup Sending) /\ QueueExists'
  <2>1. toServer' \in Seq(Asking \cup Sending) /\ DOMAIN toServer' = 1 .. (Len(toServer) - 1)
    BY <1>0, <1>5
  <2>2. \A k \in DOMAIN toServer' : toServer'[k] = toServer[k + 1] /\ k + 1 \in DOMAIN toServer
    BY <1>0, <1>5, <2>1
  <2> QED
    BY <1>2, <1>3, <2>1, <2>2
<1>6. ASSUME NEW i \in DOMAIN requests, SendRequest(i)
      PROVE  toServer' \in Seq(Asking \cup Sending) /\ QueueExists'
  <2> DEFINE e == [request |-> i]
  <2>0. requests \in Seq(AnyRequest)
    BY DEF PageInv, NetTypes
  <2>1. i \in Nat \ {0} /\ e \in Asking
    BY <2>0 DEF Asking
  <2>2. "sent" \in Stage
    BY DEF Stage
  <2>3. requests' = InStage(i, "sent") /\ toServer' = Append(toServer, e)
    BY <1>6 DEF SendRequest
  <2>4. i \in DOMAIN requests' /\ requests'[i] = [requests[i] EXCEPT !.stage = "sent"]
    BY <2>0, <2>2, <2>3, InStageFacts
  <2>5. requests[i] \in AnyRequest
    BY <2>0
  <2>6. requests'[i].stage = "sent"
    BY <2>4, <2>5 DEF AnyRequest, ListRequest, HistoryRequest, CreateRequest
  <2>7. Good(e)
    BY <2>1, <2>4, <2>6 DEF Good
  <2> HIDE DEF e
  <2>8. toServer' \in Seq(Asking \cup Sending)
        /\ \A k \in DOMAIN toServer' :
              toServer'[k] = e \/ (k \in DOMAIN toServer /\ toServer'[k] = toServer[k])
    <3>1. e \in Asking \cup Sending
      BY <2>1
    <3> QED
      BY ONLY <1>0, <2>3, <3>1, Appended
  <2> QED
    BY <1>2, <1>3, <2>7, <2>8
<1>7. ASSUME NEW chat \in DOMAIN chats, SendText(chat)
      PROVE  toServer' \in Seq(Asking \cup Sending) /\ QueueExists'
  <2> DEFINE e(k) == [request |-> 0, chat |-> chat, number |-> written + k,
                      meant |-> shown, steady |-> steady]
             s == [k \in 1 .. typed |-> e(k)]
  <2>1. typed \in Nat /\ written \in Nat /\ steady \in BOOLEAN /\ shown \in Partner /\ chat \in Nat
    <3>1. chats \in Seq(Partner)
      BY DEF PageInv, NetTypes
    <3> QED
      BY <1>7, <3>1, PageAssumption DEF PageInv, PageTypes, SendText, CanPress
  <2>2. \A k \in 1 .. typed : e(k) \in Sending
    BY <2>1 DEF Sending
  <2>3. chat \in DOMAIN chats'
    BY <1>1 DEF Grown
  <2>4. \A k \in 1 .. typed : Good(e(k))
    BY <2>2, <2>3 DEF Good
  <2>5. toServer' = toServer \o s
    BY <1>7 DEF SendText
  <2> HIDE DEF e
  <2>6. s \in Seq(Sending) /\ Len(s) = typed /\ \A k \in 1 .. typed : s[k] = e(k)
    BY <2>1, <2>2
  <2>7. s \in Seq(Asking \cup Sending)
    BY <2>6, SeqMonotonic
  <2> HIDE DEF s
  <2>8. toServer' \in Seq(Asking \cup Sending) /\ DOMAIN toServer' = 1 .. (Len(toServer) + Len(s))
    BY <1>0, <2>5, <2>7
  <2>9. \A k \in DOMAIN toServer' :
           \/ k \in DOMAIN toServer /\ toServer'[k] = toServer[k]
           \/ k - Len(toServer) \in 1 .. typed /\ toServer'[k] = s[k - Len(toServer)]
    BY <1>0, <2>1, <2>5, <2>6, <2>7, <2>8
  <2> QED
    BY <1>2, <1>3, <2>4, <2>6, <2>8, <2>9
<1>8. StoreMessage \/ AnswerRequest \/ RefuseRequest =>
          toServer # <<>> /\ toServer' = Tail(toServer)
  BY DEF StoreMessage, AnswerRequest, RefuseRequest
<1> QED
  BY <1>4, <1>5, <1>6, <1>7, <1>8, QueueUntouched

\* Only the handlers that ask for a list, and the replies, change the rows.
LEMMA RowsUntouched ==
    ASSUME [Next]_vars, \A search \in Search \cup {AllChats} : ~ChangeSearch(search),
           ~PreparePage, ~HandleReceivedMessage,
           \A i \in DOMAIN requests : ~FillList(i) /\ ~FileNewChat(i)
    PROVE  UNCHANGED rows
  BY DEF Next, Gui, Resume, vars, pageVars, ClickSameRow, OpenChat,
     MoveCurrent, CloseChat, Type, SendText, SendTextNowhere, CreateChat, ClearInput,
     SendRequest, CannotAsk, TimeOut, EndResetList,
     ShowMessages, PartnerWrites, StoreMessage, AnswerRequest, RefuseRequest

\* Only sending, receiving and the reply change the messages of the page.
LEMMA MessagesUntouched ==
    ASSUME [Next]_vars, ~HandleReceivedMessage,
           \A chat \in DOMAIN chats : ~SendText(chat) /\ ~SendTextNowhere(chat),
           \A i \in DOMAIN requests : ~ShowMessages(i)
    PROVE  UNCHANGED messages
  BY DEF Next, Gui, Resume, vars, pageVars, ClickSameRow, OpenChat, ChangeSearch, PreparePage,
     MoveCurrent, CloseChat, Type, CreateChat, ClearInput,
     SendRequest, CannotAsk, TimeOut, EndResetList, FillList, FileNewChat,
     PartnerWrites, StoreMessage, AnswerRequest, RefuseRequest

\* An incident, once noted, stays.
LEMMA IncidentsStep ==
    ASSUME incidents \subseteq Incident, [Next]_vars
    PROVE  incidents' \subseteq Incident /\ incidents \subseteq incidents'
<1> USE DEF Incident, Noted
<1>1. CASE UNCHANGED incidents
  BY <1>1
<1>2. ASSUME NEW search, ChangeSearch(search)
      PROVE  incidents' \subseteq Incident /\ incidents \subseteq incidents'
  BY <1>2 DEF ChangeSearch, ListOverlap
<1>3. CASE PreparePage
  BY <1>3 DEF PreparePage, ListOverlap
<1>4. ASSUME NEW row, OpenChat(row)
      PROVE  incidents' \subseteq Incident /\ incidents \subseteq incidents'
  BY <1>4 DEF OpenChat
<1>5. ASSUME NEW chat, SendText(chat) \/ SendTextNowhere(chat)
      PROVE  incidents' \subseteq Incident /\ incidents \subseteq incidents'
  BY <1>5 DEF SendText, SendTextNowhere, Fail
<1>6. CASE HandleReceivedMessage
  BY <1>6 DEF HandleReceivedMessage, ListOverlap
<1>7. ASSUME NEW i, CannotAsk(i) \/ TimeOut(i) \/ FileNewChat(i)
      PROVE  incidents' \subseteq Incident /\ incidents \subseteq incidents'
  BY <1>7 DEF CannotAsk, TimeOut, FileNewChat, Fail
<1>8. CASE AnswerRequest
  BY <1>8 DEF AnswerRequest
<1>9. \/ UNCHANGED incidents
      \/ \E search : ChangeSearch(search)
      \/ PreparePage
      \/ \E row : OpenChat(row)
      \/ \E chat : SendText(chat) \/ SendTextNowhere(chat)
      \/ HandleReceivedMessage
      \/ \E i : CannotAsk(i) \/ TimeOut(i) \/ FileNewChat(i)
      \/ AnswerRequest
  BY DEF Next, Gui, Resume, vars, ClickSameRow, MoveCurrent, CloseChat, Type, CreateChat,
     ClearInput, SendRequest, EndResetList, FillList, ShowMessages, StoreMessage,
     RefuseRequest, PartnerWrites
<1> QED
  BY <1>1, <1>2, <1>3, <1>4, <1>5, <1>6, <1>7, <1>8, <1>9

RowsLead ==
    "misfiled" \notin incidents => \A k \in DOMAIN rows : LeadsTo(chats, rows[k])

\* Rows keep to chats that exist, and to their partners until one is misfiled.
LEMMA RowsStep ==
    ASSUME PageInv, RowsLead, [Next]_vars
    PROVE  RowsExist' /\ RowsLead'
<1>0. rows \in Seq(Row) /\ requests \in Seq(AnyRequest) /\ RowsExist /\ AnswersRight
  BY DEF PageInv, PageTypes, NetTypes
<1>1. Grown /\ incidents \subseteq incidents'
  BY ServerStep, IncidentsStep DEF PageInv, NetTypes
<1>2. CASE UNCHANGED rows
  BY <1>0, <1>1, <1>2 DEF RowsExist, RowsLead, LeadsTo, Grown
<1>3. CASE rows' = <<>>
  BY <1>3 DEF RowsExist, RowsLead
<1>4. ASSUME NEW i \in DOMAIN requests, FillList(i)
      PROVE  RowsExist' /\ RowsLead'
  <2> DEFINE a == requests[i].answer
  <2>1. a \in Seq(Row) /\ \A k \in DOMAIN a : LeadsTo(chats, a[k])
    <3>1. requests[i] \in AnyRequest /\ requests[i].kind = "list"
      BY <1>0, <1>4 DEF FillList
    <3> QED
      BY <1>0, <3>1, RequestFields DEF AnswersRight, RightAnswer
  <2>2. rows' = rows \o a /\ chats' = chats
    BY <1>4 DEF FillList, serverVars
  <2> HIDE DEF a
  <2>3. \A k \in DOMAIN rows' :
            \/ k \in DOMAIN rows /\ rows'[k] = rows[k]
            \/ k - Len(rows) \in DOMAIN a /\ rows'[k] = a[k - Len(rows)]
    BY <1>0, <2>1, <2>2
  <2> QED
    BY <1>0, <1>1, <2>1, <2>2, <2>3 DEF RowsExist, RowsLead, LeadsTo
<1>5. ASSUME NEW i \in DOMAIN requests, FileNewChat(i)
      PROVE  RowsExist' /\ RowsLead'
  <2> DEFINE row == requests[i].row
             id == IF requests[i].answer = <<>> THEN ChatUndefined ELSE requests[i].answer[1]
             new == [rows[row] EXCEPT !.id = id]
  <2>1. id # ChatUndefined => id \in DOMAIN chats /\ chats[id] = requests[i].for
    BY <1>0, <1>5 DEF AnswersRight, RightAnswer, FileNewChat
  <2>2. /\ rows' = IF row \in DOMAIN rows THEN [rows EXCEPT ![row].id = id] ELSE rows
        /\ chats' = chats
        /\ incidents' = incidents \cup Noted(PartnerAt(row) # requests[i].for, "misfiled")
    BY <1>5 DEF FileNewChat, serverVars
  <2> HIDE DEF row, id
  <2>3. CASE row \notin DOMAIN rows
    BY <1>2, <2>2, <2>3
  <2>4. CASE row \in DOMAIN rows
    <3>1. rows[row] \in Row
      BY <1>0, <2>4
    <3>2. new.id = id /\ new.partner = rows[row].partner
      BY <3>1 DEF Row
    <3>3. rows' = [rows EXCEPT ![row] = new]
      BY <2>2, <2>4
    <3> HIDE DEF new
    <3>4. DOMAIN rows' = DOMAIN rows
          /\ \A k \in DOMAIN rows : rows'[k] = IF k = row THEN new ELSE rows[k]
      BY <1>0, <3>3
    <3>5. RowsExist'
      BY <1>0, <2>1, <2>2, <3>2, <3>4 DEF RowsExist
    <3>6. ASSUME "misfiled" \notin incidents'
          PROVE  LeadsTo(chats, new)
      <4>1. rows[row].partner = requests[i].for
        BY <2>2, <2>4, <3>6 DEF Noted, PartnerAt
      <4> QED
        BY <2>1, <3>2, <4>1 DEF LeadsTo
    <3> QED
      BY <1>1, <2>2, <3>4, <3>5, <3>6 DEF RowsLead
  <2> QED
    BY <2>3, <2>4
<1>6. (\E search : ChangeSearch(search)) \/ PreparePage => rows' = <<>>
  BY DEF ChangeSearch, PreparePage, BeginList, Reset
<1>7. HandleReceivedMessage => rows' = <<>> \/ UNCHANGED rows
  BY DEF HandleReceivedMessage, BeginList, Reset
<1> QED
  BY <1>2, <1>3, <1>4, <1>5, <1>6, <1>7, RowsUntouched

\* The messages of the page, of the server and on their way are of chats that
\* exist.
LEMMA MessagesStep ==
    ASSUME PageInv, [Next]_vars
    PROVE  MessagesExist' /\ forwards' \in Seq(Message)
<1>0. /\ messages \in Seq(Message) /\ forwards \in Seq(Message) /\ chats \in Seq(Partner)
      /\ requests \in Seq(AnyRequest) /\ written \in Nat /\ PageTypes
      /\ \A k \in DOMAIN messages : messages[k].chat \in DOMAIN chats
      /\ \A k \in DOMAIN forwards : forwards[k].chat \in DOMAIN chats
  BY DEF PageInv, PageTypes, NetTypes, MessagesExist
<1>1. Grown /\ StoredRight'
  BY ServerStep
<1>2. \A k \in DOMAIN messages' : messages'[k].chat \in DOMAIN chats'
  <2>1. CASE UNCHANGED messages
    BY <1>0, <1>1, <2>1 DEF Grown
  <2>2. ASSUME NEW chat \in DOMAIN chats, SendText(chat) \/ SendTextNowhere(chat)
        PROVE  \A k \in DOMAIN messages' : messages'[k].chat \in DOMAIN chats'
    <3> DEFINE s == Chunks(chat)
    <3>1. s \in Seq(Message) /\ \A k \in DOMAIN s : s[k].chat = chat
      <4>1. chat \in Nat
        BY <1>0
      <4> QED
        BY <1>0, <4>1, ChunksTyped
    <3>2. messages' = messages \o s
      BY <2>2 DEF SendText, SendTextNowhere
    <3> HIDE DEF s
    <3>3. \A k \in DOMAIN messages' :
              \/ k \in DOMAIN messages /\ messages'[k] = messages[k]
              \/ k - Len(messages) \in DOMAIN s /\ messages'[k] = s[k - Len(messages)]
      BY <1>0, <3>1, <3>2
    <3> QED
      BY <1>0, <1>1, <3>1, <3>3 DEF Grown
  <2>3. CASE HandleReceivedMessage
    <3>1. forwards # <<>> /\ (messages' = messages \/ messages' = Append(messages, Head(forwards)))
      BY <2>3 DEF HandleReceivedMessage
    <3>2. Head(forwards) = forwards[1] /\ 1 \in DOMAIN forwards
      BY <1>0, <3>1
    <3>3. \A k \in DOMAIN messages' :
              \/ k \in DOMAIN messages /\ messages'[k] = messages[k]
              \/ messages'[k] = forwards[1]
      <4>1. forwards[1] \in Message
        BY <1>0, <3>2
      <4>2. CASE messages' = messages
        BY <4>2
      <4>3. CASE messages' = Append(messages, forwards[1])
        BY <1>0, <4>1, <4>3, Appended
      <4> QED
        BY <3>1, <3>2, <4>2, <4>3
    <3> QED
      BY <1>0, <1>1, <3>2, <3>3 DEF Grown
  <2>4. ASSUME NEW i \in DOMAIN requests, ShowMessages(i)
        PROVE  \A k \in DOMAIN messages' : messages'[k].chat \in DOMAIN chats'
    <3>1. messages' = requests[i].answer /\ requests[i].kind = "history"
      BY <2>4 DEF ShowMessages
    <3>2. RightAnswer(chats, requests[i])
      BY DEF PageInv, AnswersRight
    <3> QED
      BY <1>1, <3>1, <3>2 DEF RightAnswer, Grown
  <2> QED
    BY <2>1, <2>2, <2>3, <2>4, MessagesUntouched
<1>3. forwards' \in Seq(Message) /\ \A k \in DOMAIN forwards' : forwards'[k].chat \in DOMAIN chats'
  <2>1. CASE UNCHANGED forwards
    BY <1>0, <1>1, <2>1 DEF Grown
  <2>2. CASE HandleReceivedMessage
    <3>1. forwards # <<>> /\ forwards' = Tail(forwards)
      BY <2>2 DEF HandleReceivedMessage
    <3>2. forwards' \in Seq(Message)
          /\ \A k \in DOMAIN forwards' : forwards'[k] = forwards[k + 1] /\ k + 1 \in DOMAIN forwards
      BY <1>0, <3>1
    <3> QED
      BY <1>0, <1>1, <3>2 DEF Grown
  <2>3. ASSUME NEW p \in Partner, PartnerWrites(p)
        PROVE  forwards' \in Seq(Message)
               /\ \A k \in DOMAIN forwards' : forwards'[k].chat \in DOMAIN chats'
    <3>1. PICK c \in Nat : /\ c \in DOMAIN chats'
                           /\ forwards' = Append(forwards, [chat |-> c, number |-> written + 1])
      <4>1. CASE \E c \in DOMAIN chats :
                    /\ forwards' = Append(forwards, [chat |-> c, number |-> written + 1])
                    /\ chats' = chats
        BY <1>0, <4>1
      <4>2. CASE /\ chats' = Append(chats, p)
                 /\ forwards' = Append(forwards, [chat |-> Len(chats) + 1, number |-> written + 1])
        BY <1>0, <4>2
      <4> QED
        BY <2>3, <4>1, <4>2 DEF PartnerWrites
    <3> DEFINE m == [chat |-> c, number |-> written + 1]
    <3>2. m \in Message /\ m.chat = c
      BY <1>0 DEF Message
    <3>3. forwards' = Append(forwards, m)
      BY <3>1
    <3> HIDE DEF m
    <3>4. forwards' \in Seq(Message)
          /\ \A k \in DOMAIN forwards' :
                forwards'[k] = m \/ (k \in DOMAIN forwards /\ forwards'[k] = forwards[k])
      BY <1>0, <3>2, <3>3, Appended
    <3> QED
      BY <1>0, <1>1, <3>1, <3>2, <3>4 DEF Grown
  <2> QED
    BY <2>1, <2>2, <2>3, ForwardsUntouched
<1> QED
  BY <1>1, <1>2, <1>3 DEF MessagesExist, StoredRight

\* And the rows lead to their partners.
BaseInv == PageInv /\ RowsLead

\* It holds at the start.
LEMMA BaseInit == Init => BaseInv
<1> SUFFICES ASSUME Init PROVE BaseInv
  OBVIOUS
<1> USE PageAssumption DEF Init
<1> DEFINE known == SetToSeq(Known)
<1>1. IsFiniteSet(Known)
  BY FS_Subset
<1>2. known \in Seq(Known)
  BY <1>1, SomeOrder
<1>3. known \in Seq(Partner)
  BY <1>2, SeqMonotonic
<1>4. chats = known /\ stored = [c \in DOMAIN known |-> <<[chat |-> c, number |-> 0]>>]
  OBVIOUS
<1> HIDE DEF known
<1>5. DOMAIN known = 1 .. Len(known) /\ Len(known) \in Nat
  BY <1>3
<1>6. \A c \in DOMAIN known : <<[chat |-> c, number |-> 0]>> \in Seq(Message)
  BY <1>5 DEF Message
<1>7. stored \in Seq(Seq(Message)) /\ Len(stored) = Len(chats)
  BY <1>4, <1>5, <1>6
<1>8. \A c \in DOMAIN stored : \A k \in DOMAIN stored[c] : stored[c][k].chat = c
  BY <1>4, <1>5
<1>9. Request("list", AllChats, 0) \in AnyRequest
  BY RequestTyped DEF AllChats
<1>10. requests \in Seq(AnyRequest) /\ DOMAIN requests = {1}
       /\ requests[1] = Request("list", AllChats, 0)
  BY <1>9
<1>11. RightAnswer(chats, requests[1])
  BY <1>10, FreshRight
<1>12. /\ rows = <<>> /\ messages = <<>> /\ toServer = <<>> /\ forwards = <<>>
       /\ rows \in Seq(Row) /\ messages \in Seq(Message) /\ forwards \in Seq(Message)
       /\ toServer \in Seq(Asking \cup Sending) /\ DOMAIN <<>> = {}
  OBVIOUS
<1>13. PageTypes
  <2>1. /\ current \in Nat /\ lastSelected \in Nat
        /\ shown \in Partner \cup {NoPartner}
        /\ steady \in BOOLEAN
        /\ typed \in 0 .. MaxChunks /\ clears \in Nat
        /\ written \in Nat /\ clicks \in Nat /\ failures \in Nat
    <3>1. /\ current = 0 /\ lastSelected = 0 /\ shown = NoPartner /\ steady = FALSE /\ typed = 0
          /\ clears = 0 /\ written = 0 /\ clicks = 0 /\ failures = 0 /\ MaxChunks \in Nat
      OBVIOUS
    <3>2. steady \in BOOLEAN
      BY ONLY <3>1
    <3> QED
      BY ONLY <3>1, <3>2
  <2> QED
    BY <1>12, <2>1 DEF PageTypes
<1>14. NetTypes
  BY <1>3, <1>4, <1>7, <1>10, <1>12 DEF NetTypes
<1>15. AnswersRight
  BY <1>10, <1>11 DEF AnswersRight
<1>16. RowsExist /\ QueueExists /\ RowsLead
  BY <1>12 DEF RowsExist, QueueExists, RowsLead
<1>17. MessagesExist
  BY <1>8, <1>12 DEF MessagesExist
<1> QED
  BY <1>13, <1>14, <1>15, <1>16, <1>17 DEF BaseInv, PageInv

\* Every step keeps it.
LEMMA BaseStep == BaseInv /\ [Next]_vars => BaseInv'
<1> SUFFICES ASSUME BaseInv, [Next]_vars PROVE BaseInv'
  OBVIOUS
<1>0. PageInv /\ RowsLead /\ incidents \subseteq Incident
  BY DEF BaseInv, PageInv, NetTypes
<1>1. PageTypes'
  BY <1>0, PageTypesStep
<1>2. ServerTypes'
  BY <1>0, ServerStep
<1>3. requests' \in Seq(AnyRequest) /\ AnswersRight'
  BY <1>0, RequestsStep
<1>4. toServer' \in Seq(Asking \cup Sending) /\ QueueExists'
  BY <1>0, QueueStep
<1>5. RowsExist' /\ RowsLead'
  BY <1>0, RowsStep
<1>6. MessagesExist' /\ forwards' \in Seq(Message)
  BY <1>0, MessagesStep
<1>7. incidents' \subseteq Incident
  BY <1>0, IncidentsStep
<1>8. NetTypes'
  BY <1>2, <1>3, <1>4, <1>6, <1>7 DEF NetTypes, ServerTypes
<1> QED
  BY <1>1, <1>3, <1>4, <1>5, <1>6, <1>8 DEF BaseInv, PageInv

\* So it holds always.
LEMMA Base == Spec => []BaseInv
<1>1. Init => BaseInv
  BY BaseInit
<1>2. BaseInv /\ [Next]_vars => BaseInv'
  BY BaseStep
<1> QED
  BY <1>1, <1>2, PTL DEF Spec

\* TypeOK: whatever handlers, replies and the server do, and in which order,
\* the requests and what is on its way name what exists, and the messages of
\* the page are of chats the server has (chatPage.cpp, availableChatsModel.cpp,
\* messagesModel.cpp).
THEOREM PageTypesRight == Spec => []TypeOK
<1>1. BaseInv => TypeOK
  <2> SUFFICES ASSUME BaseInv PROVE TypeOK
    OBVIOUS
  <2> USE DEF BaseInv, PageInv
  <2>1. rows \in Seq([partner : Partner, id : Nat])
    BY DEF PageTypes, Row
  <2>2. /\ current \in Nat /\ lastSelected \in Nat
        /\ shown \in Partner \cup {NoPartner}
        /\ typed \in 0 .. MaxChunks /\ clears \in Nat /\ steady \in BOOLEAN
    BY DEF PageTypes
  <2>3. \A i \in DOMAIN messages : messages[i].chat \in DOMAIN chats
    BY DEF MessagesExist
  <2>4. \A i \in DOMAIN requests : requests[i].kind \in Kind /\ requests[i].stage \in Stage
    <3>1. \A i \in DOMAIN requests : requests[i] \in AnyRequest
      BY DEF NetTypes
    <3> QED
      BY <3>1, RequestFields
  <2>5. \A i \in DOMAIN toServer :
          \/ toServer[i].request \in DOMAIN requests
          \/ toServer[i].chat \in DOMAIN chats
    BY DEF QueueExists
  <2>6. chats \in Seq(Partner) /\ DOMAIN stored = DOMAIN chats /\ incidents \subseteq Incident
    BY DEF NetTypes
  <2> QED
    BY <2>1, <2>2, <2>3, <2>4, <2>5, <2>6 DEF TypeOK
<1> QED
  BY <1>1, Base, PTL

\* RowsLeadToPartner: a row leads to a chat with its partner until
\* FileNewChat writes an id into the row of another (chatPage.cpp:299-306).
THEOREM RowsLeadRight == Spec => []RowsLeadToPartner
<1>1. BaseInv => RowsLeadToPartner
  BY DEF BaseInv, RowsLead, RowsLeadToPartner, LeadsTo
<1> QED
  BY <1>1, Base, PTL

----------------------------------------------------------------------------
\* As long as the list is the one that was clicked into, its current row is
\* that of the partner whose name is above the messages.
CurrentShown ==
    steady =>
        /\ shown # NoPartner => current \in DOMAIN rows /\ rows[current].partner = shown
        /\ lastSelected # 0 => lastSelected = current

\* What SendText has sent while the list is the one clicked into is on its way
\* to the partner that is shown.
SentRight ==
    "misfiled" \notin incidents =>
        \A k \in DOMAIN toServer :
            toServer[k].request = 0 /\ toServer[k].steady =>
                chats[toServer[k].chat] = toServer[k].meant

\* The handlers keep the current row and the name together while steady.
LEMMA CurrentShownStep ==
    ASSUME BaseInv, CurrentShown, [Next]_vars
    PROVE  CurrentShown'
<1>0. rows \in Seq(Row) /\ requests \in Seq(AnyRequest)
  BY DEF BaseInv, PageInv, PageTypes, NetTypes
<1>1. CASE UNCHANGED <<steady, shown, current, rows, lastSelected>>
  BY <1>1 DEF CurrentShown
<1>2. CASE steady' = FALSE
  BY <1>2 DEF CurrentShown
<1>3. ASSUME NEW row \in DOMAIN rows, ClickSameRow(row)
      PROVE  CurrentShown'
  <2>1. row \in Nat /\ row # 0
    BY <1>0
  <2> QED
    BY <1>3, <2>1 DEF CurrentShown, ClickSameRow
<1>4. ASSUME NEW row \in DOMAIN rows, OpenChat(row)
      PROVE  CurrentShown'
  BY <1>4 DEF CurrentShown, OpenChat
<1>5. CASE CloseChat
  BY <1>5 DEF CurrentShown, CloseChat
<1>6. ASSUME NEW i \in DOMAIN requests, FillList(i)
      PROVE  CurrentShown'
  <2> DEFINE a == requests[i].answer
  <2>1. a \in Seq(Row)
    <3>1. requests[i] \in AnyRequest /\ requests[i].kind = "list"
      BY <1>0, <1>6 DEF FillList
    <3> QED
      BY <3>1, RequestFields
  <2>2. rows' = rows \o a /\ UNCHANGED <<current, lastSelected, shown, steady>>
    BY <1>6 DEF FillList
  <2> HIDE DEF a
  <2>3. \A k \in DOMAIN rows : k \in DOMAIN rows' /\ rows'[k] = rows[k]
    BY <1>0, <2>1, <2>2
  <2> QED
    BY <2>2, <2>3 DEF CurrentShown
<1>7. ASSUME NEW i \in DOMAIN requests, FileNewChat(i)
      PROVE  CurrentShown'
  <2>1. DOMAIN rows' = DOMAIN rows /\ \A k \in DOMAIN rows : rows'[k].partner = rows[k].partner
    <3>1. \A k \in DOMAIN rows : rows[k] \in Row
      BY <1>0
    <3> QED
      BY <1>7, <3>1 DEF FileNewChat, Row
  <2>2. UNCHANGED <<current, lastSelected, shown, steady>>
    BY <1>7 DEF FileNewChat
  <2> QED
    BY <2>1, <2>2 DEF CurrentShown
<1>8. \/ UNCHANGED <<steady, shown, current, rows, lastSelected>>
      \/ steady' = FALSE
      \/ \E row \in DOMAIN rows : ClickSameRow(row) \/ OpenChat(row)
      \/ CloseChat
      \/ \E i \in DOMAIN requests : FillList(i) \/ FileNewChat(i)
  BY DEF Next, Gui, Resume, vars, pageVars, ChangeSearch, PreparePage, BeginList, MoveCurrent,
     Type, SendText, SendTextNowhere, CreateChat, ClearInput, HandleReceivedMessage,
     SendRequest, CannotAsk, TimeOut, EndResetList, ShowMessages,
     PartnerWrites, StoreMessage, AnswerRequest, RefuseRequest
<1> QED
  BY <1>1, <1>2, <1>3, <1>4, <1>5, <1>6, <1>7, <1>8

\* So the chat a text is sent to is one with the partner that is shown.
LEMMA IdAtCurrent ==
    ASSUME BaseInv, CurrentShown, steady, shown # NoPartner, "misfiled" \notin incidents,
           IdAt(current) # ChatUndefined
    PROVE  IdAt(current) \in DOMAIN chats /\ chats[IdAt(current)] = shown
  BY DEF CurrentShown, BaseInv, RowsLead, LeadsTo, IdAt

\* Every text that comes into the queue is right, and no chat changes.
LEMMA SentRightStep ==
    ASSUME BaseInv, CurrentShown, SentRight, [Next]_vars
    PROVE  SentRight'
<1>0. toServer \in Seq(Asking \cup Sending) /\ incidents \subseteq Incident
      /\ PageInv /\ QueueExists /\ PageTypes
  BY DEF BaseInv, PageInv, NetTypes
<1>1. Grown /\ incidents \subseteq incidents'
  BY <1>0, ServerStep, IncidentsStep
<1> SUFFICES ASSUME "misfiled" \notin incidents',
                    NEW k \in DOMAIN toServer',
                    toServer'[k].request = 0, toServer'[k].steady
             PROVE  chats'[toServer'[k].chat] = toServer'[k].meant
  BY DEF SentRight
<1>2. ASSUME NEW j \in DOMAIN toServer, toServer'[k] = toServer[j]
      PROVE  chats'[toServer'[k].chat] = toServer'[k].meant
  BY <1>0, <1>1, <1>2 DEF SentRight, Grown, QueueExists
<1>3. CASE UNCHANGED toServer
  BY <1>2, <1>3
<1>4. CASE toServer # <<>> /\ toServer' = Tail(toServer)
  <2>1. k + 1 \in DOMAIN toServer /\ toServer'[k] = toServer[k + 1]
    BY <1>0, <1>4
  <2> QED
    BY <1>2, <2>1
<1>5. ASSUME NEW i \in DOMAIN requests, SendRequest(i)
      PROVE  chats'[toServer'[k].chat] = toServer'[k].meant
  <2> DEFINE e == [request |-> i]
  <2>1. toServer' = Append(toServer, e)
    BY <1>5 DEF SendRequest
  <2>2. i # 0 /\ e \in Asking /\ e.request = i
    <3>1. requests \in Seq(AnyRequest)
      BY <1>0 DEF PageInv, NetTypes
    <3> QED
      BY <3>1 DEF Asking
  <2> HIDE DEF e
  <2>3. toServer'[k] = e \/ (k \in DOMAIN toServer /\ toServer'[k] = toServer[k])
    <3>1. e \in Asking \cup Sending
      BY <2>2
    <3>2. k \in DOMAIN toServer'
      OBVIOUS
    <3> QED
      BY ONLY <1>0, <2>1, <3>1, <3>2, Appended
  <2> QED
    BY <1>2, <2>2, <2>3
<1>6. ASSUME NEW chat \in DOMAIN chats, SendText(chat)
      PROVE  chats'[toServer'[k].chat] = toServer'[k].meant
  <2> DEFINE e(n) == [request |-> 0, chat |-> chat, number |-> written + n,
                      meant |-> shown, steady |-> steady]
             s == [n \in 1 .. typed |-> e(n)]
  <2>1. typed \in Nat
    BY <1>0, PageAssumption DEF PageTypes
  <2>2. toServer' = toServer \o s
    BY <1>6 DEF SendText
  <2>3. \A n \in 1 .. typed : s[n].chat = chat /\ s[n].meant = shown /\ s[n].steady = steady
    OBVIOUS
  <2>4. s \in Seq({e(n) : n \in 1 .. typed}) /\ Len(s) = typed
    BY <2>1
  <2> HIDE DEF s
  <2>5. \/ k \in DOMAIN toServer /\ toServer'[k] = toServer[k]
        \/ k - Len(toServer) \in 1 .. typed /\ toServer'[k] = s[k - Len(toServer)]
    BY <1>0, <2>1, <2>2, <2>4
  <2>6. CASE steady
    <3>1. chat = IdAt(current) /\ chat # ChatUndefined /\ shown # NoPartner
      BY <1>6 DEF SendText, CanPress
    <3>2. chats[chat] = shown
      BY <1>1, <2>6, <3>1, IdAtCurrent
    <3>3. chats'[chat] = shown
      BY <1>1, <3>2 DEF Grown
    <3> QED
      BY <1>2, <2>3, <2>5, <3>3
  <2>7. CASE ~steady
    BY <1>2, <2>3, <2>5, <2>7
  <2> QED
    BY <2>6, <2>7
<1>7. StoreMessage \/ AnswerRequest \/ RefuseRequest =>
          toServer # <<>> /\ toServer' = Tail(toServer)
  BY DEF StoreMessage, AnswerRequest, RefuseRequest
<1> QED
  BY <1>3, <1>4, <1>5, <1>6, <1>7, QueueUntouched

\* SentToShown: a text goes to the partner whose name is above the messages,
\* although SendText takes the chat from the current row (chatPage.cpp:286) and
\* the name is that of the row clicked last (chatPage.cpp:250-263).
THEOREM TextsReachShown == Spec => []SentToShown
<1> DEFINE Inv == CurrentShown /\ SentRight
<1>1. Init => Inv
  BY DEF Init, CurrentShown, SentRight
<1>2. BaseInv /\ Inv /\ [Next]_vars => Inv'
  BY CurrentShownStep, SentRightStep
<1>3. Inv => SentToShown
  BY DEF SentRight, SentToShown
<1> HIDE DEF Inv
<1> QED
  BY <1>1, <1>2, <1>3, Base, PTL DEF Spec

----------------------------------------------------------------------------
\* No request comes into flight but the one that is asked.
LEMMA InFlightStep ==
    ASSUME BaseInv, [Next]_vars, NEW kind
    PROVE  \A i \in InFlight(kind)' :
              i \in InFlight(kind) \/ (i \in DOMAIN requests' \ DOMAIN requests)
  BY RequestsStep DEF BaseInv, RequestsKept, InFlight

\* A list that is asked for finds no other in flight, as long as lists do not
\* overlap, and until it is filled the rows are empty.
ListsInv ==
    "overlap" \notin incidents =>
        /\ \A i, j \in InFlight("list") : i = j
        /\ \A i \in InFlight("list") : requests[i].stage # "filled" => rows = <<>>

\* Nobody is in an answer twice as long as nobody has two chats.
PartnersDiffer(s) == \A j, k \in DOMAIN s : j # k => s[j].partner # s[k].partner
AnswersDiffer ==
    "doubled" \notin incidents =>
        /\ OneChatEach
        /\ \A i \in DOMAIN requests :
              requests[i].kind = "list" => PartnersDiffer(requests[i].answer)

\* What asking for a list does.
BeginsList == \E search : BeginList(search) /\ ListOverlap \subseteq incidents'

\* Rows only change in an answer's steps and where a list is asked for.
LEMMA ListsBegin ==
    ASSUME [Next]_vars,
           ~ \E i \in DOMAIN requests : FillList(i) \/ FileNewChat(i)
    PROVE  BeginsList \/ UNCHANGED rows
<1>1. ASSUME NEW search \in Search \cup {AllChats}, ChangeSearch(search) PROVE BeginsList
  BY <1>1 DEF ChangeSearch, BeginsList
<1>2. PreparePage => BeginsList
  BY DEF PreparePage, BeginsList
<1>3. HandleReceivedMessage => BeginsList \/ UNCHANGED rows
  BY DEF HandleReceivedMessage, BeginsList
<1> QED
  BY <1>1, <1>2, <1>3, RowsUntouched

\* A request that was not there before.
Asked(kind, for) ==
    LET n == Len(requests) + 1 IN
    /\ DOMAIN requests' = DOMAIN requests \cup {n} /\ n \notin DOMAIN requests
    /\ \A j \in DOMAIN requests : requests'[j] = requests[j]
    /\ requests'[n].kind = kind /\ requests'[n].for = for
    /\ requests'[n].stage = "asked" /\ requests'[n].answer = <<>>

\* Ask makes exactly one new request.
LEMMA AskedOne ==
    ASSUME BaseInv, NEW kind, NEW for, NEW row \in Nat, Ask(kind, for, row),
           \/ kind = "list" /\ for \in SUBSET Partner
           \/ kind = "history" /\ for \in Nat
           \/ kind = "create" /\ for \in Partner \cup {NoPartner}
    PROVE  Asked(kind, for)
<1>1. requests \in Seq(AnyRequest)
  BY DEF BaseInv, PageInv, NetTypes
<1>2. Len(requests) + 1 \notin DOMAIN requests
  BY <1>1
<1>3. /\ DOMAIN requests' = DOMAIN requests \cup {Len(requests) + 1}
      /\ \A j \in DOMAIN requests : requests'[j] = requests[j]
      /\ requests'[Len(requests) + 1] = Request(kind, for, row)
  BY <1>1, AskedFacts
<1> QED
  BY <1>2, <1>3 DEF Asked, Request

NewRequest ==
    \/ DOMAIN requests' = DOMAIN requests
    \/ BeginsList /\ \E for : Asked("list", for)
    \/ CreateChat /\ \E for : Asked("create", for)
    \/ \E row \in DOMAIN rows :
          OpenChat(row) /\ rows[row].id # ChatUndefined /\ Asked("history", rows[row].id)

\* Every step makes no request, or one, and which.
LEMMA NewRequests ==
    ASSUME BaseInv, [Next]_vars
    PROVE  NewRequest
<1> USE DEF NewRequest
<1>0. PageInv /\ requests \in Seq(AnyRequest) /\ rows \in Seq(Row) /\ chats \in Seq(Partner)
      /\ current \in Nat
  BY DEF BaseInv, PageInv, NetTypes, PageTypes
<1>1. ASSUME NEW search \in SUBSET Partner, BeginList(search) PROVE \E for : Asked("list", for)
  <2>1. Ask("list", search, 0)
    BY <1>1 DEF BeginList
  <2> QED
    BY <2>1, AskedOne
<1>2. \A search \in Search \cup {AllChats} : search \in SUBSET Partner
  BY PageAssumption DEF AllChats
<1>3. ASSUME NEW search \in Search \cup {AllChats}, ChangeSearch(search) PROVE NewRequest
  BY <1>1, <1>2, <1>3 DEF ChangeSearch, BeginsList
<1>4. CASE PreparePage
  BY <1>1, <1>2, <1>4 DEF PreparePage, BeginsList
<1>5. CASE HandleReceivedMessage
  BY <1>1, <1>2, <1>5 DEF HandleReceivedMessage, BeginsList
<1>6. CASE CreateChat
  <2>1. PartnerAt(current) \in Partner \cup {NoPartner}
    <3>1. CASE current \in DOMAIN rows
      <4>1. rows[current] \in Row
        BY <1>0, <3>1
      <4> QED
        BY <3>1, <4>1 DEF PartnerAt, Row
    <3>2. CASE current \notin DOMAIN rows
      BY <3>2 DEF PartnerAt
    <3> QED
      BY <3>1, <3>2
  <2>2. Ask("create", PartnerAt(current), current)
    BY <1>6 DEF CreateChat
  <2>3. Asked("create", PartnerAt(current))
    BY <1>0, <2>1, <2>2, AskedOne
  <2> QED
    BY <1>6, <2>3
<1>7. ASSUME NEW row \in DOMAIN rows, OpenChat(row) PROVE NewRequest
  <2>1. CASE rows[row].id = ChatUndefined
    BY <1>7, <2>1 DEF OpenChat
  <2>2. CASE rows[row].id # ChatUndefined
    <3>1. rows[row].id \in Nat
      <4>1. rows[row] \in Row
        BY <1>0
      <4> QED
        BY <4>1 DEF Row
    <3>2. Ask("history", rows[row].id, 0)
      BY <1>7, <2>2 DEF OpenChat
    <3>3. Asked("history", rows[row].id)
      BY <3>1, <3>2, AskedOne
    <3> QED
      BY <1>7, <2>2, <3>3
  <2> QED
    BY <2>1, <2>2
<1>8. CASE AnswerRequest
  BY <1>0, <1>8, AnswerStep
<1>9. ASSUME NEW i \in DOMAIN requests,
             SendRequest(i) \/ CannotAsk(i) \/ TimeOut(i) \/ Resume(i)
      PROVE  NewRequest
  <2>1. MovesOn => DOMAIN requests' = DOMAIN requests
    BY <1>0, InStageFacts DEF MovesOn
  <2>2. (\E k \in DOMAIN requests : requests' = Finished(k)) => DOMAIN requests' = DOMAIN requests
    BY <1>0, FinishedFacts
  <2>3. "sent" \in Stage \ {"asked", "done"} /\ "answered" \in Stage \ {"asked", "done"}
        /\ "filled" \in Stage \ {"asked", "done"}
    BY DEF Stage
  <2>4. MovesOn \/ \E k \in DOMAIN requests : requests' = Finished(k)
    BY <1>9, <2>3 DEF SendRequest, CannotAsk, TimeOut, Resume, FillList, EndResetList,
       ShowMessages, FileNewChat, MovesOn
  <2> QED
    BY <2>1, <2>2, <2>4
<1>10. CASE UNCHANGED requests
  BY <1>10
<1> QED
  BY <1>3, <1>4, <1>5, <1>6, <1>7, <1>8, <1>9, <1>10, RequestsUntouched

\* Only one list is in flight, over rows that are empty, in every step.
LEMMA ListsStep ==
    ASSUME BaseInv, ListsInv, [Next]_vars
    PROVE  ListsInv'
<1> SUFFICES ASSUME "overlap" \notin incidents'
             PROVE  /\ \A i, j \in InFlight("list")' : i = j
                    /\ \A i \in InFlight("list")' : requests'[i].stage # "filled" => rows' = <<>>
  BY DEF ListsInv
<1>0. "overlap" \notin incidents
  BY IncidentsStep DEF BaseInv, PageInv, NetTypes
<1>1. CASE BeginsList
  <2>1. rows' = <<>> /\ ListOverlap \subseteq incidents'
    BY <1>1 DEF BeginsList, BeginList, Reset
  <2>2. InFlight("list") = {}
    BY <2>1 DEF ListOverlap, Noted
  <2>3. \A i, j \in DOMAIN requests' \ DOMAIN requests : i = j
    BY NewRequests DEF NewRequest, Asked
  <2> QED
    BY <2>1, <2>2, <2>3, InFlightStep
<1>2. CASE ~BeginsList
  <2>1. InFlight("list")' \subseteq InFlight("list")
    <3>1. \A i \in DOMAIN requests' \ DOMAIN requests : requests'[i].kind # "list"
      BY <1>2, NewRequests DEF NewRequest, Asked
    <3> QED
      BY <3>1, InFlightStep DEF InFlight
  <2>2. \A i, j \in InFlight("list")' : i = j
    BY <1>0, <2>1 DEF ListsInv
  <2>3. ASSUME NEW i \in InFlight("list")', requests'[i].stage # "filled"
        PROVE  rows' = <<>>
    <3>1. i \in InFlight("list") /\ i \in DOMAIN requests
      BY <2>1, <2>3 DEF InFlight
    <3>2. RequestsKept
      BY RequestsStep DEF BaseInv
    <3>3. requests[i].stage # "filled"
      BY <2>3, <3>1, <3>2 DEF RequestsKept, InFlight
    <3>4. rows = <<>>
      BY <1>0, <3>1, <3>3 DEF ListsInv
    <3>5. ASSUME NEW k \in DOMAIN requests, FillList(k) PROVE FALSE
      <4>1. k \in InFlight("list")
        BY <3>5 DEF FillList, InFlight
      <4>2. k = i
        BY <1>0, <3>1, <4>1 DEF ListsInv
      <4>3. requests \in Seq(AnyRequest) /\ "filled" \in Stage /\ requests[i] \in AnyRequest
        BY <3>1 DEF BaseInv, PageInv, NetTypes, Stage
      <4>4. requests'[i] = [requests[i] EXCEPT !.stage = "filled"]
        BY <3>1, <3>5, <4>2, <4>3, InStageFacts DEF FillList
      <4>5. requests'[i].stage = "filled"
        BY <4>3, <4>4 DEF AnyRequest, ListRequest, HistoryRequest, CreateRequest
      <4> QED
        BY <2>3, <4>5
    <3>6. ASSUME NEW k \in DOMAIN requests, FileNewChat(k) PROVE rows' = <<>>
      BY <3>4, <3>6 DEF FileNewChat
    <3> QED
      BY <1>2, <3>4, <3>5, <3>6, ListsBegin
  <2> QED
    BY <2>2, <2>3
<1> QED
  BY <1>1, <1>2

\* No answer gets a partner twice.
LEMMA AnswersDifferStep ==
    ASSUME BaseInv, AnswersDiffer, [Next]_vars
    PROVE  AnswersDiffer'
<1> SUFFICES ASSUME "doubled" \notin incidents'
             PROVE  /\ OneChatEach'
                    /\ \A i \in DOMAIN requests' :
                          requests'[i].kind = "list" => PartnersDiffer(requests'[i].answer)
  BY DEF AnswersDiffer
<1>0. /\ PageInv /\ requests \in Seq(AnyRequest) /\ NetTypes
      /\ chats \in Seq(Partner) /\ "doubled" \notin incidents
      /\ OneChatEach
      /\ \A i \in DOMAIN requests :
            requests[i].kind = "list" => PartnersDiffer(requests[i].answer)
  BY IncidentsStep DEF BaseInv, PageInv, NetTypes, AnswersDiffer
<1>1. OneChatEach'
  <2>1. CASE UNCHANGED chats
    BY <1>0, <2>1 DEF OneChatEach
  <2>2. ASSUME NEW p \in Partner, chats' = Append(chats, p), \A c \in DOMAIN chats : chats[c] # p
        PROVE  OneChatEach'
    <3>1. /\ DOMAIN chats' = DOMAIN chats \cup {Len(chats) + 1}
          /\ chats'[Len(chats) + 1] = p
          /\ \A c \in DOMAIN chats : chats'[c] = chats[c]
      BY <1>0, <2>2, Appended
    <3> QED
      BY <1>0, <2>2, <3>1 DEF OneChatEach
  <2>3. CASE AnswerRequest
    <3>1. CASE FrontRequest.kind = "create"
      <4>1. FrontRequest.for \in Partner
        BY <1>0, <2>3, <3>1, AnswerTyped
      <4>2. chats' = Append(chats, FrontRequest.for)
        BY <2>3, <3>1 DEF AnswerRequest, FrontRequest
      <4>3. Noted(FrontRequest.kind = "create"
                  /\ \E c \in DOMAIN chats : chats[c] = FrontRequest.for, "doubled")
               \subseteq incidents'
        BY <2>3 DEF AnswerRequest, FrontRequest
      <4>4. \A c \in DOMAIN chats : chats[c] # FrontRequest.for
        BY <3>1, <4>3 DEF Noted
      <4> QED
        BY <2>2, <4>1, <4>2, <4>4
    <3>2. CASE FrontRequest.kind # "create"
      BY <2>1, <2>3, <3>2 DEF AnswerRequest, FrontRequest, serverVars
    <3> QED
      BY <3>1, <3>2
  <2>4. ASSUME NEW p \in Partner, PartnerWrites(p) PROVE OneChatEach'
    BY <2>1, <2>2, <2>4 DEF PartnerWrites
  <2>5. StoreMessage => UNCHANGED chats
    BY DEF StoreMessage
  <2> QED
    BY <2>1, <2>3, <2>4, <2>5, ServerUntouched
<1>2. ASSUME NEW i \in DOMAIN requests', requests'[i].kind = "list"
      PROVE  PartnersDiffer(requests'[i].answer)
  <2>0. PartnersDiffer(<<>>)
    BY DEF PartnersDiffer
  <2>1. CASE i \notin DOMAIN requests
    <3>1. requests'[i].answer = <<>>
      BY <2>1, NewRequests DEF NewRequest, Asked
    <3> QED
      BY <2>0, <3>1
  <2>2. CASE i \in DOMAIN requests
    <3>0. requests[i].kind = "list" /\ PartnersDiffer(requests[i].answer)
          /\ requests[i] \in AnyRequest
      BY <1>0, <1>2, <2>2, RequestsStep DEF RequestsKept
    <3>1. CASE ~AnswerRequest
      <4>1. requests'[i].answer = requests[i].answer \/ requests'[i].answer = <<>>
        <5>1. CASE UNCHANGED requests
          BY <5>1
        <5>2. CASE Asks
          <6>1. PICK for : \E kind \in Kind, row \in Nat : Ask(kind, for, row)
            BY <5>2 DEF Asks
          <6>2. \E r : requests' = Append(requests, r)
            BY <6>1 DEF Ask
          <6> QED
            BY <1>0, <2>2, <6>2
        <5>3. CASE MovesOn
          <6>1. PICK j \in DOMAIN requests, stage \in Stage \ {"asked", "done"} :
                    requests' = InStage(j, stage)
            BY <5>3 DEF MovesOn
          <6>2. \A k \in DOMAIN requests :
                    requests'[k] = IF k = j THEN [requests[j] EXCEPT !.stage = stage]
                                   ELSE requests[k]
            BY <1>0, <6>1, InStageFacts
          <6> QED
            BY <2>2, <3>0, <6>2 DEF AnyRequest, ListRequest, HistoryRequest, CreateRequest
        <5>4. CASE Finishes
          <6>1. PICK j \in DOMAIN requests : requests' = Finished(j)
            BY <5>4 DEF Finishes
          <6>2. requests'[i] = IF i = j THEN [requests[j] EXCEPT !.stage = "done", !.answer = <<>>]
                               ELSE requests[i]
            BY <1>0, <2>2, <6>1, FinishedFacts
          <6> QED
            BY <3>0, <6>2 DEF AnyRequest, ListRequest, HistoryRequest, CreateRequest
        <5> QED
          BY <1>0, <3>1, <5>1, <5>2, <5>3, <5>4, RequestsMove
      <4> QED
        BY <2>0, <3>0, <4>1
    <3>2. CASE AnswerRequest
      <4> DEFINE h == Head(toServer).request
                 R == ListRows(FrontRequest.for)
      <4>1. requests'[i] = IF i = h /\ FrontRequest.stage = "sent"
                           THEN [FrontRequest EXCEPT !.stage = "answered", !.answer = Answer(h)]
                           ELSE requests[i]
        BY <1>0, <2>2, <3>2, AnswerStep
      <4>2. CASE i # h \/ FrontRequest.stage # "sent"
        BY <3>0, <4>1, <4>2
      <4>3. CASE i = h /\ FrontRequest.stage = "sent"
        <5>1. FrontRequest = requests[i]
          BY <4>3 DEF FrontRequest
        <5>2. requests'[i].answer = Answer(h)
          BY <3>0, <4>1, <4>3, <5>1 DEF AnyRequest, ListRequest, HistoryRequest, CreateRequest
        <5>3. Answer(h) = SetToSeq(R) /\ FrontRequest.for \in SUBSET Partner
          BY <1>0, <3>0, <3>2, <5>1, AnswerTyped
        <5>4. IsFiniteSet(R)
          BY <1>0, <5>3, FiniteRows
        <5> DEFINE s == SetToSeq(R)
        <5>5. s \in Seq(R) /\ \A j, k \in DOMAIN s : s[j] = s[k] => j = k
          BY <5>4, SomeOrder
        <5>6. \A r, q \in R : r.partner = q.partner => r = q
          BY <1>0, <5>3, AnswerRowsDiffer
        <5> HIDE DEF s, R
        <5>7. \A j \in DOMAIN s : s[j] \in R
          BY <5>5
        <5>8. PartnersDiffer(s)
          BY <5>5, <5>6, <5>7 DEF PartnersDiffer
        <5> QED
          BY <5>2, <5>3, <5>8 DEF s
      <4> QED
        BY <4>2, <4>3
    <3> QED
      BY <3>1, <3>2
  <2> QED
    BY <2>1, <2>2
<1> QED
  BY <1>1, <1>2

\* A list that is filled is filled from empty with one answer.
LEMMA RowsDifferStep ==
    ASSUME BaseInv, ListsInv, AnswersDiffer, NoChatTwice, [Next]_vars
    PROVE  NoChatTwice'
<1> SUFFICES ASSUME {"overlap", "doubled"} \cap incidents' = {}
             PROVE  PartnersDiffer(rows')
  BY DEF NoChatTwice, PartnersDiffer
<1>0. /\ {"overlap", "doubled"} \cap incidents = {}
      /\ requests \in Seq(AnyRequest) /\ rows \in Seq(Row)
  BY IncidentsStep DEF BaseInv, PageInv, NetTypes, PageTypes
<1>1. PartnersDiffer(rows)
  BY <1>0 DEF NoChatTwice, PartnersDiffer
<1>2. PartnersDiffer(<<>>)
  BY DEF PartnersDiffer
<1>3. ASSUME NEW i \in DOMAIN requests, FillList(i) PROVE PartnersDiffer(rows')
  <2>1. i \in InFlight("list") /\ requests[i].stage # "filled" /\ requests[i].kind = "list"
    BY <1>3 DEF FillList, InFlight
  <2>2. rows = <<>>
    BY <1>0, <2>1 DEF ListsInv
  <2>3. requests[i] \in AnyRequest
    BY <1>0
  <2>4. requests[i].answer \in Seq(Row)
    BY <2>1, <2>3, RequestFields
  <2>5. rows' = requests[i].answer
    BY <1>3, <2>2, <2>4 DEF FillList
  <2> QED
    BY <1>0, <2>1, <2>5 DEF AnswersDiffer
<1>4. ASSUME NEW i \in DOMAIN requests, FileNewChat(i) PROVE PartnersDiffer(rows')
  <2>1. DOMAIN rows' = DOMAIN rows /\ \A k \in DOMAIN rows : rows'[k].partner = rows[k].partner
    <3>1. \A k \in DOMAIN rows : rows[k] \in Row
      BY <1>0
    <3> QED
      BY <1>4, <3>1 DEF FileNewChat, Row
  <2> QED
    BY <1>1, <2>1 DEF PartnersDiffer
<1>5. BeginsList => rows' = <<>>
  BY DEF BeginsList, BeginList, Reset
<1> QED
  BY <1>1, <1>2, <1>3, <1>4, <1>5, ListsBegin

\* At the start there is one chat with each of those known.
LEMMA AnswersDifferInit == Init => AnswersDiffer
<1> SUFFICES ASSUME Init PROVE AnswersDiffer
  OBVIOUS
<1>1. requests = <<Request("list", AllChats, 0)>> /\ chats = SetToSeq(Known)
  BY DEF Init
<1>2. DOMAIN requests = {1} /\ requests[1].answer = <<>>
  BY <1>1 DEF Request
<1>3. IsFiniteSet(Known)
  BY PageAssumption, FS_Subset
<1>4. OneChatEach
  BY <1>1, <1>3, SomeOrder DEF OneChatEach
<1> QED
  BY <1>2, <1>4 DEF AnswersDiffer, PartnersDiffer

\* NoChatTwice: no partner is in two rows of the list, for any number of
\* resets and replies, until two lists overlap (availableChatsModel.cpp:54-93)
\* or a chat is made with a partner there was one with (chatPage.cpp:301-306).
THEOREM NobodyTwice == Spec => []NoChatTwice
<1> DEFINE Inv == ListsInv /\ AnswersDiffer /\ NoChatTwice
<1>1. Init => Inv
  <2> SUFFICES ASSUME Init PROVE Inv
    OBVIOUS
  <2>1. requests = <<Request("list", AllChats, 0)>> /\ rows = <<>>
    BY DEF Init
  <2>2. ListsInv
    BY <2>1 DEF ListsInv, InFlight, Request
  <2> QED
    BY <2>1, <2>2, AnswersDifferInit DEF NoChatTwice
<1>2. BaseInv /\ Inv /\ [Next]_vars => Inv'
  BY ListsStep, AnswersDifferStep, RowsDifferStep
<1>3. Inv => NoChatTwice
  OBVIOUS
<1> HIDE DEF Inv
<1> QED
  BY <1>1, <1>2, <1>3, Base, PTL DEF Spec

----------------------------------------------------------------------------
\* While nothing has disturbed the page, one chat's messages are asked for at
\* a time, and they are those of a chat with the partner that is shown.
OneHistory == \A i, j \in InFlight("history") : i = j
HistoryOfShown ==
    shown # NoPartner => \A i \in InFlight("history") : chats[requests[i].for] = shown
ShownOfShown ==
    shown # NoPartner /\ InFlight("history") = {} =>
        \A k \in DOMAIN messages : chats[messages[k].chat] = shown
HistoryInv == ~Disturbed => OneHistory /\ HistoryOfShown /\ ShownOfShown

\* An incident is not taken back.
LEMMA StillUndisturbed ==
    ASSUME BaseInv, [Next]_vars, ~Disturbed'
    PROVE  ~Disturbed
  BY IncidentsStep DEF BaseInv, PageInv, NetTypes, Disturbed

\* A request for messages in flight stays there until ShowMessages, as none
\* fails.
LEMMA HistoryStays ==
    ASSUME BaseInv, [Next]_vars, ~Disturbed',
           \A i \in DOMAIN requests : ~ShowMessages(i)
    PROVE  InFlight("history") \subseteq InFlight("history")'
<1> SUFFICES ASSUME NEW i \in InFlight("history")
             PROVE  i \in InFlight("history")'
  OBVIOUS
<1>0. requests \in Seq(AnyRequest) /\ RequestsKept
  BY RequestsStep DEF BaseInv, PageInv, NetTypes
<1>1. i \in DOMAIN requests /\ requests[i].kind = "history" /\ requests[i].stage # "done"
      /\ requests[i] \in AnyRequest
  BY <1>0 DEF InFlight
<1>2. i \in DOMAIN requests' /\ requests'[i].kind = "history"
  BY <1>0, <1>1 DEF RequestsKept
<1>3. requests'[i].stage # "done"
  <2>1. CASE UNCHANGED requests
    BY <1>1, <2>1
  <2>2. CASE Asks
    <3>1. PICK for : \E kind \in Kind, row \in Nat : Ask(kind, for, row)
      BY <2>2 DEF Asks
    <3>2. \E r : requests' = Append(requests, r)
      BY <3>1 DEF Ask
    <3> QED
      BY <1>0, <1>1, <3>2
  <2>3. CASE MovesOn
    <3>1. PICK j \in DOMAIN requests, stage \in Stage \ {"asked", "done"} :
              requests' = InStage(j, stage)
      BY <2>3 DEF MovesOn
    <3>2. \A k \in DOMAIN requests :
              requests'[k] = IF k = j THEN [requests[j] EXCEPT !.stage = stage]
                             ELSE requests[k]
      BY <1>0, <3>1, InStageFacts
    <3> QED
      BY <1>1, <3>2 DEF AnyRequest, ListRequest, HistoryRequest, CreateRequest
  <2>4. CASE Finishes
    <3>1. PICK j \in DOMAIN requests :
              /\ requests' = Finished(j)
              /\ requests[j].kind = "history" => ShowMessages(j) \/ CannotAsk(j)
      BY <2>4 DEF Finishes
    <3>2. ~CannotAsk(j)
      BY DEF CannotAsk, Fail, Disturbed
    <3>3. j # i
      BY <1>1, <3>1, <3>2
    <3>4. requests'[i] = requests[i]
      BY <1>0, <1>1, <3>1, <3>3, FinishedFacts
    <3> QED
      BY <1>1, <3>4
  <2>5. CASE AnswerRequest
    <3>1. \A k \in DOMAIN requests :
              \/ requests'[k] = requests[k]
              \/ /\ k = Head(toServer).request
                 /\ requests'[k] = [FrontRequest EXCEPT !.stage = "answered",
                                                 !.answer = Answer(Head(toServer).request)]
      BY <2>5, AnswerStep DEF BaseInv
    <3>2. Head(toServer).request = i => FrontRequest = requests[i]
      BY DEF FrontRequest
    <3> QED
      BY <1>1, <3>1, <3>2 DEF AnyRequest, ListRequest, HistoryRequest, CreateRequest
  <2> QED
    BY <2>1, <2>2, <2>3, <2>4, <2>5, RequestsMove DEF BaseInv
<1> QED
  BY <1>2, <1>3 DEF InFlight

\* Nobody but OpenChat asks for messages.
LEMMA HistoryUnasked ==
    ASSUME BaseInv, [Next]_vars, \A row \in DOMAIN rows : ~OpenChat(row)
    PROVE  InFlight("history")' \subseteq InFlight("history")
<1>1. \A i \in DOMAIN requests' \ DOMAIN requests : requests'[i].kind # "history"
  BY NewRequests DEF NewRequest, Asked
<1> QED
  BY <1>1, InFlightStep DEF InFlight

\* A history in flight is of a chat that stays what it is.
LEMMA HistoryFor ==
    ASSUME BaseInv, [Next]_vars, NEW i \in InFlight("history")
    PROVE  /\ requests'[i].for = requests[i].for
           /\ requests[i].for \in DOMAIN chats
           /\ chats'[requests[i].for] = chats[requests[i].for]
<1>1. i \in DOMAIN requests /\ requests[i].kind = "history"
  BY DEF InFlight
<1>2. RightAnswer(chats, requests[i]) /\ RequestsKept /\ Grown
  BY <1>1, ServerStep, RequestsStep DEF BaseInv, PageInv, AnswersRight
<1> QED
  BY <1>1, <1>2 DEF RightAnswer, RequestsKept, Grown

\* Every step keeps the three.
LEMMA HistoryStep ==
    ASSUME BaseInv, CurrentShown, HistoryInv, [Next]_vars
    PROVE  HistoryInv'
<1> SUFFICES ASSUME ~Disturbed'
             PROVE  OneHistory' /\ HistoryOfShown' /\ ShownOfShown'
  BY DEF HistoryInv
<1>0. /\ ~Disturbed /\ OneHistory /\ HistoryOfShown /\ ShownOfShown /\ Grown
      /\ messages \in Seq(Message) /\ forwards \in Seq(Message) /\ rows \in Seq(Row)
      /\ MessagesExist /\ chats \in Seq(Partner)
  BY StillUndisturbed, ServerStep DEF HistoryInv, BaseInv, PageInv, PageTypes, NetTypes
<1>m. "misfiled" \notin incidents
  BY <1>0 DEF Disturbed
<1>1. ASSUME NEW row \in DOMAIN rows, OpenChat(row)
      PROVE  OneHistory' /\ HistoryOfShown' /\ ShownOfShown'
  <2>1. shown' = rows[row].partner /\ messages' = messages /\ chats' = chats
    BY <1>1 DEF OpenChat, serverVars
  <2>2. InFlight("history") = {}
    <3>1. Noted(InFlight("history") # {}, "histories") \subseteq incidents'
      BY <1>1 DEF OpenChat
    <3> QED
      BY <3>1 DEF Noted, Disturbed
  <2>3. CASE rows[row].id = ChatUndefined
    <3>1. Noted(messages # <<>>, "unmade") \subseteq incidents' /\ UNCHANGED requests
      BY <1>1, <2>3 DEF OpenChat
    <3>2. messages = <<>>
      BY <3>1 DEF Noted, Disturbed
    <3>3. InFlight("history")' = {}
      BY <2>2, <3>1 DEF InFlight
    <3> QED
      BY <2>1, <3>2, <3>3 DEF OneHistory, HistoryOfShown, ShownOfShown
  <2>4. CASE rows[row].id # ChatUndefined
    <3>1. chats[rows[row].id] = rows[row].partner
      BY <1>m, <2>4 DEF BaseInv, RowsLead, LeadsTo
    <3>2. Asked("history", rows[row].id)
      <4>1. rows[row] \in Row
        BY <1>0
      <4>2. Ask("history", rows[row].id, 0)
        BY <1>1, <2>4 DEF OpenChat
      <4> QED
        BY <4>1, <4>2, AskedOne DEF Row
    <3> DEFINE n == Len(requests) + 1
    <3>3. InFlight("history")' = {n}
      BY <2>2, <3>2 DEF Asked, InFlight
    <3>4. requests'[n].for = rows[row].id
      BY <3>2 DEF Asked
    <3> HIDE DEF n
    <3>5. OneHistory' /\ ShownOfShown'
      BY <3>3 DEF OneHistory, ShownOfShown
    <3>6. HistoryOfShown'
      BY <2>1, <3>1, <3>3, <3>4 DEF HistoryOfShown
    <3> QED
      BY <3>5, <3>6
  <2> QED
    BY <2>3, <2>4
<1>2. ASSUME \A row \in DOMAIN rows : ~OpenChat(row)
      PROVE  InFlight("history")' \subseteq InFlight("history") /\ OneHistory'
  BY <1>0, <1>2, HistoryUnasked DEF OneHistory
<1>3. ASSUME \A row \in DOMAIN rows : ~OpenChat(row), shown' = shown \/ shown' = NoPartner
      PROVE  HistoryOfShown'
  BY <1>0, <1>2, <1>3, HistoryFor DEF HistoryOfShown
<1>4. ASSUME NEW i \in DOMAIN requests, ShowMessages(i)
      PROVE  OneHistory' /\ HistoryOfShown' /\ ShownOfShown'
  <2>1. \A row \in DOMAIN rows : ~OpenChat(row)
    <3> SUFFICES ASSUME NEW row \in DOMAIN rows, OpenChat(row) PROVE FALSE
      OBVIOUS
    <3>1. i \in InFlight("history")
      BY <1>4 DEF ShowMessages, InFlight
    <3>2. Noted(InFlight("history") # {}, "histories") \subseteq incidents'
      BY DEF OpenChat
    <3> QED
      BY <3>1, <3>2 DEF Noted, Disturbed
  <2>2. messages' = requests[i].answer /\ shown' = shown /\ chats' = chats
    BY <1>4 DEF ShowMessages, serverVars
  <2>3. i \in InFlight("history") /\ RightAnswer(chats, requests[i])
        /\ requests[i].kind = "history"
    BY <1>4 DEF ShowMessages, InFlight, BaseInv, PageInv, AnswersRight
  <2>4. ShownOfShown'
    BY <1>0, <2>2, <2>3 DEF ShownOfShown, HistoryOfShown, RightAnswer
  <2> QED
    BY <1>2, <1>3, <2>1, <2>2, <2>4
<1>5. ASSUME \A row \in DOMAIN rows : ~OpenChat(row),
             \A i \in DOMAIN requests : ~ShowMessages(i),
             shown' # NoPartner => shown' = shown,
             shown' # NoPartner /\ ShownOfShown =>
                \A k \in DOMAIN messages' :
                    \/ \E j \in DOMAIN messages : messages'[k] = messages[j]
                    \/ messages'[k].chat \in DOMAIN chats /\ chats[messages'[k].chat] = shown
      PROVE  OneHistory' /\ HistoryOfShown' /\ ShownOfShown'
  <2>1. InFlight("history")' = InFlight("history")
    BY <1>2, <1>5, HistoryStays
  <2>2. ASSUME shown' # NoPartner, InFlight("history")' = {},
               NEW k \in DOMAIN messages'
        PROVE  chats'[messages'[k].chat] = shown'
    <3>1. CASE \E j \in DOMAIN messages : messages'[k] = messages[j]
      BY <1>0, <1>5, <2>1, <2>2, <3>1 DEF ShownOfShown, MessagesExist, Grown
    <3>2. CASE messages'[k].chat \in DOMAIN chats /\ chats[messages'[k].chat] = shown
      BY <1>0, <1>5, <2>2, <3>2 DEF Grown
    <3> QED
      BY <1>0, <1>5, <2>2, <3>1, <3>2
  <2>3. ShownOfShown'
    BY <2>2 DEF ShownOfShown
  <2> QED
    BY <1>2, <1>3, <1>5, <2>3
<1>6. ASSUME NEW chat \in DOMAIN chats, SendText(chat)
      PROVE  OneHistory' /\ HistoryOfShown' /\ ShownOfShown'
  <2>1. shown' = shown /\ requests' = requests /\ messages' = messages \o Chunks(chat)
        /\ shown # NoPartner /\ chat = IdAt(current) /\ chat # ChatUndefined
    BY <1>6 DEF SendText, CanPress
  <2>2. steady
    <3>1. Noted(~steady, "unsteady") \subseteq incidents'
      BY <1>6 DEF SendText
    <3> QED
      BY <3>1 DEF Noted, Disturbed
  <2>3. chats[chat] = shown
    BY <1>m, <2>1, <2>2, IdAtCurrent
  <2>4. Chunks(chat) \in Seq(Message) /\ \A k \in DOMAIN Chunks(chat) : Chunks(chat)[k].chat = chat
    <3>1. chat \in Nat
      BY <1>0
    <3> QED
      BY <3>1, ChunksTyped DEF BaseInv, PageInv
  <2> DEFINE s == Chunks(chat)
  <2> HIDE DEF s
  <2>5. \A k \in DOMAIN messages' :
            \/ k \in DOMAIN messages /\ messages'[k] = messages[k]
            \/ k - Len(messages) \in DOMAIN s /\ messages'[k] = s[k - Len(messages)]
    BY <1>0, <2>1, <2>4 DEF s
  <2>6. InFlight("history")' = InFlight("history") /\ chats' = chats
    BY <1>6, <2>1 DEF InFlight, SendText, serverVars
  <2>7. OneHistory' /\ HistoryOfShown'
    BY <1>0, <2>1, <2>6 DEF OneHistory, HistoryOfShown
  <2>8. ShownOfShown'
    <3> SUFFICES ASSUME InFlight("history") = {}, NEW k \in DOMAIN messages'
                 PROVE  chats[messages'[k].chat] = shown
      BY <2>1, <2>6 DEF ShownOfShown
    <3> QED
      BY <1>0, <2>1, <2>3, <2>4, <2>5 DEF s, ShownOfShown
  <2> QED
    BY <2>7, <2>8
<1>7. CASE HandleReceivedMessage
  <2> DEFINE m == Head(forwards)
             isShown == (\E r \in DOMAIN rows : rows[r].id = m.chat) /\ IdAt(current) = m.chat
  <2>1. /\ forwards # <<>> /\ shown' = shown /\ chats' = chats
        /\ messages' = IF isShown THEN Append(messages, m) ELSE messages
        /\ Noted(isShown /\ ~steady, "unsteady") \subseteq incidents'
    BY <1>7 DEF HandleReceivedMessage, serverVars
  <2>2. m \in Message /\ m.chat \in DOMAIN chats
    <3>1. 1 \in DOMAIN forwards /\ m = forwards[1]
      BY <1>0, <2>1
    <3> QED
      BY <1>0, <3>1 DEF MessagesExist
  <2>3. (\A row \in DOMAIN rows : ~OpenChat(row)) /\ (\A i \in DOMAIN requests : ~ShowMessages(i))
    <3>1. forwards' # forwards
      <4>1. forwards' = Tail(forwards)
        BY <1>7 DEF HandleReceivedMessage
      <4>2. Len(forwards') = Len(forwards) - 1 /\ Len(forwards) \in Nat
        BY <1>0, <2>1, <4>1
      <4> QED
        BY <4>2
    <3> QED
      BY <3>1 DEF OpenChat, ShowMessages
  <2>4. isShown /\ shown # NoPartner => chats[m.chat] = shown
    <3>1. isShown => steady
      BY <2>1 DEF Noted, Disturbed
    <3>2. m.chat # ChatUndefined
      BY <1>0, <2>2 DEF ChatUndefined
    <3> QED
      BY <1>m, <3>1, <3>2, IdAtCurrent
  <2> HIDE DEF m, isShown
  <2>5. \A k \in DOMAIN messages' :
            \/ k \in DOMAIN messages /\ messages'[k] = messages[k]
            \/ isShown /\ messages'[k] = m
    <3>1. CASE isShown
      BY <1>0, <2>1, <2>2, <3>1, Appended
    <3>2. CASE ~isShown
      BY <2>1, <3>2
    <3> QED
      BY <3>1, <3>2
  <2> QED
    BY <1>5, <2>1, <2>2, <2>3, <2>4, <2>5
<1>8. ASSUME \A row \in DOMAIN rows : ~OpenChat(row), ~HandleReceivedMessage,
             \A i \in DOMAIN requests : ~ShowMessages(i),
             \A chat \in DOMAIN chats : ~SendText(chat)
      PROVE  OneHistory' /\ HistoryOfShown' /\ ShownOfShown'
  <2>1. \A chat \in DOMAIN chats : ~SendTextNowhere(chat)
    BY DEF SendTextNowhere, Fail, Disturbed
  <2>2. UNCHANGED messages
    BY <1>8, <2>1, MessagesUntouched
  <2>3. shown' # NoPartner => shown' = shown
    BY <1>8, <2>1 DEF Next, Gui, Resume, vars, pageVars, ClickSameRow, ChangeSearch, PreparePage,
       MoveCurrent, CloseChat, Type, CreateChat, ClearInput,
       SendRequest, CannotAsk, TimeOut, EndResetList, FillList, FileNewChat,
       PartnerWrites, StoreMessage, AnswerRequest, RefuseRequest
  <2> QED
    BY <1>5, <1>8, <2>2, <2>3
<1> QED
  BY <1>1, <1>4, <1>6, <1>7, <1>8

\* MessagesOfShown: once the chat's messages have come, every message under
\* a partner's name is of a chat with that partner (messagesModel.cpp:42-57,
\* chatPage.cpp:250-263, 373-411), for any number of clicks, texts and replies.
THEOREM ShownIsOfPartner == Spec => []MessagesOfShown
<1> DEFINE Inv == CurrentShown /\ HistoryInv
<1>1. Init => Inv
  BY DEF Init, CurrentShown, HistoryInv, OneHistory, HistoryOfShown, ShownOfShown, InFlight, Request
<1>2. BaseInv /\ Inv /\ [Next]_vars => Inv'
  BY CurrentShownStep, HistoryStep
<1>3. Inv => MessagesOfShown
  BY DEF HistoryInv, ShownOfShown, MessagesOfShown
<1> HIDE DEF Inv
<1> QED
  BY <1>1, <1>2, <1>3, Base, PTL DEF Spec

----------------------------------------------------------------------------
\* The numbers of messages, and those of one chat's.

Numbers(s) == {s[k].number : k \in DOMAIN s}
NumbersOf(s, c) == {s[k].number : k \in {j \in DOMAIN s : s[j].chat = c}}
NoRepeat(s) == \A j, k \in DOMAIN s : s[j].number = s[k].number => j = k

\* Of the texts on their way to the server, those to the chat.
IsText(e) == e.request = 0
Own(q, c) == {q[k].number : k \in {j \in DOMAIN q : IsText(q[j]) /\ q[j].chat = c}}
TextsDiffer(q) ==
    \A j, k \in DOMAIN q : IsText(q[j]) /\ IsText(q[k]) /\ q[j].number = q[k].number => j = k

\* One message more.
LEMMA NumbersAppend ==
    ASSUME NEW s \in Seq(Message), NEW m \in Message, NEW c
    PROVE  /\ Numbers(Append(s, m)) = Numbers(s) \cup {m.number}
           /\ NumbersOf(Append(s, m), c) =
                 IF m.chat = c THEN NumbersOf(s, c) \cup {m.number} ELSE NumbersOf(s, c)
           /\ NoRepeat(s) /\ m.number \notin Numbers(s) => NoRepeat(Append(s, m))
<1> DEFINE a == Append(s, m)
           n == Len(s) + 1
<1>1. /\ DOMAIN a = DOMAIN s \cup {n} /\ n \notin DOMAIN s
      /\ a[n] = m /\ \A k \in DOMAIN s : a[k] = s[k]
  BY Appended
<1> HIDE DEF a, n
<1>2. Numbers(a) = Numbers(s) \cup {m.number}
  BY <1>1 DEF Numbers
<1>3. NumbersOf(a, c) = IF m.chat = c THEN NumbersOf(s, c) \cup {m.number} ELSE NumbersOf(s, c)
  BY <1>1 DEF NumbersOf
<1>4. NoRepeat(s) /\ m.number \notin Numbers(s) => NoRepeat(a)
  BY <1>1 DEF NoRepeat, Numbers
<1> QED
  BY <1>2, <1>3, <1>4 DEF a

\* Behind a sequence its head is gone.
LEMMA TailParts ==
    ASSUME NEW V, NEW s \in Seq(V), s # <<>>
    PROVE  /\ Tail(s) \in Seq(V)
           /\ 1 \in DOMAIN s /\ Head(s) = s[1] /\ Head(s) \in V
           /\ \A k \in DOMAIN Tail(s) : k + 1 \in DOMAIN s /\ k + 1 # 1 /\ Tail(s)[k] = s[k + 1]
           /\ \A k \in DOMAIN s : k = 1 \/ (k - 1 \in DOMAIN Tail(s) /\ Tail(s)[k - 1] = s[k])
           /\ \A j, k \in DOMAIN Tail(s) : j + 1 = k + 1 => j = k
<1> DEFINE t == Tail(s)
<1>1. t \in Seq(V) /\ Len(t) = Len(s) - 1 /\ \A k \in 1 .. Len(t) : t[k] = s[k + 1]
  OBVIOUS
<1>2. Len(s) \in Nat /\ Len(s) >= 1 /\ DOMAIN s = 1 .. Len(s)
  OBVIOUS
<1>3. DOMAIN t = 1 .. Len(t)
  BY <1>1
<1>4. 1 \in DOMAIN s /\ Head(s) = s[1] /\ s[1] \in V
  BY <1>2
<1> HIDE DEF t
<1>5. \A k \in DOMAIN s : k = 1 \/ (k - 1 \in DOMAIN t /\ t[k - 1] = s[k])
  <2> SUFFICES ASSUME NEW k \in DOMAIN s, k # 1
               PROVE  k - 1 \in DOMAIN t /\ t[k - 1] = s[k]
    OBVIOUS
  <2>1. k \in Nat /\ k >= 2 /\ k <= Len(s)
    BY <1>2
  <2>2. k - 1 \in 1 .. Len(t) /\ (k - 1) + 1 = k
    BY <1>1, <1>2, <2>1
  <2> QED
    BY <1>1, <1>3, <2>2
<1>6. \A k \in DOMAIN t : k + 1 \in DOMAIN s /\ k + 1 # 1 /\ t[k] = s[k + 1]
  BY <1>1, <1>2, <1>3
<1>7. \A j, k \in DOMAIN t : j + 1 = k + 1 => j = k
  BY <1>1, <1>3
<1> QED
  BY <1>1, <1>4, <1>5, <1>6, <1>7 DEF t

\* The first message's number is gone from the rest, and from no other's.
LEMMA NumbersTail ==
    ASSUME NEW s \in Seq(Message), s # <<>>, NoRepeat(s), NEW c
    PROVE  /\ NumbersOf(Tail(s), c) =
                 IF Head(s).chat = c THEN NumbersOf(s, c) \ {Head(s).number} ELSE NumbersOf(s, c)
           /\ Head(s).number \in NumbersOf(s, Head(s).chat)
           /\ NoRepeat(Tail(s))
<1> DEFINE t == Tail(s)
<1>1. /\ 1 \in DOMAIN s /\ Head(s) = s[1]
      /\ \A k \in DOMAIN t : k + 1 \in DOMAIN s /\ k + 1 # 1 /\ t[k] = s[k + 1]
      /\ \A k \in DOMAIN s : k = 1 \/ (k - 1 \in DOMAIN t /\ t[k - 1] = s[k])
      /\ \A j, k \in DOMAIN t : j + 1 = k + 1 => j = k
  BY TailParts
<1> HIDE DEF t
<1>2. NumbersOf(t, c) \subseteq NumbersOf(s, c)
  BY <1>1 DEF NumbersOf
<1>3. \A k \in DOMAIN t : t[k].number # s[1].number
  BY <1>1 DEF NoRepeat
<1>4. \A x \in NumbersOf(s, c) : x \in NumbersOf(t, c) \/ (s[1].chat = c /\ x = s[1].number)
  <2> SUFFICES ASSUME NEW k \in DOMAIN s, s[k].chat = c, k # 1
               PROVE  s[k].number \in NumbersOf(t, c)
    BY <1>1 DEF NumbersOf
  <2> QED
    BY <1>1 DEF NumbersOf
<1>5. s[1].number \notin NumbersOf(t, c)
  BY <1>3 DEF NumbersOf
<1>6. NoRepeat(t)
  BY <1>1 DEF NoRepeat
<1>7. s[1].number \in NumbersOf(s, s[1].chat)
  BY <1>1 DEF NumbersOf
<1>8. s[1].chat # c => NumbersOf(t, c) = NumbersOf(s, c)
  BY <1>2, <1>4
<1>9. s[1].chat = c => NumbersOf(t, c) = NumbersOf(s, c) \ {s[1].number}
  BY <1>2, <1>4, <1>5
<1> QED
  BY <1>1, <1>6, <1>7, <1>8, <1>9 DEF t

\* Where the elements of a concatenation come from.
LEMMA ConcatParts ==
    ASSUME NEW V, NEW s \in Seq(V), NEW t \in Seq(V)
    PROVE  /\ \A k \in DOMAIN (s \o t) :
                 \/ k \in DOMAIN s /\ (s \o t)[k] = s[k]
                 \/ k - Len(s) \in DOMAIN t /\ (s \o t)[k] = t[k - Len(s)]
           /\ \A k \in DOMAIN s : k \in DOMAIN (s \o t) /\ (s \o t)[k] = s[k]
           /\ \A k \in DOMAIN t : k + Len(s) \in DOMAIN (s \o t) /\ (s \o t)[k + Len(s)] = t[k]
           /\ \A j, k \in DOMAIN (s \o t) : j - Len(s) = k - Len(s) => j = k
<1> DEFINE a == s \o t
<1>1. Len(s) \in Nat /\ Len(t) \in Nat /\ DOMAIN s = 1 .. Len(s) /\ DOMAIN t = 1 .. Len(t)
  OBVIOUS
<1>2. DOMAIN a = 1 .. Len(s) + Len(t)
      /\ \A k \in DOMAIN a : a[k] = IF k <= Len(s) THEN s[k] ELSE t[k - Len(s)]
  BY <1>1
<1> HIDE DEF a
<1>3. \A k \in DOMAIN a : \/ k \in DOMAIN s /\ a[k] = s[k]
                          \/ k - Len(s) \in DOMAIN t /\ a[k] = t[k - Len(s)]
  BY <1>1, <1>2
<1>4. \A k \in DOMAIN s : k \in DOMAIN a /\ a[k] = s[k]
  BY <1>1, <1>2
<1>5. \A k \in DOMAIN t : k + Len(s) \in DOMAIN a /\ a[k + Len(s)] = t[k]
  <2> SUFFICES ASSUME NEW k \in DOMAIN t PROVE k + Len(s) \in DOMAIN a /\ a[k + Len(s)] = t[k]
    OBVIOUS
  <2>1. k \in Nat /\ k >= 1 /\ k <= Len(t) /\ (k + Len(s)) - Len(s) = k /\ ~(k + Len(s) <= Len(s))
    BY <1>1
  <2> QED
    BY <1>1, <1>2, <2>1
<1>6. \A j, k \in DOMAIN a : j - Len(s) = k - Len(s) => j = k
  BY <1>1, <1>2
<1> QED
  BY <1>3, <1>4, <1>5, <1>6 DEF a

\* Messages behind one another.
LEMMA NumbersConcat ==
    ASSUME NEW s \in Seq(Message), NEW t \in Seq(Message)
    PROVE  /\ Numbers(s \o t) = Numbers(s) \cup Numbers(t)
           /\ NoRepeat(s) /\ NoRepeat(t) /\ Numbers(s) \cap Numbers(t) = {} => NoRepeat(s \o t)
<1> DEFINE a == s \o t
<1>1. /\ \A k \in DOMAIN a : \/ k \in DOMAIN s /\ a[k] = s[k]
                             \/ k - Len(s) \in DOMAIN t /\ a[k] = t[k - Len(s)]
      /\ \A k \in DOMAIN s : k \in DOMAIN a /\ a[k] = s[k]
      /\ \A k \in DOMAIN t : k + Len(s) \in DOMAIN a /\ a[k + Len(s)] = t[k]
      /\ \A j, k \in DOMAIN a : j - Len(s) = k - Len(s) => j = k
  BY ConcatParts
<1> HIDE DEF a
<1>2. Numbers(a) = Numbers(s) \cup Numbers(t)
  <2>1. Numbers(a) \subseteq Numbers(s) \cup Numbers(t)
    BY <1>1 DEF Numbers
  <2>2. Numbers(s) \subseteq Numbers(a) /\ Numbers(t) \subseteq Numbers(a)
    BY <1>1 DEF Numbers
  <2> QED
    BY <2>1, <2>2
<1>3. ASSUME NoRepeat(s), NoRepeat(t), Numbers(s) \cap Numbers(t) = {} PROVE NoRepeat(a)
  <2> SUFFICES ASSUME NEW j \in DOMAIN a, NEW k \in DOMAIN a, a[j].number = a[k].number PROVE j = k
    BY DEF NoRepeat
  <2>1. CASE (j \in DOMAIN s /\ a[j] = s[j]) /\ (k \in DOMAIN s /\ a[k] = s[k])
    BY <1>3, <2>1 DEF NoRepeat
  <2>2. CASE (j \in DOMAIN s /\ a[j] = s[j]) /\ (k - Len(s) \in DOMAIN t /\ a[k] = t[k - Len(s)])
    BY <1>3, <2>2 DEF Numbers
  <2>3. CASE (j - Len(s) \in DOMAIN t /\ a[j] = t[j - Len(s)]) /\ (k \in DOMAIN s /\ a[k] = s[k])
    BY <1>3, <2>3 DEF Numbers
  <2>4. CASE /\ j - Len(s) \in DOMAIN t /\ a[j] = t[j - Len(s)]
             /\ k - Len(s) \in DOMAIN t /\ a[k] = t[k - Len(s)]
    <3>1. j - Len(s) = k - Len(s)
      BY <1>3, <2>4 DEF NoRepeat
    <3> QED
      BY <1>1, <3>1
  <2> QED
    BY <1>1, <2>1, <2>2, <2>3, <2>4
<1> QED
  BY <1>2, <1>3 DEF a

\* The queue without its head.
LEMMA OwnTail ==
    ASSUME NEW q \in Seq(Asking \cup Sending), q # <<>>, NEW c, TextsDiffer(q)
    PROVE  /\ ~IsText(Head(q)) => Own(Tail(q), c) = Own(q, c)
           /\ IsText(Head(q)) =>
                 /\ Own(Tail(q), c) =
                       IF Head(q).chat = c THEN Own(q, c) \ {Head(q).number} ELSE Own(q, c)
                 /\ Head(q).number \in Own(q, Head(q).chat)
           /\ TextsDiffer(Tail(q))
<1> DEFINE t == Tail(q)
<1>1. /\ 1 \in DOMAIN q /\ Head(q) = q[1]
      /\ \A k \in DOMAIN t : k + 1 \in DOMAIN q /\ k + 1 # 1 /\ t[k] = q[k + 1]
      /\ \A k \in DOMAIN q : k = 1 \/ (k - 1 \in DOMAIN t /\ t[k - 1] = q[k])
      /\ \A j, k \in DOMAIN t : j + 1 = k + 1 => j = k
  BY TailParts
<1> HIDE DEF t
<1>2. Own(t, c) \subseteq Own(q, c)
  BY <1>1 DEF Own
<1>3. ASSUME NEW k \in DOMAIN q, IsText(q[k]), q[k].chat = c, k # 1 PROVE q[k].number \in Own(t, c)
  BY <1>1, <1>3 DEF Own
<1>4. ~IsText(q[1]) => Own(q, c) \subseteq Own(t, c)
  BY <1>3 DEF Own
<1>5. q[1].chat # c => Own(q, c) \subseteq Own(t, c)
  BY <1>3 DEF Own
<1>6. Own(q, c) \ {q[1].number} \subseteq Own(t, c)
  BY <1>3 DEF Own
<1>7. IsText(q[1]) => q[1].number \notin Own(t, c)
  BY <1>1 DEF Own, TextsDiffer
<1>8. IsText(q[1]) => q[1].number \in Own(q, q[1].chat)
  BY <1>1 DEF Own
<1>9. TextsDiffer(t)
  BY <1>1 DEF TextsDiffer
<1>10. IsText(q[1]) /\ q[1].chat = c => Own(t, c) = Own(q, c) \ {q[1].number}
  BY <1>2, <1>6, <1>7
<1> QED
  BY <1>1, <1>2, <1>4, <1>5, <1>8, <1>9, <1>10 DEF t

\* A request behind it.
LEMMA OwnAsk ==
    ASSUME NEW q \in Seq(Asking \cup Sending), NEW i \in Nat \ {0}, NEW c
    PROVE  /\ Own(Append(q, [request |-> i]), c) = Own(q, c)
           /\ TextsDiffer(q) => TextsDiffer(Append(q, [request |-> i]))
<1> DEFINE e == [request |-> i]
           a == Append(q, e)
           n == Len(q) + 1
<1>1. e \in Asking \cup Sending /\ e.request # 0
  BY DEF Asking
<1> HIDE DEF e
<1>2. DOMAIN a = DOMAIN q \cup {n} /\ a[n] = e /\ \A k \in DOMAIN q : a[k] = q[k]
  BY <1>1, Appended
<1> HIDE DEF a, n
<1>3. Own(a, c) = Own(q, c)
  BY <1>1, <1>2 DEF Own, IsText
<1>4. TextsDiffer(q) => TextsDiffer(a)
  BY <1>1, <1>2 DEF TextsDiffer, IsText
<1> QED
  BY <1>3, <1>4 DEF a, e

\* Texts to one chat behind it.
TextsTo(e, d) == \A k \in DOMAIN e : IsText(e[k]) /\ e[k].chat = d
LEMMA OwnConcat ==
    ASSUME NEW q \in Seq(Asking \cup Sending), NEW e \in Seq(Asking \cup Sending), NEW d,
           TextsTo(e, d)
    PROVE  \A c : Own(q \o e, c) = IF d = c THEN Own(q, c) \cup Numbers(e) ELSE Own(q, c)
<1> DEFINE a == q \o e
<1>1. /\ \A k \in DOMAIN a : \/ k \in DOMAIN q /\ a[k] = q[k]
                             \/ k - Len(q) \in DOMAIN e /\ a[k] = e[k - Len(q)]
      /\ \A k \in DOMAIN q : k \in DOMAIN a /\ a[k] = q[k]
      /\ \A k \in DOMAIN e : k + Len(q) \in DOMAIN a /\ a[k + Len(q)] = e[k]
  BY ConcatParts
<1> HIDE DEF a
<1>2. ASSUME NEW c
      PROVE  Own(a, c) = IF d = c THEN Own(q, c) \cup Numbers(e) ELSE Own(q, c)
  <2>1. Own(q, c) \subseteq Own(a, c)
    BY <1>1 DEF Own
  <2>2. d = c => Numbers(e) \subseteq Own(a, c)
    BY <1>1 DEF Own, Numbers, TextsTo
  <2>3. \A x \in Own(a, c) : x \in Own(q, c) \/ (d = c /\ x \in Numbers(e))
    BY <1>1 DEF Own, Numbers, TextsTo
  <2> QED
    BY <2>1, <2>2, <2>3
<1> QED
  BY <1>2 DEF a

\* Texts with numbers of their own behind it.
LEMMA DifferConcat ==
    ASSUME NEW q \in Seq(Asking \cup Sending), NEW e \in Seq(Asking \cup Sending),
           TextsDiffer(q), NoRepeat(e),
           \A k \in DOMAIN q : IsText(q[k]) => q[k].number \notin Numbers(e)
    PROVE  TextsDiffer(q \o e)
<1> DEFINE a == q \o e
<1>1. /\ \A k \in DOMAIN a : \/ k \in DOMAIN q /\ a[k] = q[k]
                             \/ k - Len(q) \in DOMAIN e /\ a[k] = e[k - Len(q)]
      /\ \A j, k \in DOMAIN a : j - Len(q) = k - Len(q) => j = k
  BY ConcatParts
<1> HIDE DEF a
<1>2. ASSUME NEW j \in DOMAIN a, NEW k \in DOMAIN a, IsText(a[j]), IsText(a[k]),
             a[j].number = a[k].number
      PROVE  j = k
  <2>1. CASE (j \in DOMAIN q /\ a[j] = q[j]) /\ (k \in DOMAIN q /\ a[k] = q[k])
    BY <1>2, <2>1 DEF TextsDiffer
  <2>2. CASE (j \in DOMAIN q /\ a[j] = q[j]) /\ (k - Len(q) \in DOMAIN e /\ a[k] = e[k - Len(q)])
    BY <1>2, <2>2 DEF Numbers
  <2>3. CASE (j - Len(q) \in DOMAIN e /\ a[j] = e[j - Len(q)]) /\ (k \in DOMAIN q /\ a[k] = q[k])
    BY <1>2, <2>3 DEF Numbers
  <2>4. CASE /\ j - Len(q) \in DOMAIN e /\ a[j] = e[j - Len(q)]
             /\ k - Len(q) \in DOMAIN e /\ a[k] = e[k - Len(q)]
    <3>1. j - Len(q) = k - Len(q)
      BY <1>2, <2>4 DEF NoRepeat
    <3> QED
      BY <1>1, <3>1
  <2> QED
    BY <1>1, <2>1, <2>2, <2>3, <2>4
<1> QED
  BY <1>2 DEF TextsDiffer, a

\* Every message has a number of its own, up to those written.  A forwarded
\* message is stored, and a text on its way is not yet.
ChatNumbers(st, fw, q, n, c) ==
    /\ NoRepeat(st[c])
    /\ Numbers(st[c]) \cup Own(q, c) \subseteq 0 .. n
    /\ NumbersOf(fw, c) \subseteq Numbers(st[c])
    /\ Own(q, c) \cap Numbers(st[c]) = {}
NumbersInv ==
    /\ \A c \in DOMAIN chats : ChatNumbers(stored, forwards, toServer, written, c)
    /\ NoRepeat(forwards) /\ TextsDiffer(toServer)

\* The types of what the numbers are taken of.
LEMMA StoreTypes ==
    ASSUME BaseInv
    PROVE  /\ written \in Nat /\ typed \in Nat /\ forwards \in Seq(Message)
           /\ messages \in Seq(Message)
           /\ toServer \in Seq(Asking \cup Sending)
           /\ chats \in Seq(Partner) /\ stored \in Seq(Seq(Message))
           /\ DOMAIN stored = DOMAIN chats /\ DOMAIN chats = 1 .. Len(chats) /\ Len(chats) \in Nat
           /\ MessagesExist /\ QueueExists
<1>1. PageTypes /\ NetTypes
  BY DEF BaseInv, PageInv
<1>2. Len(chats) \in Nat /\ DOMAIN chats = 1 .. Len(chats) /\ DOMAIN stored = 1 .. Len(stored)
  BY <1>1 DEF NetTypes
<1> QED
  BY <1>1, <1>2, PageAssumption DEF BaseInv, PageInv, PageTypes, NetTypes

\* Nothing is on its way to or from a chat that there is not.
LEMMA NothingElsewhere ==
    ASSUME BaseInv, NEW c, c \notin DOMAIN chats
    PROVE  NumbersOf(forwards, c) = {} /\ Own(toServer, c) = {}
<1>1. \A k \in DOMAIN forwards : forwards[k].chat # c
  BY StoreTypes DEF MessagesExist
<1>2. \A k \in DOMAIN toServer : IsText(toServer[k]) => toServer[k].chat # c
  BY StoreTypes DEF QueueExists, IsText
<1> QED
  BY <1>1, <1>2 DEF NumbersOf, Own

\* All numbers on their way are of messages that were written.
LEMMA NumbersBound ==
    ASSUME BaseInv, NumbersInv
    PROVE  /\ \A k \in DOMAIN forwards : forwards[k].number \in 0 .. written
           /\ \A k \in DOMAIN toServer : IsText(toServer[k]) => toServer[k].number \in 0 .. written
<1>1. ASSUME NEW k \in DOMAIN forwards PROVE forwards[k].number \in 0 .. written
  <2>1. forwards[k].chat \in DOMAIN chats
    BY StoreTypes DEF MessagesExist
  <2>2. forwards[k].number \in NumbersOf(forwards, forwards[k].chat)
    BY DEF NumbersOf
  <2> QED
    BY <2>1, <2>2 DEF NumbersInv, ChatNumbers
<1>2. ASSUME NEW k \in DOMAIN toServer, IsText(toServer[k]) PROVE toServer[k].number \in 0 .. written
  <2>1. toServer[k].chat \in DOMAIN chats
    BY <1>2, StoreTypes DEF QueueExists, IsText
  <2>2. toServer[k].number \in Own(toServer, toServer[k].chat)
    BY <1>2 DEF Own
  <2> QED
    BY <2>1, <2>2 DEF NumbersInv, ChatNumbers
<1> QED
  BY <1>1, <1>2

\* The numbers that come with a text.
Fresh == written + 1 .. written + typed

\* The chunks have new numbers, in the order of the text.
LEMMA ChunkNumbers ==
    ASSUME BaseInv, NEW chat \in DOMAIN chats
    PROVE  /\ Chunks(chat) \in Seq(Message)
           /\ \A k \in DOMAIN Chunks(chat) : Chunks(chat)[k].chat = chat
           /\ Numbers(Chunks(chat)) = Fresh /\ NoRepeat(Chunks(chat))
           /\ Fresh \cap (0 .. written) = {} /\ Fresh \subseteq 0 .. written + typed
<1>0. written \in Nat /\ typed \in Nat /\ chat \in Nat
  BY StoreTypes
<1>1. /\ Chunks(chat) \in Seq(Message)
      /\ \A k \in DOMAIN Chunks(chat) : Chunks(chat)[k].chat = chat
  BY <1>0, ChunksTyped DEF BaseInv, PageInv
<1>2. /\ DOMAIN Chunks(chat) = 1 .. typed
      /\ \A k \in 1 .. typed : Chunks(chat)[k].number = written + k
  BY <1>0 DEF Chunks
<1> DEFINE s == Chunks(chat)
<1>3. Numbers(s) = Fresh
  <2>1. Numbers(s) \subseteq Fresh
    BY <1>0, <1>2 DEF Numbers, Fresh
  <2>2. ASSUME NEW n \in Fresh PROVE n \in Numbers(s)
    <3>1. n \in Nat /\ n - written \in 1 .. typed /\ written + (n - written) = n
      BY <1>0 DEF Fresh
    <3> QED
      BY <1>2, <3>1 DEF Numbers
  <2> QED
    BY <2>1, <2>2
<1>4. NoRepeat(s)
  BY <1>0, <1>2 DEF NoRepeat
<1>5. Fresh \cap (0 .. written) = {} /\ Fresh \subseteq 0 .. written + typed
  BY <1>0 DEF Fresh
<1> QED
  BY <1>1, <1>3, <1>4, <1>5

\* SendText: the numbers are on their way.
LEMMA SendNumbers ==
    ASSUME BaseInv, NumbersInv, NEW chat \in DOMAIN chats, SendText(chat)
    PROVE  /\ \A c : Own(toServer', c) =
                       IF chat = c THEN Own(toServer, c) \cup Fresh ELSE Own(toServer, c)
           /\ TextsDiffer(toServer')
           /\ UNCHANGED <<chats, stored, forwards>> /\ written' = written + typed
<1> DEFINE e(k) == [request |-> 0, chat |-> chat, number |-> written + k,
                    meant |-> shown, steady |-> steady]
           s == [k \in 1 .. typed |-> e(k)]
<1>1. typed \in Nat /\ written \in Nat /\ chat \in Nat /\ toServer \in Seq(Asking \cup Sending)
  BY StoreTypes
<1>2. steady \in BOOLEAN /\ shown \in Partner
  BY DEF BaseInv, PageInv, PageTypes, SendText, CanPress
<1>3. \A k \in 1 .. typed : e(k) \in Sending
  BY <1>1, <1>2 DEF Sending
<1>4. \A k \in 1 .. typed : IsText(e(k)) /\ e(k).chat = chat /\ e(k).number = written + k
  BY DEF IsText
<1>5. toServer' = toServer \o s
  BY DEF SendText
<1> HIDE DEF e
<1>6. s \in Seq(Sending) /\ DOMAIN s = 1 .. typed /\ \A k \in 1 .. typed : s[k] = e(k)
  BY <1>1, <1>3
<1>7. s \in Seq(Asking \cup Sending)
  BY <1>6, SeqMonotonic
<1> HIDE DEF s
<1>8. TextsTo(s, chat)
  BY <1>4, <1>6 DEF TextsTo
<1>9. Numbers(s) = Numbers(Chunks(chat)) /\ NoRepeat(s)
  <2>1. DOMAIN Chunks(chat) = DOMAIN s /\ \A k \in DOMAIN s : Chunks(chat)[k].number = s[k].number
    BY <1>1, <1>4, <1>6 DEF Chunks
  <2>2. NoRepeat(Chunks(chat))
    BY ChunkNumbers
  <2> QED
    BY <2>1, <2>2 DEF Numbers, NoRepeat
<1>10. Numbers(s) = Fresh /\ Fresh \cap (0 .. written) = {}
  BY <1>9, ChunkNumbers
<1>11. \A k \in DOMAIN toServer : IsText(toServer[k]) => toServer[k].number \notin Numbers(s)
  BY <1>10, NumbersBound
<1>12. TextsDiffer(toServer \o s)
  <2>1. TextsDiffer(toServer)
    BY DEF NumbersInv
  <2> QED
    BY ONLY <1>1, <1>7, <1>9, <1>11, <2>1, DifferConcat
<1>13. \A c : Own(toServer \o s, c) = IF chat = c THEN Own(toServer, c) \cup Numbers(s)
                                      ELSE Own(toServer, c)
  BY ONLY <1>1, <1>7, <1>8, OwnConcat
<1>14. UNCHANGED <<chats, stored, forwards>> /\ written' = written + typed
  BY DEF SendText, serverVars
<1>15. \A c : Own(toServer', c) = IF chat = c THEN Own(toServer, c) \cup Fresh ELSE Own(toServer, c)
  <2> SUFFICES ASSUME NEW c
               PROVE  Own(toServer', c) = IF chat = c THEN Own(toServer, c) \cup Fresh
                                          ELSE Own(toServer, c)
    OBVIOUS
  <2> QED
    BY ONLY <1>5, <1>10, <1>13
<1>16. TextsDiffer(toServer')
  BY ONLY <1>5, <1>12
<1> QED
  BY ONLY <1>14, <1>15, <1>16

\* StoreMessage: the first of them is stored.
LEMMA StoreNumbers ==
    ASSUME BaseInv, NumbersInv, StoreMessage
    PROVE  LET m == Head(toServer) IN
           /\ m.chat \in DOMAIN chats /\ m.number \in Own(toServer, m.chat)
           /\ \A c \in DOMAIN chats : c # m.chat => stored'[c] = stored[c]
           /\ Numbers(stored'[m.chat]) = Numbers(stored[m.chat]) \cup {m.number}
           /\ NoRepeat(stored'[m.chat])
           /\ \A c : Own(toServer', c) =
                       IF m.chat = c THEN Own(toServer, c) \ {m.number} ELSE Own(toServer, c)
           /\ TextsDiffer(toServer')
           /\ UNCHANGED <<chats, forwards, written>>
<1> DEFINE m == Head(toServer)
           new == [chat |-> m.chat, number |-> m.number]
<1>1. toServer # <<>> /\ IsText(m) /\ toServer' = Tail(toServer)
      /\ stored' = [stored EXCEPT ![m.chat] = Append(stored[m.chat], new)]
      /\ UNCHANGED <<chats, forwards, written>>
  BY DEF StoreMessage, IsText, countVars
<1>2. toServer \in Seq(Asking \cup Sending) /\ TextsDiffer(toServer)
      /\ DOMAIN stored = DOMAIN chats /\ stored \in Seq(Seq(Message))
  BY StoreTypes DEF NumbersInv
<1>3. 1 \in DOMAIN toServer /\ m = toServer[1] /\ m \in Asking \cup Sending
  BY <1>1, <1>2, TailParts
<1>4. m.chat \in DOMAIN chats
  BY <1>1, <1>3, StoreTypes DEF QueueExists, IsText
<1>5. m \in Sending
  BY <1>1, <1>3 DEF Asking, IsText
<1>6. new \in Message /\ new.chat = m.chat /\ new.number = m.number
  BY <1>5 DEF Sending, Message
<1>7. /\ \A c : Own(toServer', c) =
               IF m.chat = c THEN Own(toServer, c) \ {m.number} ELSE Own(toServer, c)
      /\ m.number \in Own(toServer, m.chat)
      /\ TextsDiffer(toServer')
  BY <1>1, <1>2, OwnTail
<1> HIDE DEF m, new
<1>8. stored'[m.chat] = Append(stored[m.chat], new) /\ stored[m.chat] \in Seq(Message)
      /\ \A c \in DOMAIN chats : c # m.chat => stored'[c] = stored[c]
  BY <1>1, <1>2, <1>4
<1>9. m.number \notin Numbers(stored[m.chat]) /\ NoRepeat(stored[m.chat])
  BY <1>4, <1>7 DEF NumbersInv, ChatNumbers
<1>10. /\ Numbers(stored'[m.chat]) = Numbers(stored[m.chat]) \cup {m.number}
       /\ NoRepeat(stored'[m.chat])
  BY <1>6, <1>8, <1>9, NumbersAppend
<1> QED
  BY <1>1, <1>4, <1>7, <1>8, <1>10 DEF m

\* PartnerWrites: a new number is stored and forwarded.
LEMMA WriteNumbers ==
    ASSUME BaseInv, NumbersInv, NEW p \in Partner, PartnerWrites(p)
    PROVE  \E d \in Nat :
           /\ \A c : NumbersOf(forwards', c) =
                       IF d = c THEN NumbersOf(forwards, c) \cup {written + 1}
                       ELSE NumbersOf(forwards, c)
           /\ NoRepeat(forwards')
           /\ \A c \in DOMAIN chats : c # d => stored'[c] = stored[c]
           /\ NoRepeat(stored'[d])
           /\ \/ d \in DOMAIN chats /\ chats' = chats
                 /\ Numbers(stored'[d]) = Numbers(stored[d]) \cup {written + 1}
              \/ d \notin DOMAIN chats /\ DOMAIN chats' = DOMAIN chats \cup {d}
                 /\ Numbers(stored'[d]) = {written + 1}
           /\ UNCHANGED toServer /\ written' = written + 1
<1> DEFINE n == written + 1
           m(c) == [chat |-> c, number |-> n]
<1>0. /\ written \in Nat /\ forwards \in Seq(Message) /\ stored \in Seq(Seq(Message))
      /\ DOMAIN stored = DOMAIN chats /\ DOMAIN chats = 1 .. Len(chats) /\ Len(chats) \in Nat
      /\ chats \in Seq(Partner) /\ Len(stored) = Len(chats)
  BY StoreTypes DEF BaseInv, PageInv, NetTypes
<1>1. n \in Nat /\ n \notin 0 .. written
  BY <1>0
<1>2. \A c \in Nat : m(c) \in Message /\ m(c).chat = c /\ m(c).number = n
  BY <1>1 DEF Message
<1>3. \/ \E c \in DOMAIN chats :
            /\ chats' = chats /\ stored' = [stored EXCEPT ![c] = Append(stored[c], m(c))]
            /\ forwards' = Append(forwards, m(c))
      \/ /\ chats' = Append(chats, p) /\ stored' = Append(stored, <<m(Len(chats) + 1)>>)
         /\ forwards' = Append(forwards, m(Len(chats) + 1))
  BY DEF PartnerWrites
<1>4. UNCHANGED toServer /\ written' = n
  BY DEF PartnerWrites
<1>5. \A k \in DOMAIN forwards : forwards[k].number # n
  BY <1>1, NumbersBound
<1> HIDE DEF m, n
<1>6. ASSUME NEW d \in Nat, forwards' = Append(forwards, m(d))
      PROVE  /\ \A c : NumbersOf(forwards', c) =
                       IF d = c THEN NumbersOf(forwards, c) \cup {n} ELSE NumbersOf(forwards, c)
             /\ NoRepeat(forwards')
  <2>1. n \notin Numbers(forwards)
    BY <1>5 DEF Numbers
  <2>2. m(d) \in Message /\ m(d).chat = d /\ m(d).number = n
    BY <1>2
  <2> QED
    BY <1>0, <1>6, <2>1, <2>2, NumbersAppend DEF NumbersInv
<1>7. ASSUME NEW d \in DOMAIN chats, chats' = chats,
             stored' = [stored EXCEPT ![d] = Append(stored[d], m(d))],
             forwards' = Append(forwards, m(d))
      PROVE  /\ d \in Nat
             /\ \A c \in DOMAIN chats : c # d => stored'[c] = stored[c]
             /\ NoRepeat(stored'[d])
             /\ Numbers(stored'[d]) = Numbers(stored[d]) \cup {n}
  <2>1. d \in Nat /\ stored[d] \in Seq(Message) /\ m(d) \in Message /\ m(d).number = n
    BY <1>0, <1>2
  <2>2. stored'[d] = Append(stored[d], m(d))
    BY <1>0, <1>7
  <2>3. NoRepeat(stored[d]) /\ n \notin Numbers(stored[d])
    BY <1>1 DEF NumbersInv, ChatNumbers
  <2>4. NoRepeat(stored'[d]) /\ Numbers(stored'[d]) = Numbers(stored[d]) \cup {n}
    BY <2>1, <2>2, <2>3, NumbersAppend
  <2> QED
    BY <1>0, <1>7, <2>1, <2>4
<1>8. CASE \E c \in DOMAIN chats :
            /\ chats' = chats /\ stored' = [stored EXCEPT ![c] = Append(stored[c], m(c))]
            /\ forwards' = Append(forwards, m(c))
  <2>1. PICK d \in DOMAIN chats :
            /\ chats' = chats /\ stored' = [stored EXCEPT ![d] = Append(stored[d], m(d))]
            /\ forwards' = Append(forwards, m(d))
    BY <1>8
  <2>2. d \in Nat
    BY <1>0
  <2> QED
    BY <1>4, <1>6, <1>7, <2>1, <2>2 DEF n
<1>9. CASE /\ chats' = Append(chats, p) /\ stored' = Append(stored, <<m(Len(chats) + 1)>>)
           /\ forwards' = Append(forwards, m(Len(chats) + 1))
  <2> DEFINE d == Len(chats) + 1
             s == <<m(d)>>
  <2>1. d \in Nat /\ d \notin DOMAIN chats
    BY <1>0
  <2>2. DOMAIN s = {1} /\ s[1] = m(d) /\ m(d).number = n /\ s \in Seq(Message)
    BY <1>2, <2>1
  <2> HIDE DEF s
  <2>3. stored' = Append(stored, s)
    BY <1>9 DEF s
  <2>4. stored'[d] = s /\ \A c \in DOMAIN chats : stored'[c] = stored[c]
    BY <1>0, <2>2, <2>3
  <2>5. NoRepeat(s) /\ Numbers(s) = {n}
    BY <2>2 DEF NoRepeat, Numbers
  <2>6. DOMAIN chats' = DOMAIN chats \cup {d}
    BY <1>0, <1>9
  <2> HIDE DEF d
  <2>7. forwards' = Append(forwards, m(d))
    BY <1>9 DEF d
  <2> QED
    BY <1>4, <1>6, <2>1, <2>4, <2>5, <2>6, <2>7 DEF n
<1> QED
  BY <1>3, <1>8, <1>9

\* HandleReceivedMessage: the first number has come.
LEMMA HandleNumbers ==
    ASSUME BaseInv, NumbersInv, HandleReceivedMessage
    PROVE  LET m == Head(forwards) IN
           /\ m \in Message /\ m.chat \in DOMAIN chats /\ m.number \in NumbersOf(forwards, m.chat)
           /\ \A c : NumbersOf(forwards', c) =
                       IF m.chat = c THEN NumbersOf(forwards, c) \ {m.number}
                       ELSE NumbersOf(forwards, c)
           /\ NoRepeat(forwards')
           /\ UNCHANGED <<chats, stored, toServer, written>>
<1>1. /\ forwards # <<>> /\ forwards' = Tail(forwards)
      /\ UNCHANGED <<chats, stored, toServer, written>>
  BY DEF HandleReceivedMessage, serverVars, countVars
<1>2. forwards \in Seq(Message) /\ NoRepeat(forwards) /\ MessagesExist
  BY StoreTypes DEF NumbersInv
<1>3. 1 \in DOMAIN forwards /\ Head(forwards) = forwards[1] /\ Head(forwards) \in Message
  BY <1>1, <1>2, TailParts
<1> QED
  BY <1>1, <1>2, <1>3, NumbersTail DEF MessagesExist

\* AnswerRequest: a chat that is made has nothing in it.
LEMMA AnswerNumbers ==
    ASSUME BaseInv, NumbersInv, AnswerRequest
    PROVE  /\ \A c : Own(toServer', c) = Own(toServer, c)
           /\ TextsDiffer(toServer')
           /\ \A c \in DOMAIN chats : stored'[c] = stored[c]
           /\ \A c \in DOMAIN chats' \ DOMAIN chats : stored'[c] = <<>>
           /\ UNCHANGED <<forwards, written>>
<1>0. /\ stored \in Seq(Seq(Message)) /\ chats \in Seq(Partner) /\ Len(stored) = Len(chats)
      /\ DOMAIN stored = DOMAIN chats /\ DOMAIN chats = 1 .. Len(chats) /\ Len(chats) \in Nat
      /\ toServer \in Seq(Asking \cup Sending)
  BY StoreTypes DEF BaseInv, PageInv, NetTypes
<1>1. /\ toServer # <<>> /\ ~IsText(Head(toServer)) /\ toServer' = Tail(toServer)
      /\ UNCHANGED <<forwards, written>>
      /\ \/ UNCHANGED <<chats, stored>>
         \/ \E p : chats' = Append(chats, p) /\ stored' = Append(stored, <<>>)
  BY DEF AnswerRequest, IsText, countVars, serverVars
<1>2. (\A c : Own(toServer', c) = Own(toServer, c)) /\ TextsDiffer(toServer')
  BY <1>0, <1>1, OwnTail DEF NumbersInv
<1>3. ASSUME NEW p, chats' = Append(chats, p), stored' = Append(stored, <<>>)
      PROVE  /\ \A c \in DOMAIN chats : stored'[c] = stored[c]
             /\ \A c \in DOMAIN chats' \ DOMAIN chats : stored'[c] = <<>>
  <2>1. DOMAIN chats' = 1 .. Len(chats) + 1
    BY <1>0, <1>3
  <2>2. stored'[Len(chats) + 1] = <<>> /\ \A c \in 1 .. Len(chats) : stored'[c] = stored[c]
    BY <1>0, <1>3
  <2> QED
    BY <1>0, <2>1, <2>2
<1> QED
  BY <1>1, <1>2, <1>3

\* No other step changes them.
LEMMA OtherNumbers ==
    ASSUME BaseInv, NumbersInv, [Next]_vars,
           \A chat \in DOMAIN chats : ~SendText(chat), ~StoreMessage, ~HandleReceivedMessage,
           ~AnswerRequest, \A p \in Partner : ~PartnerWrites(p)
    PROVE  /\ \A c : Own(toServer', c) = Own(toServer, c)
           /\ TextsDiffer(toServer')
           /\ UNCHANGED <<chats, stored, forwards>>
           /\ written' \in Nat /\ written' >= written
<1>0. /\ toServer \in Seq(Asking \cup Sending) /\ written \in Nat /\ typed \in Nat
      /\ TextsDiffer(toServer)
  BY StoreTypes DEF NumbersInv
<1>1. UNCHANGED <<chats, stored, forwards>>
  BY ServerUntouched, ForwardsUntouched
<1>2. ASSUME UNCHANGED toServer
      PROVE  (\A c : Own(toServer', c) = Own(toServer, c)) /\ TextsDiffer(toServer')
  BY ONLY <1>0, <1>2
<1>3. ASSUME NEW i \in DOMAIN requests, SendRequest(i)
      PROVE  (\A c : Own(toServer', c) = Own(toServer, c)) /\ TextsDiffer(toServer')
  <2>1. requests \in Seq(AnyRequest)
    BY DEF BaseInv, PageInv, NetTypes
  <2>2. i \in Nat \ {0}
    BY <2>1
  <2>3. toServer' = Append(toServer, [request |-> i])
    BY <1>3 DEF SendRequest
  <2>4. TextsDiffer(toServer')
    BY ONLY <1>0, <2>2, <2>3, OwnAsk
  <2>5. ASSUME NEW c PROVE Own(toServer', c) = Own(toServer, c)
    BY ONLY <1>0, <2>2, <2>3, OwnAsk
  <2> QED
    BY ONLY <2>4, <2>5
<1>4. ASSUME RefuseRequest
      PROVE  (\A c : Own(toServer', c) = Own(toServer, c)) /\ TextsDiffer(toServer')
  <2>1. toServer # <<>> /\ ~IsText(Head(toServer)) /\ toServer' = Tail(toServer)
    BY <1>4 DEF RefuseRequest, IsText
  <2>2. TextsDiffer(toServer')
    BY ONLY <1>0, <2>1, OwnTail
  <2>3. ASSUME NEW c PROVE Own(toServer', c) = Own(toServer, c)
    BY ONLY <1>0, <2>1, OwnTail
  <2> QED
    BY ONLY <2>2, <2>3
<1>5. written' = written \/ written' = written + typed
  BY DEF Next, Gui, Resume, vars, countVars, ChangeSearch, PreparePage, ClickSameRow, OpenChat,
     MoveCurrent, CloseChat, Type, SendTextNowhere, CreateChat, ClearInput,
     SendRequest, CannotAsk, TimeOut, FillList, EndResetList, ShowMessages, FileNewChat,
     RefuseRequest
<1>6. (\A c : Own(toServer', c) = Own(toServer, c)) /\ TextsDiffer(toServer')
  BY <1>0, <1>2, <1>3, <1>4, QueueUntouched
<1> QED
  BY <1>0, <1>1, <1>5, <1>6

\* What a step does to the numbers of a chat: nothing, or a text of the user is
\* stored, or a partner's is, or texts are sent, or a forwarded one is handled.
StoresOne(c) ==
    \E n \in Own(toServer, c) :
        /\ Numbers(stored'[c]) = Numbers(stored[c]) \cup {n}
        /\ Own(toServer', c) = Own(toServer, c) \ {n}
        /\ NumbersOf(forwards', c) = NumbersOf(forwards, c)
WritesOne(c) ==
    \E n \in (0 .. written') \ (0 .. written) :
        /\ Numbers(stored'[c]) = Numbers(stored[c]) \cup {n}
        /\ NumbersOf(forwards', c) = NumbersOf(forwards, c) \cup {n}
        /\ Own(toServer', c) = Own(toServer, c)
SendsSome(c) ==
    /\ SendText(c)
    /\ Numbers(stored'[c]) = Numbers(stored[c])
    /\ NumbersOf(forwards', c) = NumbersOf(forwards, c)
    /\ \E N \in SUBSET ((0 .. written') \ (0 .. written)) :
          Own(toServer', c) = Own(toServer, c) \cup N
HandlesOne(c) ==
    /\ HandleReceivedMessage /\ Head(forwards).chat = c
    /\ Head(forwards).number \in NumbersOf(forwards, c)
    /\ NumbersOf(forwards', c) = NumbersOf(forwards, c) \ {Head(forwards).number}
    /\ Numbers(stored'[c]) = Numbers(stored[c])
    /\ Own(toServer', c) = Own(toServer, c)
LeavesChat(c) ==
    /\ Numbers(stored'[c]) = Numbers(stored[c])
    /\ NumbersOf(forwards', c) = NumbersOf(forwards, c)
    /\ Own(toServer', c) = Own(toServer, c)
ChatEffect(c) == LeavesChat(c) \/ StoresOne(c) \/ WritesOne(c) \/ SendsSome(c) \/ HandlesOne(c)

\* What it does to all of them.
NumbersEffect ==
    /\ 0 .. written \subseteq 0 .. written'
    /\ \A c \in DOMAIN chats : ChatEffect(c) /\ NoRepeat(stored'[c])
    /\ \A c \in DOMAIN chats' \ DOMAIN chats :
          /\ NoRepeat(stored'[c]) /\ Numbers(stored'[c]) \subseteq 0 .. written'
          /\ NumbersOf(forwards', c) = Numbers(stored'[c]) /\ Own(toServer', c) = {}
    /\ NoRepeat(forwards') /\ TextsDiffer(toServer')

\* Every step does one of these to each chat.
LEMMA EffectOfStep ==
    ASSUME BaseInv, NumbersInv, [Next]_vars
    PROVE  NumbersEffect
<1>0. /\ written \in Nat /\ typed \in Nat /\ NoRepeat(forwards)
      /\ \A c \in DOMAIN chats : NoRepeat(stored[c])
  BY StoreTypes DEF NumbersInv, ChatNumbers
<1>1. ASSUME NEW chat \in DOMAIN chats, SendText(chat)
      PROVE  NumbersEffect
  <2>1. /\ \A c : Own(toServer', c) =
                    IF chat = c THEN Own(toServer, c) \cup Fresh ELSE Own(toServer, c)
        /\ TextsDiffer(toServer')
        /\ chats' = chats /\ stored' = stored /\ forwards' = forwards
        /\ written' = written + typed
    BY <1>1, SendNumbers
  <2>2. Fresh \in SUBSET ((0 .. written') \ (0 .. written))
    BY <1>1, <2>1, ChunkNumbers
  <2>3. 0 .. written \subseteq 0 .. written'
    BY <1>0, <2>1
  <2>4. ASSUME NEW c \in DOMAIN chats PROVE ChatEffect(c)
    <3>1. CASE chat = c
      BY <1>1, <2>1, <2>2, <3>1 DEF ChatEffect, SendsSome
    <3>2. CASE chat # c
      BY <2>1, <3>2 DEF ChatEffect, LeavesChat
    <3> QED
      BY <3>1, <3>2
  <2> QED
    BY <1>0, <2>1, <2>3, <2>4 DEF NumbersEffect
<1>2. CASE StoreMessage
  <2> DEFINE m == Head(toServer)
             n == m.number
             d == m.chat
  <2>1. /\ d \in DOMAIN chats /\ n \in Own(toServer, d)
        /\ \A c \in DOMAIN chats : c # d => stored'[c] = stored[c]
        /\ Numbers(stored'[d]) = Numbers(stored[d]) \cup {n}
        /\ NoRepeat(stored'[d])
        /\ \A c : Own(toServer', c) =
                    IF d = c THEN Own(toServer, c) \ {n} ELSE Own(toServer, c)
        /\ TextsDiffer(toServer')
        /\ chats' = chats /\ forwards' = forwards /\ written' = written
    BY <1>2, StoreNumbers
  <2> HIDE DEF n, d
  <2>2. ASSUME NEW c \in DOMAIN chats PROVE ChatEffect(c) /\ NoRepeat(stored'[c])
    <3>1. CASE d = c
      BY <2>1, <3>1 DEF ChatEffect, StoresOne
    <3>2. CASE d # c
      BY <1>0, <2>1, <3>2 DEF ChatEffect, LeavesChat
    <3> QED
      BY <3>1, <3>2
  <2> QED
    BY <1>0, <2>1, <2>2 DEF NumbersEffect
<1>3. ASSUME NEW p \in Partner, PartnerWrites(p)
      PROVE  NumbersEffect
  <2> DEFINE n == written + 1
  <2>1. PICK d \in Nat :
           /\ \A c : NumbersOf(forwards', c) =
                       IF d = c THEN NumbersOf(forwards, c) \cup {n}
                       ELSE NumbersOf(forwards, c)
           /\ NoRepeat(forwards')
           /\ \A c \in DOMAIN chats : c # d => stored'[c] = stored[c]
           /\ NoRepeat(stored'[d])
           /\ \/ d \in DOMAIN chats /\ chats' = chats
                 /\ Numbers(stored'[d]) = Numbers(stored[d]) \cup {n}
              \/ d \notin DOMAIN chats /\ DOMAIN chats' = DOMAIN chats \cup {d}
                 /\ Numbers(stored'[d]) = {n}
           /\ toServer' = toServer /\ written' = n
    BY <1>3, WriteNumbers
  <2>2. n \in (0 .. written') \ (0 .. written) /\ 0 .. written \subseteq 0 .. written'
    BY <1>0, <2>1
  <2> HIDE DEF n
  <2>3. ASSUME NEW c \in DOMAIN chats PROVE ChatEffect(c) /\ NoRepeat(stored'[c])
    <3>1. CASE d = c
      BY <2>1, <2>2, <3>1 DEF ChatEffect, WritesOne
    <3>2. CASE d # c
      BY <1>0, <2>1, <3>2 DEF ChatEffect, LeavesChat
    <3> QED
      BY <3>1, <3>2
  <2>4. ASSUME NEW c \in DOMAIN chats' \ DOMAIN chats
        PROVE  /\ NoRepeat(stored'[c]) /\ Numbers(stored'[c]) \subseteq 0 .. written'
               /\ NumbersOf(forwards', c) = Numbers(stored'[c]) /\ Own(toServer', c) = {}
    <3>1. c = d /\ Numbers(stored'[c]) = {n}
      BY <2>1
    <3>2. NumbersOf(forwards, c) = {} /\ Own(toServer, c) = {}
      BY NothingElsewhere
    <3> QED
      BY <2>1, <2>2, <3>1, <3>2
  <2> QED
    BY <2>1, <2>2, <2>3, <2>4 DEF NumbersEffect, NumbersInv
<1>4. CASE HandleReceivedMessage
  <2> DEFINE m == Head(forwards)
             n == m.number
             d == m.chat
  <2>1. /\ d \in DOMAIN chats /\ n \in NumbersOf(forwards, d)
        /\ \A c : NumbersOf(forwards', c) =
                    IF d = c THEN NumbersOf(forwards, c) \ {n} ELSE NumbersOf(forwards, c)
        /\ NoRepeat(forwards')
        /\ chats' = chats /\ stored' = stored /\ toServer' = toServer /\ written' = written
    BY <1>4, HandleNumbers
  <2>2. ASSUME NEW c \in DOMAIN chats PROVE ChatEffect(c)
    <3>1. CASE d = c
      BY <1>4, <2>1, <3>1 DEF ChatEffect, HandlesOne
    <3>2. CASE d # c
      BY <2>1, <3>2 DEF ChatEffect, LeavesChat
    <3> QED
      BY <3>1, <3>2
  <2> HIDE DEF n, d
  <2> QED
    BY <1>0, <2>1, <2>2 DEF NumbersEffect, NumbersInv
<1>5. CASE AnswerRequest
  <2>1. /\ \A c : Own(toServer', c) = Own(toServer, c)
        /\ TextsDiffer(toServer')
        /\ \A c \in DOMAIN chats : stored'[c] = stored[c]
        /\ \A c \in DOMAIN chats' \ DOMAIN chats : stored'[c] = <<>>
        /\ forwards' = forwards /\ written' = written
    BY <1>5, AnswerNumbers
  <2>2. ASSUME NEW c \in DOMAIN chats' \ DOMAIN chats
        PROVE  /\ NoRepeat(stored'[c]) /\ Numbers(stored'[c]) \subseteq 0 .. written'
               /\ NumbersOf(forwards', c) = Numbers(stored'[c]) /\ Own(toServer', c) = {}
    <3>1. NoRepeat(<<>>) /\ Numbers(<<>>) = {}
      BY DEF NoRepeat, Numbers
    <3>2. NumbersOf(forwards, c) = {} /\ Own(toServer, c) = {}
      BY NothingElsewhere
    <3> QED
      BY <2>1, <3>1, <3>2
  <2>3. ASSUME NEW c \in DOMAIN chats PROVE ChatEffect(c) /\ NoRepeat(stored'[c])
    BY <1>0, <2>1 DEF ChatEffect, LeavesChat
  <2> QED
    BY <1>0, <2>1, <2>2, <2>3 DEF NumbersEffect
<1>6. ASSUME \A chat \in DOMAIN chats : ~SendText(chat), ~StoreMessage, ~HandleReceivedMessage,
             ~AnswerRequest, \A p \in Partner : ~PartnerWrites(p)
      PROVE  NumbersEffect
  <2>1. /\ \A c : Own(toServer', c) = Own(toServer, c)
        /\ TextsDiffer(toServer')
        /\ chats' = chats /\ stored' = stored /\ forwards' = forwards
        /\ written' \in Nat /\ written' >= written
    BY <1>6, OtherNumbers
  <2>2. 0 .. written \subseteq 0 .. written'
    BY <1>0, <2>1
  <2>3. ASSUME NEW c \in DOMAIN chats PROVE ChatEffect(c)
    BY <2>1 DEF ChatEffect, LeavesChat
  <2> QED
    BY <1>0, <2>1, <2>2, <2>3 DEF NumbersEffect
<1> QED
  BY <1>1, <1>2, <1>3, <1>4, <1>5, <1>6

\* So the numbers stay in order.
LEMMA NumbersStep ==
    ASSUME BaseInv, NumbersInv, [Next]_vars
    PROVE  NumbersInv'
<1>0. NumbersEffect
  BY EffectOfStep
<1>1. ASSUME NEW c \in DOMAIN chats
      PROVE  ChatNumbers(stored', forwards', toServer', written', c)
  <2>1. ChatNumbers(stored, forwards, toServer, written, c)
    BY DEF NumbersInv
  <2>2. ChatEffect(c) /\ NoRepeat(stored'[c]) /\ 0 .. written \subseteq 0 .. written'
    BY <1>0 DEF NumbersEffect
  <2>3. CASE LeavesChat(c)
    BY <2>1, <2>2, <2>3 DEF LeavesChat, ChatNumbers
  <2>4. CASE StoresOne(c)
    BY <2>1, <2>2, <2>4 DEF StoresOne, ChatNumbers
  <2>5. CASE WritesOne(c)
    BY <2>1, <2>2, <2>5 DEF WritesOne, ChatNumbers
  <2>6. CASE SendsSome(c)
    BY <2>1, <2>2, <2>6 DEF SendsSome, ChatNumbers
  <2>7. CASE HandlesOne(c)
    BY <2>1, <2>2, <2>7 DEF HandlesOne, ChatNumbers
  <2> QED
    BY <2>2, <2>3, <2>4, <2>5, <2>6, <2>7 DEF ChatEffect
<1>2. ASSUME NEW c \in DOMAIN chats' \ DOMAIN chats
      PROVE  ChatNumbers(stored', forwards', toServer', written', c)
  BY <1>0 DEF NumbersEffect, ChatNumbers
<1> QED
  BY <1>0, <1>1, <1>2 DEF NumbersInv, NumbersEffect

\* They are at the start, when each chat has one message with the number 0.
LEMMA NumbersInit == Init => NumbersInv
<1> SUFFICES ASSUME Init PROVE NumbersInv
  OBVIOUS
<1>1. toServer = <<>> /\ forwards = <<>> /\ written = 0
      /\ stored = [c \in DOMAIN chats |-> <<[chat |-> c, number |-> 0]>>]
  BY DEF Init
<1>2. NoRepeat(forwards) /\ TextsDiffer(toServer)
  BY <1>1 DEF NoRepeat, TextsDiffer
<1>3. \A c : NumbersOf(forwards, c) = {} /\ Own(toServer, c) = {}
  BY <1>1 DEF NumbersOf, Own
<1>4. ASSUME NEW c \in DOMAIN chats PROVE NoRepeat(stored[c]) /\ Numbers(stored[c]) = {0}
  <2>1. stored[c] = <<[chat |-> c, number |-> 0]>>
    BY <1>1
  <2> QED
    BY <2>1 DEF NoRepeat, Numbers
<1>5. ASSUME NEW c \in DOMAIN chats
      PROVE  ChatNumbers(stored, forwards, toServer, written, c)
  <2>1. Numbers(stored[c]) \subseteq 0 .. written
    BY <1>1, <1>4
  <2>2. NumbersOf(forwards, c) = {} /\ Own(toServer, c) = {} /\ NoRepeat(stored[c])
    BY <1>3, <1>4
  <2> QED
    BY ONLY <2>1, <2>2 DEF ChatNumbers
<1> QED
  BY <1>2, <1>5 DEF NumbersInv

----------------------------------------------------------------------------
\* Messages that have all of a chat in them but what is yet to be handled.
Accounts(s, st, fw, q, c) ==
    /\ NoRepeat(s) /\ \A k \in DOMAIN s : s[k].chat = c
    /\ Numbers(s) \cup NumbersOf(fw, c) = Numbers(st[c]) \cup Own(q, c)
    /\ Numbers(s) \cap NumbersOf(fw, c) = {}
Accounted(s, c) == Accounts(s, stored, forwards, toServer, c)

\* They stay so but for what is sent, and handled.
LEMMA AccountedStays ==
    ASSUME BaseInv, NumbersInv, [Next]_vars, NEW c \in DOMAIN chats, NEW s, Accounted(s, c),
           ~SendText(c), ~(HandleReceivedMessage /\ Head(forwards).chat = c)
    PROVE  Accounts(s, stored', forwards', toServer', c)
<1>1. ChatEffect(c)
  BY EffectOfStep DEF NumbersEffect
<1>2. ChatNumbers(stored, forwards, toServer, written, c)
  BY DEF NumbersInv
<1>3. Accounts(s, stored, forwards, toServer, c)
  BY DEF Accounted
<1>4. CASE LeavesChat(c)
  BY <1>3, <1>4 DEF LeavesChat, Accounts
<1>5. CASE StoresOne(c)
  BY <1>3, <1>5 DEF StoresOne, Accounts
<1>6. CASE WritesOne(c)
  <2>1. PICK n \in (0 .. written') \ (0 .. written) :
           /\ Numbers(stored'[c]) = Numbers(stored[c]) \cup {n}
           /\ NumbersOf(forwards', c) = NumbersOf(forwards, c) \cup {n}
           /\ Own(toServer', c) = Own(toServer, c)
    BY <1>6 DEF WritesOne
  <2>2. n \notin Numbers(s)
    BY <1>2, <1>3, <2>1 DEF Accounts, ChatNumbers
  <2>3. /\ Numbers(s) \cup NumbersOf(forwards', c) = Numbers(stored'[c]) \cup Own(toServer', c)
        /\ Numbers(s) \cap NumbersOf(forwards', c) = {}
    BY <1>3, <2>1, <2>2 DEF Accounts
  <2> QED
    BY <1>3, <2>3 DEF Accounts
<1> QED
  BY <1>1, <1>4, <1>5, <1>6 DEF ChatEffect, SendsSome, HandlesOne

\* What becomes of a request while none fails.
IsSent(i) ==
    /\ SendRequest(i) /\ requests[i].stage = "asked"
    /\ requests'[i].stage = "sent" /\ requests'[i].answer = requests[i].answer
IsAnswered(i) ==
    /\ AnswerRequest /\ Head(toServer).request = i /\ requests[i].stage = "sent"
    /\ requests'[i].stage = "answered" /\ requests'[i].answer = Answer(i)
IsFilled(i) ==
    /\ FillList(i) /\ requests[i].kind = "list"
    /\ requests'[i].stage = "filled" /\ requests'[i].answer = requests[i].answer
IsDone(i) ==
    /\ EndResetList(i) \/ ShowMessages(i) \/ FileNewChat(i)
    /\ requests'[i].stage = "done" /\ requests'[i].answer = <<>>
RequestEffect(i) ==
    requests'[i] = requests[i] \/ IsSent(i) \/ IsAnswered(i) \/ IsFilled(i) \/ IsDone(i)

\* Every step does one of these to each request.
LEMMA EffectOnRequest ==
    ASSUME BaseInv, [Next]_vars, "failed" \notin incidents', NEW i \in DOMAIN requests
    PROVE  RequestEffect(i)
<1>0. requests \in Seq(AnyRequest) /\ requests[i] \in AnyRequest
  BY DEF BaseInv, PageInv, NetTypes
<1>1. \A k \in DOMAIN requests : ~CannotAsk(k) /\ ~TimeOut(k)
  BY DEF CannotAsk, TimeOut, Fail
<1>2. ASSUME NEW stage, requests'[i] = [requests[i] EXCEPT !.stage = stage]
      PROVE  requests'[i].stage = stage /\ requests'[i].answer = requests[i].answer
  BY <1>0, <1>2 DEF AnyRequest, ListRequest, HistoryRequest, CreateRequest
<1>3. LET r == [requests[i] EXCEPT !.stage = "done", !.answer = <<>>] IN
         r.stage = "done" /\ r.answer = <<>>
  BY <1>0 DEF AnyRequest, ListRequest, HistoryRequest, CreateRequest
<1>4. ASSUME NEW k \in DOMAIN requests, SendRequest(k) PROVE RequestEffect(i)
  <2>1. requests[k].stage = "asked" /\ requests' = InStage(k, "sent")
    BY <1>4 DEF SendRequest
  <2>2. "sent" \in Stage
    BY DEF Stage
  <2>3. requests'[i] = IF i = k THEN [requests[k] EXCEPT !.stage = "sent"] ELSE requests[i]
    BY <1>0, <2>1, <2>2, InStageFacts
  <2>4. CASE i = k
    <3>1. requests'[i].stage = "sent" /\ requests'[i].answer = requests[i].answer
      BY <1>2, <2>3, <2>4
    <3> QED
      BY <1>4, <2>1, <2>4, <3>1 DEF RequestEffect, IsSent
  <2>5. CASE i # k
    BY <2>3, <2>5 DEF RequestEffect
  <2> QED
    BY <2>4, <2>5
<1>5. ASSUME NEW k \in DOMAIN requests, FillList(k) PROVE RequestEffect(i)
  <2>1. requests[k].kind = "list" /\ requests' = InStage(k, "filled")
    BY <1>5 DEF FillList
  <2>2. "filled" \in Stage
    BY DEF Stage
  <2>3. requests'[i] = IF i = k THEN [requests[k] EXCEPT !.stage = "filled"] ELSE requests[i]
    BY <1>0, <2>1, <2>2, InStageFacts
  <2>4. CASE i = k
    <3>1. requests'[i].stage = "filled" /\ requests'[i].answer = requests[i].answer
      BY <1>2, <2>3, <2>4
    <3> QED
      BY <1>5, <2>1, <2>4, <3>1 DEF RequestEffect, IsFilled
  <2>5. CASE i # k
    BY <2>3, <2>5 DEF RequestEffect
  <2> QED
    BY <2>4, <2>5
<1>6. ASSUME NEW k \in DOMAIN requests, EndResetList(k) \/ ShowMessages(k) \/ FileNewChat(k)
      PROVE  RequestEffect(i)
  <2>1. requests' = Finished(k)
    BY <1>6 DEF EndResetList, ShowMessages, FileNewChat
  <2>2. requests'[i] = IF i = k THEN [requests[k] EXCEPT !.stage = "done", !.answer = <<>>]
                       ELSE requests[i]
    BY <1>0, <2>1, FinishedFacts
  <2> QED
    BY <1>3, <1>6, <2>2 DEF RequestEffect, IsDone
<1>7. CASE AnswerRequest
  <2> DEFINE h == Head(toServer).request
  <2>1. requests'[i] = IF i = h /\ FrontRequest.stage = "sent"
                       THEN [FrontRequest EXCEPT !.stage = "answered", !.answer = Answer(h)]
                       ELSE requests[i]
    BY <1>7, AnswerStep DEF BaseInv
  <2>2. CASE i = h /\ FrontRequest.stage = "sent"
    <3>1. FrontRequest = requests[i]
      BY <2>2 DEF FrontRequest
    <3>2. requests'[i] = [requests[i] EXCEPT !.stage = "answered", !.answer = Answer(i)]
      BY <2>1, <2>2, <3>1
    <3>3. requests'[i].stage = "answered" /\ requests'[i].answer = Answer(i)
      BY <1>0, <3>2 DEF AnyRequest, ListRequest, HistoryRequest, CreateRequest
    <3> QED
      BY <1>7, <2>2, <3>1, <3>3 DEF RequestEffect, IsAnswered
  <2>3. CASE ~(i = h /\ FrontRequest.stage = "sent")
    BY <2>1, <2>3 DEF RequestEffect
  <2> QED
    BY <2>2, <2>3
<1>8. ASSUME \E kind, for, row : Ask(kind, for, row) PROVE RequestEffect(i)
  <2>1. \E r : requests' = Append(requests, r)
    BY <1>8 DEF Ask
  <2>2. requests'[i] = requests[i]
    BY <1>0, <2>1
  <2> QED
    BY <2>2 DEF RequestEffect
<1>9. CASE UNCHANGED requests
  BY <1>9 DEF RequestEffect
<1>10. CASE \/ PreparePage \/ CreateChat \/ HandleReceivedMessage
            \/ \E search \in Search \cup {AllChats} : ChangeSearch(search)
            \/ \E row \in DOMAIN rows : OpenChat(row)
  BY <1>8, <1>9, <1>10 DEF PreparePage, CreateChat, HandleReceivedMessage, ChangeSearch,
     OpenChat, BeginList
<1> QED
  BY <1>1, <1>4, <1>5, <1>6, <1>7, <1>9, <1>10, RequestsUntouched DEF Resume

----------------------------------------------------------------------------
\* No text to the chat is behind a request in the queue.
NoneBehind(q, i, c) ==
    \A p, k \in DOMAIN q : q[p].request = i /\ k > p => ~(IsText(q[k]) /\ q[k].chat = c)

\* What is behind a request stays behind it, and in front of it is nothing else.
LEMMA BehindTail ==
    ASSUME NEW q \in Seq(Asking \cup Sending), q # <<>>, NEW i, NEW c, NoneBehind(q, i, c)
    PROVE  /\ NoneBehind(Tail(q), i, c)
           /\ Head(q).request = i => Own(Tail(q), c) = {}
<1> DEFINE t == Tail(q)
<1>1. /\ 1 \in DOMAIN q /\ Head(q) = q[1]
      /\ \A k \in DOMAIN t : k + 1 \in DOMAIN q /\ k + 1 # 1 /\ t[k] = q[k + 1]
  BY TailParts
<1>2. t \in Seq(Asking \cup Sending)
  BY TailParts
<1>3. DOMAIN t \subseteq Nat \ {0}
  BY <1>2
<1> HIDE DEF t
<1>4. \A p, k \in DOMAIN t : k > p => k + 1 > p + 1
  BY <1>3
<1>5. \A k \in DOMAIN t : k + 1 > 1
  BY <1>3
<1>6. NoneBehind(t, i, c)
  BY <1>1, <1>4 DEF NoneBehind
<1>7. Head(q).request = i => Own(t, c) = {}
  BY <1>1, <1>5 DEF NoneBehind, Own
<1> QED
  BY <1>6, <1>7 DEF t

\* Texts to other chats come behind it.
LEMMA BehindConcat ==
    ASSUME NEW q \in Seq(Asking \cup Sending), NEW e \in Seq(Asking \cup Sending), NEW i, NEW c,
           NoneBehind(q, i, c),
           \A k \in DOMAIN e : ~(IsText(e[k]) /\ e[k].chat = c)
    PROVE  NoneBehind(q \o e, i, c)
<1> DEFINE a == q \o e
<1>1. Len(q) \in Nat /\ Len(e) \in Nat /\ DOMAIN q = 1 .. Len(q) /\ DOMAIN e = 1 .. Len(e)
  OBVIOUS
<1>2. \A k \in DOMAIN a : \/ k \in DOMAIN q /\ a[k] = q[k]
                          \/ k - Len(q) \in DOMAIN e /\ a[k] = e[k - Len(q)]
  BY ConcatParts
<1>3. DOMAIN a = 1 .. Len(q) + Len(e)
  BY <1>1
<1> HIDE DEF a
<1>4. ASSUME NEW p \in DOMAIN a, NEW k \in DOMAIN a, a[p].request = i, k > p,
             IsText(a[k]), a[k].chat = c
      PROVE  FALSE
  <2>1. k \in DOMAIN q /\ a[k] = q[k]
    BY <1>2, <1>4
  <2>2. p \in DOMAIN q
    BY <1>1, <1>3, <1>4, <2>1
  <2>3. a[p] = q[p]
    BY <1>1, <1>2, <2>2
  <2> QED
    BY <1>4, <2>1, <2>2, <2>3 DEF NoneBehind
<1> QED
  BY <1>4 DEF NoneBehind, a

----------------------------------------------------------------------------
\* Nothing has come in between, and the page shows an opened row.
Calm == ~Disturbed /\ "crossed" \notin incidents
OnPage == steady /\ shown # NoPartner
OpenId == IdAt(current)

\* With nothing asked for, the messages are all of the open chat's.
ViewInv ==
    OnPage /\ InFlight("history") = {} /\ OpenId # ChatUndefined => Accounted(messages, OpenId)

\* What is asked for is the open chat's.  What the user has sent since is asked
\* for too, or was stored before the answer, which therefore has it.
HistoryRight(i) ==
    /\ OnPage => OpenId = requests[i].for
    /\ requests[i].stage = "sent" => NoneBehind(toServer, i, requests[i].for)
    /\ requests[i].stage = "answered" =>
          Accounted(requests[i].answer, requests[i].for) /\ Own(toServer, requests[i].for) = {}
HistoriesRight == \A i \in InFlight("history") : HistoryRight(i)

\* A row without a chat was opened over an empty page.
EmptyInv ==
    OnPage /\ OpenId = ChatUndefined => messages = <<>> /\ InFlight("history") = {}

\* The id of a new chat that is not filed yet, and a chat that is being opened.
New(j, d) ==
    /\ requests[j].kind = "create" /\ requests[j].stage = "answered" /\ requests[j].answer = <<d>>
Pending(d) ==
    \E i \in InFlight("history") : requests[i].for = d /\ requests[i].stage \in {"asked", "sent"}

\* A chat whose id is not filed yet is empty but for forwarded messages that are
\* still to be handled, and if a list has it, there are such messages.
Unfiled(d) ==
    /\ \/ /\ NumbersOf(forwards, d) = Numbers(stored[d])
          /\ Own(toServer, d) = {}
       \/ NumbersOf(forwards, d) # {} /\ Pending(d)
    /\ OnPage /\ OpenId = d => Pending(d)
    /\ (\E r \in DOMAIN rows : rows[r].id = d) => NumbersOf(forwards, d) # {}
    /\ (\E i \in DOMAIN requests :
           requests[i].kind = "list" /\ \E r \in DOMAIN requests[i].answer :
               requests[i].answer[r].id = d) => NumbersOf(forwards, d) # {}
OneNew == \A j, k \in DOMAIN requests : \A d \in DOMAIN chats : New(j, d) /\ New(k, d) => j = k
NewHasId ==
    \A j \in DOMAIN requests :
        requests[j].kind = "create" /\ requests[j].stage = "answered" => requests[j].answer # <<>>
NewUnfiled == \A j \in DOMAIN requests : \A d \in DOMAIN chats : New(j, d) => Unfiled(d)

ViewsInv ==
    Calm => ViewInv /\ HistoriesRight /\ EmptyInv /\ OneNew /\ NewHasId /\ NewUnfiled

\* The state before a step that keeps the calm.
Before ==
    /\ BaseInv /\ CurrentShown /\ HistoryInv /\ AnswersDiffer /\ NumbersInv /\ ViewsInv
    /\ Calm

----------------------------------------------------------------------------
\* An incident is not taken back.
LEMMA StillCalm ==
    ASSUME BaseInv, [Next]_vars, Calm'
    PROVE  Calm
  BY IncidentsStep DEF BaseInv, PageInv, NetTypes, Disturbed, Calm

\* What is known before it, by name.
LEMMA CalmFacts ==
    ASSUME Before
    PROVE  /\ BaseInv /\ PageInv /\ PageTypes /\ NetTypes /\ CurrentShown /\ NumbersInv
           /\ "misfiled" \notin incidents /\ OneChatEach
           /\ \A k \in DOMAIN rows : LeadsTo(chats, rows[k])
           /\ OneHistory /\ ViewInv /\ HistoriesRight /\ EmptyInv
           /\ OneNew /\ NewHasId /\ NewUnfiled
  BY DEF Before, BaseInv, PageInv, RowsLead, AnswersDiffer, HistoryInv, ViewsInv, Calm, Disturbed

\* What a step that keeps the calm does not do.
LEMMA CalmStep ==
    ASSUME Before, [Next]_vars, Calm'
    PROVE  /\ "failed" \notin incidents'
           /\ \A row : OpenChat(row) =>
                 /\ InFlight("history") = {}
                 /\ rows[row].id = ChatUndefined => messages = <<>>
           /\ \A c : SendText(c) => steady /\ ~Crossing(c)
           /\ HandleReceivedMessage =>
                 /\ ~Overtakes(Head(forwards).chat)
                 /\ OpenId = Head(forwards).chat
                    /\ (\E r \in DOMAIN rows : rows[r].id = Head(forwards).chat) => steady
           /\ AnswerRequest /\ FrontRequest.kind = "history" => ~Underway(FrontRequest.for)
           /\ \A i : FileNewChat(i) => PartnerAt(requests[i].row) = requests[i].for
<1>1. /\ "failed" \notin incidents' /\ "histories" \notin incidents' /\ "unmade" \notin incidents'
      /\ "unsteady" \notin incidents' /\ "crossed" \notin incidents' /\ "misfiled" \notin incidents'
  BY DEF Calm, Disturbed
<1>2. ASSUME NEW row, OpenChat(row)
      PROVE  InFlight("history") = {} /\ (rows[row].id = ChatUndefined => messages = <<>>)
  BY <1>1, <1>2 DEF OpenChat, Noted
<1>3. ASSUME NEW c, SendText(c) PROVE steady /\ ~Crossing(c)
  BY <1>1, <1>3 DEF SendText, Noted
<1>4. ASSUME HandleReceivedMessage
      PROVE  /\ ~Overtakes(Head(forwards).chat)
             /\ OpenId = Head(forwards).chat
                /\ (\E r \in DOMAIN rows : rows[r].id = Head(forwards).chat) => steady
  BY <1>1, <1>4 DEF HandleReceivedMessage, Noted, OpenId
<1>5. ASSUME AnswerRequest, FrontRequest.kind = "history" PROVE ~Underway(FrontRequest.for)
  BY <1>1, <1>5 DEF AnswerRequest, Noted, FrontRequest
<1>6. ASSUME NEW i, FileNewChat(i) PROVE PartnerAt(requests[i].row) = requests[i].for
  BY <1>1, <1>6 DEF FileNewChat, Noted
<1> QED
  BY <1>1, <1>2, <1>3, <1>4, <1>5, <1>6

\* While a row stays open its id is filed, or stays.
LEMMA PageStays ==
    ASSUME BaseInv, CurrentShown, [Next]_vars, OnPage',
           \A row \in DOMAIN rows : ~OpenChat(row), \A i \in DOMAIN requests : ~FileNewChat(i)
    PROVE  OnPage /\ OpenId' = OpenId
<1>0. steady' /\ shown' # NoPartner /\ rows \in Seq(Row)
  BY DEF OnPage, BaseInv, PageInv, PageTypes
<1>1. ASSUME NEW i \in DOMAIN requests, FillList(i) PROVE OnPage /\ OpenId' = OpenId
  <2> DEFINE a == requests[i].answer
  <2>1. rows' = rows \o a /\ UNCHANGED <<current, shown, steady>> /\ requests[i].kind = "list"
    BY <1>1 DEF FillList
  <2>2. requests[i] \in AnyRequest
    BY DEF BaseInv, PageInv, NetTypes
  <2>3. a \in Seq(Row)
    BY <2>1, <2>2, RequestFields
  <2>4. current \in DOMAIN rows
    BY <1>0, <2>1 DEF CurrentShown
  <2> HIDE DEF a
  <2>5. current \in DOMAIN rows' /\ rows'[current] = rows[current]
    BY <1>0, <2>1, <2>3, <2>4
  <2> QED
    BY <1>0, <2>1, <2>4, <2>5 DEF OpenId, IdAt, OnPage
<1>2. ASSUME NEW row \in DOMAIN rows, ClickSameRow(row) PROVE OnPage /\ OpenId' = OpenId
  <2>1. lastSelected = row /\ current' = row /\ UNCHANGED <<rows, shown, steady>>
    BY <1>2 DEF ClickSameRow
  <2>2. lastSelected # 0
    BY <1>0, <2>1
  <2>3. lastSelected = current
    BY <1>0, <2>1, <2>2 DEF CurrentShown
  <2> QED
    BY <1>0, <2>1, <2>3 DEF OpenId, IdAt, OnPage
<1>3. CASE UNCHANGED <<rows, current, shown, steady>>
  BY <1>0, <1>3 DEF OpenId, IdAt, OnPage
<1>4. ASSUME \A i \in DOMAIN requests : ~FillList(i), \A row \in DOMAIN rows : ~ClickSameRow(row)
      PROVE  UNCHANGED <<rows, current, shown, steady>>
  BY <1>0, <1>4 DEF Next, Gui, Resume, vars, pageVars, ChangeSearch, PreparePage, BeginList,
     MoveCurrent, CloseChat, Type, CreateChat, ClearInput, SendText, SendTextNowhere,
     HandleReceivedMessage, SendRequest, CannotAsk, TimeOut, EndResetList, ShowMessages,
     PartnerWrites, StoreMessage, AnswerRequest, RefuseRequest
<1> QED
  BY <1>1, <1>2, <1>3, <1>4

\* The id of a new chat goes into the row with its partner.
LEMMA NewIdFiled ==
    ASSUME Before, [Next]_vars, Calm', NEW i \in DOMAIN requests, FileNewChat(i)
    PROVE  \E d \in DOMAIN chats :
              /\ New(i, d)
              /\ OnPage' = OnPage
              /\ OpenId' = OpenId \/ (OpenId = ChatUndefined /\ OpenId' = d)
              /\ \A r \in DOMAIN rows' :
                    rows'[r].id = d \/ (r \in DOMAIN rows /\ rows'[r].id = rows[r].id)
<1> DEFINE row == requests[i].row
<1>1. /\ requests[i].kind = "create" /\ requests[i].stage = "answered"
      /\ UNCHANGED <<current, shown, steady>>
  BY DEF FileNewChat
<1>2. RightAnswer(chats, requests[i]) /\ requests[i].answer # <<>>
  BY <1>1, CalmFacts DEF PageInv, AnswersRight, NewHasId
<1>3. PICK d \in DOMAIN chats : requests[i].answer = <<d>> /\ chats[d] = requests[i].for
  BY <1>1, <1>2 DEF RightAnswer
<1>4. requests[i].answer[1] = d
  BY <1>3
<1>5. rows' = IF row \in DOMAIN rows THEN [rows EXCEPT ![row].id = d] ELSE rows
  BY <1>2, <1>4 DEF FileNewChat
<1>6. rows \in Seq(Row)
  BY CalmFacts DEF PageTypes
<1>7. CASE row \notin DOMAIN rows
  <2>1. rows' = rows
    BY <1>5, <1>7
  <2>2. OpenId' = OpenId /\ OnPage' = OnPage
    BY <1>1, <2>1 DEF OpenId, IdAt, OnPage
  <2> QED
    BY <1>1, <1>3, <2>1, <2>2 DEF New
<1>8. CASE row \in DOMAIN rows
  <2>1. /\ DOMAIN rows' = DOMAIN rows
        /\ \A r \in DOMAIN rows : rows'[r] = IF r = row THEN [rows[row] EXCEPT !.id = d] ELSE rows[r]
    BY <1>5, <1>6, <1>8
  <2>2. [rows[row] EXCEPT !.id = d].id = d
    BY <1>6, <1>8 DEF Row
  <2>3. OnPage' = OnPage
    BY <1>1 DEF OnPage
  <2>4. \A r \in DOMAIN rows' : rows'[r].id = d \/ (r \in DOMAIN rows /\ rows'[r].id = rows[r].id)
    BY <2>1, <2>2
  <2>5. OpenId' = OpenId \/ (OpenId = ChatUndefined /\ OpenId' = d)
    <3>1. CASE row # current
      BY <1>1, <2>1, <3>1 DEF OpenId, IdAt
    <3>2. CASE row = current
      <4>1. OpenId = rows[row].id /\ OpenId' = d
        BY <1>1, <1>8, <2>1, <2>2, <3>2 DEF OpenId, IdAt
      <4>2. rows[row].partner = requests[i].for
        BY <1>8, CalmStep DEF PartnerAt
      <4>3. rows[row].id # ChatUndefined =>
               rows[row].id \in DOMAIN chats /\ chats[rows[row].id] = rows[row].partner
        BY <1>8, CalmFacts DEF LeadsTo
      <4>4. rows[row].id # ChatUndefined => rows[row].id = d
        BY <1>3, <4>2, <4>3, CalmFacts DEF OneChatEach
      <4> QED
        BY <4>1, <4>4
    <3> QED
      BY <3>1, <3>2
  <2> QED
    BY <1>1, <1>3, <2>3, <2>4, <2>5 DEF New
<1> QED
  BY <1>7, <1>8

\* A request comes behind the queue.
LEMMA BehindAsk ==
    ASSUME NEW q \in Seq(Asking \cup Sending), NEW r \in Nat \ {0}, NEW i, NEW c,
           NoneBehind(q, i, c)
    PROVE  NoneBehind(Append(q, [request |-> r]), i, c)
<1> DEFINE e == [request |-> r]
           a == Append(q, e)
           n == Len(q) + 1
<1>1. e \in Asking \cup Sending /\ ~IsText(e)
  BY DEF Asking, IsText
<1> HIDE DEF e
<1>2. DOMAIN a = DOMAIN q \cup {n} /\ a[n] = e /\ \A k \in DOMAIN q : a[k] = q[k]
  BY <1>1, Appended
<1>3. \A k \in DOMAIN q : ~(k > n)
  OBVIOUS
<1> HIDE DEF a, n
<1>4. NoneBehind(a, i, c)
  BY <1>1, <1>2, <1>3 DEF NoneBehind
<1> QED
  BY <1>4 DEF a, e

\* No step puts a text to the chat behind it but SendText.
LEMMA BehindStays ==
    ASSUME BaseInv, [Next]_vars, NEW i, NEW c, NoneBehind(toServer, i, c), ~SendText(c)
    PROVE  NoneBehind(toServer', i, c)
<1>0. toServer \in Seq(Asking \cup Sending)
  BY StoreTypes
<1>1. ASSUME NEW chat \in DOMAIN chats, SendText(chat)
      PROVE  NoneBehind(toServer', i, c)
  <2> DEFINE e(k) == [request |-> 0, chat |-> chat, number |-> written + k,
                      meant |-> shown, steady |-> steady]
             s == [k \in 1 .. typed |-> e(k)]
  <2>1. typed \in Nat /\ written \in Nat /\ chat \in Nat
    BY StoreTypes
  <2>2. steady \in BOOLEAN /\ shown \in Partner
    BY <1>1 DEF BaseInv, PageInv, PageTypes, SendText, CanPress
  <2>3. \A k \in 1 .. typed : e(k) \in Sending /\ e(k).chat = chat
    BY <2>1, <2>2 DEF Sending
  <2>4. toServer' = toServer \o s /\ chat # c
    BY <1>1 DEF SendText
  <2> HIDE DEF e
  <2>5. s \in Seq(Sending) /\ DOMAIN s = 1 .. typed /\ \A k \in 1 .. typed : s[k] = e(k)
    BY <2>1, <2>3
  <2>6. s \in Seq(Asking \cup Sending)
    BY <2>5, SeqMonotonic
  <2> HIDE DEF s
  <2>7. \A k \in DOMAIN s : ~(IsText(s[k]) /\ s[k].chat = c)
    BY <2>3, <2>4, <2>5
  <2>8. NoneBehind(toServer \o s, i, c)
    BY <1>0, <2>6, <2>7, BehindConcat
  <2> QED
    BY <2>4, <2>8
<1>2. ASSUME NEW k \in DOMAIN requests, SendRequest(k)
      PROVE  NoneBehind(toServer', i, c)
  <2>1. requests \in Seq(AnyRequest)
    BY DEF BaseInv, PageInv, NetTypes
  <2>2. k \in Nat \ {0} /\ toServer' = Append(toServer, [request |-> k])
    BY <1>2, <2>1 DEF SendRequest
  <2> QED
    BY <1>0, <2>2, BehindAsk
<1>3. CASE StoreMessage \/ AnswerRequest \/ RefuseRequest
  <2>1. toServer # <<>> /\ toServer' = Tail(toServer)
    BY <1>3 DEF StoreMessage, AnswerRequest, RefuseRequest
  <2> QED
    BY <1>0, <2>1, BehindTail
<1> QED
  BY <1>1, <1>2, <1>3, QueueUntouched

\* What is sent comes to what is shown.
LEMMA SendAccounts ==
    ASSUME BaseInv, NumbersInv, NEW chat \in DOMAIN chats, SendText(chat),
           Accounted(messages, chat)
    PROVE  Accounts(messages', stored', forwards', toServer', chat)
<1> DEFINE s == Chunks(chat)
<1>1. /\ Own(toServer', chat) = Own(toServer, chat) \cup Fresh
      /\ stored' = stored /\ forwards' = forwards
  BY SendNumbers
<1>2. /\ s \in Seq(Message) /\ \A k \in DOMAIN s : s[k].chat = chat
      /\ Numbers(s) = Fresh /\ NoRepeat(s) /\ Fresh \cap (0 .. written) = {}
  BY ChunkNumbers
<1>3. messages' = messages \o s /\ messages \in Seq(Message)
  BY StoreTypes DEF SendText
<1>4. ChatNumbers(stored, forwards, toServer, written, chat)
  BY DEF NumbersInv
<1>5. Accounts(messages, stored, forwards, toServer, chat)
  BY DEF Accounted
<1> HIDE DEF s
<1>6. Numbers(messages) \cap Fresh = {} /\ NumbersOf(forwards, chat) \cap Fresh = {}
  BY <1>2, <1>4, <1>5 DEF Accounts, ChatNumbers
<1>7. Numbers(messages') = Numbers(messages) \cup Fresh /\ NoRepeat(messages')
  BY <1>2, <1>3, <1>5, <1>6, NumbersConcat DEF Accounts
<1>8. \A k \in DOMAIN messages' : messages'[k].chat = chat
  <2>1. \A k \in DOMAIN messages' :
            \/ k \in DOMAIN messages /\ messages'[k] = messages[k]
            \/ k - Len(messages) \in DOMAIN s /\ messages'[k] = s[k - Len(messages)]
    BY <1>2, <1>3
  <2> QED
    BY <1>2, <1>5, <2>1 DEF Accounts
<1>9. /\ Numbers(messages') \cup NumbersOf(forwards', chat)
           = Numbers(stored'[chat]) \cup Own(toServer', chat)
      /\ Numbers(messages') \cap NumbersOf(forwards', chat) = {}
  BY <1>1, <1>5, <1>6, <1>7 DEF Accounts
<1> QED
  BY <1>7, <1>8, <1>9 DEF Accounts

\* And so does what is received.
LEMMA HandleAccounts ==
    ASSUME BaseInv, NumbersInv, HandleReceivedMessage,
           Accounted(messages, Head(forwards).chat),
           messages' = Append(messages, Head(forwards))
    PROVE  Accounts(messages', stored', forwards', toServer', Head(forwards).chat)
<1> DEFINE m == Head(forwards)
           c == m.chat
           n == m.number
<1>1. /\ m \in Message /\ n \in NumbersOf(forwards, c)
      /\ NumbersOf(forwards', c) = NumbersOf(forwards, c) \ {n}
      /\ stored' = stored /\ toServer' = toServer
  BY HandleNumbers
<1>2. Accounts(messages, stored, forwards, toServer, c) /\ messages \in Seq(Message)
  BY StoreTypes DEF Accounted
<1>3. messages' = Append(messages, m)
  OBVIOUS
<1>4. n \notin Numbers(messages)
  BY <1>1, <1>2 DEF Accounts
<1>5. Numbers(messages') = Numbers(messages) \cup {n} /\ NoRepeat(messages')
  <2> HIDE DEF m
  <2> QED
    BY <1>1, <1>2, <1>3, <1>4, NumbersAppend DEF Accounts
<1>6. \A k \in DOMAIN messages' : messages'[k].chat = c
  <2>1. \A k \in DOMAIN messages' : messages'[k] = m \/ (k \in DOMAIN messages /\ messages'[k] = messages[k])
    BY <1>1, <1>2, <1>3, Appended
  <2> QED
    BY <1>2, <2>1 DEF Accounts
<1> HIDE DEF m, c, n
<1>7. /\ Numbers(messages') \cup NumbersOf(forwards', c) = Numbers(stored'[c]) \cup Own(toServer', c)
      /\ Numbers(messages') \cap NumbersOf(forwards', c) = {}
  BY <1>1, <1>2, <1>4, <1>5 DEF Accounts
<1> QED
  BY <1>5, <1>6, <1>7 DEF Accounts, c, m

\* FileNewChat and ShowMessages are about different requests.
LEMMA NotBoth ==
    ASSUME BaseInv, NEW i \in DOMAIN requests, FileNewChat(i), NEW k \in DOMAIN requests,
           ShowMessages(k)
    PROVE  FALSE
<1>1. requests \in Seq(AnyRequest) /\ i # k /\ requests[i].stage = "answered"
      /\ requests' = Finished(i) /\ requests' = Finished(k) /\ requests[i] \in AnyRequest
  BY DEF FileNewChat, ShowMessages, BaseInv, PageInv, NetTypes
<1>2. requests'[i] = [requests[i] EXCEPT !.stage = "done", !.answer = <<>>]
  BY <1>1, FinishedFacts
<1>3. requests'[i] = requests[i]
  BY <1>1, FinishedFacts
<1>4. requests'[i].stage = "done"
  BY <1>1, <1>2 DEF AnyRequest, ListRequest, HistoryRequest, CreateRequest
<1> QED
  BY <1>1, <1>3, <1>4

\* Every step leaves what is shown complete: what is sent and received comes to
\* it, and a chat opens with the answer that has the rest.
LEMMA ViewStep ==
    ASSUME Before, [Next]_vars, Calm'
    PROVE  ViewInv'
<1> SUFFICES ASSUME OnPage', InFlight("history")' = {}, OpenId' # ChatUndefined
             PROVE  Accounts(messages', stored', forwards', toServer', OpenId')
  BY DEF ViewInv, Accounted
<1>0. /\ BaseInv /\ CurrentShown /\ NumbersInv /\ ViewInv /\ EmptyInv /\ OneHistory
      /\ HistoriesRight /\ NewUnfiled /\ ~Disturbed'
  BY CalmFacts DEF Calm
<1>1. ASSUME NEW row \in DOMAIN rows, OpenChat(row) PROVE FALSE
  <2>1. rows \in Seq(Row) /\ current' = row /\ rows' = rows
    BY <1>1, CalmFacts DEF PageTypes, OpenChat
  <2>2. rows[row].id # ChatUndefined /\ rows[row].id \in Nat
    <3>1. rows[row] \in Row
      BY <2>1
    <3>2. OpenId' = rows[row].id
      BY <1>1, <2>1 DEF OpenId, IdAt
    <3> QED
      BY <3>1, <3>2 DEF Row
  <2>3. Ask("history", rows[row].id, 0)
    BY <1>1, <2>2 DEF OpenChat
  <2>4. Asked("history", rows[row].id)
    BY <1>0, <2>2, <2>3, AskedOne
  <2>5. Len(requests) + 1 \in InFlight("history")'
    BY <2>4 DEF Asked, InFlight
  <2> QED
    BY <2>5
<1>2. ASSUME NEW i \in DOMAIN requests, FileNewChat(i)
      PROVE  Accounts(messages', stored', forwards', toServer', OpenId')
  <2>1. UNCHANGED <<messages, stored, forwards, toServer>>
    BY <1>2 DEF FileNewChat, serverVars
  <2>2. PICK d \in DOMAIN chats :
           /\ New(i, d) /\ OnPage' = OnPage
           /\ OpenId' = OpenId \/ (OpenId = ChatUndefined /\ OpenId' = d)
    BY <1>2, NewIdFiled
  <2>3. InFlight("history") = {}
    BY <1>0, <1>2, NotBoth, HistoryStays
  <2>4. CASE OpenId' = OpenId
    BY <1>0, <2>1, <2>2, <2>3, <2>4 DEF ViewInv, Accounted
  <2>5. CASE OpenId = ChatUndefined /\ OpenId' = d
    <3>1. messages = <<>>
      BY <1>0, <2>2, <2>5 DEF EmptyInv
    <3>2. ~Pending(d)
      BY <2>3 DEF Pending
    <3>3. Unfiled(d)
      BY <1>0, <1>2, <2>2 DEF NewUnfiled
    <3>4. NumbersOf(forwards, d) = Numbers(stored[d]) /\ Own(toServer, d) = {}
      BY <3>2, <3>3 DEF Unfiled
    <3>5. NoRepeat(<<>>) /\ Numbers(<<>>) = {} /\ DOMAIN <<>> = {}
      BY DEF NoRepeat, Numbers
    <3>6. Accounts(<<>>, stored, forwards, toServer, d)
      BY ONLY <3>4, <3>5 DEF Accounts
    <3> QED
      BY <2>1, <2>5, <3>1, <3>6
  <2> QED
    BY <2>2, <2>4, <2>5
<1>3. ASSUME \A row \in DOMAIN rows : ~OpenChat(row), \A i \in DOMAIN requests : ~FileNewChat(i)
      PROVE  OnPage /\ OpenId' = OpenId /\ OpenId \in DOMAIN chats
  <2>1. OnPage /\ OpenId' = OpenId
    BY <1>0, <1>3, PageStays
  <2>2. OpenId \in DOMAIN chats
    BY <1>0, <2>1, CalmFacts, IdAtCurrent DEF OnPage, OpenId
  <2> QED
    BY <2>1, <2>2
<1>4. ASSUME \A row \in DOMAIN rows : ~OpenChat(row), \A i \in DOMAIN requests : ~FileNewChat(i),
             NEW i \in DOMAIN requests, ShowMessages(i)
      PROVE  Accounts(messages', stored', forwards', toServer', OpenId')
  <2>1. /\ messages' = requests[i].answer /\ UNCHANGED <<stored, forwards, toServer>>
        /\ i \in InFlight("history") /\ requests[i].stage = "answered"
    BY <1>4 DEF ShowMessages, serverVars, InFlight
  <2>2. HistoryRight(i)
    BY <1>0, <2>1 DEF HistoriesRight
  <2>3. OpenId' = requests[i].for /\ Accounted(requests[i].answer, requests[i].for)
    BY <1>3, <1>4, <2>1, <2>2 DEF HistoryRight
  <2> QED
    BY <2>1, <2>3 DEF Accounted
<1>5. ASSUME \A row \in DOMAIN rows : ~OpenChat(row),
             \A i \in DOMAIN requests : ~FileNewChat(i) /\ ~ShowMessages(i)
      PROVE  Accounts(messages', stored', forwards', toServer', OpenId')
  <2>1. OnPage /\ OpenId' = OpenId /\ OpenId \in DOMAIN chats
    BY <1>3, <1>5
  <2>2. InFlight("history") = {}
    BY <1>0, <1>5, HistoryStays
  <2>3. Accounted(messages, OpenId)
    BY <1>0, <2>1, <2>2 DEF ViewInv
  <2>4. CASE SendText(OpenId)
    BY <1>0, <2>1, <2>3, <2>4, SendAccounts
  <2>5. CASE HandleReceivedMessage /\ Head(forwards).chat = OpenId
    <3>1. current \in DOMAIN rows /\ rows[current].id = OpenId
      BY <2>1 DEF OpenId, IdAt
    <3>2. messages' = Append(messages, Head(forwards))
      BY <2>5, <3>1 DEF HandleReceivedMessage, OpenId
    <3>3. Accounts(messages', stored', forwards', toServer', Head(forwards).chat)
      BY <1>0, <2>3, <2>5, <3>2, HandleAccounts
    <3> QED
      BY <2>1, <2>5, <3>3
  <2>6. CASE ~SendText(OpenId) /\ ~(HandleReceivedMessage /\ Head(forwards).chat = OpenId)
    <3>1. \A chat \in DOMAIN chats : ~SendText(chat) /\ ~SendTextNowhere(chat)
      <4>1. \A chat : ~SendTextNowhere(chat)
        BY CalmStep DEF SendTextNowhere, Fail
      <4>2. \A chat : SendText(chat) => chat = OpenId
        BY DEF SendText, OpenId
      <4> QED
        BY <2>6, <4>1, <4>2
    <3>2. messages' = messages
      <4>1. CASE HandleReceivedMessage
        BY <2>6, <4>1 DEF HandleReceivedMessage, OpenId
      <4>2. CASE ~HandleReceivedMessage
        BY <1>5, <3>1, <4>2, MessagesUntouched
      <4> QED
        BY <4>1, <4>2
    <3>3. Accounts(messages, stored', forwards', toServer', OpenId)
      BY <1>0, <2>1, <2>3, <2>6, AccountedStays
    <3> QED
      BY <2>1, <3>2, <3>3
  <2> QED
    BY <2>4, <2>5, <2>6
<1> QED
  BY <1>1, <1>2, <1>4, <1>5

\* The page over a row without a chat stays empty until it has one.
LEMMA EmptyStep ==
    ASSUME Before, [Next]_vars, Calm'
    PROVE  EmptyInv'
<1> SUFFICES ASSUME OnPage', OpenId' = ChatUndefined
             PROVE  messages' = <<>> /\ InFlight("history")' = {}
  BY DEF EmptyInv
<1>0. BaseInv /\ CurrentShown /\ EmptyInv /\ NetTypes
  BY CalmFacts
<1>1. ASSUME NEW row \in DOMAIN rows, OpenChat(row)
      PROVE  messages' = <<>> /\ InFlight("history")' = {}
  <2>1. current' = row /\ rows' = rows /\ messages' = messages
    BY <1>1 DEF OpenChat
  <2>2. rows[row].id = ChatUndefined
    BY <1>1, <2>1 DEF OpenId, IdAt
  <2>3. requests' = requests
    BY <1>1, <2>2 DEF OpenChat
  <2> QED
    BY <1>1, <2>1, <2>2, <2>3, CalmStep DEF InFlight
<1>2. ASSUME \A row \in DOMAIN rows : ~OpenChat(row)
      PROVE  OnPage /\ OpenId = ChatUndefined
  <2>1. ASSUME NEW i \in DOMAIN requests, FileNewChat(i) PROVE OnPage /\ OpenId = ChatUndefined
    <3>1. PICK d \in DOMAIN chats :
             OnPage' = OnPage /\ (OpenId' = OpenId \/ (OpenId = ChatUndefined /\ OpenId' = d))
      BY <2>1, NewIdFiled
    <3>2. d # ChatUndefined
      BY <1>0 DEF NetTypes, ChatUndefined
    <3> QED
      BY <3>1, <3>2
  <2>2. ASSUME \A i \in DOMAIN requests : ~FileNewChat(i) PROVE OnPage /\ OpenId = ChatUndefined
    BY <1>0, <1>2, <2>2, PageStays
  <2> QED
    BY <2>1, <2>2
<1>3. ASSUME \A row \in DOMAIN rows : ~OpenChat(row)
      PROVE  messages' = <<>> /\ InFlight("history")' = {}
  <2>1. OpenId = ChatUndefined /\ messages = <<>> /\ InFlight("history") = {}
    BY <1>0, <1>2, <1>3 DEF EmptyInv
  <2>2. InFlight("history")' = {}
    BY <1>0, <1>3, <2>1, HistoryUnasked
  <2>3. \A i \in DOMAIN requests : ~ShowMessages(i)
    BY <2>1 DEF ShowMessages, InFlight
  <2>4. \A chat \in DOMAIN chats : ~SendText(chat) /\ ~SendTextNowhere(chat)
    BY <2>1 DEF SendText, SendTextNowhere, OpenId
  <2>5. CASE HandleReceivedMessage
    <3>1. Head(forwards).chat \in DOMAIN chats
      BY <1>0, <2>5, CalmFacts, HandleNumbers
    <3>2. Head(forwards).chat # ChatUndefined
      BY <1>0, <3>1 DEF NetTypes, ChatUndefined
    <3> QED
      BY <2>1, <2>2, <2>5, <3>2 DEF HandleReceivedMessage, OpenId
  <2>6. CASE ~HandleReceivedMessage
    BY <2>1, <2>2, <2>3, <2>4, <2>6, MessagesUntouched
  <2> QED
    BY <2>5, <2>6
<1> QED
  BY <1>1, <1>3

\* The answer to a request for a chat's messages has them all.
LEMMA AnsweredRight ==
    ASSUME Before, [Next]_vars, Calm', NEW i \in InFlight("history"), IsAnswered(i)
    PROVE  /\ requests[i].for \in DOMAIN chats
           /\ NumbersOf(forwards, requests[i].for) = {}
           /\ Accounts(requests'[i].answer, stored', forwards', toServer', requests[i].for)
           /\ Own(toServer', requests[i].for) = {}
<1> DEFINE c == requests[i].for
<1>1. /\ AnswerRequest /\ Head(toServer).request = i /\ requests[i].stage = "sent"
      /\ requests'[i].answer = Answer(i) /\ requests[i].kind = "history" /\ FrontRequest = requests[i]
  BY DEF IsAnswered, InFlight, FrontRequest
<1>2. BaseInv /\ NumbersInv /\ HistoriesRight
  BY CalmFacts
<1>3. c \in DOMAIN chats
  BY <1>2, HistoryFor
<1>4. Answer(i) = stored[c]
  BY <1>1 DEF Answer
<1>5. ~Underway(c)
  BY <1>1, CalmStep
<1>6. NumbersOf(forwards, c) = {}
  BY <1>5 DEF Underway, NumbersOf
<1>7. NoneBehind(toServer, i, c)
  BY <1>1, <1>2 DEF HistoriesRight, HistoryRight
<1>8. toServer # <<>> /\ toServer' = Tail(toServer) /\ ~IsText(Head(toServer))
  <2>1. i # 0
    BY <1>1 DEF AnswerRequest
  <2> QED
    BY <1>1, <2>1 DEF AnswerRequest, IsText
<1>9. Own(toServer', c) = {}
  BY <1>1, <1>2, <1>7, <1>8, StoreTypes, BehindTail
<1>10. stored'[c] = stored[c] /\ forwards' = forwards
  BY <1>1, <1>2, <1>3, AnswerNumbers
<1>11. NoRepeat(stored[c]) /\ \A k \in DOMAIN stored[c] : stored[c][k].chat = c
  BY <1>2, <1>3, StoreTypes DEF NumbersInv, ChatNumbers, MessagesExist
<1> HIDE DEF c
<1>12. Accounts(stored[c], stored', forwards', toServer', c)
  BY <1>6, <1>9, <1>10, <1>11 DEF Accounts
<1> QED
  BY <1>1, <1>3, <1>4, <1>6, <1>9, <1>12 DEF c

\* What is asked for stays what the page needs.
LEMMA HistoriesStep ==
    ASSUME Before, [Next]_vars, Calm'
    PROVE  HistoriesRight'
<1> SUFFICES ASSUME NEW i \in InFlight("history")'
             PROVE  HistoryRight(i)'
  BY DEF HistoriesRight
<1>0. BaseInv /\ CurrentShown /\ EmptyInv /\ NumbersInv /\ HistoriesRight /\ QueueExists
  BY CalmFacts DEF PageInv
<1>1. ASSUME NEW row \in DOMAIN rows, OpenChat(row)
      PROVE  HistoryRight(i)'
  <2>1. rows \in Seq(Row) /\ current' = row /\ rows' = rows
    BY <1>1, CalmFacts DEF PageTypes, OpenChat
  <2>2. InFlight("history") = {}
    BY <1>1, CalmStep
  <2>3. rows[row].id # ChatUndefined
    BY <1>1, <2>2 DEF OpenChat, InFlight
  <2>4. Ask("history", rows[row].id, 0)
    BY <1>1, <2>3 DEF OpenChat
  <2>5. rows[row].id \in Nat
    <3>1. rows[row] \in Row
      BY <2>1
    <3> QED
      BY <3>1 DEF Row
  <2>6. Asked("history", rows[row].id)
    BY <1>0, <2>4, <2>5, AskedOne
  <2>7. i = Len(requests) + 1
    BY <2>2, <2>6 DEF Asked, InFlight
  <2>8. requests'[i].stage = "asked" /\ requests'[i].for = rows[row].id
    BY <2>6, <2>7 DEF Asked
  <2>9. OpenId' = rows[row].id
    BY <1>1, <2>1 DEF OpenId, IdAt
  <2> QED
    BY <2>8, <2>9 DEF HistoryRight
<1>2. ASSUME \A row \in DOMAIN rows : ~OpenChat(row)
      PROVE  HistoryRight(i)'
  <2> DEFINE c == requests[i].for
  <2>1. i \in InFlight("history")
    BY <1>0, <1>2, HistoryUnasked
  <2>2. c \in DOMAIN chats /\ requests'[i].for = c /\ HistoryRight(i)
    BY <1>0, <2>1, HistoryFor DEF HistoriesRight
  <2>3. i \in DOMAIN requests /\ requests[i].kind = "history" /\ requests[i].stage # "done"
    BY <2>1 DEF InFlight
  <2>4. OnPage' => OpenId' = c
    <3>1. ASSUME NEW j \in DOMAIN requests, FileNewChat(j), OnPage' PROVE OpenId' = c
      <4>1. PICK d \in DOMAIN chats :
               OnPage' = OnPage /\ (OpenId' = OpenId \/ (OpenId = ChatUndefined /\ OpenId' = d))
        BY <3>1, NewIdFiled
      <4>2. OpenId # ChatUndefined
        BY <1>0, <2>1, <3>1, <4>1 DEF EmptyInv
      <4> QED
        BY <2>2, <3>1, <4>1, <4>2 DEF HistoryRight
    <3>2. ASSUME \A j \in DOMAIN requests : ~FileNewChat(j), OnPage' PROVE OpenId' = c
      BY <1>0, <1>2, <2>2, <3>2, PageStays DEF HistoryRight
    <3> QED
      BY <3>1, <3>2
  <2> HIDE DEF c
  <2>5. RequestEffect(i) /\ requests'[i].stage # "done"
    <3>1. "failed" \notin incidents'
      BY CalmStep
    <3> QED
      BY <1>0, <2>3, <3>1, EffectOnRequest DEF InFlight
  <2>6. requests'[i].stage = "sent" => NoneBehind(toServer', i, c)
    <3>1. ASSUME requests'[i] = requests[i], requests[i].stage = "sent"
          PROVE  NoneBehind(toServer', i, c)
      <4>1. NoneBehind(toServer, i, c)
        BY <2>2, <3>1 DEF HistoryRight, c
      <4>2. Crossing(c)
        BY <2>1, <3>1 DEF Crossing, c
      <4>3. ~SendText(c)
        BY <4>2, CalmStep
      <4> QED
        BY <1>0, <4>1, <4>3, BehindStays
    <3>2. ASSUME IsSent(i) PROVE NoneBehind(toServer', i, c)
      <4>1. requests \in Seq(AnyRequest) /\ toServer \in Seq(Asking \cup Sending)
        BY <1>0, StoreTypes DEF BaseInv, PageInv, NetTypes
      <4>2. i \in Nat \ {0} /\ toServer' = Append(toServer, [request |-> i])
        BY <2>3, <3>2, <4>1 DEF IsSent, SendRequest
      <4>3. \A p \in DOMAIN toServer : toServer[p].request # i
        BY <1>0, <3>2, <4>2 DEF IsSent, QueueExists
      <4>4. NoneBehind(toServer, i, c)
        BY <4>3 DEF NoneBehind
      <4> QED
        BY <4>1, <4>2, <4>4, BehindAsk
    <3> QED
      BY <2>5, <3>1, <3>2 DEF RequestEffect, IsAnswered, IsFilled, IsDone
  <2>7. requests'[i].stage = "answered" =>
           /\ Accounts(requests'[i].answer, stored', forwards', toServer', c)
           /\ Own(toServer', c) = {}
    <3>1. ASSUME requests'[i] = requests[i], requests[i].stage = "answered"
          PROVE  /\ Accounts(requests'[i].answer, stored', forwards', toServer', c)
                 /\ Own(toServer', c) = {}
      <4>1. Accounted(requests[i].answer, c) /\ Own(toServer, c) = {}
        BY <2>2, <3>1 DEF HistoryRight, c
      <4>2. Crossing(c) /\ Overtakes(c)
        BY <2>1, <2>3, <3>1 DEF Crossing, Overtakes, c
      <4>3. ~SendText(c) /\ ~(HandleReceivedMessage /\ Head(forwards).chat = c)
        BY <4>2, CalmStep
      <4>4. Accounts(requests[i].answer, stored', forwards', toServer', c)
        BY <1>0, <2>2, <4>1, <4>3, AccountedStays
      <4>5. ChatEffect(c)
        BY <1>0, <2>2, EffectOfStep DEF NumbersEffect
      <4>6. Own(toServer', c) = {}
        BY <4>1, <4>3, <4>5 DEF ChatEffect, LeavesChat, StoresOne, WritesOne, SendsSome, HandlesOne
      <4> QED
        BY <3>1, <4>4, <4>6
    <3>2. ASSUME IsAnswered(i)
          PROVE  /\ Accounts(requests'[i].answer, stored', forwards', toServer', c)
                 /\ Own(toServer', c) = {}
      BY <2>1, <3>2, AnsweredRight DEF c
    <3> QED
      BY <2>5, <3>1, <3>2 DEF RequestEffect, IsSent, IsFilled, IsDone
  <2> QED
    BY <2>2, <2>4, <2>6, <2>7 DEF HistoryRight, Accounted
<1> QED
  BY <1>1, <1>2

\* A chat that is opened has been asked for until all that is forwarded of it
\* is handled.
LEMMA PendingStays ==
    ASSUME Before, [Next]_vars, Calm', NEW d, Pending(d), NumbersOf(forwards, d) # {}
    PROVE  Pending(d)'
<1>0. BaseInv
  BY CalmFacts
<1>1. PICK i \in InFlight("history") :
         requests[i].for = d /\ requests[i].stage \in {"asked", "sent"}
  BY DEF Pending
<1>2. i \in DOMAIN requests /\ requests[i].kind = "history"
  BY DEF InFlight
<1>3. i \in DOMAIN requests' /\ requests'[i].kind = "history" /\ requests'[i].for = d
  BY <1>0, <1>1, <1>2, RequestsStep DEF RequestsKept, BaseInv
<1>4. "failed" \notin incidents'
  BY CalmStep
<1>5. RequestEffect(i)
  BY <1>0, <1>2, <1>4, EffectOnRequest
<1>6. ~IsAnswered(i)
  BY <1>1, AnsweredRight
<1>7. ~IsFilled(i) /\ ~IsDone(i)
  BY <1>1, <1>2 DEF IsFilled, IsDone, EndResetList, ShowMessages, FileNewChat
<1>8. requests'[i].stage \in {"asked", "sent"}
  BY <1>1, <1>5, <1>6, <1>7 DEF RequestEffect, IsSent
<1> QED
  BY <1>3, <1>8 DEF Pending, InFlight

\* What is forwarded of a chat is not handled before its id is filed.
LEMMA ForwardsStay ==
    ASSUME Before, [Next]_vars, Calm', NEW j \in DOMAIN requests, NEW d \in DOMAIN chats, New(j, d)
    PROVE  /\ ~HandlesOne(d)
           /\ NumbersOf(forwards, d) # {} => NumbersOf(forwards', d) # {}
<1>1. Overtakes(d)
  BY DEF Overtakes, New
<1>2. ~(HandleReceivedMessage /\ Head(forwards).chat = d)
  BY <1>1, CalmStep
<1>3. ~HandlesOne(d)
  BY <1>2 DEF HandlesOne
<1>4. ChatEffect(d)
  BY CalmFacts, EffectOfStep DEF NumbersEffect
<1>5. NumbersOf(forwards', d) = NumbersOf(forwards, d) \/ \E n : n \in NumbersOf(forwards', d)
  BY <1>3, <1>4 DEF ChatEffect, LeavesChat, StoresOne, WritesOne, SendsSome
<1> QED
  BY <1>3, <1>5

\* A chat with an id in a list has messages that are still to be handled.
LEMMA ListedHasForwards ==
    ASSUME Before, [Next]_vars, Calm', NEW j \in DOMAIN requests, NEW d \in DOMAIN chats, New(j, d),
           stored[d] # <<>>
    PROVE  NumbersOf(forwards, d) # {}
<1>1. Unfiled(d)
  BY CalmFacts DEF NewUnfiled
<1>2. stored[d] \in Seq(Message)
  BY CalmFacts, StoreTypes
<1>3. 1 \in DOMAIN stored[d]
  BY <1>2
<1>4. Numbers(stored[d]) # {}
  BY <1>3 DEF Numbers
<1> QED
  BY <1>1, <1>4 DEF Unfiled

\* Where a new id comes from.
LEMMA NewFrom ==
    ASSUME Before, [Next]_vars, Calm', NEW j \in DOMAIN requests', NEW d, New(j, d)'
    PROVE  /\ j \in DOMAIN requests
           /\ \/ New(j, d) /\ d \in DOMAIN chats /\ requests'[j] = requests[j]
              \/ /\ IsAnswered(j) /\ d \notin DOMAIN chats
                 /\ d \in DOMAIN chats'
<1>0. BaseInv /\ NetTypes /\ AnswersRight
  BY CalmFacts DEF PageInv
<1>1. requests'[j].kind = "create" /\ requests'[j].stage = "answered" /\ requests'[j].answer = <<d>>
  BY DEF New
<1>2. j \in DOMAIN requests
  BY <1>0, <1>1, NewRequests DEF NewRequest, Asked
<1>3. requests[j].kind = "create"
  BY <1>0, <1>1, <1>2, RequestsStep DEF RequestsKept, BaseInv
<1>4. RequestEffect(j)
  <2>1. "failed" \notin incidents'
    BY CalmStep
  <2> QED
    BY <1>0, <1>2, <2>1, EffectOnRequest
<1>5. CASE requests'[j] = requests[j]
  <2>1. RightAnswer(chats, requests[j])
    BY <1>0, <1>2 DEF AnswersRight
  <2>2. New(j, d)
    BY <1>1, <1>5 DEF New
  <2>3. d \in DOMAIN chats
    <3>1. <<d>> # <<>> /\ \A c : <<c>> = <<d>> => c = d
      OBVIOUS
    <3>2. requests[j].answer = <<>> \/ \E c \in DOMAIN chats : requests[j].answer = <<c>>
      BY <1>3, <2>1 DEF RightAnswer
    <3>3. requests[j].answer = <<d>>
      BY <1>1, <1>5
    <3> QED
      BY <3>1, <3>2, <3>3
  <2> QED
    BY <1>2, <1>5, <2>2, <2>3
<1>6. CASE IsAnswered(j)
  <2>1. Answer(j) = <<Len(chats) + 1>>
    BY <1>3 DEF Answer
  <2>2. d = Len(chats) + 1
    BY <1>1, <1>6, <2>1 DEF IsAnswered
  <2>3. DOMAIN chats = 1 .. Len(chats) /\ Len(chats) \in Nat /\ chats \in Seq(Partner)
    BY <1>0 DEF NetTypes
  <2>4. \E p : chats' = Append(chats, p)
    BY <1>3, <1>6 DEF IsAnswered, AnswerRequest
  <2>5. d \notin DOMAIN chats /\ d \in DOMAIN chats'
    BY <2>2, <2>3, <2>4
  <2> QED
    BY <1>2, <1>6, <2>5
<1> QED
  BY <1>1, <1>4, <1>5, <1>6 DEF RequestEffect, IsSent, IsFilled, IsDone

\* Where a row's chat comes from.
LEMMA RowFrom ==
    ASSUME Before, [Next]_vars, Calm', NEW r \in DOMAIN rows'
    PROVE  \/ \E q \in DOMAIN rows : rows[q].id = rows'[r].id
           \/ \E i \in DOMAIN requests : requests[i].kind = "list" /\
                 \E q \in DOMAIN requests[i].answer : requests[i].answer[q].id = rows'[r].id
           \/ \E k \in DOMAIN requests : FileNewChat(k) /\ New(k, rows'[r].id)
<1>0. BaseInv /\ rows \in Seq(Row) /\ requests \in Seq(AnyRequest)
  BY CalmFacts DEF PageTypes, NetTypes
<1>1. ASSUME NEW i \in DOMAIN requests, FillList(i)
      PROVE  \/ \E q \in DOMAIN rows : rows[q].id = rows'[r].id
             \/ requests[i].kind = "list" /\
                   \E q \in DOMAIN requests[i].answer : requests[i].answer[q].id = rows'[r].id
  <2> DEFINE a == requests[i].answer
  <2>1. requests[i].kind = "list" /\ rows' = rows \o a
    BY <1>1 DEF FillList
  <2>2. requests[i] \in AnyRequest
    BY <1>0
  <2>3. a \in Seq(Row)
    BY <2>1, <2>2, RequestFields
  <2> HIDE DEF a
  <2>4. \/ r \in DOMAIN rows /\ rows'[r] = rows[r]
        \/ r - Len(rows) \in DOMAIN a /\ rows'[r] = a[r - Len(rows)]
    BY <1>0, <2>1, <2>3
  <2> QED
    BY <2>1, <2>4 DEF a
<1>2. ASSUME NEW k \in DOMAIN requests, FileNewChat(k)
      PROVE  New(k, rows'[r].id) \/ \E q \in DOMAIN rows : rows[q].id = rows'[r].id
  <2>1. PICK d \in DOMAIN chats :
           New(k, d) /\ (rows'[r].id = d \/ (r \in DOMAIN rows /\ rows'[r].id = rows[r].id))
    BY <1>2, NewIdFiled
  <2> QED
    BY <2>1
<1>3. ASSUME ~ \E i \in DOMAIN requests : FillList(i) \/ FileNewChat(i)
      PROVE  \E q \in DOMAIN rows : rows[q].id = rows'[r].id
  <2>1. CASE BeginsList
    <3>1. rows' = <<>>
      BY <2>1 DEF BeginsList, BeginList, Reset
    <3> QED
      BY <3>1
  <2>2. CASE UNCHANGED rows
    BY <2>2
  <2> QED
    BY <1>3, <2>1, <2>2, ListsBegin
<1> QED
  BY <1>1, <1>2, <1>3

\* And a row of an answer.
LEMMA AnswerFrom ==
    ASSUME Before, [Next]_vars, Calm', NEW i \in DOMAIN requests', requests'[i].kind = "list",
           NEW r \in DOMAIN requests'[i].answer
    PROVE  LET d == requests'[i].answer[r].id IN
           \/ /\ i \in DOMAIN requests /\ requests[i].kind = "list"
              /\ r \in DOMAIN requests[i].answer /\ requests[i].answer[r].id = d
           \/ d # ChatUndefined => d \in DOMAIN chats /\ stored[d] # <<>>
<1>0. BaseInv /\ NetTypes
  BY CalmFacts
<1>1. i \in DOMAIN requests
  <2>1. i \notin DOMAIN requests => requests'[i].answer = <<>>
    BY <1>0, NewRequests DEF NewRequest, Asked
  <2> QED
    BY <2>1
<1>2. requests[i].kind = "list"
  BY <1>0, <1>1, RequestsStep DEF RequestsKept, BaseInv
<1>3. RequestEffect(i)
  <2>1. "failed" \notin incidents'
    BY CalmStep
  <2> QED
    BY <1>0, <1>1, <2>1, EffectOnRequest
<1>4. CASE requests'[i].answer = requests[i].answer
  BY <1>1, <1>2, <1>4
<1>5. CASE IsAnswered(i)
  <2> DEFINE R == ListRows(requests[i].for)
  <2>1. requests'[i].answer = SetToSeq(R)
    BY <1>2, <1>5 DEF IsAnswered, Answer
  <2>2. requests[i].for \in SUBSET Partner
    <3>1. requests[i] \in AnyRequest
      BY <1>0, <1>1 DEF NetTypes
    <3> QED
      BY <1>2, <3>1, RequestFields
  <2>3. IsFiniteSet(R)
    BY <1>0, <2>2, FiniteRows DEF NetTypes
  <2> HIDE DEF R
  <2>4. SetToSeq(R) \in Seq(R)
    BY <2>3, SomeOrder
  <2>5. requests'[i].answer[r] \in R
    BY <2>1, <2>4
  <2>6. requests'[i].answer[r].id # ChatUndefined =>
           /\ requests'[i].answer[r].id \in DOMAIN chats
           /\ stored[requests'[i].answer[r].id] # <<>>
    BY <2>5 DEF R, ListRows
  <2> QED
    BY <2>6
<1>6. CASE IsDone(i)
  BY <1>6 DEF IsDone
<1> QED
  BY <1>3, <1>4, <1>5, <1>6 DEF RequestEffect, IsSent, IsFilled

\* New ids stay what they are until they are filed.
LEMMA NewStep ==
    ASSUME Before, [Next]_vars, Calm'
    PROVE  OneNew' /\ NewHasId'
<1>0. BaseInv /\ OneNew /\ NewHasId
  BY CalmFacts
<1>1. OneNew'
  <2> SUFFICES ASSUME NEW j \in DOMAIN requests', NEW k \in DOMAIN requests',
                      NEW d \in DOMAIN chats', New(j, d)', New(k, d)'
               PROVE  j = k
    BY DEF OneNew
  <2>1. /\ j \in DOMAIN requests
        /\ (New(j, d) /\ d \in DOMAIN chats) \/ (IsAnswered(j) /\ d \notin DOMAIN chats)
    BY NewFrom
  <2>2. /\ k \in DOMAIN requests
        /\ (New(k, d) /\ d \in DOMAIN chats) \/ (IsAnswered(k) /\ d \notin DOMAIN chats)
    BY NewFrom
  <2> QED
    BY <1>0, <2>1, <2>2 DEF OneNew, IsAnswered
<1>2. NewHasId'
  <2> SUFFICES ASSUME NEW j \in DOMAIN requests', requests'[j].kind = "create",
                      requests'[j].stage = "answered"
               PROVE  requests'[j].answer # <<>>
    BY DEF NewHasId
  <2>1. j \in DOMAIN requests
    BY <1>0, NewRequests DEF NewRequest, Asked
  <2>2. requests[j].kind = "create"
    BY <1>0, <2>1, RequestsStep DEF RequestsKept, BaseInv
  <2>3. "failed" \notin incidents'
    BY CalmStep
  <2>4. RequestEffect(j)
    BY <1>0, <2>1, <2>3, EffectOnRequest
  <2>5. CASE requests'[j] = requests[j]
    BY <1>0, <2>1, <2>2, <2>5 DEF NewHasId
  <2>6. CASE IsAnswered(j)
    <3>1. Answer(j) = <<Len(chats) + 1>>
      BY <2>2 DEF Answer
    <3>2. <<Len(chats) + 1>> # <<>>
      OBVIOUS
    <3> QED
      BY <2>6, <3>1, <3>2 DEF IsAnswered
  <2> QED
    BY <2>4, <2>5, <2>6 DEF RequestEffect, IsSent, IsFilled, IsDone
<1> QED
  BY <1>1, <1>2

\* A chat that has just been made has nothing in it, and nobody knows of it.
LEMMA JustMade ==
    ASSUME Before, [Next]_vars, Calm', NEW j \in DOMAIN requests, IsAnswered(j),
           NEW d \in DOMAIN chats' \ DOMAIN chats
    PROVE  Unfiled(d)'
<1>0. /\ BaseInv /\ NumbersInv /\ RowsExist /\ AnswersRight /\ NetTypes
      /\ rows \in Seq(Row)
  BY CalmFacts DEF PageInv, PageTypes
<1>1. NumbersOf(forwards', d) = Numbers(stored'[d]) /\ Own(toServer', d) = {}
  BY <1>0, EffectOfStep DEF NumbersEffect
<1>2. UNCHANGED <<rows, current>> /\ d # ChatUndefined
  <2>1. UNCHANGED <<rows, current>> /\ chats' \in Seq(Partner)
    BY <1>0, ServerStep DEF IsAnswered, AnswerRequest, pageVars, BaseInv, ServerTypes
  <2> QED
    BY <2>1 DEF ChatUndefined
<1>3. \A r \in DOMAIN rows' : rows'[r].id # d
  BY <1>0, <1>2 DEF RowsExist
<1>4. OpenId' # d
  BY <1>2, <1>3 DEF OpenId, IdAt
<1>5. ASSUME NEW i \in DOMAIN requests', requests'[i].kind = "list",
             NEW r \in DOMAIN requests'[i].answer
      PROVE  requests'[i].answer[r].id # d
  <2>1. \/ /\ i \in DOMAIN requests /\ requests[i].kind = "list"
           /\ r \in DOMAIN requests[i].answer
           /\ requests[i].answer[r].id = requests'[i].answer[r].id
        \/ requests'[i].answer[r].id # ChatUndefined => requests'[i].answer[r].id \in DOMAIN chats
    BY <1>5, AnswerFrom
  <2>2. i \in DOMAIN requests => RightAnswer(chats, requests[i])
    BY <1>0 DEF AnswersRight
  <2> QED
    BY <1>2, <2>1, <2>2 DEF RightAnswer, LeadsTo
<1> QED
  BY <1>1, <1>3, <1>4, <1>5 DEF Unfiled

\* And stays so until its id is filed.
LEMMA UnfiledStep ==
    ASSUME Before, [Next]_vars, Calm', NEW j \in DOMAIN requests, NEW d \in DOMAIN chats,
           New(j, d), requests'[j] = requests[j]
    PROVE  Unfiled(d)'
<1>0. /\ BaseInv /\ CurrentShown /\ NumbersInv /\ OneNew /\ Unfiled(d) /\ NetTypes
  BY CalmFacts DEF NewUnfiled
<1>1. d # ChatUndefined
  BY <1>0 DEF NetTypes, ChatUndefined
<1>2. ChatEffect(d)
  BY <1>0, EffectOfStep DEF NumbersEffect
<1>3. ~HandlesOne(d) /\ (NumbersOf(forwards, d) # {} => NumbersOf(forwards', d) # {})
  BY ForwardsStay
<1>4. \A k \in DOMAIN requests : FileNewChat(k) => ~New(k, d)
  <2> SUFFICES ASSUME NEW k \in DOMAIN requests, FileNewChat(k), New(k, d) PROVE FALSE
    OBVIOUS
  <2>1. k = j
    BY <1>0 DEF OneNew
  <2>2. requests \in Seq(AnyRequest) /\ requests[j] \in AnyRequest /\ requests' = Finished(j)
    BY <1>0, <2>1 DEF NetTypes, FileNewChat
  <2>3. requests'[j] = [requests[j] EXCEPT !.stage = "done", !.answer = <<>>]
    BY <2>2, FinishedFacts
  <2>4. requests'[j].stage = "done"
    BY <2>2, <2>3 DEF AnyRequest, ListRequest, HistoryRequest, CreateRequest
  <2> QED
    BY <2>4 DEF New
<1>5. Pending(d) /\ NumbersOf(forwards, d) # {} => Pending(d)'
  BY PendingStays
\* The rows.
<1>6. (\E r \in DOMAIN rows' : rows'[r].id = d) => NumbersOf(forwards, d) # {}
  BY <1>0, <1>4, RowFrom DEF Unfiled
\* The answers.
<1>7. ASSUME NEW i \in DOMAIN requests', requests'[i].kind = "list",
             NEW r \in DOMAIN requests'[i].answer, requests'[i].answer[r].id = d
      PROVE  NumbersOf(forwards, d) # {}
  <2>1. \/ /\ i \in DOMAIN requests /\ requests[i].kind = "list"
           /\ r \in DOMAIN requests[i].answer /\ requests[i].answer[r].id = d
        \/ stored[d] # <<>>
    BY <1>1, <1>7, AnswerFrom
  <2> QED
    BY <1>0, <2>1, ListedHasForwards DEF Unfiled
\* The open row.
<1>8. OnPage /\ OpenId = d => Pending(d) /\ NumbersOf(forwards, d) # {}
  <2>1. OpenId = d => current \in DOMAIN rows /\ rows[current].id = d
    BY <1>1 DEF OpenId, IdAt
  <2> QED
    BY <1>0, <2>1 DEF Unfiled
<1>9. ASSUME OnPage', OpenId' = d PROVE Pending(d)'
  <2>1. ASSUME NEW row \in DOMAIN rows, OpenChat(row) PROVE Pending(d)'
    <3>1. current' = row /\ rows' = rows
      BY <2>1 DEF OpenChat
    <3>2. rows[row].id = d
      BY <1>9, <2>1, <3>1 DEF OpenId, IdAt
    <3>3. Ask("history", d, 0)
      BY <1>1, <2>1, <3>2 DEF OpenChat
    <3>4. d \in Nat
      BY <1>0 DEF NetTypes
    <3>5. Asked("history", d)
      BY <1>0, <3>3, <3>4, AskedOne
    <3>6. Len(requests) + 1 \in InFlight("history")' /\ requests'[Len(requests) + 1].for = d
          /\ requests'[Len(requests) + 1].stage = "asked"
      BY <3>5 DEF Asked, InFlight
    <3> QED
      BY <3>6 DEF Pending
  <2>2. ASSUME NEW k \in DOMAIN requests, FileNewChat(k) PROVE Pending(d)'
    <3>1. PICK e \in DOMAIN chats :
             /\ New(k, e) /\ OnPage' = OnPage
             /\ OpenId' = OpenId \/ (OpenId = ChatUndefined /\ OpenId' = e)
      BY <2>2, NewIdFiled
    <3>2. e # d
      BY <1>4, <2>2, <3>1
    <3> QED
      BY <1>5, <1>8, <1>9, <3>1, <3>2
  <2>3. ASSUME \A row \in DOMAIN rows : ~OpenChat(row), \A k \in DOMAIN requests : ~FileNewChat(k)
        PROVE  Pending(d)'
    BY <1>0, <1>5, <1>8, <1>9, <2>3, PageStays
  <2> QED
    BY <2>1, <2>2, <2>3
\* The chat.
<1>10. \/ NumbersOf(forwards', d) = Numbers(stored'[d]) /\ Own(toServer', d) = {}
       \/ NumbersOf(forwards', d) # {} /\ Pending(d)'
  <2>1. CASE NumbersOf(forwards, d) # {} /\ Pending(d)
    BY <1>3, <1>5, <2>1
  <2>2. CASE NumbersOf(forwards, d) = Numbers(stored[d]) /\ Own(toServer, d) = {}
    <3>1. CASE SendsSome(d)
      <4>1. SendText(d)
        BY <3>1 DEF SendsSome
      <4>2. OnPage /\ OpenId = d
        BY <4>1, CalmStep DEF SendText, CanPress, OnPage, OpenId
      <4> QED
        BY <1>3, <1>5, <1>8, <4>2
    <3>2. CASE ~SendsSome(d)
      BY <1>2, <1>3, <2>2, <3>2 DEF ChatEffect, LeavesChat, StoresOne, WritesOne
    <3> QED
      BY <3>1, <3>2
  <2> QED
    BY <1>0, <2>1, <2>2 DEF Unfiled
<1>11. (\E i \in DOMAIN requests' :
           requests'[i].kind = "list" /\ \E r \in DOMAIN requests'[i].answer :
               requests'[i].answer[r].id = d) => NumbersOf(forwards', d) # {}
  BY <1>3, <1>7
<1>12. (\E r \in DOMAIN rows' : rows'[r].id = d) => NumbersOf(forwards', d) # {}
  BY <1>3, <1>6
<1> QED
  BY <1>9, <1>10, <1>11, <1>12 DEF Unfiled

\* Every step keeps all of it.
LEMMA ViewsStep ==
    ASSUME BaseInv, CurrentShown, HistoryInv, AnswersDiffer, NumbersInv, ViewsInv, [Next]_vars
    PROVE  ViewsInv'
<1> SUFFICES ASSUME Calm'
             PROVE  (ViewInv /\ HistoriesRight /\ EmptyInv /\ OneNew /\ NewHasId /\ NewUnfiled)'
  BY DEF ViewsInv
<1>1. Before
  BY StillCalm DEF Before
<1>2. ViewInv' /\ HistoriesRight' /\ EmptyInv' /\ OneNew' /\ NewHasId'
  BY <1>1, ViewStep, HistoriesStep, EmptyStep, NewStep
<1>3. NewUnfiled'
  <2> SUFFICES ASSUME NEW j \in DOMAIN requests', NEW d \in DOMAIN chats', New(j, d)'
               PROVE  Unfiled(d)'
    BY DEF NewUnfiled
  <2>1. /\ j \in DOMAIN requests
        /\ \/ New(j, d) /\ d \in DOMAIN chats /\ requests'[j] = requests[j]
           \/ IsAnswered(j) /\ d \notin DOMAIN chats
    BY <1>1, NewFrom
  <2>2. CASE New(j, d) /\ d \in DOMAIN chats /\ requests'[j] = requests[j]
    BY <1>1, <2>1, <2>2, UnfiledStep
  <2>3. CASE IsAnswered(j) /\ d \notin DOMAIN chats
    BY <1>1, <2>1, <2>3, JustMade
  <2> QED
    BY <2>1, <2>2, <2>3
<1> QED
  BY <1>2, <1>3

\* It holds at the start, where there is no chat open and none asked for.
LEMMA ViewsInit == Init => ViewsInv
<1> SUFFICES ASSUME Init PROVE ViewsInv
  OBVIOUS
<1>1. /\ shown = NoPartner
      /\ DOMAIN requests = {1} /\ requests[1].kind = "list"
  BY DEF Init, Request
<1> QED
  BY <1>1 DEF ViewsInv, ViewInv, HistoriesRight, EmptyInv, OneNew, NewHasId, NewUnfiled, New,
     OnPage, InFlight

----------------------------------------------------------------------------
\* A sequence in which no number is there twice is not longer than one with
\* the same numbers.
LEMMA NotLonger ==
    ASSUME NEW s \in Seq(Message), NEW t \in Seq(Message),
           NoRepeat(s), Numbers(s) = Numbers(t)
    PROVE  Len(s) <= Len(t)
<1> DEFINE f == [k \in 1 .. Len(s) |-> CHOOSE j \in 1 .. Len(t) : t[j].number = s[k].number]
<1>1. Len(s) \in Nat /\ Len(t) \in Nat /\ DOMAIN s = 1 .. Len(s) /\ DOMAIN t = 1 .. Len(t)
  OBVIOUS
<1>2. \A k \in 1 .. Len(s) : \E j \in 1 .. Len(t) : t[j].number = s[k].number
  BY <1>1 DEF Numbers
<1>3. \A k \in 1 .. Len(s) : f[k] \in 1 .. Len(t) /\ t[f[k]].number = s[k].number
  BY <1>2
<1>4. f \in [1 .. Len(s) -> 1 .. Len(t)]
  BY <1>3
<1> HIDE DEF f
<1>5. \A j, k \in 1 .. Len(s) : f[j] = f[k] => j = k
  BY <1>1, <1>3 DEF NoRepeat
<1>6. ASSUME NEW n \in Nat PROVE IsFiniteSet(1 .. n) /\ Cardinality(1 .. n) = n
  <2>1. 1 \in Int /\ n \in Int /\ (1 > n => n = 0)
    OBVIOUS
  <2>2. IsFiniteSet(1 .. n) /\ Cardinality(1 .. n) = IF 1 > n THEN 0 ELSE n - 1 + 1
    BY ONLY <2>1, FS_Interval
  <2> QED
    BY <2>1, <2>2
<1>7. ~(Len(s) > Len(t))
  <2> SUFFICES ASSUME Len(s) > Len(t) PROVE FALSE
    OBVIOUS
  <2>1. /\ IsFiniteSet(1 .. Len(s)) /\ IsFiniteSet(1 .. Len(t))
        /\ Cardinality(1 .. Len(t)) < Cardinality(1 .. Len(s))
    BY <1>1, <1>6
  <2>2. \E j, k \in 1 .. Len(s) : j # k /\ f[j] = f[k]
    BY <1>4, <2>1, FS_PigeonHole
  <2> QED
    BY <1>5, <2>2
<1> QED
  BY <1>1, <1>7

\* Two sequences of messages of one chat with the same numbers, each once, have
\* the same messages.
LEMMA SameMessages ==
    ASSUME NEW s \in Seq(Message), NEW t \in Seq(Message), NEW c,
           NoRepeat(s), NoRepeat(t), Numbers(s) = Numbers(t),
           \A k \in DOMAIN s : s[k].chat = c, \A k \in DOMAIN t : t[k].chat = c
    PROVE  ToSet(s) = ToSet(t) /\ Len(s) = Len(t)
<1>1. (\A k \in DOMAIN s : s[k] \in Message) /\ (\A k \in DOMAIN t : t[k] \in Message)
  OBVIOUS
<1>2. ASSUME NEW k \in DOMAIN s, NEW j \in DOMAIN t, t[j].number = s[k].number PROVE t[j] = s[k]
  <2>1. t[j].chat = s[k].chat
    OBVIOUS
  <2>2. \A m \in Message : m = [chat |-> m.chat, number |-> m.number]
    BY DEF Message
  <2> QED
    BY <1>1, <1>2, <2>1, <2>2
<1>3. \A k \in DOMAIN s : \E j \in DOMAIN t : t[j] = s[k]
  BY <1>2 DEF Numbers
<1>4. ASSUME NEW j \in DOMAIN t PROVE \E k \in DOMAIN s : t[j] = s[k]
  <2>1. t[j].number \in Numbers(s)
    BY DEF Numbers
  <2>2. PICK k \in DOMAIN s : s[k].number = t[j].number
    BY <2>1 DEF Numbers
  <2> QED
    BY <1>2, <2>2
<1>5. ToSet(s) = ToSet(t)
  BY <1>3, <1>4 DEF ToSet
<1>6. Len(s) <= Len(t) /\ Len(t) <= Len(s)
  BY NotLonger
<1> QED
  BY <1>5, <1>6

\* ViewIsComplete: whatever replies, texts and forwarded messages do to one
\* another, once nothing is on its way the open chat shows each of its messages
\* once and no other (messagesModel.cpp:42-57, chatPage.cpp:299-313, 373-411).
THEOREM ViewComplete == Spec => []ViewIsComplete
<1> DEFINE Inv == CurrentShown /\ HistoryInv /\ AnswersDiffer /\ NumbersInv /\ ViewsInv
<1>1. Init => Inv
  <2> SUFFICES ASSUME Init PROVE Inv
    OBVIOUS
  <2>1. CurrentShown /\ HistoryInv
    BY DEF Init, CurrentShown, HistoryInv, OneHistory, HistoryOfShown, ShownOfShown, InFlight,
       Request
  <2>2. AnswersDiffer
    BY AnswersDifferInit
  <2> QED
    BY <2>1, <2>2, NumbersInit, ViewsInit
<1>2. BaseInv /\ Inv /\ [Next]_vars => Inv'
  BY CurrentShownStep, HistoryStep, AnswersDifferStep, NumbersStep, ViewsStep
<1>3. BaseInv /\ Inv => ViewIsComplete
  <2> SUFFICES ASSUME BaseInv, Inv, Calm, shown # NoPartner, steady, IdAt(current) # ChatUndefined,
                      InFlight("history") = {}, toServer = <<>>, forwards = <<>>
               PROVE  /\ ToSet(messages) = ToSet(stored[IdAt(current)])
                      /\ Len(messages) = Len(stored[IdAt(current)])
    BY DEF ViewIsComplete, Calm
  <2> DEFINE c == IdAt(current)
  <2>1. c \in DOMAIN chats
    BY IdAtCurrent DEF Calm, Disturbed
  <2>2. Accounts(messages, stored, forwards, toServer, c)
    BY DEF ViewsInv, ViewInv, OnPage, OpenId, Accounted
  <2>3. NumbersOf(forwards, c) = {} /\ Own(toServer, c) = {}
    BY DEF NumbersOf, Own
  <2>4. messages \in Seq(Message) /\ stored[c] \in Seq(Message)
        /\ \A k \in DOMAIN stored[c] : stored[c][k].chat = c
    BY <2>1, StoreTypes DEF MessagesExist
  <2>5. NoRepeat(stored[c])
    BY <2>1 DEF NumbersInv, ChatNumbers
  <2> HIDE DEF c
  <2>6. /\ NoRepeat(messages) /\ Numbers(messages) = Numbers(stored[c])
        /\ \A k \in DOMAIN messages : messages[k].chat = c
    BY <2>2, <2>3 DEF Accounts
  <2>7. ToSet(messages) = ToSet(stored[c]) /\ Len(messages) = Len(stored[c])
    BY <2>4, <2>5, <2>6, SameMessages
  <2> QED
    BY <2>7 DEF c
<1> HIDE DEF Inv
<1> QED
  BY <1>1, <1>2, <1>3, Base, PTL DEF Spec
=============================================================================
