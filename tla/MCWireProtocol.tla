--------------------------- MODULE MCWireProtocol ---------------------------
(***************************************************************************)
(* Packets for WireProtocol: every kind, with texts that are empty, short  *)
(* and as long as the forms and the chat page let them be.                 *)
(***************************************************************************)
EXTENDS WireProtocol

OneRow(kind, row) == [kind |-> kind, rows |-> <<row>>]

Requests ==
    {OneRow("userPacket", <<0, NameSize - 1>>), OneRow("userPacket", <<NameSize - 1, 1>>),
     OneRow("chatPacket", <<>>), OneRow("createNewPersonalChat", <<NameSize - 1>>),
     OneRow("sendChatMessage", <<InputSize - 1>>)}

\* Times are as long as MySQL prints them, and nothing stores a photo.
Time == TimeSize - 1

Replies ==
    {OneRow("id", <<>>), OneRow("result", <<>>), OneRow("userName", <<0>>),
     OneRow("serverError", <<ResponseSize - 1>>), OneRow("sendChatMessage", <<1, Time>>),
     [kind |-> "chats", rows |-> <<<<NameSize - 1, 0, 0, 0>>,
                                   <<1, InputSize - 1, Time, 0>>>>],
     [kind |-> "allMessages", rows |-> <<<<InputSize - 1, Time>>>>],
     [kind |-> "allMessages", rows |-> <<>>]}
=============================================================================
