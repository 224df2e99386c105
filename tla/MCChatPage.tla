----------------------------- MODULE MCChatPage -----------------------------
(***************************************************************************)
(* What is typed into the search field, for ChatPage.                      *)
(***************************************************************************)
EXTENDS ChatPage

SearchAnyone == {Partner}
=============================================================================
