--------------------------- MODULE MCChatQueries ---------------------------
(***************************************************************************)
(* Users who all have names of their own, or of whom all but the first     *)
(* have the same; a name is typed whole, or so little that all are meant.  *)
(***************************************************************************)
EXTENDS ChatQueries

CONSTANTS n1, n2, n3

Names == {n1, n2, n3}
Distinct == [u \in User |-> CASE u = 1 -> n1 [] u = 2 -> n2 [] u = 3 -> n3]
Namesakes == [u \in User |-> IF u = 1 THEN n1 ELSE n2]
Namings == {Distinct, Namesakes}
OneOrAll == {{n1}, {n2}, Names}
=============================================================================
