-------------------------- MODULE MCServerSessions --------------------------
(***************************************************************************)
(* Model values for ServerSessions.  Sockets are interchangeable.          *)
(***************************************************************************)
EXTENDS ServerSessions, TLC

SocketSymmetry == Permutations(Socket)
=============================================================================
