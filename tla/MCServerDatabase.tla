-------------------------- MODULE MCServerDatabase --------------------------
(***************************************************************************)
(* Model values for ServerDatabase.  Threads are interchangeable.          *)
(***************************************************************************)
EXTENDS ServerDatabase, TLC

ThreadSymmetry == Permutations(Thread)
=============================================================================
