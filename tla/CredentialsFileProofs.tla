---------------------- MODULE CredentialsFileProofs -------------------------
(***************************************************************************)
(* Proofs about CredentialsFile: whichever users there are, a log-out      *)
(* leaves nothing to log in with, and the client logs nobody in as a user  *)
(* who was not the last to log in.                                         *)
(***************************************************************************)
EXTENDS CredentialsFile, TLAPS

\* Who logged in last, by the place in the program.
LoggedIn ==
    /\ page \in {"create", "write", "close", "chat"} => lastLogin # NoUser
    /\ page \in {"create", "write", "close"} => currentUser = lastLogin

\* The stream is closed between two processes, holds something only between a
\* write and the close that follows, and is open only on a file.
StreamInv ==
    /\ page \in {"off", "start"} => ~isOpen
    /\ page # "close" => buffer = NoUser
    /\ buffer # NoUser => buffer = lastLogin
    /\ isOpen => file # Absent
    /\ page = "check" => file # Absent

\* Without a rejected user and a cut-off save, the stream and the file are in
\* one known state at every step of a save.
SaveInv ==
    ~unsure =>
        /\ page \in {"off", "start", "check"} =>
               \/ lastLogin = NoUser /\ file = Absent
               \/ lastLogin # NoUser /\ file = lastLogin
        /\ page = "login" => lastLogin = NoUser /\ file = Absent
        /\ page = "create" => file = Absent
        /\ page = "write" => isOpen /\ ~failbit
        /\ page = "close" => buffer = lastLogin
        /\ page = "chat" => currentUser = lastLogin /\ file = lastLogin

FileInv == TypeOK /\ LoggedIn /\ StreamInv /\ SaveInv /\ LogoutForgets

LEMMA FileInit == Init => FileInv
  BY CredentialsAssumption
  DEF Init, FileInv, TypeOK, Page, FileContent, Absent, Empty, LoggedIn, StreamInv,
      SaveInv, LogoutForgets

LEMMA FileStep == FileInv /\ [Next]_vars => FileInv'
<1> SUFFICES ASSUME FileInv, [Next]_vars PROVE FileInv'
  OBVIOUS
<1> USE CredentialsAssumption
    DEF FileInv, TypeOK, Page, FileContent, Absent, Empty, LoggedIn, StreamInv, SaveInv,
        LogoutForgets, streamVars
<1>1. CASE StartClient
  BY <1>1 DEF StartClient
<1>2. CASE ShowLoginPage
  BY <1>2 DEF ShowLoginPage, OpenExisting
<1>3. CASE ReadSavedUser
  BY <1>3 DEF ReadSavedUser, IsFileExists, OpenExisting
<1>4. CASE AcceptSavedUser
  BY <1>4 DEF AcceptSavedUser, ReadCredentials
<1>5. CASE RejectSavedUser
  BY <1>5 DEF RejectSavedUser
<1>6. ASSUME NEW u \in User, Login(u) PROVE FileInv'
  BY <1>6 DEF Login
<1>7. CASE SaveCreate
  BY <1>7 DEF SaveCreate, CreateNewFile
<1>8. CASE SaveWrite
  BY <1>8 DEF SaveWrite, WriteCredentials
<1>9. CASE SaveClose
  BY <1>9 DEF SaveClose, CloseFile
<1>10. CASE LogOut
  BY <1>10 DEF LogOut, RemoveFile
<1>11. CASE Exit
  BY <1>11 DEF Exit
<1>12. CASE UNCHANGED vars
  BY <1>12 DEF vars
<1> QED
  BY <1>1, <1>2, <1>3, <1>4, <1>5, <1>6, <1>7, <1>8, <1>9, <1>10, <1>11, <1>12 DEF Next

THEOREM Invariance == Spec => []FileInv
  BY FileInit, FileStep, PTL DEF Spec

----------------------------------------------------------------------------
\* Type correctness (userCredentialsFile.cpp:16-108).
THEOREM Typing == Spec => []TypeOK
<1>1. FileInv => TypeOK
  BY DEF FileInv
<1> QED
  BY <1>1, Invariance, PTL

\* After the log-out button nothing is left to log in with
\* (sideBarWidget.cpp:35-40), whatever state the stream was in.
THEOREM LogoutIsFinal == Spec => []LogoutForgets
<1>1. FileInv => LogoutForgets
  BY DEF FileInv
<1> QED
  BY <1>1, Invariance, PTL

\* The chat page belongs to the user who logged in last, and so does the file.
THEOREM LastLoginKept == Spec => []AutoLoginAsLastUser
<1>1. FileInv => AutoLoginAsLastUser
  BY DEF FileInv, SaveInv, AutoLoginAsLastUser
<1> QED
  BY <1>1, Invariance, PTL
=============================================================================
