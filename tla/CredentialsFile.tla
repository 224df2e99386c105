--------------------------- MODULE CredentialsFile --------------------------
(***************************************************************************)
(* UserData::UserCredentialsFile (src/userData/userCredentialsFile.cpp):   *)
(* the file that keeps a user logged in between two runs of the client,    *)
(* and the pages that use it: MainWindow::PreparePage reads it, a          *)
(* successful login or sign-in writes it, the log-out button removes it.   *)
(*                                                                         *)
(* All of them share one static std::fstream.  open() on a stream that is  *)
(* open already fails and sets failbit, a successful open() clears it, and *)
(* write() does nothing while it is set.  What was written reaches the     *)
(* file when the stream is closed, or is lost with the process.            *)
(***************************************************************************)
CONSTANTS
    User,      \* registered users
    Spaced,    \* those with a space in their name or login
    NoUser

VARIABLES
    page,        \* what the client does: a page, or a step on the way to one
    file,        \* whose credentials the file begins with
    isOpen,      \* _credentialsFile.is_open()
    failbit,     \* _credentialsFile.fail()
    buffer,      \* credentials written to the stream and not to the file yet
    currentUser, \* the global of that name
    lastLogin,   \* auxiliary: who logged in last and has not logged out
    unsure       \* auxiliary: since the last log-out the client rejected what the
                 \* file holds, or ended while it saved a login

streamVars == <<file, isOpen, failbit, buffer>>
vars == <<page, file, isOpen, failbit, buffer, currentUser, lastLogin, unsure>>

Absent == "absent"
Empty  == "empty"
FileContent == {Absent, Empty} \cup User

ASSUME CredentialsAssumption ==
    /\ Spaced \subseteq User
    /\ NoUser \notin User
    /\ {Absent, Empty} \cap (User \cup {NoUser}) = {}

Page == {"off", "start", "check", "login", "create", "write", "close", "chat"}

TypeOK ==
    /\ page \in Page
    /\ file \in FileContent
    /\ isOpen \in BOOLEAN
    /\ failbit \in BOOLEAN
    /\ buffer \in User \cup {NoUser}
    /\ currentUser \in User \cup {NoUser}
    /\ lastLogin \in User \cup {NoUser}
    /\ unsure \in BOOLEAN

Init ==
    /\ page = "off"
    /\ file = Absent
    /\ isOpen = FALSE
    /\ failbit = FALSE
    /\ buffer = NoUser
    /\ currentUser = NoUser
    /\ lastLogin = NoUser
    /\ unsure = FALSE

----------------------------------------------------------------------------
(* UserCredentialsFile.                                                    *)

\* open() without trunc needs an existing file and a closed stream.
OpenExisting ==
    /\ isOpen' = (isOpen \/ file # Absent)
    /\ failbit' = (isOpen \/ file = Absent)

\* IsFileExists() opens the file and leaves it open.
IsFileExists == OpenExisting /\ isOpen'

\* CreateNewFile(): trunc is only in the second open(), which is only reached
\* when the file does not exist (or cannot be opened).
CreateNewFile ==
    /\ isOpen' = TRUE
    /\ failbit' = isOpen
    /\ file' = IF ~isOpen /\ file = Absent THEN Empty ELSE file

WriteCredentials(u) == buffer' = IF isOpen /\ ~failbit THEN u ELSE buffer

\* CloseFile(): what the stream holds goes to the beginning of the file.
CloseFile ==
    /\ isOpen' = FALSE
    /\ file' = IF buffer # NoUser THEN buffer ELSE file
    /\ buffer' = NoUser

RemoveFile_IfGood ==
    /\ failbit' = (isOpen \/ file = Absent)
    /\ isOpen' = FALSE
    /\ file' = IF isOpen THEN file ELSE Absent

RemoveFile_KeepsOpen ==
    /\ failbit' = (isOpen \/ file = Absent)
    /\ isOpen' = (isOpen \/ file # Absent)
    /\ file' = Absent

\* RemoveFile() goes by is_open(), which is also true when open() failed on a
\* stream that was open: it closes the stream and removes the file.
RemoveFile ==
    /\ failbit' = (isOpen \/ file = Absent)
    /\ IF isOpen \/ file # Absent THEN isOpen' = FALSE /\ file' = Absent
                                  ELSE UNCHANGED <<isOpen, file>>

\* ReadCredentials() splits at spaces: a name or a login that holds one is
\* taken apart into credentials of nobody; so is an empty file.
ReadCredentials == IF file \in User \ Spaced THEN file ELSE NoUser

----------------------------------------------------------------------------
(* The pages.                                                              *)

StartClient ==
    /\ page = "off"
    /\ page' = "start"
    /\ UNCHANGED <<streamVars, currentUser, lastLogin, unsure>>

\* MainWindow::PreparePage finds no file.
ShowLoginPage ==
    /\ page = "start"
    /\ OpenExisting
    /\ ~isOpen'
    /\ page' = "login"
    /\ UNCHANGED <<file, buffer, currentUser, lastLogin, unsure>>

ReadSavedUser ==
    /\ page = "start"
    /\ IsFileExists
    /\ page' = "check"
    /\ UNCHANGED <<file, buffer, currentUser, lastLogin, unsure>>

\* co_await IsUserExistAsync(user): the user read from the file is accepted, or
\* rejected by the server or by a timeout.
AcceptSavedUser ==
    /\ page = "check"
    /\ ReadCredentials # NoUser
    /\ currentUser' = ReadCredentials
    /\ page' = "chat"
    /\ UNCHANGED <<streamVars, lastLogin, unsure>>

RejectSavedUser ==
    /\ page = "check"
    /\ page' = "login"
    /\ unsure' = TRUE
    /\ UNCHANGED <<streamVars, currentUser, lastLogin>>

\* OnLoginButtonClicked, OnSignInButtonPressed: the server has answered.
Login(u) ==
    /\ page = "login"
    /\ currentUser' = u
    /\ lastLogin' = u
    /\ page' = "create"
    /\ UNCHANGED <<streamVars, unsure>>

SaveCreate ==
    /\ page = "create"
    /\ CreateNewFile
    /\ page' = "write"
    /\ UNCHANGED <<buffer, currentUser, lastLogin, unsure>>

SaveWrite ==
    /\ page = "write"
    /\ WriteCredentials(currentUser)
    /\ page' = "close"
    /\ UNCHANGED <<file, isOpen, failbit, currentUser, lastLogin, unsure>>

SaveClose ==
    /\ page = "close"
    /\ CloseFile
    /\ page' = "chat"
    /\ UNCHANGED <<failbit, currentUser, lastLogin, unsure>>

\* SideBarWidget::OnLogOutButtonPressed.  currentUser keeps its value.
LogOut ==
    /\ page = "chat"
    /\ RemoveFile
    /\ page' = "login"
    /\ lastLogin' = NoUser
    /\ unsure' = FALSE
    /\ UNCHANGED <<buffer, currentUser>>

\* The process ends, at any point.  The destructor of the stream flushes what
\* it holds; a process that is killed loses it.
Exit ==
    /\ page # "off"
    /\ page' = "off"
    /\ \/ file' = IF buffer # NoUser THEN buffer ELSE file
       \/ file' = file
    /\ unsure' = (unsure \/ page \in {"create", "write", "close"})
    /\ isOpen' = FALSE
    /\ failbit' = FALSE
    /\ buffer' = NoUser
    /\ currentUser' = NoUser
    /\ UNCHANGED lastLogin

Next ==
    \/ StartClient
    \/ ShowLoginPage
    \/ ReadSavedUser
    \/ AcceptSavedUser
    \/ RejectSavedUser
    \/ \E u \in User : Login(u)
    \/ SaveCreate
    \/ SaveWrite
    \/ SaveClose
    \/ LogOut
    \/ Exit

Spec == Init /\ [][Next]_vars

----------------------------------------------------------------------------
(* Properties.                                                             *)

\* Nobody is logged in by the file after a log-out, whichever way the user got
\* to the chat page and in whatever state that left the shared stream.
LogoutForgets ==
    page \in {"off", "start", "check", "login"} /\ lastLogin = NoUser => file = Absent

\* Who uses the chat page is who logged in last, and the file that logs a user
\* in at the next start is that user's, unless a saved user was rejected at a
\* start, whose open stream makes the next save fail, or a save was cut off.
AutoLoginAsLastUser ==
    page = "chat" /\ ~unsure => currentUser = lastLogin /\ file = lastLogin

\* What the comment at userCredentialsFile.cpp:35 says: "if file already exist
\* - clear it".
ExistingFileCleared == page = "write" => file = Empty
=============================================================================
