----------------------------- MODULE LoginFlow -----------------------------
(***************************************************************************)
(* How a user gets into the client: MainWindow::PreparePage with the file  *)
(* of saved credentials, LoginPage::OnLoginButtonClicked and               *)
(* SignInPage::OnSignInButtonPressed, and out again by the log-out button. *)
(*                                                                         *)
(* Each of the three is a coroutine that asks the server one thing after   *)
(* another (src/userData/userRepository.cpp).  Its part up to the first    *)
(* co_await runs in the GUI thread and every later part in a detached      *)
(* thread (src/coroutineUtils/coroutineUtils.h), while the buttons stay    *)
(* enabled and the login page is shown from the start.  All attempts share *)
(* the global currentUser and the one connection to the server.            *)
(*                                                                         *)
(* A part is one step.  The stream of the file is CredentialsFile's        *)
(* subject, the wait for a reply ClientConnection's: here a request is     *)
(* answered, times out, or cannot be made.                                 *)
(***************************************************************************)
EXTENDS Naturals

CONSTANTS
    User,         \* a user is told by the login, and has one name and one id
    Password,
    Attempt,      \* BOUND: coroutines of the two pages at once
    StartAttempt, \* the coroutine MainWindow::PreparePage
    InitialUsers, \* users that are registered at the start
    InitialPassword,
    MaxPresses,   \* BOUND: presses of the button on the two pages
    MaxFailures,  \* BOUND: requests that fail while the server runs
    NoUser,       \* 0, the empty string, false: what a timeout returns
    NoPassword,
    NoValue,      \* std::nullopt
    Pending

ASSUME AttemptsAreNumbered == Attempt \subseteq Nat

ASSUME LoginAssumption ==
    /\ StartAttempt \notin Attempt
    /\ InitialUsers \subseteq User /\ InitialPassword \in Password
    /\ {NoUser, NoValue, Pending} \cap User = {}
    /\ NoUser # NoValue /\ NoUser # Pending /\ NoValue # Pending
    /\ NoPassword \notin Password
    /\ {MaxPresses, MaxFailures} \subseteq Nat

VARIABLES
    page,        \* the page that is shown
    currentUser, \* the global of that name
    file,        \* the saved credentials, of nobody if there is no file
    streamOpen,  \* the file's stream is open, so that the next save writes nothing
    attempts,    \* the coroutines
    registered,  \* the server's table of users, by login
    serverUp,
    routed,      \* whom the server's routing table has for this connection
    fromFile,    \* auxiliary: currentUser is the saved user
    presses,     \* counts presses
    failures,    \* counts requests that failed
    incidents    \* auxiliary: what has come in between so far

serverVars == <<registered, serverUp, routed>>
vars == <<page, currentUser, file, streamOpen, attempts, serverVars, fromFile,
          presses, failures, incidents>>

Coroutine == Attempt \cup {StartAttempt}

Profile(id, name, login, password) ==
    [id |-> id, name |-> name, login |-> login, password |-> password]

Nobody == Profile(NoUser, NoUser, NoUser, NoPassword)
ProfileOf(u, password) == Profile(u, u, u, password)

UserOrNone == User \cup {NoUser}
Profiles == [id : UserOrNone, name : UserOrNone, login : UserOrNone,
             password : Password \cup {NoPassword}]

NoRow == [name |-> NoUser, password |-> NoPassword]
Rows == [name : UserOrNone, password : Password \cup {NoPassword}]

Kind == {"login", "signIn", "start"}
Request == {"exist", "push", "id", "name"}
Step == Request \cup {"showChat", "showLogin", "done"}

Coros == [kind : Kind, step : Step, typed : Profiles, pushed : Profiles,
          answer : UserOrNone \cup {NoValue, Pending}, id : UserOrNone \cup {NoValue}]

Incident == {"failed", \* the server could not be reached, or did not answer
             "mixed",  \* an attempt began during one with other credentials
             "twice",  \* an attempt began during one with the same credentials
             "taken"}  \* a sign-in had a login that is taken

TypeOK ==
    /\ page \in {"login", "signIn", "chat"}
    /\ currentUser \in Profiles
    /\ file \in Profiles
    /\ streamOpen \in BOOLEAN
    /\ attempts \in [Coroutine -> Coros]
    /\ registered \in [User -> Rows]
    /\ serverUp \in BOOLEAN
    /\ routed \in UserOrNone
    /\ fromFile \in BOOLEAN
    /\ {presses, failures} \subseteq Nat
    /\ incidents \subseteq Incident

----------------------------------------------------------------------------
(* The coroutines.                                                         *)

\* A coroutine with its local variables: what was typed, or read from the
\* file; what a sign-in sends to be stored; the last answer; the id.
Coro(kind, step, typed) ==
    [kind |-> kind, step |-> step, typed |-> typed, pushed |-> Nobody,
     answer |-> Pending, id |-> NoUser]

Active == {a \in Coroutine : attempts[a].step # "done"}

Asks(a) == attempts[a].step \in Request /\ attempts[a].answer = Pending

Answered(a, kind, step) ==
    attempts[a].kind = kind /\ attempts[a].step = step /\ attempts[a].answer # Pending

Goto(a, step) == attempts' = [attempts EXCEPT ![a].step = step, ![a].answer = Pending]

\* co_return.
Return(a) == attempts' = [attempts EXCEPT ![a] = Coro("login", "done", Nobody)]

Noted(condition, incident) == IF condition THEN {incident} ELSE {}

\* currentUser once the fields are read: the login page leaves the name, and
\* both pages leave the id.
Typed(kind, u, p) ==
    [currentUser EXCEPT !.login = u, !.password = p,
                        !.name = IF kind = "signIn" THEN u ELSE @]

\* OnLoginButtonClicked, OnSignInButtonPressed: no field is empty.  Which of
\* the coroutines that are not there yet begins makes no difference.
Press(a, u, p) ==
    /\ page \in {"login", "signIn"}
    /\ \A b \in Attempt : attempts[b].step = "done" => a <= b
    /\ attempts[a].step = "done"
    /\ presses < MaxPresses
    /\ presses' = presses + 1
    /\ currentUser' = Typed(page, u, p)
    /\ attempts' = [attempts EXCEPT ![a] = Coro(page, "exist", ProfileOf(u, p))]
    /\ incidents' = incidents
           \cup Noted(\E b \in Active : attempts[b].typed # ProfileOf(u, p), "mixed")
           \cup Noted(\E b \in Active : attempts[b].typed = ProfileOf(u, p), "twice")
           \cup Noted(page = "signIn" /\ registered[u] \notin {NoRow, [name |-> u, password |-> p]},
                      "taken")
    /\ UNCHANGED <<page, file, streamOpen, serverVars, fromFile, failures>>

\* DisplaySignInPage, DisplayLoginPage.
SwitchPage ==
    /\ page \in {"login", "signIn"}
    /\ page' = IF page = "login" THEN "signIn" ELSE "login"
    /\ UNCHANGED <<presses, currentUser, file, streamOpen, attempts, serverVars, fromFile,
                   failures, incidents>>

\* CreateNewFile, WriteCredentials, CloseFile with what currentUser will be.
Save ==
    /\ file' = IF streamOpen THEN file ELSE currentUser'
    /\ streamOpen' = FALSE

\* The end of both coroutines: the id, and the login page's name, are set, the
\* credentials saved, and the signal is emitted, which queues DisplayChatPage.
Finish_KeepsId(a, id, name) ==
    /\ currentUser' = [currentUser EXCEPT !.name = name]
    /\ fromFile' = FALSE
    /\ Save
    /\ Goto(a, "showChat")

Finish(a, id, name) ==
    /\ currentUser' = [currentUser EXCEPT !.id = id, !.name = name]
    /\ fromFile' = FALSE
    /\ Save
    /\ Goto(a, "showChat")

\* The rest of MainWindow::PreparePage.
ResumeStart(a) ==
    /\ Answered(a, "start", "exist")
    /\ IF attempts[a].answer \in User
       THEN /\ currentUser' = attempts[a].typed
            /\ fromFile' = TRUE
            /\ Goto(a, "showChat")
       ELSE /\ Goto(a, "showLogin")
            /\ UNCHANGED <<currentUser, fromFile>>
    /\ UNCHANGED <<page, presses, file, streamOpen, serverVars, failures, incidents>>

\* Login: no answer and "false" end the attempt with a message.
ResumeLoginExist(a) ==
    /\ Answered(a, "login", "exist")
    /\ IF attempts[a].answer \in User THEN Goto(a, "id") ELSE Return(a)
    /\ UNCHANGED <<page, presses, currentUser, file, streamOpen, serverVars, fromFile,
                   failures, incidents>>

\* The id is only looked at when the name is there as well.
ResumeLoginId(a) ==
    /\ Answered(a, "login", "id")
    /\ attempts' = [attempts EXCEPT ![a].id = attempts[a].answer, ![a].step = "name",
                                    ![a].answer = Pending]
    /\ UNCHANGED <<page, presses, currentUser, file, streamOpen, serverVars, fromFile,
                   failures, incidents>>

ResumeLoginName(a) ==
    /\ Answered(a, "login", "name")
    /\ IF NoValue \in {attempts[a].id, attempts[a].answer}
       THEN Return(a) /\ UNCHANGED <<currentUser, file, streamOpen, fromFile>>
       ELSE Finish(a, attempts[a].id, attempts[a].answer)
    /\ UNCHANGED <<page, presses, serverVars, failures, incidents>>

ResumeSignInExist_Ignored(a) ==
    /\ Answered(a, "signIn", "exist")
    /\ attempts' = [attempts EXCEPT ![a].step = "push", ![a].answer = Pending,
                                    ![a].pushed = currentUser]
    /\ UNCHANGED <<page, presses, currentUser, file, streamOpen, serverVars, fromFile,
                   failures, incidents>>

\* Sign-in: who exists already does not get in.  What is pushed is what
\* currentUser holds by now.
ResumeSignInExist(a) ==
    /\ Answered(a, "signIn", "exist")
    /\ IF attempts[a].answer = NoUser
       THEN attempts' = [attempts EXCEPT ![a].step = "push", ![a].answer = Pending,
                                         ![a].pushed = currentUser]
       ELSE Return(a)
    /\ UNCHANGED <<page, presses, currentUser, file, streamOpen, serverVars, fromFile,
                   failures, incidents>>

ResumePush(a) ==
    /\ Answered(a, "signIn", "push")
    /\ IF attempts[a].answer \in User THEN Goto(a, "id") ELSE Return(a)
    /\ UNCHANGED <<page, presses, currentUser, file, streamOpen, serverVars, fromFile,
                   failures, incidents>>

ResumeSignInId(a) ==
    /\ Answered(a, "signIn", "id")
    /\ IF attempts[a].answer = NoValue
       THEN Return(a) /\ UNCHANGED <<currentUser, file, streamOpen, fromFile>>
       ELSE Finish(a, attempts[a].answer, currentUser.name)
    /\ UNCHANGED <<page, presses, serverVars, failures, incidents>>

Resume(a) ==
    \/ ResumeStart(a)
    \/ ResumeLoginExist(a) \/ ResumeLoginId(a) \/ ResumeLoginName(a)
    \/ ResumeSignInExist(a) \/ ResumePush(a) \/ ResumeSignInId(a)

\* The queued DisplayChatPage or DisplayLoginPage, whatever is shown by now.
ShowNext(a) ==
    /\ attempts[a].step \in {"showChat", "showLogin"}
    /\ page' = IF attempts[a].step = "showChat" THEN "chat" ELSE "login"
    /\ Return(a)
    /\ UNCHANGED <<presses, currentUser, file, streamOpen, serverVars, fromFile,
                   failures, incidents>>

\* SideBarWidget::OnLogOutButtonPressed, RemoveFile: currentUser and the
\* connection stay as they are.
LogOut ==
    /\ page = "chat"
    /\ page' = "login"
    /\ file' = Nobody
    /\ streamOpen' = FALSE
    /\ UNCHANGED <<presses, currentUser, attempts, serverVars, fromFile, failures,
                   incidents>>

----------------------------------------------------------------------------
(* The server, and what may happen to a request.                           *)

IsRegistered(u, p) == registered[u].name # NoUser /\ registered[u].password = p

Reply(a, answer) == attempts' = [attempts EXCEPT ![a].answer = answer]

\* HandleCheckUserExistence: login and password.
HandleCheckUserExistence(a) ==
    LET c == attempts[a].typed IN
    /\ attempts[a].step = "exist"
    /\ Reply(a, IF IsRegistered(c.login, c.password) THEN c.login ELSE NoUser)
    /\ UNCHANGED serverVars

\* HandleAddUserCredentialsToDatabase: a login that is taken makes INSERT
\* throw, and the handler rethrows: "false" is sent, and the server ends.
HandleAddUserCredentialsToDatabase(a) ==
    LET c == attempts[a].pushed IN
    /\ attempts[a].step = "push"
    /\ IF registered[c.login] = NoRow
       THEN /\ registered' = [registered EXCEPT ![c.login] =
                                  [name |-> c.name, password |-> c.password]]
            /\ Reply(a, c.login)
            /\ UNCHANGED serverUp
       ELSE /\ serverUp' = FALSE
            /\ Reply(a, NoUser)
            /\ UNCHANGED registered
    /\ UNCHANGED routed

HandleGetUserId_KeepsEntry(a) ==
    LET u == attempts[a].typed.login
        id == IF registered[u] = NoRow THEN NoUser ELSE u
    IN
    /\ attempts[a].step = "id"
    /\ Reply(a, id)
    /\ routed' = IF routed = NoUser THEN id ELSE routed
    /\ UNCHANGED <<registered, serverUp>>

\* HandleGetUserIdFromDatabase: the only request that routes messages here.
HandleGetUserIdFromDatabase(a) ==
    LET u == attempts[a].typed.login
        id == IF registered[u] = NoRow THEN NoUser ELSE u
    IN
    /\ attempts[a].step = "id"
    /\ Reply(a, id)
    /\ routed' = id
    /\ UNCHANGED <<registered, serverUp>>

HandleGetUserNameFromDatabase(a) ==
    /\ attempts[a].step = "name"
    /\ Reply(a, registered[attempts[a].typed.login].name)
    /\ UNCHANGED serverVars

Serve(a) ==
    /\ serverUp /\ Asks(a)
    /\ \/ HandleCheckUserExistence(a)
       \/ HandleAddUserCredentialsToDatabase(a)
       \/ HandleGetUserIdFromDatabase(a)
       \/ HandleGetUserNameFromDatabase(a)
    /\ UNCHANGED <<page, presses, currentUser, file, streamOpen, fromFile, failures, incidents>>

Fail ==
    /\ serverUp => failures < MaxFailures
    /\ failures' = IF serverUp THEN failures + 1 ELSE failures
    /\ incidents' = incidents \cup {"failed"}

TimeOut_OnlyName(a) ==
    /\ Asks(a) /\ serverUp /\ attempts[a].step = "name"
    /\ attempts' = [attempts EXCEPT ![a].answer = NoUser]
    /\ routed' = NoUser
    /\ Fail
    /\ UNCHANGED <<page, presses, currentUser, file, streamOpen, registered, serverUp, fromFile>>

\* The request, or its reply, is lost, or comes too late.  The reply is the
\* default value, and the next request opens another connection.
TimeOut(a) ==
    /\ Asks(a)
    /\ attempts' = [attempts EXCEPT ![a].answer = NoUser]
    /\ \/ UNCHANGED registered
       \/ LET c == attempts[a].pushed IN
          /\ serverUp /\ attempts[a].step = "push" /\ registered[c.login] = NoRow
          /\ registered' = [registered EXCEPT ![c.login] =
                                [name |-> c.name, password |-> c.password]]
    /\ routed' = NoUser
    /\ Fail
    /\ UNCHANGED <<page, presses, currentUser, file, streamOpen, serverUp, fromFile>>

\* GetInstance() has no connection.
CannotAsk(a) ==
    /\ Asks(a)
    /\ attempts' = [attempts EXCEPT ![a].answer = NoValue]
    /\ Fail
    /\ UNCHANGED <<page, presses, currentUser, file, streamOpen, serverVars, fromFile>>

----------------------------------------------------------------------------
\* main.cpp, MainWindow's constructor, with a server that can be reached: there
\* is a file or not, of someone with the right or another password.
Init ==
    /\ page = "login"
    /\ currentUser = Nobody
    /\ file \in {Nobody} \cup {ProfileOf(u, p) : u \in User, p \in Password}
    /\ streamOpen = (file # Nobody)
    /\ attempts = [a \in Coroutine |->
           IF a = StartAttempt /\ file # Nobody THEN Coro("start", "exist", file)
           ELSE Coro("login", "done", Nobody)]
    /\ registered = [u \in User |->
           IF u \in InitialUsers THEN [name |-> u, password |-> InitialPassword] ELSE NoRow]
    /\ serverUp = TRUE
    /\ routed = NoUser
    /\ fromFile = FALSE
    /\ presses = 0
    /\ failures = 0
    /\ incidents = {}

Next ==
    \/ \E a \in Attempt, u \in User, p \in Password : Press(a, u, p)
    \/ SwitchPage
    \/ LogOut
    \/ \E a \in Coroutine :
          Resume(a) \/ ShowNext(a) \/ Serve(a) \/ TimeOut(a) \/ CannotAsk(a)

Spec == Init /\ [][Next]_vars

\* A coroutine goes on: its request is answered or times out, and its thread
\* and its queued call run.  Nothing is asked of the user.
FairSpec ==
    Spec /\ \A a \in Coroutine : WF_vars(Serve(a) \/ TimeOut(a) \/ Resume(a) \/ ShowNext(a))

----------------------------------------------------------------------------
(* Properties.                                                             *)

IsOneUser(profile) == profile \in {ProfileOf(u, p) : u \in User, p \in Password}

\* Who uses the chat page is one registered user with the id, name, login and
\* password of that user, and so is what the file holds, although currentUser
\* is filled field by field between answers of the server and keeps what an
\* earlier user left in it (loginPage.cpp:73-118, signInPage.cpp:88-158):
\* unless attempts with different credentials overlapped, or a request failed.
OneUser ==
    incidents \cap {"mixed", "failed"} = {} =>
        /\ file # Nobody => IsOneUser(file)
        /\ page = "chat" =>
              IsOneUser(currentUser) /\ IsRegistered(currentUser.login, currentUser.password)

\* A user who has logged in or signed in is the one the server forwards
\* messages to on this connection.  A user who came from the file has not asked
\* for the id, which is what routes them (mainWindow.cpp:71-80).
ReceivesAsCurrentUser ==
    page = "chat" /\ ~fromFile /\ incidents \cap {"mixed", "failed"} = {} =>
        routed = currentUser.id

\* The server outlives every sign-in, although a login that is there already
\* ends it (server.cpp:406): the question before it is enough unless another
\* password came with the login, two attempts overlapped or an answer was lost.
ServerSurvives == incidents = {} => serverUp

\* Attempts end, with a page or a message, however their requests fare: as the
\* presses are bounded, there comes a time when none is left.
AttemptsEnd == []<>(Active = {})
=============================================================================
