-------------------------- MODULE LoginFlowProofs ---------------------------
(***************************************************************************)
(* Proofs about LoginFlow: its types; that one registered user is shown,   *)
(* saved and routed as long as attempts with different credentials do not  *)
(* overlap and no request fails; and that the server survives, for any     *)
(* users, coroutines, presses and failures.                                *)
(***************************************************************************)
EXTENDS LoginFlow, TLAPS

Clean == incidents \cap {"mixed", "failed"} = {}

HasRow(rows, u, p) == rows[u] = [name |-> u, password |-> p]

\* What a coroutine for u and p knows, while nothing interfered: currentUser (now)
\* has the credentials, who was answered for is registered (in rows), and once
\* there is an id the server routes to it.
Knows(c, u, p, now, rows, to) ==
    /\ c.typed = ProfileOf(u, p)
    /\ c.kind # "start" => now.login = u /\ now.password = p
    /\ c.kind = "signIn" => now.name = u
    /\ c.step \in {"exist", "push"} /\ c.answer \in User => HasRow(rows, u, p)
    /\ c.step = "push" =>
          c.pushed.name = u /\ c.pushed.login = u /\ c.pushed.password = p
    /\ c.step \in {"id", "name", "showChat"} => HasRow(rows, u, p)
    /\ c.step = "id" /\ c.answer # Pending => c.answer = u /\ to = u
    /\ c.step = "name" => c.id = u /\ to = u /\ c.answer \in {Pending, u}
    /\ c.step = "showChat" => now = ProfileOf(u, p)

\* A coroutine that runs has somebody's credentials.
TypedInv ==
    \A a \in Coroutine : attempts[a].step # "done" =>
        \E u \in User, p \in Password : attempts[a].typed = ProfileOf(u, p)

\* Whoever is on the way in is the same user, and so is who is in.
AllFor(u, p) ==
    /\ \A a \in Coroutine : attempts[a].step # "done" =>
          Knows(attempts[a], u, p, currentUser, registered, routed)
    /\ page = "chat" => currentUser = ProfileOf(u, p) /\ HasRow(registered, u, p)

NamesKept == \A u \in User : registered[u].name \in {u, NoUser}

FileOfOne == file = Nobody \/ \E u \in User, p \in Password : file = ProfileOf(u, p)

Shown == page = "chat" \/ \E a \in Coroutine : attempts[a].step = "showChat"

FlowInv ==
    Clean =>
        /\ page = "chat" \/ (\E a \in Coroutine : attempts[a].step # "done") =>
              \E u \in User, p \in Password : AllFor(u, p)
        /\ NamesKept
        /\ FileOfOne
        /\ Shown /\ ~fromFile => routed = currentUser.id

\* Alone, a sign-in finds its login free or its own, and stores it only if free.
FreeFor(c, rows) ==
    LET u == c.typed.login IN
    /\ c.kind = "signIn" => rows[u] = NoRow \/ HasRow(rows, u, c.typed.password)
    /\ c.kind = "signIn" /\ c.step = "exist" /\ c.answer = NoUser => rows[u] = NoRow
    /\ c.step = "push" => c.kind = "signIn"
    /\ c.step = "push" /\ c.answer = Pending => rows[u] = NoRow

ServerInv ==
    incidents = {} =>
        /\ serverUp
        /\ \A a, b \in Active : a = b
        /\ \A a \in Active : FreeFor(attempts[a], registered)

LoginInv == TypeOK /\ TypedInv /\ FlowInv /\ ServerInv

----------------------------------------------------------------------------
LEMMA ProfileTypes ==
    /\ Nobody \in Profiles
    /\ \A u \in User, p \in Password : ProfileOf(u, p) \in Profiles
    /\ \A kind \in Kind, step \in Step, typed \in Profiles :
          Coro(kind, step, typed) \in Coros
<1>1. Nobody \in Profiles
  BY DEF Nobody, Profile, Profiles, UserOrNone
<1>2. \A u \in User, p \in Password : ProfileOf(u, p) \in Profiles
  BY DEF ProfileOf, Profile, Profiles, UserOrNone
<1> QED
  BY <1>1, <1>2 DEF Coro, Coros, UserOrNone

LEMMA InitInv == Init => LoginInv
<1> SUFFICES ASSUME Init PROVE LoginInv
  OBVIOUS
<1> USE LoginAssumption DEF Init
<1>1. file \in Profiles /\ FileOfOne
  BY ProfileTypes DEF FileOfOne
<1>2. attempts \in [Coroutine -> Coros]
  <2>1. Coro("start", "exist", file) \in Coros /\ Coro("login", "done", Nobody) \in Coros
    BY <1>1, ProfileTypes DEF Kind, Step, Request
  <2> QED
    BY <2>1
<1>3. registered \in [User -> Rows] /\ NamesKept
  BY DEF Rows, NoRow, UserOrNone, NamesKept
<1>4. TypeOK
  <2>1. /\ page \in {"login", "signIn", "chat"} /\ currentUser \in Profiles
        /\ serverUp \in BOOLEAN /\ fromFile \in BOOLEAN /\ routed \in UserOrNone
    BY ProfileTypes DEF UserOrNone
  <2>2. streamOpen \in BOOLEAN
    OBVIOUS
  <2>3. {presses, failures} \subseteq Nat /\ incidents \subseteq Incident
    OBVIOUS
  <2> QED
    BY <1>1, <1>2, <1>3, <2>1, <2>2, <2>3 DEF TypeOK
<1>5. \A a \in Coroutine :
         attempts[a].step # "done" =>
             /\ a = StartAttempt /\ file # Nobody
             /\ attempts[a] = Coro("start", "exist", file)
  BY DEF Coro
<1>6. FlowInv
  <2>1. ~Shown
    BY <1>5 DEF Shown, Coro
  <2>2. ASSUME NEW a \in Coroutine, attempts[a].step # "done"
        PROVE  \E u \in User, p \in Password : AllFor(u, p)
    <3>1. PICK u \in User, p \in Password : file = ProfileOf(u, p)
      BY <1>1, <1>5, <2>2 DEF FileOfOne
    <3>2. \A b \in Coroutine : attempts[b].step # "done" =>
             Knows(attempts[b], u, p, currentUser, registered, routed)
      BY <1>5, <3>1 DEF Knows, Coro
    <3> QED
      BY ZenonT(60), <3>1, <3>2 DEF AllFor
  <2> QED
    BY <1>1, <1>3, <2>1, <2>2 DEF FlowInv
<1>7. ServerInv
  BY <1>5 DEF ServerInv, Active, FreeFor, Coro
<1>8. TypedInv
  BY <1>1, <1>5 DEF TypedInv, FileOfOne, Coro
<1> QED
  BY <1>4, <1>6, <1>7, <1>8 DEF LoginInv

----------------------------------------------------------------------------
(* Types.                                                                  *)

LEMMA GotoTypes ==
    ASSUME TypeOK, NEW a \in Coroutine, NEW step \in Step, Goto(a, step)
    PROVE  attempts' \in [Coroutine -> Coros]
BY ZenonT(60) DEF Goto, TypeOK, Coros

LEMMA ReturnTypes ==
    ASSUME TypeOK, NEW a \in Coroutine, Return(a)
    PROVE  attempts' \in [Coroutine -> Coros]
<1>1. Coro("login", "done", Nobody) \in Coros
  BY ProfileTypes DEF Kind, Step
<1> QED
  BY <1>1 DEF Return, TypeOK

LEMMA ReplyTypes ==
    ASSUME TypeOK, NEW a \in Coroutine, NEW x \in UserOrNone \cup {NoValue}, Reply(a, x)
    PROVE  attempts' \in [Coroutine -> Coros]
BY DEF Reply, TypeOK, Coros

LEMMA FinishTypes ==
    ASSUME TypeOK, NEW a \in Coroutine, NEW id \in UserOrNone, NEW name \in UserOrNone,
           Finish(a, id, name)
    PROVE  /\ attempts' \in [Coroutine -> Coros]
           /\ currentUser' \in Profiles /\ file' \in Profiles
           /\ streamOpen' \in BOOLEAN /\ fromFile' \in BOOLEAN
<1>1. attempts' \in [Coroutine -> Coros]
  BY GotoTypes DEF Finish, Step
<1>2. currentUser' \in Profiles
  BY DEF Finish, TypeOK, Profiles
<1> QED
  BY <1>1, <1>2 DEF Finish, Save, TypeOK

\* A push makes a row.
LEMMA RowTypes ==
    ASSUME TypeOK, NEW a \in Coroutine, NEW u
    PROVE  [registered EXCEPT ![u] = [name |-> attempts[a].pushed.name,
                                      password |-> attempts[a].pushed.password]]
               \in [User -> Rows]
BY DEF TypeOK, Coros, Profiles, Rows

LEMMA TypeStep == TypeOK /\ TypedInv /\ [Next]_vars => TypeOK'
<1> SUFFICES ASSUME TypeOK, TypedInv, [Next]_vars PROVE TypeOK'
  OBVIOUS
<1>1. ASSUME NEW a \in Attempt, NEW u \in User, NEW p \in Password, Press(a, u, p)
      PROVE  TypeOK'
  <2>1. a \in Coroutine /\ page \in Kind /\ ProfileOf(u, p) \in Profiles
    BY <1>1, ProfileTypes DEF Coroutine, Press, Kind
  <2>2. Coro(page, "exist", ProfileOf(u, p)) \in Coros
    BY <2>1, ProfileTypes DEF Step, Request
  <2>3. attempts' \in [Coroutine -> Coros]
    BY <1>1, <2>1, <2>2 DEF Press, TypeOK
  <2>4. currentUser' \in Profiles
    BY <1>1 DEF Press, Typed, TypeOK, Profiles, UserOrNone
  <2>5. incidents' \subseteq Incident
    BY <1>1 DEF Press, Noted, TypeOK, Incident
  <2>6. presses' \in Nat
    BY <1>1 DEF Press, TypeOK
  <2> QED
    BY <1>1, <2>3, <2>4, <2>5, <2>6 DEF Press, TypeOK, serverVars
<1>2. CASE SwitchPage
  BY <1>2 DEF SwitchPage, TypeOK, serverVars
<1>3. CASE LogOut
  BY <1>3, ProfileTypes DEF LogOut, TypeOK, serverVars
<1>4. ASSUME NEW a \in Coroutine, ResumeStart(a) PROVE TypeOK'
  <2>1. attempts' \in [Coroutine -> Coros]
    BY <1>4, GotoTypes DEF ResumeStart, Step
  <2>2. currentUser' \in Profiles /\ fromFile' \in BOOLEAN
    BY <1>4 DEF ResumeStart, TypeOK, Coros
  <2> QED
    BY <1>4, <2>1, <2>2 DEF ResumeStart, TypeOK, serverVars
<1>5. ASSUME NEW a \in Coroutine, ResumeLoginExist(a) \/ ResumePush(a) PROVE TypeOK'
  <2>1. attempts' \in [Coroutine -> Coros]
    BY <1>5, GotoTypes, ReturnTypes DEF ResumeLoginExist, ResumePush, Step, Request
  <2> QED
    BY <1>5, <2>1 DEF ResumeLoginExist, ResumePush, TypeOK, serverVars
<1>6. ASSUME NEW a \in Coroutine, ResumeLoginId(a) PROVE TypeOK'
  <2>1. attempts' \in [Coroutine -> Coros]
    BY <1>6 DEF ResumeLoginId, Answered, TypeOK, Coros, Step, Request
  <2> QED
    BY <1>6, <2>1 DEF ResumeLoginId, TypeOK, serverVars
<1>7. ASSUME NEW a \in Coroutine, ResumeLoginName(a) PROVE TypeOK'
  <2>1. CASE Return(a) /\ UNCHANGED <<currentUser, file, streamOpen, fromFile>>
    BY <1>7, <2>1, ReturnTypes DEF ResumeLoginName, TypeOK, serverVars
  <2>2. CASE ~(NoValue \in {attempts[a].id, attempts[a].answer})
    <3>1. attempts[a].id \in UserOrNone /\ attempts[a].answer \in UserOrNone
      BY <1>7, <2>2 DEF ResumeLoginName, Answered, TypeOK, Coros
    <3> QED
      BY <1>7, <2>2, <3>1, FinishTypes DEF ResumeLoginName, TypeOK, serverVars
  <2> QED
    BY <1>7, <2>1, <2>2 DEF ResumeLoginName
<1>8. ASSUME NEW a \in Coroutine, ResumeSignInExist(a) PROVE TypeOK'
  <2>1. attempts' \in [Coroutine -> Coros]
    <3>1. CASE Return(a)
      BY <3>1, ReturnTypes
    <3>2. CASE attempts' = [attempts EXCEPT ![a].step = "push", ![a].answer = Pending,
                                            ![a].pushed = currentUser]
      <4>1. [attempts[a] EXCEPT !.step = "push", !.answer = Pending, !.pushed = currentUser]
                \in Coros
        BY DEF TypeOK, Coros, Step, Request
      <4> QED
        BY <3>2, <4>1 DEF TypeOK
    <3> QED
      BY <1>8, <3>1, <3>2 DEF ResumeSignInExist
  <2> QED
    BY <1>8, <2>1 DEF ResumeSignInExist, TypeOK, serverVars
<1>9. ASSUME NEW a \in Coroutine, ResumeSignInId(a) PROVE TypeOK'
  <2>1. CASE Return(a) /\ UNCHANGED <<currentUser, file, streamOpen, fromFile>>
    BY <1>9, <2>1, ReturnTypes DEF ResumeSignInId, TypeOK, serverVars
  <2>2. CASE attempts[a].answer # NoValue
    <3>1. attempts[a].answer \in UserOrNone /\ currentUser.name \in UserOrNone
      BY <1>9, <2>2 DEF ResumeSignInId, Answered, TypeOK, Coros, Profiles
    <3> QED
      BY <1>9, <2>2, <3>1, FinishTypes DEF ResumeSignInId, TypeOK, serverVars
  <2> QED
    BY <1>9, <2>1, <2>2 DEF ResumeSignInId
<1>10. ASSUME NEW a \in Coroutine, ShowNext(a) PROVE TypeOK'
  BY <1>10, ReturnTypes DEF ShowNext, TypeOK, serverVars
<1>11. ASSUME NEW a \in Coroutine, Serve(a) PROVE TypeOK'
  <2>1. CASE HandleCheckUserExistence(a)
    <3>1. attempts' \in [Coroutine -> Coros]
      BY <2>1, ReplyTypes DEF HandleCheckUserExistence, TypeOK, Coros, Profiles, UserOrNone
    <3> QED
      BY <1>11, <2>1, <3>1 DEF Serve, HandleCheckUserExistence, TypeOK, serverVars
  <2>2. CASE HandleAddUserCredentialsToDatabase(a)
    <3>1. attempts' \in [Coroutine -> Coros]
      BY <2>2, ReplyTypes
         DEF HandleAddUserCredentialsToDatabase, TypeOK, Coros, Profiles, UserOrNone
    <3>2. registered' \in [User -> Rows] /\ serverUp' \in BOOLEAN
      <4>1. CASE registered[attempts[a].pushed.login] = NoRow
        BY <2>2, <4>1, RowTypes DEF HandleAddUserCredentialsToDatabase, TypeOK
      <4>2. CASE registered[attempts[a].pushed.login] # NoRow
        BY <2>2, <4>2 DEF HandleAddUserCredentialsToDatabase, TypeOK
      <4> QED
        BY <4>1, <4>2
    <3> QED
      BY <1>11, <2>2, <3>1, <3>2 DEF Serve, HandleAddUserCredentialsToDatabase, TypeOK
  <2>3. CASE HandleGetUserIdFromDatabase(a)
    <3>1. attempts' \in [Coroutine -> Coros] /\ routed' \in UserOrNone
      BY <2>3, ReplyTypes
         DEF HandleGetUserIdFromDatabase, TypeOK, Coros, Profiles, UserOrNone
    <3> QED
      BY <1>11, <2>3, <3>1 DEF Serve, HandleGetUserIdFromDatabase, TypeOK
  <2>4. CASE HandleGetUserNameFromDatabase(a)
    <3>1. attempts[a].typed.login \in User
      <4>1. PICK u \in User, p \in Password : attempts[a].typed = ProfileOf(u, p)
        BY <2>4 DEF HandleGetUserNameFromDatabase, TypedInv
      <4> QED
        BY <4>1 DEF ProfileOf, Profile
    <3>2. registered[attempts[a].typed.login].name \in UserOrNone
      BY <3>1 DEF TypeOK, Rows
    <3>3. attempts' \in [Coroutine -> Coros]
      BY <2>4, <3>2, ReplyTypes DEF HandleGetUserNameFromDatabase
    <3> QED
      BY <1>11, <2>4, <3>3 DEF Serve, HandleGetUserNameFromDatabase, TypeOK, serverVars
  <2> QED
    BY <1>11, <2>1, <2>2, <2>3, <2>4 DEF Serve
<1>12. ASSUME Fail PROVE failures' \in Nat /\ incidents' \subseteq Incident
  BY <1>12 DEF Fail, TypeOK, Incident
<1>13. ASSUME NEW a \in Coroutine, TimeOut(a) PROVE TypeOK'
  <2>1. attempts' \in [Coroutine -> Coros] /\ routed' \in UserOrNone
    BY <1>13, ReplyTypes DEF TimeOut, Reply, UserOrNone
  <2>2. registered' \in [User -> Rows]
    BY <1>13, RowTypes DEF TimeOut, TypeOK
  <2> QED
    BY <1>12, <1>13, <2>1, <2>2 DEF TimeOut, TypeOK
<1>14. ASSUME NEW a \in Coroutine, CannotAsk(a) PROVE TypeOK'
  <2>1. attempts' \in [Coroutine -> Coros]
    BY <1>14, ReplyTypes DEF CannotAsk, Reply
  <2> QED
    BY <1>12, <1>14, <2>1 DEF CannotAsk, TypeOK, serverVars
<1>15. CASE UNCHANGED vars
  BY <1>15 DEF vars, TypeOK, serverVars
<1> QED
  BY <1>1, <1>2, <1>3, <1>4, <1>5, <1>6, <1>7, <1>8, <1>9, <1>10, <1>11, <1>13, <1>14, <1>15
     DEF Next, Resume

\* Only the pressed coroutine gets other credentials.
LEMMA TypedStep == TypeOK /\ TypedInv /\ [Next]_vars => TypedInv'
<1> SUFFICES ASSUME TypeOK, TypedInv, [Next]_vars PROVE TypedInv'
  OBVIOUS
<1>1. ASSUME NEW a \in Attempt, NEW u \in User, NEW p \in Password, Press(a, u, p)
      PROVE  TypedInv'
  BY <1>1 DEF Press, TypedInv, Coro, TypeOK
<1>2. ASSUME NEW a \in Coroutine,
             attempts' = [attempts EXCEPT ![a] = attempts'[a]],
             attempts'[a].step # "done" =>
                 attempts[a].step # "done" /\ attempts'[a].typed = attempts[a].typed
      PROVE  TypedInv'
  BY <1>2 DEF TypedInv, TypeOK
<1>3. CASE UNCHANGED attempts
  BY <1>3 DEF TypedInv
<1>4. ASSUME NEW a \in Coroutine, NEW step \in Step, Goto(a, step), attempts[a].step # "done"
      PROVE  TypedInv'
  BY ZenonT(60), <1>2, <1>4 DEF Goto, TypeOK, Coros
<1>5. ASSUME NEW a \in Coroutine, Return(a) PROVE TypedInv'
  BY <1>2, <1>5 DEF Return, Coro, TypeOK
<1>6. ASSUME NEW a \in Coroutine, NEW x, Reply(a, x), attempts[a].step # "done"
      PROVE  TypedInv'
  BY <1>2, <1>6 DEF Reply, TypeOK, Coros
<1>7. ASSUME NEW a \in Coroutine, Resume(a) PROVE TypedInv'
  <2>1. attempts[a].step # "done"
    BY <1>7 DEF Resume, ResumeStart, ResumeLoginExist, ResumeLoginId, ResumeLoginName,
                ResumeSignInExist, ResumePush, ResumeSignInId, Answered
  <2>2. CASE ResumeLoginId(a)
    <3>1. attempts' = [attempts EXCEPT ![a] = [attempts[a] EXCEPT
                           !.id = attempts[a].answer, !.step = "name", !.answer = Pending]]
      BY <2>2 DEF ResumeLoginId, TypeOK
    <3> QED
      BY ZenonT(60), <1>2, <2>1, <3>1 DEF TypeOK, Coros
  <2>3. CASE ResumeSignInExist(a)
    BY <1>2, <1>5, <2>1, <2>3 DEF ResumeSignInExist, TypeOK, Coros
  <2>4. CASE ResumeLoginName(a) \/ ResumeSignInId(a)
    BY <1>4, <1>5, <2>1, <2>4 DEF ResumeLoginName, ResumeSignInId, Finish, Step
  <2>5. CASE ResumeStart(a) \/ ResumeLoginExist(a) \/ ResumePush(a)
    BY <1>4, <1>5, <2>1, <2>5
       DEF ResumeStart, ResumeLoginExist, ResumePush, Step, Request
  <2> QED
    BY <1>7, <2>2, <2>3, <2>4, <2>5 DEF Resume
<1>8. ASSUME NEW a \in Coroutine, Serve(a) \/ TimeOut(a) \/ CannotAsk(a) PROVE TypedInv'
  <2>1. attempts[a].step # "done"
    BY <1>8 DEF Serve, TimeOut, CannotAsk, Asks, Request
  <2>2. PICK x : Reply(a, x)
    BY <1>8 DEF Serve, TimeOut, CannotAsk, HandleCheckUserExistence, Reply,
                HandleAddUserCredentialsToDatabase, HandleGetUserIdFromDatabase,
                HandleGetUserNameFromDatabase
  <2> QED
    BY <1>6, <2>1, <2>2
<1>9. ASSUME NEW a \in Coroutine, ShowNext(a) PROVE TypedInv'
  BY <1>5, <1>9 DEF ShowNext
<1> QED
  BY <1>1, <1>3, <1>7, <1>8, <1>9 DEF Next, SwitchPage, LogOut, vars

----------------------------------------------------------------------------
(* One user.                                                               *)

LEMMA KnowsKept ==
    ASSUME NEW c, NEW u, NEW p, NEW now, NEW now2, NEW rows, NEW rows2, NEW to, NEW to2,
           Knows(c, u, p, now, rows, to),
           HasRow(rows, u, p) => HasRow(rows2, u, p),
           to2 = to \/ to2 = u,
           now2 = now \/ now2 = ProfileOf(u, p)
    PROVE  Knows(c, u, p, now2, rows2, to2)
BY DEF Knows, ProfileOf, Profile

\* A coroutine moves on, and what it changes is about its own user.
LEMMA MoveInv ==
    ASSUME TypeOK, FlowInv, Clean, NEW a \in Coroutine, NEW x \in Coros,
           NEW u \in User, NEW p \in Password, AllFor(u, p),
           attempts[a].step # "done",
           attempts' = [attempts EXCEPT ![a] = x],
           x.step # "done" => Knows(x, u, p, currentUser', registered', routed'),
           HasRow(registered, u, p) => HasRow(registered', u, p),
           routed' = routed \/ routed' = u,
           currentUser' = currentUser \/ currentUser' = ProfileOf(u, p),
           page' = "chat" => page = "chat" \/ attempts[a].step = "showChat",
           \/ fromFile'
           \/ currentUser' = ProfileOf(u, p) /\ routed' = u
           \/ /\ UNCHANGED <<currentUser, fromFile>>
              /\ x.step = "showChat" => attempts[a].step = "showChat",
           NamesKept', FileOfOne'
    PROVE  FlowInv'
<1>1. \A b \in Coroutine : attempts'[b] = IF b = a THEN x ELSE attempts[b]
  BY DEF TypeOK
<1>2. Knows(attempts[a], u, p, currentUser, registered, routed)
  BY DEF AllFor
<1>3. AllFor(u, p)'
  <2>1. ASSUME NEW b \in Coroutine, attempts'[b].step # "done"
        PROVE  Knows(attempts'[b], u, p, currentUser', registered', routed')
    <3>1. CASE b = a
      BY <1>1, <2>1, <3>1
    <3>2. CASE b # a
      <4>1. Knows(attempts[b], u, p, currentUser, registered, routed)
        BY <1>1, <2>1, <3>2 DEF AllFor
      <4> QED
        BY <1>1, <3>2, <4>1, KnowsKept
    <3> QED
      BY <3>1, <3>2
  <2>2. page' = "chat" => currentUser' = ProfileOf(u, p) /\ HasRow(registered', u, p)
    BY <1>2 DEF AllFor, Knows
  <2> QED
    BY <2>1, <2>2 DEF AllFor
<1>4. Shown' /\ ~fromFile' => routed' = currentUser'.id
  <2>1. CASE currentUser' = ProfileOf(u, p) /\ routed' = u
    BY <2>1 DEF ProfileOf, Profile
  <2>2. CASE /\ UNCHANGED <<currentUser, fromFile>>
             /\ x.step = "showChat" => attempts[a].step = "showChat"
    <3>1. Shown' => Shown /\ currentUser = ProfileOf(u, p)
      BY <1>1, <2>2 DEF Shown, AllFor, Knows
    <3> QED
      BY <2>2, <3>1 DEF FlowInv, ProfileOf, Profile
  <2> QED
    BY <2>1, <2>2
<1> QED
  BY <1>3, <1>4 DEF FlowInv

\* A coroutine that runs has a user, and so have all others.
LEMMA SomeUser ==
    ASSUME FlowInv, Clean, NEW a \in Coroutine, attempts[a].step # "done"
    PROVE  \E u \in User, p \in Password :
              /\ AllFor(u, p)
              /\ Knows(attempts[a], u, p, currentUser, registered, routed)
BY DEF FlowInv, AllFor

\* Some steps leave all but the coroutine alone.
LEMMA MoveAlone ==
    ASSUME TypeOK, FlowInv, Clean, NEW a \in Coroutine, NEW x \in Coros,
           NEW u \in User, NEW p \in Password, AllFor(u, p),
           attempts[a].step # "done",
           attempts' = [attempts EXCEPT ![a] = x],
           x.step # "done" => Knows(x, u, p, currentUser, registered, routed),
           x.step = "showChat" => attempts[a].step = "showChat",
           UNCHANGED <<page, currentUser, file, registered, routed, fromFile>>
    PROVE  FlowInv'
<1>1. NamesKept' /\ FileOfOne'
  BY DEF FlowInv, NamesKept, FileOfOne
<1> QED
  BY <1>1, MoveInv

LEMMA ReturnInv ==
    ASSUME TypeOK, FlowInv, Clean, NEW a \in Coroutine, attempts[a].step # "done", Return(a),
           UNCHANGED <<page, currentUser, file, registered, routed, fromFile>>
    PROVE  FlowInv'
<1>1. PICK u \in User, p \in Password : AllFor(u, p)
  BY SomeUser
<1>2. Coro("login", "done", Nobody) \in Coros /\ Coro("login", "done", Nobody).step = "done"
  BY ProfileTypes DEF Kind, Step, Coro
<1> QED
  BY <1>1, <1>2, MoveAlone DEF Return

\* The end of both pages' coroutines.
LEMMA FinishInv ==
    ASSUME TypeOK, FlowInv, Clean, NEW a \in Coroutine, NEW u \in User, NEW p \in Password,
           AllFor(u, p), Knows(attempts[a], u, p, currentUser, registered, routed),
           attempts[a].step \in {"id", "name"}, attempts[a].kind # "start",
           routed = u, Finish(a, u, u), UNCHANGED <<page, registered, routed>>
    PROVE  FlowInv'
<1> DEFINE x == [attempts[a] EXCEPT !.step = "showChat", !.answer = Pending]
<1>1. x \in Coros /\ attempts' = [attempts EXCEPT ![a] = x]
  BY DEF Finish, Goto, TypeOK, Coros, Step
<1>2. currentUser' = ProfileOf(u, p)
  BY DEF Finish, Knows, TypeOK, Profiles, ProfileOf, Profile
<1>3. x.typed = ProfileOf(u, p) /\ x.step = "showChat" /\ HasRow(registered, u, p)
  BY DEF Knows, TypeOK, Coros
<1>4. Knows(x, u, p, currentUser', registered', routed')
  BY <1>2, <1>3 DEF Knows, ProfileOf, Profile
<1>5. NamesKept' /\ FileOfOne'
  BY <1>2 DEF Finish, Save, FlowInv, NamesKept, FileOfOne
<1> HIDE DEF x
<1> QED
  BY <1>1, <1>2, <1>4, <1>5, MoveInv

LEMMA ResumeInv ==
    ASSUME TypeOK, FlowInv, Clean, NEW a \in Coroutine, Resume(a)
    PROVE  FlowInv'
<1>1. attempts[a].step # "done"
  BY DEF Resume, ResumeStart, ResumeLoginExist, ResumeLoginId, ResumeLoginName,
         ResumeSignInExist, ResumePush, ResumeSignInId, Answered
<1>2. PICK u \in User, p \in Password :
         /\ AllFor(u, p)
         /\ Knows(attempts[a], u, p, currentUser, registered, routed)
  BY <1>1, SomeUser
<1>3. ASSUME NEW step \in Step, Goto(a, step)
      PROVE  /\ [attempts[a] EXCEPT !.step = step, !.answer = Pending] \in Coros
             /\ attempts' = [attempts EXCEPT ![a] =
                    [attempts[a] EXCEPT !.step = step, !.answer = Pending]]
  BY <1>3 DEF Goto, TypeOK, Coros
<1>4. ASSUME Goto(a, "id"), HasRow(registered, u, p),
             UNCHANGED <<page, currentUser, file, registered, routed, fromFile>>
      PROVE  FlowInv'
  <2> DEFINE x == [attempts[a] EXCEPT !.step = "id", !.answer = Pending]
  <2>1. x \in Coros /\ attempts' = [attempts EXCEPT ![a] = x]
    BY <1>3, <1>4 DEF Step, Request
  <2>2. Knows(x, u, p, currentUser, registered, routed) /\ x.step = "id"
    BY <1>2, <1>4 DEF Knows, TypeOK, Coros
  <2> HIDE DEF x
  <2> QED
    BY <1>1, <1>2, <1>4, <2>1, <2>2, MoveAlone
<1>5. CASE ResumeStart(a)
  <2>1. CASE attempts[a].answer \in User
    <3> DEFINE x == [attempts[a] EXCEPT !.step = "showChat", !.answer = Pending]
    <3>1. x \in Coros /\ attempts' = [attempts EXCEPT ![a] = x]
      BY ZenonT(60), <1>3, <1>5, <2>1 DEF ResumeStart, Step
    <3>2. x.typed = ProfileOf(u, p) /\ x.step = "showChat" /\ HasRow(registered, u, p)
      BY <1>2, <1>5, <2>1 DEF ResumeStart, Answered, Knows, TypeOK, Coros
    <3>3. currentUser' = ProfileOf(u, p) /\ fromFile'
      BY <1>2, <1>5, <2>1 DEF ResumeStart, Knows
    <3>4. Knows(x, u, p, currentUser', registered', routed')
      BY <1>5, <3>2, <3>3 DEF ResumeStart, serverVars, Knows, ProfileOf, Profile
    <3>5. NamesKept' /\ FileOfOne' /\ UNCHANGED <<page, registered, routed>>
      BY <1>5 DEF ResumeStart, serverVars, FlowInv, NamesKept, FileOfOne
    <3> HIDE DEF x
    <3> QED
      BY <1>1, <1>2, <3>1, <3>3, <3>4, <3>5, MoveInv
  <2>2. CASE attempts[a].answer \notin User
    <3> DEFINE x == [attempts[a] EXCEPT !.step = "showLogin", !.answer = Pending]
    <3>1. x \in Coros /\ attempts' = [attempts EXCEPT ![a] = x]
      BY ZenonT(60), <1>3, <1>5, <2>2 DEF ResumeStart, Step
    <3>2. Knows(x, u, p, currentUser, registered, routed) /\ x.step = "showLogin"
      BY <1>2 DEF Knows, TypeOK, Coros
    <3>3. UNCHANGED <<page, currentUser, file, registered, routed, fromFile>>
      BY <1>5, <2>2 DEF ResumeStart, serverVars
    <3> HIDE DEF x
    <3> QED
      BY <1>1, <1>2, <3>1, <3>2, <3>3, MoveAlone
  <2> QED
    BY <2>1, <2>2
<1>6. CASE ResumeLoginExist(a) \/ ResumePush(a)
  <2>1. UNCHANGED <<page, currentUser, file, registered, routed, fromFile>>
    BY <1>6 DEF ResumeLoginExist, ResumePush, serverVars
  <2>2. CASE Return(a)
    BY <1>1, <2>1, <2>2, ReturnInv
  <2>3. CASE Goto(a, "id") /\ attempts[a].answer \in User
    <3>1. HasRow(registered, u, p)
      BY <1>2, <1>6, <2>3 DEF ResumeLoginExist, ResumePush, Answered, Knows
    <3> QED
      BY <1>4, <2>1, <2>3, <3>1
  <2> QED
    BY <1>6, <2>2, <2>3 DEF ResumeLoginExist, ResumePush
<1>7. CASE ResumeLoginId(a)
  <2> DEFINE x == [attempts[a] EXCEPT !.id = attempts[a].answer, !.step = "name",
                                      !.answer = Pending]
  <2>1. attempts' = [attempts EXCEPT ![a] = x]
    BY <1>7 DEF ResumeLoginId, TypeOK
  <2>2. attempts[a].answer = u /\ routed = u
    BY <1>2, <1>7 DEF ResumeLoginId, Answered, Knows
  <2>3. x \in Coros
    BY ZenonT(60), <2>2 DEF TypeOK, Coros, Step, Request, UserOrNone
  <2>4. Knows(x, u, p, currentUser, registered, routed) /\ x.step = "name"
    BY <1>2, <1>7, <2>2 DEF ResumeLoginId, Answered, Knows, TypeOK, Coros
  <2>5. UNCHANGED <<page, currentUser, file, registered, routed, fromFile>>
    BY <1>7 DEF ResumeLoginId, serverVars
  <2> HIDE DEF x
  <2> QED
    BY <1>1, <1>2, <2>1, <2>3, <2>4, <2>5, MoveAlone
<1>8. CASE ResumeLoginName(a)
  <2>1. attempts[a].id = u /\ attempts[a].answer = u /\ routed = u
    BY <1>2, <1>8 DEF ResumeLoginName, Answered, Knows
  <2>2. Finish(a, u, u)
    BY <1>8, <2>1, LoginAssumption DEF ResumeLoginName
  <2>3. attempts[a].step = "name" /\ attempts[a].kind = "login"
        /\ UNCHANGED <<page, registered, routed>>
    BY <1>8 DEF ResumeLoginName, Answered, serverVars
  <2> QED
    BY <1>2, <2>1, <2>2, <2>3, FinishInv
<1>9. CASE ResumeSignInExist(a)
  <2>1. UNCHANGED <<page, currentUser, file, registered, routed, fromFile>>
    BY <1>9 DEF ResumeSignInExist, serverVars
  <2>2. CASE Return(a)
    BY <1>1, <2>1, <2>2, ReturnInv
  <2>3. CASE attempts[a].answer = NoUser
    <3> DEFINE x == [attempts[a] EXCEPT !.step = "push", !.answer = Pending,
                                        !.pushed = currentUser]
    <3>1. attempts' = [attempts EXCEPT ![a] = x]
      BY <1>9, <2>3 DEF ResumeSignInExist, TypeOK
    <3>2. x \in Coros
      BY DEF TypeOK, Coros, Step, Request
    <3>3. Pending \notin User
      BY LoginAssumption
    <3>4. Knows(x, u, p, currentUser, registered, routed) /\ x.step = "push"
      BY <1>2, <1>9, <3>3 DEF ResumeSignInExist, Answered, Knows, TypeOK, Coros
    <3> HIDE DEF x
    <3> QED
      BY <1>1, <1>2, <2>1, <3>1, <3>2, <3>4, MoveAlone
  <2> QED
    BY <1>9, <2>2, <2>3 DEF ResumeSignInExist
<1>10. CASE ResumeSignInId(a)
  <2>1. attempts[a].answer = u /\ currentUser.name = u /\ routed = u
    BY <1>2, <1>10 DEF ResumeSignInId, Answered, Knows
  <2>2. Finish(a, u, u)
    BY <1>10, <2>1, LoginAssumption DEF ResumeSignInId
  <2>3. attempts[a].step = "id" /\ attempts[a].kind = "signIn"
        /\ UNCHANGED <<page, registered, routed>>
    BY <1>10 DEF ResumeSignInId, Answered, serverVars
  <2> QED
    BY <1>2, <2>1, <2>2, <2>3, FinishInv
<1> QED
  BY <1>5, <1>6, <1>7, <1>8, <1>9, <1>10 DEF Resume

\* An answer is about the user of the coroutine.
LEMMA ServeInv ==
    ASSUME TypeOK, FlowInv, Clean, NEW a \in Coroutine, Serve(a)
    PROVE  FlowInv'
<1>1. attempts[a].step # "done" /\ Asks(a)
  BY DEF Serve, Asks, Request
<1>2. PICK u \in User, p \in Password :
         /\ AllFor(u, p)
         /\ Knows(attempts[a], u, p, currentUser, registered, routed)
  BY <1>1, SomeUser
<1>3. /\ attempts[a].typed.login = u /\ attempts[a].typed.password = p
      /\ u # NoUser /\ u # Pending /\ NoUser # Pending /\ NoUser \notin User
  BY <1>2, LoginAssumption DEF Knows, ProfileOf, Profile
<1>4. UNCHANGED <<page, currentUser, file, fromFile>>
  BY DEF Serve
<1>5. ASSUME NEW y \in {u, NoUser}, Reply(a, y),
             HasRow(registered, u, p) => HasRow(registered', u, p),
             routed' = routed \/ routed' = u, NamesKept',
             attempts[a].step \in {"exist", "push"} /\ y = u => HasRow(registered', u, p),
             attempts[a].step \in {"id", "name"} => y = u,
             attempts[a].step = "id" => routed' = u
      PROVE  FlowInv'
  <2> DEFINE x == [attempts[a] EXCEPT !.answer = y]
  <2>1. attempts' = [attempts EXCEPT ![a] = x]
    BY <1>5 DEF Reply, TypeOK
  <2>2. x \in Coros
    BY DEF TypeOK, Coros, UserOrNone
  <2>3. Knows(attempts[a], u, p, currentUser', registered', routed')
    BY <1>2, <1>4, <1>5, KnowsKept
  <2>4. Knows(x, u, p, currentUser', registered', routed')
    BY <1>1, <1>3, <1>5, <2>3 DEF Knows, TypeOK, Coros, Asks, Request
  <2>5. FileOfOne'
    BY <1>4 DEF FlowInv, FileOfOne
  <2>6. x.step = attempts[a].step
    BY DEF TypeOK, Coros
  <2> HIDE DEF x
  <2> QED
    BY <1>1, <1>2, <1>4, <1>5, <2>1, <2>2, <2>4, <2>5, <2>6, MoveInv
<1>6. NamesKept /\ registered[u] \in Rows
  BY DEF FlowInv, TypeOK
<1>7. CASE HandleCheckUserExistence(a)
  <2>1. NamesKept' /\ UNCHANGED <<registered, routed>>
    BY <1>6, <1>7 DEF HandleCheckUserExistence, serverVars, NamesKept
  <2>2. CASE IsRegistered(u, p)
    <3>1. HasRow(registered, u, p)
      BY <1>6, <2>2 DEF IsRegistered, HasRow, NamesKept, Rows
    <3>2. Reply(a, u) /\ attempts[a].step = "exist"
      BY <1>3, <1>7, <2>2 DEF HandleCheckUserExistence
    <3> QED
      BY <1>5, <2>1, <3>1, <3>2
  <2>3. CASE ~IsRegistered(u, p)
    <3>1. Reply(a, NoUser) /\ attempts[a].step = "exist"
      BY <1>3, <1>7, <2>3 DEF HandleCheckUserExistence
    <3> QED
      BY <1>3, <1>5, <2>1, <3>1
  <2> QED
    BY <2>2, <2>3
<1>8. CASE HandleAddUserCredentialsToDatabase(a)
  <2>1. /\ attempts[a].step = "push" /\ UNCHANGED routed
        /\ attempts[a].pushed.login = u /\ attempts[a].pushed.name = u
        /\ attempts[a].pushed.password = p
    BY <1>2, <1>8 DEF HandleAddUserCredentialsToDatabase, Knows
  <2>2. CASE registered[u] = NoRow
    <3>1. Reply(a, u) /\ registered' = [registered EXCEPT ![u] = [name |-> u, password |-> p]]
      BY <1>8, <2>1, <2>2 DEF HandleAddUserCredentialsToDatabase
    <3>2. HasRow(registered', u, p) /\ NamesKept'
      BY <1>6, <3>1 DEF HasRow, NamesKept, TypeOK
    <3> QED
      BY <1>5, <2>1, <3>1, <3>2
  <2>3. CASE registered[u] # NoRow
    <3>1. Reply(a, NoUser) /\ UNCHANGED registered
      BY <1>8, <2>1, <2>3 DEF HandleAddUserCredentialsToDatabase
    <3>2. NamesKept'
      BY <1>6, <3>1 DEF NamesKept
    <3> QED
      BY <1>3, <1>5, <2>1, <3>1, <3>2
  <2> QED
    BY <2>2, <2>3
<1>9. CASE HandleGetUserIdFromDatabase(a)
  <2>1. attempts[a].step = "id" /\ HasRow(registered, u, p)
    BY <1>2, <1>9 DEF HandleGetUserIdFromDatabase, Knows
  <2>2. registered[u] # NoRow
    BY <1>3, <2>1 DEF HasRow, NoRow
  <2>3. Reply(a, u) /\ routed' = u /\ UNCHANGED registered
    BY <1>3, <1>9, <2>2 DEF HandleGetUserIdFromDatabase
  <2>4. NamesKept'
    BY <1>6, <2>3 DEF NamesKept
  <2> QED
    BY <1>5, <2>1, <2>3, <2>4
<1>10. CASE HandleGetUserNameFromDatabase(a)
  <2>1. attempts[a].step = "name" /\ registered[u].name = u
    BY <1>2, <1>10 DEF HandleGetUserNameFromDatabase, Knows, HasRow
  <2>2. Reply(a, u) /\ UNCHANGED <<registered, routed>>
    BY <1>3, <1>10, <2>1 DEF HandleGetUserNameFromDatabase, serverVars
  <2>3. NamesKept'
    BY <1>6, <2>2 DEF NamesKept
  <2> QED
    BY <1>5, <2>1, <2>2, <2>3
<1> QED
  BY <1>7, <1>8, <1>9, <1>10 DEF Serve

\* A press is for the user of all that runs, or nothing runs.
LEMMA PressInv ==
    ASSUME TypeOK, FlowInv, Clean', NEW a \in Attempt, NEW u \in User, NEW p \in Password,
           Press(a, u, p)
    PROVE  FlowInv'
<1>1. /\ Clean /\ a \in Coroutine /\ page \in {"login", "signIn"}
      /\ \A b \in Active : attempts[b].typed = ProfileOf(u, p)
  BY DEF Press, Clean, Noted, Coroutine
<1> DEFINE x == Coro(page, "exist", ProfileOf(u, p))
<1>2. \A b \in Coroutine : attempts'[b] = IF b = a THEN x ELSE attempts[b]
  BY <1>1 DEF Press, TypeOK
<1>3. /\ currentUser'.login = u /\ currentUser'.password = p
      /\ page = "signIn" => currentUser'.name = u
      /\ currentUser'.id = currentUser.id
      /\ currentUser = ProfileOf(u, p) => currentUser' = ProfileOf(u, p)
  <2>1. currentUser' = Profile(currentUser.id, IF page = "signIn" THEN u ELSE currentUser.name,
                               u, p)
    BY DEF Press, Typed, TypeOK, Profiles, Profile
  <2> QED
    BY <2>1 DEF ProfileOf, Profile
<1>4. UNCHANGED <<page, file, registered, routed, fromFile>>
  BY DEF Press, serverVars
<1>5. Knows(x, u, p, currentUser', registered', routed')
  BY <1>1, <1>3, LoginAssumption DEF Knows, Coro
<1>6. ASSUME NEW b \in Coroutine, attempts[b].step # "done"
      PROVE  /\ Knows(attempts[b], u, p, currentUser, registered, routed)
             /\ Knows(attempts[b], u, p, currentUser', registered', routed')
  <2>1. PICK v \in User, q \in Password :
           Knows(attempts[b], v, q, currentUser, registered, routed)
    BY <1>1, <1>6, SomeUser
  <2>2. ProfileOf(u, p) = ProfileOf(v, q)
    BY <1>1, <1>6, <2>1 DEF Active, Knows
  <2>3. v = u /\ q = p
    BY <2>2 DEF ProfileOf, Profile
  <2>4. Knows(attempts[b], u, p, currentUser, registered, routed)
    BY <2>1, <2>3
  <2>5. attempts[b].kind = "signIn" => currentUser'.name = u
    BY <2>4 DEF Press, Typed, Knows, TypeOK, Profiles
  <2> QED
    BY <1>3, <1>4, <2>4, <2>5 DEF Knows
<1>7. AllFor(u, p)'
  BY <1>1, <1>2, <1>4, <1>5, <1>6 DEF AllFor
<1>8. Shown' => Shown
  BY <1>1, <1>2, <1>4 DEF Shown, Coro
<1>9. NamesKept' /\ FileOfOne'
  BY <1>1, <1>4 DEF FlowInv, NamesKept, FileOfOne
<1> QED
  BY <1>1, <1>3, <1>4, <1>7, <1>8, <1>9 DEF FlowInv

LEMMA FlowStep == LoginInv /\ [Next]_vars => FlowInv'
<1> SUFFICES ASSUME LoginInv, [Next]_vars, Clean' PROVE FlowInv'
  BY DEF FlowInv
<1> USE DEF LoginInv
<1>1. ASSUME NEW a \in Attempt, NEW u \in User, NEW p \in Password, Press(a, u, p)
      PROVE  FlowInv'
  BY <1>1, PressInv
<1>2. CASE SwitchPage \/ LogOut \/ UNCHANGED vars
  <2>1. /\ UNCHANGED <<attempts, currentUser, registered, routed, fromFile, incidents>>
        /\ page' = "chat" => page = "chat"
        /\ file' = file \/ file' = Nobody
    BY <1>2 DEF SwitchPage, LogOut, vars, serverVars
  <2>2. Clean /\ NamesKept' /\ FileOfOne'
    BY <2>1 DEF Clean, FlowInv, NamesKept, FileOfOne
  <2>3. \A u \in User, p \in Password : AllFor(u, p) => AllFor(u, p)'
    BY <2>1 DEF AllFor
  <2>4. Shown' => Shown
    BY <2>1 DEF Shown
  <2> QED
    BY <2>1, <2>2, <2>3, <2>4 DEF FlowInv
<1>3. ASSUME NEW a \in Coroutine, Resume(a) PROVE FlowInv'
  <2>1. Clean
    BY <1>3 DEF Clean, Resume, ResumeStart, ResumeLoginExist, ResumeLoginId, ResumeLoginName,
                ResumeSignInExist, ResumePush, ResumeSignInId
  <2> QED
    BY <1>3, <2>1, ResumeInv
<1>4. ASSUME NEW a \in Coroutine, ShowNext(a) PROVE FlowInv'
  <2>1. Clean /\ attempts[a].step # "done" /\ Return(a)
        /\ (page' = "chat" => attempts[a].step = "showChat")
    BY <1>4 DEF ShowNext, Clean
  <2>2. PICK u \in User, p \in Password : AllFor(u, p)
    BY <2>1, SomeUser
  <2> DEFINE x == Coro("login", "done", Nobody)
  <2>3. x \in Coros /\ x.step = "done" /\ attempts' = [attempts EXCEPT ![a] = x]
    BY <2>1, ProfileTypes DEF Return, Kind, Step, Coro
  <2>4. UNCHANGED <<currentUser, registered, routed, fromFile, file>>
    BY <1>4 DEF ShowNext, serverVars
  <2>5. NamesKept' /\ FileOfOne'
    BY <2>1, <2>4 DEF FlowInv, NamesKept, FileOfOne
  <2> HIDE DEF x
  <2> QED
    BY <2>1, <2>2, <2>3, <2>4, <2>5, MoveInv
<1>5. ASSUME NEW a \in Coroutine, Serve(a) PROVE FlowInv'
  <2>1. Clean
    BY <1>5 DEF Serve, Clean
  <2> QED
    BY <1>5, <2>1, ServeInv
<1>6. ASSUME NEW a \in Coroutine, TimeOut(a) \/ CannotAsk(a) PROVE FALSE
  BY <1>6 DEF TimeOut, CannotAsk, Fail, Clean
<1> QED
  BY <1>1, <1>2, <1>3, <1>4, <1>5, <1>6 DEF Next

----------------------------------------------------------------------------
(* The server survives.                                                    *)

LEMMA ServerStep == LoginInv /\ [Next]_vars => ServerInv'
<1> SUFFICES ASSUME LoginInv, [Next]_vars, incidents' = {} PROVE ServerInv'
  BY SMTT(30) DEF ServerInv
<1>1. incidents = {} /\ Clean
  BY ZenonT(60) DEF Next, Press, SwitchPage, LogOut, Resume, ResumeStart, ResumeLoginExist,
         ResumeLoginId, ResumeLoginName, ResumeSignInExist, ResumePush, ResumeSignInId,
         ShowNext, Serve, TimeOut, CannotAsk, Fail, vars, Clean
<1> USE <1>1 DEF LoginInv
<1>2. /\ serverUp
      /\ \A a, b \in Active : a = b
      /\ \A a \in Active : FreeFor(attempts[a], registered)
  BY DEF ServerInv
<1>3. ASSUME NEW a \in Coroutine, NEW x, attempts[a].step # "done",
             attempts' = [attempts EXCEPT ![a] = x], serverUp',
             x.step # "done" => FreeFor(x, registered')
      PROVE  ServerInv'
  <2>1. \A b \in Coroutine : b # a => attempts[b].step = "done"
    BY <1>2, <1>3 DEF Active
  <2>2. \A b \in Coroutine : attempts'[b].step # "done" => b = a /\ attempts'[b] = x
    BY <1>3, <2>1 DEF TypeOK
  <2> QED
    BY <1>3, <2>2 DEF ServerInv, Active
<1>4. ASSUME NEW a \in Attempt, NEW u \in User, NEW p \in Password, Press(a, u, p)
      PROVE  ServerInv'
  <2> DEFINE x == Coro(page, "exist", ProfileOf(u, p))
  <2>1. Active = {} /\ a \in Coroutine /\ UNCHANGED <<registered, serverUp>>
    BY <1>4 DEF Press, Noted, Coroutine, serverVars
  <2>2. \A b \in Coroutine : attempts'[b].step # "done" => b = a /\ attempts'[b] = x
    BY <1>4, <2>1 DEF Press, TypeOK, Active
  <2>3. page = "signIn" => registered[u] \in {NoRow, [name |-> u, password |-> p]}
    BY <1>4 DEF Press, Noted
  <2>4. FreeFor(x, registered)
    BY <2>3, LoginAssumption DEF FreeFor, HasRow, Coro, ProfileOf, Profile
  <2> HIDE DEF x
  <2> QED
    BY <1>2, <2>1, <2>2, <2>4 DEF ServerInv, Active
<1>5. CASE SwitchPage \/ LogOut \/ UNCHANGED vars
  BY <1>2, <1>5 DEF SwitchPage, LogOut, vars, serverVars, ServerInv, Active
<1>6. ASSUME NEW a \in Coroutine, NEW step \in Step \ {"exist", "push"}, Goto(a, step),
             attempts[a].step # "done", UNCHANGED <<registered, serverUp>>
      PROVE  ServerInv'
  <2> DEFINE x == [attempts[a] EXCEPT !.step = step, !.answer = Pending]
  <2>1. attempts' = [attempts EXCEPT ![a] = x]
    BY <1>6 DEF Goto, TypeOK
  <2>2. FreeFor(x, registered)
    BY <1>2, <1>6 DEF FreeFor, Active, TypeOK, Coros
  <2> HIDE DEF x
  <2> QED
    BY <1>2, <1>3, <1>6, <2>1, <2>2
<1>7. ASSUME NEW a \in Coroutine, Return(a), attempts[a].step # "done",
             UNCHANGED <<registered, serverUp>>
      PROVE  ServerInv'
  BY <1>2, <1>3, <1>7 DEF Return, Coro
<1>8. ASSUME NEW a \in Coroutine, Resume(a) PROVE ServerInv'
  <2>1. attempts[a].step # "done" /\ UNCHANGED <<registered, serverUp>>
    BY <1>8 DEF Resume, ResumeStart, ResumeLoginExist, ResumeLoginId, ResumeLoginName,
                ResumeSignInExist, ResumePush, ResumeSignInId, Answered, serverVars
  <2>2. CASE ResumeStart(a) \/ ResumeLoginExist(a) \/ ResumePush(a)
    BY <1>6, <1>7, <2>1, <2>2
       DEF ResumeStart, ResumeLoginExist, ResumePush, Step, Request
  <2>3. CASE ResumeLoginName(a) \/ ResumeSignInId(a)
    BY <1>6, <1>7, <2>1, <2>3 DEF ResumeLoginName, ResumeSignInId, Finish, Step
  <2>4. CASE ResumeLoginId(a)
    <3> DEFINE x == [attempts[a] EXCEPT !.id = attempts[a].answer, !.step = "name",
                                        !.answer = Pending]
    <3>1. attempts' = [attempts EXCEPT ![a] = x]
      BY <2>4 DEF ResumeLoginId, TypeOK
    <3>2. FreeFor(x, registered)
      BY <1>2, <2>1 DEF FreeFor, Active, TypeOK, Coros
    <3> HIDE DEF x
    <3> QED
      BY <1>2, <1>3, <2>1, <3>1, <3>2
  <2>5. CASE ResumeSignInExist(a)
    <3>1. CASE Return(a)
      BY <1>7, <2>1, <3>1
    <3>2. CASE attempts[a].answer = NoUser
      <4> DEFINE x == [attempts[a] EXCEPT !.step = "push", !.answer = Pending,
                                          !.pushed = currentUser]
      <4>1. attempts' = [attempts EXCEPT ![a] = x]
        BY <2>5, <3>2 DEF ResumeSignInExist, TypeOK
      <4>2. FreeFor(x, registered)
        BY <1>2, <2>5, <2>1, <3>2
           DEF ResumeSignInExist, Answered, FreeFor, Active, TypeOK, Coros
      <4> HIDE DEF x
      <4> QED
        BY <1>2, <1>3, <2>1, <4>1, <4>2
    <3> QED
      BY <2>5, <3>1, <3>2 DEF ResumeSignInExist
  <2> QED
    BY <1>8, <2>2, <2>3, <2>4, <2>5 DEF Resume
<1>9. ASSUME NEW a \in Coroutine, ShowNext(a) PROVE ServerInv'
  BY <1>7, <1>9 DEF ShowNext, serverVars
<1>10. ASSUME NEW a \in Coroutine, Serve(a) PROVE ServerInv'
  <2>1. attempts[a].step # "done" /\ Asks(a) /\ FreeFor(attempts[a], registered)
    BY <1>2, <1>10 DEF Serve, Asks, Request, Active
  <2>2. PICK u \in User, p \in Password :
           Knows(attempts[a], u, p, currentUser, registered, routed)
    BY <2>1, SomeUser
  <2>3. /\ attempts[a].typed.login = u /\ attempts[a].typed.password = p
        /\ u # NoUser /\ u # Pending /\ Pending # NoUser
    BY <2>2, LoginAssumption DEF Knows, ProfileOf, Profile
  <2>4. ASSUME NEW y, Reply(a, y), serverUp',
               FreeFor([attempts[a] EXCEPT !.answer = y], registered')
        PROVE  ServerInv'
    <3>1. attempts' = [attempts EXCEPT ![a] = [attempts[a] EXCEPT !.answer = y]]
      BY <2>4 DEF Reply, TypeOK
    <3> QED
      BY <1>3, <2>1, <2>4, <3>1
  <2>5. CASE HandleCheckUserExistence(a)
    <3>1. UNCHANGED <<registered, serverUp>> /\ attempts[a].step = "exist"
      BY <2>5 DEF HandleCheckUserExistence, serverVars
    <3>2. CASE IsRegistered(u, p)
      <4>1. FreeFor([attempts[a] EXCEPT !.answer = u], registered)
        BY <2>1, <2>3, <3>1 DEF FreeFor, TypeOK, Coros
      <4> QED
        BY <1>2, <2>3, <2>4, <2>5, <3>1, <3>2, <4>1 DEF HandleCheckUserExistence
    <3>3. CASE ~IsRegistered(u, p)
      <4>1. ~HasRow(registered, u, p)
        BY <2>3, <3>3 DEF HasRow, IsRegistered
      <4>2. FreeFor([attempts[a] EXCEPT !.answer = NoUser], registered)
        BY <2>1, <2>3, <3>1, <4>1 DEF FreeFor, TypeOK, Coros
      <4> QED
        BY <1>2, <2>3, <2>4, <2>5, <3>1, <3>3, <4>2 DEF HandleCheckUserExistence
    <3> QED
      BY <3>2, <3>3
  <2>6. CASE HandleAddUserCredentialsToDatabase(a)
    <3>1. /\ attempts[a].step = "push" /\ attempts[a].answer = Pending
          /\ attempts[a].pushed.login = u /\ attempts[a].pushed.name = u
          /\ attempts[a].pushed.password = p
      BY <2>1, <2>2, <2>6 DEF HandleAddUserCredentialsToDatabase, Knows, Asks
    <3>2. registered[u] = NoRow
      BY <2>1, <2>3, <3>1 DEF FreeFor
    <3>3. /\ registered' = [registered EXCEPT ![u] = [name |-> u, password |-> p]]
          /\ Reply(a, u) /\ UNCHANGED serverUp
      BY <2>6, <3>1, <3>2 DEF HandleAddUserCredentialsToDatabase
    <3>4. HasRow(registered', u, p)
      BY <3>3 DEF HasRow, TypeOK
    <3>5. FreeFor([attempts[a] EXCEPT !.answer = u], registered')
      BY <2>1, <2>3, <3>1, <3>4 DEF FreeFor, TypeOK, Coros
    <3> QED
      BY <1>2, <2>4, <3>3, <3>5
  <2>7. CASE HandleGetUserIdFromDatabase(a) \/ HandleGetUserNameFromDatabase(a)
    <3>1. /\ UNCHANGED <<registered, serverUp>> /\ attempts[a].step \in {"id", "name"}
          /\ \E y : Reply(a, y)
      BY <2>7 DEF HandleGetUserIdFromDatabase, HandleGetUserNameFromDatabase, serverVars
    <3>2. \A y : FreeFor([attempts[a] EXCEPT !.answer = y], registered)
      BY <2>1, <3>1 DEF FreeFor, TypeOK, Coros
    <3> QED
      BY <1>2, <2>4, <3>1, <3>2
  <2> QED
    BY <1>10, <2>5, <2>6, <2>7 DEF Serve
<1>11. ASSUME NEW a \in Coroutine, TimeOut(a) \/ CannotAsk(a) PROVE FALSE
  BY <1>11 DEF TimeOut, CannotAsk, Fail
<1> QED
  BY <1>4, <1>5, <1>8, <1>9, <1>10, <1>11 DEF Next

----------------------------------------------------------------------------
(* The theorems.                                                           *)

\* The invariant that all of the following rest on.
THEOREM Invariance == Spec => []LoginInv
<1>1. LoginInv /\ [Next]_vars => LoginInv'
  BY TypeStep, TypedStep, FlowStep, ServerStep DEF LoginInv
<1> QED
  BY <1>1, InitInv, PTL DEF Spec

\* Every variable keeps its type, however the coroutines overlap.
THEOREM Typing == Spec => []TypeOK
<1>1. LoginInv => TypeOK
  BY DEF LoginInv
<1> QED
  BY <1>1, Invariance, PTL

\* Who is on the chat page, and in the file, is one registered user, unless
\* attempts with different credentials overlapped or a request failed
\* (loginPage.cpp:73-118, signInPage.cpp:88-158, mainWindow.cpp:58-80).
THEOREM OneUserShown == Spec => []OneUser
<1>1. LoginInv => OneUser
  <2> SUFFICES ASSUME LoginInv, Clean
               PROVE  /\ file # Nobody => IsOneUser(file)
                      /\ page = "chat" =>
                            /\ IsOneUser(currentUser)
                            /\ IsRegistered(currentUser.login, currentUser.password)
    BY DEF OneUser, Clean
  <2>1. file # Nobody => IsOneUser(file)
    BY DEF LoginInv, FlowInv, FileOfOne, IsOneUser
  <2>2. ASSUME page = "chat"
        PROVE  IsOneUser(currentUser) /\ IsRegistered(currentUser.login, currentUser.password)
    <3>1. PICK u \in User, p \in Password :
             currentUser = ProfileOf(u, p) /\ HasRow(registered, u, p)
      BY <2>2 DEF LoginInv, FlowInv, AllFor
    <3> QED
      BY <3>1, LoginAssumption DEF IsOneUser, IsRegistered, HasRow, ProfileOf, Profile
  <2> QED
    BY <2>1, <2>2
<1> QED
  BY <1>1, Invariance, PTL

\* Who has logged in or signed in is the user the server forwards messages to
\* on this connection (server.cpp:537-577).
THEOREM RoutedAsShown == Spec => []ReceivesAsCurrentUser
<1>1. LoginInv => ReceivesAsCurrentUser
  BY DEF LoginInv, FlowInv, Shown, Clean, ReceivesAsCurrentUser
<1> QED
  BY <1>1, Invariance, PTL

\* One attempt at a time, with a login that is free or the user's own and
\* answers that arrive, never ends the server (server.cpp:379-407).
THEOREM ServerLives == Spec => []ServerSurvives
<1>1. LoginInv => ServerSurvives
  BY DEF LoginInv, ServerInv, ServerSurvives
<1> QED
  BY <1>1, Invariance, PTL
=============================================================================
