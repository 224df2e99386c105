SPECIFICATION FairSpec
CONSTANTS
    User = {u1, u2}
    Password = {p1, p2}
    Attempt = {1, 2}
    StartAttempt = start
    InitialUsers = {u1}
    InitialPassword = p1
    MaxPresses = 2
    MaxFailures = 1
    NoUser = none
    NoPassword = noPassword
    NoValue = nullopt
    Pending = pending
INVARIANTS
    
    ReceivesAsCurrentUser
    ServerSurvives
PROPERTY AttemptsEnd
