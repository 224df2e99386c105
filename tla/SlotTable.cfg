SPECIFICATION FairSpec
CONSTANTS
    Socket = {s1, s2}
    NoSocket = NoSocket
    UserId = {0, 1}
    NoUser = NoUser
    MaxConnections = 1
INVARIANTS
    RefusedOnlyWhenFull
PROPERTIES
    DepartedClientReleased
