SPECIFICATION Spec
CONSTANTS
    n1 = n1
    n2 = n2
    n3 = n3
    User = {1, 2, 3}
    Name <- Names
    Naming <- Namings
    Typed <- OneOrAll
    MaxChats = 2
    MaxMessages = 2
    MaxTime = 1
INVARIANTS
    PartnerFindable
    ListIsExact
    OneChatPerPair
    ForwardedToOthers
CHECK_DEADLOCK FALSE
