SPECIFICATION Spec
CONSTANTS
    Partner = {1, 2}
    Known = {2}
    Search = {}
    MaxChunks = 2
    MaxRequests = 3
    MaxMessages = 2
    MaxClicks = 2
    MaxFailures = 1
INVARIANTS
    TypeOK
    SentToShown
    MessagesOfShown
    
CHECK_DEADLOCK FALSE
