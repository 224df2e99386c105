SPECIFICATION FairSpec
CONSTANTS
    Partner = {1, 2}
    Known = {2}
    Search <- SearchAnyone
    MaxChunks = 1
    MaxRequests = 3
    MaxMessages = 1
    MaxClicks = 1
    MaxFailures = 3
INVARIANTS
    RowsLeadToPartner
    NoChatTwice
PROPERTY ListResetEnds
CHECK_DEADLOCK FALSE
