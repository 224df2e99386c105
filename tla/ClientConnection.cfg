\* Two callers that make two requests over two sockets.  The client may sit
\* idle once the requests are made, and a process that ended stays ended.
SPECIFICATION FairSpec
CONSTANTS
    Caller = {1, 2}
    Kind = {bool, id}
    DefaultKind = bool
    MaxRequests = 2
    MaxSockets = 2
CHECK_DEADLOCK FALSE
INVARIANTS
    StateMatchesSocket
    OneReceiver
    OwnReply
    NoBadAccess
PROPERTY
    CallReturns
