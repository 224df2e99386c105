SPECIFICATION FairSpec
CONSTANTS
    Writer = {w1, w2}
    Handler = w1
    Request <- Requests
    Reply <- Replies
    NumberWidth = 2
    NameSize = 2
    InputSize = 3
    TimeSize = 2
    ResponseSize = 2
    WireSize = 9
    MaxPackets = 2
INVARIANTS
    TypeOK
    ReaderInStep
    HandledInOrder
    
CHECK_DEADLOCK FALSE
PROPERTY BegunIsHandled
