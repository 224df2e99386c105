SPECIFICATION Spec
CONSTANTS
    Socket = {s1, s2}
    NoSocket = NoSocket
    UserId = {0, 1, 2}
    NoUser = NoUser
    MaxConnections = 2
SYMMETRY SocketSymmetry
INVARIANTS
    OneSlotPerConnection
    OneUserPerSocket
    RegisteredGetsOnlyOwn
    RegisteredIsReachable
    ForwardReachesReceiver
