\* Fewer ids than connections: the second create_room may find none free.
CONSTANTS
    c1 = c1
    a6 = a6
    a4 = a4
    Conns = {c1, c2}
    RoomIds = {r1}
    Addrs <- MCAddrs
    V6Addrs = {a6}
    PeerAddr <- MCPeerAddr
    PortLen <- MCPortLen
    None = None
SPECIFICATION FairSpec
PROPERTIES RoomsExpire
CHECK_DEADLOCK FALSE
