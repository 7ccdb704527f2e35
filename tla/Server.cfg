\* Three connections, two ids: a room can be joined twice, expire and be
\* followed by another with its id, and the ids can run out.
CONSTANTS
    c1 = c1
    a6 = a6
    a4 = a4
    Conns = {c1, c2, c3}
    RoomIds = {r1, r2}
    Addrs <- MCAddrs
    V6Addrs = {a6}
    PeerAddr <- MCPeerAddr
    PortLen <- MCPortLen
    None = None
SPECIFICATION Spec
SYMMETRY Symmetry
INVARIANTS TypeOK OneTimerPerRoom ConversationOK
PROPERTIES RoomsBornEmpty ImplementsLeases
CHECK_DEADLOCK FALSE
