\* A creator and a joiner, and ids to spare.
CONSTANTS
    c1 = c1
    a6 = a6
    a4 = a4
    Conns = {c1, c2}
    RoomIds = {r1, r2}
    Addrs <- MCAddrs
    V6Addrs = {a6}
    PeerAddr <- MCPeerAddr
    PortLen <- MCPortLen
    None = None
SPECIFICATION Spec
INVARIANT DoneClientHasSender
CHECK_DEADLOCK FALSE
