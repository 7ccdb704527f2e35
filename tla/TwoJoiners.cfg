\* Two clients are given the same room id.
CONSTANTS
    Peers = {alice, bob, carol}
    Creators = {alice}
    RoomIds = {r1}
    Conns <- MCConns
    Addrs <- MCAddrs
    V6Addrs <- MCV6Addrs
    PeerAddr <- MCPeerAddr
    PortLen <- MCPortLen
    LocalAddr <- MCLocalAddr
    None = None
SPECIFICATION RSpec
SYMMETRY Symmetry
INVARIANT OneClientPerSide
CHECK_DEADLOCK FALSE
