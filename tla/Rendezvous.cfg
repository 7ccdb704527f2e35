\* A creator and a joiner, each with up to two streams. The joiner's id is
\* the creator's, that of an expired room, or a wrong one.
CONSTANTS
    Peers = {alice, bob}
    Creators = {alice}
    RoomIds = {r1, r2}
    Conns <- MCConns
    Addrs <- MCAddrs
    V6Addrs <- MCV6Addrs
    PeerAddr <- MCPeerAddr
    PortLen <- MCPortLen
    LocalAddr <- MCLocalAddr
    None = None
SPECIFICATION RFairSpec
INVARIANTS RTypeOK ClientServerAgree RecordedForItsClient TwoIPv6AddressesFit
PROPERTIES ClientsFinish ServerComesToRest
CHECK_DEADLOCK FALSE
