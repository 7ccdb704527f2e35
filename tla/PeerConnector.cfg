\* At the peer's private address may be the peer, another host of the own
\* network, or oneself; at its public address only the peer. Two connections
\* at a time: both between the peers, or one of them leading elsewhere.
CONSTANTS
    Dials <- MCDials
    Reaches <- MCReaches
    MaxConns = 2
    Trying = Trying
    Err = Err
SPECIFICATION FairSpec
INVARIANTS TypeOK KeptIsThePeer SharedByBoth
PROPERTIES MeetingSettles
CHECK_DEADLOCK FALSE
