\* Four streams of one address are the fewest with which a stream is parked
\* while an older one is on its way from the map to serve_client.
CONSTANTS
    ip = ip
    Streams = {s1, s2, s3, s4}
    Ips = {ip}
    IpOf <- MCIpOf
    None = None
SPECIFICATION FairSpec
INVARIANTS TypeOK BlockedHasSleeper WaitingIsNewest
PROPERTIES WaitingLostToNewerOrTaken AcceptedSettles
CHECK_DEADLOCK FALSE
