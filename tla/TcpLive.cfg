SPECIFICATION TcpFairSpec
CONSTANTS
    c1 = c1
    c2 = c2
    c3 = c3
    p1 = p1
    p2 = p2
    r1 = r1
    r2 = r2
    None = None
    Conns = {c1, c2}
    Phones = {p1}
    Requests = {r1}
    MaxChunk = 1
    Speaks <- ReconnectSpeaks
PROPERTIES
    SilentIsClosed
    PushIsAnswered
    HeartbeatRestoresRoute
