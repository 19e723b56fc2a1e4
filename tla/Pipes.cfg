SPECIFICATION FairSpec
CONSTANTS
    Kinds = {"tcp", "ws", "udp", "http1", "http2"}
    NServes = 2
    NConns <- MCNConns
    Dials = {d}
    Remotes = {r}
    Shutdowns = {s}
    Closes = {k}
    MaxCalls = 3
    None = None
INVARIANTS
    CloseClosesAll
    ShutdownSettles
    LiveAssociation
PROPERTIES
    StopEnds
CHECK_DEADLOCK FALSE
