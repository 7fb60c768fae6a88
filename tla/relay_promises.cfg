SPECIFICATION Spec
CONSTANTS
    Conns = {c1, c2, c3}
    Devices = {d1, d2}
    PCPeer = PCPeer
    None = None
    MaxSessions = 3
    MaxConnections = 0
    MaxWrites = 2
    StorePath = FALSE
    Restarts = FALSE
    StaleCodes = FALSE
SYMMETRY Symmetry
INVARIANTS ToldTheTruth OfflineSessionsAreTimed
CHECK_DEADLOCK FALSE
