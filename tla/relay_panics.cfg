SPECIFICATION Spec
CONSTANTS
    Conns = {c1, c2, c3}
    Devices = {d1, d2}
    PCPeer = PCPeer
    None = None
    MaxSessions = 2
    MaxConnections = 0
    MaxWrites = 2
    StorePath = TRUE
    Restarts = FALSE
    StaleCodes = FALSE
SYMMETRY Symmetry
INVARIANT NeverPanics
