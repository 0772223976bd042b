SPECIFICATION Spec
CONSTANTS
    MAX_CLIENT_CONNECTIONS = 3
    Fd = {4, 5, 6, 7}
    Client = {c1, c2, c3, c4, c5}
    None = None
SYMMETRY MC_Symmetry
CHECK_DEADLOCK FALSE
INVARIANTS
    TypeOK
    NoConnectionLost
    WatchedIsOpen
