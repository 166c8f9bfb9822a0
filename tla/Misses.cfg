SPECIFICATION Spec
CONSTANTS
    p1 = p1
    p2 = p2
    Requests = {r1, r2}
    Peers = {p1, p2}
    Fds = {1, 2}
    Routes <- MCRoutes
    MaxTries = 2
    MaxOrigin = 1
    IdleWanted = 1
SYMMETRY RequestSymmetry
INVARIANTS
    TypeOK
    ConnsCounted
    ConnsOwned
    EndedAnswered
PROPERTIES
    RetriedUnseen
    Nearer
CHECK_DEADLOCK FALSE
