SPECIFICATION Spec
CONSTANTS
    Callers = {c1, c2}
    Lookups <- MCLookups
    Searched <- MCSearched
    SearchPath <- MCSearchPath
    Ids = {i1, i2}
    Servers = 1
    QueryTimeout = 2
    MaxAttempt = 2
    MaxCopies = 2
    MaxSends = 2
    MaxInFlight = 2
SYMMETRY Symmetry
INVARIANTS
    TypeOK
    AnswerRight
    CalledOnce
    NoneOverlooked
CHECK_DEADLOCK FALSE
