SPECIFICATION FairSpec
CONSTANTS
    Callers = {c1, c2}
    Lookups <- MCOneName
    Searched <- MCOneName
    SearchPath <- MCSearchPath
    Ids = {i1}
    Servers = 1
    QueryTimeout = 2
    MaxAttempt = 2
    MaxCopies = 1
    MaxSends = 2
    MaxInFlight = 1
PROPERTIES
    EveryLookupEnds
CHECK_DEADLOCK FALSE
