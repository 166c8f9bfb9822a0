SPECIFICATION Spec
CONSTANTS
    Clients = {k1, k2}
    Page = 2
    Buf = 2
    HdrSz = 1
    MaxInMem = 2
    Gap = 4
    MaxObject = 7
    MaxLen = 8
    MaxRead = 3
    Lengths = {7}
INVARIANT
    RePolledForWaiters
