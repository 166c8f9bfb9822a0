SPECIFICATION Spec
CONSTANTS
    Clients = {k1, k2, k3}
    Page = 2
    Buf = 2
    HdrSz = 1
    MaxInMem = 2
    Gap = 4
    MaxObject = 6
    MaxLen = 7
    MaxRead = 3
    Lengths = {6}
INVARIANTS
    TypeOK
    AssertionsHold
    BytesInOrder
    ReaderDataKept
    EndMeansWhole
    NobodyForgotten
    DeferHasReader
SYMMETRY ClientSymmetry
