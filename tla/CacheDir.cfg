SPECIFICATION Spec
CONSTANTS
    Keys = {k1, k2}
    Files = {0, 1}
    MaxTime = 2
    MaxLog = 4
    MaxUnlinks = 1
    MaxStarts = 2
    MaxObjects = 3
SYMMETRY KeySymmetry
INVARIANTS
    TypeOK
    LogReplaysIndex
    NumbersAccounted
    OwnFile
    NoNewerRecord
CHECK_DEADLOCK FALSE
