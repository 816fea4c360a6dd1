CONSTANTS
    Paths = {p, q}
    Handles = {h, k}
    Threads = {t, u}
    MaxInodes = 2
    MaxWrites = 1
    MaxNames = 2
    MaxHeads = 2
    AnyTime = {}
SYMMETRY MCSymmetry
SPECIFICATION Spec
INVARIANTS TypeOK KeepsItsFile ShowsWrites InodeIsFile
CHECK_DEADLOCK FALSE
