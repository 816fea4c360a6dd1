CONSTANTS
    Paths = {p, q}
    Kinds = {"clone", "ref", "prepared", "fixed"}
    Tries = 2
    MaxPushes = 2
    MaxEdits <- MCEdits
    MaxAttempts <- MCAttempts
    MaxFaults = 2
    AnyTime = {}
SPECIFICATION Spec
INVARIANTS TypeOK CommitsKept StagedIsUsers RefusedForCause FixedIsRequired ReceiptIsTrue
PROPERTY DirKept
SYMMETRY Alike
CHECK_DEADLOCK FALSE
