\* One blob, two workers: every call returns, Stop returns.
SPECIFICATION FairSpec
CONSTANTS
    Keys = {k1}
    Openers = {o1}
    Readers = {}
    Prefetchers = {}
    Workers = {w1, w2}
    Verifiers = {v1}
    FileIds = {f1, f2}
    Priorities = {1}
    ExplicitRead = 2
    MaxTampers = 0
    TamperContents = {}
    TamperWindows = {}
    StopAllowed = TRUE
INVARIANT OneFetchPerKey
INVARIANT WaitersServed
PROPERTY EveryCallReturns
PROPERTY StopReturns
CHECK_DEADLOCK FALSE
