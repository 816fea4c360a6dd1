\* One blob, all kinds of callers, and a cache directory that changes under them.
SPECIFICATION Spec
CONSTANTS
    Keys = {k1}
    Openers = {o1}
    Readers = {r1}
    Prefetchers = {p1}
    Workers = {w1}
    Verifiers = {v1}
    FileIds = {f1, f2}
    Priorities = {1}
    ExplicitRead = 2
    MaxTampers = 1
    TamperContents = {"good", "bad"}
    TamperWindows = {}
    StopAllowed = FALSE
SYMMETRY Symmetry
INVARIANT TypeOK
INVARIANT VerifiedIsGenuine
INVARIANT OpenedIsGenuine
INVARIANT NoPriorityInversion
INVARIANT WorkNotForgotten
CHECK_DEADLOCK FALSE
