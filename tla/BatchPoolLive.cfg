\* Two operations compete for one process while the store is closed.
SPECIFICATION FairSpec
CONSTANTS
    Procs = {b1, b2}
    Ops = {t1, t2}
    Pools = {p1}
    Sizes = {}
    FirstSize = 1
PROPERTY CloseEndsAll
CHECK_DEADLOCK FALSE
