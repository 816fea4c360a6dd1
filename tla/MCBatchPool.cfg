\* Two operations on two pools, one after the other, that shrink and grow.
SPECIFICATION Spec
CONSTANTS
    Procs = {b1, b2}
    Ops = {t1, t2}
    Pools = {p1, p2}
    Sizes = {1, 2}
    FirstSize = 2
SYMMETRY Symmetry
INVARIANT TypeOK
INVARIANT ExclusiveUse
INVARIANT AnswersInOrder
INVARIANT NoOrphanProcess
INVARIANT NoLostWakeup
PROPERTY GrowsWithinMax
CHECK_DEADLOCK FALSE
