SPECIFICATION FairSpec
CONSTANTS
    Fibers = {f1, f2}
    Workers = {w1, w2}
    NoFiber = NoFiber
INVARIANTS
    FiberInOnePlace OwnWakeOnly NoLostWakeup
PROPERTIES
    ImplementsPark WaitEnds
CHECK_DEADLOCK FALSE
