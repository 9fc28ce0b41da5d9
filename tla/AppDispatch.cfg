SPECIFICATION Spec
CONSTANTS
    r1 = r1  r2 = r2  r3 = r3  w1 = w1  w2 = w2
    Requests = {r1, r2, r3}
    Workers = {w1, w2}
    WorkerOf <- TwoWorkers
    MaxEdits = 2
    Kinds <- AllKinds
    Environments <- AllEnvironments
    DirectFibers = FALSE
    None = None
INVARIANTS
    OwnContext HandlerOnce NoStaleCopy EditSetUpOnce
