SPECIFICATION FairSpec
CONSTANTS
    f3 = f3  s1 = s1  s2 = s2
    Fibers = {f1, f2, f3}
    Threads = {t1, t2}
    Scheds = {s1, s2}
    SchedOf <- TwoScheds
    Pools = {A}
    Size = 2
    Wants <- WantAll
    Closable = {A}
    Nobody = Nobody
INVARIANTS
    ConnExclusive WaitersExact ThreadsTold
PROPERTY ThreadsServed
CHECK_DEADLOCK FALSE
