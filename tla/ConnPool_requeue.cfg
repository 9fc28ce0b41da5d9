SPECIFICATION FairSpec
CONSTANTS
    f3 = f3  s1 = s1  s2 = s2
    Fibers = {f1, f3}
    Threads = {}
    Scheds = {s1, s2}
    SchedOf <- TwoScheds
    Pools = {A}
    Size = 1
    Wants <- WantAll
    Closable = {}
    Nobody = Nobody
PROPERTY RequeuedWhenFree
CHECK_DEADLOCK FALSE
