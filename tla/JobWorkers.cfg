SPECIFICATION Spec
CONSTANTS
    JobProcs = {p1, p2}
    Procs = {p1}
    JobIds = {1}
    MaxRetries = {2}
    MaxRetried = 1
    MaxBusy = 1
    NoJob = NoJob
    TimerIds = {1, 2}
    Repeating = {1}
    PassTimer = 1
    RecoverAll = {TRUE, FALSE}
    MaxKills = 1
INVARIANTS
    ClaimExclusive AttemptsBounded NoUnexplainedClaim SleepCovers CancelHolds
