SPECIFICATION Spec
CONSTANTS
    Drivers = {"sqlite", "postgres"}
    Writes = {w1, w2}
    MaxTx = 3
    MaxDepth = 3
    MaxLosses = 2
    FailOps = {"write", "begin", "savepoint"}
    ManualOps = {"begin", "commit", "rollback"}
    Catching = {"sqlite", "postgres"}
SYMMETRY WriteSymmetry
INVARIANTS
    OpenMatches AllOrNothing NoEarlyCommit
CHECK_DEADLOCK FALSE
