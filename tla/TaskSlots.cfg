SPECIFICATION SpecSlots
CONSTANTS
    Handlers = {main}
    Tasks = {k1, k2, k3, k4}
    Limit = 2
    MayFail = {"interpreter"}
    CommandLine = TRUE
SYMMETRY ThreadSymmetry
INVARIANTS
    SlotsAccounted WithinLimit DrainComplete NoOversleep
CHECK_DEADLOCK FALSE
