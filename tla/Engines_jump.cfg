SPECIFICATION Spec
CONSTANTS
    AllJumps = TRUE
    AllNames = FALSE
    MaxInputs = 3
    Programs <- MCPrograms
INVARIANT EnginesAgree
