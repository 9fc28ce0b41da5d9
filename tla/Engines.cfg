SPECIFICATION Spec
CONSTANTS
    AllJumps = FALSE
    AllNames = FALSE
    MaxInputs = 4
    Programs <- MCPrograms
INVARIANTS EnginesAgree HandlersLive
