SPECIFICATION FairSpec
CONSTANTS
    Conns = {c1, c2}
    Other = Other
    Nobody = Nobody
    MaxTickets = 5
INVARIANTS
    TurnsAccounted GateMatchesLock BusyOnlyForOthers
PROPERTIES
    TurnComes
CHECK_DEADLOCK FALSE
