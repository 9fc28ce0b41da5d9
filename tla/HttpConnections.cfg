SPECIFICATION Spec
CONSTANTS
    c1 = c1  c2 = c2
    Conns = {c1, c2}
    NumFds = 2
    Actors = {a1}
    None = None
    IpLimit = 2
    MaxConn = 1
    MaxParts = 2
    Talk <- OneTalks
INVARIANTS
    TablesExact DataToOwn CallbacksRight Noticed
PROPERTIES
    NoForeignClose
CHECK_DEADLOCK FALSE
