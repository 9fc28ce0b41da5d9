SPECIFICATION Spec
CONSTANTS
    Conns = {1, 2, 3}
    Script <- MCScript
    IpOf <- MCIpOf
    Submission = {1}
    Fds = {1, 2}
    MaxConn = 2
    MaxPerIp = 1
    MaxErrors = 2
    MaxRcpt = 1
    MaxMsg = 1
    MaxPending = 2
    Workers = 1
    Loopback = {"here"}
    StallAtBanner = FALSE
INVARIANTS
    CountsExact
    SessionInOrder
    NothingStuck
CHECK_DEADLOCK FALSE
