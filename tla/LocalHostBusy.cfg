\* A port that another program has, against what ENetServer::start says of it.
SPECIFICATION Spec
CONSTANTS
    w1 = w1
    w2 = w2
    Workers <- TwoWorkers
    MaxServers = 1
    Ports = 2
INVARIANTS
    BusyPortIsReported
CHECK_DEADLOCK FALSE
