\* Two threads at once, two servers, any ports taken by other programs.
SPECIFICATION FairSpec
CONSTANTS
    w1 = w1
    w2 = w2
    Workers <- TwoWorkers
    MaxServers = 2
    Ports = 2
INVARIANTS
    NothingUndefined
    GoneWithTheGame
    NeverDangling
PROPERTIES
    ThreadsReturn
\* The program ends, by itself or by a fault.
CHECK_DEADLOCK FALSE
