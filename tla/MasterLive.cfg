\* Lobbies of gone and of silent hosts are removed.
SPECIFICATION FairSpec
CONSTANTS
    p1 = p1
    p2 = p2
    Peers <- TwoPeers
    LobbyTimeout = 1
    CleanupPeriod = 1
    MaxStall = 1
    MaxLobby = 2
    MaxSession = 2
    MaxWire = 1
    Kinds <- HostKinds
PROPERTIES
    GoneHostsAreRemoved
    ListedHostsAreHeard
CHECK_DEADLOCK FALSE
