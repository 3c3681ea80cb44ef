\* Slots change hands while messages wait: two slots, three sessions.
SPECIFICATION Spec
CONSTANTS
    p1 = p1
    p2 = p2
    Peers <- TwoPeers
    LobbyTimeout = 1
    CleanupPeriod = 0
    MaxStall = 0
    MaxLobby = 2
    MaxSession = 3
    MaxWire = 1
    Kinds <- PlayerKinds
INVARIANTS
    DirectoryAccurate
    PacketsReachTheirSession
SYMMETRY PeerSymmetry
CHECK_DEADLOCK FALSE
