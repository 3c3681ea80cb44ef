\* One slot with two sessions in turn, one player behind the master, three waves.
SPECIFICATION FairSpec
CONSTANTS
    p1 = p1
    r1 = r1
    Public = TRUE
    EnemyCap = 2
    SpawnBase = 0
    SpawnStep = 1
    SpawnCap = 1
    BossEvery = 2
    FirstGap = 2
    GapBase = 1
    GapStep = 0
    MaxWave = 3
    MaxInvited = 1
    MaxTraffic = 1
    MaxWire = 1
    MaxSession = 2
    Peers <- OnePeer
    RelayIds <- OneRelay
    Kinds <- AllKinds
INVARIANTS
    EverySessionIsTold
    RelayPlayersNeedTheMaster
    EmptyWorldIsReset
    EnemiesBounded
PROPERTIES
    IsAttendance
    StopReturns
    WavesGoOn
\* The server stops for good.
CHECK_DEADLOCK FALSE
