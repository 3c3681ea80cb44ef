\* Building, upgrading and admin commands, and ticks in between: no enemies.
SPECIFICATION FairSpec
CONSTANTS
    DirectIds <- Direct1
    RelayIds <- Relay1
    FirstId = 10
    LastId = 11
    Cells <- TwoCells
    TurretLimit = 1
    WallCost = 1
    TurretCost = 2
    MineCost = 1
    UpgradeCost = 1
    Slots = 1
    PvP = FALSE
    PvPScrap = 1
    Rewards <- NoRewards
    BossReward = 1
    Gift = 2
    BuildTypes <- AllBuildings
    Commands <- BuildCommands
    MaxScrap = 2
    MaxLevel = 2
INVARIANTS
    TypeOK
    IdRanges
    OneBuildingPerCell
    TurretLimitHolds
    OneUninvitedAdmin
PROPERTIES
    DoomedAreRemoved
CHECK_DEADLOCK FALSE
