\* Ticks with an enemy, bullets and a mine: two players.
SPECIFICATION Spec
CONSTANTS
    DirectIds <- Direct1
    RelayIds <- Relay1
    FirstId = 10
    LastId = 12
    Cells <- OneCell
    TurretLimit = 1
    WallCost = 0
    TurretCost = 0
    MineCost = 0
    UpgradeCost = 0
    Slots = 1
    PvP = TRUE
    PvPScrap = 1
    Rewards <- OneReward
    BossReward = 1
    Gift = 0
    BuildTypes <- MineTurret
    Commands <- CombatCommands
    MaxScrap = 0
    MaxLevel = 2
INVARIANTS
    OwnersArePlayers
    KillPaidOnce
    StrikesAreBounded
    ArtifactTakenOncePerPlayer
CHECK_DEADLOCK FALSE
