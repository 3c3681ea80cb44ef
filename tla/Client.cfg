\* All kinds of players.
SPECIFICATION FairSpec
CONSTANTS
    Players <- Everyone
    Slots <- TwoSlots
    MaxConns <- Attempts
    MaxDrops = 1
INVARIANTS
    NullNeverReset
    NeverDeaf
PROPERTIES
    KnowsOwnId
    NoOrphanPlayer
    EveryPlayerIsNamed
\* The reset of a null server_ ends the program.
CHECK_DEADLOCK FALSE
