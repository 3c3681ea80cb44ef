\* Lost and reordered snapshots, frames of any duration.
SPECIFICATION SnapshotsSpec
CONSTANTS
    Places <- TwoPlaces
    Delay = 1
    Jump = 2
    Window = 2
    MaxFrame = 2
    MaxTime = 5
    MaxFlight = 2
INVARIANTS
    HistoryInOrder
    NewestKept
    DrawnBetweenNeighbours
