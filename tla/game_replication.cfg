SPECIFICATION LiveSpec
CONSTANTS
    Null = Null
    Dangling = Dangling
    PlayerIds <- NoPlayers
    MaxObject = 2
    MaxRow = 1
    Height = 2
    MaxQueue = 2
    Careful = FALSE
INVARIANTS
    GridsFindObjects
    ClientFollows
    UpdatesNeverThrow

PROPERTIES
    ReportsArrive
CHECK_DEADLOCK FALSE
