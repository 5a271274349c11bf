SPECIFICATION Spec
CONSTANTS
    Null = Null
    Dangling = Dangling
    PlayerIds <- OnePlayer
    MaxObject = 1
    MaxRow = 1
    Height = 2
    MaxQueue = 3
    Careful = FALSE
INVARIANTS
    CopyIsDefined
CHECK_DEADLOCK FALSE
