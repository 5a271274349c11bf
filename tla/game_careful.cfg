SPECIFICATION Spec
CONSTANTS
    Null = Null
    Dangling = Dangling
    PlayerIds <- TwoPlayers
    MaxObject = 2
    MaxRow = 1
    Height = 2
    MaxQueue = 1
    Careful = TRUE
INVARIANTS
    TypeOK
    CarefulIsSafe
    LinksStayMutual
