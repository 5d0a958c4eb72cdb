SPECIFICATION Spec
CONSTANTS
    Behaviors = {0, 1}
    PerPage = 1
    RoomsSize = 3
    ListSize = 2
    LightsSize = 3
    ButtonsSize = 6
    U8 = 5
    Groups = {3, 4}
    RoomLights = {2, 3}
    Listed = {1, 2, 3}
    Known = {3, 4}
    TrailLost = TRUE
    MaxRaces = 1
INVARIANTS
    TypeOK
    SelectionSound
    OverrunNeedsRace
    ListReadsInside
    ListComplete
PROPERTIES
    ImplementsSelection
