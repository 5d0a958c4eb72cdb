SPECIFICATION Spec
CONSTANTS
    Behaviors = {0, 1}
    PerPage = 2
    RoomsSize = 5
    ListSize = 4
    LightsSize = 4
    ButtonsSize = 9
    U8 = 8
    Groups = {5}
    RoomLights = {3}
    Listed = {3}
    Known = {4}
    TrailLost = FALSE
    MaxRaces = 0
INVARIANT
    ButtonsOnScreen
