SPECIFICATION Spec
CONSTANTS
    IncArr <- MCIncArr
    DecArr <- MCDecArr
    MaxBrightness = 2
    IncrementSize = 1
    HueGranularity = 1
    TempSteps = 1
    TempStart = 1
    U8 = 3
    U16 = 65536
    Rooms = {1, 2}
    FirstRoom = 1
    RoomLights <- MCRoomLights
    NoRoom = NoRoom
INVARIANTS
    TypeOK
    ActsOnChosen
    AdjustsShownLight
    OnScale
    BulbShowsState
PROPERTIES
    TurnsTheRightWay
    DialFollowsPage
