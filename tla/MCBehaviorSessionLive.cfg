SPECIFICATION FairSpec
CONSTANTS
    Behaviors <- MCLive
    Kind <- MCKind
    FirstBehavior = 2
    U8 = 2
PROPERTIES
    StopEndsParty
    FiniteSessionEnds
