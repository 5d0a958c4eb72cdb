SPECIFICATION Spec
CONSTANTS
    Behaviors <- MCTwo
    Kind <- MCKind
    FirstBehavior = 0
    U8 = 2
INVARIANT
    EndTogglesStopSession
