SPECIFICATION Spec
CONSTANTS
    Behaviors <- MCBehaviors
    Kind <- MCKind
    FirstBehavior = 0
    U8 = 2
INVARIANTS
    TypeOK
    LogObjectRestored
    WritesInsideMessage
PROPERTIES
    TakesTurns
    PanicsNeedCause
