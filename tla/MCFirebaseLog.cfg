SPECIFICATION Spec
CONSTANTS
    Writers = {touch, dial}
    Starter = touch
    Interval = 1
    Wide = 4
    MaxMessages = 2
INVARIANTS
    TypeOK
    AlonePushedOnce
    FieldsWritten
    LimitExact
PROPERTIES
    LogDrains
