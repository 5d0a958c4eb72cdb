SPECIFICATION Spec
CONSTANTS
    Updaters = {u1, u2}
    Step = 2
    StartCount <- MCStartCount
    MaxCount <- MCMaxCount
    U8 = 3
INVARIANTS
    TypeOK
    OverlapPanics
    CountFollowsSetting
    EntriesFilled
PROPERTIES
    CountKeptWhileActive
    WaitingNeedsActiveCopy
