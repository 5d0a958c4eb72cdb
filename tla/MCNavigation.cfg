SPECIFICATION Spec
CONSTANTS
    PathSize = 6
    MaxRefreshes = 2
INVARIANTS
    TypeOK
    HistoryMatchesScreen
    HistoryInBounds
PROPERTIES
    BackReturnsToOpener
