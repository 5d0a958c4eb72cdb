SPECIFICATION Spec
CONSTANTS
    PathSize = 6
    MaxRefreshes = 0
PROPERTY
    BackAlwaysNavigates
