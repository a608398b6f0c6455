SPECIFICATION Spec
CONSTANTS
    LOG_LINES_PER_FILE = 2
    LOG_FILE_RETENTION = 4
    Sizes = {1, 3}
    MaxLines = 10
    MaxStops = 2
    MaxFaults = 1
    MaxSearches = 1
INVARIANTS
    OnlyOldestGivenUp
    Retention
    SearchFindsRetained
CHECK_DEADLOCK FALSE
