SPECIFICATION Spec
CONSTANTS
    Engine = "memory"
    Ids = {t1, t2}
    NoId = NoId
    Clients = {c1, c2}
    MaxRequests = 3
    MaxRestarts = 1
    MaxFaults = 1
    AutoOrganize = TRUE
SYMMETRY Symmetry
INVARIANTS
    ReconciledAfterQuietTick
    RemovedIsForgotten
    OrganizedOnlyWhenFinished
PROPERTIES
    DrainedDeletionIsFinal
