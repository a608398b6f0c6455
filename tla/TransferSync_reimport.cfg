SPECIFICATION Spec
CONSTANTS
    Engine = "memory"
    Ids = {t1}
    NoId = NoId
    Clients = {c1}
    MaxRequests = 2
    MaxRestarts = 0
    MaxFaults = 0
    AutoOrganize = TRUE
PROPERTIES
    RemovedStaysRemoved
