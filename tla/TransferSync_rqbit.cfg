SPECIFICATION FairSpec
CONSTANTS
    Engine = "rqbit"
    Ids = {t1}
    NoId = NoId
    Clients = {c1, c2}
    MaxRequests = 3
    MaxRestarts = 1
    MaxFaults = 1
    AutoOrganize = TRUE
PROPERTIES
    StoppedStaysStopped
    Converges
