SPECIFICATION FairSpec
CONSTANTS
    r1 = r1
    r2 = r2
    n1 = n1
    p1 = p1
    Ids = {1, 2}
    Remotes = {r1, r2}
    Paths = {p1}
    Names = {n1}
    Sizes = {1, 2}
    PathOf <- MCPathOf
    NameOf <- MCNameOf
    SizeOf <- MCSizeOf
    Root = Root
    Elsewhere = Elsewhere
    NoFile = NoFile
    Partial = Partial
    Earlier <- MCEarlier
    Clients = {c1}
    MaxRequests = 3
    MaxFaults = 1
INVARIANTS
    FailedIsRefused
PROPERTIES
    
    DeliveryKeepsFiles
    FinishedIsReported
