SPECIFICATION FairSpec
CONSTANTS
    user = user
    root = root
    a = a
    b = b
    c1 = c1
    c2 = c2
    Keys = {user, root}
    UserKey = user
    BakedKeys = {user, root}
    Values = {a, b, Blank}
    Blank = Blank
    NoValue = NoValue
    Config <- MCConfig
    Clients = {c1, c2}
    MaxRequests = 2
    MaxRestarts = 1
    MaxFaults = 1
INVARIANTS
    TypeOK
    SettledOnStored
    NoTornConfigKept

PROPERTIES
    Adopts
CHECK_DEADLOCK FALSE
