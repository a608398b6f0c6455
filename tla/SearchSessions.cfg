SPECIFICATION FairSpec
CONSTANTS
    s1 = s1
    s2 = s2
    h1 = h1
    Ids = {s1, s2, h1}
    HookIds = {h1}
    Clients = {1, 2}
    MaxRequests = 3
    MaxConnects = 2
    MaxRestarts = 1
    MaxFaults = 1
INVARIANTS
    TypeOK
    EndedIsSilent
    ActiveIsAnswered
    RefusedOnlyAcrossClients
PROPERTIES
    EndIsFinal
    SearchesEnd
CHECK_DEADLOCK FALSE
