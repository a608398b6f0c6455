SPECIFICATION BootSpec
CONSTANTS
    p1 = p1
    p2 = p2
    home = home
    elsewhere = elsewhere
    nowhere = nowhere
    ann = ann
    joe = joe
    r0 = r0
    r1 = r1
    r2 = r2
    Procs = {p1, p2}
    None = None
    Empty = Empty
    Junk = Junk
    Dirs = {home, elsewhere, nowhere}
    DefaultDir = home
    WorkDir = nowhere
    RunData = elsewhere
    Unusable = {nowhere}
    Users = {ann, joe}
    Roots = {r0, r1, r2}
    DefaultRoot = r0
    On = On
    Off = Off
    Calls <- MCCalls
    Stored <- MCStored
    Puts <- MCPuts
    Files <- MCFiles
    Edits <- MCEdits
    MaxStarts = 3
    MaxEdits = 1
    MaxPuts = 1
SYMMETRY Symmetry
INVARIANTS
    StartsFromWhatItFound
    TokenReaches
    RootsAgree
    UserChoicesStand
CHECK_DEADLOCK FALSE
