SPECIFICATION Spec
CONSTANTS
    j1 = j1
    j2 = j2
    zip = zip
    inner = inner
    extra = extra
    song = song
    other = other
    Jobs = {j1, j2}
    Files = {zip, inner, extra, song, other}
    Plans <- MCPlans
    NameOf <- MCNameOf
    Inside <- MCInside
    Start <- MCStart
    Archives = {"z"}
    Policy = "allow"
    Unsafe = Unsafe
    Nothing = Nothing
    Broken = Broken
    MaxRuns = 4
    MaxDrops = 1
    MaxFaults = 1
SYMMETRY MCSymmetry
INVARIANTS
    LaunchedOnce
    OnlyExtractedIsLost
    CompletedIsDelivered
CHECK_DEADLOCK FALSE
