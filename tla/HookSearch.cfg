SPECIFICATION HookSpec
CONSTANTS
    m1 = m1
    m2 = m2
    m3 = m3
    n1 = n1
    Magnets = {m1, m2, m3, n1}
    Hash <- MCHash
    Sites <- MCSites
    Engines = 3
    Budgets = {0, 2, 3, 4}
    MaxResults = 3
    MaxPage = 3
INVARIANTS
    FirstDistinct
    OutputIsKept
CHECK_DEADLOCK FALSE
