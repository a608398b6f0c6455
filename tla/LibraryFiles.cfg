SPECIFICATION MCSpec
CONSTANTS
    t1 = t1
    t2 = t2
    f1 = f1
    f2 = f2
    f3 = f3
    n1 = n1
    n2 = n2
    s1 = s1
    s2 = s2
    Ids = {t1, t2}
    Files = {f1, f2, f3}
    Owner <- MCOwner
    NameOf <- MCNameOf
    Slots = {s1, s2}
    SlotOf <- MCSlotOf
    NoFile = NoFile
    Partial = Partial
    NoId = NoId
    Clients = {c1}
    MaxJobs = 3
    MaxDeletes = 2
    MaxCrashes = 1
    MaxFaults = 1
    Absent = Absent
    Unknown = Unknown
    CategoryFolder <- MCCategoryFolder
    TvFolder = "TV Shows"
    MoviesFolder = "Movies"
    AnimeFolder = "Anime"
    Values <- MCValues
    Width <- MCWidth
    Tokens <- MCTokens
    Folders <- MCFolders
    Hints <- MCHints
    MaxTokens = 4
INVARIANTS
    CompletedJobMoved
    StaysInLibrary
PROPERTIES
    FilesInCustody
    SeasonKeptTogether
    FilmKeptTogether
CHECK_DEADLOCK FALSE
